----------------------------- MODULE ChainProofs -----------------------------
(***************************************************************************)
(* What the indexer and the watcher take from the chain cannot be lost:    *)
(* proofs for every chain, depth, watch and page, and any number of        *)
(* reorganisations, transfers and loops.                                   *)
(***************************************************************************)
EXTENDS WalletWatcher, SettlementIndexer, FiniteSetTheorems, TLAPS

(***************************************************************************)
(* The chain                                                               *)
(***************************************************************************)

\* Gone, SeenAt and Settled after a step.
GoneNext(h, n) == h > head' \/ hash'[h] # n

SeenAtNext(x, h, n) ==
    /\ h \in Heights /\ n \in 0 .. reorgs'
    /\ h > head' => n < reorgs'
    /\ ~GoneNext(h, n) => at'[x] = h

SettledNext(x) == x \in Txs /\ at'[x] \in 1 .. final'

\* What a step of the chain keeps: a block that is gone stays gone, and only a block
\* above the finality line goes.
ChainKeeps ==
    /\ ChainInv'
    /\ final <= final'
    /\ \A x \in Txs : \A h, n :
          SeenAt(x, h, n) => SeenAtNext(x, h, n) /\ (Gone(h, n) => GoneNext(h, n))
    /\ \A h \in Heights : \A n : GoneNext(h, n) => Gone(h, n) \/ h > final'
    /\ \A x \in Settled : SettledNext(x)

LEMMA SettledIs ==
  /\ \A x : x \in Settled <=> x \in Txs /\ at[x] \in 1 .. final
  /\ \A x : x \in Settled' <=> SettledNext(x)
  BY DEF Settled, SettledNext

LEMMA ChainBounds ==
  Depth \in Nat /\ Depth >= 1 /\ MaxHeight \in Nat /\ MaxReorgs \in Nat
  BY ChainAssumption

LEMMA GrowKeeps ==
  ASSUME ChainInv, Grow
  PROVE  ChainKeeps
  <1>1. PICK X \in SUBSET Mempool : at' = [x \in Txs |-> IF x \in X THEN head + 1 ELSE at[x]]
    BY DEF Grow
  <1>2. /\ head \in Nat /\ head < MaxHeight /\ head' = head + 1 /\ reorgs' = reorgs
        /\ hash' = [hash EXCEPT ![head + 1] = reorgs]
        /\ final' = TopOf(final, Minus(head + 1 + 1, Depth))
    BY ChainBounds DEF Grow, ChainInv, FinalAfter
  <1>3. /\ reorgs \in 0 .. MaxReorgs /\ hash \in [Heights -> 0 .. reorgs]
        /\ at \in [Txs -> 0 .. head] /\ final \in 0 .. head
    BY DEF ChainInv
  <1>4. final' \in 0 .. head' /\ final <= final' /\ final' >= Minus(head' + 1, Depth)
    BY <1>2, <1>3, ChainBounds DEF TopOf, Minus
  <1>5. hash' \in [Heights -> 0 .. reorgs']
    BY <1>2, <1>3, ChainBounds DEF Heights
  <1>6. \A x \in Txs : at[x] > 0 => at'[x] = at[x]
    BY <1>1, <1>3 DEF Mempool
  <1>7. at' \in [Txs -> 0 .. head']
    BY <1>1, <1>2, <1>3
  <1>8. ASSUME NEW h \in Heights, NEW n PROVE GoneNext(h, n) => Gone(h, n)
    <2>1. h \in Nat
      BY DEF Heights
    <2>2. h <= head => hash'[h] = hash[h]
      BY <1>2, <1>3, <2>1
    <2> QED BY <1>2, <2>1, <2>2 DEF Gone, GoneNext
  <1>9. ASSUME NEW x \in Txs, NEW h, NEW n, SeenAt(x, h, n)
        PROVE  SeenAtNext(x, h, n) /\ (Gone(h, n) => GoneNext(h, n))
    <2>1. h \in Nat /\ h > 0 /\ h \in Heights /\ n \in 0 .. reorgs
      BY <1>9, ChainBounds DEF SeenAt, Heights
    <2>2. CASE h <= head
      <3>1. hash'[h] = hash[h] /\ ~(h > head) /\ ~(h > head')
        BY <1>2, <1>3, <2>1, <2>2
      <3>2. GoneNext(h, n) <=> Gone(h, n)
        BY <3>1 DEF Gone, GoneNext
      <3>3. ~Gone(h, n) => at'[x] = h
        BY <1>3, <1>6, <1>9, <2>1 DEF SeenAt
      <3> QED BY <1>2, <2>1, <3>1, <3>2, <3>3 DEF SeenAtNext
    <2>3. CASE h = head + 1
      <3>1. hash'[h] = reorgs /\ n < reorgs
        BY <1>2, <1>3, <1>9, <2>1, <2>3 DEF SeenAt
      <3>2. hash'[h] # n
        BY <1>3, <2>1, <3>1
      <3>3. ~(h > head')
        BY <1>2, <2>3
      <3> QED BY <1>2, <2>1, <3>2, <3>3 DEF SeenAtNext, GoneNext
    <2>4. CASE h > head + 1
      <3>1. h > head' /\ n < reorgs'
        BY <1>2, <1>3, <1>9, <2>1, <2>4 DEF SeenAt
      <3> QED BY <1>2, <2>1, <3>1 DEF SeenAtNext, GoneNext
    <2> QED BY <1>2, <2>1, <2>2, <2>3, <2>4
  <1>10. ASSUME NEW x \in Settled PROVE SettledNext(x)
    <2>1. x \in Txs /\ at[x] \in 1 .. final
      BY SettledIs
    <2>2. at'[x] = at[x]
      BY <1>3, <1>6, <2>1
    <2> QED BY <1>3, <1>4, <2>1, <2>2 DEF SettledNext
  <1>11. ChainInv'
    <2>1. head' \in 0 .. MaxHeight
      BY <1>2, ChainBounds
    <2> QED BY <1>2, <1>3, <1>4, <1>5, <1>7, <2>1 DEF ChainInv
  <1> QED BY <1>4, <1>8, <1>9, <1>10, <1>11 DEF ChainKeeps

\* Blocks past the finality line stay, and so what is in them.
LEMMA ReorgKeeps ==
  ASSUME ChainInv, Reorg
  PROVE  ChainKeeps
  <1>1. /\ reorgs \in Nat /\ reorgs < MaxReorgs /\ reorgs' = reorgs + 1 /\ final' = final
        /\ hash \in [Heights -> 0 .. reorgs] /\ at \in [Txs -> 0 .. head]
        /\ head \in 0 .. MaxHeight /\ final \in 0 .. head
        /\ final >= Minus(head + 1, Depth)
    BY ChainBounds DEF Reorg, ChainInv
  <1>2. \E h \in final + 1 .. head, top \in {head, Minus(head, 1)} :
          /\ h <= top + 1
          /\ head' = top
          /\ hash' = [k \in Heights |-> IF k >= h /\ k <= top THEN reorgs + 1 ELSE hash[k]]
          /\ \E place \in [{x \in Txs : at[x] = 0 \/ at[x] >= h} -> {0} \cup h .. top] :
                at' = [x \in Txs |-> IF x \in DOMAIN place THEN place[x] ELSE at[x]]
    BY DEF Reorg
  <1>3. PICK h \in final + 1 .. head, top \in {head, Minus(head, 1)} :
          /\ h <= top + 1
          /\ head' = top
          /\ hash' = [k \in Heights |-> IF k >= h /\ k <= top THEN reorgs + 1 ELSE hash[k]]
          /\ \E place \in [{x \in Txs : at[x] = 0 \/ at[x] >= h} -> {0} \cup h .. top] :
                at' = [x \in Txs |-> IF x \in DOMAIN place THEN place[x] ELSE at[x]]
    BY <1>2
  <1>4. PICK place \in [{x \in Txs : at[x] = 0 \/ at[x] >= h} -> {0} \cup h .. top] :
          at' = [x \in Txs |-> IF x \in DOMAIN place THEN place[x] ELSE at[x]]
    BY <1>3
  <1>5. top \in Nat /\ top <= head /\ h \in Nat /\ h > 0 /\ h > final /\ h <= top + 1
        /\ final <= top
    BY <1>1, <1>3, ChainBounds DEF Minus
  <1>6. \A x \in Txs : at[x] > 0 /\ at[x] < h => at'[x] = at[x]
    BY <1>1, <1>4, <1>5
  <1>7. at' \in [Txs -> 0 .. head']
    <2> SUFFICES ASSUME NEW x \in Txs PROVE at'[x] \in 0 .. head'
      BY <1>4
    <2>1. CASE at[x] = 0 \/ at[x] >= h
      <3>1. place[x] \in {0} \cup h .. top /\ at'[x] = place[x]
        BY <1>4, <2>1
      <3> QED BY <1>3, <1>5, <3>1
    <2>2. CASE ~(at[x] = 0 \/ at[x] >= h)
      <3>1. at'[x] = at[x] /\ at[x] \in 0 .. head /\ ~(at[x] >= h)
        BY <1>1, <1>4, <2>2
      <3> QED BY <1>1, <1>3, <1>5, <3>1
    <2> QED BY <2>1, <2>2
  <1>8. hash' \in [Heights -> 0 .. reorgs']
    BY <1>1, <1>3
  <1>9. final' >= Minus(head' + 1, Depth)
    BY <1>1, <1>3, <1>5, ChainBounds DEF Minus
  <1>10. ChainInv'
    BY <1>1, <1>3, <1>5, <1>7, <1>8, <1>9, ChainBounds DEF ChainInv
  <1>11. ASSUME NEW k \in Heights, NEW n PROVE GoneNext(k, n) => Gone(k, n) \/ k > final'
    <2>1. k \in Nat
      BY DEF Heights
    <2>2. k <= final => hash'[k] = hash[k] /\ ~(k > head')
      BY <1>1, <1>3, <1>5, <2>1
    <2> QED BY <1>1, <2>1, <2>2 DEF Gone, GoneNext
  <1>12. ASSUME NEW x \in Txs, NEW k, NEW n, SeenAt(x, k, n)
         PROVE  SeenAtNext(x, k, n) /\ (Gone(k, n) => GoneNext(k, n))
    <2>1. k \in Nat /\ k > 0 /\ k \in Heights /\ n \in 0 .. reorgs
      BY <1>12, ChainBounds DEF SeenAt, Heights
    <2>2. n \in 0 .. reorgs' /\ n < reorgs'
      BY <1>1, <2>1
    <2>3. CASE k < h
      <3>1. hash'[k] = hash[k] /\ k <= head /\ k <= head'
        BY <1>1, <1>3, <1>5, <2>1, <2>3
      <3>2. GoneNext(k, n) <=> Gone(k, n)
        BY <1>1, <1>3, <1>5, <2>1, <3>1 DEF Gone, GoneNext
      <3>3. ~Gone(k, n) => at'[x] = k
        BY <1>6, <1>12, <2>1, <2>3 DEF SeenAt
      <3> QED BY <2>1, <2>2, <3>2, <3>3 DEF SeenAtNext
    <2>4. CASE k >= h /\ k <= top
      <3>1. hash'[k] = reorgs + 1
        BY <1>3, <2>1, <2>4
      <3>2. hash'[k] # n
        BY <1>1, <2>1, <3>1
      <3> QED BY <2>1, <2>2, <3>2 DEF SeenAtNext, GoneNext
    <2>5. CASE k > top
      BY <1>3, <2>1, <2>2, <2>5 DEF SeenAtNext, GoneNext
    <2> QED BY <1>5, <2>1, <2>3, <2>4, <2>5
  <1>13. ASSUME NEW x \in Settled PROVE SettledNext(x)
    <2>1. x \in Txs /\ at[x] \in 1 .. final
      BY SettledIs
    <2>2. at[x] > 0 /\ at[x] < h
      BY <1>1, <1>5, <2>1
    <2> QED BY <1>1, <1>6, <2>1, <2>2 DEF SettledNext
  <1> QED BY <1>1, <1>10, <1>11, <1>12, <1>13 DEF ChainKeeps

\* The verdict CONFIRMED on a row is true.
LEMMA ConfirmedIsSettled ==
  ASSUME ChainInv, NEW x \in Txs, NEW row, SeenAt(x, row.height, row.hash),
         NEW top \in Nat, final >= Minus(top + 1, Depth),
         Classify(row, top) = "CONFIRMED"
  PROVE  x \in Settled /\ ~Gone(row.height, row.hash)
  <1> DEFINE h == row.height
  <1>1. h \in Nat /\ h > 0 /\ h <= MaxHeight /\ head \in Nat /\ final \in Nat
    BY ChainBounds DEF SeenAt, Heights, ChainInv
  <1>2. ~(h > head) /\ hash[h] = row.hash /\ DeepEnough(h, top)
    BY DEF Classify
  <1>3. ~Gone(h, row.hash) /\ at[x] = h
    BY <1>2 DEF SeenAt, Gone
  <1> HIDE DEF h
  <1>4. h <= top /\ top - h + 1 >= Depth
    BY <1>1, <1>2, ChainBounds DEF DeepEnough, Confirmations
  <1>5. h <= final
    BY <1>1, <1>4, ChainBounds DEF Minus
  <1>6. x \in Settled
    BY <1>1, <1>3, <1>5, SettledIs
  <1> QED BY <1>3, <1>6 DEF h

LEMMA Verdicts ==
  ASSUME NEW row, NEW top
  PROVE  Classify(row, top) \in {"PENDING", "CONFIRMED", "ORPHANED"}
  BY DEF Classify

(***************************************************************************)
(* The indexer: the parts of its invariant                                 *)
(***************************************************************************)
EventRows == [status : {"NONE", "PENDING", "CONFIRMED", "ORPHANED"}, height : 0 .. MaxHeight,
              hash : 0 .. MaxReorgs, done : BOOLEAN]

EventsOK == event \in [Settlements -> EventRows] /\ \A x \in Settlements : SeenRow(x, event[x])

\* What a job of the loop may hold.
PassOK(i) ==
    /\ i.top \in 0 .. MaxHeight /\ i.start \in 0 .. MaxHeight
    /\ final >= Minus(i.top + 1, Depth)
    /\ \A j \in i.rows :
          /\ j.id \in Settlements /\ SeenRow(j.id, j.row) /\ j.row.status # "NONE"
          /\ event[j.id].status # "NONE"
          /\ i.pc \in {"handing", "marking"} => j.id \in Settled
    /\ \A u \in i.updates :
          /\ u.id \in Settlements
          /\ i.pc = "probing" =>
                /\ u.status \in {"PENDING", "CONFIRMED", "ORPHANED"}
                /\ event[u.id].status # "NONE"
                /\ u.status = "CONFIRMED" => u.id \in Settled

RestOK ==
    /\ scanned \in 0 .. MaxHeight /\ failures \in 0 .. MaxFailures
    /\ completed \subseteq Settlements \ Strangers /\ completed \subseteq Settled
    /\ refused \subseteq Settlements \ Strangers

LEMMA IndexerParts ==
  /\ IndexerInv <=> ChainInv /\ EventsOK /\ PassOK(index) /\ RestOK
  /\ IndexerInv' <=> ChainInv' /\ EventsOK' /\ PassOK(index)' /\ RestOK'
  <1>1. IndexerInv => ChainInv /\ EventsOK /\ PassOK(index) /\ RestOK
    BY DEF IndexerInv, CompletedFromChain, IndexerTypeOK, EventsOK, EventRows, PassOK, RestOK
  <1>2. ChainInv /\ EventsOK /\ PassOK(index) /\ RestOK => IndexerInv
    BY DEF IndexerInv, CompletedFromChain, IndexerTypeOK, EventsOK, EventRows, PassOK, RestOK
  <1>3. IndexerInv <=> ChainInv /\ EventsOK /\ PassOK(index) /\ RestOK
    BY <1>1, <1>2
  <1> QED BY <1>3, PTL

Tells == ChainInv /\ EventsOK /\ PassOK(index) /\ RestOK

\* A row's claims and a settlement's finality outlast a step of the chain.
LEMMA MovingInv ==
  ASSUME IndexerInv, IndexerMoving
  PROVE  IndexerInv'
  <1>1. ChainKeeps /\ UNCHANGED <<event, scanned, index, completed, refused, failures>>
    BY GrowKeeps, ReorgKeeps, IndexerParts DEF IndexerMoving
  <1>2. Tells /\ Settlements = Txs
    BY IndexerParts, IndexerAssumption DEF Tells
  <1>3. \A x \in Settled : x \in Settled'
    BY <1>1, SettledIs DEF ChainKeeps
  <1>4. ASSUME NEW x \in Settlements, NEW r, SeenRow(x, r) PROVE SeenRow(x, r)'
    BY <1>1, <1>2, <1>3, <1>4 DEF SeenRow, ChainKeeps, SeenAt, SeenAtNext, Gone, GoneNext
  <1>5. EventsOK'
    BY <1>1, <1>2, <1>4 DEF Tells, EventsOK
  <1>6. final' >= Minus(index.top + 1, Depth)
    BY <1>1, <1>2, ChainBounds DEF ChainKeeps, Tells, PassOK, ChainInv, Minus
  <1>7. PassOK(index)'
    BY <1>1, <1>2, <1>3, <1>4, <1>6 DEF Tells, PassOK
  <1>8. RestOK'
    BY <1>1, <1>2, <1>3 DEF Tells, RestOK
  <1> QED BY <1>1, <1>5, <1>7, <1>8, IndexerParts DEF ChainKeeps

\* A step of a loop leaves the chain alone.
LEMMA ChainStays ==
  ASSUME UNCHANGED chain
  PROVE  /\ \A h, n : Gone(h, n)' <=> Gone(h, n)
         /\ \A x, h, n : SeenAt(x, h, n)' <=> SeenAt(x, h, n)
         /\ \A x, r : SeenRow(x, r)' <=> SeenRow(x, r)
         /\ Settled' = Settled /\ ChainInv' = ChainInv
         /\ UNCHANGED <<head, hash, at, final, reorgs>>
  BY DEF chain, Gone, SeenAt, SeenRow, Settled, ChainInv

\* Steps that write no row.
LEMMA PassMoves ==
  ASSUME IndexerInv, UNCHANGED <<chain, event>>, PassOK(index'), RestOK'
  PROVE  IndexerInv'
  <1>1. Tells
    BY IndexerParts DEF Tells
  <1>2. EventsOK'
    BY <1>1, ChainStays DEF Tells, EventsOK
  <1>3. PassOK(index)'
    BY ChainStays DEF PassOK
  <1> QED BY <1>1, <1>2, <1>3, ChainStays, IndexerParts DEF Tells

LEMMA RestStays ==
  ASSUME IndexerInv, UNCHANGED <<chain, scanned, completed, refused, failures>>
  PROVE  RestOK'
  BY IndexerParts, ChainStays DEF RestOK

LEMMA StartInv ==
  ASSUME IndexerInv, IndexStart
  PROVE  IndexerInv'
  <1>1. Tells
    BY IndexerParts DEF Tells
  <1>2. PassOK(index')
    BY <1>1 DEF IndexStart, Index, PassOK, Tells, ChainInv, RestOK
  <1> QED BY <1>2, PassMoves, RestStays DEF IndexStart

\* What is recorded is what the chain shows.
LEMMA RecordsInv ==
  ASSUME IndexerInv, NEW X \in SUBSET Settlements, \A x \in X : at[x] > 0, Records(X),
         NEW pc \in {"reading", "listing"}, Step(pc, {}, {}),
         UNCHANGED <<chain, scanned, completed, refused>>, failures' \in 0 .. MaxFailures
  PROVE  IndexerInv'
  <1>1. Tells /\ Settlements = Txs
    BY IndexerParts, IndexerAssumption DEF Tells
  <1>2. /\ head \in 0 .. MaxHeight /\ reorgs \in 0 .. MaxReorgs
        /\ hash \in [Heights -> 0 .. reorgs] /\ at \in [Txs -> 0 .. head]
    BY <1>1 DEF Tells, ChainInv
  <1>3. ASSUME NEW x \in X PROVE Logged(at[x]) \in EventRows /\ SeenRow(x, Logged(at[x]))
    <2>1. at[x] \in Heights /\ at[x] <= head /\ x \in Txs
      BY <1>1, <1>2, ChainBounds DEF Heights
    <2>2. hash[at[x]] \in 0 .. reorgs
      BY <1>2, <2>1
    <2>3. Logged(at[x]) \in EventRows
      BY <1>2, <2>1, <2>2, ChainBounds DEF Logged, EventRows, Heights
    <2>4. ~(at[x] > head)
      BY <1>2, <2>1
    <2>5. SeenAt(x, at[x], hash[at[x]])
      BY <2>1, <2>2, <2>4 DEF SeenAt
    <2> QED BY <2>3, <2>5 DEF SeenRow, Logged
  <1>4. \A x \in Settlements :
           event'[x] = event[x] \/ (x \in X /\ event'[x] = Logged(at[x]))
    BY DEF Records
  <1>5. EventsOK'
    <2>1. event' \in [Settlements -> EventRows]
      BY <1>1, <1>3 DEF Records, Tells, EventsOK
    <2>2. \A x \in Settlements : SeenRow(x, event'[x])
      BY <1>1, <1>3, <1>4 DEF Tells, EventsOK
    <2> QED BY <2>1, <2>2, ChainStays DEF EventsOK
  <1>6. PassOK(index)'
    BY <1>1, ChainStays DEF Step, Index, PassOK, Tells
  <1>7. RestOK'
    BY <1>1, ChainStays DEF RestOK, Tells
  <1> QED BY <1>1, <1>5, <1>6, <1>7, ChainStays, IndexerParts DEF Tells

LEMMA ScanInv ==
  ASSUME IndexerInv, ScanLogs \/ ReadReceipts
  PROVE  IndexerInv'
  <1>0. failures' \in 0 .. MaxFailures
    <2>1. failures \in 0 .. MaxFailures /\ MaxFailures \in Nat
      BY IndexerParts, IndexerAssumption DEF RestOK
    <2>2. failures' = failures \/ (failures < MaxFailures /\ failures' = failures + 1)
      BY DEF ScanLogs, ReadReceipts
    <2> QED BY <2>1, <2>2
  <1>1. CASE ScanLogs
    <2> DEFINE X == {x \in Settlements : at[x] \in index.start + 1 .. IndexTo}
    <2>1. \A x \in X : at[x] > 0
      <3>1. index.start \in Nat
        BY IndexerParts, ChainBounds DEF PassOK
      <3>2. \A x \in X : at[x] \in Int /\ at[x] >= index.start + 1
        OBVIOUS
      <3> QED BY <3>1, <3>2
    <2> QED BY <1>0, <1>1, <2>1, RecordsInv DEF ScanLogs
  <1>2. CASE ReadReceipts
    <2>1. PICK X \in SUBSET Unindexed : Records({x \in X : at[x] > 0})
      BY <1>2 DEF ReadReceipts
    <2>2. {x \in X : at[x] > 0} \in SUBSET Settlements
      BY <2>1, IndexerAssumption DEF Unindexed
    <2> QED BY <1>0, <1>2, <2>1, <2>2, RecordsInv DEF ReadReceipts
  <1> QED BY <1>1, <1>2

LEMMA ListInv ==
  ASSUME IndexerInv, ListEvents
  PROVE  IndexerInv'
  <1>1. Tells
    BY IndexerParts DEF Tells
  <1>2. PICK S \in SUBSET Settlements :
          /\ OldestOf({x \in Settlements : event[x].status \in {"PENDING", "CONFIRMED"}}, S)
          /\ Step("probing", {Listed(x) : x \in {x \in S : JudgedEvent(x)}}, {})
    BY DEF ListEvents
  <1>3. \A x \in S : event[x].status # "NONE" /\ SeenRow(x, event[x])
    BY <1>1, <1>2 DEF OldestOf, Tells, EventsOK
  <1>4. PassOK(index')
    BY <1>1, <1>2, <1>3 DEF Step, Index, Listed, PassOK, Tells
  <1> QED BY <1>4, PassMoves, RestStays DEF ListEvents

\* A confirmation is written only of what the chain past the finality line holds.
LEMMA ProbeInv ==
  ASSUME IndexerInv, ProbeEvents
  PROVE  IndexerInv'
  <1>1. Tells /\ Settlements = Txs
    BY IndexerParts, IndexerAssumption DEF Tells
  <1>2. PICK js \in SUBSET index.rows :
          Step("probing", index.rows \ js, index.updates \cup
               {Written(j.id, Classify(j.row, index.top)) :
                    j \in {j \in js : Classify(j.row, index.top) # j.row.status}})
    BY DEF ProbeEvents
  <1>3. ASSUME NEW j \in index.rows
        PROVE  /\ j.id \in Settlements
               /\ Classify(j.row, index.top) \in {"PENDING", "CONFIRMED", "ORPHANED"}
               /\ Classify(j.row, index.top) = "CONFIRMED" => j.id \in Settled
    <2>1. j.id \in Settlements /\ SeenAt(j.id, j.row.height, j.row.hash)
      BY <1>1 DEF Tells, PassOK, SeenRow
    <2>2. index.top \in Nat /\ final >= Minus(index.top + 1, Depth) /\ ChainInv
      BY <1>1, ChainBounds DEF Tells, PassOK
    <2> QED BY <1>1, <2>1, <2>2, ConfirmedIsSettled, Verdicts
  <1>4. index' = Index("probing", index.top, index.start, index.rows \ js, index.updates \cup
               {Written(j.id, Classify(j.row, index.top)) :
                    j \in {j \in js : Classify(j.row, index.top) # j.row.status}})
    BY <1>2 DEF Step
  <1>5. \A u \in index'.updates :
           \/ u \in index.updates
           \/ \E j \in index.rows : u = Written(j.id, Classify(j.row, index.top))
    BY <1>4 DEF Index
  <1>6. /\ index'.top = index.top /\ index'.start = index.start /\ index'.pc = "probing"
        /\ index'.rows \subseteq index.rows /\ index.pc = "probing"
    BY <1>4 DEF Index, ProbeEvents, Stands
  <1>7. PassOK(index')
    <2>1. PassOK(index)
      BY <1>1 DEF Tells
    <2>2. ASSUME NEW u \in index'.updates
          PROVE  /\ u.id \in Settlements
                 /\ u.status \in {"PENDING", "CONFIRMED", "ORPHANED"}
                 /\ event[u.id].status # "NONE"
                 /\ u.status = "CONFIRMED" => u.id \in Settled
      <3>1. CASE u \in index.updates
        BY <1>6, <2>1, <3>1 DEF PassOK
      <3>2. ASSUME NEW j \in index.rows, u = Written(j.id, Classify(j.row, index.top))
            PROVE  /\ u.id \in Settlements
                   /\ u.status \in {"PENDING", "CONFIRMED", "ORPHANED"}
                   /\ event[u.id].status # "NONE"
                   /\ u.status = "CONFIRMED" => u.id \in Settled
        BY <1>3, <2>1, <3>2 DEF PassOK, Written
      <3> QED BY <1>5, <3>1, <3>2
    <2>3. ASSUME NEW j \in index'.rows PROVE
              /\ j.id \in Settlements /\ SeenRow(j.id, j.row) /\ j.row.status # "NONE"
              /\ event[j.id].status # "NONE"
      BY <1>6, <2>1 DEF PassOK
    <2> QED BY <1>6, <2>1, <2>2, <2>3 DEF PassOK
  <1> QED BY <1>7, PassMoves, RestStays DEF ProbeEvents

LEMMA UpdateInv ==
  ASSUME IndexerInv, UpdateEvent
  PROVE  IndexerInv'
  <1>1. Tells
    BY IndexerParts DEF Tells
  <1>2. PICK u \in index.updates :
          /\ event' = [event EXCEPT ![u.id].status = u.status]
          /\ Step("probing", {}, index.updates \ {u})
    BY DEF UpdateEvent
  <1>3. /\ u.id \in Settlements /\ event[u.id].status # "NONE"
        /\ u.status \in {"PENDING", "CONFIRMED", "ORPHANED"}
        /\ u.status = "CONFIRMED" => u.id \in Settled
    BY <1>1 DEF Tells, PassOK, UpdateEvent, Stands
  <1>4. event \in [Settlements -> EventRows] /\ \A x \in Settlements : SeenRow(x, event[x])
    BY <1>1 DEF Tells, EventsOK
  <1>5. event' \in [Settlements -> EventRows]
    BY <1>2, <1>3, <1>4 DEF EventRows
  <1>6. \A x \in Settlements :
          /\ event'[x].height = event[x].height /\ event'[x].hash = event[x].hash
          /\ event'[x].status = IF x = u.id THEN u.status ELSE event[x].status
    BY <1>2, <1>3, <1>4 DEF EventRows
  <1>7. \A x \in Settlements : SeenRow(x, event'[x])
    BY <1>3, <1>4, <1>6 DEF SeenRow
  <1>8. EventsOK'
    BY <1>5, <1>7, ChainStays DEF EventsOK, UpdateEvent
  <1>9. /\ index'.top = index.top /\ index'.start = index.start /\ index'.pc = "probing"
        /\ index'.rows = {} /\ index'.updates \subseteq index.updates /\ index.pc = "probing"
    BY <1>2 DEF Step, Index, UpdateEvent, Stands
  <1>10. PassOK(index)'
    BY <1>1, <1>3, <1>6, <1>9, ChainStays DEF Tells, PassOK, UpdateEvent
  <1> QED BY <1>1, <1>8, <1>10, ChainStays, RestStays, IndexerParts DEF Tells, UpdateEvent

LEMMA ListCompletableInv ==
  ASSUME IndexerInv, ListCompletable
  PROVE  IndexerInv'
  <1>1. Tells
    BY IndexerParts DEF Tells
  <1>2. PICK S \in SUBSET Settlements :
          /\ OldestOf({x \in Settlements : Completable(x)}, S)
          /\ Step("handing", {Listed(x) : x \in S}, {})
    BY DEF ListCompletable
  <1>3. \A x \in S : event[x].status # "NONE" /\ SeenRow(x, event[x]) /\ x \in Settled
    BY <1>1, <1>2 DEF OldestOf, Completable, Tells, EventsOK, SeenRow
  <1>4. PassOK(index')
    BY <1>1, <1>2, <1>3 DEF Step, Index, Listed, PassOK, Tells
  <1> QED BY <1>4, PassMoves, RestStays DEF ListCompletable

LEMMA HandInv ==
  ASSUME IndexerInv, Hand
  PROVE  IndexerInv'
  <1>1. Tells
    BY IndexerParts DEF Tells
  <1>2. PICK j \in index.rows :
          /\ \/ /\ completed' = IF j.id \in Strangers THEN completed ELSE completed \cup {j.id}
                /\ UNCHANGED <<refused, failures>>
             \/ /\ j.id \notin Strangers /\ failures < MaxFailures
                /\ refused' = refused \cup {j.id} /\ failures' = failures + 1
                /\ UNCHANGED completed
          /\ Step("marking", index.rows, {Written(j.id, "DONE")})
    BY DEF Hand
  <1>3. j.id \in Settlements /\ j.id \in Settled
    BY <1>1 DEF Tells, PassOK, Hand, Stands
  <1>4. PassOK(index')
    BY <1>1, <1>2, <1>3 DEF Step, Index, Written, PassOK, Tells, Hand, Stands
  <1>5. RestOK'
    <2>1. failures' \in 0 .. MaxFailures
      BY <1>1, <1>2, IndexerAssumption DEF RestOK, Tells
    <2> QED BY <1>1, <1>2, <1>3, <2>1, ChainStays DEF RestOK, Tells, Hand
  <1> QED BY <1>4, <1>5, PassMoves DEF Hand

LEMMA MarkInv ==
  ASSUME IndexerInv, MarkCompleted
  PROVE  IndexerInv'
  <1>1. Tells
    BY IndexerParts DEF Tells
  <1>2. PICK u \in index.updates :
          /\ event' = [event EXCEPT ![u.id].done = TRUE]
          /\ Step("handing", {j \in index.rows : j.id # u.id}, {})
    BY DEF MarkCompleted
  <1>3. u.id \in Settlements
    BY <1>1 DEF Tells, PassOK
  <1>4. event \in [Settlements -> EventRows] /\ \A x \in Settlements : SeenRow(x, event[x])
    BY <1>1 DEF Tells, EventsOK
  <1>5. event' \in [Settlements -> EventRows]
    BY <1>2, <1>3, <1>4 DEF EventRows
  <1>6. \A x \in Settlements :
          /\ event'[x].height = event[x].height /\ event'[x].hash = event[x].hash
          /\ event'[x].status = event[x].status
    BY <1>2, <1>3, <1>4 DEF EventRows
  <1>7. \A x \in Settlements : SeenRow(x, event'[x])
    BY <1>4, <1>6 DEF SeenRow
  <1>8. EventsOK'
    BY <1>5, <1>7, ChainStays DEF EventsOK, MarkCompleted
  <1>9. /\ index'.top = index.top /\ index'.start = index.start /\ index'.pc = "handing"
        /\ index'.rows \subseteq index.rows /\ index'.updates = {} /\ index.pc = "marking"
    BY <1>2 DEF Step, Index, MarkCompleted, Stands
  <1>10. PassOK(index)'
    BY <1>1, <1>6, <1>9, ChainStays DEF Tells, PassOK, MarkCompleted
  <1> QED BY <1>1, <1>8, <1>10, ChainStays, RestStays, IndexerParts DEF Tells, MarkCompleted

\* A pass ends, or dies.
LEMMA EndInv ==
  ASSUME IndexerInv, SetScanned \/ IndexFails
  PROVE  IndexerInv'
  <1>1. Tells
    BY IndexerParts DEF Tells
  <1>2. index' = NoIndex /\ UNCHANGED <<chain, event, completed, refused>>
    BY DEF SetScanned, IndexFails
  <1>3. PassOK(index')
    <2>1. final \in Nat /\ Minus(1, Depth) = 0
      BY <1>1, ChainBounds DEF Tells, ChainInv, Minus
    <2> QED BY <1>2, <2>1, ChainBounds DEF NoIndex, Index, PassOK
  <1>4. RestOK'
    <2>1. CASE SetScanned
      <3>1. scanned \in 0 .. MaxHeight /\ index.top \in 0 .. MaxHeight /\ index.start \in 0 .. MaxHeight
        BY <1>1 DEF Tells, RestOK, PassOK
      <3>2. IndexTo \in 0 .. MaxHeight
        BY <3>1, ChainBounds, IndexerAssumption DEF IndexTo, LowOf
      <3>3. scanned' \in 0 .. MaxHeight
        BY <2>1, <3>1, <3>2 DEF SetScanned, TopOf
      <3> QED BY <1>1, <1>2, <2>1, <3>3, ChainStays DEF RestOK, Tells, SetScanned
    <2>2. CASE IndexFails
      <3>1. failures' \in 0 .. MaxFailures
        BY <1>1, <2>2, IndexerAssumption DEF Tells, RestOK, IndexFails
      <3> QED BY <1>1, <1>2, <2>2, <3>1, ChainStays DEF RestOK, Tells, IndexFails
    <2> QED BY <2>1, <2>2
  <1> QED BY <1>2, <1>3, <1>4, PassMoves

LEMMA InitInv == IndexerInit => IndexerInv
  <1> SUFFICES ASSUME IndexerInit PROVE IndexerInv
    OBVIOUS
  <1>1. Minus(1, Depth) = 0
    BY ChainBounds DEF Minus
  <1>2. ChainInv
    BY <1>1, ChainBounds DEF IndexerInit, ChainInit, ChainInv
  <1>3. EventsOK
    BY ChainBounds DEF IndexerInit, EventsOK, EventRows, NoEvent, SeenRow
  <1>4. PassOK(index)
    BY <1>1, ChainBounds DEF IndexerInit, ChainInit, PassOK, NoIndex, Index
  <1>5. RestOK
    BY ChainBounds, IndexerAssumption DEF IndexerInit, RestOK
  <1> QED BY <1>2, <1>3, <1>4, <1>5, IndexerParts

LEMMA StillInv ==
  ASSUME IndexerInv, UNCHANGED indexer
  PROVE  IndexerInv'
  <1>1. Tells /\ UNCHANGED <<chain, event, scanned, index, completed, refused, failures>>
    BY IndexerParts DEF Tells, indexer
  <1>2. PassOK(index')
    BY <1>1 DEF Tells
  <1> QED BY <1>1, <1>2, PassMoves, RestStays

LEMMA NextInv ==
  ASSUME IndexerInv, [IndexerNext]_indexer
  PROVE  IndexerInv'
  <1>1. CASE Indexing
    BY <1>1, StartInv, ScanInv, ListInv, ProbeInv, UpdateInv, ListCompletableInv, HandInv,
       MarkInv, EndInv DEF Indexing
  <1> QED BY <1>1, MovingInv, EndInv, StillInv DEF IndexerNext

(***************************************************************************)
(* The theorems of the indexer                                             *)
(***************************************************************************)

\* What the rows and the copies a pass works from say was seen on the chain; a
\* verdict made from an old copy and an old head is still true when it is written.
THEOREM IndexerInvHolds == IndexerSpec => []IndexerInv
  BY InitInv, NextInv, PTL DEF IndexerSpec

\* The engine completes a payment only for a settlement past the finality line.
THEOREM CompletionsAreFinal == IndexerSpec => []CompletedFromChain
  <1>1. IndexerInv => CompletedFromChain
    BY DEF IndexerInv
  <1> QED BY <1>1, IndexerInvHolds, PTL

(***************************************************************************)
(* The watcher: what its operators return                                  *)
(***************************************************************************)
LEMMA WatcherBounds ==
  /\ Required \in Nat /\ Required >= 1 /\ BlockRange \in Nat /\ MaxErrors \in Nat
  /\ Deposits = Txs /\ IsFiniteSet(Deposits) /\ Cardinality(Deposits) \in Nat
  /\ AssetOf \in [Deposits -> Assets] /\ Balanced \subseteq Assets
  /\ Deposits \cap Notes = {} /\ Deposits \subseteq Rows /\ Notes \subseteq Rows
  /\ Rows = Deposits \cup Notes
  BY WatcherAssumption, FS_CardinalityType DEF Rows

LEMMA Reach == Depth * Window \in Nat /\ Depth <= Depth * Window
  <1>1. Depth \in Nat /\ Window \in Nat /\ Window >= 1
    BY ChainAssumption
  <1> QED BY <1>1

\* Only what is above the finality line can be too young for the reorg watch to end.
LEMMA NearIsWatched ==
  ASSUME NEW h \in Heights, NEW top \in Nat, NEW f \in Nat, f >= Minus(top + 1, Depth), h > f
  PROVE  InReorgWatch(h, top)
  <1>1. h \in Nat
    BY DEF Heights
  <1>2. Confirmations(h, top) \in Nat /\ Confirmations(h, top) <= Depth
    BY <1>1, ChainBounds DEF Confirmations, Minus
  <1> QED BY <1>2, Reach, ChainBounds DEF InReorgWatch

LEMMA FarIsFinal ==
  ASSUME NEW h \in Heights, NEW top \in Nat, NEW f \in Nat, f >= Minus(top + 1, Depth),
         ~InReorgWatch(h, top)
  PROVE  h <= f
  BY NearIsWatched DEF Heights

LEMMA BlockZero ==
  ASSUME NEW h \in Heights
  PROVE  InReorgWatch(h, 0)
  BY Reach DEF Heights, InReorgWatch, Confirmations

LEMMA LeastIs ==
  ASSUME NEW n \in Nat, NEW S \in SUBSET (0 .. n), S # {}
  PROVE  Min(S) \in S
  <1> DEFINE R == {ss \in Nat \X Nat : ss[1] < ss[2]}
  <1>1. OpToRel(<, Nat) = R
    BY DEF OpToRel
  <1>2. IsWellFoundedOn(R, Nat)
    BY <1>1, NatLessThanWellFounded
  <1>3. S \subseteq Nat
    OBVIOUS
  <1> HIDE DEF R
  <1>4. PICK t \in S : \A u \in S : ~(<<u, t>> \in R)
    BY <1>2, <1>3, WFMin
  <1>5. \A u \in S : t <= u
    <2> SUFFICES ASSUME NEW u \in S, ~(t <= u) PROVE FALSE
      OBVIOUS
    <2>1. <<u, t>> \in R
      BY <1>3 DEF R
    <2> QED BY <1>4, <2>1
  <1> QED BY <1>5 DEF Min

LEMMA BalanceIs ==
  ASSUME NEW a, NEW h
  PROVE  Balance(a, h) \in Nat /\ Balance(a, h) <= Cardinality(Deposits)
  <1> DEFINE D == {d \in Deposits : AssetOf[d] = a /\ at[d] \in 1 .. h}
  <1>1. IsFiniteSet(D) /\ Cardinality(D) <= Cardinality(Deposits)
    BY WatcherBounds, FS_Subset
  <1>2. Cardinality(D) \in Nat
    BY <1>1, FS_CardinalityType
  <1> QED BY <1>1, <1>2 DEF Balance

LEMMA UnitsAre ==
  ASSUME NEW a, NEW S
  PROVE  IsFiniteSet(Units(a, S)) /\ Total(a, S) \in Nat
  <1> DEFINE R == Deposits \cup ({a} \X Heights)
             U == R \X (1 .. Cardinality(Deposits))
  <1>1. IsFiniteSet(Heights) /\ IsFiniteSet({a}) /\ IsFiniteSet(1 .. Cardinality(Deposits))
    <2>1. 1 \in Int /\ MaxHeight \in Int /\ Cardinality(Deposits) \in Int
      BY WatcherBounds, ChainBounds
    <2>2. IsFiniteSet(1 .. MaxHeight) /\ IsFiniteSet(1 .. Cardinality(Deposits))
      BY <2>1, FS_Interval
    <2> QED BY <2>2, FS_Singleton DEF Heights
  <1>2. IsFiniteSet(R)
    BY <1>1, WatcherBounds, FS_Product, FS_Union
  <1>3. IsFiniteSet(U)
    BY <1>1, <1>2, FS_Product
  <1>4. RowsOf(a) \subseteq R
    BY WatcherBounds DEF RowsOf, AssetOfRow, Notes
  <1>5. Units(a, S) \subseteq U
    BY <1>4 DEF Units
  <1>6. IsFiniteSet(Units(a, S))
    BY <1>3, <1>5, FS_Subset
  <1> QED BY <1>6, FS_CardinalityType DEF Total

LEMMA PartsAre ==
  ASSUME NEW a
  PROVE  /\ IsFiniteSet(Own(a)) /\ IsFiniteSet(Noted(a))
         /\ Cardinality(Own(a)) \in Nat /\ Cardinality(Noted(a)) \in Nat
         /\ Total(a, {"CONFIRMED"}) <= Cardinality(Own(a)) + Cardinality(Noted(a))
         /\ Cardinality(Noted(a)) <= RecordedTotal(a)
  <1>1. IsFiniteSet(Own(a)) /\ IsFiniteSet(Noted(a))
        /\ Cardinality(Noted(a)) <= Cardinality(Units(a, {"PENDING", "CONFIRMED"}))
    <2>1. /\ Own(a) \subseteq Units(a, {"CONFIRMED"})
          /\ Noted(a) \subseteq Units(a, {"PENDING", "CONFIRMED"})
      BY DEF Own, Noted
    <2> QED BY <2>1, UnitsAre, FS_Subset
  <1>2. Units(a, {"CONFIRMED"}) \subseteq Own(a) \cup Noted(a)
    BY WatcherBounds DEF Units, RowsOf, Own, Noted
  <1>3. Cardinality(Own(a)) \in Nat /\ Cardinality(Noted(a)) \in Nat
    BY <1>1, FS_CardinalityType
  <1>4. /\ IsFiniteSet(Own(a) \cup Noted(a)) /\ IsFiniteSet(Own(a) \cap Noted(a))
        /\ Cardinality(Own(a) \cup Noted(a)) =
              Cardinality(Own(a)) + Cardinality(Noted(a)) - Cardinality(Own(a) \cap Noted(a))
    <2>1. Own(a) \cap Noted(a) \in SUBSET Own(a)
      OBVIOUS
    <2> QED BY <1>1, <2>1, FS_Union, FS_Subset
  <1>5. Cardinality(Own(a) \cap Noted(a)) \in Nat
    BY <1>4, FS_CardinalityType
  <1>6. Cardinality(Units(a, {"CONFIRMED"})) <= Cardinality(Own(a) \cup Noted(a))
    BY <1>2, <1>4, FS_Subset
  <1>7. Cardinality(Units(a, {"CONFIRMED"})) \in Nat
    BY UnitsAre DEF Total
  <1> QED BY <1>1, <1>3, <1>4, <1>5, <1>6, <1>7 DEF Total, RecordedTotal

\* What a balance showed is counted by its row's amount, pending or confirmed.
LEMMA NotedSame ==
  ASSUME \A r \in Notes :
            /\ deposit'[r].amount = deposit[r].amount
            /\ deposit'[r].status \in {"PENDING", "CONFIRMED"}
                  <=> deposit[r].status \in {"PENDING", "CONFIRMED"}
  PROVE  \A a : Noted(a)' = Noted(a)
  BY DEF Noted, Units, RowsOf

LEMMA BalanceNat ==
  /\ \A a : Balance(a, final) \in Nat
  /\ (\A a : Balance(a, final) \in Nat)'
  <1>1. \A a : Balance(a, final) \in Nat
    BY BalanceIs
  <1> QED BY <1>1, PTL

LEMMA CoveredIs ==
  ASSUME NEW a
  PROVE  /\ Covered(a) <=> IF a \in Balanced THEN 2 * Balance(a, final) >= Required
                           ELSE Balance(a, final) >= Required
         /\ Covered(a)' <=> IF a \in Balanced THEN 2 * Balance(a, final)' >= Required
                            ELSE Balance(a, final)' >= Required
  <1>1. Balance(a, final) \in Nat /\ Balance(a, final)' \in Nat
    BY BalanceNat
  <1> QED BY <1>1 DEF Covered

(***************************************************************************)
(* The watcher: how its invariant moves                                    *)
(***************************************************************************)

\* A row stays what it was, or is recorded again from the chain.
Evolves(d) ==
    \/ deposit'[d].height = deposit[d].height /\ deposit'[d].hash = deposit[d].hash
    \/ /\ deposit'[d].height = at[d] /\ deposit'[d].hash = hash[at[d]]
       /\ at[d] \in Heights /\ at[d] <= head

\* What a step of a loop may do to the rows.
RowsStep ==
    /\ deposit' \in [Rows -> RowType]
    /\ \A r \in Rows : deposit[r].status # "NONE" => deposit'[r].status # "NONE"
    /\ \A d \in Deposits :
          /\ RowFits(d)' /\ Evolves(d)
          /\ Stale(d)' => Stale(d) /\ deposit'[d].height = deposit[d].height
    /\ \A r \in Notes : NoteFits(r)'
    /\ \A a \in Assets : Cardinality(Noted(a)') <= Balance(a, final)

LEMMA RowsStay ==
  ASSUME WatcherInv, UNCHANGED <<chain, deposit>>
  PROVE  RowsStep
  <1>1. \A d \in Deposits : RowFits(d)' <=> RowFits(d)
    BY ChainStays DEF RowFits, Fixed, Stale
  <1>2. \A d \in Deposits : Stale(d)' <=> Stale(d)
    BY ChainStays DEF Stale
  <1>3. \A r \in Notes : NoteFits(r)' <=> NoteFits(r)
    BY ChainStays DEF NoteFits, Kept
  <1>4. \A a : Noted(a)' = Noted(a)
    BY NotedSame
  <1> QED BY <1>1, <1>2, <1>3, <1>4 DEF WatcherInv, WatcherTypeOK, RowsStep, Evolves

\* What a pass knows of the rows outlasts what the loops do to them.
LEMMA PassStays ==
  ASSUME WatcherInv, UNCHANGED chain, RowsStep, NEW a, NEW pass \in PassType, PassFits(a, pass)
  PROVE  PassFits(a, pass)'
  <1>1. ASSUME NEW d \in Deposits, deposit[d].status # "NONE", Fixed(d) PROVE Fixed(d)'
    <2>1. Evolves(d)
      BY DEF RowsStep
    <2>2. ~Gone(deposit'[d].height, deposit'[d].hash)
      <3>1. CASE deposit'[d].height = deposit[d].height /\ deposit'[d].hash = deposit[d].hash
        BY <1>1, <3>1 DEF Fixed
      <3>2. CASE /\ deposit'[d].height = at[d] /\ deposit'[d].hash = hash[at[d]]
                 /\ at[d] \in Heights /\ at[d] <= head
        <4>1. head \in Nat
          BY ChainBounds DEF WatcherInv, ChainInv
        <4> QED BY <3>2, <4>1 DEF Gone, Heights
      <3> QED BY <2>1, <3>1, <3>2 DEF Evolves
    <2> QED BY <1>1, <2>2, ChainStays DEF Fixed
  <1>2. ASSUME NEW j \in pass.page PROVE CopyFits(j)'
    <2>1. CopyFits(j) /\ j.id \in Rows
      BY DEF PassFits, PassType
    <2>2. deposit'[j.id].status # "NONE"
      BY <2>1 DEF CopyFits, RowsStep
    <2>3. ASSUME j.id \in Deposits, ~Gone(j.row.height, j.row.hash)
          PROVE  deposit'[j.id].height = j.row.height /\ deposit'[j.id].hash = j.row.hash
      <3>1. Evolves(j.id)
        BY <2>3 DEF RowsStep
      <3>2. at[j.id] = j.row.height /\ hash[j.row.height] = j.row.hash
        BY <2>1, <2>3 DEF CopyFits, SeenAt, Gone
      <3> QED BY <2>1, <2>3, <3>1, <3>2 DEF CopyFits, Evolves
    <2>4. Kept(j.row)' <=> Kept(j.row)
      BY ChainStays DEF Kept
    <2> QED BY <1>1, <2>1, <2>2, <2>3, <2>4, ChainStays DEF CopyFits
  <1>3. ASSUME NEW u \in pass.updates PROVE VerdictFits(u)'
    <2>1. VerdictFits(u) /\ u.id \in Rows
      BY DEF PassFits, PassType
    <2> QED BY <1>1, <2>1 DEF VerdictFits, RowsStep
  <1>4. \A d \in Deposits : Stale(d)' => InReorgWatch(deposit'[d].height, pass.top)
    BY DEF PassFits, RowsStep
  <1> QED BY <1>2, <1>3, <1>4, ChainStays DEF PassFits

\* One loop moves; the rest stays what it was.
LEMMA LoopStep ==
  ASSUME WatcherInv, NEW a \in Assets, NEW pass \in PassType, Moves(a, pass),
         PassFits(a, pass), UNCHANGED chain, RowsStep,
         cursor' \in [Assets -> 0 .. MaxHeight], errors' \in 0 .. MaxErrors,
         funded' \subseteq Assets, \A b \in funded' : Covered(b)
  PROVE  WatcherInv'
  <1>1. loop \in [Assets -> PassType] /\ loop' = [loop EXCEPT ![a] = pass]
    BY DEF WatcherInv, WatcherTypeOK, Moves
  <1>2. loop' \in [Assets -> PassType]
    BY <1>1
  <1>3. ASSUME NEW b \in Assets PROVE PassFits(b, loop[b])'
    <2>1. PassFits(b, loop'[b]) /\ loop'[b] \in PassType
      BY <1>1 DEF WatcherInv
    <2>2. PICK p \in PassType : p = loop'[b] /\ PassFits(b, p)
      BY <2>1
    <2>3. PassFits(b, p)'
      BY <2>2, PassStays
    <2> QED BY <2>2, <2>3 DEF PassFits
  <1>4. ChainInv'
    BY ChainStays DEF WatcherInv
  <1>5. \A b, h : Balance(b, h)' = Balance(b, h)
    BY ChainStays DEF Balance
  <1>6. \A b \in funded' : Covered(b)'
    BY <1>5, ChainStays, CoveredIs
  <1>7. WatcherTypeOK'
    BY <1>2 DEF WatcherTypeOK, RowsStep
  <1>8. \A b \in Assets : Cardinality(Noted(b))' <= Balance(b, final)'
    BY <1>5, ChainStays DEF RowsStep
  <1> QED BY <1>3, <1>4, <1>6, <1>7, <1>8 DEF WatcherInv, RowsStep

\* A pass that moves on with what it knows.
LEMMA GoesOn ==
  ASSUME WatcherInv, NEW a \in Assets, NEW pc \in LoopLabels, pc = "balancing" => a \in Balanced
  PROVE  \E pass \in PassType :
            /\ pass = Pass(pc, loop[a].top, loop[a].start, loop[a].page, loop[a].updates,
                           loop[a].rewind)
            /\ PassFits(a, pass)
  <1> DEFINE p == Pass(pc, loop[a].top, loop[a].start, loop[a].page, loop[a].updates,
                       loop[a].rewind)
  <1>1. loop[a] \in PassType /\ PassFits(a, loop[a])
    BY DEF WatcherInv, WatcherTypeOK
  <1>2. p \in PassType
    BY <1>1 DEF Pass, PassType
  <1>3. /\ p.pc = pc /\ p.top = loop[a].top /\ p.page = loop[a].page
        /\ p.updates = loop[a].updates
    BY DEF Pass
  <1>4. PassFits(a, p)
    BY <1>1, <1>3 DEF PassFits
  <1> QED BY <1>2, <1>4

LEMMA NoPassFits ==
  ASSUME WatcherInv, NEW a \in Assets
  PROVE  NoPass \in PassType /\ PassFits(a, NoPass)
  <1>1. final \in Nat /\ Minus(1, Depth) = 0
    BY ChainBounds DEF WatcherInv, ChainInv, Minus
  <1>2. \A d \in Deposits : Stale(d) => deposit[d].height \in Heights
    BY DEF WatcherInv, RowFits, Stale, SeenAt
  <1>3. NoPass \in PassType
    BY ChainBounds DEF NoPass, Pass, NoRewind, PassType, LoopLabels
  <1> QED BY <1>1, <1>2, <1>3, BlockZero DEF PassFits, NoPass, Pass

LEMMA BalanceGrows ==
  ASSUME ChainInv, ChainKeeps, NEW a
  PROVE  /\ Balance(a, final) <= Balance(a, final)'
         /\ Balance(a, final) \in Nat /\ Balance(a, final)' \in Nat
  <1> DEFINE D == {d \in Deposits : AssetOf[d] = a /\ at[d] \in 1 .. final}
             E == {d \in Deposits : AssetOf[d] = a /\ at'[d] \in 1 .. final'}
  <1>1. D \subseteq E
    BY WatcherBounds, SettledIs DEF ChainKeeps, SettledNext
  <1>2. IsFiniteSet(E)
    BY WatcherBounds, FS_Subset
  <1>3. IsFiniteSet(D) /\ Cardinality(D) <= Cardinality(E)
    BY <1>1, <1>2, FS_Subset
  <1>4. Cardinality(D) \in Nat /\ Cardinality(E) \in Nat
    BY <1>2, <1>3, FS_CardinalityType
  <1> QED BY <1>3, <1>4 DEF Balance

LEMMA HeadIs == ASSUME ChainInv PROVE head \in Nat /\ head \in 0 .. MaxHeight /\ final \in Nat
  BY ChainBounds DEF ChainInv

(***************************************************************************)
(* One lemma for each action                                               *)
(***************************************************************************)

\* What the chain loses lies above the finality line of every head a pass knows.
LEMMA MovingWatched ==
  ASSUME Prompt, WatcherInv, Moving
  PROVE  WatcherInv'
  <1>1. /\ ChainKeeps /\ ChainInv /\ WatchedAt(head')
        /\ UNCHANGED <<deposit, cursor, loop, funded, errors>>
    BY GrowKeeps, ReorgKeeps DEF Moving, WatcherInv
  <1>0. ASSUME NEW row, Kept(row) PROVE Kept(row)'
    <2>1. /\ row.height \in 1 .. final /\ final <= final' /\ final \in Nat /\ final' \in Nat
          /\ final <= MaxHeight
      BY <1>0, <1>1, ChainBounds DEF Kept, ChainKeeps, ChainInv
    <2>2. row.height \in Heights /\ ~(row.height > final') /\ row.height \in 1 .. final'
      BY <2>1, ChainBounds DEF Heights
    <2> QED BY <1>0, <1>1, <2>2 DEF Kept, ChainKeeps, Gone, GoneNext
  <1>2. \A x \in Settled : x \in Settled'
    BY <1>1, SettledIs DEF ChainKeeps
  <1>3. final \in Nat /\ final' \in Nat /\ head' \in Nat /\ final <= final'
        /\ final' >= Minus(head' + 1, Depth)
    BY <1>1, ChainBounds DEF ChainKeeps, ChainInv
  <1>4. ASSUME NEW d \in Deposits, NEW h, NEW n, d \in Settled, SeenAt(d, h, n), ~Gone(h, n)
        PROVE  ~Gone(h, n)'
    <2>1. at[d] = h /\ h \in Heights /\ at[d] \in 1 .. final
      BY <1>4, SettledIs DEF SeenAt
    <2>2. ~(h > final')
      BY <1>3, <2>1
    <2> QED BY <1>1, <1>4, <2>1, <2>2 DEF ChainKeeps, Gone, GoneNext
  <1>5. ASSUME NEW d \in Deposits, deposit[d].status # "NONE", Fixed(d) PROVE Fixed(d)'
    <2>1. SeenAt(d, deposit[d].height, deposit[d].hash)
      BY <1>5 DEF WatcherInv, RowFits
    <2> QED BY <1>1, <1>2, <1>4, <1>5, <2>1 DEF Fixed
  <1>6. ASSUME NEW d \in Deposits, NEW h, NEW n, SeenAt(d, h, n)
        PROVE  SeenAt(d, h, n)' /\ (Gone(h, n) => Gone(h, n)')
    BY <1>1, <1>6, WatcherBounds DEF ChainKeeps, SeenAt, SeenAtNext, Gone, GoneNext
  <1>7. ASSUME NEW d \in Deposits, Stale(d)'
        PROVE  /\ InReorgWatch(deposit[d].height, head')
               /\ \A top \in Nat : /\ final >= Minus(top + 1, Depth)
                                   /\ Stale(d) => InReorgWatch(deposit[d].height, top)
                                   => InReorgWatch(deposit[d].height, top)
    <2>1. CASE Stale(d)
      BY <1>1, <2>1, WatcherBounds DEF WatchedAt
    <2>2. CASE ~Stale(d)
      <3>1. /\ deposit[d].status = "PENDING" /\ ~Gone(deposit[d].height, deposit[d].hash)
            /\ GoneNext(deposit[d].height, deposit[d].hash)
        BY <1>1, <1>7, <2>2 DEF Stale, Gone, GoneNext
      <3>2. deposit[d].height \in Heights
        BY <3>1 DEF WatcherInv, RowFits, SeenAt
      <3>3. deposit[d].height > final'
        BY <1>1, <3>1, <3>2 DEF ChainKeeps
      <3>4. deposit[d].height > final
        BY <1>3, <3>2, <3>3 DEF Heights
      <3> QED BY <1>3, <3>2, <3>3, <3>4, NearIsWatched
    <2> QED BY <2>1, <2>2
  <1>8. \A d \in Deposits : RowFits(d)'
    <2> SUFFICES ASSUME NEW d \in Deposits, deposit[d].status # "NONE" PROVE RowFits(d)'
      BY <1>1 DEF RowFits
    <2>1. RowFits(d)
      BY DEF WatcherInv
    <2>2. Stale(d)' => InReorgWatch(deposit'[d].height, head')
      BY <1>1, <1>7
    <2> QED BY <1>1, <1>5, <1>6, <2>1, <2>2 DEF RowFits, InReorgWatch
  <1>9. ASSUME NEW a \in Assets PROVE PassFits(a, loop[a])'
    <2>1. loop[a] \in PassType /\ PassFits(a, loop[a]) /\ loop' = loop /\ deposit' = deposit
      BY <1>1 DEF WatcherInv, WatcherTypeOK
    <2>2. loop[a].top \in Nat
      BY <2>1, ChainBounds DEF PassType
    <2>3. final' >= Minus(loop[a].top + 1, Depth)
      BY <1>3, <2>1, <2>2, ChainBounds DEF PassFits, Minus
    <2>4. \A d \in Deposits : Stale(d)' => InReorgWatch(deposit[d].height, loop[a].top)
      BY <1>7, <2>1, <2>2 DEF PassFits
    <2>5. ASSUME NEW j \in loop[a].page PROVE CopyFits(j)'
      <3>1. CopyFits(j)
        BY <2>1 DEF PassFits
      <3> QED BY <1>0, <1>5, <1>6, <2>1, <3>1 DEF CopyFits
    <2>6. ASSUME NEW u \in loop[a].updates PROVE VerdictFits(u)'
      <3>1. VerdictFits(u)
        BY <2>1 DEF PassFits
      <3> QED BY <1>5, <2>1, <3>1 DEF VerdictFits
    <2> QED BY <2>1, <2>3, <2>4, <2>5, <2>6 DEF PassFits, InReorgWatch
  <1>10. ASSUME NEW a \in Assets
         PROVE  /\ Balance(a, final) <= Balance(a, final)'
                /\ Balance(a, final) \in Nat /\ Balance(a, final)' \in Nat
    BY <1>1, BalanceGrows
  <1>11. \A a \in funded' : Covered(a)'
    <2> SUFFICES ASSUME NEW a \in funded PROVE Covered(a)'
      BY <1>1
    <2>1. Covered(a) /\ a \in Assets
      BY DEF WatcherInv, WatcherTypeOK
    <2> QED BY <1>10, <2>1, CoveredIs, WatcherBounds
  <1>12. \A r \in Notes : NoteFits(r)'
    BY <1>0, <1>1 DEF WatcherInv, NoteFits
  <1>13. \A a \in Assets : Cardinality(Noted(a))' <= Balance(a, final)'
    <2> SUFFICES ASSUME NEW a \in Assets PROVE Cardinality(Noted(a))' <= Balance(a, final)'
      OBVIOUS
    <2>1. Noted(a)' = Noted(a)
      BY <1>1, NotedSame
    <2>2. Cardinality(Noted(a)) <= Balance(a, final) /\ Cardinality(Noted(a)) \in Nat
      BY PartsAre DEF WatcherInv
    <2> QED BY <1>10, <2>1, <2>2
  <1> QED BY <1>1, <1>8, <1>9, <1>11, <1>12, <1>13 DEF WatcherInv, WatcherTypeOK, ChainKeeps

LEMMA StartFits ==
  ASSUME WatcherInv, NEW a \in Assets, Start(a)
  PROVE  WatcherInv'
  <1> DEFINE p == Pass("scanning", head, cursor[a], {}, {}, NoRewind)
  <1>1. p \in PassType
    BY HeadIs, ChainBounds DEF WatcherInv, WatcherTypeOK, Pass, PassType, NoRewind, LoopLabels
  <1>2. p.top = head /\ p.page = {} /\ p.updates = {} /\ p.pc = "scanning"
    BY DEF Pass
  <1>3. \A d \in Deposits : Stale(d) => InReorgWatch(deposit[d].height, head)
    BY DEF WatcherInv, RowFits, Stale
  <1>4. PassFits(a, p)
    BY <1>2, <1>3 DEF PassFits, WatcherInv, ChainInv
  <1>5. Moves(a, p)
    BY DEF Start
  <1> QED BY <1>1, <1>4, <1>5, RowsStay, LoopStep DEF Start, WatcherInv, WatcherTypeOK

\* A row is made of what the chain holds now.
LEMMA ScanFits ==
  ASSUME WatcherInv, NEW a \in Assets, Scan(a)
  PROVE  WatcherInv'
  <1> DEFINE New(d) == /\ d \in Deposits \ Hidden /\ AssetOfRow(d) = a /\ Recordable(d)
                       /\ at[d] \in loop[a].start + 1 .. ScanTo(a)
  <1>1. deposit' = [d \in Rows |-> IF New(d) THEN Seen(at[d], 1) ELSE deposit[d]]
    BY DEF Scan
  <1>2. ASSUME NEW d, New(d)
        PROVE  /\ d \in Deposits /\ at[d] \in Heights /\ at[d] <= head
               /\ SeenAt(d, at[d], hash[at[d]]) /\ ~Gone(at[d], hash[at[d]])
               /\ hash[at[d]] \in 0 .. MaxReorgs
    <2>1. d \in Deposits /\ loop[a].start \in Nat /\ at[d] \in Int /\ at[d] >= loop[a].start + 1
      <3>1. loop[a] \in PassType
        BY DEF WatcherInv, WatcherTypeOK
      <3>2. loop[a].start \in Nat
        BY <3>1, ChainBounds DEF PassType
      <3>3. at[d] \in loop[a].start + 1 .. ScanTo(a)
        BY <1>2
      <3> QED BY <1>2, <3>2, <3>3
    <2>2. /\ head \in 0 .. MaxHeight /\ reorgs \in 0 .. MaxReorgs /\ at[d] \in 0 .. head
          /\ hash \in [Heights -> 0 .. reorgs]
      BY <2>1, WatcherBounds DEF WatcherInv, ChainInv
    <2>3. at[d] \in Heights /\ at[d] <= head
      BY <2>1, <2>2, ChainBounds DEF Heights
    <2>4. hash[at[d]] \in 0 .. reorgs /\ hash[at[d]] \in 0 .. MaxReorgs
      <3>1. hash[at[d]] \in 0 .. reorgs
        BY <2>2, <2>3
      <3> QED BY <2>2, <3>1, ChainBounds
    <2>5. ~(at[d] > head)
      BY <2>2, <2>3 DEF Heights
    <2> QED BY <2>1, <2>3, <2>4, <2>5 DEF SeenAt, Gone
  <1>3. \A d : New(d) => Seen(at[d], 1) \in RowType
    <2> SUFFICES ASSUME NEW d, New(d) PROVE Seen(at[d], 1) \in RowType
      OBVIOUS
    <2>1. at[d] \in 0 .. MaxHeight /\ hash[at[d]] \in 0 .. MaxReorgs /\ d \in Deposits
      BY <1>2, ChainBounds DEF Heights
    <2>2. 1 \in 0 .. Cardinality(Deposits)
      BY <2>1, WatcherBounds, FS_EmptySet
    <2> QED BY <2>1, <2>2 DEF Seen, RowType, Statuses
  <1>4. \A d : New(d) => /\ deposit'[d].status = "PENDING" /\ deposit'[d].height = at[d]
                         /\ deposit'[d].hash = hash[at[d]] /\ deposit'[d].amount = 1
    BY <1>1, <1>2, WatcherBounds DEF Seen
  <1>5. \A r \in Rows : ~New(r) => deposit'[r] = deposit[r]
    BY <1>1
  <1>6. RowsStep
    <2>1. deposit' \in [Rows -> RowType]
      BY <1>1, <1>3 DEF WatcherInv, WatcherTypeOK
    <2>2. \A r \in Rows : deposit[r].status # "NONE" => deposit'[r].status # "NONE"
      BY <1>4, <1>5
    <2>3. ASSUME NEW d \in Deposits
          PROVE  /\ RowFits(d)' /\ Evolves(d)
                 /\ Stale(d)' => Stale(d) /\ deposit'[d].height = deposit[d].height
      <3>1. UNCHANGED chain
        BY DEF Scan
      <3>2. CASE New(d)
        <4>1. ~Stale(d)'
          BY <1>2, <1>4, <3>1, <3>2, ChainStays DEF Stale
        <4>2. Evolves(d)
          BY <1>2, <1>4, <3>2 DEF Evolves
        <4>3. RowFits(d)'
          BY <1>2, <1>4, <3>1, <3>2, <4>1, ChainStays DEF RowFits
        <4> QED BY <4>1, <4>2, <4>3
      <3>3. CASE ~New(d)
        <4>1. deposit'[d] = deposit[d] /\ RowFits(d)
          BY <1>5, <3>3, WatcherBounds DEF WatcherInv
        <4> QED BY <3>1, <4>1, ChainStays DEF RowFits, Evolves, Stale, Fixed
      <3> QED BY <3>2, <3>3
    <2>4. \A r \in Notes : deposit'[r] = deposit[r]
      BY <1>2, <1>5, WatcherBounds
    <2>5. \A r \in Notes : NoteFits(r)'
      BY <2>4, ChainStays DEF NoteFits, Kept, WatcherInv, Scan
    <2>6. \A b \in Assets : Noted(b)' = Noted(b)
      BY <2>4, NotedSame
    <2> QED BY <2>1, <2>2, <2>3, <2>5, <2>6 DEF RowsStep, WatcherInv
  <1> HIDE DEF New
  <1>7. PICK pc \in LoopLabels : Goes(a, pc) /\ (pc = "balancing" => a \in Balanced)
    BY DEF Scan, LoopLabels
  <1>8. PICK pass \in PassType : Moves(a, pass) /\ PassFits(a, pass)
    BY <1>7, GoesOn DEF Goes
  <1> QED BY <1>6, <1>8, LoopStep DEF Scan, WatcherInv, WatcherTypeOK

\* A balance does not fall with the height it is read at.
LEMMA BalanceRises ==
  ASSUME NEW a, NEW k \in Nat, NEW h \in 1 .. k
  PROVE  Balance(a, h) <= Balance(a, k)
  <1>1. {d \in Deposits : AssetOf[d] = a /\ at[d] \in 1 .. h}
          \subseteq {d \in Deposits : AssetOf[d] = a /\ at[d] \in 1 .. k}
    OBVIOUS
  <1>2. IsFiniteSet({d \in Deposits : AssetOf[d] = a /\ at[d] \in 1 .. k})
    BY WatcherBounds, FS_Subset
  <1> QED BY <1>1, <1>2, FS_Subset DEF Balance

\* The balance writes no deposit's row, and no more than the notes fall short of it.
LEMMA ReconcileFits ==
  ASSUME WatcherInv, NEW a \in Assets, ReconcileBalance(a)
  PROVE  WatcherInv'
  <1> DEFINE h == SettledBlock(a)
             more == Minus(Balance(a, h), RecordedTotal(a))
             amount == IF deposit[<<a, h>>].amount > 0 THEN deposit[<<a, h>>].amount ELSE more
             note == <<a, h>>
  <1>1. loop[a] \in PassType /\ PassFits(a, loop[a]) /\ loop[a].pc = "balancing"
    BY DEF WatcherInv, WatcherTypeOK, ReconcileBalance, At
  <1>2. a \in Balanced
    BY <1>1 DEF PassFits
  <1>3. PICK pass \in PassType : Moves(a, pass) /\ PassFits(a, pass)
    <2>1. Goes(a, "listing")
      BY DEF ReconcileBalance
    <2>2. "listing" \in LoopLabels /\ "listing" # "balancing"
      BY DEF LoopLabels
    <2> QED BY <2>1, <2>2, GoesOn DEF Goes
  <1>4. CASE UNCHANGED deposit
    BY <1>3, <1>4, RowsStay, LoopStep DEF ReconcileBalance, WatcherInv, WatcherTypeOK
  <1>5. CASE /\ h > 0 /\ deposit[note].status \in {"NONE", "ORPHANED"}
             /\ deposit' = [deposit EXCEPT ![note] = Seen(h, amount)]
    <2>1. h \in Heights /\ h \in 1 .. final
      <3>1. loop[a].top \in 0 .. MaxHeight /\ final >= Minus(loop[a].top + 1, Depth) /\ final \in Nat
        BY <1>1, HeadIs DEF PassType, PassFits, WatcherInv
      <3> QED BY <1>5, <3>1, ChainBounds DEF SettledBlock, Minus, Heights
    <2>2. note \in Notes /\ note \in Rows
      BY <2>1, WatcherBounds DEF Notes
    <2>3. deposit[note].status = "NONE" /\ NoteFits(note)
      BY <1>5, <2>2 DEF WatcherInv, NoteFits
    <2>4. more \in 0 .. Cardinality(Deposits) /\ Balance(a, h) \in Nat /\ RecordedTotal(a) \in Nat
      BY BalanceIs, UnitsAre, WatcherBounds DEF Minus, RecordedTotal
    <2> HIDE DEF h, more, amount
    <2>5. amount = more
      BY <2>3, <2>4 DEF amount, NoteFits
    <2>6. hash[h] \in 0 .. MaxReorgs /\ h \in 0 .. MaxHeight /\ ~Gone(h, hash[h])
      <3>1. reorgs \in 0 .. MaxReorgs /\ hash[h] \in 0 .. reorgs /\ final \in 0 .. head /\ head \in Nat
        BY <2>1, ChainBounds DEF WatcherInv, ChainInv
      <3>2. h \in Nat /\ ~(h > head)
        BY <2>1, <3>1 DEF Heights
      <3> QED BY <2>1, <3>1, <3>2, ChainBounds DEF Heights, Gone
    <2>7. Seen(h, more) \in RowType
      BY <2>4, <2>6 DEF Seen, RowType, Statuses
    <2>8. /\ deposit' \in [Rows -> RowType] /\ deposit'[note] = Seen(h, more)
          /\ \A r \in Rows : r # note => deposit'[r] = deposit[r]
      BY <1>5, <2>2, <2>5, <2>7 DEF WatcherInv, WatcherTypeOK
    <2>9. \A d \in Deposits : deposit'[d] = deposit[d]
      BY <2>2, <2>8, WatcherBounds
    <2>10. UNCHANGED chain
      BY DEF ReconcileBalance
    <2>11. ASSUME NEW d \in Deposits
           PROVE  /\ RowFits(d)' /\ Evolves(d)
                  /\ Stale(d)' => Stale(d) /\ deposit'[d].height = deposit[d].height
      <3>1. deposit'[d] = deposit[d] /\ RowFits(d)
        BY <2>9 DEF WatcherInv
      <3> QED BY <2>10, <3>1, ChainStays DEF RowFits, Evolves, Stale, Fixed
    <2>12. \A r \in Rows : deposit[r].status # "NONE" => deposit'[r].status # "NONE"
      BY <2>8 DEF Seen
    <2>13. ASSUME NEW r \in Notes PROVE NoteFits(r)'
      <3>1. CASE r = note
        <4>1. Kept(Seen(h, more)) /\ Seen(h, more).status = "PENDING"
          BY <2>1, <2>6 DEF Kept, Seen
        <4>2. Kept(deposit[r])' <=> Kept(deposit'[r])
          BY <2>10, ChainStays DEF Kept
        <4> QED BY <1>2, <2>8, <3>1, <4>1, <4>2 DEF NoteFits
      <3>2. CASE r # note
        <4>1. deposit'[r] = deposit[r] /\ NoteFits(r)
          BY <2>8, <3>2, WatcherBounds DEF WatcherInv
        <4> QED BY <2>10, <4>1, ChainStays DEF NoteFits, Kept
      <3> QED BY <3>1, <3>2
    <2>14. Noted(a)' \subseteq Noted(a) \cup {note} \X (1 .. more)
      <3> SUFFICES ASSUME NEW u \in Noted(a)', u \notin Noted(a) PROVE u \in {note} \X (1 .. more)
        OBVIOUS
      <3>1. /\ u \in RowsOf(a) \X (1 .. Cardinality(Deposits)) /\ u[1] \in Notes /\ u[1] \in Rows
            /\ deposit'[u[1]].status \in {"PENDING", "CONFIRMED"} /\ u[2] <= deposit'[u[1]].amount
        BY WatcherBounds DEF Noted, Units
      <3>2. u[1] = note
        BY <2>8, <3>1 DEF Noted, Units
      <3>3. u[2] <= more /\ u = <<note, u[2]>> /\ u[2] \in 1 .. Cardinality(Deposits)
        BY <2>8, <3>1, <3>2 DEF Seen
      <3> QED BY <2>4, <3>3, WatcherBounds
    <2>15. /\ Cardinality(Noted(a)') \in Nat
           /\ Cardinality(Noted(a)') <= Cardinality(Noted(a)) + more
      <3> DEFINE N == Noted(a)
                 M == {note} \X (1 .. more)
      <3>1. IsFiniteSet(M) /\ Cardinality(M) = more
        <4>1. IsFiniteSet({note}) /\ Cardinality({note}) = 1
          BY FS_Singleton
        <4>2. IsFiniteSet(1 .. more) /\ Cardinality(1 .. more) = more
          BY <2>4, FS_Interval
        <4> QED BY <2>4, <4>1, <4>2, FS_Product
      <3>2. IsFiniteSet(N) /\ Cardinality(N) \in Nat
        BY PartsAre
      <3> HIDE DEF N, M
      <3>3. /\ IsFiniteSet(N \cup M)
            /\ Cardinality(N \cup M) = Cardinality(N) + Cardinality(M) - Cardinality(N \cap M)
        BY <3>1, <3>2, FS_Union
      <3>4. Cardinality(N \cap M) \in Nat
        <4>1. N \cap M \in SUBSET N
          OBVIOUS
        <4> QED BY <3>2, <4>1, FS_Subset, FS_CardinalityType
      <3>5. Noted(a)' \in SUBSET (N \cup M)
        BY <2>14 DEF N, M
      <3>6. Cardinality(Noted(a)') <= Cardinality(N \cup M) /\ IsFiniteSet(Noted(a)')
        BY <3>3, <3>5, FS_Subset
      <3>7. Cardinality(Noted(a)') \in Nat
        BY <3>6, FS_CardinalityType
      <3>8. Cardinality(Noted(a)') <= Cardinality(N) + more
        BY <2>4, <3>1, <3>2, <3>3, <3>4, <3>6, <3>7
      <3> QED BY <3>7, <3>8 DEF N
    <2>16. ASSUME NEW b \in Assets PROVE Cardinality(Noted(b)') <= Balance(b, final)
      <3>1. CASE b # a
        <4>1. Noted(b)' = Noted(b)
          <5>1. AssetOfRow(note) = a
            BY <2>2, WatcherBounds DEF AssetOfRow
          <5>2. note \notin RowsOf(b)
            BY <3>1, <5>1 DEF RowsOf
          <5>3. \A r \in RowsOf(b) : deposit'[r] = deposit[r]
            BY <2>8, <5>2 DEF RowsOf
          <5> QED BY <5>3 DEF Noted, Units
        <4> QED BY <4>1 DEF WatcherInv
      <3>2. CASE b = a
        <4>1. Balance(a, h) <= Balance(a, final) /\ Balance(a, final) \in Nat
          BY <2>1, BalanceRises, BalanceIs, HeadIs DEF WatcherInv
        <4>2. /\ Cardinality(Noted(a)) <= RecordedTotal(a) /\ Cardinality(Noted(a)) \in Nat
              /\ Cardinality(Noted(a)) <= Balance(a, final)
          BY PartsAre DEF WatcherInv
        <4>3. Cardinality(Noted(a)) + more <= Balance(a, final)
          BY <2>4, <4>1, <4>2 DEF more, Minus
        <4> QED BY <2>4, <2>15, <3>2, <4>1, <4>2, <4>3
      <3> QED BY <3>1, <3>2
    <2>17. RowsStep
      BY <2>8, <2>11, <2>12, <2>13, <2>16 DEF RowsStep
    <2> QED BY <1>3, <2>17, LoopStep DEF ReconcileBalance, WatcherInv, WatcherTypeOK
  <1>6. \/ /\ h > 0 /\ deposit[note].status \in {"NONE", "ORPHANED"}
           /\ deposit' = [deposit EXCEPT ![note] = Seen(h, amount)]
        \/ UNCHANGED deposit
    BY DEF ReconcileBalance
  <1> QED BY <1>4, <1>5, <1>6

\* A step that only moves a pass.
LEMMA OnlyPassMoves ==
  ASSUME WatcherInv, NEW a \in Assets, NEW pass \in PassType, Moves(a, pass), PassFits(a, pass),
         UNCHANGED <<chain, deposit, cursor, funded, errors>>
  PROVE  WatcherInv'
  BY RowsStay, LoopStep DEF WatcherInv, WatcherTypeOK

\* What is past the reorg watch has not gone: else it would still be looked at.
LEMMA ListFits ==
  ASSUME WatcherInv, NEW a \in Assets, List(a)
  PROVE  WatcherInv'
  <1> DEFINE top == loop[a].top
  <1>1. PICK S \in SUBSET Probable :
          LET watch == {r \in S : InReorgWatch(deposit[r].height, top)}
              old == {r \in S \ watch : deposit[r].status = "PENDING"}
          IN  Moves(a, Pass("probing", top, loop[a].start, {Judged(r, deposit[r]) : r \in watch},
                            {Update(r, "CONFIRMED") : r \in old}, NoRewind))
    BY DEF List
  <1> DEFINE watch == {r \in S : InReorgWatch(deposit[r].height, top)}
             old == {r \in S \ watch : deposit[r].status = "PENDING"}
             p == Pass("probing", top, loop[a].start, {Judged(r, deposit[r]) : r \in watch},
                       {Update(r, "CONFIRMED") : r \in old}, NoRewind)
  <1>2. Moves(a, p)
    BY <1>1
  <1>3. loop[a] \in PassType /\ PassFits(a, loop[a]) /\ deposit \in [Rows -> RowType]
    BY DEF WatcherInv, WatcherTypeOK
  <1>4. \A r \in S : /\ r \in Rows /\ deposit[r] \in RowType
                     /\ deposit[r].status \in {"PENDING", "CONFIRMED"}
    BY <1>3 DEF Probable
  <1>5. p \in PassType
    <2>1. {Judged(r, deposit[r]) : r \in watch} \subseteq [id : Rows, row : RowType]
      BY <1>4 DEF Judged
    <2>2. {Update(r, "CONFIRMED") : r \in old} \subseteq [id : Rows, status : Statuses]
      BY <1>4 DEF Update, Statuses
    <2>3. NoRewind \in [Assets -> 0 .. MaxHeight]
      BY ChainBounds DEF NoRewind
    <2> QED BY <1>3, <2>1, <2>2, <2>3 DEF Pass, PassType, LoopLabels
  <1>6. ASSUME NEW r \in watch PROVE CopyFits(Judged(r, deposit[r]))
    <2>1. (r \in Deposits => RowFits(r)) /\ (r \in Notes => NoteFits(r))
      BY DEF WatcherInv
    <2> QED BY <1>4, <2>1 DEF CopyFits, Judged, RowFits, NoteFits
  <1>7. ASSUME NEW r \in old PROVE VerdictFits(Update(r, "CONFIRMED"))
    <2>1. deposit[r].status = "PENDING" /\ ~InReorgWatch(deposit[r].height, top)
      OBVIOUS
    <2>2. ASSUME r \in Deposits PROVE Fixed(r)
      <3>1. ~Stale(r) /\ final >= Minus(top + 1, Depth)
        BY <1>3, <2>1, <2>2 DEF PassFits
      <3>2. ~Gone(deposit[r].height, deposit[r].hash)
        BY <2>1, <3>1 DEF Stale
      <3>3. deposit[r].height \in Heights /\ at[r] = deposit[r].height
        BY <2>1, <2>2, <3>2 DEF WatcherInv, RowFits, SeenAt
      <3>4. top \in Nat /\ final \in Nat
        BY <1>3, HeadIs, ChainBounds DEF PassType, WatcherInv
      <3> HIDE DEF top
      <3>5. at[r] <= final
        BY <2>1, <3>1, <3>3, <3>4, FarIsFinal
      <3>6. r \in Settled
        BY <2>2, <3>3, <3>4, <3>5, SettledIs, WatcherBounds DEF Heights
      <3> QED BY <3>2, <3>6 DEF Fixed
    <2> QED BY <2>1, <2>2 DEF VerdictFits, Update
  <1>8. /\ p.top = top /\ p.page = {Judged(r, deposit[r]) : r \in watch} /\ p.pc = "probing"
        /\ p.updates = {Update(r, "CONFIRMED") : r \in old}
    BY DEF Pass
  <1>9. PassFits(a, p)
    <2> HIDE DEF p, watch, old
    <2> QED BY <1>3, <1>6, <1>7, <1>8 DEF PassFits
  <1> QED BY <1>2, <1>5, <1>9, OnlyPassMoves DEF List

LEMMA LowestIs ==
  ASSUME NEW rewind \in [Assets -> 0 .. MaxHeight],
         NEW orphans \in SUBSET [id : Rows, row : RowType]
  PROVE  Lowest(rewind, orphans) \in [Assets -> 0 .. MaxHeight]
  <1> SUFFICES ASSUME NEW b \in Assets
               PROVE  LET hs == {o.row.height : o \in {o \in orphans : AssetOfRow(o.id) = b}}
                                \cup ({rewind[b]} \ {0})
                      IN  (IF hs = {} THEN 0 ELSE Min(hs)) \in 0 .. MaxHeight
    BY DEF Lowest
  <1> DEFINE hs == {o.row.height : o \in {o \in orphans : AssetOfRow(o.id) = b}}
                   \cup ({rewind[b]} \ {0})
  <1>1. hs \in SUBSET (0 .. MaxHeight)
    BY DEF RowType
  <1> HIDE DEF hs
  <1>2. hs # {} => Min(hs) \in 0 .. MaxHeight
    BY <1>1, ChainBounds, LeastIs
  <1>3. (IF hs = {} THEN 0 ELSE Min(hs)) \in 0 .. MaxHeight
    BY <1>2, ChainBounds
  <1> QED BY <1>3 DEF hs

\* A confirmation is of a block that is there, and past the finality line.
LEMMA ProbeFits ==
  ASSUME WatcherInv, NEW a \in Assets, Probe(a)
  PROVE  WatcherInv'
  <1> DEFINE top == loop[a].top
             page == loop[a].page
             verdict(j) == Classify(j.row, top)
  <1>1. PICK h : LET js == {j \in page : j.row.height = h}
                     changed == {j \in js : verdict(j) # j.row.status}
                     orphans == {j \in changed : verdict(j) = "ORPHANED"}
                 IN  Moves(a, Pass("probing", top, loop[a].start, page \ js,
                        loop[a].updates \cup {Update(j.id, verdict(j)) : j \in changed},
                        Lowest(loop[a].rewind, orphans)))
    BY DEF Probe
  <1> DEFINE js == {j \in page : j.row.height = h}
             changed == {j \in js : verdict(j) # j.row.status}
             orphans == {j \in changed : verdict(j) = "ORPHANED"}
             p == Pass("probing", top, loop[a].start, page \ js,
                       loop[a].updates \cup {Update(j.id, verdict(j)) : j \in changed},
                       Lowest(loop[a].rewind, orphans))
  <1>2. Moves(a, p)
    BY <1>1
  <1>3. loop[a] \in PassType /\ PassFits(a, loop[a])
    BY DEF WatcherInv, WatcherTypeOK
  <1>4. top \in Nat /\ final >= Minus(top + 1, Depth) /\ ChainInv
    BY <1>3, ChainBounds DEF PassType, PassFits, WatcherInv
  <1>5. \A j \in page : j \in [id : Rows, row : RowType] /\ CopyFits(j)
    BY <1>3 DEF PassType, PassFits
  <1>6. ASSUME NEW j \in changed
        PROVE  Update(j.id, verdict(j)) \in [id : Rows, status : Statuses]
               /\ VerdictFits(Update(j.id, verdict(j)))
    <2>1. j \in page /\ CopyFits(j) /\ verdict(j) # j.row.status /\ j.id \in Rows
      BY <1>5
    <2>2. verdict(j) \in {"PENDING", "CONFIRMED", "ORPHANED"}
      BY Verdicts
    <2>3. ASSUME j.id \in Deposits, verdict(j) # "ORPHANED" PROVE Fixed(j.id)
      <3>1. CASE verdict(j) = "PENDING"
        BY <2>1, <2>3, <3>1 DEF CopyFits
      <3>2. CASE verdict(j) = "CONFIRMED"
        <4>1. SeenAt(j.id, j.row.height, j.row.hash) /\ j.id \in Txs
          BY <2>1, <2>3, WatcherBounds DEF CopyFits
        <4> HIDE DEF top
        <4>2. j.id \in Settled /\ ~Gone(j.row.height, j.row.hash)
          BY <1>4, <3>2, <4>1, ConfirmedIsSettled
        <4> QED BY <2>1, <2>3, <4>2 DEF CopyFits, Fixed
      <3> QED BY <2>2, <2>3, <3>1, <3>2
    <2>4. ASSUME j.id \in Notes PROVE verdict(j) # "ORPHANED"
      <3>1. j.row.height \in 1 .. final /\ ~Gone(j.row.height, j.row.hash)
        BY <2>1, <2>4 DEF CopyFits, Kept
      <3> QED BY <3>1 DEF Classify, Gone
    <2> HIDE DEF verdict
    <2> QED BY <2>1, <2>2, <2>3, <2>4 DEF VerdictFits, Update, CopyFits, Statuses
  <1>7. p \in PassType
    <2>1. orphans \subseteq [id : Rows, row : RowType]
      BY <1>5
    <2>2. {Update(j.id, verdict(j)) : j \in changed} \subseteq [id : Rows, status : Statuses]
      BY <1>6
    <2>3. /\ page \ js \subseteq [id : Rows, row : RowType]
          /\ loop[a].updates \subseteq [id : Rows, status : Statuses]
          /\ loop[a].rewind \in [Assets -> 0 .. MaxHeight]
          /\ top \in 0 .. MaxHeight /\ loop[a].start \in 0 .. MaxHeight
      BY <1>3 DEF PassType
    <2> HIDE DEF js, changed, orphans, verdict, page, top
    <2>4. Lowest(loop[a].rewind, orphans) \in [Assets -> 0 .. MaxHeight]
      BY <2>1, <2>3, LowestIs
    <2> QED BY <2>2, <2>3, <2>4 DEF Pass, PassType, LoopLabels
  <1>8. /\ p.top = top /\ p.page = page \ js /\ p.pc = "probing"
        /\ p.updates = loop[a].updates \cup {Update(j.id, verdict(j)) : j \in changed}
    BY DEF Pass
  <1>9. PassFits(a, p)
    <2>1. \A j \in page \ js : CopyFits(j)
      BY <1>5
    <2>2. \A u \in loop[a].updates \cup {Update(j.id, verdict(j)) : j \in changed} : VerdictFits(u)
      BY <1>3, <1>6 DEF PassFits
    <2>3. \A d \in Deposits : Stale(d) => InReorgWatch(deposit[d].height, top)
      BY <1>3 DEF PassFits
    <2> HIDE DEF p, js, changed, verdict, page, top
    <2> QED BY <1>4, <1>8, <2>1, <2>2, <2>3 DEF PassFits
  <1> QED BY <1>2, <1>7, <1>9, OnlyPassMoves DEF Probe

\* A verdict that is written over a newer row is still true of it.
LEMMA UpdateFits ==
  ASSUME WatcherInv, NEW a \in Assets, UpdateStatus(a)
  PROVE  WatcherInv'
  <1>1. PICK u \in loop[a].updates :
          /\ deposit' = [deposit EXCEPT ![u.id].status = u.status]
          /\ Moves(a, Pass("probing", loop[a].top, loop[a].start, {}, loop[a].updates \ {u},
                           loop[a].rewind))
    BY DEF UpdateStatus
  <1> DEFINE p == Pass("probing", loop[a].top, loop[a].start, {}, loop[a].updates \ {u},
                       loop[a].rewind)
  <1>2. loop[a] \in PassType /\ PassFits(a, loop[a]) /\ deposit \in [Rows -> RowType]
    BY DEF WatcherInv, WatcherTypeOK
  <1>3. VerdictFits(u) /\ u.id \in Rows /\ u.status \in Statuses
    BY <1>2 DEF PassFits, PassType
  <1>4. p \in PassType
    BY <1>2 DEF Pass, PassType, LoopLabels
  <1>5. PassFits(a, p)
    BY <1>2 DEF PassFits, Pass
  <1>6. deposit' \in [Rows -> RowType]
    BY <1>1, <1>2, <1>3 DEF RowType
  <1>7. \A r \in Rows :
          /\ deposit'[r].height = deposit[r].height /\ deposit'[r].hash = deposit[r].hash
          /\ deposit'[r].amount = deposit[r].amount
          /\ deposit'[r].status = IF r = u.id THEN u.status ELSE deposit[r].status
    BY <1>1, <1>2, <1>3 DEF RowType
  <1>8. UNCHANGED chain
    BY DEF UpdateStatus
  <1>9. ASSUME NEW d \in Deposits
        PROVE  /\ RowFits(d)' /\ Evolves(d)
               /\ Stale(d)' => Stale(d) /\ deposit'[d].height = deposit[d].height
    <2>1. RowFits(d) /\ d \in Rows
      BY WatcherBounds DEF WatcherInv
    <2>2. Fixed(d)' <=> Fixed(d)
      BY <1>7, <1>8, <2>1, ChainStays DEF Fixed
    <2>3. CASE d = u.id
      <3>1. /\ deposit[d].status # "NONE" /\ u.status # "NONE"
            /\ u.status # "ORPHANED" => Fixed(d)
        BY <1>3, <2>3 DEF VerdictFits
      <3>2. ~Stale(d)'
        BY <1>7, <1>8, <2>1, <2>3, <3>1, ChainStays DEF Stale, Fixed
      <3> QED BY <1>7, <1>8, <2>1, <2>2, <2>3, <3>1, <3>2, ChainStays DEF RowFits, Evolves
    <2>4. CASE d # u.id
      <3>1. deposit'[d].status = deposit[d].status
        BY <1>7, <2>1, <2>4
      <3>2. Stale(d)' <=> Stale(d)
        BY <1>7, <1>8, <2>1, <3>1, ChainStays DEF Stale
      <3> QED BY <1>7, <1>8, <2>1, <2>2, <3>1, <3>2, ChainStays DEF RowFits, Evolves
    <2> QED BY <2>3, <2>4
  <1>10. \A r \in Rows : deposit[r].status # "NONE" <=> deposit'[r].status # "NONE"
    BY <1>3, <1>7 DEF VerdictFits
  <1>11. ASSUME NEW r \in Notes
         PROVE  /\ NoteFits(r)' /\ deposit'[r].amount = deposit[r].amount
                /\ deposit'[r].status \in {"PENDING", "CONFIRMED"}
                      <=> deposit[r].status \in {"PENDING", "CONFIRMED"}
    <2>1. NoteFits(r) /\ r \in Rows
      BY WatcherBounds DEF WatcherInv
    <2>2. Kept(deposit'[r]) <=> Kept(deposit[r])
      BY <1>7, <2>1 DEF Kept
    <2>3. Kept(deposit[r])' <=> Kept(deposit'[r])
      BY <1>8, ChainStays DEF Kept
    <2>4. r = u.id => u.status \in {"PENDING", "CONFIRMED"} /\ deposit[r].status # "NONE"
      BY <1>3 DEF VerdictFits, Statuses
    <2> QED BY <1>7, <2>1, <2>2, <2>3, <2>4 DEF NoteFits
  <1>12. \A b : Noted(b)' = Noted(b)
    BY <1>11, NotedSame
  <1>13. RowsStep
    BY <1>6, <1>9, <1>10, <1>11, <1>12 DEF RowsStep, WatcherInv
  <1> QED BY <1>1, <1>4, <1>5, <1>8, <1>13, LoopStep DEF UpdateStatus, WatcherInv, WatcherTypeOK

\* Each unit that a transfer counts is a transfer of its own past the finality line.
LEMMA Counted ==
  ASSUME WatcherInv, NEW a
  PROVE  Cardinality(Own(a)) <= Balance(a, final)
  <1> DEFINE U == Own(a)
             D == {d \in Deposits : AssetOf[d] = a /\ at[d] \in 1 .. final}
             f == [u \in U |-> u[1]]
  <1>1. ASSUME NEW u \in U PROVE u[1] \in D /\ u = <<u[1], 1>>
    <2>1. /\ u[1] \in Rows /\ AssetOfRow(u[1]) = a /\ deposit[u[1]].status = "CONFIRMED"
          /\ u[2] \in 1 .. Cardinality(Deposits) /\ u[2] <= deposit[u[1]].amount
          /\ u = <<u[1], u[2]>>
      BY DEF Own, Units, RowsOf
    <2>2. u[1] \in Deposits
      BY DEF Own
    <2>3. Fixed(u[1]) /\ deposit[u[1]].amount = 1
      BY <2>1, <2>2 DEF WatcherInv, RowFits
    <2>4. u[2] = 1
      BY <2>1, <2>3, WatcherBounds
    <2>5. AssetOf[u[1]] = a /\ at[u[1]] \in 1 .. final
      BY <2>1, <2>2, <2>3, SettledIs DEF AssetOfRow, Fixed
    <2> QED BY <2>1, <2>2, <2>4, <2>5
  <1>2. IsFiniteSet(D)
    BY WatcherBounds, FS_Subset
  <1> HIDE DEF U, D
  <1>3. f \in Injection(U, D)
    <2>1. f \in [U -> D]
      BY <1>1
    <2>2. \A u, v \in U : f[u] = f[v] => u = v
      BY <1>1
    <2> QED BY <2>1, <2>2 DEF Injection, IsInjective
  <1>4. Cardinality(U) <= Cardinality(D)
    BY <1>2, <1>3, FS_Injection
  <1> QED BY <1>4 DEF Balance, U, D

LEMMA NoneNoted ==
  ASSUME WatcherInv, NEW a, a \notin Balanced
  PROVE  Noted(a) = {}
  <1> SUFFICES ASSUME NEW u \in Noted(a) PROVE FALSE
    OBVIOUS
  <1>1. u[1] \in Notes /\ AssetOfRow(u[1]) = a /\ deposit[u[1]].status # "NONE"
    BY DEF Noted, Units, RowsOf
  <1>2. u[1][1] = a
    BY <1>1, WatcherBounds DEF AssetOfRow
  <1> QED BY <1>1, <1>2 DEF WatcherInv, NoteFits

\* So what is confirmed is on the chain: once where only scans count, at most twice
\* where balances do too.
LEMMA CountedTotal ==
  ASSUME WatcherInv, NEW a \in Assets
  PROVE  /\ Total(a, {"CONFIRMED"}) <= 2 * Balance(a, final)
         /\ a \notin Balanced => Total(a, {"CONFIRMED"}) <= Balance(a, final)
  <1>1. Cardinality(Own(a)) <= Balance(a, final) /\ Cardinality(Noted(a)) <= Balance(a, final)
    BY Counted DEF WatcherInv
  <1>2. /\ Cardinality(Own(a)) \in Nat /\ Cardinality(Noted(a)) \in Nat
        /\ Total(a, {"CONFIRMED"}) <= Cardinality(Own(a)) + Cardinality(Noted(a))
        /\ Total(a, {"CONFIRMED"}) \in Nat /\ Balance(a, final) \in Nat
    BY PartsAre, UnitsAre, BalanceIs
  <1>3. a \notin Balanced => Cardinality(Noted(a)) = 0
    BY NoneNoted, FS_EmptySet
  <1> QED BY <1>1, <1>2, <1>3

LEMMA FundFits ==
  ASSUME WatcherInv, NEW a \in Assets, Fund(a)
  PROVE  WatcherInv'
  <1>1. PICK pass \in PassType : Moves(a, pass) /\ PassFits(a, pass)
    <2>1. Goes(a, "rewinding")
      BY DEF Fund
    <2>2. "rewinding" \in LoopLabels /\ "rewinding" # "balancing"
      BY DEF LoopLabels
    <2> QED BY <2>1, <2>2, GoesOn DEF Goes
  <1>2. funded' \subseteq Assets
    BY DEF Fund, WatcherInv, WatcherTypeOK
  <1>3. ASSUME NEW b \in funded' PROVE Covered(b)
    <2>1. CASE b \in funded
      BY <2>1 DEF WatcherInv
    <2>2. CASE b \notin funded
      <3>1. b = a /\ Total(a, {"CONFIRMED"}) >= Required
        BY <2>2 DEF Fund, ConfirmedTotal
      <3>2. Total(a, {"CONFIRMED"}) \in Nat /\ Balance(a, final) \in Nat
        BY UnitsAre, BalanceIs
      <3> QED BY <3>1, <3>2, CountedTotal, CoveredIs, WatcherBounds
    <2> QED BY <2>1, <2>2
  <1>4. RowsStep /\ UNCHANGED chain
    BY RowsStay DEF Fund
  <1> QED BY <1>1, <1>2, <1>3, <1>4, LoopStep DEF Fund, WatcherInv, WatcherTypeOK

LEMMA RewindFits ==
  ASSUME WatcherInv, NEW a \in Assets, Rewind(a)
  PROVE  WatcherInv'
  <1>1. PICK b \in Assets :
          /\ loop[a].rewind[b] > 0
          /\ cursor' = [cursor EXCEPT ![b] = LowOf(cursor[b], loop[a].rewind[b] - 1)]
          /\ Moves(a, Pass(IF b = a THEN "rewound" ELSE loop[a].pc, loop[a].top, loop[a].start,
                           {}, {}, [loop[a].rewind EXCEPT ![b] = 0]))
    BY DEF Rewind
  <1> DEFINE pc == IF b = a THEN "rewound" ELSE loop[a].pc
             p == Pass(pc, loop[a].top, loop[a].start, {}, {}, [loop[a].rewind EXCEPT ![b] = 0])
  <1>2. loop[a] \in PassType /\ PassFits(a, loop[a]) /\ cursor \in [Assets -> 0 .. MaxHeight]
    BY DEF WatcherInv, WatcherTypeOK
  <1>3. pc \in LoopLabels /\ pc # "balancing"
    BY <1>2 DEF PassType, LoopLabels, Rewind
  <1> HIDE DEF pc
  <1>4. p \in PassType
    BY <1>2, <1>3, ChainBounds DEF Pass, PassType
  <1>5. PassFits(a, p)
    BY <1>2, <1>3 DEF Pass, PassFits
  <1>6. cursor' \in [Assets -> 0 .. MaxHeight]
    <2>1. loop[a].rewind[b] \in 0 .. MaxHeight /\ cursor[b] \in 0 .. MaxHeight
      BY <1>2 DEF PassType
    <2>2. LowOf(cursor[b], loop[a].rewind[b] - 1) \in 0 .. MaxHeight
      BY <1>1, <2>1, ChainBounds DEF LowOf
    <2> QED BY <1>1, <1>2, <2>2
  <1>7. Moves(a, p)
    BY <1>1 DEF pc
  <1>8. RowsStep /\ UNCHANGED chain
    BY RowsStay DEF Rewind
  <1> QED BY <1>4, <1>5, <1>6, <1>7, <1>8, LoopStep DEF Rewind, WatcherInv, WatcherTypeOK

\* A pass ends, or dies.
LEMMA PassEnds ==
  ASSUME WatcherInv, NEW a \in Assets, SetCursor(a) \/ Fail(a)
  PROVE  WatcherInv'
  <1>1. NoPass \in PassType /\ PassFits(a, NoPass) /\ Moves(a, NoPass)
    BY NoPassFits DEF SetCursor, Fail
  <1>2. cursor' \in [Assets -> 0 .. MaxHeight]
    <2>1. cursor \in [Assets -> 0 .. MaxHeight] /\ loop[a] \in PassType
      BY DEF WatcherInv, WatcherTypeOK
    <2>2. loop[a].top \in 0 .. MaxHeight /\ loop[a].start \in 0 .. MaxHeight
      BY <2>1 DEF PassType
    <2>3. ScanTo(a) \in 0 .. MaxHeight /\ SettledBlock(a) \in 0 .. MaxHeight
      BY <2>2, ChainBounds, WatcherBounds DEF ScanTo, SettledBlock, LowOf, Minus
    <2>4. CursorTo(a) \in 0 .. MaxHeight
      BY <2>2, <2>3 DEF CursorTo, TopOf
    <2>5. TopOf(cursor[a], CursorTo(a)) \in 0 .. MaxHeight
      BY <2>1, <2>4 DEF TopOf
    <2> QED BY <2>1, <2>5 DEF SetCursor, Fail
  <1>3. errors' \in 0 .. MaxErrors
    <2>1. errors \in 0 .. MaxErrors
      BY DEF WatcherInv, WatcherTypeOK
    <2> QED BY <2>1, WatcherBounds DEF SetCursor, Fail
  <1>4. RowsStep /\ UNCHANGED <<chain, funded>>
    BY RowsStay DEF SetCursor, Fail
  <1> QED BY <1>1, <1>2, <1>3, <1>4, LoopStep DEF WatcherInv, WatcherTypeOK

LEMMA WatcherInit == Init => WatcherInv
  <1> SUFFICES ASSUME Init PROVE WatcherInv
    OBVIOUS
  <1>1. Minus(1, Depth) = 0
    BY ChainBounds DEF Minus
  <1>2. ChainInv /\ head = 0 /\ final = 0
    BY <1>1, ChainBounds DEF Init, ChainInit, ChainInv
  <1>3. deposit \in [Rows -> RowType]
        /\ \A r \in Rows : deposit[r].status = "NONE" /\ deposit[r].amount = 0
    <2>1. NoRow \in RowType /\ NoRow.status = "NONE" /\ NoRow.amount = 0
      BY ChainBounds, WatcherBounds DEF NoRow, RowType, Statuses
    <2> QED BY <2>1 DEF Init
  <1>4. NoPass \in PassType
    BY ChainBounds DEF NoPass, Pass, NoRewind, PassType, LoopLabels
  <1>5. WatcherTypeOK
    BY <1>3, <1>4, ChainBounds, WatcherBounds DEF WatcherTypeOK, Init
  <1>6. \A d \in Deposits : RowFits(d) /\ ~Stale(d)
    BY <1>3, WatcherBounds DEF RowFits, Stale
  <1>7. ASSUME NEW a \in Assets PROVE PassFits(a, loop[a])
    <2>1. loop[a] = NoPass
      BY DEF Init
    <2>2. /\ loop[a].top = 0 /\ loop[a].pc = "idle" /\ loop[a].page = {}
          /\ loop[a].updates = {}
      BY <2>1 DEF NoPass, Pass
    <2> QED BY <1>1, <1>2, <1>6, <2>2 DEF PassFits
  <1>8. funded = {}
    BY DEF Init
  <1>9. ASSUME NEW a \in Assets PROVE Cardinality(Noted(a)) <= Balance(a, final)
    <2>1. Noted(a) = {}
      BY <1>3 DEF Noted, Units, RowsOf
    <2>2. Balance(a, final) \in Nat
      BY BalanceIs
    <2> QED BY <2>1, <2>2, FS_EmptySet
  <1> QED BY <1>2, <1>3, <1>5, <1>6, <1>7, <1>8, <1>9, WatcherBounds DEF WatcherInv, NoteFits

LEMMA WatcherStill ==
  ASSUME WatcherInv, UNCHANGED vars
  PROVE  WatcherInv'
  <1>1. UNCHANGED <<chain, deposit, cursor, loop, funded, errors>>
    BY DEF vars
  <1>2. \A d \in Deposits : (RowFits(d)' <=> RowFits(d)) /\ (Stale(d)' <=> Stale(d))
    BY <1>1, ChainStays DEF RowFits, Stale, Fixed
  <1>3. ASSUME NEW a \in Assets PROVE PassFits(a, loop[a])'
    <2>1. PICK p \in PassType : p = loop[a] /\ PassFits(a, p)
      BY DEF WatcherInv, WatcherTypeOK
    <2>2. PassFits(a, p)'
      BY <1>1, <2>1, PassStays, RowsStay
    <2> QED BY <1>1, <2>1, <2>2 DEF PassFits
  <1>4. \A a : Balance(a, final)' = Balance(a, final)
    BY <1>1, ChainStays DEF Balance
  <1>5. \A r \in Notes : NoteFits(r)' <=> NoteFits(r)
    BY <1>1, ChainStays DEF NoteFits, Kept
  <1>6. \A a : (Noted(a)' = Noted(a)) /\ (Covered(a)' <=> Covered(a))
    BY <1>1, <1>4, NotedSame, CoveredIs
  <1> QED BY <1>1, <1>2, <1>3, <1>4, <1>5, <1>6, ChainStays DEF WatcherInv, WatcherTypeOK

LEMMA WatcherNext ==
  ASSUME Prompt, WatcherInv, [Next]_vars
  PROVE  WatcherInv'
  <1>1. ASSUME NEW a \in Assets, Watching(a) PROVE WatcherInv'
    BY <1>1, StartFits, ScanFits, ReconcileFits, ListFits, ProbeFits, UpdateFits, FundFits,
       RewindFits, PassEnds DEF Watching
  <1>2. ASSUME NEW a \in Assets, Fail(a) PROVE WatcherInv'
    BY <1>2, PassEnds
  <1> QED BY <1>1, <1>2, MovingWatched, WatcherStill DEF Next

(***************************************************************************)
(* The theorems of the watcher                                             *)
(***************************************************************************)

\* What rows and listed copies say was seen on the chain; what is confirmed is past
\* the finality line; what was lost stays under watch, at every head a pass has read.
THEOREM WatcherInvHolds ==
  ASSUME Prompt
  PROVE  Spec => []WatcherInv
  BY WatcherInit, WatcherNext, PTL DEF Spec

\* A payment in an asset whose balance is not read counts each transfer once, only past
\* the finality line, whatever the loops of the chain's other assets do.
ScansAreTrue ==
    \A a \in Assets \ Balanced : Total(a, {"CONFIRMED"}) <= Balance(a, final)

\* So it is in every state, also on a chain where other assets' balances are read.
THEOREM ScannedFunds ==
  ASSUME Prompt
  PROVE  Spec => []ScansAreTrue
  <1>1. WatcherInv => ScansAreTrue
    BY CountedTotal DEF ScansAreTrue
  <1> QED BY <1>1, WatcherInvHolds, PTL

\* A payment is funded only by what the chain holds past the finality line; where balances
\* are read, by no less than half of what it is owed.
THEOREM FundsAreFinal ==
  ASSUME Prompt
  PROVE  Spec => []FundedFromChain
  <1>1. WatcherInv => FundedFromChain
    BY DEF WatcherInv, FundedFromChain
  <1> QED BY <1>1, WatcherInvHolds, PTL

\* No transfer counts twice as a transfer, also one that a reorganisation moved while a
\* pass held an older copy of its row; and no balance is noted twice, whatever rows
\* were orphaned when it was read.
THEOREM CountedOnce ==
  ASSUME Prompt
  PROVE  Spec => []CountedOncePerRoute
  <1>1. WatcherInv => CountedOncePerRoute
    BY Counted DEF CountedOncePerRoute, WatcherInv
  <1> QED BY <1>1, WatcherInvHolds, PTL

=============================================================================
