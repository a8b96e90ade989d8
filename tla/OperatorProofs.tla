--------------------------- MODULE OperatorProofs ---------------------------
(* What is on record about an operator key's transactions is true, for every *)
(* number of processes, calls, bumps and failures.                           *)
EXTENDS OperatorKey, TLAPS

FlowType == [pc : FlowLabels, id : Ids \cup {0}, nonce : Nat, age : Nat, alive : BOOLEAN]
PassType == [pc : PassLabels, id : Ids \cup {0}, row : Rows, verdict : Verdicts]
MinedType == [id : Ids, try : Nat, ok : BOOLEAN]

\* The row i is there, with the nonce n.
OnRecord(i, n) == i \in Ids /\ row[i].status # "none" /\ row[i].nonce = n

\* Why the verdict v on a row i with the nonce n is true.
Grounds(i, v, n) ==
    /\ v \in {"finalized", "reverted"} =>
          \E k \in 1 .. Len(mined) : mined[k].id = i /\ mined[k].ok = (v = "finalized")
    /\ v = "replaced" => Len(mined) > n

\* What a broadcast and a pass know of the world as long as they run.
FlowKnows(f) ==
    f.pc \in {"sending", "recording", "committing", "closing"} => OnRecord(f.id, f.nonce)
PassKnows(p) ==
    /\ p.pc # "idle" => OnRecord(p.id, p.row.nonce)
    /\ p.pc = "resolving" => p.verdict # "none" /\ Grounds(p.id, p.verdict, p.row.nonce)

\* The inductive invariant.
KeyInv ==
    /\ EveryBroadcastIsOnRecord
    /\ \A s \in Signers : FlowKnows(flow[s])
    /\ \A w \in Workers : PassKnows(pass[w])
    /\ VerdictsAreTrue

\* The same of a record, after a step.
OnRecordNext(i, n) == i \in Ids /\ row'[i].status # "none" /\ row'[i].nonce = n
GroundsNext(i, v, n) ==
    /\ v \in {"finalized", "reverted"} =>
          \E k \in 1 .. Len(mined') : mined'[k].id = i /\ mined'[k].ok = (v = "finalized")
    /\ v = "replaced" => Len(mined') > n
FlowKnowsNext(f) ==
    f.pc \in {"sending", "recording", "committing", "closing"} => OnRecordNext(f.id, f.nonce)
PassKnowsNext(p) ==
    /\ p.pc # "idle" => OnRecordNext(p.id, p.row.nonce)
    /\ p.pc = "resolving" => p.verdict # "none" /\ GroundsNext(p.id, p.verdict, p.row.nonce)

\* No step takes a row away or changes its nonce, nor what was mined.
Keeps ==
    /\ \A i \in Ids : row[i].status # "none" =>
          row'[i].status # "none" /\ row'[i].nonce = row[i].nonce
    /\ Len(mined) <= Len(mined')
    /\ \A k \in 1 .. Len(mined) : mined'[k] = mined[k]

LEMMA InitKeyInv == Init => KeyInv
  <1> SUFFICES ASSUME Init PROVE KeyInv
    OBVIOUS
  <1>1. NoRow \in Rows /\ NoFlow \in FlowType /\ NoPass \in PassType
    BY DEF NoRow, Rows, Statuses, Open, NoFlow, Flow, FlowType, FlowLabels, NoPass, Pass,
           PassType, PassLabels, Verdicts
  <1>2. OperatorTypeOK
    BY <1>1 DEF Init, OperatorTypeOK, NoFloor, FlowType, PassType, MinedType
  <1>3. EveryBroadcastIsOnRecord
    BY <1>2 DEF Init, EveryBroadcastIsOnRecord
  <1>4. (\A s \in Signers : FlowKnows(flow[s])) /\ \A w \in Workers : PassKnows(pass[w])
    BY DEF Init, FlowKnows, PassKnows, NoFlow, Flow, NoPass, Pass
  <1>5. VerdictsAreTrue
    BY DEF Init, VerdictsAreTrue, NoRow
  <1> QED BY <1>3, <1>4, <1>5 DEF KeyInv

\* What was known before a step that keeps rows and blocks is known after it.
LEMMA KnowledgeStays ==
  ASSUME Keeps, mined \in Seq(MinedType), mined' \in Seq(MinedType),
         NEW i \in Ids, NEW n \in Nat, NEW v
  PROVE  /\ OnRecord(i, n) => OnRecordNext(i, n)
         /\ Grounds(i, v, n) => GroundsNext(i, v, n)
  <1>1. OnRecord(i, n) => OnRecordNext(i, n)
    BY DEF Keeps, OnRecord, OnRecordNext
  <1>2. ASSUME Grounds(i, v, n) PROVE GroundsNext(i, v, n)
    <2>1. Len(mined) \in Nat /\ Len(mined') \in Nat
      OBVIOUS
    <2>2. ASSUME v \in {"finalized", "reverted"}
          PROVE  \E k \in 1 .. Len(mined') : mined'[k].id = i /\ mined'[k].ok = (v = "finalized")
      <3>1. PICK k \in 1 .. Len(mined) : mined[k].id = i /\ mined[k].ok = (v = "finalized")
        BY <1>2, <2>2 DEF Grounds
      <3>2. k \in 1 .. Len(mined') /\ mined'[k] = mined[k]
        BY <2>1 DEF Keeps
      <3> QED BY <3>1, <3>2
    <2>3. v = "replaced" => Len(mined') > n
      BY <1>2, <2>1 DEF Grounds, Keeps
    <2> QED BY <2>2, <2>3 DEF GroundsNext
  <1> QED BY <1>1, <1>2

LEMMA Typed ==
  ASSUME KeyInv
  PROVE  /\ mined \in Seq(MinedType) /\ pool \subseteq Txs /\ row \in [Ids -> Rows]
         /\ flow \in [Signers -> FlowType] /\ pass \in [Workers -> PassType]
         /\ fence \in [Workers -> Nat] /\ token \in Nat /\ upsets \in Nat
         /\ lease \in Workers \cup {Nobody} /\ lock \in Signers \cup {Nobody}
         /\ floor \in [next : Nat, age : Nat]
         /\ OperatorTypeOK
  BY DEF KeyInv, EveryBroadcastIsOnRecord, OperatorTypeOK, MinedType, FlowType, PassType

\* A step keeps the invariant when each thing it writes is known to be true.
LEMMA Frame ==
  ASSUME KeyInv, OperatorTypeOK', Keeps,
         \A s \in Signers : flow'[s] = flow[s] \/ FlowKnowsNext(flow'[s]),
         \A w \in Workers : pass'[w] = pass[w] \/ PassKnowsNext(pass'[w]),
         \A t \in pool' : t \in pool \/ OnRecordNext(t.id, t.nonce),
         \A k \in 1 .. Len(mined') : k <= Len(mined) \/ OnRecordNext(mined'[k].id, k - 1),
         \A i \in Ids : \/ row'[i].status = row[i].status
                        \/ row'[i].status \in {"none", "allocated", "submitted", "abandoned"}
                        \/ GroundsNext(i, row'[i].status, row'[i].nonce)
  PROVE  KeyInv'
  <1>0. /\ mined \in Seq(MinedType) /\ mined' \in Seq(MinedType)
        /\ pool \subseteq Txs /\ pass \in [Workers -> PassType] /\ flow \in [Signers -> FlowType]
        /\ row \in [Ids -> Rows] /\ row' \in [Ids -> Rows]
    BY Typed DEF OperatorTypeOK, MinedType
  <1>1. EveryBroadcastIsOnRecord'
    <2>1. ASSUME NEW t \in pool' PROVE OnRecordNext(t.id, t.nonce)
      <3>1. CASE t \in pool
        <4>1. t.id \in Ids /\ t.nonce \in Nat
          BY <1>0, <3>1 DEF Txs
        <4>2. OnRecord(t.id, t.nonce)
          BY <3>1, <4>1 DEF KeyInv, EveryBroadcastIsOnRecord, OnRecord
        <4> QED BY <4>1, <4>2, <1>0, KnowledgeStays
      <3> QED BY <3>1
    <2>2. ASSUME NEW k \in 1 .. Len(mined') PROVE OnRecordNext(mined'[k].id, k - 1)
      <3>1. CASE k <= Len(mined)
        <4>1. k \in 1 .. Len(mined) /\ mined'[k] = mined[k]
          BY <1>0, <3>1 DEF Keeps
        <4>2. mined[k] \in MinedType
          BY <1>0, <4>1
        <4>3. mined[k].id \in Ids /\ k - 1 \in Nat
          BY <4>1, <4>2 DEF MinedType
        <4>4. OnRecord(mined[k].id, k - 1)
          BY <4>1, <4>3 DEF KeyInv, EveryBroadcastIsOnRecord, OnRecord
        <4> QED BY <4>1, <4>3, <4>4, <1>0, KnowledgeStays
      <3> QED BY <3>1
    <2> QED BY <2>1, <2>2 DEF EveryBroadcastIsOnRecord, OnRecordNext
  <1>2. ASSUME NEW s \in Signers PROVE FlowKnows(flow[s])'
    <2>1. FlowKnowsNext(flow'[s])
      <3>1. ASSUME flow'[s] = flow[s] PROVE FlowKnowsNext(flow[s])
        <4>1. FlowKnows(flow[s]) /\ flow[s].nonce \in Nat
          BY <1>0 DEF KeyInv, FlowType
        <4>2. ASSUME OnRecord(flow[s].id, flow[s].nonce)
              PROVE  OnRecordNext(flow[s].id, flow[s].nonce)
          BY <4>1, <4>2, <1>0, KnowledgeStays DEF OnRecord
        <4> QED BY <4>1, <4>2 DEF FlowKnows, FlowKnowsNext
      <3> QED BY <3>1
    <2> QED BY <2>1 DEF FlowKnowsNext, FlowKnows, OnRecordNext, OnRecord
  <1>3. ASSUME NEW w \in Workers PROVE PassKnows(pass[w])'
    <2>1. PassKnowsNext(pass'[w])
      <3>1. ASSUME pass'[w] = pass[w] PROVE PassKnowsNext(pass[w])
        <4>1. PassKnows(pass[w]) /\ pass[w].row.nonce \in Nat
          BY <1>0 DEF KeyInv, PassType, Rows
        <4>2. ASSUME OnRecord(pass[w].id, pass[w].row.nonce)
              PROVE  /\ OnRecordNext(pass[w].id, pass[w].row.nonce)
                     /\ Grounds(pass[w].id, pass[w].verdict, pass[w].row.nonce)
                          => GroundsNext(pass[w].id, pass[w].verdict, pass[w].row.nonce)
          BY <4>1, <4>2, <1>0, KnowledgeStays DEF OnRecord
        <4> QED BY <4>1, <4>2 DEF PassKnows, PassKnowsNext
      <3> QED BY <3>1
    <2> QED BY <2>1 DEF PassKnowsNext, PassKnows, OnRecordNext, OnRecord, GroundsNext, Grounds
  <1>4. VerdictsAreTrue'
    <2>1. ASSUME NEW i \in Ids PROVE GroundsNext(i, row'[i].status, row'[i].nonce)
      <3>1. CASE row'[i].status = row[i].status
        <4>1. Grounds(i, row[i].status, row[i].nonce) /\ row[i].nonce \in Nat
          BY <1>0 DEF KeyInv, VerdictsAreTrue, Grounds, Confirmed, Rows
        <4>2. GroundsNext(i, row[i].status, row[i].nonce)
          BY <4>1, <1>0, KnowledgeStays
        <4>3. row[i].status = "none" \/ row'[i].nonce = row[i].nonce
          BY DEF Keeps
        <4> QED BY <3>1, <4>2, <4>3 DEF GroundsNext
      <3>2. CASE row'[i].status \in {"none", "allocated", "submitted", "abandoned"}
        BY <3>2 DEF GroundsNext
      <3> QED BY <3>1, <3>2
    <2> QED BY <2>1 DEF VerdictsAreTrue, GroundsNext, Confirmed
  <1> QED BY <1>1, <1>2, <1>3, <1>4 DEF KeyInv

\* What the lease, the lock and the floor hold, whatever a step made of them.
KeptTyped ==
    /\ lease' \in Workers \cup {Nobody} /\ token' \in Nat /\ fence' \in [Workers -> Nat]
    /\ lock' \in Signers \cup {Nobody} /\ floor' \in [next : Nat, age : Nat]
    /\ upsets' \in Nat

\* A step that moves one broadcast and writes no row.
LEMMA FlowMoves ==
  ASSUME KeyInv, NEW s \in Signers, NEW f \in FlowType, FlowKnows(f),
         flow' = [flow EXCEPT ![s] = f],
         UNCHANGED <<row, pass, chain>>, KeptTyped
  PROVE  KeyInv'
  <1>1. UNCHANGED <<row, pass, pool, mined>>
    BY DEF chain
  <1>2. OperatorTypeOK'
    BY <1>1, Typed DEF OperatorTypeOK, KeptTyped, FlowType, PassType, MinedType
  <1>3. Keeps
    BY <1>1, Typed DEF Keeps
  <1>4. ASSUME NEW v \in Signers PROVE flow'[v] = flow[v] \/ FlowKnowsNext(flow'[v])
    <2>1. flow'[v] = IF v = s THEN f ELSE flow[v]
      BY Typed
    <2>2. FlowKnowsNext(f)
      BY <1>1 DEF FlowKnows, FlowKnowsNext, OnRecord, OnRecordNext
    <2> QED BY <2>1, <2>2
  <1>5. \A k \in 1 .. Len(mined') : k <= Len(mined)
    BY <1>1, Typed
  <1> QED BY <1>1, <1>2, <1>3, <1>4, <1>5, Frame

\* A step that moves one pass and writes no row.
LEMMA PassMoves ==
  ASSUME KeyInv, NEW w \in Workers, NEW p \in PassType, PassKnows(p),
         pass' = [pass EXCEPT ![w] = p],
         UNCHANGED <<row, flow, chain>>, KeptTyped
  PROVE  KeyInv'
  <1>1. UNCHANGED <<row, flow, pool, mined>>
    BY DEF chain
  <1>2. OperatorTypeOK'
    BY <1>1, Typed DEF OperatorTypeOK, KeptTyped, FlowType, PassType, MinedType
  <1>3. Keeps
    BY <1>1, Typed DEF Keeps
  <1>4. ASSUME NEW v \in Workers PROVE pass'[v] = pass[v] \/ PassKnowsNext(pass'[v])
    <2>1. pass'[v] = IF v = w THEN p ELSE pass[v]
      BY Typed
    <2>2. PassKnowsNext(p)
      BY <1>1 DEF PassKnows, PassKnowsNext, OnRecord, OnRecordNext, Grounds, GroundsNext
    <2> QED BY <2>1, <2>2
  <1>5. \A k \in 1 .. Len(mined') : k <= Len(mined)
    BY <1>1, Typed
  <1> QED BY <1>1, <1>2, <1>3, <1>4, <1>5, Frame

LEMMA Idles ==
  /\ NoFlow \in FlowType /\ FlowKnows(NoFlow)
  /\ NoPass \in PassType /\ PassKnows(NoPass)
  <1>1. NoRow \in Rows
    BY DEF NoRow, Rows, Statuses, Open
  <1> QED BY <1>1 DEF NoFlow, Flow, FlowType, FlowLabels, FlowKnows, NoPass, Pass, PassType,
             PassLabels, PassKnows, Verdicts

\* A broadcast that goes on to pc knows what it knew.
LEMMA PcMoves ==
  ASSUME KeyInv, NEW s \in Signers, NEW pc \in FlowLabels, NEW e \in BOOLEAN,
         \/ pc \notin {"sending", "recording", "committing", "closing"}
         \/ flow[s].pc \in {"sending", "recording", "committing", "closing"}
  PROVE  LET f == Flow(pc, flow[s].id, flow[s].nonce, flow[s].age, e)
         IN  f \in FlowType /\ FlowKnows(f)
  <1>1. flow[s] \in FlowType /\ FlowKnows(flow[s])
    BY Typed DEF KeyInv
  <1> QED BY <1>1 DEF Flow, FlowType, FlowKnows

(***************************************************************************)
(* One lemma per group of actions                                          *)
(***************************************************************************)
LEMMA LeaseInv ==
  ASSUME KeyInv, NEW w \in Workers, Acquire(w) \/ LoseLease(w)
  PROVE  KeyInv'
  <1>0. UNCHANGED <<flow, row, pass, chain, lock, floor>>
    BY DEF Acquire, LoseLease
  <1>1. KeptTyped
    <2>1. CASE Acquire(w)
      <3>1. lease' = w /\ token' = token + 1 /\ fence' = [fence EXCEPT ![w] = token + 1]
            /\ upsets' = upsets
        BY <2>1 DEF Acquire
      <3> QED BY <1>0, <3>1, Typed DEF KeptTyped
    <2>2. CASE LoseLease(w)
      <3>1. lease' = Nobody /\ token' = token /\ fence' = fence /\ upsets' = upsets + 1
        BY <2>2 DEF LoseLease
      <3> QED BY <1>0, <3>1, Typed DEF KeptTyped
    <2> QED BY <2>1, <2>2
  <1>2. pass' = [pass EXCEPT ![w] = pass[w]] /\ pass[w] \in PassType /\ PassKnows(pass[w])
    BY <1>0, Typed DEF KeyInv
  <1> QED BY <1>0, <1>1, <1>2, PassMoves

LEMMA QueueInv ==
  ASSUME KeyInv, NEW s \in Signers,
         \/ Broadcast(s) \/ Lock(s) \/ AssertCurrent(s) \/ Refuse(s)
         \/ Broken(s) \/ LoseConnection(s)
  PROVE  KeyInv'
  <1>1. UNCHANGED <<row, pass, chain>> /\ KeptTyped
    <2>1. lock' \in Signers \cup {Nobody}
      BY Typed DEF Broadcast, Lock, AssertCurrent, Refuse, Broken, LoseConnection, Unlock
    <2>2. upsets' \in Nat
      <3>1. upsets' = upsets \/ upsets' = upsets + 1
        BY DEF Broadcast, Lock, AssertCurrent, Refuse, Broken, LoseConnection
      <3> QED BY <3>1, Typed
    <2>3. UNCHANGED <<row, pass, chain, keeping, floor>>
      BY DEF Broadcast, Lock, AssertCurrent, Refuse, Broken, LoseConnection
    <2> QED BY <2>1, <2>2, <2>3, Typed DEF KeptTyped, keeping
  <1>2. ASSUME NEW pc \in FlowLabels, NEW e \in BOOLEAN,
               Becomes(s, Flow(pc, flow[s].id, flow[s].nonce, flow[s].age, e)),
               \/ pc \notin {"sending", "recording", "committing", "closing"}
               \/ flow[s].pc \in {"sending", "recording", "committing", "closing"}
        PROVE  KeyInv'
    <2> DEFINE f == Flow(pc, flow[s].id, flow[s].nonce, flow[s].age, e)
    <2>1. f \in FlowType /\ FlowKnows(f)
      BY <1>2, PcMoves
    <2>2. flow' = [flow EXCEPT ![s] = f]
      BY <1>2 DEF Becomes
    <2> HIDE DEF f
    <2> QED BY <1>1, <2>1, <2>2, FlowMoves
  <1>3. flow[s].alive \in BOOLEAN /\ flow[s].pc \in FlowLabels
    BY Typed DEF FlowType
  <1>4. CASE LoseConnection(s)
    BY <1>2, <1>3, <1>4 DEF LoseConnection
  <1>5. CASE Refuse(s)
    BY <1>2, <1>3, <1>5 DEF Refuse, Goes, At, FlowLabels
  <1>6. CASE Broadcast(s) \/ Lock(s) \/ AssertCurrent(s) \/ Broken(s)
    <2>1. PICK pc \in {"locking", "checking", "reading", "clearing"} : Goes(s, pc)
      BY <1>6 DEF Broadcast, Lock, AssertCurrent, Broken
    <2>2. pc \in FlowLabels /\ pc \notin {"sending", "recording", "committing", "closing"}
      BY DEF FlowLabels
    <2> QED BY <1>2, <1>3, <2>1, <2>2 DEF Goes
  <1> QED BY <1>4, <1>5, <1>6

LEMMA EndsInv ==
  ASSUME KeyInv, NEW h \in Workers \cup Servers, Ends(h), upsets' \in Nat
  PROVE  KeyInv'
  <1>1. UNCHANGED <<row, pool, mined>>
    BY DEF Ends, chain
  <1>2. /\ flow' \in [Signers -> FlowType]
        /\ \A v \in Signers : flow'[v] = flow[v] \/ flow'[v] = NoFlow
    BY Typed, Idles DEF Ends
  <1>3. /\ pass' \in [Workers -> PassType]
        /\ \A v \in Workers : pass'[v] = pass[v] \/ pass'[v] = NoPass
    BY Typed, Idles DEF Ends
  <1>4. KeptTyped
    <2>1. lease' \in Workers \cup {Nobody} /\ lock' \in Signers \cup {Nobody}
      BY Typed DEF Ends
    <2>2. fence' \in [Workers -> Nat]
      BY Typed DEF Ends
    <2>3. token' = token /\ floor' = floor
      BY DEF Ends
    <2> QED BY <2>1, <2>2, <2>3, Typed DEF KeptTyped
  <1>5. OperatorTypeOK'
    BY <1>1, <1>2, <1>3, <1>4, Typed
    DEF OperatorTypeOK, KeptTyped, FlowType, PassType, MinedType
  <1>6. FlowKnowsNext(NoFlow) /\ PassKnowsNext(NoPass)
    BY DEF FlowKnowsNext, PassKnowsNext, NoFlow, Flow, NoPass, Pass
  <1>7. Keeps /\ \A k \in 1 .. Len(mined') : k <= Len(mined)
    BY <1>1, Typed DEF Keeps
  <1> QED BY <1>1, <1>2, <1>3, <1>5, <1>6, <1>7, Frame

\* The steps of a broadcast that set its nonce, or end it.
LEMMA ReadInv ==
  ASSUME KeyInv, NEW s \in Signers, ReadFloor(s) \/ Commit(s) \/ Clear(s)
  PROVE  KeyInv'
  <1>1. flow[s] \in FlowType /\ Trusted \in Nat
    BY Typed DEF Trusted
  <1>2. KeptTyped /\ UNCHANGED <<row, pass, chain>>
    <2>1. lock' \in Signers \cup {Nobody}
      BY Typed DEF ReadFloor, Commit, Clear, Unlock
    <2>2. floor' = floor \/ floor' = NoFloor \/ floor' = [next |-> flow[s].nonce + 1, age |-> flow[s].age]
      BY DEF ReadFloor, Commit, Clear
    <2>3. floor' \in [next : Nat, age : Nat]
      BY <1>1, <2>2, Typed DEF NoFloor, FlowType
    <2>4. UNCHANGED <<row, pass, chain, keeping, upsets>>
      BY DEF ReadFloor, Commit, Clear
    <2> QED BY <2>1, <2>3, <2>4, Typed DEF KeptTyped, keeping
  <1>3. CASE ReadFloor(s)
    <2> DEFINE f == Flow("allocating", 0, Trusted, 0, TRUE)
    <2>1. f \in FlowType /\ FlowKnows(f)
      BY <1>1 DEF Flow, FlowType, FlowLabels, FlowKnows
    <2>2. flow' = [flow EXCEPT ![s] = f]
      BY <1>3 DEF ReadFloor, Becomes
    <2> HIDE DEF f
    <2> QED BY <1>2, <2>1, <2>2, FlowMoves
  <1>4. CASE Commit(s) \/ Clear(s)
    <2>1. flow' = [flow EXCEPT ![s] = NoFlow]
      BY <1>4 DEF Commit, Clear, Becomes
    <2> QED BY <1>2, <2>1, Idles, FlowMoves
  <1> QED BY <1>3, <1>4

LEMMA AllocateInv ==
  ASSUME KeyInv, NEW s \in Signers, Allocate(s)
  PROVE  KeyInv'
  <1>1. PICK i \in Ids, seen \in 0 .. MaxCalls :
          /\ IsNew(i)
          /\ LET n == IF seen >= flow[s].nonce THEN seen ELSE flow[s].nonce
             IN  /\ Insert(i, n)
                 /\ Becomes(s, Flow("sending", i, n, flow[s].age, flow[s].alive))
    BY DEF Allocate
  <1> DEFINE n == IF seen >= flow[s].nonce THEN seen ELSE flow[s].nonce
             f == Flow("sending", i, n, flow[s].age, flow[s].alive)
             r == Allocated(n)
  <1>2. row' = [row EXCEPT ![i] = r] /\ flow' = [flow EXCEPT ![s] = f] /\ row[i].status = "none"
    BY <1>1 DEF Insert, Becomes, IsNew
  <1>3. flow[s] \in FlowType
    BY Typed
  <1>4. n \in Nat
    BY <1>3, BoundsAssumption DEF FlowType
  <1>5. /\ r \in Rows /\ r.status = "allocated" /\ r.nonce = n
        /\ f \in FlowType /\ f.id = i /\ f.nonce = n
    BY <1>3, <1>4 DEF Allocated, Rows, Statuses, Open, Flow, FlowType, FlowLabels
  <1> HIDE DEF n, f, r
  <1>6. UNCHANGED <<keeping, lock, floor, pass, pool, mined, upsets>>
    BY DEF Allocate, chain
  <1>7. row' \in [Ids -> Rows] /\ flow' \in [Signers -> FlowType]
    BY <1>2, <1>5, Typed
  <1>8. OperatorTypeOK'
    BY <1>6, <1>7, Typed DEF OperatorTypeOK, FlowType, PassType, MinedType, keeping
  <1>9. \A j \in Ids : row'[j] = IF j = i THEN r ELSE row[j]
    BY <1>2, Typed
  <1>10. Keeps /\ \A k \in 1 .. Len(mined') : k <= Len(mined)
    BY <1>2, <1>6, <1>9, Typed DEF Keeps
  <1>11. FlowKnowsNext(f) /\ \A v \in Signers : flow'[v] = flow[v] \/ flow'[v] = f
    BY <1>2, <1>5, <1>9, Typed DEF FlowKnowsNext, OnRecordNext
  <1> QED BY <1>5, <1>6, <1>8, <1>9, <1>10, <1>11, Frame

LEMMA SendInv ==
  ASSUME KeyInv, NEW s \in Signers, Send(s)
  PROVE  KeyInv'
  <1> DEFINE t == Tx(flow[s].id, flow[s].nonce, 0, 0)
  <1>1. PICK pc \in {"recording", "closing"} : Goes(s, pc)
    BY DEF Send
  <1> DEFINE f == Flow(pc, flow[s].id, flow[s].nonce, flow[s].age, flow[s].alive)
  <1>2. pool' = pool \cup {t} /\ flow' = [flow EXCEPT ![s] = f] /\ flow[s].pc = "sending"
    BY <1>1 DEF Send, Goes, Becomes, At
  <1>3. UNCHANGED <<keeping, lock, floor, row, pass, mined>> /\ (upsets' = upsets \/ upsets' = upsets + 1)
    BY DEF Send
  <1>4. flow[s] \in FlowType /\ OnRecord(flow[s].id, flow[s].nonce)
    BY <1>2, Typed DEF KeyInv, FlowKnows
  <1>5. /\ t \in Txs /\ OnRecord(t.id, t.nonce)
        /\ f \in FlowType /\ OnRecord(f.id, f.nonce)
    BY <1>4 DEF Tx, Txs, Flow, FlowType, FlowLabels, OnRecord
  <1> HIDE DEF t, f
  <1>6. pool' \subseteq Txs /\ flow' \in [Signers -> FlowType] /\ upsets' \in Nat
    BY <1>2, <1>3, <1>5, Typed
  <1>7. OperatorTypeOK'
    BY <1>3, <1>6, Typed DEF OperatorTypeOK, FlowType, PassType, MinedType, keeping
  <1>8. Keeps /\ \A k \in 1 .. Len(mined') : k <= Len(mined)
    BY <1>3, Typed DEF Keeps
  <1>9. OnRecordNext(t.id, t.nonce) /\ OnRecordNext(f.id, f.nonce)
    BY <1>3, <1>5 DEF OnRecord, OnRecordNext
  <1>10. FlowKnowsNext(f) /\ \A v \in Signers : flow'[v] = flow[v] \/ flow'[v] = f
    BY <1>2, <1>9, Typed DEF FlowKnowsNext
  <1> QED BY <1>2, <1>3, <1>7, <1>8, <1>9, <1>10, Frame

\* A row that is there is rewritten under its nonce, with a status that is true.
LEMMA RowMoves ==
  ASSUME KeyInv, NEW i \in Ids, row[i].status # "none",
         NEW r \in Rows, r.status # "none", r.nonce = row[i].nonce,
         r.status = row[i].status \/ Grounds(i, r.status, r.nonce),
         row' = row \/ row' = [row EXCEPT ![i] = r],
         UNCHANGED chain, KeptTyped,
         flow' \in [Signers -> FlowType], pass' \in [Workers -> PassType],
         \A s \in Signers : flow'[s] = flow[s] \/ FlowKnows(flow'[s]),
         \A w \in Workers : pass'[w] = pass[w] \/ PassKnows(pass'[w])
  PROVE  KeyInv'
  <1>1. pool' = pool /\ mined' = mined
    BY DEF chain
  <1>2. row' \in [Ids -> Rows] /\ \A j \in Ids : row'[j] = row[j] \/ (j = i /\ row'[j] = r)
    BY Typed
  <1>3. OperatorTypeOK'
    BY <1>1, <1>2, Typed DEF OperatorTypeOK, KeptTyped, FlowType, PassType, MinedType
  <1>4. Keeps /\ \A k \in 1 .. Len(mined') : k <= Len(mined)
    BY <1>1, <1>2, Typed DEF Keeps
  <1>5. ASSUME NEW j, NEW n, OnRecord(j, n) PROVE OnRecordNext(j, n)
    BY <1>2, <1>5 DEF OnRecord, OnRecordNext
  <1>6. ASSUME NEW j, NEW v, NEW n, Grounds(j, v, n) PROVE GroundsNext(j, v, n)
    BY <1>1, <1>6 DEF Grounds, GroundsNext
  <1>7. ASSUME NEW f, FlowKnows(f) PROVE FlowKnowsNext(f)
    BY <1>5, <1>7 DEF FlowKnows, FlowKnowsNext
  <1>8. ASSUME NEW p, PassKnows(p) PROVE PassKnowsNext(p)
    BY <1>5, <1>6, <1>8 DEF PassKnows, PassKnowsNext
  <1>9. ASSUME NEW j \in Ids
        PROVE  row'[j].status = row[j].status \/ GroundsNext(j, row'[j].status, row'[j].nonce)
    BY <1>2, <1>6
  <1> QED BY <1>1, <1>3, <1>4, <1>7, <1>8, <1>9, Frame

LEMMA WriteInv ==
  ASSUME KeyInv, NEW s \in Signers, Record(s) \/ Close(s)
  PROVE  KeyInv'
  <1> DEFINE i == flow[s].id
             r == IF Record(s)
                  THEN [status |-> "submitted", nonce |-> row[i].nonce, try |-> 0,
                        bumps |-> row[i].bumps, age |-> 0]
                  ELSE Marked(row[i], "abandoned")
  <1>1. PICK pc \in {"committing", "clearing"} : Goes(s, pc)
    BY DEF Record, Close
  <1> DEFINE f == Flow(pc, flow[s].id, flow[s].nonce, flow[s].age, flow[s].alive)
  <1>2. flow[s] \in FlowType /\ OnRecord(flow[s].id, flow[s].nonce)
        /\ flow[s].pc \in {"recording", "closing"}
    BY Typed DEF KeyInv, FlowKnows, Record, Close, At
  <1>3. flow' = [flow EXCEPT ![s] = f] /\ f \in FlowType /\ FlowKnows(f)
    BY <1>1, <1>2 DEF Goes, Becomes, Flow, FlowType, FlowLabels, FlowKnows
  <1>4. i \in Ids /\ row[i].status # "none" /\ row[i] \in Rows
    BY <1>2, Typed DEF OnRecord
  <1>5. /\ r \in Rows /\ r.status \in {"submitted", "abandoned"} /\ r.nonce = row[i].nonce
    BY <1>4 DEF Marked, Rows, Statuses, Open
  <1>6. Grounds(i, r.status, r.nonce)
    BY <1>5 DEF Grounds
  <1>7. row' = row \/ row' = [row EXCEPT ![i] = r]
    <2>1. CASE Record(s)
      BY <2>1 DEF Record
    <2>2. CASE ~Record(s)
      BY <2>2 DEF Close
    <2> QED BY <2>1, <2>2
  <1>8. UNCHANGED chain /\ UNCHANGED pass
    BY DEF Record, Close
  <1>9. KeptTyped
    <2>1. lock' \in Signers \cup {Nobody}
      BY Typed DEF Record, Close, Unlock
    <2>2. upsets' = upsets \/ upsets' = upsets + 1
      BY DEF Record, Close
    <2>3. UNCHANGED <<keeping, floor>>
      BY DEF Record, Close
    <2> QED BY <2>1, <2>2, <2>3, Typed DEF KeptTyped, keeping
  <1> HIDE DEF i, r, f
  <1>10. /\ flow' \in [Signers -> FlowType]
         /\ \A v \in Signers : flow'[v] = flow[v] \/ flow'[v] = f
    BY <1>3, Typed
  <1>11. pass' \in [Workers -> PassType]
    BY <1>8, Typed
  <1>12. \A v \in Signers : flow'[v] = flow[v] \/ FlowKnows(flow'[v])
    BY <1>3, <1>10
  <1>13. \A w \in Workers : pass'[w] = pass[w]
    BY <1>8
  <1>14. r.status # "none"
    BY <1>5
  <1> QED BY <1>4, <1>5, <1>6, <1>7, <1>8, <1>9, <1>10, <1>11, <1>12, <1>13, <1>14, RowMoves

LEMMA NextPass ==
  ASSUME KeyInv, NEW w \in Workers, NEW pc \in PassLabels, NEW v \in Verdicts,
         pass[w].pc # "idle",
         pc = "resolving" => v # "none" /\ Grounds(pass[w].id, v, pass[w].row.nonce)
  PROVE  LET p == Pass(pc, pass[w].id, pass[w].row, v)
         IN  p \in PassType /\ PassKnows(p)
  <1>1. pass[w] \in PassType /\ PassKnows(pass[w])
    BY Typed DEF KeyInv
  <1> QED BY <1>1 DEF Pass, PassType, PassKnows

LEMMA LookInv ==
  ASSUME KeyInv, NEW w \in Workers, AskReceipt(w) \/ Count(w) \/ PassFails(w)
  PROVE  KeyInv'
  <1>1. KeptTyped /\ UNCHANGED <<row, flow, chain>>
    <2>1. upsets' = upsets \/ upsets' = upsets + 1
      BY DEF AskReceipt, Count, PassFails
    <2>2. UNCHANGED <<row, flow, chain, keeping, lock, floor>>
      BY DEF AskReceipt, Count, PassFails
    <2> QED BY <2>1, <2>2, Typed DEF KeptTyped, keeping
  <1>2. CASE pass' = [pass EXCEPT ![w] = NoPass]
    BY <1>1, <1>2, Idles, PassMoves
  <1>3. ASSUME NEW pc \in PassLabels, NEW v \in Verdicts, Notes(w, pc, v), pass[w].pc # "idle",
               pc = "resolving" => v # "none" /\ Grounds(pass[w].id, v, pass[w].row.nonce)
        PROVE  KeyInv'
    <2> DEFINE p == Pass(pc, pass[w].id, pass[w].row, v)
    <2>1. p \in PassType /\ PassKnows(p)
      BY <1>3, NextPass
    <2>2. pass' = [pass EXCEPT ![w] = p]
      BY <1>3 DEF Notes, Turns
    <2> HIDE DEF p
    <2> QED BY <1>1, <2>1, <2>2, PassMoves
  <1>4. CASE AskReceipt(w)
    <2>1. pass[w].pc # "idle" /\ "counting" \in PassLabels /\ "resolving" \in PassLabels
          /\ {"none", "finalized", "reverted"} \subseteq Verdicts
      BY <1>4 DEF AskReceipt, In, PassLabels, Verdicts
    <2>2. CASE Notes(w, "counting", "none")
      BY <1>3, <2>1, <2>2
    <2>3. CASE \E k \in 1 .. Len(mined) :
                 /\ Landed(k, pass[w].id, pass[w].row.try)
                 /\ Notes(w, "resolving", IF mined[k].ok THEN "finalized" ELSE "reverted")
      <3>1. PICK k \in 1 .. Len(mined) :
                 /\ Landed(k, pass[w].id, pass[w].row.try)
                 /\ Notes(w, "resolving", IF mined[k].ok THEN "finalized" ELSE "reverted")
        BY <2>3
      <3> DEFINE v == IF mined[k].ok THEN "finalized" ELSE "reverted"
      <3>2. mined[k] \in MinedType
        BY Typed
      <3>3. mined[k].id = pass[w].id /\ mined[k].ok = (v = "finalized")
        BY <3>1, <3>2 DEF Landed, MinedType
      <3>4. v # "none" /\ v \in Verdicts /\ Grounds(pass[w].id, v, pass[w].row.nonce)
        BY <2>1, <3>3 DEF Grounds
      <3> QED BY <1>3, <2>1, <3>1, <3>4
    <2> QED BY <1>4, <2>2, <2>3 DEF AskReceipt
  <1>5. CASE Count(w)
    <2>1. pass[w].pc # "idle" /\ {"resolving", "bumping"} \subseteq PassLabels
          /\ {"none", "abandoned", "replaced"} \subseteq Verdicts
      BY <1>5 DEF Count, In, PassLabels, Verdicts
    <2>2. CASE Notes(w, "resolving", "abandoned")
      BY <1>3, <2>1, <2>2 DEF Grounds
    <2>3. CASE Passed(pass[w].row.nonce) /\ Notes(w, "resolving", "replaced")
      BY <1>3, <2>1, <2>3 DEF Grounds, Passed, Confirmed
    <2>4. CASE Notes(w, "bumping", "none")
      BY <1>3, <2>1, <2>4
    <2> QED BY <1>2, <1>5, <2>2, <2>3, <2>4 DEF Count, Leaves, Turns
  <1> QED BY <1>2, <1>4, <1>5 DEF PassFails, Leaves, Turns

LEMMA PickInv ==
  ASSUME KeyInv, NEW w \in Workers, NEW i \in Ids, Pick(w, i)
  PROVE  KeyInv'
  <1> DEFINE p == Pass(IF row[i].status = "submitted" THEN "asking" ELSE "counting",
                       i, row[i], "none")
  <1>1. row[i] \in Rows /\ row[i].status # "none"
    BY Typed DEF Pick, Open
  <1>2. p \in PassType /\ PassKnows(p)
    BY <1>1 DEF Pass, PassType, PassLabels, Verdicts, PassKnows, OnRecord
  <1>3. pass' = [pass EXCEPT ![w] = p] /\ UNCHANGED <<keeping, lock, floor, row, flow, chain, upsets>>
    BY DEF Pick, Turns
  <1>4. KeptTyped
    BY <1>3, Typed DEF KeptTyped, keeping
  <1> HIDE DEF p
  <1> QED BY <1>2, <1>3, <1>4, PassMoves

\* What a pass writes to its row.
LEMMA VerdictInv ==
  ASSUME KeyInv, NEW w \in Workers, Resolve(w) \/ RecordBump(w)
  PROVE  KeyInv'
  <1> DEFINE i == pass[w].id
             r == IF Resolve(w) THEN Marked(row[i], pass[w].verdict)
                  ELSE [status |-> row[i].status, nonce |-> row[i].nonce,
                        try |-> pass[w].row.try + 1, bumps |-> row[i].bumps + 1, age |-> 0]
  <1>1. /\ pass[w] \in PassType /\ PassKnows(pass[w]) /\ pass[w].pc # "idle"
        /\ Resolve(w) => pass[w].pc = "resolving"
    BY Typed DEF KeyInv, Resolve, RecordBump, In
  <1>2. i \in Ids /\ row[i].status # "none" /\ row[i] \in Rows /\ row[i].nonce = pass[w].row.nonce
    BY <1>1, Typed DEF PassKnows, OnRecord
  <1>3. /\ r \in Rows /\ r.status # "none" /\ r.nonce = row[i].nonce
        /\ r.status = row[i].status \/ Grounds(i, r.status, r.nonce)
    <2>1. CASE Resolve(w)
      <3>1. pass[w].verdict \in Statuses /\ pass[w].verdict # "none"
            /\ Grounds(i, pass[w].verdict, row[i].nonce)
        BY <1>1, <1>2, <2>1 DEF PassKnows, PassType, Verdicts, Statuses
      <3> QED BY <1>2, <2>1, <3>1 DEF Marked, Rows
    <2>2. CASE ~Resolve(w)
      <3>1. pass[w].row.try + 1 \in Nat /\ row[i].bumps + 1 \in Nat
        BY <1>1, <1>2 DEF PassType, Rows
      <3> QED BY <1>2, <2>2, <3>1 DEF Rows
    <2> QED BY <2>1, <2>2
  <1>4. row' = [row EXCEPT ![i] = r]
    BY DEF Resolve, RecordBump
  <1>5. UNCHANGED <<keeping, lock, floor, flow, chain, upsets>> /\ pass' = [pass EXCEPT ![w] = NoPass]
    BY DEF Resolve, RecordBump, Leaves, Turns
  <1>6. KeptTyped
    BY <1>5, Typed DEF KeptTyped, keeping
  <1> HIDE DEF i, r
  <1>7. flow' \in [Signers -> FlowType] /\ \A s \in Signers : flow'[s] = flow[s]
    BY <1>5, Typed
  <1>8. pass' \in [Workers -> PassType] /\ \A v \in Workers : pass'[v] = pass[v] \/ pass'[v] = NoPass
    BY <1>5, Typed, Idles
  <1>9. \A v \in Workers : pass'[v] = pass[v] \/ PassKnows(pass'[v])
    BY <1>8, Idles
  <1> QED BY <1>2, <1>3, <1>4, <1>5, <1>6, <1>7, <1>8, <1>9, RowMoves

LEMMA BumpInv ==
  ASSUME KeyInv, NEW w \in Workers, Bump(w)
  PROVE  KeyInv'
  <1> DEFINE t == Replacement(pass[w])
             p == Pass("bumped", pass[w].id, pass[w].row, "none")
  <1>1. pass[w] \in PassType /\ PassKnows(pass[w]) /\ pass[w].pc = "bumping"
    BY Typed DEF KeyInv, Bump, In
  <1>2. UNCHANGED <<keeping, lock, floor, row, flow, mined, upsets>>
    BY DEF Bump
  <1>3. \/ pool' = pool \cup {t} /\ pass' = [pass EXCEPT ![w] = p]
        \/ pool' = pool /\ pass' = [pass EXCEPT ![w] = NoPass]
    BY DEF Bump, Notes, Leaves, Turns
  <1>4. OnRecord(pass[w].id, pass[w].row.nonce)
    BY <1>1 DEF PassKnows
  <1>5. t \in Txs /\ OnRecord(t.id, t.nonce)
    BY <1>1, <1>4 DEF Replacement, BumpNonce, Tx, Txs, PassType, Rows, OnRecord
  <1>6. p \in PassType /\ p.pc = "bumped" /\ OnRecord(p.id, p.row.nonce)
    BY <1>1, <1>4 DEF Pass, PassType, PassLabels, Verdicts
  <1> HIDE DEF t, p
  <1>7. /\ pass' \in [Workers -> PassType] /\ pool' \subseteq Txs
        /\ \A v \in Workers : pass'[v] = pass[v] \/ pass'[v] = p \/ pass'[v] = NoPass
        /\ \A x \in pool' : x \in pool \/ x = t
    BY <1>3, <1>5, <1>6, Typed, Idles
  <1>8. OperatorTypeOK'
    BY <1>2, <1>7, Typed DEF OperatorTypeOK, FlowType, PassType, MinedType, keeping
  <1>9. Keeps /\ \A k \in 1 .. Len(mined') : k <= Len(mined)
    BY <1>2, Typed DEF Keeps
  <1>10. PassKnowsNext(p) /\ PassKnowsNext(NoPass) /\ OnRecordNext(t.id, t.nonce)
    BY <1>2, <1>5, <1>6 DEF PassKnowsNext, OnRecord, OnRecordNext, NoPass, Pass
  <1> QED BY <1>2, <1>7, <1>8, <1>9, <1>10, Frame

LEMMA ChainInv ==
  ASSUME KeyInv, Mine \/ Drop
  PROVE  KeyInv'
  <1>1. /\ UNCHANGED <<keeping, lock, floor, row, flow, pass>>
        /\ pool' \subseteq pool /\ (upsets' = upsets \/ upsets' = upsets + 1)
    BY DEF Mine, Drop
  <1>2. /\ mined' \in Seq(MinedType) /\ Len(mined) <= Len(mined')
        /\ \A k \in 1 .. Len(mined) : mined'[k] = mined[k]
        /\ \A k \in 1 .. Len(mined') : k <= Len(mined) \/ OnRecord(mined'[k].id, k - 1)
    <2>1. CASE Drop
      BY <2>1, Typed DEF Drop
    <2>2. CASE Mine
      <3>1. PICK t \in pool, ok \in BOOLEAN :
              t.nonce = Len(mined) /\ mined' = Append(mined, [id |-> t.id, try |-> t.try, ok |-> ok])
        BY <2>2 DEF Mine, Confirmed
      <3> DEFINE b == [id |-> t.id, try |-> t.try, ok |-> ok]
      <3>2. t \in Txs /\ t.id \in Ids
        BY Typed DEF Txs
      <3>3. b \in MinedType /\ b.id = t.id
        BY <3>2 DEF Txs, MinedType
      <3>4. OnRecord(b.id, Len(mined))
        BY <3>1, <3>2, <3>3 DEF KeyInv, EveryBroadcastIsOnRecord, OnRecord
      <3> HIDE DEF b
      <3>5. mined' = Append(mined, b) /\ mined \in Seq(MinedType)
        BY <3>1, Typed DEF b
      <3>6. /\ mined' \in Seq(MinedType) /\ Len(mined') = Len(mined) + 1 /\ Len(mined) \in Nat
            /\ mined'[Len(mined) + 1] = b
            /\ \A k \in 1 .. Len(mined) : mined'[k] = mined[k]
        BY <3>3, <3>5
      <3>7. ASSUME NEW k \in 1 .. Len(mined'), ~(k <= Len(mined))
            PROVE  OnRecord(mined'[k].id, k - 1)
        <4>1. k = Len(mined) + 1 /\ k - 1 = Len(mined)
          BY <3>6, <3>7
        <4> QED BY <3>4, <3>6, <4>1
      <3> QED BY <3>6, <3>7
    <2> QED BY <2>1, <2>2
  <1>3. OperatorTypeOK'
    BY <1>1, <1>2, Typed DEF OperatorTypeOK, FlowType, PassType, MinedType, keeping
  <1>4. Keeps
    BY <1>1, <1>2 DEF Keeps
  <1>5. \A k \in 1 .. Len(mined') : k <= Len(mined) \/ OnRecordNext(mined'[k].id, k - 1)
    BY <1>1, <1>2 DEF OnRecord, OnRecordNext
  <1> QED BY <1>1, <1>3, <1>4, <1>5, Frame

LEMMA ClockInv ==
  ASSUME KeyInv, Tick \/ UNCHANGED vars
  PROVE  KeyInv'
  <1>1. CASE UNCHANGED vars
    <2>1. UNCHANGED <<lease, token, fence, lock, floor, row, flow, pass, pool, mined, upsets>>
      BY <1>1 DEF vars, keeping, chain
    <2> QED BY <2>1 DEF KeyInv, EveryBroadcastIsOnRecord, OperatorTypeOK, FlowKnows, PassKnows,
             OnRecord, Grounds, VerdictsAreTrue, Confirmed
  <1>2. CASE Tick
    <2>1. ASSUME NEW a \in Nat, NEW cap PROVE Older(a, cap) \in Nat
      BY DEF Older
    <2>2. UNCHANGED <<keeping, lock, pass, mined, upsets>>
      BY <1>2 DEF Tick
    <2>3. floor' \in [next : Nat, age : Nat]
      BY <1>2, <2>1, Typed DEF Tick
    <2>4. ASSUME NEW i \in Ids
          PROVE  row'[i] \in Rows /\ row'[i].status = row[i].status /\ row'[i].nonce = row[i].nonce
      <3>1. row'[i] = AgedRow(row[i]) /\ row[i] \in Rows
        BY <1>2, Typed DEF Tick
      <3>2. Older(row[i].age, Grace) \in Nat
        BY <2>1, <3>1 DEF Rows
      <3> QED BY <3>1, <3>2 DEF AgedRow, Rows
    <2>5. row' \in [Ids -> Rows]
      <3>1. row' = [i \in Ids |-> AgedRow(row[i])]
        BY <1>2 DEF Tick
      <3>2. \A i \in Ids : AgedRow(row[i]) \in Rows
        BY <2>4, <3>1
      <3> QED BY <3>1, <3>2
    <2>6. ASSUME NEW t \in pool'
          PROVE  t \in Txs /\ OnRecord(t.id, t.nonce)
      <3>1. PICK x \in pool : t = Tx(x.id, x.nonce, x.try, Older(x.age, Lag))
        BY <1>2 DEF Tick
      <3>2. x \in Txs
        BY Typed
      <3>3. Older(x.age, Lag) \in Nat /\ x.id \in Ids /\ x.nonce \in Nat /\ x.try \in Nat
        BY <2>1, <3>2 DEF Txs
      <3>4. OnRecord(x.id, x.nonce)
        BY <3>3 DEF KeyInv, EveryBroadcastIsOnRecord, OnRecord
      <3> QED BY <3>1, <3>3, <3>4 DEF Tx, Txs
    <2>7. ASSUME NEW s \in Signers
          PROVE  flow'[s] \in FlowType /\ FlowKnows(flow'[s])
      <3>1. flow'[s] = AgedFlow(flow[s]) /\ flow[s] \in FlowType /\ FlowKnows(flow[s])
        BY <1>2, Typed DEF Tick, KeyInv
      <3> QED BY <3>1 DEF AgedFlow, Flow, FlowType, FlowKnows
    <2>8. flow' \in [Signers -> FlowType]
      <3>1. flow' = [s \in Signers |-> AgedFlow(flow[s])]
        BY <1>2 DEF Tick
      <3>2. \A s \in Signers : AgedFlow(flow[s]) \in FlowType
        BY <2>7, <3>1
      <3> QED BY <3>1, <3>2
    <2>9. OperatorTypeOK'
      BY <2>2, <2>3, <2>5, <2>6, <2>8, Typed
      DEF OperatorTypeOK, FlowType, PassType, MinedType, keeping
    <2>10. Keeps /\ \A k \in 1 .. Len(mined') : k <= Len(mined)
      BY <2>2, <2>4, Typed DEF Keeps
    <2>11. ASSUME NEW i, NEW n, OnRecord(i, n) PROVE OnRecordNext(i, n)
      BY <2>4, <2>11 DEF OnRecord, OnRecordNext
    <2>12. \A s \in Signers : FlowKnowsNext(flow'[s])
      BY <2>7, <2>11 DEF FlowKnows, FlowKnowsNext
    <2>13. \A t \in pool' : OnRecordNext(t.id, t.nonce)
      BY <2>6, <2>11
    <2> QED BY <2>2, <2>4, <2>9, <2>10, <2>12, <2>13, Frame
  <1> QED BY <1>1, <1>2

LEMMA NextKeyInv ==
  ASSUME KeyInv, [Next]_vars
  PROVE  KeyInv'
  <1>1. ASSUME NEW w \in Workers,
               \/ Acquire(w) \/ LoseLease(w) \/ Watchdog(w) \/ PassFails(w)
               \/ Reconciling(w) \/ \E i \in Ids : Pick(w, i)
        PROVE  KeyInv'
    <2>1. CASE Watchdog(w)
      <3>1. Ends(w) /\ w \in Workers \cup Servers /\ upsets' \in Nat
        BY <2>1, Typed DEF Watchdog
      <3> QED BY <3>1, EndsInv
    <2> QED BY <1>1, <2>1, LeaseInv, LookInv, PickInv, VerdictInv, BumpInv DEF Reconciling
  <1>2. ASSUME NEW s \in Signers,
               Broadcast(s) \/ Lock(s) \/ Sequencing(s) \/ LoseConnection(s)
        PROVE  KeyInv'
    BY <1>2, QueueInv, ReadInv, AllocateInv, SendInv, WriteInv DEF Sequencing
  <1>3. ASSUME NEW h \in Workers \cup Servers, Crash(h)
        PROVE  KeyInv'
    <2>1. Ends(h) /\ upsets' \in Nat
      BY <1>3, Typed DEF Crash
    <2> QED BY <2>1, EndsInv
  <1> QED BY <1>1, <1>2, <1>3, ChainInv, ClockInv DEF Next

(***************************************************************************)
(* Two calls do not bid for one nonce as long as nothing fails             *)
(***************************************************************************)

\* The sequencer has broadcast under every nonce below this one: the node has
\* taken the transaction of a holder before the holder commits the floor.
Landing(f) == f.pc \in {"recording", "committing"}
NextSlot == IF \E s \in Signers : Landing(flow[s]) THEN floor.next + 1 ELSE floor.next

\* The worker with a token is the only one, and its token is the last.
LeaseFits == \A w \in Workers : fence[w] # 0 => lease = w /\ fence[w] = token

\* Every node has seen each call as it was first broadcast.
AllSeen == \A t \in pool : t.try = 0 => t.age >= Lag

\* A signer s with the flow f goes through its critical section alone, and what
\* it will bid is the floor: it has read it, or no node can answer with less.
FlowFits(s, f) ==
    /\ f.alive /\ f.age <= MaxHold /\ f.pc \notin {"closing", "clearing"}
    /\ HostOf[s] \in Workers /\ f.pc # "idle" => fence[HostOf[s]] # 0
    /\ f.pc \notin {"idle", "locking"} => lock = s
    /\ f.pc = "allocating" => f.nonce = floor.next \/ (f.nonce = 0 /\ AllSeen)
    /\ f.pc \in {"sending", "recording", "committing"} => f.nonce = floor.next

\* A transaction that waits bids a nonce in use; as it was first broadcast it is
\* as old as the floor, but for the time the lock was held.
TxFits(t) ==
    /\ Confirmed <= t.nonce /\ t.nonce < NextSlot
    /\ t.try = 0 /\ t.nonce < floor.next => t.age >= Lag \/ t.age + MaxHold >= floor.age

\* No nonce in use is left out, and none is bid for by two calls.
PoolFits ==
    /\ Confirmed <= NextSlot
    /\ \A t \in pool : TxFits(t)
    /\ \A m \in Confirmed .. NextSlot - 1 : \E t \in pool : t.nonce = m /\ t.try = 0
    /\ \A t, u \in pool : t.nonce = u.nonce => t.id = u.id

\* The inductive invariant, with KeyInv.
Slots == LeaseFits /\ (\A s \in Signers : FlowFits(s, flow[s])) /\ PoolFits
SlotInv == upsets = 0 => Slots

LEMMA SlotTyped ==
  ASSUME KeyInv
  PROVE  /\ \A s \in Signers : flow[s] \in FlowType
         /\ \A t \in pool : t \in Txs
         /\ floor.next \in Nat /\ floor.age \in Nat /\ Confirmed \in Nat /\ NextSlot \in Nat
  <1>1. floor.next \in Nat /\ floor.age \in Nat
    BY Typed
  <1>2. Confirmed \in Nat
    BY Typed DEF Confirmed
  <1> QED BY <1>1, <1>2, Typed DEF NextSlot

LEMMA InitSlots == Init => Slots
  <1> SUFFICES ASSUME Init PROVE Slots
    OBVIOUS
  <1>1. pool = {} /\ Confirmed = 0 /\ floor.next = 0
    BY DEF Init, Confirmed, NoFloor
  <1>2. \A s \in Signers : flow[s] = NoFlow
    BY DEF Init
  <1>3. NextSlot = 0
    BY <1>1, <1>2 DEF NextSlot, Landing, NoFlow, Flow
  <1>4. \A s \in Signers : FlowFits(s, flow[s])
    BY <1>2, WindowsAssumption DEF FlowFits, NoFlow, Flow
  <1>5. LeaseFits
    BY DEF Init, LeaseFits
  <1>6. PoolFits
    BY <1>1, <1>3 DEF PoolFits
  <1> QED BY <1>4, <1>5, <1>6 DEF Slots

\* A step that leaves the locks, the floor, the broadcasts and the chain alone.
LEMMA SlotsRest ==
  ASSUME Slots, UNCHANGED <<keeping, lock, floor, flow, pool, mined>>
  PROVE  Slots'
  BY DEF Slots, LeaseFits, FlowFits, AllSeen, PoolFits, TxFits, NextSlot, Landing, Confirmed,
         keeping

LEMMA AcquireSlots ==
  ASSUME KeyInv, Slots, NEW w \in Workers, Acquire(w)
  PROVE  Slots'
  <1>1. /\ lease = Nobody /\ lease' = w /\ token' = token + 1
        /\ fence' = [fence EXCEPT ![w] = token + 1]
        /\ UNCHANGED <<lock, floor, flow, pool, mined>>
    BY DEF Acquire, chain
  <1>2. \A v \in Workers : fence[v] = 0
    BY <1>1, SignersAssumption DEF Slots, LeaseFits
  <1>3. /\ fence'[w] = token' /\ token' # 0
        /\ \A v \in Workers : v # w => fence'[v] = 0
    BY <1>1, <1>2, Typed
  <1>4. LeaseFits'
    BY <1>1, <1>3 DEF LeaseFits
  <1>5. \A s \in Signers : FlowFits(s, flow[s])'
    BY <1>1, <1>2, <1>3 DEF Slots, FlowFits, AllSeen
  <1>6. PoolFits'
    BY <1>1 DEF Slots, PoolFits, TxFits, NextSlot, Landing, Confirmed
  <1> QED BY <1>4, <1>5, <1>6 DEF Slots

\* One broadcast goes on, and sends and commits nothing.
LEMMA FlowSlots ==
  ASSUME KeyInv, Slots, NEW s \in Signers, NEW f \in FlowType,
         flow' = [flow EXCEPT ![s] = f], Landing(f) <=> Landing(flow[s]),
         UNCHANGED <<keeping, floor, pool, mined>>,
         lock' = lock \/ (lock = Nobody /\ lock' = s),
         FlowFits(s, flow[s])'
  PROVE  Slots'
  <1>1. \A v \in Signers : flow'[v] = IF v = s THEN f ELSE flow[v]
    BY Typed
  <1>2. UNCHANGED <<lease, token, fence>>
    BY DEF keeping
  <1>3. LeaseFits'
    BY <1>2 DEF Slots, LeaseFits
  <1>4. NextSlot' = NextSlot
    <2>1. (\E v \in Signers : Landing(flow[v])) <=> (\E v \in Signers : Landing(flow'[v]))
      BY <1>1
    <2> QED BY <2>1 DEF NextSlot, Landing
  <1>5. PoolFits'
    BY <1>4 DEF Slots, PoolFits, TxFits, Confirmed
  <1>6. ASSUME NEW v \in Signers PROVE FlowFits(v, flow[v])'
    <2>1. CASE v = s
      BY <2>1
    <2>2. CASE v # s
      <3>1. flow'[v] = flow[v] /\ FlowFits(v, flow[v])
        BY <1>1, <2>2 DEF Slots
      <3>2. flow[v].pc \notin {"idle", "locking"} => lock' = lock
        BY <3>1, SignersAssumption DEF FlowFits
      <3> QED BY <1>2, <3>1, <3>2 DEF FlowFits, AllSeen
    <2> QED BY <2>1, <2>2
  <1> QED BY <1>3, <1>5, <1>6 DEF Slots

\* A worker whose broadcast runs holds the last token.
LEMMA CurrentSlots ==
  ASSUME Slots, NEW s \in Signers, flow[s].pc # "idle"
  PROVE  IsCurrent(s)
  BY SignersAssumption DEF Slots, LeaseFits, FlowFits, IsCurrent

LEMMA QueueSlots ==
  ASSUME KeyInv, Slots, NEW s \in Signers, Broadcast(s) \/ Lock(s) \/ AssertCurrent(s)
  PROVE  Slots'
  <1>0. flow[s] \in FlowType /\ FlowFits(s, flow[s])
    BY Typed DEF Slots
  <1>1. PICK pc \in {"locking", "checking", "reading"} :
           /\ Goes(s, pc)
           /\ pc = "locking" => lock' = lock /\ flow[s].pc = "idle" /\ (HostOf[s] \in Workers => fence[HostOf[s]] # 0)
           /\ pc = "checking" => lock = Nobody /\ lock' = s /\ flow[s].pc = "locking"
           /\ pc = "reading" => lock' = lock /\ flow[s].pc = "checking"
    <2>1. CASE Broadcast(s)
      BY <2>1 DEF Broadcast, At
    <2>2. CASE Lock(s)
      BY <2>2 DEF Lock, At
    <2>3. CASE AssertCurrent(s)
      <3>1. flow[s].pc = "checking"
        BY <2>3 DEF AssertCurrent, At
      <3>2. IsCurrent(s)
        BY <3>1, CurrentSlots
      <3> QED BY <2>3, <3>1, <3>2 DEF AssertCurrent
    <2> QED BY <2>1, <2>2, <2>3
  <1>2. UNCHANGED <<keeping, floor, pool, mined, fence>>
    BY DEF Broadcast, Lock, AssertCurrent, chain, keeping
  <1> DEFINE f == Flow(pc, flow[s].id, flow[s].nonce, flow[s].age, flow[s].alive)
  <1>3. /\ f \in FlowType /\ f.pc = pc /\ f.age = flow[s].age /\ f.alive = flow[s].alive
        /\ flow' = [flow EXCEPT ![s] = f] /\ flow'[s] = f
    BY <1>0, <1>1, Typed DEF Flow, FlowType, FlowLabels, Goes, Becomes
  <1> HIDE DEF f
  <1>4. Landing(f) <=> Landing(flow[s])
    BY <1>1, <1>3 DEF Landing
  <1>5. FlowFits(s, flow[s])'
    BY <1>0, <1>1, <1>2, <1>3 DEF FlowFits
  <1>6. lock' = lock \/ (lock = Nobody /\ lock' = s)
    BY <1>1
  <1> QED BY <1>2, <1>3, <1>4, <1>5, <1>6, FlowSlots

\* Only the holder is inside.
LEMMA Alone ==
  ASSUME Slots, NEW s \in Signers, flow[s].pc \notin {"idle", "locking"},
         NEW v \in Signers, flow[v].pc \notin {"idle", "locking"}
  PROVE  v = s
  BY DEF Slots, FlowFits

\* Before the holder has sent, the next slot is the floor.
LEMMA SlotIsFloor ==
  ASSUME Slots, NEW s \in Signers, flow[s].pc \in {"checking", "reading", "allocating", "sending"}
  PROVE  NextSlot = floor.next
  <1>1. ASSUME NEW v \in Signers, Landing(flow[v]) PROVE FALSE
    <2>1. v = s
      BY <1>1, Alone DEF Landing
    <2> QED BY <1>1, <2>1 DEF Landing
  <1> QED BY <1>1 DEF NextSlot

LEMMA ReadSlots ==
  ASSUME KeyInv, Slots, NEW s \in Signers, ReadFloor(s)
  PROVE  Slots'
  <1> DEFINE f == Flow("allocating", 0, Trusted, 0, TRUE)
  <1>0. flow[s] \in FlowType /\ FlowFits(s, flow[s]) /\ flow[s].pc = "reading"
    BY Typed DEF Slots, ReadFloor, At
  <1>1. /\ UNCHANGED <<keeping, floor, pool, mined, fence, lock>>
        /\ flow' = [flow EXCEPT ![s] = f]
        /\ flow'[s] = f
    BY Typed DEF ReadFloor, chain, keeping, Becomes
  <1>2. Trusted = floor.next \/ (Trusted = 0 /\ AllSeen)
    <2>1. CASE floor.age < FloorTtl
      BY <2>1 DEF Trusted
    <2>2. CASE ~(floor.age < FloorTtl)
      <3>1. ASSUME NEW t \in pool, t.try = 0 PROVE t.age >= Lag
        <4>1. t.age \in Nat /\ floor.age \in Nat /\ floor.age >= FloorTtl
          BY <2>2, SlotTyped, WindowsAssumption DEF Txs
        <4>2. t.nonce < floor.next
          BY <1>0, SlotIsFloor DEF Slots, PoolFits, TxFits
        <4>3. t.age >= Lag \/ t.age + MaxHold >= floor.age
          BY <3>1, <4>2 DEF Slots, PoolFits, TxFits
        <4> QED BY <4>1, <4>3, WindowsAssumption
      <3> QED BY <2>2, <3>1 DEF Trusted, AllSeen
    <2> QED BY <2>1, <2>2
  <1>3. Trusted \in Nat
    BY SlotTyped DEF Trusted
  <1>4. /\ f \in FlowType /\ f.pc = "allocating" /\ f.nonce = Trusted /\ f.age = 0 /\ f.alive
    BY <1>3 DEF Flow, FlowType, FlowLabels
  <1> HIDE DEF f
  <1>5. Landing(f) <=> Landing(flow[s])
    BY <1>0, <1>4 DEF Landing
  <1>6. FlowFits(s, flow[s])'
    BY <1>0, <1>1, <1>2, <1>4, WindowsAssumption DEF FlowFits, AllSeen
  <1> QED BY <1>1, <1>4, <1>5, <1>6, FlowSlots

\* What a node answers is no more than the next slot, and no less when it has
\* seen every call.
LEMMA AnswerFits ==
  ASSUME KeyInv, Slots, NEW n \in Nat, Observed(n)
  PROVE  n <= NextSlot /\ (AllSeen => n >= NextSlot)
  <1>1. PICK S \in SUBSET pool : Known \subseteq S /\ PendingCount(S, n)
    BY DEF Observed
  <1>2. /\ n >= Confirmed /\ \A t \in S : t.nonce # n
        /\ \A m \in Confirmed .. n - 1 : \E t \in S : t.nonce = m
    BY <1>1 DEF PendingCount
  <1>3. PoolFits /\ Confirmed \in Nat /\ NextSlot \in Nat
    BY SlotTyped DEF Slots
  <1>4. n <= NextSlot
    <2>1. CASE n = Confirmed
      BY <1>3, <2>1 DEF PoolFits
    <2>2. CASE n # Confirmed
      <3>1. n - 1 \in Confirmed .. n - 1
        BY <1>2, <1>3, <2>2
      <3>2. PICK t \in S : t.nonce = n - 1
        BY <1>2, <3>1
      <3>3. t.nonce < NextSlot
        BY <1>1, <1>3, <3>2 DEF PoolFits, TxFits
      <3> QED BY <1>3, <3>2, <3>3
    <2> QED BY <2>1, <2>2
  <1>5. ASSUME AllSeen, ~(n >= NextSlot) PROVE FALSE
    <2>1. n \in Confirmed .. NextSlot - 1
      BY <1>2, <1>3, <1>5
    <2>2. PICK t \in pool : t.nonce = n /\ t.try = 0
      BY <1>3, <2>1 DEF PoolFits
    <2>3. t \in Known
      BY <1>5, <2>2 DEF AllSeen, Known
    <2> QED BY <1>1, <1>2, <2>2, <2>3
  <1> QED BY <1>4, <1>5

LEMMA AllocateSlots ==
  ASSUME KeyInv, Slots, NEW s \in Signers, Allocate(s)
  PROVE  Slots'
  <1>1. PICK i \in Ids, seen \in 0 .. MaxCalls :
          /\ Observed(seen)
          /\ LET n == IF seen >= flow[s].nonce THEN seen ELSE flow[s].nonce
             IN  Becomes(s, Flow("sending", i, n, flow[s].age, flow[s].alive))
    BY DEF Allocate
  <1> DEFINE n == IF seen >= flow[s].nonce THEN seen ELSE flow[s].nonce
             f == Flow("sending", i, n, flow[s].age, flow[s].alive)
  <1>2. flow[s] \in FlowType /\ FlowFits(s, flow[s]) /\ flow[s].pc = "allocating"
    BY Typed DEF Slots, Allocate, At
  <1>3. /\ UNCHANGED <<keeping, floor, pool, mined, fence, lock>>
        /\ flow' = [flow EXCEPT ![s] = f]
        /\ flow'[s] = f
    BY <1>1, Typed DEF Allocate, chain, keeping, Becomes
  <1>4. seen \in Nat /\ flow[s].nonce \in Nat /\ floor.next \in Nat /\ NextSlot = floor.next
    BY <1>2, SlotTyped, SlotIsFloor, BoundsAssumption DEF FlowType
  <1>5. seen <= floor.next /\ (AllSeen => seen >= floor.next)
    BY <1>1, <1>4, AnswerFits
  <1>6. n = floor.next
    BY <1>2, <1>4, <1>5 DEF FlowFits
  <1>7. /\ f \in FlowType /\ f.pc = "sending" /\ f.nonce = n
        /\ f.age = flow[s].age /\ f.alive = flow[s].alive
    BY <1>2, <1>4 DEF Flow, FlowType, FlowLabels
  <1> HIDE DEF n, f
  <1>8. Landing(f) <=> Landing(flow[s])
    BY <1>2, <1>7 DEF Landing
  <1>9. FlowFits(s, flow[s])'
    BY <1>2, <1>3, <1>6, <1>7 DEF FlowFits
  <1> QED BY <1>3, <1>7, <1>8, <1>9, FlowSlots

LEMMA SendSlots ==
  ASSUME KeyInv, Slots, NEW s \in Signers, Send(s), upsets' = upsets
  PROVE  Slots'
  <1> DEFINE t == Tx(flow[s].id, flow[s].nonce, 0, 0)
             f == Flow("recording", flow[s].id, flow[s].nonce, flow[s].age, flow[s].alive)
  <1>0. flow[s] \in FlowType /\ FlowFits(s, flow[s]) /\ flow[s].pc = "sending" /\ upsets \in Nat
    BY Typed DEF Slots, Send, At
  <1>1. pool' = pool \cup {t} /\ UNCHANGED <<keeping, lock, floor, mined>>
    BY DEF Send
  <1>2. flow' = [flow EXCEPT ![s] = f]
    <2>1. upsets' # upsets + 1
      BY <1>0
    <2> QED BY <2>1 DEF Send, Goes, Becomes
  <1>3. /\ f.pc = "recording" /\ f.nonce = floor.next /\ f.age = flow[s].age /\ f.alive
        /\ t.nonce = floor.next /\ t.try = 0 /\ t.id = flow[s].id
    BY <1>0 DEF FlowFits, Flow, Tx
  <1> HIDE DEF t, f
  <1>4. \A v \in Signers : flow'[v] = IF v = s THEN f ELSE flow[v]
    BY <1>2, Typed
  <1>5. NextSlot = floor.next /\ NextSlot' = floor.next + 1
    <2>1. Landing(flow[s])'
      BY <1>3, <1>4 DEF Landing
    <2> QED BY <1>0, <1>1, <2>1, SlotIsFloor DEF NextSlot
  <1>6. Confirmed' = Confirmed /\ floor.next \in Nat /\ Confirmed \in Nat /\ Confirmed <= floor.next
    BY <1>1, <1>5, SlotTyped DEF Confirmed, Slots, PoolFits
  <1>7. PoolFits'
    <2>1. ASSUME NEW x \in pool' PROVE TxFits(x)'
      <3>1. CASE x \in pool
        <4>1. TxFits(x) /\ x.nonce \in Nat
          BY <3>1, SlotTyped DEF Slots, PoolFits, Txs
        <4> QED BY <1>1, <1>5, <1>6, <4>1 DEF TxFits
      <3>2. CASE x = t
        BY <1>1, <1>3, <1>5, <1>6, <3>2 DEF TxFits
      <3> QED BY <1>1, <3>1, <3>2
    <2>2. ASSUME NEW m \in Confirmed .. floor.next
          PROVE  \E x \in pool' : x.nonce = m /\ x.try = 0
      <3>1. CASE m = floor.next
        BY <1>1, <1>3, <3>1
      <3>2. CASE m # floor.next
        <4>1. m \in Confirmed .. NextSlot - 1
          BY <1>5, <1>6, <3>2
        <4> QED BY <1>1, <4>1 DEF Slots, PoolFits
      <3> QED BY <3>1, <3>2
    <2>3. \A x \in pool : x.nonce < floor.next /\ x.nonce \in Nat
      BY <1>5, SlotTyped DEF Slots, PoolFits, TxFits, Txs
    <2>4. \A x, y \in pool' : x.nonce = y.nonce => x.id = y.id
      BY <1>1, <1>3, <1>6, <2>3 DEF Slots, PoolFits
    <2>5. NextSlot' - 1 = floor.next /\ Confirmed' <= NextSlot'
      BY <1>5, <1>6
    <2> QED BY <1>6, <2>1, <2>2, <2>4, <2>5 DEF PoolFits
  <1>8. LeaseFits'
    BY <1>1 DEF Slots, LeaseFits, keeping
  <1>9. ASSUME NEW v \in Signers PROVE FlowFits(v, flow[v])'
    <2>1. CASE v = s
      BY <1>0, <1>1, <1>3, <1>4, <2>1 DEF FlowFits, keeping
    <2>2. CASE v # s
      <3>1. flow'[v] = flow[v] /\ FlowFits(v, flow[v]) /\ flow[v].pc \in {"idle", "locking"}
        BY <1>0, <1>4, <2>2, Alone DEF Slots
      <3> QED BY <1>1, <3>1 DEF FlowFits, keeping
    <2> QED BY <2>1, <2>2
  <1> QED BY <1>7, <1>8, <1>9 DEF Slots

LEMMA RecordSlots ==
  ASSUME KeyInv, Slots, NEW s \in Signers, Record(s)
  PROVE  Slots'
  <1> DEFINE f == Flow("committing", flow[s].id, flow[s].nonce, flow[s].age, flow[s].alive)
  <1>0. flow[s] \in FlowType /\ FlowFits(s, flow[s]) /\ flow[s].pc = "recording"
    BY Typed DEF Slots, Record, At
  <1>1. /\ UNCHANGED <<keeping, lock, floor, pool, mined, fence>>
        /\ flow' = [flow EXCEPT ![s] = f] /\ flow'[s] = f
    BY Typed DEF Record, chain, keeping, Goes, Becomes
  <1>2. /\ f \in FlowType /\ f.pc = "committing" /\ f.nonce = flow[s].nonce
        /\ f.age = flow[s].age /\ f.alive = flow[s].alive
    BY <1>0 DEF Flow, FlowType, FlowLabels
  <1> HIDE DEF f
  <1>3. Landing(f) <=> Landing(flow[s])
    BY <1>0, <1>2 DEF Landing
  <1>4. FlowFits(s, flow[s])'
    BY <1>0, <1>1, <1>2 DEF FlowFits
  <1> QED BY <1>1, <1>2, <1>3, <1>4, FlowSlots

\* The floor takes the holder's place, no older than it held the lock.
LEMMA CommitSlots ==
  ASSUME KeyInv, Slots, NEW s \in Signers, Commit(s)
  PROVE  Slots'
  <1>0. flow[s] \in FlowType /\ FlowFits(s, flow[s]) /\ flow[s].pc = "committing"
    BY Typed DEF Slots, Commit, At
  <1>1. /\ UNCHANGED <<keeping, pool, mined>>
        /\ floor' = [next |-> flow[s].nonce + 1, age |-> flow[s].age]
        /\ flow' = [flow EXCEPT ![s] = NoFlow]
        /\ lock = s /\ lock' = Nobody
    BY <1>0 DEF Commit, chain, Becomes, Unlock, FlowFits
  <1>2. \A v \in Signers : flow'[v] = IF v = s THEN NoFlow ELSE flow[v]
    BY <1>1, Typed
  <1>3. \A v \in Signers : v # s => flow[v].pc \in {"idle", "locking"}
    BY <1>0, Alone
  <1>4. NextSlot = floor.next + 1
    BY <1>0 DEF NextSlot, Landing
  <1>5. NextSlot' = floor'.next
    <2>1. \A v \in Signers : ~Landing(flow'[v])
      BY <1>2, <1>3 DEF Landing, NoFlow, Flow
    <2> QED BY <2>1 DEF NextSlot, Landing
  <1>6. NextSlot' = NextSlot
    BY <1>0, <1>1, <1>4, <1>5 DEF FlowFits
  <1>7. PoolFits'
    <2>1. ASSUME NEW t \in pool PROVE TxFits(t)'
      <3>1. TxFits(t) /\ t.age \in Nat /\ flow[s].age \in Nat /\ flow[s].age <= MaxHold
        BY <1>0, SlotTyped DEF Slots, PoolFits, Txs, FlowType, FlowFits
      <3>2. t.age + MaxHold >= floor'.age
        BY <1>1, <3>1, WindowsAssumption
      <3>3. Confirmed' = Confirmed
        BY <1>1 DEF Confirmed
      <3> QED BY <1>6, <3>1, <3>2, <3>3 DEF TxFits
    <2>2. Confirmed' = Confirmed /\ pool' = pool
      BY <1>1 DEF Confirmed
    <2> QED BY <1>6, <2>1, <2>2 DEF Slots, PoolFits
  <1>8. LeaseFits'
    BY <1>1 DEF Slots, LeaseFits, keeping
  <1>9. ASSUME NEW v \in Signers PROVE FlowFits(v, flow[v])'
    <2>1. CASE v = s
      BY <1>2, <2>1, WindowsAssumption DEF FlowFits, NoFlow, Flow
    <2>2. CASE v # s
      <3>1. flow'[v] = flow[v] /\ FlowFits(v, flow[v]) /\ flow[v].pc \in {"idle", "locking"}
        BY <1>2, <1>3, <2>2 DEF Slots
      <3> QED BY <1>1, <3>1 DEF FlowFits, keeping
    <2> QED BY <2>1, <2>2
  <1> QED BY <1>7, <1>8, <1>9 DEF Slots

\* A replacement bids the nonce of the call it replaces.
LEMMA BumpSlots ==
  ASSUME KeyInv, Slots, NEW w \in Workers, Bump(w)
  PROVE  Slots'
  <1>1. UNCHANGED <<keeping, lock, floor, flow, mined>>
    BY DEF Bump
  <1>2. CASE pool' = pool
    BY <1>1, <1>2, SlotsRest
  <1>3. CASE Replaceable(pass[w]) /\ pool' = pool \cup {Replacement(pass[w])}
    <2> DEFINE p == pass[w]
               r == Replacement(p)
    <2>1. p \in PassType /\ PassKnows(p) /\ p.pc = "bumping"
      BY Typed DEF KeyInv, Bump, In
    <2>2. PICK t \in pool : t.id = p.id
      BY <1>3 DEF Replaceable
    <2>3. p.id \in Ids /\ row[p.id].nonce = p.row.nonce
      BY <2>1 DEF PassKnows, OnRecord
    <2>4. t.nonce = p.row.nonce
      BY <2>2, <2>3 DEF KeyInv, EveryBroadcastIsOnRecord
    <2>5. r.id = t.id /\ r.nonce = t.nonce /\ r.try # 0
      <3>1. r.id = p.id /\ r.nonce = p.row.nonce /\ r.try = p.row.try + 1
        BY DEF Replacement, BumpNonce, Tx
      <3>2. p.row.try \in Nat
        BY <2>1 DEF PassType, Rows
      <3> QED BY <2>2, <2>4, <3>1, <3>2
    <2>6. pool' = pool \cup {r}
      BY <1>3
    <2> HIDE DEF p, r
    <2>7. NextSlot' = NextSlot /\ Confirmed' = Confirmed
      BY <1>1 DEF NextSlot, Landing, Confirmed
    <2>8. \A x \in pool' : TxFits(x)'
      BY <1>1, <2>5, <2>6, <2>7 DEF Slots, PoolFits, TxFits
    <2>9. PoolFits'
      BY <2>2, <2>5, <2>6, <2>7, <2>8 DEF Slots, PoolFits
    <2>10. AllSeen => AllSeen'
      BY <2>5, <2>6 DEF AllSeen
    <2>11. \A v \in Signers : FlowFits(v, flow[v])'
      BY <1>1, <2>10 DEF Slots, FlowFits, keeping
    <2>12. LeaseFits'
      BY <1>1 DEF Slots, LeaseFits, keeping
    <2> QED BY <2>9, <2>11, <2>12 DEF Slots
  <1> QED BY <1>2, <1>3 DEF Bump

LEMMA MineSlots ==
  ASSUME KeyInv, Slots, Mine
  PROVE  Slots'
  <1>1. PICK t \in pool, ok \in BOOLEAN :
          /\ t.nonce = Confirmed
          /\ mined' = Append(mined, [id |-> t.id, try |-> t.try, ok |-> ok])
    BY DEF Mine
  <1>2. /\ UNCHANGED <<keeping, lock, floor, flow>>
        /\ pool' = {x \in pool : x.nonce # Confirmed}
    BY DEF Mine
  <1>3. Confirmed' = Confirmed + 1 /\ Confirmed \in Nat
    BY <1>1, Typed DEF Confirmed
  <1>4. NextSlot' = NextSlot /\ NextSlot \in Nat
    BY <1>2, SlotTyped DEF NextSlot, Landing
  <1>5. Confirmed < NextSlot
    BY <1>1 DEF Slots, PoolFits, TxFits
  <1>6. PoolFits'
    <2>1. ASSUME NEW x \in pool' PROVE TxFits(x)'
      <3>1. TxFits(x) /\ x.nonce \in Nat /\ x.nonce # Confirmed
        BY <1>2, SlotTyped DEF Slots, PoolFits, Txs
      <3> QED BY <1>2, <1>3, <1>4, <3>1 DEF TxFits
    <2>2. ASSUME NEW m \in Confirmed' .. NextSlot' - 1
          PROVE  \E x \in pool' : x.nonce = m /\ x.try = 0
      <3>1. m \in Confirmed .. NextSlot - 1 /\ m # Confirmed
        BY <1>3, <1>4
      <3> QED BY <1>2, <3>1 DEF Slots, PoolFits
    <2>3. Confirmed' <= NextSlot'
      BY <1>3, <1>4, <1>5
    <2> QED BY <1>2, <2>1, <2>2, <2>3 DEF Slots, PoolFits
  <1>7. AllSeen => AllSeen'
    BY <1>2 DEF AllSeen
  <1>8. \A v \in Signers : FlowFits(v, flow[v])'
    BY <1>2, <1>7 DEF Slots, FlowFits, keeping
  <1>9. LeaseFits'
    BY <1>2 DEF Slots, LeaseFits, keeping
  <1> QED BY <1>6, <1>8, <1>9 DEF Slots

\* Time keeps a transaction as old as the floor, but for the time of a hold.
LEMMA TickSlots ==
  ASSUME KeyInv, Slots, Tick
  PROVE  Slots'
  <1>1. /\ UNCHANGED <<keeping, lock, mined>>
        /\ floor' = [next |-> floor.next, age |-> Older(floor.age, FloorTtl)]
        /\ pool' = {Tx(t.id, t.nonce, t.try, Older(t.age, Lag)) : t \in pool}
        /\ flow' = [s \in Signers |-> AgedFlow(flow[s])]
        /\ \A s \in Signers : Holding(flow[s]) => flow[s].age < MaxHold
    BY DEF Tick
  <1>2. ASSUME NEW s \in Signers
        PROVE  /\ flow'[s].pc = flow[s].pc /\ flow'[s].nonce = flow[s].nonce
               /\ flow'[s].alive = flow[s].alive
               /\ flow[s].age <= MaxHold => flow'[s].age <= MaxHold
    <2>1. flow'[s] = AgedFlow(flow[s]) /\ flow[s].age \in Nat
      BY <1>1, Typed DEF FlowType
    <2>2. CASE Holding(flow[s])
      BY <1>1, <2>1, <2>2, WindowsAssumption DEF AgedFlow, Flow
    <2>3. CASE ~Holding(flow[s])
      BY <2>1, <2>3 DEF AgedFlow
    <2> QED BY <2>2, <2>3
  <1>3. ASSUME NEW a \in Nat, NEW c \in Nat
        PROVE  /\ Older(a, c) \in Nat /\ Older(a, c) >= a /\ Older(a, c) <= a + 1
               /\ Older(a, c) >= c \/ Older(a, c) = a + 1
    BY DEF Older
  <1>4. floor'.next = floor.next /\ floor'.age <= floor.age + 1
        /\ floor.age \in Nat /\ floor'.age \in Nat
    BY <1>1, <1>3, SlotTyped, WindowsAssumption
  <1>5. NextSlot' = NextSlot /\ Confirmed' = Confirmed
    BY <1>1, <1>2, <1>4 DEF NextSlot, Landing, Confirmed
  <1>6. ASSUME NEW x \in pool'
        PROVE  \E t \in pool : /\ x.id = t.id /\ x.nonce = t.nonce /\ x.try = t.try
                               /\ t.age \in Nat /\ x.age \in Nat /\ x.age >= t.age
                               /\ x.age >= Lag \/ x.age = t.age + 1
    <2>1. PICK t \in pool : x = Tx(t.id, t.nonce, t.try, Older(t.age, Lag))
      BY <1>1
    <2>2. t.age \in Nat
      BY SlotTyped DEF Txs
    <2>3. x.id = t.id /\ x.nonce = t.nonce /\ x.try = t.try /\ x.age = Older(t.age, Lag)
      BY <2>1 DEF Tx
    <2> QED BY <1>3, <2>2, <2>3, WindowsAssumption
  <1>7. ASSUME NEW x \in pool' PROVE TxFits(x)'
    <2>1. PICK t \in pool : /\ x.id = t.id /\ x.nonce = t.nonce /\ x.try = t.try
                            /\ t.age \in Nat /\ x.age \in Nat /\ x.age >= t.age
                            /\ x.age >= Lag \/ x.age = t.age + 1
      BY <1>6
    <2>2. TxFits(t)
      BY DEF Slots, PoolFits
    <2>3. t.age >= Lag => x.age >= Lag
      BY <2>1, WindowsAssumption
    <2>4. t.age + MaxHold >= floor.age => x.age >= Lag \/ x.age + MaxHold >= floor'.age
      BY <1>4, <2>1, WindowsAssumption
    <2> QED BY <1>4, <1>5, <2>1, <2>2, <2>3, <2>4 DEF TxFits
  <1>8. ASSUME NEW t \in pool PROVE \E x \in pool' : x.nonce = t.nonce /\ x.try = t.try
    <2>1. Tx(t.id, t.nonce, t.try, Older(t.age, Lag)) \in pool'
      BY <1>1
    <2> QED BY <2>1 DEF Tx
  <1>9. PoolFits'
    <2>1. \A x, y \in pool' : x.nonce = y.nonce => x.id = y.id
      BY <1>6 DEF Slots, PoolFits
    <2>2. \A m \in Confirmed .. NextSlot - 1 : \E x \in pool' : x.nonce = m /\ x.try = 0
      BY <1>8 DEF Slots, PoolFits
    <2> QED BY <1>5, <1>7, <2>1, <2>2 DEF Slots, PoolFits
  <1>10. AllSeen => AllSeen'
    <2> SUFFICES ASSUME AllSeen, NEW x \in pool', x.try = 0 PROVE x.age >= Lag
      BY DEF AllSeen
    <2>1. PICK t \in pool : x.try = t.try /\ t.age \in Nat /\ x.age \in Nat /\ x.age >= t.age
      BY <1>6
    <2> QED BY <2>1, WindowsAssumption DEF AllSeen
  <1>11. \A v \in Signers : FlowFits(v, flow[v])'
    BY <1>1, <1>2, <1>4, <1>10 DEF Slots, FlowFits, keeping
  <1>12. LeaseFits'
    BY <1>1 DEF Slots, LeaseFits, keeping
  <1> QED BY <1>9, <1>11, <1>12 DEF Slots

\* Without a failure no lease, connection, reply or process is lost, and no node
\* refuses what the sequencer bids.
LEMMA SlotsStay ==
  ASSUME KeyInv, Slots, [Next]_vars, upsets' = upsets
  PROVE  Slots'
  <1>0. upsets \in Nat /\ upsets # upsets + 1
    BY Typed
  <1>1. ASSUME NEW w \in Workers, Acquire(w) \/ LoseLease(w) \/ Watchdog(w) \/ PassFails(w)
        PROVE  Slots'
    <2>1. ~LoseLease(w) /\ ~PassFails(w)
      BY <1>0 DEF LoseLease, PassFails
    <2>2. ~Watchdog(w)
      BY DEF Slots, LeaseFits, Watchdog
    <2> QED BY <1>1, <2>1, <2>2, AcquireSlots
  <1>2. ASSUME NEW w \in Workers, Reconciling(w) \/ \E i \in Ids : Pick(w, i)
        PROVE  Slots'
    <2>1. CASE Bump(w)
      BY <2>1, BumpSlots
    <2>2. CASE ~Bump(w)
      <3>1. UNCHANGED <<keeping, lock, floor, flow, pool, mined>>
        BY <1>2, <2>2 DEF Reconciling, Pick, AskReceipt, Count, Resolve, RecordBump, chain
      <3> QED BY <3>1, SlotsRest
    <2> QED BY <2>1, <2>2
  <1>3. ASSUME NEW s \in Signers,
               Broadcast(s) \/ Lock(s) \/ Sequencing(s) \/ LoseConnection(s)
        PROVE  Slots'
    <2>1. flow[s].alive /\ flow[s].pc \notin {"closing", "clearing"}
      BY DEF Slots, FlowFits
    <2>2. ~LoseConnection(s)
      BY <1>0 DEF LoseConnection
    <2>3. ~Close(s) /\ ~Clear(s) /\ ~Broken(s)
      BY <2>1 DEF Close, Clear, Broken, At
    <2>4. ~Refuse(s)
      <3>1. SUFFICES ASSUME Refuse(s) PROVE FALSE
        OBVIOUS
      <3>2. flow[s].pc = "sending" /\ Bidden(flow[s].nonce)
        BY <1>0, <3>1 DEF Refuse, At
      <3>3. flow[s].nonce = floor.next /\ NextSlot = floor.next
        BY <3>2, SlotIsFloor DEF Slots, FlowFits
      <3>4. floor.next \in Nat /\ Confirmed \in Nat /\ Confirmed <= floor.next
        BY <3>3, SlotTyped DEF Slots, PoolFits
      <3>5. \A t \in pool : t.nonce < floor.next
        BY <3>3 DEF Slots, PoolFits, TxFits
      <3> QED BY <3>2, <3>3, <3>4, <3>5 DEF Bidden
    <2> QED BY <1>3, <2>2, <2>3, <2>4, QueueSlots, ReadSlots, AllocateSlots, SendSlots,
               RecordSlots, CommitSlots DEF Sequencing
  <1>4. ~Drop /\ \A h \in Workers \cup Servers : ~Crash(h)
    BY <1>0 DEF Drop, Crash
  <1>5. UNCHANGED vars => Slots'
    BY SlotsRest DEF vars, chain
  <1> QED BY <1>1, <1>2, <1>3, <1>4, <1>5, MineSlots, TickSlots DEF Next

\* A failure is never taken back.
LEMMA UpsetsGrow ==
  ASSUME KeyInv, [Next]_vars
  PROVE  upsets' = upsets \/ upsets' # 0
  <1>1. upsets \in Nat
    BY Typed
  <1>2. upsets' = upsets \/ upsets' = upsets + 1
    <2>1. ASSUME NEW w \in Workers,
                 \/ Acquire(w) \/ LoseLease(w) \/ Watchdog(w) \/ PassFails(w)
                 \/ Reconciling(w) \/ \E i \in Ids : Pick(w, i)
          PROVE  upsets' = upsets \/ upsets' = upsets + 1
      BY <2>1 DEF Acquire, LoseLease, Watchdog, PassFails, Reconciling, Pick, AskReceipt,
                  Count, Resolve, Bump, RecordBump
    <2>2. ASSUME NEW s \in Signers, Sequencing(s)
          PROVE  upsets' = upsets \/ upsets' = upsets + 1
      BY <2>2 DEF Sequencing, AssertCurrent, ReadFloor, Allocate, Send, Refuse, Record, Close,
                  Commit, Broken, Clear
    <2>3. /\ \A s \in Signers : Broadcast(s) \/ Lock(s) \/ LoseConnection(s) =>
                 upsets' = upsets \/ upsets' = upsets + 1
          /\ \A h \in Workers \cup Servers : Crash(h) => upsets' = upsets + 1
      BY DEF Broadcast, Lock, LoseConnection, Crash
    <2>4. Mine \/ Drop \/ Tick \/ UNCHANGED vars => upsets' = upsets \/ upsets' = upsets + 1
      BY DEF Mine, Drop, Tick, vars
    <2> QED BY <2>1, <2>2, <2>3, <2>4 DEF Next
  <1> QED BY <1>1, <1>2

LEMMA SlotsAreOwned ==
  ASSUME KeyInv, Slots
  PROVE  \A i, j \in Ids : \A n \in 0 .. MaxCalls : BidsFor(i, n) /\ BidsFor(j, n) => i = j
  <1> SUFFICES ASSUME NEW i \in Ids, NEW j \in Ids, NEW n \in 0 .. MaxCalls,
                      BidsFor(i, n), BidsFor(j, n)
               PROVE  i = j
    OBVIOUS
  <1>1. \A t \in pool : t.nonce = n => ~(n < Confirmed)
    <2>1. n \in Nat /\ Confirmed \in Nat
      BY SlotTyped, BoundsAssumption
    <2> QED BY <2>1 DEF Slots, PoolFits, TxFits
  <1>2. \A t, u \in pool : t.nonce = u.nonce => t.id = u.id
    BY DEF Slots, PoolFits
  <1> QED BY <1>1, <1>2 DEF BidsFor

(***************************************************************************)
(* The theorems                                                            *)
(***************************************************************************)

\* The rows, the broadcasts under way, the passes and the chain agree, whatever
\* processes and passes do to each other's rows.
THEOREM KeyInvHolds == Spec => []KeyInv
  BY InitKeyInv, NextKeyInv, PTL DEF Spec

\* Every variable keeps its type, and a transaction that was broadcast, bumped or
\* mined has its row, under its nonce.
THEOREM BroadcastsOnRecord == Spec => []EveryBroadcastIsOnRecord
  <1>1. KeyInv => EveryBroadcastIsOnRecord
    BY DEF KeyInv
  <1> QED BY <1>1, KeyInvHolds, PTL

\* A call is executed at most once, however often and by whomever it is bumped: its
\* row has one nonce, and the chain one transaction under each.
THEOREM MinedOnce == Spec => []CallMinedOnce
  <1>1. ASSUME KeyInv PROVE CallMinedOnce
    <2>1. Len(mined) \in Nat
      BY <1>1, Typed
    <2>2. ASSUME NEW j \in 1 .. Len(mined), NEW k \in 1 .. Len(mined), mined[j].id = mined[k].id
          PROVE  j = k
      <3>1. row[mined[j].id].nonce = j - 1 /\ row[mined[k].id].nonce = k - 1
        BY <1>1 DEF KeyInv, EveryBroadcastIsOnRecord
      <3>2. j - 1 = k - 1 /\ j \in Nat /\ k \in Nat
        BY <2>1, <2>2, <3>1
      <3> QED BY <3>2
    <2> QED BY <2>2 DEF CallMinedOnce
  <1> QED BY <1>1, KeyInvHolds, PTL

\* The reconciler writes no verdict the chain does not bear out, from however old a
\* list and over whatever another worker wrote.
THEOREM VerdictsStayTrue == Spec => []VerdictsAreTrue
  <1>1. KeyInv => VerdictsAreTrue
    BY DEF KeyInv
  <1> QED BY <1>1, KeyInvHolds, PTL
\* As long as nothing fails, the lease, the lock, the floor, the broadcasts under
\* way and the mempool agree on the next nonce.
THEOREM SlotInvHolds == Spec => []SlotInv
  <1>1. Init => SlotInv
    BY InitSlots DEF SlotInv
  <1>2. ASSUME KeyInv, SlotInv, [Next]_vars PROVE SlotInv'
    <2>1. SUFFICES ASSUME upsets' = 0 PROVE Slots'
      BY DEF SlotInv
    <2>2. upsets' = upsets
      BY <1>2, <2>1, UpsetsGrow
    <2>3. Slots
      BY <1>2, <2>1, <2>2 DEF SlotInv
    <2> QED BY <1>2, <2>2, <2>3, SlotsStay
  <1> QED BY <1>1, <1>2, KeyInvHolds, PTL DEF Spec

\* Any number of workers and servers of one key, over nodes that are behind, never
\* make two calls bid for one nonce unless something fails.
THEOREM SlotsHold == Spec => []SlotsAreNotShared
  <1>1. KeyInv /\ SlotInv => SlotsAreNotShared
    BY SlotsAreOwned DEF SlotInv, SlotsAreNotShared
  <1> QED BY <1>1, KeyInvHolds, SlotInvHolds, PTL
=============================================================================
