----------------------------- MODULE X402Proofs -----------------------------
(* Whom an x402 payment credits and whose money one quote moves, for every   *)
(* number of payments, requests, passes, quotes and failures.                *)
EXTENDS X402Settlement, SequenceTheorems, TLAPS

Credited == {"ASSET_RECEIVED", "SUCCESS"}
Swapped(p) == \E h \in DOMAIN chain : Is(h, "swap", p, "mined")

\* What a row r of the payment p says is so on the chain.
RowFits(p, r) ==
    /\ r.ref \in 0 .. Len(chain)
    /\ r.ref # 0 => Authorized(p) /\ r.state # "NONE"
    /\ r.state \in Credited => Authorized(p) /\ (p \in Cross => Swapped(p))
    /\ r.state # "NONE" /\ p \in Payable => r.under # 0

Unclaimed == {"idle", "claiming", "reclaiming"}
Landed == {"recording", "sending", "noting", "swapping", "crediting", "resuming"}

\* What a flow f relies on, r being the row of its payment.
FlowFits(f, r) ==
    /\ f.pc # "idle" => f.pay \in Payments
    /\ f.pc \notin Unclaimed /\ f.pay \in Payable => r.under # 0
    /\ f.pc \notin Unclaimed \cup {"starting"} => r.state # "NONE"
    /\ f.pc = "mining" => /\ f.tx \in 1 .. Len(chain)
                          /\ chain[f.tx].kind = "authorization" /\ chain[f.tx].pay = f.pay
    /\ f.pc \in Landed => Authorized(f.pay) /\ f.tx \in 1 .. Len(chain)
    /\ f.pc \in {"crediting", "finishing"} /\ f.pay \in Cross => Swapped(f.pay)
    /\ f.pc = "finishing" => Authorized(f.pay)

\* A transaction t was sent for a payment that had claimed, a swap for one that
\* the payer had paid.
TxFits(t) ==
    /\ t.pay \in Payable => row[t.pay].under # 0
    /\ t.kind = "swap" => Authorized(t.pay)

\* Who claimed the quote there is, and that no quote was claimed twice.
ClaimsFit ==
    /\ \A p \in Payments : /\ row[p].under <= quote.epoch
                           /\ row[p].under = quote.epoch => quote.nonce = p
    /\ \A p, q \in Payments : row[p].under = row[q].under /\ row[p].under # 0 => p = q

\* The inductive invariant.
X402Inv ==
    /\ X402TypeOK
    /\ \A p \in Payments : RowFits(p, row[p])
    /\ \A w \in Flows : FlowFits(flow[w], row[flow[w].pay])
    /\ \A h \in 1 .. Len(chain) : TxFits(chain[h])
    /\ ClaimsFit

\* The same after a step.
AuthorizedNext(p) == \E h \in DOMAIN chain' :
    chain'[h] = [kind |-> "authorization", pay |-> p, status |-> "mined"]
SwappedNext(p) == \E h \in DOMAIN chain' :
    chain'[h] = [kind |-> "swap", pay |-> p, status |-> "mined"]
RowFitsNext(p, r) ==
    /\ r.ref \in 0 .. Len(chain')
    /\ r.ref # 0 => AuthorizedNext(p) /\ r.state # "NONE"
    /\ r.state \in Credited => AuthorizedNext(p) /\ (p \in Cross => SwappedNext(p))
    /\ r.state # "NONE" /\ p \in Payable => r.under # 0
FlowFitsNext(f, r) ==
    /\ f.pc # "idle" => f.pay \in Payments
    /\ f.pc \notin Unclaimed /\ f.pay \in Payable => r.under # 0
    /\ f.pc \notin Unclaimed \cup {"starting"} => r.state # "NONE"
    /\ f.pc = "mining" => /\ f.tx \in 1 .. Len(chain')
                          /\ chain'[f.tx].kind = "authorization" /\ chain'[f.tx].pay = f.pay
    /\ f.pc \in Landed => AuthorizedNext(f.pay) /\ f.tx \in 1 .. Len(chain')
    /\ f.pc \in {"crediting", "finishing"} /\ f.pay \in Cross => SwappedNext(f.pay)
    /\ f.pc = "finishing" => AuthorizedNext(f.pay)
TxFitsNext(t) ==
    /\ t.pay \in Payable => row'[t.pay].under # 0
    /\ t.kind = "swap" => AuthorizedNext(t.pay)

\* What no step takes back.
ChainGrows ==
    /\ Len(chain) <= Len(chain')
    /\ \A h \in 1 .. Len(chain) :
          /\ chain'[h].kind = chain[h].kind /\ chain'[h].pay = chain[h].pay
          /\ chain[h].status = "mined" => chain'[h].status = "mined"
RowsGrow ==
    \A p \in Payments :
        /\ row[p].under # 0 => row'[p].under # 0
        /\ row[p].state # "NONE" => row'[p].state # "NONE"

LEMMA Typed ==
  ASSUME X402Inv
  PROVE  /\ row \in [Payments -> RowType] /\ flow \in [Flows -> JobType]
         /\ quote \in QuoteType /\ chain \in Seq(Txs) /\ Len(chain) <= MaxTx
         /\ asks \in 0 .. MaxAsks /\ upsets \in 0 .. MaxUpsets
         /\ DOMAIN chain = 1 .. Len(chain) /\ Len(chain) \in Nat
  BY DEF X402Inv, X402TypeOK

LEMMA InitInv == Init => X402Inv
  <1> SUFFICES ASSUME Init PROVE X402Inv
    OBVIOUS
  <1>1. Len(chain) = 0 /\ chain \in Seq(Txs)
    BY DEF Init
  <1>2. X402TypeOK
    <2>1. 0 \in Hashes /\ 0 \in 0 .. MaxAsks /\ 0 \in 0 .. MaxUpsets /\ 0 \in 0 .. MaxQuotes
          /\ 1 \in 1 .. MaxQuotes /\ 0 <= MaxTx
      BY X402Assumption DEF Hashes
    <2>2. NoRow \in RowType
      BY <2>1 DEF NoRow, RowType, States
    <2>3. NoJob \in JobType
      BY <2>1 DEF NoJob, Job, JobType, Labels
    <2>4. quote \in QuoteType
      BY <2>1 DEF Init, QuoteType
    <2>5. row \in [Payments -> RowType] /\ flow \in [Flows -> JobType]
      BY <2>2, <2>3 DEF Init
    <2>6. chain \in Seq(Txs) /\ Len(chain) <= MaxTx
      BY <1>1, <2>1
    <2>7. asks \in 0 .. MaxAsks /\ upsets \in 0 .. MaxUpsets
      BY <2>1 DEF Init
    <2> QED BY <2>4, <2>5, <2>6, <2>7 DEF X402TypeOK
  <1>3. \A p \in Payments : RowFits(p, row[p])
    <2>1. ASSUME NEW p \in Payments PROVE RowFits(p, row[p])
      <3>1. row[p] = NoRow
        BY DEF Init
      <3>2. row[p].ref = 0 /\ row[p].state = "NONE"
        BY <3>1 DEF NoRow
      <3> QED BY <1>1, <3>2 DEF RowFits, Credited
    <2> QED BY <2>1
  <1>4. \A w \in Flows : FlowFits(flow[w], row[flow[w].pay])
    BY DEF Init, FlowFits, NoJob, Job, Unclaimed, Landed
  <1>5. \A h \in 1 .. Len(chain) : TxFits(chain[h])
    BY <1>1
  <1>6. ClaimsFit
    BY DEF Init, ClaimsFit, NoRow
  <1> QED BY <1>2, <1>3, <1>4, <1>5, <1>6 DEF X402Inv

\* What the chain has shown it goes on showing.
LEMMA ShownStays ==
  ASSUME chain \in Seq(Txs), chain' \in Seq(Txs), ChainGrows, NEW p
  PROVE  /\ Authorized(p) => AuthorizedNext(p)
         /\ Swapped(p) => SwappedNext(p)
  <1>1. ASSUME NEW k, NEW h \in DOMAIN chain, Is(h, k, p, "mined")
        PROVE  h \in DOMAIN chain' /\ chain'[h] = [kind |-> k, pay |-> p, status |-> "mined"]
    <2>1. h \in 1 .. Len(chain) /\ h \in 1 .. Len(chain')
      BY DEF ChainGrows
    <2>2. chain'[h] \in Txs
      BY <2>1
    <2>3. chain'[h].kind = k /\ chain'[h].pay = p /\ chain'[h].status = "mined"
      BY <1>1, <2>1 DEF ChainGrows, Is
    <2> QED BY <2>1, <2>2, <2>3 DEF Txs
  <1> QED BY <1>1 DEF Authorized, Swapped, AuthorizedNext, SwappedNext

\* A step keeps the invariant when what it writes fits what it leaves.
LEMMA Frame ==
  ASSUME X402Inv, X402TypeOK', ChainGrows, RowsGrow, ClaimsFit',
         \A p \in Payments : row'[p] = row[p] \/ RowFitsNext(p, row'[p])
                             \/ RowFits(p, row'[p]),
         \A w \in Flows : \/ flow'[w] = flow[w]
                          \/ FlowFitsNext(flow'[w], row'[flow'[w].pay]),
         \A h \in 1 .. Len(chain') : h <= Len(chain) \/ TxFitsNext(chain'[h])
  PROVE  X402Inv'
  <1>0. /\ chain \in Seq(Txs) /\ chain' \in Seq(Txs) /\ Len(chain) \in Nat /\ Len(chain') \in Nat
        /\ flow \in [Flows -> JobType]
        /\ Len(chain) <= Len(chain')
    BY Typed DEF X402TypeOK, ChainGrows
  <1>1. ASSUME NEW p \in Payments PROVE RowFits(p, row[p])'
    <2>1. RowFitsNext(p, row'[p])
      <3>1. ASSUME NEW r, RowFits(p, r) PROVE RowFitsNext(p, r)
        BY <1>0, <3>1, ShownStays DEF RowFits, RowFitsNext
      <3>2. RowFits(p, row[p])
        BY DEF X402Inv
      <3> QED BY <3>1, <3>2
    <2> QED BY <2>1 DEF RowFitsNext, RowFits, AuthorizedNext, Authorized, SwappedNext, Swapped, Is
  <1>2. ASSUME NEW w \in Flows PROVE FlowFits(flow[w], row[flow[w].pay])'
    <2>1. FlowFitsNext(flow'[w], row'[flow'[w].pay])
      <3>1. ASSUME NEW f, FlowFits(f, row[f.pay]) PROVE FlowFitsNext(f, row'[f.pay])
        <4>1. CASE f.pc = "idle"
          BY <4>1 DEF FlowFitsNext, Unclaimed, Landed
        <4>2. CASE f.pc # "idle"
          <5>1. f.pay \in Payments
            BY <3>1, <4>2 DEF FlowFits
          <5>2. /\ row[f.pay].under # 0 => row'[f.pay].under # 0
                /\ row[f.pay].state # "NONE" => row'[f.pay].state # "NONE"
            BY <5>1 DEF RowsGrow
          <5>3. /\ Authorized(f.pay) => AuthorizedNext(f.pay)
                /\ Swapped(f.pay) => SwappedNext(f.pay)
            BY <1>0, ShownStays
          <5>4. f.tx \in 1 .. Len(chain) =>
                  /\ f.tx \in 1 .. Len(chain')
                  /\ chain'[f.tx].kind = chain[f.tx].kind /\ chain'[f.tx].pay = chain[f.tx].pay
            BY <1>0 DEF ChainGrows
          <5> QED BY <3>1, <5>1, <5>2, <5>3, <5>4 DEF FlowFits, FlowFitsNext
        <4> QED BY <4>1, <4>2
      <3>2. FlowFits(flow[w], row[flow[w].pay])
        BY DEF X402Inv
      <3>3. CASE flow'[w] = flow[w]
        BY <3>1, <3>2, <3>3
      <3> QED BY <3>3
    <2> QED BY <2>1 DEF FlowFitsNext, FlowFits, AuthorizedNext, Authorized, SwappedNext, Swapped, Is
  <1>3. ASSUME NEW h \in 1 .. Len(chain') PROVE TxFitsNext(chain'[h])
    <2>1. CASE h <= Len(chain)
      <3>1. h \in 1 .. Len(chain) /\ TxFits(chain[h]) /\ chain[h] \in Txs
        BY <1>0, <2>1 DEF X402Inv
      <3>2. chain'[h].pay = chain[h].pay /\ chain'[h].kind = chain[h].kind /\ chain[h].pay \in Payments
        BY <3>1 DEF ChainGrows, Txs
      <3>3. Authorized(chain[h].pay) => AuthorizedNext(chain[h].pay)
        BY <1>0, ShownStays
      <3> QED BY <3>1, <3>2, <3>3 DEF TxFits, TxFitsNext, RowsGrow
    <2> QED BY <2>1
  <1>4. (\A h \in 1 .. Len(chain) : TxFits(chain[h]))'
    BY <1>3 DEF TxFitsNext, TxFits, AuthorizedNext, Authorized, Is
  <1> QED BY <1>1, <1>2, <1>4 DEF X402Inv

(***************************************************************************)
(* The shapes of the steps                                                 *)
(***************************************************************************)

\* A flow that ends relies on nothing.
LEMMA Rests ==
  /\ NoJob \in JobType
  /\ \A r : FlowFits(NoJob, r) /\ FlowFitsNext(NoJob, r)
  <1>1. 0 \in Hashes
    BY X402Assumption DEF Hashes
  <1>2. NoJob \in JobType
    BY <1>1 DEF NoJob, Job, JobType, Labels
  <1>3. NoJob.pc = "idle"
    BY DEF NoJob, Job
  <1> QED BY <1>2, <1>3 DEF FlowFits, FlowFitsNext, Unclaimed, Landed

\* A flow goes on, and everything else stays.
LEMMA FlowMoves ==
  ASSUME X402Inv, NEW w \in Flows, NEW f \in JobType,
         flow' = [flow EXCEPT ![w] = f], UNCHANGED <<row, quote, chain>>,
         asks' \in 0 .. MaxAsks, upsets' \in 0 .. MaxUpsets,
         FlowFits(f, row[f.pay])
  PROVE  X402Inv'
  <1>1. flow' \in [Flows -> JobType] /\ \A v \in Flows : flow'[v] = IF v = w THEN f ELSE flow[v]
    BY Typed
  <1>2. X402TypeOK'
    BY <1>1, Typed DEF X402TypeOK
  <1>3. ChainGrows /\ RowsGrow
    BY Typed DEF ChainGrows, RowsGrow
  <1>4. ClaimsFit'
    BY DEF X402Inv, ClaimsFit
  <1>5. FlowFitsNext(f, row'[f.pay])
    BY DEF FlowFits, FlowFitsNext, Authorized, AuthorizedNext, Swapped, SwappedNext, Is
  <1>6. \A v \in Flows : flow'[v] = flow[v] \/ FlowFitsNext(flow'[v], row'[flow'[v].pay])
    BY <1>1, <1>5
  <1>7. \A p \in Payments : row'[p] = row[p]
    OBVIOUS
  <1>8. \A h \in 1 .. Len(chain') : h <= Len(chain)
    BY Typed
  <1> QED BY <1>2, <1>3, <1>4, <1>6, <1>7, <1>8, Frame

\* The row r may take the place of the row of p.
Replaces(p, r) ==
    /\ r \in RowType /\ RowFits(p, r) /\ r.under = row[p].under
    /\ row[p].state # "NONE" => r.state # "NONE"
\* A flow at pc may go on for p with the hash h when the row is r.
MayGo(pc, p, h, r) ==
    \A f \in JobType : f.pc = pc /\ f.pay = p /\ f.tx = h => FlowFits(f, r)

\* A flow writes the row of one payment and goes on with it, or ends.
LEMMA Writes ==
  ASSUME X402Inv, NEW w \in Flows, NEW f \in JobType, NEW p \in Payments, NEW r, Replaces(p, r),
         flow' = [flow EXCEPT ![w] = f], row' = [row EXCEPT ![p] = r],
         UNCHANGED <<quote, chain, asks>>, upsets' \in 0 .. MaxUpsets,
         f = NoJob \/ (f.pay = p /\ FlowFits(f, r))
  PROVE  X402Inv'
  <1>0. /\ r \in RowType /\ RowFits(p, r) /\ r.under = row[p].under
        /\ row[p].state # "NONE" => r.state # "NONE"
    BY DEF Replaces
  <1>1. flow' \in [Flows -> JobType] /\ \A v \in Flows : flow'[v] = IF v = w THEN f ELSE flow[v]
    BY Typed
  <1>2. row' \in [Payments -> RowType] /\ \A q \in Payments : row'[q] = IF q = p THEN r ELSE row[q]
    BY <1>0, Typed
  <1>3. X402TypeOK'
    BY <1>1, <1>2, Typed DEF X402TypeOK
  <1>4. ChainGrows
    BY Typed DEF ChainGrows
  <1>5. RowsGrow
    BY <1>0, <1>2 DEF RowsGrow
  <1>6. ClaimsFit'
    <2>1. \A q \in Payments : row'[q].under = row[q].under
      BY <1>0, <1>2
    <2>2. ClaimsFit
      BY DEF X402Inv
    <2> QED BY <2>1, <2>2 DEF ClaimsFit
  <1>7. FlowFitsNext(f, row'[f.pay])
    <2>1. CASE f = NoJob
      BY <2>1, Rests
    <2>2. CASE f.pay = p /\ FlowFits(f, r)
      <3>1. row'[f.pay] = r
        BY <1>2, <2>2
      <3>2. FlowFitsNext(f, r)
        BY <2>2 DEF FlowFits, FlowFitsNext, Authorized, AuthorizedNext, Swapped, SwappedNext, Is
      <3> QED BY <3>1, <3>2
    <2> QED BY <2>1, <2>2
  <1>8. \A v \in Flows : flow'[v] = flow[v] \/ FlowFitsNext(flow'[v], row'[flow'[v].pay])
    BY <1>1, <1>7
  <1>9. \A q \in Payments : row'[q] = row[q] \/ RowFits(q, row'[q])
    BY <1>0, <1>2
  <1>10. \A h \in 1 .. Len(chain') : h <= Len(chain)
    BY Typed
  <1> QED BY <1>3, <1>4, <1>5, <1>6, <1>8, <1>9, <1>10, Frame

\* A flow broadcasts for the payment it works on.
LEMMA Sends ==
  ASSUME X402Inv, NEW w \in Flows, NEW kind, NEW pc, Broadcasts(w, kind, pc),
         UNCHANGED <<row, quote, asks, upsets>>,
         <<kind, pc>> \in {<<"authorization", "mining">>, <<"swap", "noting">>,
                          <<"refund", "booking">>},
         ~At(w, "idle"), flow[w].pc \notin Unclaimed \cup {"starting"},
         kind = "swap" => Authorized(flow[w].pay)
  PROVE  X402Inv'
  <1> DEFINE p == flow[w].pay
             f == Job(pc, p, Len(chain) + 1, flow[w].own)
             t == Sent(kind, p)
  <1>1. flow[w] \in JobType /\ FlowFits(flow[w], row[p])
    BY Typed DEF X402Inv
  <1>2. /\ p \in Payments /\ (p \in Payable => row[p].under # 0) /\ row[p].state # "NONE"
    BY <1>1 DEF FlowFits, At
  <1>3. /\ kind \in {"authorization", "swap", "refund"} /\ pc \in {"mining", "noting", "booking"}
        /\ pc = "mining" => kind = "authorization"
        /\ pc = "noting" => kind = "swap"
    OBVIOUS
  <1>4. t \in Txs /\ t.kind = kind /\ t.pay = p
    BY <1>2, <1>3 DEF Sent, Txs, Statuses
  <1>5. chain \in Seq(Txs) /\ Len(chain) \in Nat /\ Len(chain) < MaxTx /\ MaxTx \in Nat
    BY Typed, X402Assumption DEF Broadcasts
  <1>6. chain' = Append(chain, t) /\ flow' = [flow EXCEPT ![w] = f]
    BY DEF Broadcasts, Holds, Becomes
  <1>7. /\ f.pc = pc /\ f.pay = p /\ f.tx = Len(chain) + 1
        /\ f \in JobType
    <2>1. Len(chain) + 1 \in Hashes
      BY <1>5 DEF Hashes
    <2>2. pc \in Labels
      BY <1>3 DEF Labels, Waiting
    <2>3. flow[w].own \in BOOLEAN
      BY <1>1 DEF JobType
    <2> QED BY <1>2, <2>1, <2>2, <2>3 DEF Job, JobType
  <1> HIDE DEF p, f, t
  <1>8. /\ chain' \in Seq(Txs) /\ Len(chain') = Len(chain) + 1
        /\ \A h \in 1 .. Len(chain) : chain'[h] = chain[h]
        /\ chain'[Len(chain) + 1] = t
    BY <1>4, <1>5, <1>6, AppendProperties
  <1>9. ChainGrows
    BY <1>5, <1>8 DEF ChainGrows
  <1>10. RowsGrow
    BY DEF RowsGrow
  <1>11. ClaimsFit'
    BY DEF X402Inv, ClaimsFit
  <1>12. flow' \in [Flows -> JobType] /\ \A v \in Flows : flow'[v] = IF v = w THEN f ELSE flow[v]
    BY <1>6, <1>7, Typed
  <1>13. X402TypeOK'
    BY <1>5, <1>8, <1>12, Typed DEF X402TypeOK
  <1>14. kind = "swap" => AuthorizedNext(p)
    BY <1>5, <1>8, <1>9, ShownStays DEF p
  <1>15. FlowFitsNext(f, row'[f.pay])
    <2>1. /\ f.pc \notin {"idle", "crediting", "finishing"}
          /\ f.pc \in Landed => f.pc = "noting"
      BY <1>3, <1>7 DEF Landed
    <2>2. f.tx \in 1 .. Len(chain') /\ chain'[f.tx].kind = kind /\ chain'[f.tx].pay = p
      BY <1>4, <1>5, <1>7, <1>8
    <2> QED BY <1>2, <1>3, <1>7, <1>14, <2>1, <2>2 DEF FlowFitsNext
  <1>16. \A v \in Flows : flow'[v] = flow[v] \/ FlowFitsNext(flow'[v], row'[flow'[v].pay])
    BY <1>12, <1>15
  <1>17. \A h \in 1 .. Len(chain') : h <= Len(chain) \/ TxFitsNext(chain'[h])
    <2>1. TxFitsNext(t)
      BY <1>2, <1>4, <1>14 DEF TxFitsNext
    <2>2. \A h \in 1 .. Len(chain') : h <= Len(chain) \/ h = Len(chain) + 1
      BY <1>5, <1>8
    <2> QED BY <1>8, <2>1, <2>2
  <1>18. \A q \in Payments : row'[q] = row[q]
    OBVIOUS
  <1> QED BY <1>9, <1>10, <1>11, <1>13, <1>16, <1>17, <1>18, Frame
(***************************************************************************)
(* The steps                                                               *)
(***************************************************************************)

\* What a started flow has before it.
LEMMA Here ==
  ASSUME X402Inv, NEW w \in Flows, ~At(w, "idle")
  PROVE  /\ flow[w] \in JobType /\ flow[w].pay \in Payments
         /\ row[flow[w].pay] \in RowType
         /\ RowFits(flow[w].pay, row[flow[w].pay])
         /\ FlowFits(flow[w], row[flow[w].pay])
  <1>1. flow[w] \in JobType /\ FlowFits(flow[w], row[flow[w].pay])
    BY Typed DEF X402Inv
  <1>2. flow[w].pay \in Payments
    BY <1>1 DEF FlowFits, At
  <1> QED BY <1>1, <1>2, Typed DEF X402Inv

\* A job is made of its parts.
LEMMA JobParts ==
  ASSUME NEW pc \in Labels, NEW p \in Payments, NEW h \in Hashes, NEW own \in BOOLEAN
  PROVE  /\ Job(pc, p, h, own) \in JobType
         /\ Job(pc, p, h, own).pc = pc /\ Job(pc, p, h, own).pay = p
         /\ Job(pc, p, h, own).tx = h
  BY DEF Job, JobType

\* A position of the chain is a hash.
LEMMA Positions ==
  ASSUME X402Inv, NEW h \in 0 .. Len(chain)
  PROVE  h \in Hashes /\ 0 \in Hashes
  BY Typed, X402Assumption DEF Hashes

\* A step that ends a flow, or starts none, and writes nothing.
LEMMA EndsInv ==
  ASSUME X402Inv, NEW w \in Flows, Ends(w), UNCHANGED <<row, quote, chain>>,
         asks' \in 0 .. MaxAsks, upsets' \in 0 .. MaxUpsets
  PROVE  X402Inv'
  BY Rests, FlowMoves DEF Ends, Becomes

LEMMA AskInv ==
  ASSUME X402Inv, NEW w \in Flows, NEW p \in Payments, Ask(w, p)
  PROVE  X402Inv'
  <1>1. row[p] \in RowType /\ RowFits(p, row[p])
    BY Typed DEF X402Inv
  <1>2. asks' \in 0 .. MaxAsks /\ upsets' \in 0 .. MaxUpsets
    BY Typed, X402Assumption DEF Ask
  <1>3. UNCHANGED <<row, quote, chain>>
    BY DEF Ask
  <1>4. row[p].ref \in 0 .. Len(chain) /\ 0 \in 0 .. Len(chain)
    BY <1>1, Typed DEF RowFits
  <1>5. row[p].ref \in Hashes /\ 0 \in Hashes
    BY <1>4, Positions
  <1>6. ASSUME NEW f \in JobType, Becomes(w, f), FlowFits(f, row[f.pay]) PROVE X402Inv'
    BY <1>2, <1>3, <1>6, FlowMoves DEF Becomes
  <1>7. CASE p \notin Payable /\ Becomes(w, Job("starting", p, 0, TRUE))
    <2> DEFINE f == Job("starting", p, 0, TRUE)
    <2>1. f \in JobType /\ f.pc = "starting" /\ f.pay = p
      BY <1>5, JobParts DEF Labels
    <2>2. FlowFits(f, row[f.pay])
      BY <1>7, <2>1 DEF FlowFits, Unclaimed, Landed
    <2> QED BY <1>6, <1>7, <2>1, <2>2
  <1>8. ASSUME NEW pc \in {"claiming", "reclaiming"}, Becomes(w, Job(pc, p, 0, TRUE))
        PROVE  X402Inv'
    <2> DEFINE f == Job(pc, p, 0, TRUE)
    <2>1. f \in JobType /\ f.pc = pc /\ f.pay = p
      BY <1>5, JobParts DEF Labels
    <2>2. FlowFits(f, row[f.pay])
      BY <2>1 DEF FlowFits, Unclaimed, Landed
    <2> QED BY <1>6, <1>8, <2>1, <2>2
  <1>9. CASE row[p].state = "PAYMENT_PENDING" /\ row[p].ref # 0
             /\ Becomes(w, Job("resuming", p, row[p].ref, FALSE))
    <2> DEFINE f == Job("resuming", p, row[p].ref, FALSE)
    <2>1. f \in JobType /\ f.pc = "resuming" /\ f.pay = p /\ f.tx = row[p].ref
      <3>1. ASSUME NEW h \in Hashes
            PROVE  LET j == Job("resuming", p, h, FALSE)
                   IN  j \in JobType /\ j.pc = "resuming" /\ j.pay = p /\ j.tx = h
        BY DEF Job, JobType, Labels
      <3> QED BY <1>5, <3>1
    <2>2. row[p].ref \in 1 .. Len(chain) /\ Authorized(p) /\ (p \in Payable => row[p].under # 0)
      BY <1>1, <1>4, <1>9, Typed DEF RowFits
    <2> HIDE DEF f
    <2>3. FlowFits(f, row[f.pay])
      BY <1>9, <2>1, <2>2 DEF FlowFits
    <2> QED BY <1>6, <1>9, <2>1, <2>3 DEF f
  <1>10. CASE UNCHANGED flow
    <2>1. flow' = [flow EXCEPT ![w] = flow[w]] /\ flow[w] \in JobType
      BY <1>10, Typed
    <2>2. FlowFits(flow[w], row[flow[w].pay])
      BY DEF X402Inv
    <2> QED BY <1>2, <1>3, <2>1, <2>2, FlowMoves
  <1> QED BY <1>7, <1>8, <1>9, <1>10 DEF Ask

LEMMA ClaimInv ==
  ASSUME X402Inv, NEW w \in Flows, Claim(w)
  PROVE  X402Inv'
  <1> DEFINE p == flow[w].pay
             f == Job("starting", p, flow[w].tx, flow[w].own)
             r == [row[p] EXCEPT !.under = quote.epoch]
  <1>1. /\ flow[w] \in JobType /\ p \in Payments /\ row[p] \in RowType
        /\ RowFits(p, row[p])
    BY Here DEF Claim, At
  <1>2. CASE ~Claimable(w)
    BY <1>2, Typed, EndsInv DEF Claim
  <1>3. CASE Claimable(w)
    <2>1. quote \in QuoteType /\ quote.epoch \in 1 .. MaxQuotes /\ quote.epoch # 0
      BY Typed DEF QuoteType
    <2>2. /\ quote' = [quote EXCEPT !.status = "claimed", !.nonce = p]
          /\ row' = [row EXCEPT ![p].under = quote.epoch]
          /\ flow' = [flow EXCEPT ![w] = f]
          /\ UNCHANGED <<chain, asks, upsets>>
      BY <1>3 DEF Claim, Goes, Holds, Becomes
    <2>3. /\ quote' \in QuoteType /\ quote'.nonce = p /\ quote'.epoch = quote.epoch
      BY <1>1, <2>1, <2>2 DEF QuoteType
    <2>4. /\ r \in RowType /\ r.under = quote.epoch /\ r.state = row[p].state
          /\ r.ref = row[p].ref
      BY <1>1, <2>1 DEF RowType
    <2>5. row' = [row EXCEPT ![p] = r]
      BY <2>2
    <2>6. f \in JobType /\ f.pc = "starting" /\ f.pay = p
      BY <1>1, JobParts DEF JobType, Labels
    <2> HIDE DEF r, f
    <2>7. row' \in [Payments -> RowType] /\ \A q \in Payments : row'[q] = IF q = p THEN r ELSE row[q]
      BY <1>1, <2>4, <2>5, Typed
    <2>8. flow' \in [Flows -> JobType] /\ \A v \in Flows : flow'[v] = IF v = w THEN f ELSE flow[v]
      BY <2>2, <2>6, Typed
    <2>9. X402TypeOK'
      BY <2>2, <2>3, <2>7, <2>8, Typed DEF X402TypeOK
    <2>10. ChainGrows
      BY <2>2, Typed DEF ChainGrows
    <2>11. RowsGrow
      BY <2>1, <2>4, <2>7 DEF RowsGrow
    <2>12. ClaimsFit'
      <3>1. \A q \in Payments : /\ row[q].under \in 0 .. MaxQuotes
                                /\ row[q].under <= quote.epoch
                                /\ row[q].under = quote.epoch => quote.nonce = q
        BY Typed DEF X402Inv, ClaimsFit, RowType
      <3>2. quote.nonce \in {p, Nobody}
        BY <1>3 DEF Claimable
      <3>3. \A q \in Payments \ {p} : row[q].under # quote.epoch
        BY <3>1, <3>2, X402Assumption
      <3>4. \A q \in Payments : /\ row'[q].under <= quote.epoch
                                /\ row'[q].under = quote.epoch => q = p
        BY <2>1, <2>4, <2>7, <3>1, <3>3
      <3>5. \A q, s \in Payments : row'[q].under = row'[s].under /\ row'[q].under # 0 => q = s
        <4>1. \A q, s \in Payments : row[q].under = row[s].under /\ row[q].under # 0 => q = s
          BY DEF X402Inv, ClaimsFit
        <4> QED BY <2>4, <2>7, <3>3, <4>1
      <3> QED BY <2>3, <3>4, <3>5 DEF ClaimsFit
    <2>13. RowFits(p, r)
      BY <1>1, <2>1, <2>4 DEF RowFits
    <2>14. \A q \in Payments : row'[q] = row[q] \/ RowFits(q, row'[q])
      BY <2>7, <2>13
    <2>15. FlowFitsNext(f, row'[f.pay])
      BY <1>1, <2>1, <2>4, <2>6, <2>7 DEF FlowFitsNext, Unclaimed, Landed
    <2>16. \A v \in Flows : flow'[v] = flow[v] \/ FlowFitsNext(flow'[v], row'[flow'[v].pay])
      BY <2>8, <2>15
    <2>17. \A h \in 1 .. Len(chain') : h <= Len(chain)
      BY <2>2, Typed
    <2> QED BY <2>9, <2>10, <2>11, <2>12, <2>14, <2>16, <2>17, Frame
  <1> QED BY <1>2, <1>3
\* A flow goes on with the row of its payment as it was.
LEMMA Continues ==
  ASSUME X402Inv, NEW w \in Flows, ~At(w, "idle"),
         NEW pc \in Labels, NEW h \in Hashes, Holds(w, pc, h),
         UNCHANGED <<row, quote, chain, asks, upsets>>,
         MayGo(pc, flow[w].pay, h, row[flow[w].pay])
  PROVE  X402Inv'
  <1> DEFINE f == Job(pc, flow[w].pay, h, flow[w].own)
  <1>1. flow[w].pay \in Payments /\ flow[w].own \in BOOLEAN
    BY Here DEF JobType
  <1>2. f \in JobType /\ f.pc = pc /\ f.pay = flow[w].pay /\ f.tx = h
    BY <1>1, JobParts
  <1>3. flow' = [flow EXCEPT ![w] = f]
    BY DEF Holds, Becomes
  <1> HIDE DEF f
  <1>4. FlowFits(f, row[f.pay])
    BY <1>2 DEF MayGo
  <1>5. asks' \in 0 .. MaxAsks /\ upsets' \in 0 .. MaxUpsets
    BY Typed
  <1> QED BY <1>2, <1>3, <1>4, <1>5, FlowMoves

\* A flow goes on with the row r it wrote.
LEMMA WritesOn ==
  ASSUME X402Inv, NEW w \in Flows, ~At(w, "idle"),
         NEW pc \in Labels, NEW h \in Hashes, Holds(w, pc, h),
         NEW r, row' = [row EXCEPT ![flow[w].pay] = r],
         UNCHANGED <<quote, chain, asks, upsets>>,
         Replaces(flow[w].pay, r),
         MayGo(pc, flow[w].pay, h, r)
  PROVE  X402Inv'
  <1> DEFINE f == Job(pc, flow[w].pay, h, flow[w].own)
  <1>1. flow[w].pay \in Payments /\ flow[w].own \in BOOLEAN
    BY Here DEF JobType
  <1>2. f \in JobType /\ f.pc = pc /\ f.pay = flow[w].pay /\ f.tx = h
    BY <1>1, JobParts
  <1>3. flow' = [flow EXCEPT ![w] = f]
    BY DEF Holds, Becomes
  <1> HIDE DEF f
  <1>4. FlowFits(f, r)
    BY <1>2 DEF MayGo
  <1> QED BY <1>1, <1>2, <1>3, <1>4, Typed, Writes

\* A flow ends with the row r it wrote.
LEMMA WritesLast ==
  ASSUME X402Inv, NEW w \in Flows, ~At(w, "idle"), Ends(w),
         NEW r, row' = [row EXCEPT ![flow[w].pay] = r],
         UNCHANGED <<quote, chain, asks, upsets>>,
         Replaces(flow[w].pay, r)
  PROVE  X402Inv'
  <1>1. flow[w].pay \in Payments
    BY Here
  <1>2. flow' = [flow EXCEPT ![w] = NoJob]
    BY DEF Ends, Becomes
  <1> QED BY <1>1, <1>2, Typed, Rests, Writes

LEMMA StartInv ==
  ASSUME X402Inv, NEW w \in Flows, Start(w)
  PROVE  X402Inv'
  <1> DEFINE p == flow[w].pay
             r == [row[p] EXCEPT !.state = "PAYMENT_PENDING"]
  <1>1. ~At(w, "idle") /\ flow[w].pc = "starting"
    BY DEF Start, At
  <1>2. /\ flow[w] \in JobType /\ flow[w].tx \in Hashes
        /\ p \in Payments /\ row[p] \in RowType /\ RowFits(p, row[p])
        /\ p \in Payable => row[p].under # 0
    BY <1>1, Here DEF JobType, FlowFits, Unclaimed
  <1>3. "paying" \in Labels
    BY DEF Labels
  <1>4. CASE row[p].state = "NONE" /\ row' = [row EXCEPT ![p].state = "PAYMENT_PENDING"]
             /\ Goes(w, "paying")
    <2>1. r \in RowType /\ r.state = "PAYMENT_PENDING" /\ r.ref = row[p].ref /\ r.under = row[p].under
      BY <1>2 DEF RowType, States
    <2>2. row' = [row EXCEPT ![p] = r] /\ Holds(w, "paying", flow[w].tx)
      BY <1>4 DEF Goes
    <2> HIDE DEF r
    <2>3. RowFits(p, r)
      BY <1>2, <2>1 DEF RowFits, Credited
    <2>4. MayGo("paying", p, flow[w].tx, r)
      BY <1>2, <2>1 DEF FlowFits, Landed, MayGo
    <2>5. UNCHANGED <<quote, chain, asks, upsets>>
      BY DEF Start
    <2>6. row[p].state = "NONE" /\ row[p].state \notin Credited
      BY <1>4 DEF Credited
    <2>7. Replaces(p, r)
      BY <1>1, <1>2, <1>3, <2>1, <2>2, <2>3, <2>4, <2>5, <2>6 DEF Replaces
    <2>8. UNCHANGED <<quote, chain, asks, upsets>>
      BY <1>1, <1>2, <1>3, <2>1, <2>2, <2>3, <2>4, <2>5, <2>6
    <2> QED BY <1>1, <1>2, <1>3, <2>1, <2>2, <2>3, <2>4, <2>5, <2>6, <2>7, <2>8, WritesOn
  <1>5. CASE row[p].state = "PAYMENT_PENDING" /\ Goes(w, "paying") /\ UNCHANGED row
    <2>1. MayGo("paying", p, flow[w].tx, row[p])
      BY <1>2, <1>5 DEF FlowFits, Landed, MayGo
    <2>2. UNCHANGED <<quote, chain, asks, upsets>>
      BY DEF Start
    <2> QED BY <1>1, <1>2, <1>3, <1>5, <2>1, <2>2, Continues DEF Goes
  <1>6. CASE Ends(w) /\ UNCHANGED row
    BY <1>6, Typed, EndsInv DEF Start
  <1> QED BY <1>4, <1>5, <1>6 DEF Start

LEMMA PayInv ==
  ASSUME X402Inv, NEW w \in Flows, Pay(w)
  PROVE  X402Inv'
  <1>1. ~At(w, "idle") /\ flow[w].pc \notin Unclaimed \cup {"starting"}
    BY DEF Pay, At, Unclaimed
  <1>2. CASE Ends(w) /\ UNCHANGED chain
    BY <1>2, Typed, EndsInv DEF Pay
  <1>3. CASE Broadcasts(w, "authorization", "mining")
    BY <1>1, <1>3, Sends DEF Pay
  <1> QED BY <1>2, <1>3 DEF Pay

LEMMA AnswerInv ==
  ASSUME X402Inv, NEW w \in Flows, Answer(w)
  PROVE  X402Inv'
  <1> DEFINE p == flow[w].pay  h == flow[w].tx
  <1>1. ~At(w, "idle") /\ flow[w].pc = "mining"
    BY DEF Answer, At
  <1>2. /\ flow[w] \in JobType /\ h \in Hashes /\ p \in Payments
        /\ FlowFits(flow[w], row[p])
    BY <1>1, Here DEF JobType
  <1>3. CASE Receipt(w, "mined") /\ Goes(w, "recording")
    <2>1. /\ p \in Payable => row[p].under # 0
          /\ row[p].state # "NONE"
          /\ h \in 1 .. Len(chain) /\ chain[h].kind = "authorization" /\ chain[h].pay = p
      BY <1>1, <1>2 DEF FlowFits, Unclaimed
    <2>2. chain[h] \in Txs /\ h \in DOMAIN chain
      BY <2>1, Typed
    <2>3. Authorized(p)
      BY <1>3, <2>1, <2>2 DEF Receipt, Txs, Authorized, Is
    <2>4. MayGo("recording", p, h, row[p])
      BY <1>2, <2>1, <2>3 DEF FlowFits, MayGo
    <2>5. "recording" \in Labels
      BY DEF Labels
    <2> QED BY <1>1, <1>2, <1>3, <2>4, <2>5, Continues DEF Answer, Goes
  <1>4. CASE Ends(w)
    BY <1>4, Typed, EndsInv DEF Answer
  <1> QED BY <1>3, <1>4 DEF Answer
LEMMA RecordBroadcastInv ==
  ASSUME X402Inv, NEW w \in Flows, RecordBroadcast(w)
  PROVE  X402Inv'
  <1> DEFINE p == flow[w].pay  h == flow[w].tx
  <1>1. ~At(w, "idle") /\ flow[w].pc = "recording"
    BY DEF RecordBroadcast, At
  <1>2. /\ flow[w] \in JobType /\ h \in Hashes /\ p \in Payments /\ row[p] \in RowType
        /\ RowFits(p, row[p]) /\ FlowFits(flow[w], row[p])
    BY <1>1, Here DEF JobType
  <1>3. UNCHANGED <<quote, asks, upsets>>
    BY DEF RecordBroadcast
  <1>4. /\ p \in Payable => row[p].under # 0
        /\ row[p].state # "NONE"
        /\ Authorized(p) /\ h \in 1 .. Len(chain)
    BY <1>1, <1>2 DEF FlowFits, Unclaimed, Landed
  <1>5. CASE row[p].ref \notin {0, h}
    BY <1>5, Typed, EndsInv DEF RecordBroadcast
  <1>6. CASE row[p].ref \in {0, h}
    <2> DEFINE r == [row[p] EXCEPT !.ref = h]
               pc == AfterAuthorization(p)
    <2>1. row' = [row EXCEPT ![p].ref = h] /\ Holds(w, pc, h) /\ UNCHANGED chain
      BY <1>6 DEF RecordBroadcast, Goes
    <2>2. r \in RowType /\ r.state = row[p].state /\ r.ref = h /\ r.under = row[p].under
      BY <1>2 DEF RowType
    <2>3. row' = [row EXCEPT ![p] = r]
      BY <2>1
    <2>4. pc \in Labels /\ pc \in {"sending", "crediting"} /\ (pc = "crediting" => p \notin Cross)
      BY DEF AfterAuthorization, Labels
    <2> HIDE DEF r, pc
    <2>5. RowFits(p, r)
      BY <1>2, <1>4, <2>2, Typed DEF RowFits
    <2>6. MayGo(pc, p, h, r)
      BY <1>2, <1>4, <2>2, <2>4 DEF FlowFits, MayGo
    <2>7. Replaces(p, r)
      BY <1>1, <1>2, <1>3, <2>1, <2>2, <2>3, <2>4, <2>5, <2>6 DEF Replaces
    <2>8. UNCHANGED <<quote, chain, asks, upsets>>
      BY <1>1, <1>2, <1>3, <2>1, <2>2, <2>3, <2>4, <2>5, <2>6
    <2> QED BY <1>1, <1>2, <1>3, <2>1, <2>2, <2>3, <2>4, <2>5, <2>6, <2>7, <2>8, WritesOn
  <1> QED BY <1>5, <1>6

LEMMA SendSwapInv ==
  ASSUME X402Inv, NEW w \in Flows, SendSwap(w)
  PROVE  X402Inv'
  <1>1. ~At(w, "idle") /\ flow[w].pc = "sending" /\ Broadcasts(w, "swap", "noting")
        /\ flow[w].pc \notin Unclaimed \cup {"starting"}
    BY DEF SendSwap, At, Unclaimed
  <1>2. Authorized(flow[w].pay)
    BY <1>1, Here DEF FlowFits, Landed
  <1> QED BY <1>1, <1>2, Sends DEF SendSwap

LEMMA RecordSwapInv ==
  ASSUME X402Inv, NEW w \in Flows, RecordSwap(w)
  PROVE  X402Inv'
  <1> DEFINE p == flow[w].pay  h == flow[w].tx
  <1>1. ~At(w, "idle") /\ flow[w].pc = "noting"
    BY DEF RecordSwap, At
  <1>2. /\ flow[w] \in JobType /\ h \in Hashes /\ p \in Payments /\ row[p] \in RowType
        /\ RowFits(p, row[p]) /\ FlowFits(flow[w], row[p])
    BY <1>1, Here DEF JobType
  <1>3. UNCHANGED <<quote, asks, upsets>>
    BY DEF RecordSwap
  <1>4. /\ p \in Payable => row[p].under # 0
        /\ row[p].state # "NONE"
        /\ Authorized(p) /\ h \in 1 .. Len(chain)
    BY <1>1, <1>2 DEF FlowFits, Unclaimed, Landed
  <1>5. CASE row[p].ref = 0
    BY <1>5, Typed, EndsInv DEF RecordSwap
  <1>6. CASE row[p].ref # 0
    <2> DEFINE r == [row[p] EXCEPT !.ref = h, !.swapped = TRUE]
    <2> DEFINE pc == "swapping"
    <2>1. row' = [row EXCEPT ![p] = r] /\ Holds(w, pc, h) /\ UNCHANGED chain
      BY <1>6 DEF RecordSwap, Goes
    <2>2. r \in RowType /\ r.state = row[p].state /\ r.ref = h /\ r.under = row[p].under
      BY <1>2 DEF RowType
    <2>3. pc \in Labels /\ pc = "swapping"
      BY DEF Labels, Waiting
    <2> HIDE DEF r, pc
    <2>4. RowFits(p, r)
      BY <1>2, <1>4, <2>2, Typed DEF RowFits
    <2>5. MayGo(pc, p, h, r)
      BY <2>3, <1>2, <1>4, <2>2 DEF FlowFits, MayGo
    <2>6. Replaces(p, r)
      BY <1>1, <1>2, <1>3, <2>1, <2>2, <2>3, <2>4, <2>5 DEF Replaces
    <2>7. UNCHANGED <<quote, chain, asks, upsets>>
      BY <1>1, <1>2, <1>3, <2>1, <2>2, <2>3, <2>4, <2>5
    <2> QED BY <1>1, <1>2, <1>3, <2>1, <2>2, <2>3, <2>4, <2>5, <2>6, <2>7, WritesOn
  <1> QED BY <1>5, <1>6

LEMMA ConfirmSwapInv ==
  ASSUME X402Inv, NEW w \in Flows, ConfirmSwap(w)
  PROVE  X402Inv'
  <1> DEFINE p == flow[w].pay  h == flow[w].tx
  <1>1. ~At(w, "idle") /\ flow[w].pc = "swapping"
    BY DEF ConfirmSwap, At
  <1>2. /\ flow[w] \in JobType /\ h \in Hashes /\ p \in Payments /\ row[p] \in RowType
        /\ RowFits(p, row[p]) /\ FlowFits(flow[w], row[p])
    BY <1>1, Here DEF JobType
  <1>3. UNCHANGED <<quote, asks, upsets>>
    BY DEF ConfirmSwap
  <1>4. /\ p \in Payable => row[p].under # 0
        /\ row[p].state # "NONE"
        /\ Authorized(p) /\ h \in 1 .. Len(chain)
    BY <1>1, <1>2 DEF FlowFits, Unclaimed, Landed
  <1>5. CASE Ends(w)
    BY <1>5, Typed, EndsInv DEF ConfirmSwap
  <1>6. CASE Is(h, "swap", p, "mined") /\ Goes(w, "crediting")
    <2>1. Swapped(p)
      BY <1>4, <1>6, Typed DEF Swapped
    <2>2. "crediting" \in Labels
      BY DEF Labels
    <2>3. MayGo("crediting", p, h, row[p])
      BY <1>2, <1>4, <2>1 DEF FlowFits, MayGo
    <2> QED BY <1>1, <1>2, <1>6, <2>2, <2>3, Continues DEF ConfirmSwap, Goes
  <1> QED BY <1>5, <1>6 DEF ConfirmSwap

LEMMA CreditInv ==
  ASSUME X402Inv, NEW w \in Flows, Credit(w)
  PROVE  X402Inv'
  <1> DEFINE p == flow[w].pay  h == flow[w].tx
  <1>1. ~At(w, "idle") /\ flow[w].pc = "crediting"
    BY DEF Credit, At
  <1>2. /\ flow[w] \in JobType /\ h \in Hashes /\ p \in Payments /\ row[p] \in RowType
        /\ RowFits(p, row[p]) /\ FlowFits(flow[w], row[p])
    BY <1>1, Here DEF JobType
  <1>3. UNCHANGED <<quote, asks, upsets>>
    BY DEF Credit
  <1>4. /\ p \in Payable => row[p].under # 0
        /\ row[p].state # "NONE"
        /\ Authorized(p) /\ h \in 1 .. Len(chain)
    BY <1>1, <1>2 DEF FlowFits, Unclaimed, Landed
  <1>5. p \in Cross => Swapped(p)
    BY <1>1, <1>2 DEF FlowFits
  <1>6. CASE row[p].ref \notin {0, h} \/ row[p].state = "FAILED"
    BY <1>6, Typed, EndsInv DEF Credit
  <1>7. CASE ~(row[p].ref \notin {0, h} \/ row[p].state = "FAILED")
    <2> DEFINE r == IF row[p].state = "PAYMENT_PENDING"
                    THEN [row[p] EXCEPT !.state = "ASSET_RECEIVED", !.ref = h] ELSE row[p]
    <2> DEFINE pc == "finishing"
    <2>1. row' = [row EXCEPT ![p] = r] /\ Holds(w, pc, h) /\ UNCHANGED chain
      BY <1>7 DEF Credit, Goes
    <2>2. r \in RowType /\ r.state \in Credited /\ r.ref \in {row[p].ref, h}
          /\ r.under = row[p].under
      BY <1>2, <1>4, <1>7 DEF RowType, States, Credited
    <2>3. pc \in Labels /\ pc = "finishing"
      BY DEF Labels
    <2> HIDE DEF r, pc
    <2>4. r.state # "NONE"
      BY <2>2 DEF Credited
    <2>5. RowFits(p, r)
      BY <1>2, <1>4, <1>5, <2>2, <2>4, Typed DEF RowFits
    <2>6. MayGo(pc, p, h, r)
      BY <2>3, <1>2, <1>4, <1>5, <2>2, <2>4 DEF FlowFits, Landed, MayGo
    <2>7. Replaces(p, r)
      BY <1>1, <1>2, <1>3, <2>1, <2>2, <2>3, <2>4, <2>5, <2>6 DEF Replaces
    <2>8. UNCHANGED <<quote, chain, asks, upsets>>
      BY <1>1, <1>2, <1>3, <2>1, <2>2, <2>3, <2>4, <2>5, <2>6
    <2> QED BY <1>1, <1>2, <1>3, <2>1, <2>2, <2>3, <2>4, <2>5, <2>6, <2>7, <2>8, WritesOn
  <1> QED BY <1>6, <1>7

\* A flow whose payment is SUCCESS has nothing more to rely on.
LEMMA ClosingInv ==
  ASSUME X402Inv, NEW w \in Flows, ~At(w, "idle"), flow[w].tx \in Hashes,
         Closing(w, flow[w].pay), UNCHANGED <<quote, chain, asks, upsets>>,
         NEW r, row' = [row EXCEPT ![flow[w].pay] = r],
         Replaces(flow[w].pay, r), r.state # "NONE"
  PROVE  X402Inv'
  <1> DEFINE p == flow[w].pay
  <1>1. CASE Ends(w)
    BY <1>1, WritesLast
  <1>2. CASE Goes(w, "marking")
    <2>1. "marking" \in Labels
      BY DEF Labels
    <2>2. p \in Payments /\ (p \in Payable => r.under # 0)
      BY Here DEF Replaces, RowFits
    <2>3. MayGo("marking", p, flow[w].tx, r)
      BY <2>2 DEF FlowFits, Landed, MayGo
    <2> QED BY <1>2, <2>1, <2>3, WritesOn DEF Goes
  <1> QED BY <1>1, <1>2 DEF Closing

LEMMA FinishInv ==
  ASSUME X402Inv, NEW w \in Flows, Finish(w)
  PROVE  X402Inv'
  <1> DEFINE p == flow[w].pay  h == flow[w].tx
  <1>1. ~At(w, "idle") /\ flow[w].pc = "finishing" /\ UNCHANGED <<quote, chain, asks, upsets>>
    BY DEF Finish, At
  <1>2. /\ flow[w] \in JobType /\ h \in Hashes /\ p \in Payments /\ row[p] \in RowType
        /\ RowFits(p, row[p]) /\ FlowFits(flow[w], row[p])
    BY <1>1, Here DEF JobType
  <1>3. /\ p \in Payable => row[p].under # 0
        /\ row[p].state # "NONE" /\ Authorized(p) /\ (p \in Cross => Swapped(p))
    BY <1>1, <1>2 DEF FlowFits, Unclaimed
  <1>4. CASE row[p].state = "FAILED"
    BY <1>1, <1>4, Typed, EndsInv DEF Finish
  <1>5. CASE row[p].state # "FAILED"
    <2> DEFINE r == [row[p] EXCEPT !.state = "SUCCESS"]
    <2>1. row' = [row EXCEPT ![p] = r] /\ (Closing(w, p) \/ Goes(w, "returning"))
      BY <1>5 DEF Finish
    <2>2. r \in RowType /\ r.state = "SUCCESS" /\ r.ref = row[p].ref /\ r.under = row[p].under
      BY <1>2 DEF RowType, States
    <2> HIDE DEF r
    <2>3. RowFits(p, r) /\ r.state # "NONE"
      BY <1>2, <1>3, <2>2 DEF RowFits
    <2>4. Replaces(p, r)
      BY <2>2, <2>3 DEF Replaces
    <2>5. CASE Closing(w, p)
      BY <1>1, <1>2, <2>1, <2>3, <2>4, <2>5, ClosingInv
    <2>6. CASE Goes(w, "returning")
      <3>1. "returning" \in Labels
        BY DEF Labels
      <3>2. MayGo("returning", p, h, r)
        BY <1>2, <1>3, <2>2 DEF FlowFits, Landed, MayGo
      <3> QED BY <1>1, <1>2, <2>1, <2>4, <2>6, <3>1, <3>2, WritesOn DEF Goes
    <2> QED BY <2>1, <2>5, <2>6
  <1> QED BY <1>4, <1>5

\* A step that fails the payment it works on.
LEMMA StepFailsInv ==
  ASSUME X402Inv, NEW w \in Flows, StepFails(w)
  PROVE  X402Inv'
  <1> DEFINE p == flow[w].pay
             r == [row[p] EXCEPT !.state = "FAILED"]
  <1>1. ~At(w, "idle") /\ flow[w].pc \in {"starting", "crediting", "finishing"}
    BY DEF StepFails, Stepping, At
  <1>2. /\ p \in Payments /\ row[p] \in RowType
        /\ RowFits(p, row[p]) /\ FlowFits(flow[w], row[p])
    BY <1>1, Here
  <1>3. /\ p \in Payable => row[p].under # 0
    BY <1>1, <1>2 DEF FlowFits, Unclaimed
  <1>4. row' = [row EXCEPT ![p] = r] /\ Ends(w) /\ UNCHANGED <<quote, chain, asks>>
    BY DEF StepFails
  <1>5. r \in RowType /\ r.state = "FAILED" /\ r.ref = row[p].ref /\ r.under = row[p].under
    BY <1>2 DEF RowType, States
  <1>6. upsets' \in 0 .. MaxUpsets
    BY Typed, X402Assumption DEF StepFails
  <1> HIDE DEF r
  <1>7. RowFits(p, r)
    BY <1>2, <1>3, <1>5 DEF RowFits, Credited
  <1>8. Replaces(p, r)
    BY <1>5, <1>7 DEF Replaces
  <1>9. flow' = [flow EXCEPT ![w] = NoJob]
    BY <1>4 DEF Ends, Becomes
  <1>10. asks' = asks
    BY <1>4
  <1> QED BY <1>2, <1>4, <1>6, <1>8, <1>9, Rests, Writes

LEMMA ReturnInv ==
  ASSUME X402Inv, NEW w \in Flows, Return(w)
  PROVE  X402Inv'
  <1> DEFINE p == flow[w].pay  h == flow[w].tx
  <1>1. ~At(w, "idle") /\ flow[w].pc = "returning"
    BY DEF Return, At
  <1>2. /\ flow[w] \in JobType /\ h \in Hashes /\ p \in Payments /\ row[p] \in RowType
        /\ RowFits(p, row[p]) /\ FlowFits(flow[w], row[p])
    BY <1>1, Here DEF JobType
  <1>3. UNCHANGED <<quote, asks, upsets>>
    BY DEF Return
  <1>4. /\ p \in Payable => row[p].under # 0
        /\ row[p].state # "NONE"
    BY <1>1, <1>2 DEF FlowFits, Unclaimed
  <1>5. UNCHANGED row
    BY DEF Return
  <1>6. CASE Broadcasts(w, "refund", "booking")
    <2>1. flow[w].pc \notin Unclaimed \cup {"starting"}
      BY <1>1 DEF Unclaimed
    <2> QED BY <1>1, <1>3, <1>5, <1>6, <2>1, Sends
  <1>7. CASE Holds(w, "refunding", row[p].refund) /\ UNCHANGED chain
    <2>1. "refunding" \in Labels /\ row[p].refund \in Hashes
      BY <1>2 DEF Labels, Waiting, RowType
    <2>2. MayGo("refunding", p, row[p].refund, row[p])
      BY <1>2, <1>4 DEF FlowFits, Landed, MayGo
    <2> QED BY <1>1, <1>3, <1>5, <1>7, <2>1, <2>2, Continues
  <1> QED BY <1>6, <1>7 DEF Return

LEMMA RecordReturnInv ==
  ASSUME X402Inv, NEW w \in Flows, RecordReturn(w)
  PROVE  X402Inv'
  <1> DEFINE p == flow[w].pay  h == flow[w].tx
  <1>1. ~At(w, "idle") /\ flow[w].pc = "booking"
    BY DEF RecordReturn, At
  <1>2. /\ flow[w] \in JobType /\ h \in Hashes /\ p \in Payments /\ row[p] \in RowType
        /\ RowFits(p, row[p]) /\ FlowFits(flow[w], row[p])
    BY <1>1, Here DEF JobType
  <1>3. UNCHANGED <<quote, asks, upsets>>
    BY DEF RecordReturn
  <1>4. /\ p \in Payable => row[p].under # 0
        /\ row[p].state # "NONE"
    BY <1>1, <1>2 DEF FlowFits, Unclaimed
  <1>5. CASE row[p].refund = 0
    <2> DEFINE r == [row[p] EXCEPT !.refund = h]
    <2> DEFINE pc == "refunding"
    <2>1. row' = [row EXCEPT ![p] = r] /\ Holds(w, pc, h) /\ UNCHANGED chain
      BY <1>5 DEF RecordReturn, Goes
    <2>2. r \in RowType /\ r.state = row[p].state /\ r.ref = row[p].ref /\ r.under = row[p].under
      BY <1>2 DEF RowType
    <2>3. pc \in Labels /\ pc = "refunding"
      BY DEF Labels, Waiting
    <2> HIDE DEF r, pc
    <2>4. RowFits(p, r)
      BY <1>2, <2>2 DEF RowFits
    <2>5. MayGo(pc, p, h, r)
      BY <2>3, <1>2, <1>4, <2>2 DEF FlowFits, Landed, MayGo
    <2>6. Replaces(p, r)
      BY <1>1, <1>2, <1>3, <2>1, <2>2, <2>3, <2>4, <2>5 DEF Replaces
    <2>7. UNCHANGED <<quote, chain, asks, upsets>>
      BY <1>1, <1>2, <1>3, <2>1, <2>2, <2>3, <2>4, <2>5
    <2> QED BY <1>1, <1>2, <1>3, <2>1, <2>2, <2>3, <2>4, <2>5, <2>6, <2>7, WritesOn
  <1>6. CASE row[p].refund # 0
    <2>1. Closing(w, p) /\ UNCHANGED <<row, chain>>
      BY <1>6 DEF RecordReturn
    <2>2. row' = [row EXCEPT ![p] = row[p]]
      BY <2>1, Typed
    <2>3. Replaces(p, row[p])
      BY <1>2 DEF Replaces
    <2> QED BY <1>1, <1>2, <1>3, <1>4, <2>1, <2>2, <2>3, ClosingInv
  <1> QED BY <1>5, <1>6

LEMMA ConfirmReturnInv ==
  ASSUME X402Inv, NEW w \in Flows, ConfirmReturn(w)
  PROVE  X402Inv'
  <1> DEFINE p == flow[w].pay  h == flow[w].tx
  <1>1. ~At(w, "idle") /\ flow[w].pc = "refunding"
    BY DEF ConfirmReturn, At
  <1>2. /\ flow[w] \in JobType /\ h \in Hashes /\ p \in Payments /\ row[p] \in RowType
        /\ RowFits(p, row[p]) /\ FlowFits(flow[w], row[p])
    BY <1>1, Here DEF JobType
  <1>3. UNCHANGED <<quote, asks, upsets>>
    BY DEF ConfirmReturn
  <1>4. /\ p \in Payable => row[p].under # 0
        /\ row[p].state # "NONE"
    BY <1>1, <1>2 DEF FlowFits, Unclaimed
  <1> DEFINE r == [row[p] EXCEPT !.confirmed = h]
  <1>5. row' = [row EXCEPT ![p] = r] /\ Closing(w, p) /\ UNCHANGED chain
    BY DEF ConfirmReturn
  <1>6. r \in RowType /\ r.state = row[p].state /\ r.ref = row[p].ref /\ r.under = row[p].under
    BY <1>2 DEF RowType
  <1> HIDE DEF r
  <1>7. RowFits(p, r)
    BY <1>2, <1>6 DEF RowFits
  <1>8. Replaces(p, r)
    BY <1>1, <1>2, <1>3, <1>4, <1>5, <1>6, <1>7 DEF Replaces
  <1>9. UNCHANGED <<quote, chain, asks, upsets>>
    BY <1>1, <1>2, <1>3, <1>4, <1>5, <1>6, <1>7
  <1> QED BY <1>1, <1>2, <1>3, <1>4, <1>5, <1>6, <1>7, <1>8, <1>9, ClosingInv

LEMMA ResumeBroadcastInv ==
  ASSUME X402Inv, NEW w \in Flows, ResumeBroadcast(w)
  PROVE  X402Inv'
  <1> DEFINE p == flow[w].pay  h == flow[w].tx
  <1>1. ~At(w, "idle") /\ flow[w].pc = "resuming"
    BY DEF ResumeBroadcast, At
  <1>2. /\ flow[w] \in JobType /\ h \in Hashes /\ p \in Payments /\ row[p] \in RowType
        /\ RowFits(p, row[p]) /\ FlowFits(flow[w], row[p])
    BY <1>1, Here DEF JobType
  <1>3. UNCHANGED <<quote, asks, upsets>>
    BY DEF ResumeBroadcast
  <1>4. /\ p \in Payable => row[p].under # 0
        /\ row[p].state # "NONE"
        /\ Authorized(p) /\ h \in 1 .. Len(chain)
    BY <1>1, <1>2 DEF FlowFits, Unclaimed, Landed
  <1>5. CASE Ends(w)
    BY <1>5, Typed, EndsInv DEF ResumeBroadcast
  <1>6. CASE Goes(w, ResumesFrom(p))
    <2> DEFINE pc == ResumesFrom(p)
    <2>1. pc \in Labels /\ pc \in {"crediting", "swapping", "sending"}
          /\ (pc = "crediting" => p \notin Cross)
      BY DEF ResumesFrom, Labels, Waiting
    <2> HIDE DEF pc
    <2>2. MayGo(pc, p, h, row[p])
      BY <1>2, <1>4, <2>1 DEF FlowFits, MayGo
    <2>3. Holds(w, pc, h) /\ UNCHANGED <<row, quote, chain, asks, upsets>>
      BY <1>6 DEF Goes, ResumeBroadcast, pc
    <2> QED BY <1>1, <1>2, <2>1, <2>2, <2>3, Continues
  <1> QED BY <1>5, <1>6 DEF ResumeBroadcast

LEMMA FailInv ==
  ASSUME X402Inv, NEW w \in Flows, Fail(w)
  PROVE  X402Inv'
  <1> DEFINE p == flow[w].pay  h == flow[w].tx
  <1>1. ~At(w, "idle") /\ flow[w].pc = "failing"
    BY DEF Fail, At
  <1>2. /\ flow[w] \in JobType /\ h \in Hashes /\ p \in Payments /\ row[p] \in RowType
        /\ RowFits(p, row[p]) /\ FlowFits(flow[w], row[p])
    BY <1>1, Here DEF JobType
  <1>3. UNCHANGED <<quote, asks, upsets>>
    BY DEF Fail
  <1>4. /\ p \in Payable => row[p].under # 0
        /\ row[p].state # "NONE"
    BY <1>1, <1>2 DEF FlowFits, Unclaimed
  <1>5. Ends(w) /\ UNCHANGED chain
    BY DEF Fail
  <1>6. CASE UNCHANGED row
    BY <1>3, <1>5, <1>6, Typed, EndsInv
  <1>7. CASE Unchanged(p) /\ row' = [row EXCEPT ![p].state = "FAILED"]
    <2> DEFINE r == [row[p] EXCEPT !.state = "FAILED"]
    <2>1. r \in RowType /\ r.state = "FAILED" /\ r.ref = row[p].ref /\ r.under = row[p].under
      BY <1>2 DEF RowType, States
    <2>2. row' = [row EXCEPT ![p] = r]
      BY <1>7
    <2> HIDE DEF r
    <2>3. RowFits(p, r)
      BY <1>2, <1>4, <2>1 DEF RowFits, Credited
    <2>4. row[p].state \notin Credited /\ r.state # "NONE"
      BY <1>7, <2>1 DEF Unchanged, Credited
    <2>5. Replaces(p, r)
      BY <1>1, <1>2, <1>3, <1>5, <2>1, <2>2, <2>3, <2>4 DEF Replaces
    <2>6. UNCHANGED <<quote, chain, asks, upsets>>
      BY <1>1, <1>2, <1>3, <1>5, <2>1, <2>2, <2>3, <2>4
    <2> QED BY <1>1, <1>2, <1>3, <1>5, <2>1, <2>2, <2>3, <2>4, <2>5, <2>6, WritesLast
  <1> QED BY <1>6, <1>7 DEF Fail
\* The quote changes and the rows and the chain stay.
LEMMA QuoteMoves ==
  ASSUME X402Inv, NEW new \in QuoteType, quote' = new, UNCHANGED <<row, chain, asks, upsets>>,
         flow' = flow \/ \E w \in Flows : Ends(w),
         \/ new.epoch = quote.epoch /\ new.nonce = quote.nonce
         \/ new.epoch = quote.epoch + 1
  PROVE  X402Inv'
  <1>1. flow' \in [Flows -> JobType] /\ \A v \in Flows : flow'[v] = flow[v] \/ flow'[v] = NoJob
    <2>1. CASE flow' = flow
      BY <2>1, Typed
    <2>2. ASSUME NEW w \in Flows, Ends(w)
          PROVE  flow' \in [Flows -> JobType] /\ \A v \in Flows : flow'[v] = flow[v] \/ flow'[v] = NoJob
      BY <2>2, Typed, Rests DEF Ends, Becomes
    <2> QED BY <2>1, <2>2
  <1>2. X402TypeOK'
    BY <1>1, Typed DEF X402TypeOK
  <1>3. ChainGrows /\ RowsGrow
    BY Typed DEF ChainGrows, RowsGrow
  <1>4. ClaimsFit'
    <2>1. quote.epoch \in Nat /\ \A p \in Payments : row[p].under \in Nat
      BY Typed DEF QuoteType, RowType
    <2>2. ClaimsFit
      BY DEF X402Inv
    <2>3. CASE new.epoch = quote.epoch /\ new.nonce = quote.nonce
      BY <2>2, <2>3 DEF ClaimsFit
    <2>4. CASE new.epoch = quote.epoch + 1
      BY <2>1, <2>2, <2>4 DEF ClaimsFit
    <2> QED BY <2>3, <2>4
  <1>5. \A v \in Flows : flow'[v] = flow[v] \/ FlowFitsNext(flow'[v], row'[flow'[v].pay])
    BY <1>1, Rests
  <1>6. \A h \in 1 .. Len(chain') : h <= Len(chain)
    BY Typed
  <1> QED BY <1>2, <1>3, <1>4, <1>5, <1>6, Frame

LEMMA MarkSettledInv ==
  ASSUME X402Inv, NEW w \in Flows, MarkSettled(w)
  PROVE  X402Inv'
  <1> DEFINE new == [quote EXCEPT !.status = "settled"]
  <1>1. new \in QuoteType /\ new.epoch = quote.epoch /\ new.nonce = quote.nonce
    BY Typed DEF QuoteType
  <1>2. quote' = new /\ Ends(w) /\ UNCHANGED <<row, chain, asks, upsets>>
    BY DEF MarkSettled
  <1> HIDE DEF new
  <1> QED BY <1>1, <1>2, QuoteMoves

LEMMA QuoteInv ==
  ASSUME X402Inv, Quote \/ ExpireQuote
  PROVE  X402Inv'
  <1>1. quote \in QuoteType
    BY Typed
  <1>2. CASE Quote
    <2>1. PICK offered \in BOOLEAN :
            quote' = [status |-> "quoted", nonce |-> Nobody, live |-> TRUE,
                      offered |-> offered, epoch |-> quote.epoch + 1]
      BY <1>2 DEF Quote
    <2>2. quote.epoch + 1 \in 1 .. MaxQuotes
      BY <1>1, <1>2, X402Assumption DEF Quote, QuoteType
    <2>3. quote' \in QuoteType /\ quote'.epoch = quote.epoch + 1
      BY <2>1, <2>2 DEF QuoteType
    <2> QED BY <1>2, <2>3, QuoteMoves DEF Quote
  <1>3. CASE ExpireQuote
    <2>1. quote' \in QuoteType /\ quote'.epoch = quote.epoch /\ quote'.nonce = quote.nonce
      BY <1>1, <1>3 DEF ExpireQuote, QuoteType
    <2> QED BY <1>3, <2>1, QuoteMoves DEF ExpireQuote
  <1> QED BY <1>2, <1>3

LEMMA PassInv ==
  ASSUME X402Inv, NEW w \in Flows, NEW p \in Payments, PassStarts(w, p)
  PROVE  X402Inv'
  <1>1. row[p] \in RowType /\ RowFits(p, row[p]) /\ Len(chain) \in Nat
    BY Typed DEF X402Inv
  <1>2. UNCHANGED <<row, quote, chain, asks, upsets>>
    BY DEF PassStarts, Recover, RecoverReturn, Sweep, ResumeStuck
  <1>3. ASSUME NEW pc \in Labels, NEW h \in Hashes, Becomes(w, Job(pc, p, h, FALSE)),
               MayGo(pc, p, h, row[p])
        PROVE  X402Inv'
    <2> DEFINE f == Job(pc, p, h, FALSE)
    <2>1. f \in JobType /\ f.pc = pc /\ f.pay = p /\ f.tx = h
      BY DEF Job, JobType
    <2>2. flow' = [flow EXCEPT ![w] = f]
      BY <1>3 DEF Becomes
    <2> HIDE DEF f
    <2>3. FlowFits(f, row[f.pay])
      BY <1>3, <2>1 DEF MayGo
    <2>4. asks' \in 0 .. MaxAsks /\ upsets' \in 0 .. MaxUpsets
      BY <1>2, Typed
    <2> QED BY <1>2, <2>1, <2>2, <2>3, <2>4, FlowMoves
  <1>4. 0 \in Hashes
    BY X402Assumption DEF Hashes
  <1>5. ASSUME NEW pc \in {"returning", "failing", "finishing"},
               Becomes(w, Job(pc, p, 0, FALSE)), row[p].state # "NONE",
               pc = "finishing" => Authorized(p) /\ (p \in Cross => Swapped(p))
        PROVE  X402Inv'
    <2>1. pc \in Labels
      BY DEF Labels
    <2>2. p \in Payable => row[p].under # 0
      BY <1>1, <1>5 DEF RowFits
    <2>3. MayGo(pc, p, 0, row[p])
      BY <1>5, <2>2 DEF MayGo, FlowFits, Landed
    <2> QED BY <1>3, <1>4, <1>5, <2>1, <2>3
  <1>6. CASE Recover(w, p)
    <2>1. row[p].state = "PAYMENT_PENDING" /\ row[p].ref # 0
          /\ Becomes(w, Job("resuming", p, row[p].ref, FALSE))
      BY <1>6 DEF Recover, Interrupted
    <2>2. /\ row[p].ref \in 1 .. Len(chain) /\ Authorized(p)
          /\ p \in Payable => row[p].under # 0
      BY <1>1, <2>1 DEF RowFits
    <2>3. MayGo("resuming", p, row[p].ref, row[p])
      BY <2>1, <2>2 DEF MayGo, FlowFits
    <2>4. "resuming" \in Labels /\ row[p].ref \in Hashes
      BY <1>1 DEF Labels, RowType
    <2> QED BY <1>3, <2>1, <2>3, <2>4
  <1>7. CASE RecoverReturn(w, p)
    BY <1>5, <1>7 DEF RecoverReturn
  <1>8. CASE Sweep(w, p)
    BY <1>5, <1>8 DEF Sweep
  <1>9. CASE ResumeStuck(w, p)
    <2>1. Authorized(p) /\ (p \in Cross => Swapped(p))
      BY <1>1, <1>9 DEF ResumeStuck, RowFits, Credited
    <2> QED BY <1>5, <1>9, <2>1 DEF ResumeStuck
  <1> QED BY <1>6, <1>7, <1>8, <1>9 DEF PassStarts

\* A transaction's status changes from sent.
LEMMA MineInv ==
  ASSUME X402Inv, NEW h \in DOMAIN chain, Mine(h) \/ RevertSwap(h)
  PROVE  X402Inv'
  <1>1. chain \in Seq(Txs) /\ h \in 1 .. Len(chain) /\ Len(chain) \in Nat
    BY Typed
  <1>2. chain[h] \in Txs
    BY <1>1
  <1>3. PICK s \in {"mined", "reverted"} : chain' = [chain EXCEPT ![h].status = s]
    BY DEF Mine, RevertSwap, IsMined
  <1>4. chain[h].status = "sent" /\ UNCHANGED <<row, quote, flow>>
    BY DEF Mine, RevertSwap
  <1>5. asks' \in 0 .. MaxAsks /\ upsets' \in 0 .. MaxUpsets
    BY Typed, X402Assumption DEF Mine, RevertSwap
  <1> DEFINE t == [chain[h] EXCEPT !.status = s]
  <1>6. t \in Txs /\ t.kind = chain[h].kind /\ t.pay = chain[h].pay
    BY <1>2 DEF Txs, Statuses
  <1>7. chain' = [chain EXCEPT ![h] = t]
    BY <1>3
  <1> HIDE DEF t
  <1>8. /\ chain' \in Seq(Txs) /\ Len(chain') = Len(chain)
        /\ \A k \in 1 .. Len(chain) : chain'[k] = IF k = h THEN t ELSE chain[k]
    BY <1>1, <1>6, <1>7, ExceptSeq
  <1>9. ChainGrows
    BY <1>1, <1>4, <1>6, <1>8 DEF ChainGrows
  <1>10. RowsGrow
    BY <1>4 DEF RowsGrow
  <1>11. ClaimsFit'
    BY <1>4 DEF X402Inv, ClaimsFit
  <1>12. X402TypeOK'
    BY <1>4, <1>5, <1>8, Typed DEF X402TypeOK
  <1>13. \A k \in 1 .. Len(chain') : k <= Len(chain)
    BY <1>1, <1>8
  <1> QED BY <1>4, <1>9, <1>10, <1>11, <1>12, <1>13, Frame

LEMMA ProceedInv ==
  ASSUME X402Inv, NEW w \in Flows, Proceed(w)
  PROVE  X402Inv'
  BY ClaimInv, StartInv, PayInv, AnswerInv, RecordBroadcastInv, SendSwapInv, RecordSwapInv,
     ConfirmSwapInv, CreditInv, FinishInv, ReturnInv, RecordReturnInv, ConfirmReturnInv,
     MarkSettledInv, ResumeBroadcastInv, FailInv
     DEF Proceed

LEMMA NextInv == X402Inv /\ [Next]_vars => X402Inv'
  <1> SUFFICES ASSUME X402Inv, [Next]_vars PROVE X402Inv'
    OBVIOUS
  <1>1. ASSUME NEW w \in Requests, NEW p \in Payments, Ask(w, p) PROVE X402Inv'
    BY <1>1, AskInv DEF Flows
  <1>2. ASSUME NEW w \in Passes, NEW p \in Payments, PassStarts(w, p) PROVE X402Inv'
    BY <1>2, PassInv DEF Flows
  <1>3. ASSUME NEW w \in Flows, Upset(w) PROVE X402Inv'
    <2>1. asks' \in 0 .. MaxAsks /\ upsets' \in 0 .. MaxUpsets
      BY <1>3, Typed, X402Assumption DEF Upset
    <2> QED BY <1>3, <2>1, EndsInv DEF Upset
  <1>4. ASSUME NEW w \in Flows, StepFails(w) PROVE X402Inv'
    BY <1>4, StepFailsInv
  <1>5. CASE UNCHANGED vars
    <2>1. quote' = quote /\ quote \in QuoteType /\ flow' = flow
      BY <1>5, Typed DEF vars
    <2> QED BY <1>5, <2>1, QuoteMoves DEF vars
  <1> QED BY <1>1, <1>2, <1>3, <1>4, <1>5, ProceedInv, MineInv, QuoteInv DEF Next

(***************************************************************************)
(* What a step does to a payment whose broadcast is on record              *)
(***************************************************************************)
LEMMA OnlyPostingFails ==
  ASSUME X402Inv, [Next]_vars, NEW p \in Payments,
         row[p].ref # 0, row[p].state # "FAILED", row'[p].state = "FAILED"
  PROVE  \E w \in Flows : flow[w].pay = p /\ flow[w].pc \in {"crediting", "finishing"}
                          /\ flow'[w] = NoJob
  <1>1. row \in [Payments -> RowType] /\ row[p] \in RowType
    BY Typed
  <1> DEFINE Safe == row'[p].state # "FAILED"
  <1>2. ASSUME NEW q, NEW r, row' = [row EXCEPT ![q] = r],
               r.state # "FAILED" \/ q # p
        PROVE  Safe
    BY <1>1, <1>2
  <1>3. ASSUME UNCHANGED row PROVE Safe
    BY <1>3
  <1>4. ASSUME NEW w \in Flows, Fail(w) PROVE Safe
    <2>1. CASE flow[w].pay = p
      BY <1>3, <1>4, <2>1 DEF Fail, Unchanged
    <2>2. CASE flow[w].pay # p
      BY <1>1, <1>4, <2>2 DEF Fail
    <2> QED BY <2>1, <2>2
  <1>5. ASSUME NEW w \in Flows, Credit(w) PROVE Safe
    <2>1. CASE flow[w].pay = p
      BY <1>1, <1>3, <1>5, <2>1 DEF Credit, RowType
    <2>2. CASE flow[w].pay # p
      BY <1>1, <1>3, <1>5, <2>2 DEF Credit
    <2> QED BY <2>1, <2>2
  <1>6. ASSUME NEW w \in Flows, Start(w) \/ Finish(w) PROVE Safe
    <2>1. \A q : row' = [row EXCEPT ![q].state = "SUCCESS"] => Safe
      BY <1>1 DEF RowType
    <2>2. \A q : row' = [row EXCEPT ![q].state = "PAYMENT_PENDING"] => Safe
      BY <1>1 DEF RowType
    <2> QED BY <1>3, <1>6, <2>1, <2>2 DEF Start, Finish
  <1>7. ASSUME NEW w \in Flows, Claim(w) PROVE Safe
    <2>1. \A q, n : row' = [row EXCEPT ![q].under = n] => Safe
      BY <1>1 DEF RowType
    <2> QED BY <1>3, <1>7, <2>1 DEF Claim
  <1>8. ASSUME NEW w \in Flows, RecordBroadcast(w) PROVE Safe
    <2>1. \A q, n : row' = [row EXCEPT ![q].ref = n] => Safe
      BY <1>1 DEF RowType
    <2> QED BY <1>3, <1>8, <2>1 DEF RecordBroadcast
  <1>9. ASSUME NEW w \in Flows, RecordSwap(w) PROVE Safe
    <2>1. \A q, n : row' = [row EXCEPT ![q] = [@ EXCEPT !.ref = n, !.swapped = TRUE]] => Safe
      BY <1>1 DEF RowType
    <2> QED BY <1>3, <1>9, <2>1 DEF RecordSwap
  <1>10. ASSUME NEW w \in Flows, RecordReturn(w) PROVE Safe
    <2>1. \A q, n : row' = [row EXCEPT ![q].refund = n] => Safe
      BY <1>1 DEF RowType
    <2> QED BY <1>3, <1>10, <2>1 DEF RecordReturn
  <1>11. ASSUME NEW w \in Flows, ConfirmReturn(w) PROVE Safe
    <2>1. \A q, n : row' = [row EXCEPT ![q].confirmed = n] => Safe
      BY <1>1 DEF RowType
    <2> QED BY <1>11, <2>1 DEF ConfirmReturn
  <1>12. ASSUME NEW w \in Flows, Proceed(w) PROVE Safe
    <2>1. ASSUME Pay(w) \/ Answer(w) \/ SendSwap(w) \/ ConfirmSwap(w) \/ Return(w)
                 \/ MarkSettled(w) \/ ResumeBroadcast(w)
          PROVE  UNCHANGED row
      BY <2>1 DEF Pay, Answer, SendSwap, ConfirmSwap, Return, MarkSettled, ResumeBroadcast
    <2> HIDE DEF Safe
    <2> QED BY <1>3, <1>4, <1>5, <1>6, <1>7, <1>8, <1>9, <1>10, <1>11, <1>12, <2>1 DEF Proceed
  <1>13. ASSUME NEW w \in Flows, NEW q \in Payments,
                Ask(w, q) \/ PassStarts(w, q) \/ Upset(w)
         PROVE  UNCHANGED row
    BY <1>13 DEF Ask, PassStarts, Recover, RecoverReturn, Sweep, ResumeStuck, Upset
  <1>14. ASSUME NEW h \in DOMAIN chain, Mine(h) \/ RevertSwap(h)
         PROVE  UNCHANGED row
    BY <1>14 DEF Mine, RevertSwap
  <1>15. Quote \/ ExpireQuote \/ UNCHANGED vars => UNCHANGED row
    BY DEF Quote, ExpireQuote, vars
  <1>16. ASSUME NEW w \in Flows, StepFails(w)
         PROVE  \/ Safe
                \/ /\ flow[w].pay = p /\ flow[w].pc \in {"crediting", "finishing"}
                   /\ flow'[w] = NoJob
    <2>1. CASE flow[w].pay # p
      BY <1>1, <1>16, <2>1 DEF StepFails
    <2>2. CASE flow[w].pay = p
      <3>1. RowFits(p, row[p]) /\ FlowFits(flow[w], row[p])
        BY <2>2 DEF X402Inv
      <3>2. row[p].state # "NONE"
        BY <3>1 DEF RowFits
      <3>3. flow'[w] = NoJob /\ flow[w].pc \in {"crediting", "finishing"}
        BY <1>16, <2>2, <3>2, Typed DEF StepFails, Stepping, At, Ends, Becomes
      <3> QED BY <2>2, <3>3
    <2> QED BY <2>1, <2>2
  <1> HIDE DEF Safe
  <1>17. Safe \/ \E w \in Flows : StepFails(w)
    BY <1>3, <1>12, <1>13, <1>14, <1>15 DEF Next, Flows
  <1> QED BY <1>16, <1>17 DEF Safe

(***************************************************************************)
(* The theorems                                                            *)
(***************************************************************************)

\* The inductive invariant holds: what a row and a flow of the x402 service
\* say has happened on the chain has happened there, and no quote was claimed
\* by two authorizations.
THEOREM X402InvHolds == Spec => []X402Inv
  <1>1. Init => X402Inv
    BY InitInv
  <1>2. X402Inv /\ [Next]_vars => X402Inv'
    BY NextInv
  <1> QED BY <1>1, <1>2, PTL DEF Spec

\* A merchant is credited only for an authorization that is mined, on a
\* cross-asset payment only for a swap that is mined, and the operator swaps
\* for nobody who has not paid.
THEOREM CreditIsBacked == Spec => []CreditedFromChain
  <1>1. X402Inv => CreditedFromChain
    <2> SUFFICES ASSUME X402Inv PROVE CreditedFromChain
      OBVIOUS
    <2>1. \A p \in Payments : RowFits(p, row[p])
      BY DEF X402Inv
    <2>2. \A h \in DOMAIN chain : chain[h].kind = "swap" => Authorized(chain[h].pay)
      BY Typed DEF X402Inv, TxFits
    <2>3. X402TypeOK
      BY DEF X402Inv
    <2> QED BY <2>1, <2>2, <2>3 DEF CreditedFromChain, RowFits, Credited, Swapped
  <1> QED BY <1>1, X402InvHolds, PTL

\* Of two authorizations that claimed one quote of an obligation, at most one
\* moves money.
THEOREM QuotePaidOnce == Spec => []OnePayerPerQuote
  <1>1. X402Inv => OnePayerPerQuote
    <2> SUFFICES ASSUME X402Inv, NEW p \in Payable, NEW q \in Payable,
                        Authorized(p), Authorized(q), row[p].under = row[q].under
                 PROVE  p = q
      BY DEF OnePayerPerQuote
    <2>1. PICK h \in DOMAIN chain :
            chain[h] = [kind |-> "authorization", pay |-> p, status |-> "mined"]
      BY DEF Authorized, Is
    <2>2. row[p].under # 0
      BY <2>1, Typed DEF X402Inv, TxFits
    <2>3. p \in Payments /\ q \in Payments
      BY X402Assumption
    <2> QED BY <2>2, <2>3 DEF X402Inv, ClaimsFit
  <1> QED BY <1>1, X402InvHolds, PTL

\* A payment whose broadcast is on record is failed by no step but the engine's
\* own posting of its receipt: the expiry sweep compares what it read when it
\* listed the payment with the row when it writes.
THEOREM RecordedStays == Spec => RecordedIsNotFailed
  <1>1. X402Inv /\ [Next]_vars =>
          [\A p \in Payments :
              row[p].ref # 0 /\ row[p].state # "FAILED" /\ row'[p].state = "FAILED" =>
                  \E w \in Flows :
                      flow[w].pay = p /\ flow[w].pc \in {"crediting", "finishing"}
                      /\ flow'[w] = NoJob]_vars
    BY OnlyPostingFails
  <1> QED BY <1>1, X402InvHolds, PTL DEF Spec, RecordedIsNotFailed
=============================================================================
