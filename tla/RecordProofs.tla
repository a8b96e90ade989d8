---------------------------- MODULE RecordProofs ----------------------------
(***************************************************************************)
(* Proofs that the books, the record and the money of a payment agree, for *)
(* every set of payments, flows and processes and every value of the times *)
(* and bounds.                                                             *)
(***************************************************************************)
EXTENDS RecordInvariant, ClearingProofs, FiniteSetTheorems

Recorded == \A p \in Payments : Record(p)
AllBacked == \A i \in Tx : Backed(i)
AllKnow == \A w \in Workers : Knows(flow[w])

LEMMA RecordSplit ==
  /\ RecordInv <=> TInv /\ Recorded /\ AllBacked /\ AllKnow
  /\ RecordInv' <=> TInv' /\ Recorded' /\ AllBacked' /\ AllKnow'
  BY DEF RecordInv, Recorded, AllBacked, AllKnow

LEMMA Fitting ==
  ASSUME RecordInv
  PROVE  /\ Fits /\ FlowsFit /\ DataFits /\ ChainFits
         /\ flow \in [Workers -> FlowType]
  BY TypesSplit DEF RecordInv, Fits, FlowsFit

(***************************************************************************)
(* What only ever becomes truer                                            *)
(***************************************************************************)

\* The money, the books and the operator's transactions of payment p.
Gains(p) ==
    /\ deposit[p] # "none" => deposit'[p] # "none"
    /\ deposit[p] = "swept" => deposit'[p] = "swept"
    /\ consumed[p] => consumed'[p]
    /\ payout[p] = "SUCCEEDED" => payout'[p] = "SUCCEEDED"
    /\ ledger[p] \subseteq ledger'[p]
    /\ intent[p] = "COMPLETED" => intent'[p] = "COMPLETED"

\* Its row moves one version at a time and stays settled.
Advances(p) ==
    /\ row'[p] = row[p] \/ row'[p].version = row[p].version + 1
    /\ row[p].state \in Settled => row'[p].state \in Settled

\* A transaction stays what it is, and a success stays one.
Lasts(i) ==
    /\ optx[i].kind # "none" => optx'[i].kind = optx[i].kind /\ optx'[i].p = optx[i].p
    /\ optx[i].status = "success" => optx'[i].status = "success"

Grows ==
    /\ path' = path
    /\ \A p \in Payments : Gains(p) /\ Advances(p)
    /\ \A i \in Tx : Lasts(i)

LEMMA SaysStays ==
  ASSUME Grows, NEW p \in Payments, NEW s, Says(p, s)
  PROVE  Says(p, s)'
<1>1. path'[p] = path[p] /\ Gains(p)
  BY DEF Grows
<1> QED
  BY <1>1 DEF Says, Gains, Funded, Booked, Paid

LEMMA ReturnedStays ==
  ASSUME Grows, NEW p \in Payments, Returned(p)
  PROVE  Returned(p)'
<1>1. PICK i \in Tx : optx[i].kind = "return" /\ optx[i].p = p /\ optx[i].status = "success"
  BY DEF Returned, ReturnTxs
<1>2. optx'[i].kind = "return" /\ optx'[i].p = p /\ optx'[i].status = "success"
  BY <1>1 DEF Grows, Lasts
<1> QED
  BY <1>2 DEF Returned, ReturnTxs

LEMMA TxStays ==
  ASSUME Grows, NEW p, NEW i
  PROVE  /\ IsOrder(i, p) => IsOrder(i, p)'
         /\ IsReturn(i, p) => IsReturn(i, p)'
  BY DEF Grows, Lasts, IsOrder, IsReturn

LEMMA FundedStays ==
  ASSUME Grows, NEW p \in Payments
  PROVE  /\ Funded(p) => Funded(p)'
         /\ Paid(p) => Paid(p)'
         /\ \A key : Booked(p, key) => Booked(p, key)'
  BY DEF Grows, Gains, Funded, Paid, Booked

LEMMA StandingStays ==
  ASSUME Grows, NEW p \in Payments, Standing(p), row'[p] = row[p], log'[p] = log[p],
         intent'[p] = "COMPLETED" => intent[p] = "COMPLETED"
  PROVE  Standing(p)'
<1>1. Says(p, row[p].state)'
  <2>1. PICK s : s = row[p].state
    OBVIOUS
  <2>2. Says(p, s)' /\ row'[p].state = s
    BY <2>1, SaysStays DEF Standing
  <2> QED
    BY <2>2 DEF Says
<1> QED
  BY <1>1, FundedStays DEF Standing

LEMMA BooksStay ==
  ASSUME Grows, NEW p \in Payments, Books(p), ledger'[p] = ledger[p]
  PROVE  Books(p)'
<1>1. path'[p] = path[p]
  BY DEF Grows
<1> QED
  BY <1>1, FundedStays, ReturnedStays DEF Books, Booked

\* A flow that did not move.
LEMMA StillKnows ==
  ASSUME Grows, DataFits, NEW v \in Workers, flow'[v] = flow[v],
         flow[v] \in FlowType, flow[v].pc # "idle" => flow[v].job \in Payments,
         Knows(flow[v])
  PROVE  Knows(flow[v])'
<1> DEFINE f == flow[v]
<1> SUFFICES ASSUME f.pc # "idle" PROVE (Matches(f) /\ Remembers(f) /\ HasDone(f))'
  BY DEF Knows
<1>1. PICK p \in Payments : p = f.job
  BY DEF FlowType
<1>2. Gains(p) /\ Advances(p) /\ path'[p] = path[p]
  BY DEF Grows
<1>3. row[p].version \in Nat /\ f.cur.version \in Nat
  BY DEF DataFits, FlowType, RowType
<1>4. Matches(f)'
  BY <1>1, <1>2, <1>3 DEF Knows, Matches, Advances
<1>5. Remembers(f)'
  <2>1. PICK s : s = f.cur.state
    OBVIOUS
  <2>2. Says(p, s)'
    BY <1>1, <2>1, SaysStays DEF Knows, Remembers
  <2>3. Says(f.job, f.cur.state)'
    BY <1>1, <2>1, <2>2 DEF Says, Funded, Booked, Paid
  <2> QED
    BY <1>1, <1>2, <2>3 DEF Knows, Remembers, Advances, Gains, Funded
<1>6. HasDone(f)'
  <2>1. f.pc = "persist" => Says(f.job, NextState(f.cur.state))'
    <3>1. PICK s : s = NextState(f.cur.state)
      OBVIOUS
    <3>2. f.pc = "persist" => Says(p, s)'
      BY <1>1, <3>1, SaysStays DEF Knows, HasDone
    <3> QED
      BY <1>1, <3>1, <3>2 DEF Says, Funded, Booked, Paid
  <2>2. f.pc = "ordering" => IsOrder(f.tx, f.job)'
    BY <1>1, TxStays DEF Knows, HasDone, IsOrder
  <2>3. f.pc \in {"retRecord", "retReceipt"} => IsReturn(f.tx, f.job)'
    BY <1>1, TxStays DEF Knows, HasDone, IsReturn
  <2> QED
    BY <1>1, <1>2, <2>1, <2>2, <2>3
       DEF Knows, HasDone, Gains, Funded, Booked
<1> QED
  BY <1>4, <1>5, <1>6

LEMMA HoldingStays ==
  ASSUME Grows, NEW p \in Payments, Holding(p), deposit'[p] = deposit[p],
         consumed'[p] = consumed[p], returnRef'[p] = returnRef[p]
  PROVE  Holding(p)'
<1>1. path'[p] = path[p]
  BY DEF Grows
<1> QED
  BY <1>1, TxStays DEF Holding

LEMMA BackedStays ==
  ASSUME Grows, NEW i \in Tx, Backed(i), optx'[i] = optx[i], sent <= sent',
         mined <= mined', sent \in Nat, sent' \in Nat, mined \in Nat, mined' \in Nat,
         i > sent' => i > sent, i <= sent' => i <= sent
  PROVE  Backed(i)'
<1>1. i \in Nat
  BY DEF Tx
<1>2. optx[i].kind # "none" => optx[i].p \in Payments /\ Gains(optx[i].p)
  BY DEF Grows, Backed
<1> QED
  BY <1>1, <1>2 DEF Backed, Gains, NoTx

\* A step is safe once it only adds to the world, and what it changes is right.
LEMMA StepAgrees ==
  ASSUME RecordInv, TInv', Grows, Recorded', AllBacked',
         \A v \in Workers : flow'[v] = flow[v] \/ Knows(flow[v])'
  PROVE  RecordInv'
<1>1. DataFits /\ flow \in [Workers -> FlowType] /\ FlowsFit
  BY Fitting
<1>2. ASSUME NEW v \in Workers, flow'[v] = flow[v] PROVE Knows(flow[v])'
  <2>1. flow[v].pc # "idle" => flow[v].job \in Payments
    BY <1>1, NotIdle DEF Job
  <2>2. Knows(flow[v]) /\ flow[v] \in FlowType
    BY <1>1 DEF RecordInv
  <2> QED
    BY <1>1, <1>2, <2>1, <2>2, StillKnows
<1>3. AllKnow'
  BY <1>2 DEF AllKnow
<1> QED
  BY <1>3, RecordSplit

\* The step of one flow.
LEMMA MoveAgrees ==
  ASSUME RecordInv, TInv', Grows, Recorded', AllBacked',
         NEW w \in Workers, OnlyMoves(w), Knows(flow[w])'
  PROVE  RecordInv'
BY StepAgrees DEF OnlyMoves

LEMMA RecordedStays ==
  ASSUME RecordInv, Grows, UNCHANGED <<row, log, ledger, returnRef, deposit, consumed>>,
         \A p \in Payments : intent'[p] = "COMPLETED" => intent[p] = "COMPLETED"
  PROVE  Recorded'
<1> SUFFICES ASSUME NEW p \in Payments PROVE Record(p)'
  BY DEF Recorded
<1>1. Standing(p) /\ Books(p) /\ Holding(p)
  BY DEF RecordInv, Record
<1> QED
  BY <1>1, StandingStays, BooksStay, HoldingStays DEF Record

LEMMA AllBackedStays ==
  ASSUME RecordInv, Grows, UNCHANGED <<optx, sent, mined>>
  PROVE  AllBacked'
<1>1. sent \in Nat /\ mined \in Nat
  BY Fitting, ConstantsAssumption DEF ChainFits
<1> SUFFICES ASSUME NEW i \in Tx PROVE Backed(i)'
  BY DEF AllBacked
<1> QED
  BY <1>1, BackedStays DEF RecordInv

facts == <<path, row, log, returnRef, ledger, intent, deposit, consumed, optx, sent,
           mined, payout>>

LEMMA NothingGrows ==
  ASSUME RecordInv, UNCHANGED facts
  PROVE  Grows /\ Recorded' /\ AllBacked'
<1>1. Grows
  BY DEF facts, Grows, Gains, Advances, Lasts
<1> QED
  BY <1>1, RecordedStays, AllBackedStays DEF facts

(***************************************************************************)
(* What the flow that takes the step knows afterwards                      *)
(***************************************************************************)
SigFades(w) == flow'[w].sig => flow[w].sig

PlainPcs == {"idle", "insert", "mark", "enter", "step", "fail", "failIntent",
             "readEvents", "retConfirm", "reopenIntent"}

LEMMA PlainHasDone ==
  ASSUME NEW w \in Workers, flow'[w].pc \in PlainPcs
  PROVE  HasDone(flow[w])'
  BY DEF PlainPcs, HasDone, SweptPcs

LEMMA EndedKnowsNothing ==
  ASSUME NEW w \in Workers, flow'[w] = Idle
  PROVE  Knows(flow[w])'
  BY DEF Knows, Idle, FlowAt

\* It holds the row it held.
LEMMA CarriesKnows ==
  ASSUME RecordInv, Grows, NEW w \in Workers, flow[w].pc # "idle",
         flow'[w].job = flow[w].job, flow'[w].cur = flow[w].cur, SigFades(w),
         HasDone(flow[w])'
  PROVE  Knows(flow[w])'
<1>1. PICK p \in Payments : p = flow[w].job
  BY Fitting, NotIdle DEF Job
<1>2. Matches(flow[w]) /\ Remembers(flow[w]) /\ flow[w] \in FlowType
  BY Fitting DEF RecordInv, Knows
<1>3. Gains(p) /\ Advances(p) /\ path'[p] = path[p]
  BY DEF Grows
<1>4. row[p].version \in Nat /\ flow[w].cur.version \in Nat
  BY <1>2, Fitting DEF DataFits, FlowType, RowType
<1>5. Matches(flow[w])'
  BY <1>1, <1>2, <1>3, <1>4 DEF Matches, Advances
<1>6. Remembers(flow[w])'
  <2>1. PICK s : s = flow[w].cur.state
    OBVIOUS
  <2>2. Says(p, s)'
    BY <1>1, <1>2, <2>1, SaysStays DEF Remembers
  <2>3. Says(flow[w].job, flow[w].cur.state)'
    BY <1>1, <2>1, <2>2 DEF Says, Funded, Booked, Paid
  <2> QED
    BY <1>1, <1>2, <1>3, <2>3 DEF Remembers, Advances, Gains, Funded, SigFades
<1> QED
  BY <1>5, <1>6 DEF Knows

LEMMA GotoFades ==
  ASSUME flow \in [Workers -> FlowType], NEW w \in Workers, NEW l \in Labels,
         Goto(w, l)
  PROVE  SigFades(w)
  BY DEF Goto, SigFades, FlowType

LEMMA StopFades ==
  ASSUME flow \in [Workers -> FlowType], NEW w \in Workers,
         Stop(w) \/ Throws(w) \/ TryAgain(w)
  PROVE  SigFades(w)
<1>1. CASE flow' = [flow EXCEPT ![w] = Idle]
  BY <1>1 DEF SigFades, Idle, FlowAt
<1>2. CASE flow' # [flow EXCEPT ![w] = Idle]
  BY <1>2 DEF Stop, Throws, TryAgain, SigFades, FlowType
<1> QED
  BY <1>1, <1>2

\* What a flow knows before its step.
LEMMA KnowsNow ==
  ASSUME RecordInv, NEW w \in Workers, flow[w].pc # "idle"
  PROVE  /\ Matches(flow[w]) /\ Remembers(flow[w]) /\ HasDone(flow[w])
         /\ Stage(flow[w]) /\ flow[w].job \in Payments /\ Record(flow[w].job)
         /\ flow[w].cur \in RowType /\ row[flow[w].job] \in RowType
         /\ flow[w] \in FlowType
  BY Fitting, NotIdle DEF RecordInv, Knows, Job, Cur, DataFits

\* It goes on, ends or fails, and stores nothing.
LEMMA LocalAgrees ==
  ASSUME RecordInv, TInv', UNCHANGED facts, NEW w \in Workers, flow[w].pc # "idle",
         OnlyMoves(w), SigFades(w),
         flow'[w].job = flow[w].job /\ flow'[w].cur = flow[w].cur,
         HasDone(flow[w])'
  PROVE  RecordInv'
  BY NothingGrows, CarriesKnows, MoveAgrees

LEMMA EndedAgrees ==
  ASSUME RecordInv, TInv', Grows, Recorded', AllBacked', NEW w \in Workers, Ended(w)
  PROVE  RecordInv'
  BY EndedKnowsNothing, MoveAgrees DEF Ended

LEMMA ThrowsAgrees ==
  ASSUME RecordInv, TInv', UNCHANGED facts, NEW w \in Workers, flow[w].pc # "idle",
         \/ Stop(w) \/ Throws(w)
         \/ TryAgain(w) /\ flow[w].pc \in {"submit", "ordering"}
  PROVE  RecordInv'
<1>1. Grows /\ Recorded' /\ AllBacked' /\ SigFades(w)
  BY Fitting, NothingGrows, StopFades
<1>2. \/ Ended(w) \/ Failing(w)
      \/ Went(w, "submit") /\ flow[w].pc \in {"submit", "ordering"}
  BY Fitting, StopEnds, ThrowsFails, TryAgainGoes
<1>3. CASE Ended(w)
  BY <1>1, <1>3, EndedAgrees
<1>4. CASE Failing(w)
  <2>1. HasDone(flow[w])'
    BY <1>4, PlainHasDone DEF Failing, PlainPcs
  <2> QED
    BY <1>1, <1>4, <2>1, LocalAgrees DEF Failing
<1>5. CASE Went(w, "submit") /\ flow[w].pc \in {"submit", "ordering"}
  <2>1. flow[w].pc \in SweptPcs
    BY <1>5 DEF SweptPcs
  <2>2. deposit[flow[w].job] = "swept"
    BY <2>1, KnowsNow DEF HasDone
  <2>3. HasDone(flow[w])'
    BY <1>5, <2>2 DEF Went, HasDone, SweptPcs, facts
  <2> QED
    BY <1>1, <1>5, <2>3, LocalAgrees DEF Went
<1> QED
  BY <1>2, <1>3, <1>4, <1>5

(***************************************************************************)
(* The steps of a flow that store nothing                                  *)
(***************************************************************************)
LEMMA EndsFlowAgrees ==
  ASSUME RecordInv, TInv', NEW w \in Workers, EndsFlow(w)
  PROVE  RecordInv'
<1>1. Stop(w) /\ UNCHANGED facts
  BY DEF EndsFlow, StartRefused, Wait, Park, CompleteRefused, Conflict, env, db,
         chain, facts
<1> QED
  BY <1>1, Fitting, StopEnds, NothingGrows, EndedAgrees

LEMMA EnterAgrees ==
  ASSUME RecordInv, TInv', NEW w \in Workers, Enter(w)
  PROVE  RecordInv'
<1>1. UNCHANGED facts /\ flow[w].pc # "idle"
  BY DEF Enter, At, env, db, chain, facts
<1>2. CASE Stop(w)
  BY <1>1, <1>2, ThrowsAgrees
<1>3. CASE ~Stop(w)
  <2>1. flow' = [flow EXCEPT ![w].pc = "step", ![w].entered = TRUE]
    BY <1>3 DEF Enter
  <2>2. Went(w, "step")
    BY <2>1, Fitting, EntersGoes, "step" \in Labels DEF Labels
  <2>3. SigFades(w)
    BY <2>1, Fitting DEF SigFades, FlowType
  <2>4. HasDone(flow[w])'
    BY <2>2, PlainHasDone DEF Went, PlainPcs
  <2> QED
    BY <1>1, <2>2, <2>3, <2>4, LocalAgrees DEF Went
<1> QED
  BY <1>2, <1>3

LEMMA FailingAgrees ==
  ASSUME RecordInv, TInv', NEW w \in Workers,
         QuoteExpired(w) \/ Unconfirmed(w) \/ Throw(w) \/ SubmitFails(w)
  PROVE  RecordInv'
<1>1. /\ UNCHANGED facts /\ flow[w].pc # "idle"
      /\ \/ Stop(w) \/ Throws(w)
         \/ TryAgain(w) /\ flow[w].pc \in {"submit", "ordering"}
  BY DEF QuoteExpired, Unconfirmed, Throw, SubmitFails, InState, At, env, db, chain,
         facts
<1> QED
  BY <1>1, ThrowsAgrees

LEMMA OrderMinedAgrees ==
  ASSUME RecordInv, TInv', NEW w \in Workers, OrderMined(w)
  PROVE  RecordInv'
<1>1. flow[w].pc = "ordering" /\ UNCHANGED facts
  BY DEF OrderMined, At, env, db, chain, facts
<1>2. CASE Throws(w) \/ TryAgain(w)
  BY <1>1, <1>2, ThrowsAgrees
<1>3. CASE ~Throws(w) /\ ~TryAgain(w)
  <2>1. /\ flow' = [flow EXCEPT ![w].pc = "book", ![w].tx = 0]
        /\ optx[flow[w].tx].status \in {"success", "AlreadyConsumed"}
    BY <1>3 DEF OrderMined
  <2>2. Went(w, "book")
    BY <2>1, Fitting, NoTxYet, TakesTxGoes, "book" \in Labels DEF Labels
  <2>3. SigFades(w)
    BY <2>1, Fitting DEF SigFades, FlowType
  <2>4. HasDone(flow[w]) /\ IsOrder(flow[w].tx, flow[w].job)
    BY <1>1, KnowsNow DEF HasDone
  <2>5. consumed[flow[w].job]
    BY <2>1, <2>4 DEF IsOrder, RecordInv, Backed
  <2>6. HasDone(flow[w])'
    BY <1>1, <2>2, <2>4, <2>5 DEF Went, HasDone, SweptPcs, facts
  <2> QED
    BY <1>1, <2>2, <2>3, <2>6, LocalAgrees DEF Went
<1> QED
  BY <1>2, <1>3

LEMMA ReadEventsAgrees ==
  ASSUME RecordInv, TInv', NEW w \in Workers, ReadEvents(w)
  PROVE  RecordInv'
<1>1. UNCHANGED facts /\ flow[w].pc = "readEvents"
  BY DEF ReadEvents, At, env, db, chain, facts
<1>2. CASE Stop(w)
  BY <1>1, <1>2, ThrowsAgrees
<1>3. CASE ~Stop(w)
  <2>1. Goto(w, "reopen") /\ "ASSET_RECEIVED" \in log[flow[w].job]
    BY <1>3 DEF ReadEvents, Job
  <2>2. Went(w, "reopen") /\ SigFades(w)
    BY <2>1, Fitting, GotoGoes, GotoFades, "reopen" \in Labels DEF Labels
  <2>3. Standing(flow[w].job)
    BY <1>1, KnowsNow DEF Record
  <2>4. HasDone(flow[w])'
    BY <1>1, <2>1, <2>2, <2>3
       DEF Went, HasDone, SweptPcs, Standing, Funded, Booked, facts
  <2> QED
    BY <1>1, <2>2, <2>4, LocalAgrees DEF Went
<1> QED
  BY <1>2, <1>3

LEMMA ReturnReadAgrees ==
  ASSUME RecordInv, TInv', NEW w \in Workers, ReturnRead(w)
  PROVE  RecordInv'
<1>1. UNCHANGED facts /\ flow[w].pc = "retRead"
  BY DEF ReturnRead, At, env, db, chain, facts
<1>2. HasDone(flow[w]) /\ Holding(flow[w].job) /\ flow[w].job \in Payments
  BY <1>1, KnowsNow DEF Record
<1>3. CASE Stop(w)
  BY <1>1, <1>3, ThrowsAgrees
<1>4. CASE Goto(w, "retCheck")
  <2>1. Went(w, "retCheck") /\ SigFades(w)
    BY <1>4, Fitting, GotoGoes, GotoFades, "retCheck" \in Labels DEF Labels
  <2>2. HasDone(flow[w])'
    BY <1>1, <1>2, <2>1 DEF Went, HasDone, SweptPcs, facts
  <2> QED
    BY <1>1, <2>1, <2>2, LocalAgrees DEF Went
<1>5. CASE ~Stop(w) /\ ~Goto(w, "retCheck")
  <2>1. /\ flow' = [flow EXCEPT ![w].pc = "retReceipt", ![w].tx = returnRef[flow[w].job]]
        /\ returnRef[flow[w].job] # 0
    BY <1>5 DEF ReturnRead, Job
  <2>2. returnRef[flow[w].job] \in 0..MaxTx
    BY <1>2, Fitting DEF DataFits
  <2>3. Went(w, "retReceipt") /\ flow'[w].tx = returnRef[flow[w].job]
    <3>1. "retReceipt" \in Labels
      BY DEF Labels
    <3> QED
      BY <2>1, <2>2, <3>1, Fitting, TakesTxGoes
  <2>4. SigFades(w)
    BY <2>1, Fitting DEF SigFades, FlowType
  <2>5. IsReturn(returnRef[flow[w].job], flow[w].job)
    BY <1>2, <2>1 DEF Holding
  <2>6. HasDone(flow[w])'
    BY <1>1, <2>3, <2>5 DEF Went, HasDone, SweptPcs, IsReturn, facts
  <2> QED
    BY <1>1, <2>3, <2>4, <2>6, LocalAgrees DEF Went
<1> QED
  BY <1>3, <1>4, <1>5

LEMMA ReturnCheckAgrees ==
  ASSUME RecordInv, TInv', NEW w \in Workers, ReturnCheck(w)
  PROVE  RecordInv'
<1>1. UNCHANGED facts /\ flow[w].pc = "retCheck"
  BY DEF ReturnCheck, At, env, db, chain, facts
<1>2. CASE Stop(w)
  BY <1>1, <1>2, ThrowsAgrees
<1>3. CASE ~Stop(w)
  <2>1. Goto(w, "retSweep")
    BY <1>3 DEF ReturnCheck
  <2>2. Went(w, "retSweep") /\ SigFades(w)
    BY <2>1, Fitting, GotoGoes, GotoFades, "retSweep" \in Labels DEF Labels
  <2>3. HasDone(flow[w])
    BY <1>1, KnowsNow
  <2>4. HasDone(flow[w])'
    BY <1>1, <2>2, <2>3 DEF Went, HasDone, SweptPcs, facts
  <2> QED
    BY <1>1, <2>2, <2>4, LocalAgrees DEF Went
<1> QED
  BY <1>2, <1>3

\* What a flow is told when it picks a payment up.
LEMMA PickUpTells ==
  ASSUME flow \in [Workers -> FlowType], NEW w \in Workers, NEW p \in Payments,
         PickUp(w, p)
  PROVE  /\ flow'[w].sig => Funded(p)
         /\ flow'[w].pc = "postLate" => Funded(p)
<1>1. CASE Signal(w, p)
  BY <1>1 DEF Signal, FlowAt, Funded
<1>2. CASE AcceptLateFunds(w, p)
  BY <1>2 DEF AcceptLateFunds, Begin, FlowAt, Funded
<1>3. CASE SweepExpired(w, p) \/ FailCall(w, p)
  BY <1>3 DEF SweepExpired, FailCall, FlowAt
<1>4. CASE Start(w, p) \/ Load(w, p) \/ Retry(w, p) \/ ReturnPending(w, p)
  BY <1>4 DEF Start, Load, Retry, ReturnPending, Begin, FlowAt
<1> QED
  BY <1>1, <1>2, <1>3, <1>4 DEF PickUp

LEMMA PickUpAgrees ==
  ASSUME RecordInv, TInv', NEW w \in Workers, NEW p \in Payments, PickUp(w, p)
  PROVE  RecordInv'
<1>1. UNCHANGED facts
  BY DEF PickUp, Start, Load, Signal, SweepExpired, FailCall, Retry,
         AcceptLateFunds, ReturnPending, env, db, chain, facts
<1>2. row[p] \in RowType /\ Standing(p)
  BY Fitting DEF DataFits, RecordInv, Record
<1>3. PICK l \in Labels : PickedUp(w, p, l)
  BY <1>2, Fitting, PickUpPicksUp
<1>4. /\ OnlyMoves(w) /\ flow'[w].pc = l /\ flow'[w].job = p /\ flow'[w].cur = row[p]
      /\ l \in {"insert", "enter", "fail", "readEvents", "postLate", "retRead"}
      /\ l = "retRead" => path[p] = "order" /\ "ASSET_RECEIVED" \in log[p]
  BY <1>3 DEF PickedUp, Began, ReturnPending
<1>5. flow'[w].sig \/ l = "postLate" => Funded(p)
  BY <1>4, Fitting, PickUpTells
<1>6. Grows /\ Recorded' /\ AllBacked'
  BY <1>1, NothingGrows
<1>7. Matches(flow[w])'
  BY <1>1, <1>2, <1>4 DEF Matches, facts, RowType
<1>8. Remembers(flow[w])'
  <2>1. PICK s : s = row[p].state
    OBVIOUS
  <2>2. Says(p, s)'
    BY <1>2, <1>6, <2>1, SaysStays DEF Standing
  <2>3. Says(flow[w].job, flow[w].cur.state)'
    BY <1>4, <2>1, <2>2 DEF Says, Funded, Booked, Paid
  <2>4. (flow[w].sig => Funded(flow[w].job))'
    BY <1>1, <1>4, <1>5 DEF facts, Funded
  <2>5. (flow[w].cur.state \in Settled => row[flow[w].job].state \in Settled)'
    BY <1>1, <1>4 DEF facts
  <2> QED
    BY <2>3, <2>4, <2>5 DEF Remembers
<1>9. HasDone(flow[w])'
  BY <1>1, <1>2, <1>4, <1>5 DEF HasDone, SweptPcs, Standing, Funded, facts
<1> QED
  BY <1>4, <1>6, <1>7, <1>8, <1>9, MoveAgrees DEF Knows

LEMMA CrashAgrees ==
  ASSUME RecordInv, TInv', NEW h \in Hosts, Crash(h)
  PROVE  RecordInv'
<1>1. UNCHANGED facts
  BY DEF Crash, db, chain, facts
<1>2. \A v \in Workers : flow'[v] = flow[v] \/ flow'[v] = Idle
  BY DEF Crash
<1>3. \A v \in Workers : flow'[v] = flow[v] \/ Knows(flow[v])'
  BY <1>2, EndedKnowsNothing
<1> QED
  BY <1>1, <1>3, NothingGrows, StepAgrees

LEMMA StillAgrees ==
  ASSUME RecordInv, TInv', UNCHANGED facts, UNCHANGED flow
  PROVE  RecordInv'
  BY NothingGrows, StepAgrees

(***************************************************************************)
(* The steps that post                                                     *)
(***************************************************************************)

\* Flow w books key and goes to label l.
PostsAt(w, key, l) ==
    /\ Post(w, key) /\ Goto(w, l)
    /\ UNCHANGED <<path, row, log, returnRef, intent, deposit, consumed, optx, sent,
                   mined, payout>>

LEMMA PostGrows ==
  ASSUME RecordInv, NEW w \in Workers, flow[w].pc # "idle", NEW key, NEW l,
         PostsAt(w, key, l)
  PROVE  /\ Grows /\ AllBacked'
         /\ ledger'[flow[w].job] = ledger[flow[w].job] \cup {key}
         /\ \A q \in Payments \ {flow[w].job} : ledger'[q] = ledger[q]
<1>1. flow[w].job \in Payments /\ ledger \in [Payments -> SUBSET Postings]
  BY KnowsNow, Fitting DEF DataFits
<1>2. /\ ledger'[flow[w].job] = ledger[flow[w].job] \cup {key}
      /\ \A q \in Payments \ {flow[w].job} : ledger'[q] = ledger[q]
  BY <1>1 DEF PostsAt, Post, Job
<1>3. \A q \in Payments : ledger[q] \subseteq ledger'[q]
  BY <1>2
<1>4. Grows
  BY <1>3 DEF PostsAt, Grows, Gains, Advances, Lasts
<1> QED
  BY <1>2, <1>4, AllBackedStays DEF PostsAt

\* What makes a posting right.
Justified(p, key) ==
    /\ key = "CLEARING" =>
        /\ Booked(p, "ASSET_RECEIVED")
        /\ path[p] = "order" => Booked(p, "SWAPPED")
    /\ key = "SWAPPED" => path[p] = "order" /\ Paid(p)
    /\ key = "SETTLED" => Paid(p)
    /\ key = "RETURNED" => Returned(p)
    /\ key = "ASSET_RECEIVED" => Funded(p)

LEMMA PostKeepsBooks ==
  ASSUME Grows, NEW p \in Payments, Books(p), NEW key, Justified(p, key),
         ledger'[p] = ledger[p] \cup {key}
  PROVE  Books(p)'
<1>1. path'[p] = path[p]
  BY DEF Grows
<1>2. \A k : Booked(p, k)' <=> Booked(p, k) \/ k = key
  BY DEF Booked
<1> QED
  BY <1>1, <1>2, FundedStays, ReturnedStays DEF Books, Justified

\* The posting is right, and so is what the flow goes on with.
LEMMA PostAgrees ==
  ASSUME RecordInv, TInv', NEW w \in Workers, flow[w].pc # "idle", NEW key,
         NEW l \in Labels, PostsAt(w, key, l), Justified(flow[w].job, key),
         HasDone(flow[w])'
  PROVE  RecordInv'
<1>1. /\ Grows /\ AllBacked'
      /\ ledger'[flow[w].job] = ledger[flow[w].job] \cup {key}
      /\ \A q \in Payments \ {flow[w].job} : ledger'[q] = ledger[q]
  BY PostGrows
<1>2. Went(w, l) /\ SigFades(w)
  BY Fitting, GotoGoes, GotoFades DEF PostsAt
<1>3. Recorded'
  <2> SUFFICES ASSUME NEW p \in Payments PROVE Record(p)'
    BY DEF Recorded
  <2>1. Standing(p) /\ Books(p) /\ Holding(p)
    BY DEF RecordInv, Record
  <2>2. Standing(p)' /\ Holding(p)'
    BY <1>1, <2>1, StandingStays, HoldingStays DEF PostsAt
  <2>3. Books(p)'
    BY <1>1, <2>1, PostKeepsBooks, BooksStay
  <2> QED
    BY <2>2, <2>3 DEF Record
<1>4. Knows(flow[w])'
  BY <1>1, <1>2, CarriesKnows DEF Went
<1> QED
  BY <1>1, <1>2, <1>3, <1>4, MoveAgrees DEF Went

LEMMA ReceiveAgrees ==
  ASSUME RecordInv, TInv', NEW w \in Workers, Receive(w)
  PROVE  RecordInv'
<1>1. /\ flow[w].pc = "step" /\ flow[w].cur.state = "PAYMENT_PENDING" /\ flow[w].sig
      /\ PostsAt(w, "ASSET_RECEIVED", "persist")
  BY DEF Receive, InState, At, Cur, PostsAt, env, chain
<1>2. Funded(flow[w].job)
  BY <1>1, KnowsNow DEF Remembers
<1>3. Justified(flow[w].job, "ASSET_RECEIVED")
  BY <1>2 DEF Justified
<1>4. Went(w, "persist") /\ "persist" \in Labels
  BY <1>1, Fitting, GotoGoes DEF PostsAt, Labels
<1>5. ledger'[flow[w].job] = ledger[flow[w].job] \cup {"ASSET_RECEIVED"}
  BY <1>1, PostGrows
<1>6. NextState("PAYMENT_PENDING") = "ASSET_RECEIVED"
  BY DEF NextState
<1>7. HasDone(flow[w])'
  BY <1>1, <1>2, <1>4, <1>5, <1>6
     DEF Went, HasDone, SweptPcs, Says, Received, Cleared, Settled, Funded, Booked,
         PostsAt
<1> QED
  BY <1>1, <1>3, <1>4, <1>7, PostAgrees

LEMMA ClearAgrees ==
  ASSUME RecordInv, TInv', NEW w \in Workers, Clear(w)
  PROVE  RecordInv'
<1>1. /\ flow[w].pc = "clear" \/ (flow[w].pc = "step" /\ path[flow[w].job] # "order")
      /\ flow[w].pc = "step" => flow[w].cur.state = "ASSET_RECEIVED"
      /\ PostsAt(w, "CLEARING", "persist")
  BY DEF Clear, InState, At, Cur, Job, PostsAt, env, chain
<1>2. /\ HasDone(flow[w]) /\ Remembers(flow[w]) /\ Holding(flow[w].job)
      /\ flow[w].cur.state = "ASSET_RECEIVED"
      /\ flow[w].job \in Payments
  BY <1>1, KnowsNow DEF Stage, ReceivedPcs, Record
<1>3. Funded(flow[w].job) /\ Booked(flow[w].job, "ASSET_RECEIVED")
  BY <1>2 DEF Remembers, Says, Received
<1>4. path[flow[w].job] = "order" =>
         /\ consumed[flow[w].job] /\ deposit[flow[w].job] = "swept"
         /\ Booked(flow[w].job, "SWAPPED")
  BY <1>1, <1>2 DEF HasDone, SweptPcs
<1>5. path[flow[w].job] # "adapter" => consumed[flow[w].job]
  BY <1>2, <1>3, <1>4, Fitting, ConstantsAssumption
     DEF Holding, Funded, ChainFits, AllPaths
<1>6. Justified(flow[w].job, "CLEARING")
  BY <1>3, <1>4 DEF Justified
<1>7. Went(w, "persist") /\ "persist" \in Labels
  BY <1>1, Fitting, GotoGoes DEF PostsAt, Labels
<1>8. ledger'[flow[w].job] = ledger[flow[w].job] \cup {"CLEARING"}
  BY <1>1, PostGrows
<1>9. NextState("ASSET_RECEIVED") = "CLEARING"
  BY DEF NextState
<1>10. HasDone(flow[w])'
  BY <1>1, <1>2, <1>3, <1>4, <1>5, <1>7, <1>8, <1>9
     DEF Went, HasDone, SweptPcs, Says, Received, Cleared, Settled, Funded, Booked,
         PostsAt
<1> QED
  BY <1>1, <1>6, <1>7, <1>10, PostAgrees

LEMMA ConfirmAgrees ==
  ASSUME RecordInv, TInv', NEW w \in Workers, Confirm(w)
  PROVE  RecordInv'
<1>1. /\ flow[w].pc = "step" /\ flow[w].cur.state = "SETTLING"
      /\ SettlesOnChain(flow[w].job) \/ payout[flow[w].job] = "SUCCEEDED"
      /\ PostsAt(w, "SETTLED", "persist")
  BY DEF Confirm, InState, At, Cur, Job, PostsAt, env, chain
<1>2. Says(flow[w].job, "SETTLING")
  BY <1>1, KnowsNow DEF Remembers
<1>3. Paid(flow[w].job)
  BY <1>1, <1>2 DEF Paid, Says, Cleared, SettlesOnChain
<1>4. Justified(flow[w].job, "SETTLED")
  BY <1>3 DEF Justified
<1>5. Went(w, "persist") /\ "persist" \in Labels
  BY <1>1, Fitting, GotoGoes DEF PostsAt, Labels
<1>6. ledger'[flow[w].job] = ledger[flow[w].job] \cup {"SETTLED"}
  BY <1>1, PostGrows
<1>7. NextState("SETTLING") = "SETTLED"
  BY DEF NextState
<1>8. HasDone(flow[w])'
  BY <1>1, <1>2, <1>3, <1>5, <1>6, <1>7
     DEF Went, HasDone, SweptPcs, Says, Received, Cleared, Settled, Funded, Booked,
         Paid, PostsAt
<1> QED
  BY <1>1, <1>4, <1>5, <1>8, PostAgrees

LEMMA BookAgrees ==
  ASSUME RecordInv, TInv', NEW w \in Workers, Book(w)
  PROVE  RecordInv'
<1>1. flow[w].pc = "book" /\ PostsAt(w, "SWAPPED", "clear")
  BY DEF Book, At, PostsAt, env, chain
<1>2. /\ consumed[flow[w].job] /\ deposit[flow[w].job] = "swept"
      /\ path[flow[w].job] = "order"
  BY <1>1, KnowsNow DEF HasDone, SweptPcs, Record, Holding
<1>3. Justified(flow[w].job, "SWAPPED")
  BY <1>2 DEF Justified, Paid
<1>4. Went(w, "clear") /\ "clear" \in Labels
  BY <1>1, Fitting, GotoGoes DEF PostsAt, Labels
<1>5. ledger'[flow[w].job] = ledger[flow[w].job] \cup {"SWAPPED"}
  BY <1>1, PostGrows
<1>6. HasDone(flow[w])'
  BY <1>1, <1>2, <1>4, <1>5 DEF Went, HasDone, SweptPcs, Booked, PostsAt
<1> QED
  BY <1>1, <1>3, <1>4, <1>6, PostAgrees

LEMMA PostLateAgrees ==
  ASSUME RecordInv, TInv', NEW w \in Workers, PostLate(w)
  PROVE  RecordInv'
<1>1. flow[w].pc = "postLate" /\ PostsAt(w, "ASSET_RECEIVED", "reopen")
  BY DEF PostLate, At, PostsAt, env, chain
<1>2. Funded(flow[w].job)
  BY <1>1, KnowsNow DEF HasDone
<1>3. Justified(flow[w].job, "ASSET_RECEIVED")
  BY <1>2 DEF Justified
<1>4. Went(w, "reopen") /\ "reopen" \in Labels
  BY <1>1, Fitting, GotoGoes DEF PostsAt, Labels
<1>5. ledger'[flow[w].job] = ledger[flow[w].job] \cup {"ASSET_RECEIVED"}
  BY <1>1, PostGrows
<1>6. HasDone(flow[w])'
  BY <1>1, <1>2, <1>4, <1>5 DEF Went, HasDone, SweptPcs, Funded, Booked, PostsAt
<1> QED
  BY <1>1, <1>3, <1>4, <1>6, PostAgrees

LEMMA ReturnReceiptAgrees ==
  ASSUME RecordInv, TInv', NEW w \in Workers, ReturnReceipt(w)
  PROVE  RecordInv'
<1>1. flow[w].pc = "retReceipt"
  BY DEF ReturnReceipt, At
<1>2. CASE optx[flow[w].tx].status = "success"
  <2>1. PostsAt(w, "RETURNED", "retConfirm")
    BY <1>2 DEF ReturnReceipt, PostsAt, env, chain
  <2>2. IsReturn(flow[w].tx, flow[w].job)
    BY <1>1, KnowsNow DEF HasDone
  <2>3. Justified(flow[w].job, "RETURNED")
    BY <1>2, <2>2 DEF Justified, Returned, ReturnTxs, IsReturn
  <2>4. Went(w, "retConfirm") /\ "retConfirm" \in Labels
    BY <2>1, Fitting, GotoGoes DEF PostsAt, Labels
  <2>5. HasDone(flow[w])'
    BY <2>4, PlainHasDone DEF Went, PlainPcs
  <2> QED
    BY <1>1, <2>1, <2>3, <2>4, <2>5, PostAgrees
<1>3. CASE optx[flow[w].tx].status # "success"
  <2>1. Stop(w) /\ UNCHANGED facts
    BY <1>3 DEF ReturnReceipt, env, chain, facts
  <2> QED
    BY <1>1, <2>1, ThrowsAgrees
<1> QED
  BY <1>2, <1>3

(***************************************************************************)
(* The steps that change an intent or a payout                             *)
(***************************************************************************)

\* Nothing changes but intents and payouts, none away from its good end.
Answers ==
    /\ UNCHANGED <<path, row, log, returnRef, ledger, deposit, consumed, optx, sent, mined>>
    /\ \A p \in Payments :
        /\ intent[p] = "COMPLETED" => intent'[p] = "COMPLETED"
        /\ payout[p] = "SUCCEEDED" => payout'[p] = "SUCCEEDED"

LEMMA AnswersGrow ==
  ASSUME RecordInv, Answers
  PROVE  /\ Grows /\ AllBacked'
         /\ (\A p \in Payments : intent'[p] = "COMPLETED" => intent[p] = "COMPLETED")
                => Recorded'
<1>1. Grows
  BY DEF Answers, Grows, Gains, Advances, Lasts
<1> QED
  BY <1>1, AllBackedStays, RecordedStays DEF Answers

LEMMA IntentAgrees ==
  ASSUME RecordInv, TInv', NEW p \in Payments,
         ConfirmIntent(p) \/ ExpireIntent(p) \/ AdapterDecides(p)
  PROVE  RecordInv'
<1>1. UNCHANGED flow
  BY DEF ConfirmIntent, ExpireIntent, AdapterDecides
<1>2. /\ Answers
      /\ \A q \in Payments : intent'[q] = "COMPLETED" => intent[q] = "COMPLETED"
  <2>1. /\ intent \in [Payments -> IntentStatus]
        /\ payout \in [Payments -> {"none", "PENDING", "SUCCEEDED", "FAILED"}]
    BY Fitting DEF DataFits, ChainFits
  <2>2. CASE ConfirmIntent(p)
    BY <2>1, <2>2 DEF ConfirmIntent, Answers, env, chain
  <2>3. CASE ExpireIntent(p)
    BY <2>1, <2>3 DEF ExpireIntent, Answers, env, chain
  <2>4. CASE AdapterDecides(p)
    BY <2>1, <2>4 DEF AdapterDecides, Answers, env, db, chain
  <2> QED
    BY <2>2, <2>3, <2>4
<1> QED
  BY <1>1, <1>2, AnswersGrow, StepAgrees

LEMMA IntentStepAgrees ==
  ASSUME RecordInv, TInv', NEW w \in Workers,
         MarkProcessing(w) \/ ReopenIntent(w) \/ FailIntent(w)
  PROVE  RecordInv'
<1>1. flow[w].pc \in {"mark", "reopenIntent", "failIntent"} /\ Job(w) \in Payments
  BY Fitting, NotIdle DEF MarkProcessing, ReopenIntent, FailIntent, At
<1>2. Goto(w, "enter") \/ Stop(w)
  BY DEF MarkProcessing, ReopenIntent, FailIntent
<1>3. /\ Answers
      /\ \A q \in Payments : intent'[q] = "COMPLETED" => intent[q] = "COMPLETED"
  <2>1. intent \in [Payments -> IntentStatus]
    BY Fitting DEF DataFits
  <2>2. CASE MarkProcessing(w)
    BY <1>1, <2>1, <2>2 DEF MarkProcessing, Answers, env, chain
  <2>3. CASE ReopenIntent(w)
    BY <1>1, <2>1, <2>3 DEF ReopenIntent, Answers, env, chain
  <2>4. CASE FailIntent(w)
    BY <1>1, <2>1, <2>4 DEF FailIntent, Answers, env, chain
  <2> QED
    BY <2>2, <2>3, <2>4
<1>4. Grows /\ Recorded' /\ AllBacked'
  BY <1>3, AnswersGrow
<1>5. CASE Stop(w)
  BY <1>4, <1>5, Fitting, StopEnds, EndedAgrees
<1>6. CASE Goto(w, "enter")
  <2>1. Went(w, "enter") /\ SigFades(w)
    BY <1>6, Fitting, GotoGoes, GotoFades, "enter" \in Labels DEF Labels
  <2>2. HasDone(flow[w])'
    BY <2>1, PlainHasDone DEF Went, PlainPcs
  <2>3. Knows(flow[w])'
    BY <1>1, <1>4, <2>1, <2>2, CarriesKnows DEF Went
  <2> QED
    BY <1>4, <2>1, <2>3, MoveAgrees DEF Went
<1> QED
  BY <1>2, <1>5, <1>6

LEMMA CompleteAgrees ==
  ASSUME RecordInv, TInv', NEW w \in Workers, Complete(w)
  PROVE  RecordInv'
<1>1. /\ flow[w].pc = "step" /\ flow[w].cur.state = "SETTLED"
      /\ intent' = [intent EXCEPT ![flow[w].job] = "COMPLETED"] /\ Goto(w, "persist")
      /\ UNCHANGED <<path, row, log, returnRef, ledger, deposit, consumed, optx, sent,
                     mined, payout>>
  BY DEF Complete, InState, At, Cur, Job, env, chain
<1>2. /\ flow[w].job \in Payments /\ Says(flow[w].job, "SETTLED")
      /\ row[flow[w].job].state \in Settled
  BY <1>1, KnowsNow DEF Remembers, Settled
<1>3. /\ intent'[flow[w].job] = "COMPLETED"
      /\ \A q \in Payments \ {flow[w].job} : intent'[q] = intent[q]
  BY <1>1, <1>2, Fitting DEF DataFits
<1>4. Answers
  BY <1>1, <1>3 DEF Answers
<1>5. Grows /\ AllBacked'
  BY <1>4, AnswersGrow
<1>6. Went(w, "persist") /\ SigFades(w)
  BY <1>1, Fitting, GotoGoes, GotoFades, "persist" \in Labels DEF Labels
<1>7. Recorded'
  <2> SUFFICES ASSUME NEW p \in Payments PROVE Record(p)'
    BY DEF Recorded
  <2>1. Standing(p) /\ Books(p) /\ Holding(p)
    BY DEF RecordInv, Record
  <2>2. Books(p)' /\ Holding(p)'
    BY <1>1, <1>5, <2>1, BooksStay, HoldingStays
  <2>3. Standing(p)'
    <3>1. CASE p # flow[w].job
      BY <1>1, <1>3, <1>5, <2>1, <3>1, StandingStays
    <3>2. CASE p = flow[w].job
      <4>1. Paid(p) /\ row[p].state \in Settled
        BY <1>2, <3>2 DEF Says, Settled
      <4>2. Says(p, row[p].state)'
        BY <1>1, <1>3, <2>1, <3>2 DEF Standing, Says, Funded, Booked, Paid
      <4> QED
        BY <1>1, <2>1, <4>1, <4>2 DEF Standing, Paid, Funded, Booked
    <3> QED
      BY <3>1, <3>2
  <2> QED
    BY <2>2, <2>3 DEF Record
<1>8. HasDone(flow[w])'
  <2>1. NextState("SETTLED") = "SUCCESS"
    BY DEF NextState
  <2> QED
    BY <1>1, <1>2, <1>3, <1>6, <2>1
       DEF Went, HasDone, SweptPcs, Says, Received, Cleared, Settled, Funded, Booked,
           Paid
<1>9. Knows(flow[w])'
  BY <1>1, <1>5, <1>6, <1>8, CarriesKnows DEF Went
<1> QED
  BY <1>5, <1>6, <1>7, <1>9, MoveAgrees DEF Went

LEMMA SettleAgrees ==
  ASSUME RecordInv, TInv', NEW w \in Workers, Settle(w)
  PROVE  RecordInv'
<1>1. /\ flow[w].pc = "step" /\ flow[w].cur.state = "CLEARING" /\ Goto(w, "persist")
      /\ payout' = [payout EXCEPT ![flow[w].job] = IF @ = "none" THEN "PENDING" ELSE @]
      /\ UNCHANGED <<path, row, log, returnRef, ledger, intent, deposit, consumed,
                     optx, sent, mined>>
  BY DEF Settle, InState, At, Cur, Job, env, db, chain
<1>2. flow[w].job \in Payments /\ Says(flow[w].job, "CLEARING")
  BY <1>1, KnowsNow DEF Remembers
<1>3. Answers
  BY <1>1, <1>2, Fitting DEF Answers, ChainFits
<1>4. Grows /\ Recorded' /\ AllBacked'
  BY <1>1, <1>3, AnswersGrow
<1>5. Went(w, "persist") /\ SigFades(w)
  BY <1>1, Fitting, GotoGoes, GotoFades, "persist" \in Labels DEF Labels
<1>6. HasDone(flow[w])'
  <2>1. NextState("CLEARING") = "SETTLING"
    BY DEF NextState
  <2> QED
    BY <1>1, <1>2, <1>5, <2>1
       DEF Went, HasDone, SweptPcs, Says, Received, Cleared, Settled, Funded, Booked
<1>7. Knows(flow[w])'
  BY <1>1, <1>4, <1>5, <1>6, CarriesKnows DEF Went
<1> QED
  BY <1>4, <1>5, <1>7, MoveAgrees DEF Went

(***************************************************************************)
(* The steps that move money                                               *)
(***************************************************************************)

\* Deposits arrive or are swept, and router intents are consumed, as far as the
\* path of the payment allows.
Moves ==
    /\ UNCHANGED <<path, row, log, returnRef, ledger, intent, payout>>
    /\ \A p \in Payments :
        /\ deposit[p] # "none" => deposit'[p] # "none"
        /\ deposit[p] = "swept" => deposit'[p] = "swept"
        /\ consumed[p] => consumed'[p]
        /\ path[p] = "contract" => deposit'[p] = deposit[p]
        /\ deposit'[p] = "swept" /\ deposit[p] # "swept" => path[p] = "order"
        /\ path[p] = "order" /\ consumed'[p] /\ ~consumed[p] => deposit'[p] = "swept"

LEMMA MovesGrow ==
  ASSUME RecordInv, Moves, \A i \in Tx : Lasts(i)
  PROVE  Grows /\ Recorded'
<1>1. Grows
  BY DEF Moves, Grows, Gains, Advances
<1>2. ASSUME NEW p \in Payments PROVE Record(p)'
  <2>1. Standing(p) /\ Books(p) /\ Holding(p)
    BY DEF RecordInv, Record
  <2>2. Standing(p)' /\ Books(p)'
    BY <1>1, <2>1, StandingStays, BooksStay DEF Moves
  <2>3. Holding(p)'
    BY <1>1, <2>1, TxStays DEF Moves, Holding
  <2> QED
    BY <2>2, <2>3 DEF Record
<1> QED
  BY <1>1, <1>2 DEF Recorded

LEMMA TxsLast ==
  ASSUME UNCHANGED optx, NEW i \in Tx
  PROVE  Lasts(i)
  BY DEF Lasts

LEMMA PayerAgrees ==
  ASSUME RecordInv, TInv', NEW p \in Payments, PayerDeposits(p) \/ PayerPays(p)
  PROVE  RecordInv'
<1>1. UNCHANGED <<flow, optx, sent, mined>>
  BY DEF PayerDeposits, PayerPays
<1>2. Moves
  <2>1. deposit \in [Payments -> {"none", "held", "swept"}] /\ consumed \in [Payments -> BOOLEAN]
    BY Fitting DEF ChainFits
  <2>2. CASE PayerDeposits(p)
    BY <2>1, <2>2 DEF PayerDeposits, OnDeposit, Moves, env, db
  <2>3. CASE PayerPays(p)
    BY <2>1, <2>3 DEF PayerPays, Moves, env, db
  <2> QED
    BY <2>2, <2>3
<1>3. Grows /\ Recorded' /\ AllBacked'
  BY <1>1, <1>2, TxsLast, MovesGrow, AllBackedStays
<1> QED
  BY <1>1, <1>3, StepAgrees

\* A sweep of an order's deposit, and where its flow goes.
LEMMA SweepMoves ==
  ASSUME RecordInv, NEW w \in Workers, flow[w].pc # "idle", path[Job(w)] = "order",
         deposit[Job(w)] # "none", SweepDeposit(Job(w)),
         UNCHANGED <<path, row, log, returnRef, ledger, intent, payout, consumed, optx,
                     sent, mined>>
  PROVE  Grows /\ Recorded' /\ AllBacked' /\ deposit'[Job(w)] = "swept"
<1>1. Job(w) \in Payments /\ deposit \in [Payments -> {"none", "held", "swept"}]
  BY Fitting, NotIdle DEF ChainFits
<1>2. deposit'[Job(w)] = "swept" /\ \A q \in Payments \ {Job(w)} : deposit'[q] = deposit[q]
  BY <1>1 DEF SweepDeposit
<1>3. Moves
  BY <1>2 DEF Moves
<1> QED
  BY <1>2, <1>3, TxsLast, MovesGrow, AllBackedStays

LEMMA SweepAgrees ==
  ASSUME RecordInv, TInv', NEW w \in Workers, Sweep(w)
  PROVE  RecordInv'
<1>1. /\ flow[w].pc = "sweep" \/ Executing(w)
      /\ flow[w].pc \in {"sweep", "step"}
      /\ SweepDeposit(Job(w)) /\ Goto(w, "submit")
      /\ UNCHANGED <<path, row, log, returnRef, ledger, intent, payout, consumed, optx,
                     sent, mined>>
  BY DEF Sweep, Executing, InState, At, env, db
<1>2. path[Job(w)] = "order" /\ deposit[Job(w)] # "none"
  <2>1. CASE flow[w].pc = "sweep"
    BY <2>1, KnowsNow DEF HasDone, Job
  <2>2. CASE Executing(w)
    <3>1. path[Job(w)] = "order" /\ flow[w].cur.state = "ASSET_RECEIVED"
      BY <2>2 DEF Executing, InState, Cur
    <3>2. Funded(Job(w))
      BY <1>1, <3>1, KnowsNow DEF Remembers, Says, Received, Job
    <3> QED
      BY <3>1, <3>2 DEF Funded
  <2> QED
    BY <1>1, <2>1, <2>2
<1>3. Grows /\ Recorded' /\ AllBacked' /\ deposit'[Job(w)] = "swept"
  BY <1>1, <1>2, SweepMoves
<1>4. Went(w, "submit") /\ SigFades(w)
  BY <1>1, Fitting, GotoGoes, GotoFades, "submit" \in Labels DEF Labels
<1>5. HasDone(flow[w])'
  BY <1>3, <1>4 DEF Went, HasDone, SweptPcs, Job
<1>6. Knows(flow[w])'
  BY <1>1, <1>3, <1>4, <1>5, CarriesKnows DEF Went
<1> QED
  BY <1>3, <1>4, <1>6, MoveAgrees DEF Went

LEMMA ReturnSweepAgrees ==
  ASSUME RecordInv, TInv', NEW w \in Workers, ReturnSweep(w)
  PROVE  RecordInv'
<1>1. /\ flow[w].pc = "retSweep" /\ SweepDeposit(Job(w))
      /\ Stop(w) \/ Goto(w, "retStart")
      /\ UNCHANGED <<path, row, log, returnRef, ledger, intent, payout, consumed, optx,
                     sent, mined>>
  BY DEF ReturnSweep, At, env, db
<1>2. path[Job(w)] = "order" /\ deposit[Job(w)] # "none"
  BY <1>1, KnowsNow DEF HasDone, Job
<1>3. Grows /\ Recorded' /\ AllBacked' /\ deposit'[Job(w)] = "swept"
  BY <1>1, <1>2, SweepMoves
<1>4. CASE Stop(w)
  BY <1>3, <1>4, Fitting, StopEnds, EndedAgrees
<1>5. CASE Goto(w, "retStart")
  <2>1. Went(w, "retStart") /\ SigFades(w)
    BY <1>5, Fitting, GotoGoes, GotoFades, "retStart" \in Labels DEF Labels
  <2>2. HasDone(flow[w])'
    BY <1>3, <2>1 DEF Went, HasDone, SweptPcs, Job
  <2>3. Knows(flow[w])'
    BY <1>1, <1>3, <2>1, <2>2, CarriesKnows DEF Went
  <2> QED
    BY <1>3, <2>1, <2>3, MoveAgrees DEF Went
<1> QED
  BY <1>1, <1>4, <1>5

LEMMA MineAgrees ==
  ASSUME RecordInv, TInv', Mine
  PROVE  RecordInv'
<1> DEFINE n == mined + 1
           t == optx[mined + 1]
<1>1. UNCHANGED <<path, row, log, returnRef, ledger, intent, payout, deposit, sent, flow>>
  BY DEF Mine, env, db
<1>2. PICK s \in TxStatus : MinedAs(s)
  BY MineMines, Fitting
<1>3. n \in Tx /\ n <= sent /\ t \in TxType /\ mined' = n /\ mined \in Nat /\ sent \in Nat
  <2>1. n \in Tx /\ n <= sent /\ t \in TxType
    BY MineMines, Fitting
  <2>2. mined' = n
    BY DEF Mine
  <2>3. mined \in Nat /\ sent \in Nat
    BY Fitting, ConstantsAssumption DEF ChainFits
  <2> QED
    BY <2>1, <2>2, <2>3
<1>4. /\ consumed \in [Payments -> BOOLEAN] /\ optx \in [Tx -> TxType]
      /\ \A i \in Tx : Backed(i)
  BY Fitting DEF ChainFits, RecordInv
<1>5. /\ \A i \in Tx \ {n} : optx'[i] = optx[i]
      /\ optx'[n].kind = t.kind /\ optx'[n].p = t.p /\ optx'[n].status = s
  BY <1>2, <1>3, <1>4 DEF MinedAs, TxType
<1>6. t.status # "success"
  BY <1>3, <1>4 DEF Backed
<1>7. \A i \in Tx : Lasts(i)
  BY <1>5, <1>6 DEF Lasts
<1>8. Moves
  <2>1. t.kind = "order" => t.p \in Payments /\ deposit[t.p] = "swept"
    BY <1>3, <1>4 DEF Backed
  <2>2. \/ consumed' = consumed
        \/ t.kind = "order" /\ consumed' = [consumed EXCEPT ![t.p] = TRUE]
    BY <1>2 DEF MinedAs
  <2> HIDE DEF t
  <2> QED
    BY <1>1, <1>4, <2>1, <2>2 DEF Moves
<1>9. Grows /\ Recorded'
  BY <1>7, <1>8, MovesGrow
<1>10. ASSUME NEW i \in Tx PROVE Backed(i)'
  <2>1. CASE i # n
    <3>1. (i > sent' => i > sent) /\ (i <= sent' => i <= sent)
      BY <1>1, <1>3
    <3> QED
      BY <1>1, <1>3, <1>4, <1>5, <1>9, <2>1, <3>1, BackedStays
  <2>2. CASE i = n
    <3>1. t.kind # "none" /\ t.p \in Payments /\ deposit[t.p] = "swept"
      BY <1>3, <1>4 DEF Backed
    <3>2. t.kind = "order" /\ s = "success" => consumed'[t.p]
      BY <1>2, <1>4, <3>1 DEF MinedAs
    <3>3. t.kind = "order" /\ s = "AlreadyConsumed" => consumed'[t.p]
      BY <1>2, <1>4, <3>1 DEF MinedAs, Outcomes
    <3> HIDE DEF t
    <3> QED
      BY <1>1, <1>3, <1>5, <2>2, <3>1, <3>2, <3>3 DEF Backed
  <2> QED
    BY <2>1, <2>2
<1> QED
  BY <1>1, <1>9, <1>10, StepAgrees DEF AllBacked

(***************************************************************************)
(* The steps that broadcast                                                *)
(***************************************************************************)
LEMMA BroadcastAgrees ==
  ASSUME RecordInv, NEW t \in TxType, Broadcast(t), t.kind # "none",
         t.p \in Payments, deposit[t.p] = "swept", t.status = "pending",
         UNCHANGED <<path, row, log, returnRef, ledger, intent, payout, deposit,
                     consumed, mined>>
  PROVE  /\ Grows /\ Recorded' /\ AllBacked'
         /\ sent + 1 \in Tx /\ optx'[sent + 1] = t
<1>1. /\ sent \in Nat /\ mined \in Nat /\ mined <= sent /\ optx \in [Tx -> TxType]
      /\ sent + 1 \in Tx
  BY Fitting, ConstantsAssumption DEF ChainFits, Broadcast, Tx
<1>2. /\ optx'[sent + 1] = t /\ sent' = sent + 1
      /\ \A i \in Tx \ {sent + 1} : optx'[i] = optx[i]
  BY <1>1 DEF Broadcast
<1>3. \A i \in Tx : Backed(i)
  BY DEF RecordInv
<1>4. optx[sent + 1] = NoTx
  BY <1>1, <1>3 DEF Backed
<1>5. \A i \in Tx : Lasts(i)
  BY <1>2, <1>4 DEF Lasts, NoTx
<1>6. Grows
  BY <1>5 DEF Grows, Gains, Advances
<1>7. Recorded'
  BY <1>6, RecordedStays
<1>8. ASSUME NEW i \in Tx PROVE Backed(i)'
  <2>1. CASE i # sent + 1
    <3>1. (i > sent' => i > sent) /\ (i <= sent' => i <= sent)
      <4>1. i \in Nat
        BY DEF Tx
      <4> QED
        BY <1>1, <1>2, <2>1, <4>1
    <3> QED
      BY <1>1, <1>2, <1>3, <1>6, <2>1, <3>1, BackedStays
  <2>2. CASE i = sent + 1
    BY <1>1, <1>2, <2>2 DEF Backed
  <2> QED
    BY <2>1, <2>2
<1> QED
  BY <1>1, <1>2, <1>6, <1>7, <1>8 DEF AllBacked

LEMMA SubmitAgrees ==
  ASSUME RecordInv, TInv', NEW w \in Workers, Submit(w)
  PROVE  RecordInv'
<1>1. /\ flow[w].pc = "submit"
      /\ UNCHANGED <<path, row, log, returnRef, ledger, intent, payout>>
  BY DEF Submit, At, env, db
<1>2. /\ deposit[flow[w].job] = "swept" /\ flow[w].job \in Payments
      /\ flow[w].cur \in RowType
  BY <1>1, KnowsNow DEF HasDone, SweptPcs
<1>3. CASE consumed[flow[w].job]
  <2>1. Goto(w, "book") /\ UNCHANGED facts
    BY <1>1, <1>3 DEF Submit, Job, chain, facts
  <2>2. Went(w, "book") /\ SigFades(w)
    BY <2>1, Fitting, GotoGoes, GotoFades, "book" \in Labels DEF Labels
  <2>3. HasDone(flow[w])'
    BY <1>2, <1>3, <2>1, <2>2 DEF Went, HasDone, SweptPcs, facts
  <2> QED
    BY <1>1, <2>1, <2>2, <2>3, LocalAgrees DEF Went
<1>4. CASE ~consumed[flow[w].job]
  <2> DEFINE t == [kind |-> "order", p |-> Job(w), deadline |-> Cur(w).deadline,
                   status |-> "pending"]
  <2>1. t \in TxType /\ t.kind = "order" /\ t.p = flow[w].job /\ t.status = "pending"
    BY <1>2 DEF TxType, TxStatus, RowType, Job, Cur
  <2>2. /\ Broadcast(t) /\ UNCHANGED <<deposit, consumed, mined>>
        /\ flow' = [flow EXCEPT ![w].pc = "ordering", ![w].tx = sent + 1]
    BY <1>4 DEF Submit, Job
  <2> HIDE DEF t
  <2>3. /\ Grows /\ Recorded' /\ AllBacked' /\ sent + 1 \in Tx /\ optx'[sent + 1] = t
    BY <1>1, <1>2, <2>1, <2>2, BroadcastAgrees
  <2>4. sent + 1 \in 0..MaxTx
    BY <2>3, ConstantsAssumption DEF Tx
  <2>5. Went(w, "ordering") /\ flow'[w].tx = sent + 1
    BY <2>2, <2>4, Fitting, TakesTxGoes, "ordering" \in Labels DEF Labels
  <2>6. SigFades(w)
    BY <2>2, Fitting DEF SigFades, FlowType
  <2>7. HasDone(flow[w])'
    BY <1>2, <2>1, <2>2, <2>3, <2>5 DEF Went, HasDone, SweptPcs, IsOrder
  <2>8. Knows(flow[w])'
    BY <1>1, <2>3, <2>5, <2>6, <2>7, CarriesKnows DEF Went
  <2> QED
    BY <2>3, <2>5, <2>8, MoveAgrees DEF Went
<1> QED
  BY <1>3, <1>4

LEMMA ReturnSendAgrees ==
  ASSUME RecordInv, TInv', NEW w \in Workers, ReturnSend(w)
  PROVE  RecordInv'
<1> DEFINE t == [kind |-> "return", p |-> Job(w), deadline |-> 0,
                 status |-> "pending"]
<1>1. /\ flow[w].pc = "retSend" /\ Broadcast(t)
      /\ UNCHANGED <<path, row, log, returnRef, ledger, intent, payout, deposit,
                     consumed, mined>>
      /\ flow' = [flow EXCEPT ![w].pc = "retRecord", ![w].tx = sent + 1]
  BY DEF ReturnSend, At, env, db
<1>2. deposit[flow[w].job] = "swept" /\ flow[w].job \in Payments
  BY <1>1, KnowsNow DEF HasDone, SweptPcs
<1>3. t \in TxType /\ t.kind = "return" /\ t.p = flow[w].job /\ t.status = "pending"
  BY <1>2 DEF TxType, TxStatus, Job
<1> HIDE DEF t
<1>4. /\ Grows /\ Recorded' /\ AllBacked' /\ sent + 1 \in Tx /\ optx'[sent + 1] = t
  BY <1>1, <1>2, <1>3, BroadcastAgrees
<1>5. sent + 1 \in 0..MaxTx
  BY <1>4, ConstantsAssumption DEF Tx
<1>6. Went(w, "retRecord") /\ flow'[w].tx = sent + 1
  BY <1>1, <1>5, Fitting, TakesTxGoes, "retRecord" \in Labels DEF Labels
<1>7. SigFades(w)
  BY <1>1, Fitting DEF SigFades, FlowType
<1>8. HasDone(flow[w])'
  BY <1>3, <1>4, <1>6 DEF Went, HasDone, SweptPcs, IsReturn
<1>9. Knows(flow[w])'
  BY <1>1, <1>4, <1>6, <1>7, <1>8, CarriesKnows DEF Went
<1> QED
  BY <1>4, <1>6, <1>9, MoveAgrees DEF Went

(***************************************************************************)
(* The steps that update the row                                           *)
(***************************************************************************)

\* Flow w writes new and its event over the row it read, along a legal move, and
\* all that the new state says is so.
Writes(w, new, event) ==
    /\ flow[w].pc # "idle"
    /\ Updates(w, new, event)
    /\ new \in RowType /\ new.version = flow[w].cur.version
    /\ LegalMove(flow[w].cur.state, new.state)
    /\ Says(flow[w].job, new.state)
    /\ event = "ASSET_RECEIVED" =>
           Funded(flow[w].job) /\ Booked(flow[w].job, "ASSET_RECEIVED")
    /\ flow[w].cur.state = "FAILED" /\ new.state = "ASSET_RECEIVED" =>
           flow[w].pc = "reopen"
    /\ flow[w].cur.state = "FAILED" /\ new.state = "FAILED" => new = flow[w].cur
    /\ event = "return.started" => flow[w].cur.state = "FAILED"

LEMMA LegalSettled ==
  ASSUME NEW s, NEW t, LegalMove(s, t)
  PROVE  t # "NONE" /\ (s \in Settled => t \in Settled)
  BY DEF LegalMove, Settled, NextState, Resumable, Terminal, CanFail, States

LEMMA WritesChange ==
  ASSUME RecordInv, NEW w \in Workers, NEW new, NEW event, Writes(w, new, event)
  PROVE  LET p == flow[w].job IN
         /\ p \in Payments /\ flow[w].cur = row[p] /\ row[p] \in RowType
         /\ row'[p] = Bump(new) /\ log'[p] = log[p] \cup {event}
         /\ row'[p].version = row[p].version + 1 /\ row'[p].state = new.state
         /\ \A q \in Payments \ {p} : row'[q] = row[q] /\ log'[q] = log[q]
         /\ UNCHANGED <<path, ledger, intent, deposit, consumed, optx, sent, mined, payout>>
<1>1. /\ flow[w].job \in Payments /\ row[flow[w].job] \in RowType
      /\ Matches(flow[w])
  BY KnowsNow DEF Writes
<1>2. flow[w].cur.version = row[flow[w].job].version
  BY DEF Writes, Updates, Update, Current, Row, Cur
<1>3. flow[w].cur = row[flow[w].job]
  BY <1>1, <1>2 DEF Matches
<1>4. /\ row' = [row EXCEPT ![flow[w].job] = Bump(new)]
      /\ log' = [log EXCEPT ![flow[w].job] = @ \cup {event}]
  BY DEF Writes, Updates, Update, Job
<1>5. /\ row'[flow[w].job] = Bump(new)
      /\ log'[flow[w].job] = log[flow[w].job] \cup {event}
      /\ \A q \in Payments \ {flow[w].job} : row'[q] = row[q] /\ log'[q] = log[q]
  BY <1>1, <1>4, Fitting DEF DataFits
<1>6. Bump(new).version = row[flow[w].job].version + 1 /\ Bump(new).state = new.state
  BY <1>2, BumpFits DEF Writes
<1>7. UNCHANGED <<path, ledger, intent, deposit, consumed, optx, sent, mined, payout>>
  BY DEF Writes, Updates, chain
<1> QED
  BY <1>1, <1>3, <1>5, <1>6, <1>7

LEMMA WritesGrow ==
  ASSUME RecordInv, NEW w \in Workers, NEW new, NEW event, Writes(w, new, event)
  PROVE  Grows /\ AllBacked'
<1> DEFINE p == flow[w].job
<1>1. /\ p \in Payments /\ flow[w].cur = row[p]
      /\ row'[p].version = row[p].version + 1 /\ row'[p].state = new.state
      /\ \A q \in Payments \ {p} : row'[q] = row[q]
      /\ UNCHANGED <<path, ledger, intent, deposit, consumed, optx, sent, mined, payout>>
  BY WritesChange
<1>2. row[p].state \in Settled => row'[p].state \in Settled
  BY <1>1, LegalSettled DEF Writes
<1>3. \A q \in Payments : Advances(q)
  BY <1>1, <1>2 DEF Advances
<1>4. Grows
  BY <1>1, <1>3 DEF Grows, Gains, Lasts
<1> QED
  BY <1>1, <1>4, AllBackedStays

LEMMA WritesRecorded ==
  ASSUME RecordInv, NEW w \in Workers, NEW new, NEW event, Writes(w, new, event),
         \/ UNCHANGED returnRef
         \/ /\ IsReturn(flow[w].tx, flow[w].job)
            /\ returnRef' = [returnRef EXCEPT ![flow[w].job] = flow[w].tx]
  PROVE  Recorded'
<1> DEFINE p == flow[w].job
<1>1. /\ p \in Payments /\ flow[w].cur = row[p] /\ log'[p] = log[p] \cup {event}
      /\ row'[p].state = new.state
      /\ \A q \in Payments \ {p} : row'[q] = row[q] /\ log'[q] = log[q]
      /\ UNCHANGED <<path, ledger, intent, deposit, consumed, optx, sent, mined, payout>>
  BY WritesChange
<1>2. Grows
  BY WritesGrow
<1>3. returnRef \in [Payments -> 0..MaxTx]
  BY Fitting DEF DataFits
<1> SUFFICES ASSUME NEW q \in Payments PROVE Record(q)'
  BY DEF Recorded
<1>4. Standing(q) /\ Books(q) /\ Holding(q)
  BY DEF RecordInv, Record
<1>5. Books(q)'
  BY <1>1, <1>2, <1>4, BooksStay
<1>6. Holding(q)'
  <2>1. \/ returnRef'[q] = returnRef[q]
        \/ returnRef'[q] = flow[w].tx /\ IsReturn(flow[w].tx, q)
    BY <1>1, <1>3
  <2>2. (returnRef[q] # 0 => IsReturn(returnRef[q], q))'
    BY <1>1, <1>4, <2>1 DEF Holding, IsReturn
  <2> QED
    BY <1>1, <1>4, <2>2 DEF Holding
<1>7. Standing(q)'
  <2>1. CASE q # p
    BY <1>1, <1>2, <1>4, <2>1, StandingStays
  <2>2. CASE q = p
    <3>1. Says(q, new.state) /\ LegalMove(row[q].state, new.state)
      BY <1>1, <2>2 DEF Writes
    <3>2. Says(q, row[q].state)'
      BY <1>1, <2>2, <3>1 DEF Says, Funded, Booked, Paid
    <3>3. ("ASSET_RECEIVED" \in log[q] => Funded(q) /\ Booked(q, "ASSET_RECEIVED"))'
      BY <1>1, <1>4, <2>2 DEF Writes, Standing, Funded, Booked
    <3>4. (intent[q] = "COMPLETED" => Paid(q) /\ row[q].state \in Settled)'
      BY <1>1, <1>4, <2>2, <3>1, LegalSettled DEF Standing, Paid
    <3>5. (row[q].state = "NONE" => row[q].version = 0)'
      BY <1>1, <2>2, <3>1, LegalSettled
    <3> QED
      BY <3>2, <3>3, <3>4, <3>5 DEF Standing
  <2> QED
    BY <2>1, <2>2
<1> QED
  BY <1>5, <1>6, <1>7 DEF Record

\* It goes on from what it wrote.
LEMMA WroteKnowsIt ==
  ASSUME RecordInv, NEW w \in Workers, NEW new, NEW event, Writes(w, new, event),
         NEW l, Wrote(w, new, l), SigFades(w), HasDone(flow[w])'
  PROVE  Knows(flow[w])'
<1> DEFINE p == flow[w].job
<1>1. /\ p \in Payments /\ row'[p] = Bump(new) /\ row'[p].state = new.state
      /\ UNCHANGED <<path, ledger, intent, deposit, consumed, optx, sent, mined, payout>>
      /\ row[p] \in RowType /\ row'[p].version = row[p].version + 1
  BY WritesChange
<1>2. flow'[w].job = p /\ flow'[w].cur = row'[p]
  BY <1>1 DEF Wrote
<1>3. row'[p].version \in Nat
  BY <1>1 DEF RowType
<1>4. Matches(flow[w])'
  BY <1>2, <1>3 DEF Matches
<1>5. Remembers(flow[w])'
  <2>1. Says(p, new.state) /\ Remembers(flow[w])
    BY KnowsNow DEF Writes
  <2>2. Says(flow[w].job, flow[w].cur.state)'
    BY <1>1, <1>2, <2>1 DEF Says, Funded, Booked, Paid
  <2>3. (flow[w].sig => Funded(flow[w].job))'
    BY <1>1, <1>2, <2>1 DEF Remembers, SigFades, Funded
  <2> QED
    BY <1>1, <1>2, <2>2, <2>3 DEF Remembers
<1> QED
  BY <1>4, <1>5 DEF Knows

LEMMA NextIsLegal ==
  ASSUME NEW s \in Resumable
  PROVE  /\ LegalMove(s, NextState(s)) /\ s # "FAILED" /\ NextState(s) # "return.started"
         /\ s \in {"CREATED", "QR_PARSED", "PRICE_LOCKED"} => NextState(s) \notin Received
         /\ s = "CLEARING" => NextState(s) = "SETTLING"
  BY DEF LegalMove, NextState, Resumable, Terminal, States, Received, Cleared

LEMMA InsertWrites ==
  ASSUME RecordInv, NEW w \in Workers, Insert(w)
  PROVE  /\ Writes(w, [NoRow EXCEPT !.state = "CREATED"], "CREATED")
         /\ Wrote(w, [NoRow EXCEPT !.state = "CREATED"], "mark") /\ UNCHANGED returnRef
<1> DEFINE new == [NoRow EXCEPT !.state = "CREATED"]
<1>1. /\ new \in RowType /\ new.state = "CREATED" /\ new.version = 0
      /\ Updates(w, new, "CREATED") /\ Wrote(w, new, "mark")
      /\ flow[w].pc = "insert" /\ UNCHANGED returnRef
  BY Fitting, InsertUpdates
<1> HIDE DEF new
<1>2. /\ flow[w].cur.state = "NONE" /\ Standing(flow[w].job)
  BY <1>1, KnowsNow DEF Stage, Record
<1>3. row[flow[w].job].state = "NONE" /\ flow[w].cur.version = row[flow[w].job].version
  BY <1>1 DEF Insert, Updates, Update, Current, Row, Cur
<1>4. flow[w].cur.version = 0
  BY <1>2, <1>3 DEF Standing
<1>5. LegalMove("NONE", "CREATED") /\ Says(flow[w].job, "CREATED")
  BY DEF LegalMove, Says, Received, Cleared, Settled
<1>6. Writes(w, new, "CREATED")
  BY <1>1, <1>2, <1>4, <1>5 DEF Writes
<1> QED
  BY <1>1, <1>6 DEF new

LEMMA RenewWrites ==
  ASSUME RecordInv, NEW w \in Workers, Renew(w)
  PROVE  LET new == [Cur(w) EXCEPT !.deadline = now + RenewTtl] IN
         /\ Writes(w, new, "ASSET_RECEIVED") /\ Wrote(w, new, "sweep")
         /\ path[flow[w].job] = "order" /\ UNCHANGED returnRef
<1> DEFINE new == [Cur(w) EXCEPT !.deadline = now + RenewTtl]
<1>1. /\ new \in RowType /\ new.state = Cur(w).state /\ new.version = Cur(w).version
      /\ Updates(w, new, "ASSET_RECEIVED") /\ Wrote(w, new, "sweep")
      /\ flow[w].pc = "step" /\ Cur(w).state = "ASSET_RECEIVED"
      /\ path[Job(w)] = "order" /\ UNCHANGED returnRef
  BY Fitting, RenewUpdates DEF DataFits
<1> HIDE DEF new
<1>2. Says(flow[w].job, "ASSET_RECEIVED")
  BY <1>1, KnowsNow DEF Remembers, Cur
<1>3. LegalMove("ASSET_RECEIVED", "ASSET_RECEIVED")
  BY DEF LegalMove
<1>4. Funded(flow[w].job) /\ Booked(flow[w].job, "ASSET_RECEIVED")
  BY <1>2 DEF Says, Received
<1>5. Writes(w, new, "ASSET_RECEIVED")
  BY <1>1, <1>2, <1>3, <1>4 DEF Writes, Cur
<1> QED
  BY <1>1, <1>5 DEF new, Job

\* What a transition writes has been done.
LEMMA MovedIsSaid ==
  ASSUME RecordInv, NEW w \in Workers, Persist(w) \/ Finish(w)
  PROVE  /\ flow[w].pc \in {"step", "persist"} /\ flow[w].cur.state \in Resumable
         /\ Updates(w, Moved(w), Moved(w).state)
         /\ Writes(w, Moved(w), Moved(w).state) /\ UNCHANGED returnRef
         /\ Persist(w) => Wrote(w, Moved(w), "step")
         /\ Finish(w) => Ended(w)
<1>1. now \in Nat
  BY Fitting DEF DataFits
<1>2. /\ flow[w].pc \in {"step", "persist"} /\ flow[w].cur.state \in Resumable
      /\ flow[w].cur \in RowType
      /\ Updates(w, Moved(w), Moved(w).state) /\ UNCHANGED returnRef
      /\ Persist(w) => Wrote(w, Moved(w), "step")
      /\ Finish(w) => Ended(w)
      /\ \/ flow[w].pc = "persist"
         \/ flow[w].cur.state \in {"CREATED", "QR_PARSED", "PRICE_LOCKED", "CLEARING"}
  <2>1. CASE Persist(w)
    <3>1. Wrote(w, Moved(w), "step")
      BY <1>1, <2>1, Fitting, PersistUpdates
    <3>2. /\ flow[w].pc = "persist"
          \/ flow[w].cur.state \in {"CREATED", "QR_PARSED", "PRICE_LOCKED", "CLEARING"}
      BY <2>1 DEF Persist, Quiet, At, Cur
    <3>3. ~Finish(w) \/ Ended(w)
      BY Fitting, StopEnds DEF Finish
    <3> QED
      BY <1>1, <2>1, <3>1, <3>2, <3>3, Fitting, PersistUpdates DEF Cur
  <2>2. CASE Finish(w) /\ ~Persist(w)
    <3>1. "SETTLED" \in Resumable
      BY DEF Resumable, Terminal, States
    <3> QED
      BY <1>1, <2>2, <3>1, Fitting, FinishUpdates, StopEnds DEF Cur
  <2> QED
    BY <2>1, <2>2
<1>3. /\ Moved(w) \in RowType /\ Moved(w).state = NextState(flow[w].cur.state)
      /\ Moved(w).version = flow[w].cur.version
  BY <1>1, <1>2, Fitting, MovedFits DEF Cur
<1>4. Remembers(flow[w]) /\ HasDone(flow[w])
  BY <1>2, KnowsNow
<1>5. /\ LegalMove(flow[w].cur.state, Moved(w).state) /\ flow[w].cur.state # "FAILED"
      /\ Moved(w).state # "return.started"
  BY <1>2, <1>3, NextIsLegal
<1>6. Says(flow[w].job, Moved(w).state)
  <2>1. CASE flow[w].pc = "persist"
    BY <1>3, <1>4, <2>1 DEF HasDone
  <2>2. CASE flow[w].cur.state \in {"CREATED", "QR_PARSED", "PRICE_LOCKED"}
    <3>1. Moved(w).state \notin Received
      BY <1>2, <1>3, <2>2, NextIsLegal
    <3> QED
      BY <3>1 DEF Says, Received, Cleared, Settled
  <2>3. CASE flow[w].cur.state = "CLEARING"
    <3>1. Moved(w).state = "SETTLING" /\ Says(flow[w].job, "CLEARING")
      BY <1>2, <1>3, <1>4, <2>3, NextIsLegal DEF Remembers
    <3> QED
      BY <3>1 DEF Says, Received, Cleared, Settled
  <2> QED
    BY <1>2, <2>1, <2>2, <2>3
<1>7. Moved(w).state = "ASSET_RECEIVED" =>
          Funded(flow[w].job) /\ Booked(flow[w].job, "ASSET_RECEIVED")
  BY <1>6 DEF Says, Received
<1>8. Writes(w, Moved(w), Moved(w).state)
  BY <1>2, <1>3, <1>5, <1>6, <1>7 DEF Writes
<1> QED
  BY <1>2, <1>8

LEMMA FailWrites ==
  ASSUME RecordInv, NEW w \in Workers, Fail(w)
  PROVE  LET new == [Cur(w) EXCEPT !.state = "FAILED", !.code = flow[w].code,
                                   !.failedAt = now] IN
         Writes(w, new, "FAILED") /\ Wrote(w, new, "failIntent") /\ UNCHANGED returnRef
<1> DEFINE new == [Cur(w) EXCEPT !.state = "FAILED", !.code = flow[w].code,
                                 !.failedAt = now]
<1>1. /\ new \in RowType /\ new.state = "FAILED" /\ new.version = Cur(w).version
      /\ Updates(w, new, "FAILED") /\ Wrote(w, new, "failIntent")
      /\ flow[w].pc = "fail" /\ UNCHANGED returnRef
  BY Fitting, FailUpdates DEF DataFits
<1> HIDE DEF new
<1>2. flow[w].cur.state \in CanFail
  BY <1>1, KnowsNow DEF Stage
<1>3. LegalMove(flow[w].cur.state, "FAILED") /\ Says(flow[w].job, "FAILED")
  BY <1>2 DEF LegalMove, Says, Received, Cleared, Settled
<1>5. flow[w].cur.state # "FAILED"
  BY <1>2 DEF CanFail, Resumable, Terminal
<1>4. Writes(w, new, "FAILED")
  BY <1>1, <1>3, <1>5 DEF Writes, Cur
<1> QED
  BY <1>1, <1>4 DEF new

LEMMA ReopenWrites ==
  ASSUME RecordInv, NEW w \in Workers, Reopen(w)
  PROVE  LET new == [Cur(w) EXCEPT !.state = "ASSET_RECEIVED", !.code = "none",
                                   !.failedAt = 0] IN
         /\ Writes(w, new, "ASSET_RECEIVED") /\ Wrote(w, new, "reopenIntent")
         /\ UNCHANGED returnRef
<1> DEFINE new == [Cur(w) EXCEPT !.state = "ASSET_RECEIVED", !.code = "none",
                                 !.failedAt = 0]
<1>1. /\ new \in RowType /\ new.state = "ASSET_RECEIVED" /\ new.version = Cur(w).version
      /\ Updates(w, new, "ASSET_RECEIVED") /\ Wrote(w, new, "reopenIntent")
      /\ flow[w].pc = "reopen" /\ UNCHANGED returnRef
  BY Fitting, ReopenUpdates
<1> HIDE DEF new
<1>2. /\ flow[w].cur.state = "FAILED"
      /\ Funded(flow[w].job) /\ Booked(flow[w].job, "ASSET_RECEIVED")
  BY <1>1, KnowsNow DEF Stage, FailedPcs, HasDone
<1>3. LegalMove("FAILED", "ASSET_RECEIVED") /\ Says(flow[w].job, "ASSET_RECEIVED")
  BY <1>2 DEF LegalMove, Says, Received, Cleared, Settled
<1>4. Writes(w, new, "ASSET_RECEIVED")
  BY <1>1, <1>2, <1>3 DEF Writes, Cur
<1> QED
  BY <1>1, <1>4 DEF new

\* A return event: the row stays failed.
LEMMA ReturnWrites ==
  ASSUME RecordInv, NEW w \in Workers, NEW event, event # "ASSET_RECEIVED",
         flow[w].pc \in {"retStart", "retRecord", "retConfirm"},
         Updates(w, Cur(w), event)
  PROVE  Writes(w, Cur(w), event)
<1>1. flow[w].cur.state = "FAILED" /\ flow[w].cur \in RowType
  BY KnowsNow DEF Stage, FailedPcs
<1>2. LegalMove("FAILED", "FAILED") /\ Says(flow[w].job, "FAILED")
  BY DEF LegalMove, Says, Received, Cleared, Settled
<1> QED
  BY <1>1, <1>2 DEF Writes, Cur

LEMMA WriterFades ==
  ASSUME flow \in [Workers -> FlowType], NEW w \in Workers,
         \/ Insert(w) \/ Renew(w) \/ Persist(w) \/ Fail(w) \/ Reopen(w)
         \/ ReturnStart(w) \/ ReturnRecord(w)
  PROVE  SigFades(w)
<1>1. CASE Persist(w)
  BY <1>1 DEF Persist, SigFades, FlowAt
<1>2. CASE Renew(w)
  BY <1>2 DEF Renew, SigFades, FlowType
<1>3. CASE \E new, l : Continue(w, new, l)
  BY <1>3 DEF Continue, SigFades, FlowType
<1> QED
  BY <1>1, <1>2, <1>3 DEF Insert, Fail, Reopen, ReturnStart, ReturnRecord

\* A flow that wrote and goes on.
LEMMA WroteAgrees ==
  ASSUME RecordInv, TInv', NEW w \in Workers, NEW new, NEW event,
         Writes(w, new, event), NEW l, Wrote(w, new, l), SigFades(w),
         HasDone(flow[w])',
         \/ UNCHANGED returnRef
         \/ /\ IsReturn(flow[w].tx, flow[w].job)
            /\ returnRef' = [returnRef EXCEPT ![flow[w].job] = flow[w].tx]
  PROVE  RecordInv'
<1>1. Grows /\ AllBacked' /\ Recorded'
  BY WritesGrow, WritesRecorded
<1>2. Knows(flow[w])' /\ OnlyMoves(w)
  BY WroteKnowsIt DEF Wrote
<1> QED
  BY <1>1, <1>2, MoveAgrees

LEMMA UpdateAgrees ==
  ASSUME RecordInv, TInv', NEW w \in Workers,
         \/ Insert(w) \/ Renew(w) \/ Persist(w) \/ Finish(w) \/ Fail(w) \/ Reopen(w)
         \/ ReturnStart(w) \/ ReturnRecord(w) \/ ReturnConfirm(w)
  PROVE  RecordInv'
<1>1. ASSUME Insert(w) \/ Persist(w) \/ Fail(w) \/ Reopen(w) PROVE RecordInv'
  <2>1. PICK new, event, l : Writes(w, new, event) /\ Wrote(w, new, l)
                             /\ l \in PlainPcs /\ UNCHANGED returnRef
    <3>1. {"mark", "step", "failIntent", "reopenIntent"} \subseteq PlainPcs
      BY DEF PlainPcs
    <3> QED
      BY <1>1, <3>1, InsertWrites, MovedIsSaid, FailWrites, ReopenWrites
  <2>2. HasDone(flow[w])'
    BY <2>1, PlainHasDone DEF Wrote
  <2>3. SigFades(w)
    BY <1>1, Fitting, WriterFades
  <2> QED
    BY <2>1, <2>2, <2>3, WroteAgrees
<1>2. CASE Renew(w)
  <2>1. PICK new : /\ Writes(w, new, "ASSET_RECEIVED") /\ Wrote(w, new, "sweep")
                   /\ path[flow[w].job] = "order" /\ UNCHANGED returnRef
    BY <1>2, RenewWrites
  <2>2. SigFades(w)
    BY <1>2, Fitting, WriterFades
  <2>3. /\ UNCHANGED <<path, deposit>>
        /\ Funded(flow[w].job)
    BY <2>1, WritesChange DEF Writes
  <2>4. HasDone(flow[w])'
    BY <2>1, <2>3 DEF Wrote, HasDone, SweptPcs, Funded
  <2> QED
    BY <2>1, <2>2, <2>4, WroteAgrees
<1>3. CASE Finish(w) \/ ReturnConfirm(w)
  <2>1. PICK new, event : Writes(w, new, event) /\ Ended(w) /\ UNCHANGED returnRef
    <3>1. CASE Finish(w)
      BY <3>1, MovedIsSaid
    <3>2. CASE ReturnConfirm(w)
      BY <3>2, Fitting, ReturnConfirmUpdates, StopEnds, ReturnWrites
    <3> QED
      BY <1>3, <3>1, <3>2
  <2>2. Grows /\ AllBacked' /\ Recorded'
    BY <2>1, WritesGrow, WritesRecorded
  <2> QED
    BY <2>1, <2>2, EndedAgrees
<1>4. CASE ReturnStart(w)
  <2>1. /\ flow[w].pc = "retStart" /\ Wrote(w, Cur(w), "retSend") /\ UNCHANGED returnRef
        /\ Writes(w, Cur(w), "return.started")
    BY <1>4, Fitting, ReturnStartUpdates, ReturnWrites
  <2>2. SigFades(w)
    BY <1>4, Fitting, WriterFades
  <2>3. deposit[flow[w].job] = "swept" /\ UNCHANGED deposit
    BY <2>1, KnowsNow, WritesChange DEF HasDone, SweptPcs
  <2>4. HasDone(flow[w])'
    BY <2>1, <2>3 DEF Wrote, HasDone, SweptPcs
  <2> QED
    BY <2>1, <2>2, <2>4, WroteAgrees
<1>5. CASE ReturnRecord(w)
  <2>1. /\ flow[w].pc = "retRecord" /\ Wrote(w, Cur(w), "retReceipt")
        /\ flow'[w].tx = flow[w].tx
        /\ Writes(w, Cur(w), "return.broadcast")
        /\ returnRef' = [returnRef EXCEPT ![flow[w].job] = flow[w].tx]
    BY <1>5, Fitting, ReturnRecordUpdates, ReturnWrites DEF Job
  <2>2. SigFades(w)
    BY <1>5, Fitting, WriterFades
  <2>3. IsReturn(flow[w].tx, flow[w].job) /\ UNCHANGED optx
    BY <2>1, KnowsNow, WritesChange DEF HasDone
  <2>4. HasDone(flow[w])'
    BY <2>1, <2>3 DEF Wrote, HasDone, SweptPcs, IsReturn
  <2> QED
    BY <2>1, <2>2, <2>3, <2>4, WroteAgrees
<1> QED
  BY <1>1, <1>2, <1>3, <1>4, <1>5

(***************************************************************************)
(* The invariant                                                           *)
(***************************************************************************)
LEMMA InitRecord == Init => RecordInv
<1> SUFFICES ASSUME Init PROVE RecordInv
  OBVIOUS
<1>1. TInv
  BY InitTypes
<1>2. ASSUME NEW p \in Payments PROVE Record(p)
  BY DEF Init, Record, Standing, Books, Holding, Says, Booked, NoRow, Received,
         Cleared, Settled
<1>3. ASSUME NEW i \in Tx PROVE Backed(i)
  <2>1. optx[i] = NoTx /\ sent = 0 /\ i \in Nat /\ i > 0
    BY DEF Init, Tx
  <2> QED
    BY <2>1 DEF Backed, NoTx
<1>4. ASSUME NEW w \in Workers PROVE Knows(flow[w])
  BY DEF Init, Knows, Idle, FlowAt
<1> QED
  BY <1>1, <1>2, <1>3, <1>4 DEF RecordInv

LEMMA NextRecord == RecordInv /\ [Next]_vars => RecordInv'
<1> SUFFICES ASSUME RecordInv, [Next]_vars PROVE RecordInv'
  OBVIOUS
<1>0. TInv'
  BY NextTypes DEF RecordInv
<1>1. CASE Tick \/ UNCHANGED vars
  <2>1. UNCHANGED facts /\ UNCHANGED flow
    BY <1>1 DEF Tick, vars, db, chain, facts
  <2> QED
    BY <1>0, <2>1, StillAgrees
<1>2. CASE Mine
  BY <1>0, <1>2, MineAgrees
<1>3. ASSUME NEW p \in Payments, World(p) PROVE RecordInv'
  BY <1>0, <1>3, IntentAgrees, PayerAgrees DEF World
<1>4. ASSUME NEW w \in Workers, NEW p \in Payments, PickUp(w, p) PROVE RecordInv'
  BY <1>0, <1>4, PickUpAgrees
<1>5. ASSUME NEW h \in Hosts, Crash(h) PROVE RecordInv'
  BY <1>0, <1>5, CrashAgrees
<1>6. ASSUME NEW w \in Workers, Run(w) \/ SubmitFails(w) \/ Throw(w) PROVE RecordInv'
  <2>1. CASE EndsFlow(w) \/ Enter(w) \/ QuoteExpired(w) \/ Unconfirmed(w) \/ Throw(w)
             \/ SubmitFails(w) \/ OrderMined(w)
    BY <1>0, <2>1, EndsFlowAgrees, EnterAgrees, FailingAgrees, OrderMinedAgrees
  <2>2. CASE ReadEvents(w) \/ ReturnRead(w) \/ ReturnCheck(w)
    BY <1>0, <2>2, ReadEventsAgrees, ReturnReadAgrees, ReturnCheckAgrees
  <2>3. CASE Receive(w) \/ Clear(w) \/ Confirm(w) \/ Book(w) \/ PostLate(w)
             \/ ReturnReceipt(w)
    BY <1>0, <2>3, ReceiveAgrees, ClearAgrees, ConfirmAgrees, BookAgrees,
       PostLateAgrees, ReturnReceiptAgrees
  <2>4. CASE MarkProcessing(w) \/ ReopenIntent(w) \/ FailIntent(w) \/ Complete(w)
             \/ Settle(w)
    BY <1>0, <2>4, IntentStepAgrees, CompleteAgrees, SettleAgrees
  <2>5. CASE Sweep(w) \/ ReturnSweep(w) \/ Submit(w) \/ ReturnSend(w)
    BY <1>0, <2>5, SweepAgrees, ReturnSweepAgrees, SubmitAgrees, ReturnSendAgrees
  <2>6. CASE \/ Insert(w) \/ Renew(w) \/ Persist(w) \/ Finish(w) \/ Fail(w) \/ Reopen(w)
             \/ ReturnStart(w) \/ ReturnRecord(w) \/ ReturnConfirm(w)
    BY <1>0, <2>6, UpdateAgrees
  <2> QED
    BY <1>6, <2>1, <2>2, <2>3, <2>4, <2>5, <2>6 DEF Run, EndsFlow
<1> QED
  BY <1>1, <1>2, <1>3, <1>4, <1>5, <1>6 DEF Next

LEMMA RecordHolds == Spec => []RecordInv
  BY InitRecord, NextRecord, PTL DEF Spec

(***************************************************************************)
(* What follows                                                            *)
(***************************************************************************)

\* engine.ts #executeTreasury, acceptLateFunds: however flows interleave, crash
\* and reopen a payment, its clearing is never booked before the postings that
\* fund the payable it debits.
THEOREM ClearingCovered == Spec => []ClearingIsCovered
<1>1. RecordInv => ClearingIsCovered
  BY DEF RecordInv, Record, Books, Booked, ClearingIsCovered
<1> QED
  BY <1>1, RecordHolds, PTL

\* Every posting is of something that happened in the world: a swap, a
\* settlement, a return, a receipt.
THEOREM BooksAreTrue == Spec => []BooksMatchTheWorld
<1>1. RecordInv => BooksMatchTheWorld
  BY DEF RecordInv, Record, Books, Booked, Funded, BooksMatchTheWorld
<1> QED
  BY <1>1, RecordHolds, PTL

\* The only steps that change a row, or record an event.
LEMMA OnlyWriters ==
  ASSUME RecordInv, [Next]_vars, row' # row \/ log' # log
  PROVE  \E w \in Workers : \E new, event : Writes(w, new, event)
<1>1. PICK w \in Workers :
         \/ Insert(w) \/ Renew(w) \/ Persist(w) \/ Finish(w) \/ Fail(w) \/ Reopen(w)
         \/ ReturnStart(w) \/ ReturnRecord(w) \/ ReturnConfirm(w)
  <2>1. ASSUME NEW p \in Payments, World(p) PROVE FALSE
    BY <2>1 DEF World, ConfirmIntent, ExpireIntent, PayerDeposits, PayerPays,
                AdapterDecides, db
  <2>2. ASSUME NEW w \in Workers, NEW p \in Payments, PickUp(w, p) PROVE FALSE
    BY <2>2 DEF PickUp, Start, Load, Signal, SweepExpired, FailCall, Retry,
                AcceptLateFunds, ReturnPending, db
  <2>3. CASE Tick \/ Mine \/ UNCHANGED vars \/ (\E h \in Hosts : Crash(h))
    BY <2>3 DEF Tick, Mine, vars, Crash, db
  <2>4. ASSUME NEW w \in Workers, Run(w) \/ SubmitFails(w) \/ Throw(w)
        PROVE  \/ Insert(w) \/ Renew(w) \/ Persist(w) \/ Finish(w) \/ Fail(w)
               \/ Reopen(w) \/ ReturnStart(w) \/ ReturnRecord(w) \/ ReturnConfirm(w)
    BY <2>4 DEF Run, SubmitFails, Throw, MarkProcessing, StartRefused, Enter, Wait,
                QuoteExpired, Receive, Park, Sweep, Submit, OrderMined, Book, Clear,
                Settle, Confirm, Unconfirmed, Complete, CompleteRefused, FailIntent,
                ReadEvents, PostLate, ReopenIntent, ReturnRead, ReturnCheck,
                ReturnSweep, ReturnSend, ReturnReceipt, Conflict, db
  <2> QED
    BY <2>1, <2>2, <2>3, <2>4 DEF Next
<1>2. CASE ReturnStart(w) \/ ReturnRecord(w) \/ ReturnConfirm(w)
  BY <1>2, Fitting, ReturnStartUpdates, ReturnRecordUpdates, ReturnConfirmUpdates,
     ReturnWrites
<1>3. CASE ~(ReturnStart(w) \/ ReturnRecord(w) \/ ReturnConfirm(w))
  BY <1>1, <1>3, InsertWrites, RenewWrites, MovedIsSaid, FailWrites, ReopenWrites
<1> QED
  BY <1>2, <1>3

\* repository.update: the row moves one version at a time along the transition
\* table, so no flow undoes what another wrote.
THEOREM HistoryIsLinear == Spec => LinearHistory
<1>1. ASSUME RecordInv, [Next]_vars, NEW p \in Payments, row'[p] # row[p]
      PROVE  /\ row'[p].version = row[p].version + 1
             /\ LegalMove(row[p].state, row'[p].state)
  <2>1. PICK w \in Workers : \E new, event : Writes(w, new, event)
    BY <1>1, OnlyWriters
  <2>2. PICK new, event : Writes(w, new, event)
    BY <2>1
  <2>3. flow[w].job = p
    BY <1>1, <2>2, WritesChange
  <2> QED
    BY <1>1, <2>2, <2>3, WritesChange DEF Writes
<1>2. RecordInv /\ [Next]_vars =>
         [\A p \in Payments : row'[p] # row[p] =>
             /\ row'[p].version = row[p].version + 1
             /\ LegalMove(row[p].state, row'[p].state)]_vars
  BY <1>1
<1> QED
  BY <1>2, RecordHolds, PTL DEF Spec, LinearHistory

(***************************************************************************)
(* What follows from both invariants of the engine together: IInv, which   *)
(* says when a payment may go both ways, and RecordInv, which says that    *)
(* what is stored is true.                                                 *)
(***************************************************************************)
Both == IInv /\ RecordInv

LEMMA BothHold ==
  Spec => []Both
  BY InvariantHolds, RecordHolds, PTL DEF Both

(***************************************************************************)
(* The states                                                              *)
(***************************************************************************)
LEMMA ReturnedHasStarted ==
  ASSUME IInv, NEW p \in Payments, ReturnTxs(p) # {}
  PROVE  Started(p) /\ path[p] = "order" /\ row[p].state = "FAILED"
<1>1. PICK i \in Tx : optx[i].kind = "return" /\ optx[i].p = p
  BY DEF ReturnTxs
<1>2. Started(p)
  BY <1>1 DEF IInv, TxInv
<1> QED
  BY <1>2 DEF IInv, StartedInv

\* engine.ts #splitsDepositReceipt: a payment is SUCCESS only with its whole set
\* of postings and a completed intent, and COMPLETED only when it was paid and
\* its clearing can no longer fail.
THEOREM SuccessIsWholeAlways ==
  Spec => []SuccessIsWhole
<1>1. ASSUME Both PROVE SuccessIsWhole
  <2> SUFFICES ASSUME NEW p \in Payments
               PROVE  /\ row[p].state = "SUCCESS" =>
                         /\ ledger[p] = {"ASSET_RECEIVED", "CLEARING", "SETTLED"} \cup
                                        (IF path[p] = "order" THEN {"SWAPPED"} ELSE {})
                         /\ intent[p] = "COMPLETED"
                         /\ path[p] = "order" => deposit[p] = "swept"
                      /\ intent[p] = "COMPLETED" =>
                         Paid(p) /\ row[p].state \in {"SETTLED", "SUCCESS"}
    BY DEF SuccessIsWhole
  <2>1. Standing(p) /\ Books(p) /\ ledger[p] \subseteq Postings
    BY <1>1, Fitting DEF Both, RecordInv, Record, DataFits
  <2>2. CASE row[p].state = "SUCCESS"
    <3>1. /\ Paid(p) /\ intent[p] = "COMPLETED"
          /\ {"ASSET_RECEIVED", "CLEARING", "SETTLED"} \subseteq ledger[p]
          /\ path[p] = "order" => deposit[p] = "swept" /\ "SWAPPED" \in ledger[p]
      BY <2>1, <2>2 DEF Standing, Says, Received, Cleared, Settled, Booked
    <3>2. "RETURNED" \notin ledger[p]
      BY <1>1, <2>1, <2>2, ReturnedHasStarted DEF Both, Books, Booked, Returned
    <3>3. "SWAPPED" \in ledger[p] => path[p] = "order"
      BY <2>1 DEF Books, Booked
    <3>4. ledger[p] = {"ASSET_RECEIVED", "CLEARING", "SETTLED"} \cup
                      (IF path[p] = "order" THEN {"SWAPPED"} ELSE {})
      BY <2>1, <3>1, <3>2, <3>3 DEF Postings
    <3> QED
      BY <2>1, <3>1, <3>4 DEF Standing, Settled
  <2>3. CASE row[p].state # "SUCCESS"
    BY <2>1, <2>3 DEF Standing, Settled
  <2> QED
    BY <2>2, <2>3
<1> QED
  BY <1>1, BothHold, PTL

\* transaction.ts reopenTransaction: a payment is reopened only while its funds
\* are with the operator or already with the merchant, and never once a return
\* of it has started.
THEOREM ReopenedAlwaysFunded ==
  Spec => ReopenedIsFunded
<1>1. ASSUME Both, [Next]_vars, NEW p \in Payments,
             row[p].state = "FAILED", row'[p].state = "ASSET_RECEIVED"
      PROVE  /\ deposit[p] # "none" \/ consumed[p]
             /\ ~Started(p) /\ ReturnTxs(p) = {}
  <2>1. PICK w \in Workers : \E new, event : Writes(w, new, event)
    BY <1>1, OnlyWriters DEF Both
  <2>2. PICK new, event : Writes(w, new, event)
    BY <2>1
  <2>3. flow[w].job = p /\ flow[w].cur = row[p] /\ new.state = "ASSET_RECEIVED"
    BY <1>1, <2>2, WritesChange DEF Both
  <2>4. flow[w].pc = "reopen"
    BY <1>1, <2>2, <2>3 DEF Writes
  <2>5. Funded(p)
    BY <1>1, <2>3, <2>4, KnowsNow DEF Both, HasDone
  <2>6. ~Started(p)
    BY <1>1, <2>3, <2>4, FlowKnows DEF Both, FlowInv, Reopening, Unmoved
  <2>7. ReturnTxs(p) = {}
    BY <1>1, <2>6 DEF Both, IInv, TxInv, ReturnTxs
  <2> QED
    BY <2>5, <2>6, <2>7 DEF Funded
<1>2. Both /\ [Next]_vars =>
         [\A p \in Payments :
             row[p].state = "FAILED" /\ row'[p].state = "ASSET_RECEIVED" =>
                 /\ deposit[p] # "none" \/ consumed[p]
                 /\ ~Started(p) /\ ReturnTxs(p) = {}]_vars
  BY <1>1
<1> QED
  BY <1>2, BothHold, PTL DEF Spec, ReopenedIsFunded

(***************************************************************************)
(* What a step does to the money                                           *)
(***************************************************************************)
Same(q) ==
    /\ deposit'[q] = deposit[q]
    /\ Paid(q)' <=> Paid(q)
    /\ Returned(q)' <=> Returned(q)

AllSame == pool' = pool /\ \A q \in Payments : Same(q)
OthersSame(p) == \A q \in Payments \ {p} : Same(q)

Arrives(p) ==
    /\ deposit[p] = "none" /\ deposit'[p] = "held" /\ pool' = pool
    /\ Paid(p)' <=> Paid(p)
    /\ Returned(p)' <=> Returned(p)

Swept(p) ==
    /\ deposit[p] = "held" /\ deposit'[p] = "swept" /\ pool' = pool + 1
    /\ ~Paid(p) /\ ~Paid(p)' /\ ~Returned(p) /\ ~Returned(p)'

PaysOut(p) ==
    /\ ~Paid(p) /\ Paid(p)' /\ (Returned(p)' <=> Returned(p))
    /\ Returned(p) => Exposed(p) /\ deposit[p] = "swept"
    /\ deposit'[p] = deposit[p]
    /\ pool' = IF deposit[p] = "swept" THEN pool - 1 ELSE pool

GoesBack(p) ==
    /\ ~Returned(p) /\ Returned(p)' /\ (Paid(p)' <=> Paid(p))
    /\ Paid(p) => Exposed(p)
    /\ deposit[p] = "swept" /\ deposit'[p] = "swept"
    /\ pool' = pool - 1 /\ row[p].state = "FAILED"

Effect(p) == OthersSame(p) /\ (Arrives(p) \/ Swept(p) \/ PaysOut(p) \/ GoesBack(p))

LEMMA NothingPaid ==
  ASSUME UNCHANGED <<deposit, consumed, payout, optx>>, NEW q
  PROVE  Same(q)
  BY DEF Same, Paid, Returned, ReturnTxs

\* Why the money of a payment on its way is where it is.
LEMMA InCustody ==
  ASSUME Both, NEW p \in Payments
  PROVE  /\ Returned(p) => path[p] = "order" /\ deposit[p] = "swept"
         /\ payout[p] # "none" => path[p] = "adapter"
         /\ path[p] = "order" /\ Paid(p) => consumed[p] /\ deposit[p] = "swept"
         /\ path[p] # "order" => deposit[p] # "swept"
         /\ \A i \in ReturnTxs(p) : /\ row[p].state = "FAILED" /\ deposit[p] = "swept"
                                    /\ Paid(p) => Exposed(p)
<1>1. PayoutInv(p) /\ StartedInv(p) /\ Holding(p)
  BY DEF Both, IInv, RecordInv, Record
<1>2. ASSUME NEW i \in ReturnTxs(p)
      PROVE  /\ row[p].state = "FAILED" /\ path[p] = "order"
             /\ consumed[p] => Exposed(p)
             /\ deposit[p] = "swept"
  <2>1. i \in Tx /\ optx[i].kind = "return" /\ optx[i].p = p
    BY DEF ReturnTxs
  <2>2. TxInv(i) /\ Backed(i)
    BY <2>1 DEF Both, IInv, RecordInv
  <2> QED
    BY <1>1, <2>1, <2>2 DEF TxInv, Backed, StartedInv, Exposed
<1> QED
  BY <1>1, <1>2 DEF PayoutInv, Holding, Paid, Returned

LEMMA ArriveEffect ==
  ASSUME Both, NEW p \in Payments, PayerDeposits(p)
  PROVE  Effect(p) /\ UNCHANGED row
<1>1. /\ deposit[p] = "none" /\ deposit' = [deposit EXCEPT ![p] = "held"]
      /\ UNCHANGED <<row, pool, consumed, payout, optx>>
  BY DEF PayerDeposits, db
<1>2. deposit'[p] = "held" /\ \A q \in Payments \ {p} : deposit'[q] = deposit[q]
  BY <1>1, Fitting DEF Both, ChainFits
<1> QED
  BY <1>1, <1>2 DEF Effect, OthersSame, Same, Arrives, Paid, Returned, ReturnTxs

LEMMA PayEffect ==
  ASSUME Both, Both', NEW p \in Payments, PayerPays(p) \/ AdapterDecides(p)
  PROVE  UNCHANGED row /\ (Effect(p) \/ AllSame)
<1>1. /\ UNCHANGED <<row, pool, deposit, optx, path>>
      /\ \A q \in Payments \ {p} : consumed'[q] = consumed[q] /\ payout'[q] = payout[q]
      /\ consumed[p] => consumed'[p]
      /\ payout[p] = "SUCCEEDED" => payout'[p] = "SUCCEEDED"
      /\ path[p] # "order"
  <2>1. /\ consumed \in [Payments -> BOOLEAN]
        /\ payout \in [Payments -> {"none", "PENDING", "SUCCEEDED", "FAILED"}]
    BY Fitting DEF Both, ChainFits
  <2>2. CASE PayerPays(p)
    BY <2>1, <2>2 DEF PayerPays, db
  <2>3. CASE AdapterDecides(p)
    <3>1. path[p] = "adapter"
      BY <2>3, InCustody DEF AdapterDecides
    <3> QED
      BY <2>1, <2>3, <3>1 DEF AdapterDecides, db, chain
  <2> QED
    BY <2>2, <2>3
<1>2. \A q \in Payments : Returned(q)' <=> Returned(q)
  BY <1>1 DEF Returned, ReturnTxs
<1>3. OthersSame(p)
  BY <1>1, <1>2 DEF OthersSame, Same, Paid
<1>4. deposit[p] # "swept" /\ ~Returned(p) /\ (Paid(p) => Paid(p)')
  BY <1>1, InCustody DEF Paid
<1>5. CASE Paid(p)' /\ ~Paid(p)
  BY <1>1, <1>2, <1>3, <1>4, <1>5 DEF Effect, PaysOut
<1>6. CASE Paid(p)' <=> Paid(p)
  <2>1. Same(p)
    BY <1>1, <1>2, <1>6 DEF Same
  <2> QED
    BY <1>1, <1>3, <2>1 DEF AllSame, OthersSame
<1> QED
  BY <1>1, <1>4, <1>5, <1>6

LEMMA SweepEffect ==
  ASSUME Both, NEW w \in Workers, Sweep(w) \/ ReturnSweep(w)
  PROVE  UNCHANGED row /\ (AllSame \/ \E p \in Payments : Effect(p))
<1> DEFINE p == Job(w)
<1>1. /\ SweepDeposit(p) /\ UNCHANGED <<row, consumed, payout, optx>>
      /\ flow[w].pc # "idle"
      /\ flow[w].pc \in {"sweep", "retSweep"} \/ Executing(w)
  BY DEF Sweep, ReturnSweep, Executing, InState, At, db
<1>2. p \in Payments /\ path[p] = "order"
  BY <1>1, KnowsNow DEF Both, HasDone, Job, Executing
<1>3. CASE deposit[p] = "held"
  <2>1. deposit'[p] = "swept" /\ pool' = pool + 1
        /\ \A q \in Payments \ {p} : deposit'[q] = deposit[q]
    BY <1>1, <1>2, <1>3, Fitting DEF SweepDeposit, Both, ChainFits
  <2>2. ~Paid(p) /\ ~Returned(p)
    BY <1>2, <1>3, InCustody
  <2>3. \A q \in Payments : (Paid(q)' <=> Paid(q)) /\ (Returned(q)' <=> Returned(q))
    BY <1>1 DEF Paid, Returned, ReturnTxs
  <2> QED
    BY <1>1, <1>2, <1>3, <2>1, <2>2, <2>3 DEF Effect, OthersSame, Same, Swept
<1>4. CASE deposit[p] # "held"
  BY <1>1, <1>4, NothingPaid DEF SweepDeposit, AllSame
<1> QED
  BY <1>1, <1>3, <1>4

LEMMA BroadcastEffect ==
  ASSUME Both, NEW t, Broadcast(t), t.status = "pending",
         UNCHANGED <<pool, deposit, consumed, payout>>
  PROVE  AllSame
<1>1. sent + 1 \in Tx /\ optx \in [Tx -> TxType] /\ sent \in Nat
  BY Fitting, ConstantsAssumption DEF Both, ChainFits, Broadcast, Tx
<1>2. Backed(sent + 1)
  BY <1>1 DEF Both, RecordInv
<1>3. optx[sent + 1].status # "success" /\ optx'[sent + 1].status # "success"
  BY <1>1, <1>2 DEF Broadcast, Backed, NoTx
<1>4. \A i \in Tx \ {sent + 1} : optx'[i] = optx[i]
  BY <1>1 DEF Broadcast
<1>5. \A q \in Payments : Returned(q)' <=> Returned(q)
  BY <1>1, <1>3, <1>4 DEF Returned, ReturnTxs
<1> QED
  BY <1>5 DEF AllSame, Same, Paid

LEMMA NeverBoth == IInv => NeverPaidAndReturned
  BY InvariantMeans

LEMMA ReturnedLater ==
  ASSUME IInv', NEW p \in Payments, Paid(p)', Returned(p)', UNCHANGED row
  PROVE  OrderOutlivesGrace(p)
<1>1. NeverPaidAndReturned'
  BY NeverBoth, PTL
<1>2. OrderOutlivesGrace(p)'
  BY <1>1 DEF NeverPaidAndReturned
<1> QED
  BY <1>2 DEF OrderOutlivesGrace

LEMMA MineEffect ==
  ASSUME Both, Both', Mine
  PROVE  UNCHANGED row /\ (AllSame \/ \E p \in Payments : Effect(p))
<1>1. UNCHANGED <<row, payout, deposit, path>>
  BY DEF Mine, db
<1>2. PICK s \in TxStatus : MinedAs(s)
  BY MineMines, Fitting DEF Both
<1>3. PICK n \in Tx : n = mined + 1
  BY MineMines, Fitting DEF Both
<1>4. /\ consumed \in [Payments -> BOOLEAN] /\ optx \in [Tx -> TxType]
      /\ Backed(n) /\ n <= sent
  <2>1. n <= sent /\ Backed(n)
    <3>1. n <= sent
      BY <1>3, MineMines, Fitting DEF Both
    <3>2. Backed(n)
      BY DEF Both, RecordInv
    <3> QED
      BY <3>1, <3>2
  <2> QED
    BY <2>1, Fitting DEF Both, ChainFits
<1>5. PICK t \in TxType : t = optx[n]
  BY <1>4
<1>6. /\ t.status # "success" /\ t.p \in Payments /\ deposit[t.p] = "swept"
      /\ t.kind \in {"order", "return"}
  <2>1. mined \in Nat
    BY Fitting, ConstantsAssumption DEF Both, ChainFits
  <2> QED
    BY <1>3, <1>4, <1>5, <2>1 DEF Backed, TxType
<1>7. PICK p \in Payments : p = t.p
  BY <1>6
<1>8. /\ \A i \in Tx \ {n} : optx'[i] = optx[i]
      /\ optx'[n].kind = t.kind /\ optx'[n].p = p /\ optx'[n].status = s
  BY <1>2, <1>3, <1>4, <1>5, <1>7 DEF MinedAs, TxType
<1>9. CASE s # "success"
  <2>1. consumed' = consumed /\ pool' = pool
    BY <1>2, <1>9 DEF MinedAs
  <2>2. \A q \in Payments : Returned(q)' <=> Returned(q)
    BY <1>5, <1>6, <1>8, <1>9 DEF Returned, ReturnTxs
  <2> QED
    BY <1>1, <2>1, <2>2 DEF AllSame, Same, Paid
<1>10. CASE s = "success" /\ t.kind = "order"
  <2>1. consumed' = [consumed EXCEPT ![p] = TRUE] /\ pool' = pool - 1
    BY <1>2, <1>3, <1>5, <1>7, <1>10 DEF MinedAs
  <2>2. consumed'[p] /\ \A q \in Payments \ {p} : consumed'[q] = consumed[q]
    BY <1>4, <2>1
  <2>3. ~consumed[p]
    BY <1>2, <1>3, <1>5, <1>7, <1>10 DEF MinedAs, Outcomes
  <2>4. \A q \in Payments : Returned(q)' <=> Returned(q)
    BY <1>5, <1>8, <1>10 DEF Returned, ReturnTxs
  <2>5. path[p] = "order" /\ ~Paid(p)
    BY <1>6, <1>7, <2>3, InCustody
  <2>6. Paid(p)'
    BY <2>2 DEF Paid
  <2>7. Returned(p) => Exposed(p)
    <3>1. Returned(p) => Started(p)
      BY ReturnedHasStarted DEF Both, Returned
    <3> QED
      BY <1>1, <2>4, <2>6, <3>1, ReturnedLater DEF Both, Exposed
  <2>8. \A q \in Payments \ {p} : Paid(q)' <=> Paid(q)
    BY <1>1, <2>2 DEF Paid
  <2>9. OthersSame(p)
    BY <1>1, <2>4, <2>8 DEF OthersSame, Same
  <2>10. PaysOut(p)
    BY <1>1, <1>6, <1>7, <2>1, <2>4, <2>5, <2>6, <2>7 DEF PaysOut
  <2> QED
    BY <1>1, <2>9, <2>10 DEF Effect
<1>11. CASE s = "success" /\ t.kind = "return"
  <2>1. consumed' = consumed /\ pool' = pool - 1
    BY <1>2, <1>3, <1>5, <1>11 DEF MinedAs
  <2>2. n \in ReturnTxs(p)
    BY <1>5, <1>7, <1>11 DEF ReturnTxs
  <2>3. row[p].state = "FAILED" /\ (Paid(p) => Exposed(p))
    BY <2>2, InCustody
  <2>4. ~Returned(p)
    BY <1>5, <1>6, <2>2 DEF Both, IInv, AtMostOneReturn, Returned
  <2>5. Returned(p)'
    BY <1>8, <1>11 DEF Returned, ReturnTxs
  <2>6. \A q \in Payments \ {p} : Returned(q)' <=> Returned(q)
    BY <1>5, <1>7, <1>8 DEF Returned, ReturnTxs
  <2>7. \A q \in Payments : Paid(q)' <=> Paid(q)
    BY <1>1, <2>1 DEF Paid
  <2>8. OthersSame(p) /\ GoesBack(p)
    BY <1>1, <1>6, <1>7, <2>1, <2>3, <2>4, <2>5, <2>6, <2>7
       DEF OthersSame, Same, GoesBack
  <2> QED
    BY <1>1, <2>8 DEF Effect
<1> QED
  BY <1>1, <1>6, <1>9, <1>10, <1>11

LEMMA WritesAllSame ==
  ASSUME Both, NEW w \in Workers, NEW new, NEW event, Writes(w, new, event)
  PROVE  AllSame
<1>1. UNCHANGED <<pool, deposit, consumed, payout, optx>>
  BY DEF Writes, Updates, chain
<1> QED
  BY <1>1, NothingPaid DEF AllSame

money == <<pool, deposit, consumed, payout, optx>>

LEMMA RunEffect ==
  ASSUME Both, NEW w \in Workers, Run(w) \/ SubmitFails(w) \/ Throw(w)
  PROVE  UNCHANGED money \/ AllSame \/ (UNCHANGED row /\ \E p \in Payments : Effect(p))
<1>1. CASE Sweep(w) \/ ReturnSweep(w)
  BY <1>1, SweepEffect
<1>2. CASE Submit(w)
  <2>1. CASE consumed[Job(w)]
    BY <1>2, <2>1 DEF Submit, chain, money
  <2>2. CASE ~consumed[Job(w)]
    <3> DEFINE t == [kind |-> "order", p |-> Job(w), deadline |-> Cur(w).deadline,
                     status |-> "pending"]
    <3>1. Broadcast(t) /\ UNCHANGED <<pool, deposit, consumed, payout>>
      BY <1>2, <2>2 DEF Submit
    <3>2. t.status = "pending"
      OBVIOUS
    <3> QED
      BY <3>1, <3>2, BroadcastEffect
  <2> QED
    BY <2>1, <2>2
<1>3. CASE ReturnSend(w)
  <2> DEFINE t == [kind |-> "return", p |-> Job(w), deadline |-> 0, status |-> "pending"]
  <2>1. Broadcast(t) /\ UNCHANGED <<pool, deposit, consumed, payout>>
    BY <1>3 DEF ReturnSend
  <2>2. t.status = "pending"
    OBVIOUS
  <2> QED
    BY <2>1, <2>2, BroadcastEffect
<1>4. CASE Settle(w)
  <2>1. /\ payout' = [payout EXCEPT ![Job(w)] = IF @ = "none" THEN "PENDING" ELSE @]
        /\ UNCHANGED <<pool, deposit, consumed, optx>>
    BY <1>4 DEF Settle, chain
  <2>2. payout \in [Payments -> {"none", "PENDING", "SUCCEEDED", "FAILED"}]
    BY Fitting DEF Both, ChainFits
  <2>3. \A q \in Payments : payout'[q] = "SUCCEEDED" <=> payout[q] = "SUCCEEDED"
    BY <2>1, <2>2
  <2> QED
    BY <2>1, <2>3 DEF AllSame, Same, Paid, Returned, ReturnTxs
<1>5. CASE ~(Sweep(w) \/ ReturnSweep(w) \/ Submit(w) \/ ReturnSend(w) \/ Settle(w))
  <2>1. CASE SubmitFails(w) \/ Throw(w)
    BY <2>1 DEF SubmitFails, Throw, chain, money
  <2>2. CASE \/ Insert(w) \/ MarkProcessing(w) \/ StartRefused(w) \/ Enter(w)
             \/ Wait(w) \/ QuoteExpired(w) \/ Receive(w) \/ Park(w) \/ Renew(w)
             \/ OrderMined(w) \/ Book(w) \/ Clear(w) \/ Confirm(w) \/ Unconfirmed(w)
             \/ Complete(w) \/ CompleteRefused(w)
    BY <2>2 DEF Insert, MarkProcessing, StartRefused, Enter, Wait, QuoteExpired,
                Receive, Park, Renew, OrderMined, Book, Clear, Confirm, Unconfirmed,
                Complete, CompleteRefused, chain, money
  <2>3. CASE \/ Persist(w) \/ Finish(w) \/ Fail(w) \/ FailIntent(w)
             \/ ReadEvents(w) \/ PostLate(w) \/ Reopen(w) \/ ReopenIntent(w)
             \/ ReturnRead(w) \/ ReturnCheck(w) \/ ReturnStart(w) \/ ReturnRecord(w)
             \/ ReturnReceipt(w) \/ ReturnConfirm(w) \/ Conflict(w)
    BY <2>3 DEF Persist, Finish, Fail, FailIntent, ReadEvents, PostLate, Reopen,
                ReopenIntent, ReturnRead, ReturnCheck, ReturnStart, ReturnRecord,
                ReturnReceipt, ReturnConfirm, Conflict, chain, money
  <2> QED
    BY <1>5, <2>1, <2>2, <2>3 DEF Run
<1> QED
  BY <1>1, <1>2, <1>3, <1>4, <1>5

\* A step moves the money of at most one payment, and then leaves the rows alone.
LEMMA StepEffect ==
  ASSUME Both, Both', [Next]_vars
  PROVE  AllSame \/ (UNCHANGED row /\ \E p \in Payments : Effect(p))
<1>1. UNCHANGED money => AllSame
  BY NothingPaid DEF money, AllSame
<1>2. CASE Mine
  BY <1>2, MineEffect
<1>3. ASSUME NEW p \in Payments, World(p)
      PROVE  UNCHANGED money \/ AllSame \/ (UNCHANGED row /\ Effect(p))
  <2>1. CASE ConfirmIntent(p) \/ ExpireIntent(p)
    BY <2>1 DEF ConfirmIntent, ExpireIntent, chain, money
  <2>2. CASE PayerDeposits(p)
    BY <2>2, ArriveEffect
  <2>3. CASE PayerPays(p) \/ AdapterDecides(p)
    BY <2>3, PayEffect
  <2> QED
    BY <1>3, <2>1, <2>2, <2>3 DEF World
<1>4. ASSUME NEW w \in Workers, NEW p \in Payments, PickUp(w, p)
      PROVE  UNCHANGED money
  BY <1>4 DEF PickUp, Start, Load, Signal, SweepExpired, FailCall, Retry,
              AcceptLateFunds, ReturnPending, chain, money
<1>5. CASE Tick \/ UNCHANGED vars \/ (\E h \in Hosts : Crash(h))
  <2>1. UNCHANGED money
    BY <1>5 DEF Tick, vars, Crash, chain, money
  <2> QED
    BY <1>1, <2>1
<1> QED
  BY <1>1, <1>2, <1>3, <1>4, <1>5, RunEffect DEF Next

(***************************************************************************)
(* The promise                                                             *)
(***************************************************************************)
LEMMA RowsSame ==
  ASSUME UNCHANGED row
  PROVE  Outcome' = Outcome
  BY DEF Outcome

LEMMA EventsSame ==
  ASSUME RecordInv, [Next]_vars, UNCHANGED row
  PROVE  UNCHANGED log
<1> SUFFICES ASSUME log' # log PROVE FALSE
  OBVIOUS
<1>1. PICK w \in Workers : \E new, event : Writes(w, new, event)
  BY OnlyWriters
<1>2. PICK p \in Payments : row[p] \in RowType /\ row'[p].version = row[p].version + 1
  BY <1>1, WritesChange
<1> QED
  BY <1>2 DEF RowType

LEMMA CustodySame ==
  ASSUME AllSame, UNCHANGED <<row, log>>
  PROVE  Custody' = Custody
  BY DEF Custody, AllSame, Same, Exposed, Started, OrderOutlivesGrace

\* Money moves: the payer's, to the merchant, back, or within the operator's.
LEMMA EffectPromised ==
  ASSUME Both, NEW p \in Payments, Effect(p), UNCHANGED <<row, log>>
  PROVE  [Promise!Next]_Promise!vars
<1>1. Outcome' = Outcome
  BY RowsSame
<1>2. \A q \in Payments \ {p} : Custody'[q] = Custody[q]
  BY DEF Effect, OthersSame, Same, Custody, Exposed, Started, OrderOutlivesGrace
<1>3. Custody = [Custody EXCEPT ![p] = Custody[p]]
      /\ Custody' = [Custody EXCEPT ![p] = Custody'[p]]
  <2>1. Custody = [q \in Payments |-> Custody[q]] /\ Custody' = [q \in Payments |-> Custody'[q]]
    BY DEF Custody
  <2> QED
    BY <1>2, <2>1
<1>4. /\ Custody[p] = IF Exposed(p) THEN "exposed" ELSE IF Paid(p) THEN "paid"
                      ELSE IF Returned(p) THEN "returned"
                      ELSE IF deposit[p] # "none" THEN "held" ELSE "unpaid"
      /\ Custody'[p] = IF Exposed(p) THEN "exposed" ELSE IF Paid(p)' THEN "paid"
                       ELSE IF Returned(p)' THEN "returned"
                       ELSE IF deposit'[p] # "none" THEN "held" ELSE "unpaid"
  BY DEF Custody, Exposed, Started, OrderOutlivesGrace
<1>5. CASE Custody'[p] = Custody[p]
  BY <1>1, <1>3, <1>5 DEF Promise!vars
<1>6. CASE Arrives(p) /\ Custody'[p] # Custody[p]
  <2>1. Custody[p] = "unpaid" /\ Custody'[p] = "held"
    BY <1>4, <1>6 DEF Arrives
  <2> QED
    BY <1>1, <1>3, <2>1 DEF Promise!Next, Promise!Arrive
<1>7. CASE Swept(p)
  BY <1>4, <1>5, <1>7 DEF Swept
<1>8. CASE PaysOut(p) /\ Custody'[p] # Custody[p]
  <2>1. Custody[p] \in {"unpaid", "held"} /\ Custody'[p] = "paid"
    BY <1>4, <1>8 DEF PaysOut
  <2> QED
    BY <1>1, <1>3, <2>1 DEF Promise!Next, Promise!Pay
<1>9. CASE GoesBack(p) /\ Custody'[p] # Custody[p]
  <2>1. Custody[p] = "held" /\ Custody'[p] = "returned" /\ Outcome[p] = "failed"
    BY <1>4, <1>9 DEF GoesBack, Outcome
  <2> QED
    BY <1>1, <1>3, <2>1 DEF Promise!Next, Promise!Return
<1> QED
  BY <1>5, <1>6, <1>7, <1>8, <1>9 DEF Effect

\* A return starts, and only that exposes a payment; nothing unexposes it.
LEMMA WritesExpose ==
  ASSUME Both, Both', AllSame, NEW w \in Workers, NEW new, NEW event,
         Writes(w, new, event), NEW p \in Payments, p = flow[w].job,
         ~(Exposed(p)' <=> Exposed(p))
  PROVE  /\ row[p].state = "FAILED" /\ new.state = "FAILED"
         /\ Custody[p] \in {"held", "paid"} /\ Custody'[p] = "exposed"
<1>1. /\ row[p] \in RowType /\ flow[w].cur = row[p] /\ row'[p].state = new.state
      /\ log'[p] = log[p] \cup {event} /\ row'[p] = Bump(new) /\ new \in RowType
  BY WritesChange DEF Both, Writes
<1>2. Started(p) => Started(p)' /\ row[p].state = "FAILED"
  BY <1>1 DEF Both, IInv, StartedInv, Started
<1>3. Started(p)' => new.state = "FAILED" /\ path'[p] = "order"
                     /\ "ASSET_RECEIVED" \in log'[p]
  BY <1>1 DEF Both, IInv, StartedInv
<1>4. Started(p)'
  BY <1>2 DEF Exposed
<1>5. row[p].state = "FAILED" /\ new = row[p]
  <2>1. CASE Started(p)
    BY <1>1, <1>2, <1>3, <1>4, <2>1 DEF Writes
  <2>2. CASE ~Started(p)
    <3>1. event = "return.started"
      BY <1>1, <1>4, <2>2 DEF Started
    <3> QED
      BY <1>1, <1>3, <1>4, <3>1 DEF Writes
  <2> QED
    BY <2>1, <2>2
<1>6. OrderOutlivesGrace(p)' <=> OrderOutlivesGrace(p)
  <2>1. row'[p].deadline = row[p].deadline /\ row'[p].failedAt = row[p].failedAt
    BY <1>1, <1>5, BumpFits
  <2> QED
    BY <2>1 DEF OrderOutlivesGrace
<1>7. Exposed(p)' /\ ~Exposed(p) /\ ~Started(p)
  BY <1>2, <1>4, <1>6 DEF Exposed
<1>8. ~Returned(p)
  BY <1>7, ReturnedHasStarted DEF Both, Returned
<1>9. deposit[p] # "none"
  <2>1. Funded(p)'
    BY <1>3, <1>4 DEF Both, RecordInv, Record, Standing
  <2> QED
    BY <1>3, <1>4, <2>1 DEF Funded, AllSame, Same
<1> QED
  BY <1>3, <1>4, <1>5, <1>7, <1>8, <1>9 DEF Custody

\* The record moves: what the merchant is told follows where the value is.
LEMMA WritesPromised ==
  ASSUME Both, Both', AllSame, NEW w \in Workers, NEW new, NEW event,
         Writes(w, new, event)
  PROVE  [Promise!Next]_Promise!vars
<1>1. PICK p \in Payments : p = flow[w].job
  BY WritesChange DEF Both
<1>2. /\ row'[p].state = new.state /\ flow[w].cur = row[p]
      /\ \A q \in Payments \ {p} : row'[q] = row[q] /\ log'[q] = log[q]
  BY <1>1, WritesChange DEF Both
<1>3. /\ LegalMove(row[p].state, new.state) /\ Says(p, new.state)
      /\ row[p].state = "FAILED" /\ new.state = "ASSET_RECEIVED" => flow[w].pc = "reopen"
      /\ flow[w].pc # "idle"
  BY <1>1, <1>2 DEF Writes
<1>4. /\ \A q \in Payments \ {p} : Custody'[q] = Custody[q]
      /\ (Exposed(p)' <=> Exposed(p)) => Custody'[p] = Custody[p]
      /\ Custody = [q \in Payments |-> Custody[q]]
      /\ Custody' = [q \in Payments |-> Custody'[q]]
  BY <1>2 DEF Custody, AllSame, Same, Exposed, Started, OrderOutlivesGrace
<1>5. Outcome' = [Outcome EXCEPT ![p] = Outcome'[p]]
  <2>1. \A q \in Payments \ {p} : Outcome'[q] = Outcome[q]
    BY <1>2 DEF Outcome
  <2>2. Outcome = [q \in Payments |-> Outcome[q]] /\ Outcome' = [q \in Payments |-> Outcome'[q]]
    BY DEF Outcome
  <2> QED
    BY <2>1, <2>2
<1>6. /\ Outcome[p] = IF row[p].state = "SUCCESS" THEN "succeeded"
                      ELSE IF row[p].state = "FAILED" THEN "failed" ELSE "open"
      /\ Outcome'[p] = IF new.state = "SUCCESS" THEN "succeeded"
                       ELSE IF new.state = "FAILED" THEN "failed" ELSE "open"
  BY <1>2 DEF Outcome
<1>0. CASE ~(Exposed(p)' <=> Exposed(p))
  <2>1. /\ row[p].state = "FAILED" /\ new.state = "FAILED"
        /\ Custody[p] \in {"held", "paid"} /\ Custody'[p] = "exposed"
    BY <1>0, <1>1, WritesExpose
  <2>2. Outcome[p] = "failed" /\ Outcome'[p] = "failed"
    BY <1>6, <2>1
  <2>3. Outcome' = Outcome
    <3>1. Outcome = [Outcome EXCEPT ![p] = Outcome[p]]
      BY DEF Outcome
    <3> QED
      BY <1>5, <2>2, <3>1
  <2>4. Custody' = [Custody EXCEPT ![p] = "exposed"]
    BY <1>4, <2>1
  <2> QED
    BY <2>1, <2>2, <2>3, <2>4 DEF Promise!Next, Promise!Expose
<1>7. ASSUME Exposed(p)' <=> Exposed(p) PROVE [Promise!Next]_Promise!vars
  <2>0. Custody' = Custody
    BY <1>4, <1>7
  <2>1. CASE Outcome'[p] = Outcome[p]
    <3>1. Outcome = [Outcome EXCEPT ![p] = Outcome[p]]
      BY DEF Outcome
    <3> QED
      BY <1>5, <2>0, <2>1, <3>1 DEF Promise!vars
  <2>2. CASE Outcome'[p] # Outcome[p] /\ new.state = "SUCCESS"
    <3>1. row[p].state # "FAILED"
      BY <1>3, <2>2 DEF LegalMove, Resumable, Terminal
    <3>2. Outcome[p] = "open" /\ Outcome'[p] = "succeeded"
      BY <1>6, <2>2, <3>1
    <3>3. ~Exposed(p)
      BY <3>1 DEF Both, IInv, StartedInv, Exposed
    <3>4. Custody[p] = "paid"
      BY <1>3, <2>2, <3>3 DEF Says, Settled, Custody
    <3> QED
      BY <1>5, <2>0, <3>2, <3>4 DEF Promise!Next, Promise!Succeed
  <2>3. CASE Outcome'[p] # Outcome[p] /\ new.state = "FAILED"
    <3>1. row[p].state # "SUCCESS"
      BY <1>3, <2>3 DEF LegalMove, CanFail, Resumable, Terminal
    <3>2. Outcome[p] = "open" /\ Outcome'[p] = "failed"
      BY <1>6, <2>3, <3>1
    <3> QED
      BY <1>5, <2>0, <3>2 DEF Promise!Next, Promise!Fail
  <2>4. CASE Outcome'[p] # Outcome[p] /\ new.state \notin {"SUCCESS", "FAILED"}
    <3>1. row[p].state = "FAILED" /\ new.state = "ASSET_RECEIVED"
      BY <1>3, <1>6, <2>4 DEF LegalMove, CanFail, Resumable, Terminal
    <3>2. Outcome[p] = "failed" /\ Outcome'[p] = "open"
      BY <1>6, <3>1
    <3>3. Funded(p) /\ ~Started(p)
      BY <1>1, <1>2, <1>3, <3>1, KnowsNow, FlowKnows
         DEF Both, HasDone, FlowInv, Reopening, Unmoved
    <3>4. ~Returned(p)
      BY <3>3, ReturnedHasStarted DEF Both, Returned
    <3>5. Custody[p] \in {"held", "paid"}
      BY <3>3, <3>4 DEF Funded, Paid, Custody, Exposed
    <3> QED
      BY <1>5, <2>0, <3>2, <3>5 DEF Promise!Next, Promise!Reopen
  <2> QED
    BY <2>1, <2>2, <2>3, <2>4
<1> QED
  BY <1>0, <1>7

\* The engine, the chain and the return service together keep the promise: the
\* merchant's and the payer's money stay where they went, success is reported
\* only of a paid payment, and a returned one never reopens.  Only a failed
\* payment whose order outlives the grace is ever exposed to both.
THEOREM PromiseIsKept ==
  Spec => PromiseKept
<1>1. Init => Promise!Init
  <2> SUFFICES ASSUME Init PROVE Promise!Init
    OBVIOUS
  <2>1. \A p \in Payments : /\ ~consumed[p] /\ payout[p] = "none" /\ deposit[p] = "none"
                            /\ row[p].state = "NONE"
    BY DEF Init, NoRow
  <2>2. \A p \in Payments : ~Returned(p)
    BY DEF Init, Returned, ReturnTxs, NoTx
  <2> QED
    BY <2>1, <2>2 DEF Init, Promise!Init, Custody, Outcome, Paid, Exposed, Started
<1>2. Both /\ Both' /\ [Next]_vars => [Promise!Next]_Promise!vars
  <2> SUFFICES ASSUME Both, Both', [Next]_vars PROVE [Promise!Next]_Promise!vars
    OBVIOUS
  <2>1. CASE row' = row /\ AllSame
    BY <2>1, RowsSame, EventsSame, CustodySame DEF Both, Promise!vars
  <2>2. CASE row' = row /\ ~AllSame
    BY <2>2, StepEffect, EventsSame, EffectPromised DEF Both
  <2>3. CASE row' # row
    BY <2>3, OnlyWriters, WritesAllSame, WritesPromised DEF Both
  <2> QED
    BY <2>1, <2>2, <2>3
<1> QED
  BY <1>1, <1>2, BothHold, PTL DEF Spec, PromiseKept, Promise!Spec

(***************************************************************************)
(* The operator's wallet                                                   *)
(***************************************************************************)
OwedOnes == {p \in Payments : Owed(p)}
TwiceOnes == {p \in Payments : Paid(p) /\ Returned(p)}

Balanced == pool + Cardinality(TwiceOnes) = Float + Cardinality(OwedOnes)

\* What has left both ways could leave both ways.
LEMMA AccountsBalance == IInv => (WalletAccounts <=> Balanced)
<1> SUFFICES ASSUME IInv PROVE WalletAccounts <=> Balanced
  OBVIOUS
<1>1. {p \in Payments : LeftTwice(p)} = TwiceOnes
  BY InvariantMeans DEF NeverPaidAndReturned, LeftTwice, TwiceOnes
<1> QED
  BY <1>1 DEF WalletAccounts, Balanced, OwedOnes

LEMMA AccountsBalanceLater == IInv' => (WalletAccounts' <=> Balanced')
  BY AccountsBalance, PTL

LEMMA EffectAccounts ==
  ASSUME IsFiniteSet(Payments), Float \in Nat, pool \in Nat, Balanced,
         NEW p \in Payments, Effect(p)
  PROVE  Balanced'
<1>1. IsFiniteSet(OwedOnes) /\ IsFiniteSet(TwiceOnes)
  BY FS_Subset DEF OwedOnes, TwiceOnes
<1>2. /\ pool + Cardinality(TwiceOnes) = Float + Cardinality(OwedOnes)
      /\ Cardinality(OwedOnes) \in Nat /\ Cardinality(TwiceOnes) \in Nat
      /\ Balanced' <=> pool' + Cardinality(TwiceOnes') = Float + Cardinality(OwedOnes')
  BY <1>1, FS_CardinalityType DEF Balanced
<1>3. \A q \in Payments \ {p} : /\ q \in OwedOnes' <=> q \in OwedOnes
                                /\ q \in TwiceOnes' <=> q \in TwiceOnes
  BY DEF Effect, OthersSame, Same, Owed, OwedOnes, TwiceOnes
<1>4. /\ OwedOnes \subseteq Payments /\ OwedOnes' \subseteq Payments
      /\ TwiceOnes \subseteq Payments /\ TwiceOnes' \subseteq Payments
  BY DEF OwedOnes, TwiceOnes
<1>5. /\ p \in OwedOnes <=> deposit[p] = "swept" /\ ~Paid(p) /\ ~Returned(p)
      /\ p \in OwedOnes' <=> deposit'[p] = "swept" /\ ~Paid(p)' /\ ~Returned(p)'
      /\ p \in TwiceOnes <=> Paid(p) /\ Returned(p)
      /\ p \in TwiceOnes' <=> Paid(p)' /\ Returned(p)'
  BY DEF OwedOnes, Owed, TwiceOnes
<1>6. /\ (p \in OwedOnes' <=> p \in OwedOnes) => OwedOnes' = OwedOnes
      /\ (p \in TwiceOnes' <=> p \in TwiceOnes) => TwiceOnes' = TwiceOnes
  BY <1>3, <1>4
<1>7. p \notin OwedOnes /\ p \in OwedOnes' =>
          Cardinality(OwedOnes') = Cardinality(OwedOnes) + 1
  <2>1. p \in OwedOnes' => OwedOnes' = OwedOnes \cup {p}
    BY <1>3, <1>4
  <2> QED
    BY <1>1, <2>1, FS_AddElement
<1>8. p \in OwedOnes /\ p \notin OwedOnes' =>
          Cardinality(OwedOnes') = Cardinality(OwedOnes) - 1
  <2>1. p \notin OwedOnes' => OwedOnes' = OwedOnes \ {p}
    BY <1>3, <1>4
  <2> QED
    BY <1>1, <2>1, FS_RemoveElement
<1>9. p \notin TwiceOnes /\ p \in TwiceOnes' =>
          Cardinality(TwiceOnes') = Cardinality(TwiceOnes) + 1
  <2>1. p \in TwiceOnes' => TwiceOnes' = TwiceOnes \cup {p}
    BY <1>3, <1>4
  <2> QED
    BY <1>1, <2>1, FS_AddElement
<1>10. CASE Arrives(p)
  BY <1>2, <1>5, <1>6, <1>10 DEF Arrives
<1>11. CASE Swept(p)
  BY <1>2, <1>5, <1>6, <1>7, <1>11 DEF Swept
<1>12. CASE PaysOut(p)
  <2>1. CASE Returned(p)
    BY <1>2, <1>5, <1>6, <1>9, <1>12, <2>1 DEF PaysOut
  <2>2. CASE ~Returned(p)
    BY <1>2, <1>5, <1>6, <1>8, <1>12, <2>2 DEF PaysOut
  <2> QED
    BY <2>1, <2>2
<1>13. CASE GoesBack(p)
  <2>1. CASE Paid(p)
    BY <1>2, <1>5, <1>6, <1>9, <1>13, <2>1 DEF GoesBack
  <2>2. CASE ~Paid(p)
    BY <1>2, <1>5, <1>6, <1>8, <1>13, <2>2 DEF GoesBack
  <2> QED
    BY <2>1, <2>2
<1> QED
  BY <1>10, <1>11, <1>12, <1>13 DEF Effect

\* One wallet pays all orders and returns: whatever interleaves, it never pays
\* one payment out of what another is still owed, nor out of its own funds.
THEOREM WalletBalances ==
  ASSUME IsFiniteSet(Payments)
  PROVE  Spec => []WalletAccounts
<1>1. Init => WalletAccounts
  <2> SUFFICES ASSUME Init PROVE WalletAccounts
    OBVIOUS
  <2>1. {p \in Payments : Owed(p)} = {} /\ {p \in Payments : LeftTwice(p)} = {}
    <3>1. \A p \in Payments : ~consumed[p] /\ payout[p] = "none" /\ deposit[p] = "none"
      BY DEF Init
    <3> QED
      BY <3>1 DEF Owed, LeftTwice, Paid
  <2>2. /\ Cardinality({p \in Payments : Owed(p)}) = 0
        /\ Cardinality({p \in Payments : LeftTwice(p)}) = 0
    BY <2>1, FS_EmptySet, Zenon
  <2>3. pool = Float /\ Float \in Nat
    BY ConstantsAssumption DEF Init
  <2> QED
    BY <2>2, <2>3 DEF WalletAccounts
<1>2. ASSUME Both, Both', [Next]_vars, WalletAccounts
      PROVE  WalletAccounts'
  <2>0. Balanced /\ (WalletAccounts' <=> Balanced')
    BY <1>2, AccountsBalance, AccountsBalanceLater DEF Both
  <2>1. CASE AllSame
    <3>1. OwedOnes' = OwedOnes /\ TwiceOnes' = TwiceOnes
      BY <2>1 DEF AllSame, Same, Owed, OwedOnes, TwiceOnes
    <3>2. pool' = pool
      BY <2>1 DEF AllSame
    <3> QED
      BY <2>0, <3>1, <3>2 DEF Balanced
  <2>2. CASE \E p \in Payments : Effect(p)
    <3>1. pool \in Nat /\ Float \in Nat
      BY <1>2, Fitting, ConstantsAssumption DEF Both, ChainFits
    <3> QED
      BY <2>0, <2>2, <3>1, EffectAccounts
  <2> QED
    BY <1>2, <2>1, <2>2, StepEffect
<1> QED
  BY <1>1, <1>2, BothHold, PTL DEF Spec

=============================================================================
