--------------------------- MODULE ClearingProofs ---------------------------
(***************************************************************************)
(* Proofs about ClearingEngine, for every set of payments, workers,        *)
(* processes and every value of the times and bounds.                      *)
(***************************************************************************)
EXTENDS ClearingInvariant, TLAPS

(***************************************************************************)
(* How a step changes the flow that takes it                               *)
(***************************************************************************)

\* Only flow w changes, and its new record is well typed.
OnlyMoves(w) ==
    /\ flow' \in [Workers -> FlowType]
    /\ \A v \in Workers \ {w} : flow'[v] = flow[v]

\* Flow w ends.
Ended(w) == OnlyMoves(w) /\ flow'[w] = Idle

\* Flow w goes to label l with what it knew.
Went(w, l) ==
    /\ OnlyMoves(w)
    /\ flow'[w].pc = l /\ flow'[w].job = flow[w].job /\ flow'[w].cur = flow[w].cur
    /\ flow'[w].code = flow[w].code

\* Flow w, which was idle, is at label l and has read the row of p.
Began(w, p, l) ==
    /\ OnlyMoves(w)
    /\ flow'[w].pc = l /\ flow'[w].job = p /\ flow'[w].cur = row[p]

\* Flow w goes to label l with the row it wrote.
Wrote(w, new, l) ==
    /\ OnlyMoves(w)
    /\ flow'[w].pc = l /\ flow'[w].job = flow[w].job /\ flow'[w].cur = Bump(new)

\* The step of flow w failed for good.
Failing(w) ==
    /\ OnlyMoves(w)
    /\ flow'[w].pc = "fail" /\ flow'[w].job = flow[w].job
    /\ flow'[w].cur = flow[w].cur /\ flow'[w].cur.state \in CanFail
    /\ flow'[w].code = "CLEARING_FAILED"

LEMMA NoTxYet == 0 \in 0..MaxTx
  BY ConstantsAssumption

LEMMA IdleFits == Idle \in FlowType /\ Stage(Idle)
  BY NoTxYet
     DEF Idle, FlowAt, FlowType, Stage, NoRow, RowType, Labels, States, Codes,
         FailedPcs, ReceivedPcs, RunningPcs

LEMMA StopEnds ==
  ASSUME flow \in [Workers -> FlowType], NEW w \in Workers, Stop(w)
  PROVE  Ended(w)
<1>1. flow' = [flow EXCEPT ![w] = Idle]
  BY DEF Stop
<1> QED
  BY <1>1, IdleFits DEF Ended, OnlyMoves

LEMMA GotoGoes ==
  ASSUME flow \in [Workers -> FlowType], NEW w \in Workers, NEW l \in Labels,
         Goto(w, l)
  PROVE  Went(w, l) /\ flow'[w].tx = flow[w].tx
  BY DEF Goto, Went, OnlyMoves, FlowType

LEMMA TakesTxGoes ==
  ASSUME flow \in [Workers -> FlowType], NEW w \in Workers, NEW l \in Labels,
         NEW t \in 0..MaxTx, flow' = [flow EXCEPT ![w].pc = l, ![w].tx = t]
  PROVE  Went(w, l) /\ flow'[w].tx = t
  BY DEF Went, OnlyMoves, FlowType

LEMMA EntersGoes ==
  ASSUME flow \in [Workers -> FlowType], NEW w \in Workers, NEW l \in Labels,
         flow' = [flow EXCEPT ![w].pc = l, ![w].entered = TRUE]
  PROVE  Went(w, l)
  BY DEF Went, OnlyMoves, FlowType

LEMMA BeginBegins ==
  ASSUME flow \in [Workers -> FlowType], NEW w \in Workers, NEW l \in Labels,
         NEW p \in Payments, row[p] \in RowType, Begin(w, p, l)
  PROVE  Began(w, p, l)
<1> DEFINE f == FlowAt(l, p, row[p])
<1>1. f \in FlowType /\ f.pc = l /\ f.job = p /\ f.cur = row[p]
  BY NoTxYet DEF FlowType, FlowAt, Codes
<1>2. flow' = [flow EXCEPT ![w] = f]
  BY DEF Begin
<1> HIDE DEF f
<1> QED
  BY <1>1, <1>2 DEF Began, OnlyMoves

LEMMA BumpFits ==
  ASSUME NEW new \in RowType
  PROVE  /\ Bump(new) \in RowType
         /\ Bump(new).version = new.version + 1
         /\ Bump(new).state = new.state /\ Bump(new).code = new.code
         /\ Bump(new).deadline = new.deadline
         /\ Bump(new).failedAt = new.failedAt
  BY DEF Bump, RowType

LEMMA ContinueWrites ==
  ASSUME flow \in [Workers -> FlowType], NEW w \in Workers, NEW l \in Labels,
         NEW new \in RowType, Continue(w, new, l)
  PROVE  Wrote(w, new, l) /\ flow'[w].tx = flow[w].tx
<1> Bump(new) \in RowType
  BY BumpFits
<1> QED
  BY DEF Continue, Wrote, OnlyMoves, FlowType

LEMMA ThrowsFails ==
  ASSUME flow \in [Workers -> FlowType], NEW w \in Workers, Throws(w)
  PROVE  Ended(w) \/ Failing(w)
<1>1. CASE Stop(w)
  BY <1>1, StopEnds
<1>2. CASE ~Stop(w)
  <2>1. /\ flow' = [flow EXCEPT ![w].pc = "fail", ![w].code = "CLEARING_FAILED"]
        /\ flow[w].cur.state \in CanFail
    BY <1>2 DEF Throws, Cur
  <2>2. OnlyMoves(w)
    <3>1. "fail" \in Labels /\ "CLEARING_FAILED" \in Codes
      BY DEF Labels, Codes
    <3> QED
      BY <2>1, <3>1 DEF OnlyMoves, FlowType
  <2>3. /\ flow'[w].pc = "fail" /\ flow'[w].code = "CLEARING_FAILED"
        /\ flow'[w].job = flow[w].job /\ flow'[w].cur = flow[w].cur
    BY <2>1 DEF FlowType
  <2> QED
    BY <2>1, <2>2, <2>3 DEF Failing
<1> QED
  BY <1>1, <1>2

LEMMA TryAgainGoes ==
  ASSUME flow \in [Workers -> FlowType], NEW w \in Workers, TryAgain(w)
  PROVE  Ended(w) \/ Failing(w) \/ Went(w, "submit")
<1>1. CASE Throws(w)
  BY <1>1, ThrowsFails
<1>2. CASE ~Throws(w)
  <2>1. flow' = [flow EXCEPT ![w].pc = "submit", ![w].tx = 0, ![w].tries = @ + 1]
    BY <1>2 DEF TryAgain
  <2> QED
    BY <2>1, NoTxYet DEF Went, OnlyMoves, FlowType, Labels
<1> QED
  BY <1>1, <1>2

(***************************************************************************)
(* Types: the flows, the database, and everything outside them             *)
(***************************************************************************)
FlowsFit ==
    flow \in [Workers -> FlowType] /\ Staged /\ advancing \subseteq Hosts \X Payments

DataFits ==
    /\ now \in Nat /\ upsets \in Nat
    /\ row \in [Payments -> RowType]
    /\ log \in [Payments -> SUBSET Events]
    /\ returnRef \in [Payments -> 0..MaxTx]
    /\ ledger \in [Payments -> SUBSET Postings]
    /\ intent \in [Payments -> IntentStatus]

ChainFits ==
    /\ path \in [Payments -> Paths]
    /\ deposit \in [Payments -> {"none", "held", "swept"}]
    /\ pool \in Nat
    /\ consumed \in [Payments -> BOOLEAN]
    /\ optx \in [Tx -> TxType]
    /\ sent \in 0..MaxTx /\ mined \in 0..sent
    /\ payout \in [Payments -> {"none", "PENDING", "SUCCEEDED", "FAILED"}]

Fits == FlowsFit /\ DataFits /\ ChainFits

LEMMA TypesSplit == (TInv <=> Fits) /\ (TInv' <=> Fits')
  BY DEF TInv, TypeOK, Fits, FlowsFit, DataFits, ChainFits

LEMMA DataStays ==
  ASSUME DataFits, UNCHANGED <<env, db>>
  PROVE  DataFits'
  BY DEF DataFits, env, db

LEMMA ChainStays ==
  ASSUME ChainFits, UNCHANGED <<chain, path, payout>>
  PROVE  ChainFits'
  BY DEF ChainFits, chain

LEMMA FlowsStay ==
  ASSUME FlowsFit, UNCHANGED <<flow, advancing>>
  PROVE  FlowsFit'
  BY DEF FlowsFit, Staged

LEMMA MoveFits ==
  ASSUME FlowsFit, NEW w \in Workers, OnlyMoves(w), Stage(flow'[w]),
         advancing' \subseteq Hosts \X Payments
  PROVE  FlowsFit'
  BY DEF FlowsFit, Staged, OnlyMoves

LEMMA StopFits ==
  ASSUME FlowsFit, NEW w \in Workers, Stop(w)
  PROVE  FlowsFit'
<1>1. Ended(w)
  BY StopEnds DEF FlowsFit
<1>2. advancing' \subseteq Hosts \X Payments
  BY DEF FlowsFit, Stop
<1> QED
  BY <1>1, <1>2, MoveFits, IdleFits DEF Ended

LEMMA ThrowsFits ==
  ASSUME FlowsFit, NEW w \in Workers, flow[w].pc # "idle", Throws(w)
  PROVE  FlowsFit'
<1>1. CASE Stop(w)
  BY <1>1, StopFits
<1>2. CASE ~Stop(w)
  <2>1. UNCHANGED advancing
    BY <1>2 DEF Throws
  <2>2. Ended(w) \/ Failing(w)
    BY ThrowsFails DEF FlowsFit
  <2>3. Stage(flow[w])
    BY DEF FlowsFit, Staged
  <2>4. Stage(flow'[w]) /\ OnlyMoves(w)
    <3>1. CASE Ended(w)
      BY <3>1, IdleFits DEF Ended
    <3>2. CASE Failing(w)
      BY <3>2, <2>3 DEF Failing, Stage, FailedPcs, ReceivedPcs, RunningPcs
    <3> QED
      BY <2>2, <3>1, <3>2
  <2> QED
    BY <2>1, <2>4, MoveFits DEF FlowsFit
<1> QED
  BY <1>1, <1>2

\* Whatever label a flow goes to, the row it holds is in a state it may hold
\* there.
LEMMA WentFits ==
  ASSUME FlowsFit, NEW w \in Workers, NEW l \in Labels, Went(w, l),
         flow[w].pc # "idle", advancing' \subseteq Hosts \X Payments,
         \/ /\ l \in FailedPcs \ {"postLate", "retRecord", "retReceipt"}
            /\ flow[w].cur.state = "FAILED"
         \/ /\ l \in ReceivedPcs \ {"ordering"}
            /\ flow[w].cur.state = "ASSET_RECEIVED"
         \/ l \in RunningPcs /\ flow[w].cur.state \in Resumable
  PROVE  FlowsFit'
<1>1. Stage(flow[w])
  BY DEF FlowsFit, Staged
<1>2. Stage(flow'[w])
  BY <1>1 DEF Went, Stage, FailedPcs, ReceivedPcs, RunningPcs
<1> QED
  BY <1>2, MoveFits DEF Went, FlowsFit

LEMMA PostFits ==
  ASSUME DataFits, NEW w \in Workers, NEW key \in Postings, Post(w, key),
         UNCHANGED <<env, row, log, returnRef, intent>>
  PROVE  DataFits'
  BY DEF DataFits, Post, env

LEMMA UpdateFits ==
  ASSUME DataFits, NEW w \in Workers, NEW new \in RowType, NEW event \in Events,
         Update(w, new, event), UNCHANGED <<env, ledger, intent>>,
         returnRef' \in [Payments -> 0..MaxTx]
  PROVE  DataFits'
<1>1. Bump(new) \in RowType
  BY BumpFits
<1> QED
  BY <1>1 DEF DataFits, Update, env

LEMMA NextStateFits ==
  ASSUME NEW s \in Resumable
  PROVE  /\ NextState(s) \in States \ {"NONE", "FAILED"}
         /\ s # "SETTLED" => NextState(s) \in Resumable
  BY DEF Resumable, States, Terminal, NextState

(***************************************************************************)
(* The entry points                                                        *)
(***************************************************************************)

\* What a flow that picks up payment p has read.
PickedUp(w, p, l) ==
    /\ Began(w, p, l)
    /\ \/ l = "insert" /\ row[p].state = "NONE"
       \/ l = "enter" /\ row[p].state \in Resumable
       \/ /\ l = "fail" /\ row[p].state \in CanFail
          /\ flow'[w].code = "PAYMENT_EXPIRED" => row[p].state = "PAYMENT_PENDING"
       \/ l = "readEvents" /\ row[p].state = "FAILED"
       \/ l = "postLate" /\ row[p].state = "FAILED" /\ row[p].code = "PAYMENT_EXPIRED"
       \/ l = "retRead" /\ ReturnPending(w, p)

LEMMA PickUpPicksUp ==
  ASSUME flow \in [Workers -> FlowType], NEW w \in Workers, NEW p \in Payments,
         row[p] \in RowType, PickUp(w, p)
  PROVE  \E l \in Labels : PickedUp(w, p, l)
<1>1. CASE Start(w, p)
  BY <1>1, BeginBegins, "insert" \in Labels DEF Start, PickedUp, Labels
<1>2. CASE Load(w, p)
  BY <1>2, BeginBegins, "enter" \in Labels DEF Load, PickedUp, Labels
<1>3. CASE Signal(w, p)
  <2> DEFINE f == [FlowAt("enter", p, row[p]) EXCEPT !.sig = TRUE]
  <2>1. f \in FlowType /\ f.pc = "enter" /\ f.job = p /\ f.cur = row[p]
    BY NoTxYet DEF FlowType, FlowAt, Codes, Labels
  <2>2. flow' = [flow EXCEPT ![w] = f]
    BY <1>3 DEF Signal
  <2> HIDE DEF f
  <2>3. Began(w, p, "enter")
    BY <2>1, <2>2 DEF Began, OnlyMoves
  <2>4. row[p].state \in Resumable
    BY <1>3 DEF Signal, Resumable, Terminal, States
  <2> QED
    BY <2>3, <2>4 DEF PickedUp, Labels
<1>4. CASE SweepExpired(w, p) \/ FailCall(w, p)
  <2>1. PICK c \in Codes \ {"none"} :
           /\ flow' = [flow EXCEPT ![w] = [FlowAt("fail", p, row[p]) EXCEPT !.code = c]]
           /\ c = "PAYMENT_EXPIRED" => row[p].state = "PAYMENT_PENDING"
           /\ row[p].state \in CanFail
    <3>1. "PAYMENT_PENDING" \in CanFail
      BY DEF CanFail, Resumable, Terminal, States
    <3>2. CASE SweepExpired(w, p)
      BY <3>1, <3>2, "PAYMENT_EXPIRED" \in Codes \ {"none"} DEF SweepExpired, Codes
    <3>3. CASE FailCall(w, p)
      BY <3>3, "CLEARING_FAILED" \in Codes \ {"none"} DEF FailCall, Codes
    <3> QED
      BY <1>4, <3>2, <3>3
  <2> DEFINE f == [FlowAt("fail", p, row[p]) EXCEPT !.code = c]
  <2>2. f \in FlowType /\ f.pc = "fail" /\ f.job = p /\ f.cur = row[p] /\ f.code = c
    BY NoTxYet DEF FlowType, FlowAt, Codes, Labels
  <2>3. flow' = [flow EXCEPT ![w] = f]
    BY <2>1
  <2> HIDE DEF f
  <2>4. Began(w, p, "fail") /\ flow'[w].code = c
    BY <2>2, <2>3 DEF Began, OnlyMoves
  <2> QED
    BY <2>1, <2>4 DEF PickedUp, Labels
<1>5. CASE Retry(w, p)
  BY <1>5, BeginBegins, "readEvents" \in Labels DEF Retry, PickedUp, Labels
<1>6. CASE AcceptLateFunds(w, p)
  BY <1>6, BeginBegins, "postLate" \in Labels DEF AcceptLateFunds, PickedUp, Labels
<1>7. CASE ReturnPending(w, p)
  <2>1. Began(w, p, "retRead")
    BY <1>7, BeginBegins DEF ReturnPending, Labels
  <2> QED
    BY <1>7, <2>1 DEF PickedUp, Labels
<1> QED
  BY <1>1, <1>2, <1>3, <1>4, <1>5, <1>6, <1>7 DEF PickUp

LEMMA PickUpFits ==
  ASSUME Fits, NEW w \in Workers, NEW p \in Payments, PickUp(w, p)
  PROVE  Fits'
<1>0. row[p] \in RowType /\ FlowsFit /\ DataFits /\ ChainFits
  BY DEF Fits, DataFits
<1>1. DataFits'
  BY <1>0
     DEF DataFits, PickUp, Start, Load, Signal, SweepExpired, FailCall, Retry,
         AcceptLateFunds, ReturnPending, Upset, env, db
<1>2. ChainFits'
  BY <1>0, ChainStays
     DEF PickUp, Start, Load, Signal, SweepExpired, FailCall, Retry,
         AcceptLateFunds, ReturnPending
<1>3. advancing' \subseteq Hosts \X Payments
  BY <1>0
     DEF FlowsFit, PickUp, Start, Load, Signal, SweepExpired, FailCall, Retry,
         AcceptLateFunds, ReturnPending
<1>4. PICK l \in Labels : PickedUp(w, p, l)
  BY <1>0, PickUpPicksUp DEF FlowsFit
<1>5. OnlyMoves(w) /\ Stage(flow'[w])
  BY <1>4 DEF PickedUp, Began, ReturnPending, Stage, FailedPcs, ReceivedPcs, RunningPcs
<1> QED
  BY <1>0, <1>1, <1>2, <1>3, <1>5, MoveFits DEF Fits

(***************************************************************************)
(* The steps of a flow: those that write nothing but the flow itself       *)
(***************************************************************************)
LEMMA LocalFits ==
  ASSUME Fits, FlowsFit', UNCHANGED <<env, db, chain, path, payout>>
  PROVE  Fits'
  BY DataStays, ChainStays DEF Fits

LEMMA NotIdle ==
  ASSUME FlowsFit, NEW w \in Workers, flow[w].pc # "idle"
  PROVE  /\ Stage(flow[w]) /\ Job(w) \in Payments
         /\ flow[w] \in FlowType /\ Cur(w) \in RowType
  BY DEF FlowsFit, Staged, Stage, Job, Cur, FlowType

\* The steps that end the flow.
EndsFlow(w) ==
    \/ StartRefused(w) \/ Wait(w) \/ Park(w) \/ CompleteRefused(w) \/ Conflict(w)

LEMMA EndsFlowFits ==
  ASSUME Fits, NEW w \in Workers, EndsFlow(w)
  PROVE  Fits'
<1>1. Stop(w) /\ UNCHANGED <<env, db, chain, path, payout>>
  BY DEF EndsFlow, StartRefused, Wait, Park, CompleteRefused, Conflict
<1> QED
  BY <1>1, StopFits, LocalFits DEF Fits

LEMMA EnterFits ==
  ASSUME Fits, NEW w \in Workers, Enter(w)
  PROVE  Fits'
<1>1. FlowsFit /\ UNCHANGED <<env, db, chain, path, payout>>
  BY DEF Fits, Enter
<1>2. CASE Stop(w)
  BY <1>1, <1>2, StopFits, LocalFits
<1>3. CASE ~Stop(w)
  <2>1. /\ advancing' = advancing \cup {<<HostOf[w], Job(w)>>}
        /\ flow' = [flow EXCEPT ![w].pc = "step", ![w].entered = TRUE]
        /\ flow[w].pc = "enter"
    BY <1>3 DEF Enter, Mark, At
  <2>2. Stage(flow[w]) /\ Job(w) \in Payments
    BY <1>1, <2>1, NotIdle
  <2>3. "step" \in Labels /\ "step" \in RunningPcs
    BY DEF Labels, RunningPcs
  <2>4. Went(w, "step")
    BY <1>1, <2>1, <2>3, EntersGoes DEF FlowsFit
  <2>5. flow[w].cur.state \in Resumable
    BY <2>1, <2>2 DEF Stage, RunningPcs
  <2>6. advancing' \subseteq Hosts \X Payments
    <3>1. HostOf[w] \in Hosts
      BY ConstantsAssumption
    <3> QED
      BY <1>1, <2>1, <2>2, <3>1 DEF FlowsFit
  <2> QED
    <3>1. FlowsFit'
      BY <1>1, <2>1, <2>3, <2>4, <2>5, <2>6, WentFits
    <3> QED
      BY <1>1, <3>1, LocalFits
<1> QED
  BY <1>2, <1>3

LEMMA TryAgainFits ==
  ASSUME FlowsFit, NEW w \in Workers, flow[w].pc \in {"submit", "ordering"},
         TryAgain(w)
  PROVE  FlowsFit'
<1>1. CASE Throws(w)
  BY <1>1, ThrowsFits
<1>2. CASE ~Throws(w)
  <2>1. UNCHANGED advancing
    BY <1>2 DEF TryAgain
  <2>2. flow' = [flow EXCEPT ![w].pc = "submit", ![w].tx = 0, ![w].tries = @ + 1]
    BY <1>2 DEF TryAgain
  <2>3. Went(w, "submit")
    BY <2>2, NoTxYet DEF FlowsFit, Went, OnlyMoves, FlowType, Labels
  <2>4. flow[w].cur.state = "ASSET_RECEIVED"
    BY DEF FlowsFit, Staged, Stage, ReceivedPcs
  <2>5. "submit" \in Labels /\ "submit" \in ReceivedPcs \ {"ordering"}
    BY DEF Labels, ReceivedPcs
  <2> QED
    BY <2>1, <2>3, <2>4, <2>5, WentFits DEF FlowsFit
<1> QED
  BY <1>1, <1>2

\* The steps that may fail for good.
LEMMA FailingFits ==
  ASSUME Fits, NEW w \in Workers,
         QuoteExpired(w) \/ Unconfirmed(w) \/ Throw(w)
  PROVE  Fits'
<1>1. /\ Stop(w) \/ Throws(w)
      /\ flow[w].pc # "idle"
      /\ UNCHANGED <<now, db, chain, path, payout>>
      /\ upsets' = upsets \/ upsets' = upsets + 1
  BY DEF QuoteExpired, Unconfirmed, Throw, InState, At, Upset, env
<1>2. FlowsFit'
  BY <1>1, StopFits, ThrowsFits DEF Fits
<1>3. DataFits' /\ ChainFits'
  BY <1>1, ChainStays DEF Fits, DataFits, db
<1> QED
  BY <1>2, <1>3 DEF Fits

LEMMA OrderMinedFits ==
  ASSUME Fits, NEW w \in Workers, OrderMined(w) \/ SubmitFails(w)
  PROVE  Fits'
<1>1. /\ UNCHANGED <<now, db, chain, path, payout>>
      /\ upsets' = upsets \/ upsets' = upsets + 1
      /\ flow[w].pc \in {"submit", "ordering"}
  BY DEF OrderMined, SubmitFails, At, Upset, env
<1>2. DataFits' /\ ChainFits'
  BY <1>1, ChainStays DEF Fits, DataFits, db
<1>3. FlowsFit'
  <2>1. CASE TryAgain(w)
    BY <1>1, <2>1, TryAgainFits DEF Fits
  <2>2. CASE Throws(w)
    BY <1>1, <2>2, ThrowsFits DEF Fits
  <2>3. CASE ~TryAgain(w) /\ ~Throws(w)
    <3>1. /\ flow' = [flow EXCEPT ![w].pc = "book", ![w].tx = 0]
          /\ UNCHANGED advancing
      BY <2>3 DEF OrderMined, SubmitFails
    <3>2. Went(w, "book")
      BY <3>1, NoTxYet, TakesTxGoes, "book" \in Labels DEF Fits, FlowsFit, Labels
    <3>3. flow[w].cur.state = "ASSET_RECEIVED"
      BY <1>1 DEF Fits, FlowsFit, Staged, Stage, ReceivedPcs
    <3>4. "book" \in Labels /\ "book" \in ReceivedPcs \ {"ordering"}
      BY DEF Labels, ReceivedPcs
    <3> QED
      BY <1>1, <3>1, <3>2, <3>3, <3>4, WentFits DEF Fits, FlowsFit
  <2> QED
    BY <2>1, <2>2, <2>3
<1> QED
  BY <1>2, <1>3 DEF Fits

\* The reads of a retry and of a return.
LEMMA ReadFits ==
  ASSUME Fits, NEW w \in Workers,
         ReadEvents(w) \/ ReturnRead(w) \/ ReturnCheck(w)
  PROVE  Fits'
<1>1. /\ UNCHANGED <<env, db, chain, path, payout>>
      /\ flow[w].pc \in {"readEvents", "retRead", "retCheck"}
  BY DEF ReadEvents, ReturnRead, ReturnCheck, At
<1>2. flow[w].cur.state = "FAILED" /\ FlowsFit
  BY <1>1 DEF Fits, FlowsFit, Staged, Stage, FailedPcs
<1>3. CASE Stop(w)
  BY <1>1, <1>2, <1>3, StopFits, LocalFits
<1>4. CASE /\ Goto(w, "reopen") \/ Goto(w, "retCheck") \/ Goto(w, "retSweep")
           /\ UNCHANGED advancing
  <2>1. PICK l \in {"reopen", "retCheck", "retSweep"} : Goto(w, l)
    BY <1>4
  <2>2. l \in Labels /\ l \in FailedPcs \ {"postLate", "retRecord", "retReceipt"}
    BY DEF Labels, FailedPcs
  <2>3. Went(w, l)
    BY <1>2, <2>1, <2>2, GotoGoes DEF FlowsFit
  <2> QED
    BY <1>1, <1>2, <1>4, <2>2, <2>3, WentFits, LocalFits DEF FlowsFit
<1>5. CASE ~Stop(w) /\ ~(\E l \in {"reopen", "retCheck", "retSweep"} : Goto(w, l))
  <2>1. /\ flow' = [flow EXCEPT ![w].pc = "retReceipt", ![w].tx = returnRef[Job(w)]]
        /\ returnRef[Job(w)] # 0 /\ UNCHANGED advancing
    BY <1>5 DEF ReadEvents, ReturnRead, ReturnCheck
  <2>2. Stage(flow[w]) /\ returnRef[Job(w)] \in 0..MaxTx
    BY <1>1, <1>2, NotIdle DEF Fits, DataFits
  <2>3. Went(w, "retReceipt") /\ flow'[w].tx # 0
    <3>1. "retReceipt" \in Labels
      BY DEF Labels
    <3> QED
      BY <1>2, <2>1, <2>2, <3>1, TakesTxGoes DEF FlowsFit
  <2>4. Stage(flow'[w])
    BY <1>1, <2>2, <2>3 DEF Stage, Went, FailedPcs, ReceivedPcs, RunningPcs
  <2> QED
    BY <1>1, <1>2, <2>1, <2>3, <2>4, MoveFits, LocalFits DEF Went, FlowsFit
<1> QED
  <2>1. UNCHANGED advancing \/ Stop(w)
    BY DEF ReadEvents, ReturnRead, ReturnCheck
  <2> QED
    BY <1>3, <1>4, <1>5, <2>1

(***************************************************************************)
(* The steps that post, or change an intent, a deposit or a payout, and    *)
(* then go on                                                              *)
(***************************************************************************)
LEMMA GoesOnFits ==
  ASSUME FlowsFit, NEW w \in Workers, NEW l \in Labels, Goto(w, l), flow[w].pc # "idle",
         UNCHANGED advancing,
         \/ /\ l \in FailedPcs \ {"postLate", "retRecord", "retReceipt"}
            /\ flow[w].cur.state = "FAILED"
         \/ /\ l \in ReceivedPcs \ {"ordering"}
            /\ flow[w].cur.state = "ASSET_RECEIVED"
         \/ l \in RunningPcs /\ flow[w].cur.state \in Resumable
  PROVE  FlowsFit'
<1>1. Went(w, l)
  BY GotoGoes DEF FlowsFit
<1> QED
  BY <1>1, WentFits DEF FlowsFit

LEMMA RunningPersists ==
  ASSUME FlowsFit, NEW w \in Workers, flow[w].pc # "idle", UNCHANGED advancing,
         Goto(w, "persist"), flow[w].cur.state \in Resumable
  PROVE  FlowsFit'
<1>1. "persist" \in Labels /\ "persist" \in RunningPcs
  BY DEF Labels, RunningPcs
<1> QED
  BY <1>1, GoesOnFits

LEMMA PostsFits ==
  ASSUME Fits, NEW w \in Workers, Receive(w) \/ Clear(w) \/ Confirm(w)
  PROVE  Fits'
<1>1. /\ flow[w].pc # "idle" /\ Goto(w, "persist") /\ UNCHANGED advancing
      /\ flow[w].cur.state \in Resumable
  BY DEF Receive, Clear, Confirm, InState, At, Cur, Resumable, Terminal, States,
         Fits, FlowsFit, Staged, Stage, ReceivedPcs
<1>2. FlowsFit'
  BY <1>1, RunningPersists DEF Fits
<1>3. DataFits'
  <2>1. PICK key \in Postings : Post(w, key)
    BY DEF Receive, Clear, Confirm, Postings
  <2> QED
    BY <2>1, PostFits DEF Fits, Receive, Clear, Confirm
<1>4. ChainFits'
  BY ChainStays DEF Fits, Receive, Clear, Confirm
<1> QED
  BY <1>2, <1>3, <1>4 DEF Fits

LEMMA SettleFits ==
  ASSUME Fits, NEW w \in Workers, Settle(w)
  PROVE  Fits'
<1>1. /\ flow[w].pc # "idle" /\ Goto(w, "persist") /\ UNCHANGED advancing
      /\ flow[w].cur.state \in Resumable
  BY DEF Settle, InState, At, Cur, Resumable, Terminal, States
<1>2. FlowsFit'
  BY <1>1, RunningPersists DEF Fits
<1>3. DataFits'
  BY DataStays DEF Fits, Settle
<1>4. ChainFits'
  BY DEF Fits, ChainFits, Settle, chain
<1> QED
  BY <1>2, <1>3, <1>4 DEF Fits

LEMMA CompleteFits ==
  ASSUME Fits, NEW w \in Workers, Complete(w)
  PROVE  Fits'
<1>1. /\ flow[w].pc # "idle" /\ Goto(w, "persist") /\ UNCHANGED advancing
      /\ flow[w].cur.state \in Resumable
  BY DEF Complete, InState, At, Cur, Resumable, Terminal, States
<1>2. FlowsFit'
  BY <1>1, RunningPersists DEF Fits
<1>3. DataFits'
  BY DEF Fits, DataFits, Complete, IntentStatus, env
<1>4. ChainFits'
  BY ChainStays DEF Fits, Complete
<1> QED
  BY <1>2, <1>3, <1>4 DEF Fits

LEMMA EntersAgainFits ==
  ASSUME Fits, NEW w \in Workers, MarkProcessing(w) \/ ReopenIntent(w)
  PROVE  Fits'
<1>1. /\ flow[w].pc # "idle" /\ Goto(w, "enter") /\ UNCHANGED advancing
      /\ flow[w].cur.state \in Resumable
  BY DEF MarkProcessing, ReopenIntent, At, Resumable, Terminal, States,
         Fits, FlowsFit, Staged, Stage, ReceivedPcs, RunningPcs
<1>2. FlowsFit'
  BY <1>1, GoesOnFits, "enter" \in Labels, "enter" \in RunningPcs
     DEF Fits, Labels, RunningPcs
<1>3. DataFits'
  BY DEF Fits, DataFits, MarkProcessing, ReopenIntent, IntentStatus, env
<1>4. ChainFits'
  BY ChainStays DEF Fits, MarkProcessing, ReopenIntent
<1> QED
  BY <1>2, <1>3, <1>4 DEF Fits

LEMMA FailIntentFits ==
  ASSUME Fits, NEW w \in Workers, FailIntent(w)
  PROVE  Fits'
<1>1. FlowsFit'
  BY StopFits DEF Fits, FailIntent
<1>2. DataFits'
  BY DEF Fits, DataFits, FailIntent, IntentStatus, env
<1>3. ChainFits'
  BY ChainStays DEF Fits, FailIntent
<1> QED
  BY <1>1, <1>2, <1>3 DEF Fits

LEMMA SweepFits ==
  ASSUME Fits, NEW w \in Workers, Sweep(w) \/ Book(w)
  PROVE  Fits'
<1>1. PICK l \in {"submit", "clear"} : Goto(w, l)
  BY DEF Sweep, Book
<1>2. l \in Labels /\ l \in ReceivedPcs \ {"ordering"}
  BY DEF Labels, ReceivedPcs
<1>3. /\ flow[w].pc # "idle" /\ UNCHANGED advancing
      /\ flow[w].cur.state = "ASSET_RECEIVED"
  BY DEF Sweep, Book, Executing, InState, At, Cur, Fits, FlowsFit, Staged, Stage,
         ReceivedPcs
<1>4. FlowsFit'
  BY <1>1, <1>2, <1>3, GoesOnFits DEF Fits
<1>5. CASE Sweep(w)
  <2>1. DataFits'
    BY <1>5, DataStays DEF Fits, Sweep
  <2>2. ChainFits'
    BY <1>5 DEF Fits, ChainFits, Sweep, SweepDeposit
  <2> QED
    BY <1>4, <2>1, <2>2 DEF Fits
<1>6. CASE Book(w)
  <2>1. DataFits'
    BY <1>6, PostFits, "SWAPPED" \in Postings DEF Fits, Book, Postings
  <2>2. ChainFits'
    BY <1>6, ChainStays DEF Fits, Book
  <2> QED
    BY <1>4, <2>1, <2>2 DEF Fits
<1> QED
  BY <1>5, <1>6

LEMMA PostLateFits ==
  ASSUME Fits, NEW w \in Workers, PostLate(w)
  PROVE  Fits'
<1>1. flow[w].cur.state = "FAILED" /\ flow[w].pc # "idle"
  BY DEF PostLate, At, Fits, FlowsFit, Staged, Stage, FailedPcs
<1>2. "reopen" \in Labels /\ "reopen" \in FailedPcs \ {"postLate", "retRecord", "retReceipt"}
  BY DEF Labels, FailedPcs
<1>3. FlowsFit'
  BY <1>1, <1>2, GoesOnFits DEF Fits, PostLate
<1>4. DataFits'
  BY PostFits, "ASSET_RECEIVED" \in Postings DEF Fits, PostLate, Postings
<1>5. ChainFits'
  BY ChainStays DEF Fits, PostLate
<1> QED
  BY <1>3, <1>4, <1>5 DEF Fits

LEMMA ReturnSweepFits ==
  ASSUME Fits, NEW w \in Workers, ReturnSweep(w)
  PROVE  Fits'
<1>1. flow[w].cur.state = "FAILED" /\ flow[w].pc # "idle"
  BY DEF ReturnSweep, At, Fits, FlowsFit, Staged, Stage, FailedPcs
<1>2. "retStart" \in Labels /\ "retStart" \in FailedPcs \ {"postLate", "retRecord", "retReceipt"}
  BY DEF Labels, FailedPcs
<1>3. Stop(w) \/ (Goto(w, "retStart") /\ UNCHANGED advancing)
  BY DEF ReturnSweep
<1>4. FlowsFit'
  BY <1>1, <1>2, <1>3, GoesOnFits, StopFits DEF Fits
<1>5. DataFits'
  BY DataStays DEF Fits, ReturnSweep
<1>6. ChainFits'
  BY DEF Fits, ChainFits, ReturnSweep, SweepDeposit
<1> QED
  BY <1>4, <1>5, <1>6 DEF Fits

LEMMA ReturnReceiptFits ==
  ASSUME Fits, NEW w \in Workers, ReturnReceipt(w)
  PROVE  Fits'
<1>1. flow[w].cur.state = "FAILED" /\ flow[w].pc # "idle"
  BY DEF ReturnReceipt, At, Fits, FlowsFit, Staged, Stage, FailedPcs
<1>2. "retConfirm" \in Labels /\ "retConfirm" \in FailedPcs \ {"postLate", "retRecord", "retReceipt"}
  BY DEF Labels, FailedPcs
<1>3. Stop(w) \/ (Goto(w, "retConfirm") /\ UNCHANGED advancing)
  BY DEF ReturnReceipt
<1>4. FlowsFit'
  BY <1>1, <1>2, <1>3, GoesOnFits, StopFits DEF Fits
<1>5. DataFits'
  <2>1. Post(w, "RETURNED") \/ UNCHANGED ledger
    BY DEF ReturnReceipt
  <2>2. "RETURNED" \in Postings
    BY DEF Postings
  <2> QED
    BY <2>1, <2>2, PostFits, DataStays DEF Fits, ReturnReceipt, db
<1>6. ChainFits'
  BY ChainStays DEF Fits, ReturnReceipt
<1> QED
  BY <1>4, <1>5, <1>6 DEF Fits

(***************************************************************************)
(* The steps that broadcast a transaction                                  *)
(***************************************************************************)
LEMMA BroadcastFits ==
  ASSUME ChainFits, NEW t \in TxType, Broadcast(t),
         UNCHANGED <<deposit, pool, consumed, mined, path, payout>>
  PROVE  ChainFits' /\ sent + 1 \in 1..MaxTx
  BY ConstantsAssumption DEF ChainFits, Broadcast, Tx

LEMMA SubmitFits ==
  ASSUME Fits, NEW w \in Workers, Submit(w)
  PROVE  Fits'
<1>1. /\ flow[w].pc = "submit" /\ UNCHANGED <<advancing, path, payout>>
      /\ UNCHANGED <<env, db>>
  BY DEF Submit, At
<1>2. /\ flow[w].cur.state = "ASSET_RECEIVED" /\ Stage(flow[w])
      /\ flow[w].job \in Payments /\ flow[w].cur \in RowType
  BY <1>1, NotIdle DEF Fits, FlowsFit, Stage, ReceivedPcs, Job, Cur
<1>3. DataFits'
  BY <1>1, DataStays DEF Fits
<1>4. CASE consumed[Job(w)]
  <2>1. Goto(w, "book") /\ UNCHANGED chain
    BY <1>4 DEF Submit
  <2>2. "book" \in Labels /\ "book" \in ReceivedPcs \ {"ordering"}
    BY DEF Labels, ReceivedPcs
  <2>3. FlowsFit'
    BY <1>1, <1>2, <2>1, <2>2, GoesOnFits DEF Fits
  <2> QED
    BY <1>1, <1>3, <2>1, <2>3, ChainStays DEF Fits
<1>5. CASE ~consumed[Job(w)]
  <2> DEFINE t == [kind |-> "order", p |-> Job(w), deadline |-> Cur(w).deadline,
                   status |-> "pending"]
  <2>1. t \in TxType
    BY <1>2 DEF TxType, TxStatus, RowType, Job, Cur
  <2>2. /\ Broadcast(t) /\ UNCHANGED <<deposit, pool, consumed, mined>>
        /\ flow' = [flow EXCEPT ![w].pc = "ordering", ![w].tx = sent + 1]
    BY <1>5 DEF Submit
  <2> HIDE DEF t
  <2>3. ChainFits' /\ sent + 1 \in 1..MaxTx
    BY <1>1, <2>1, <2>2, BroadcastFits DEF Fits
  <2>4. sent + 1 \in 0..MaxTx /\ sent + 1 # 0
    BY <2>3
  <2>5. Went(w, "ordering") /\ flow'[w].tx = sent + 1
    BY <2>2, <2>4, TakesTxGoes, "ordering" \in Labels DEF Fits, FlowsFit, Labels
  <2>6. Stage(flow'[w])
    BY <1>2, <2>4, <2>5 DEF Went, Stage, FailedPcs, ReceivedPcs, RunningPcs
  <2> QED
    BY <1>1, <1>3, <2>3, <2>5, <2>6, MoveFits DEF Went, Fits, FlowsFit
<1> QED
  BY <1>4, <1>5

LEMMA ReturnSendFits ==
  ASSUME Fits, NEW w \in Workers, ReturnSend(w)
  PROVE  Fits'
<1> DEFINE t == [kind |-> "return", p |-> Job(w), deadline |-> 0,
                 status |-> "pending"]
<1>1. /\ flow[w].pc = "retSend"
      /\ UNCHANGED <<advancing, path, payout, deposit, pool, consumed, mined, env, db>>
      /\ Broadcast(t)
      /\ flow' = [flow EXCEPT ![w].pc = "retRecord", ![w].tx = sent + 1]
  BY DEF ReturnSend, At
<1>2. /\ flow[w].cur.state = "FAILED" /\ Stage(flow[w])
      /\ flow[w].job \in Payments
  BY <1>1, NotIdle DEF Fits, FlowsFit, Stage, FailedPcs, Job
<1>3. t \in TxType
  BY <1>2 DEF TxType, TxStatus, Job
<1> HIDE DEF t
<1>4. ChainFits' /\ sent + 1 \in 1..MaxTx
  BY <1>1, <1>3, BroadcastFits DEF Fits
<1>5. sent + 1 \in 0..MaxTx /\ sent + 1 # 0
  BY <1>4
<1>6. Went(w, "retRecord") /\ flow'[w].tx = sent + 1
  BY <1>1, <1>5, TakesTxGoes, "retRecord" \in Labels DEF Fits, FlowsFit, Labels
<1>7. Stage(flow'[w])
  BY <1>2, <1>5, <1>6 DEF Went, Stage, FailedPcs, ReceivedPcs, RunningPcs
<1>8. FlowsFit'
  BY <1>1, <1>6, <1>7, MoveFits DEF Went, Fits, FlowsFit
<1> QED
  BY <1>1, <1>4, <1>8, DataStays DEF Fits

(***************************************************************************)
(* The steps that update the row                                           *)
(***************************************************************************)

\* What every one of them does.
Updates(w, new, event) ==
    /\ Update(w, new, event)
    /\ UNCHANGED <<env, ledger, intent, chain, path, payout>>

LEMMA UpdatesFits ==
  ASSUME DataFits, ChainFits, NEW w \in Workers, NEW new \in RowType,
         NEW event \in Events, Updates(w, new, event), UNCHANGED returnRef
  PROVE  DataFits' /\ ChainFits'
<1>1. DataFits'
  BY UpdateFits DEF Updates, DataFits
<1>2. ChainFits'
  BY ChainStays DEF Updates
<1> QED
  BY <1>1, <1>2

LEMMA InsertUpdates ==
  ASSUME FlowsFit, NEW w \in Workers, Insert(w)
  PROVE  LET new == [NoRow EXCEPT !.state = "CREATED"] IN
         /\ new \in RowType /\ new.state = "CREATED"
         /\ new.version = 0 /\ new.code = "none" /\ new.failedAt = 0 /\ new.deadline = 0
         /\ Updates(w, new, "CREATED") /\ Wrote(w, new, "mark")
         /\ flow[w].pc = "insert" /\ UNCHANGED <<returnRef, advancing>>
<1> DEFINE new == [NoRow EXCEPT !.state = "CREATED"]
<1>1. /\ new \in RowType /\ new.state = "CREATED" /\ new.version = 0
      /\ new.code = "none" /\ new.failedAt = 0 /\ new.deadline = 0
  BY DEF NoRow, RowType, States, Codes
<1>2. Continue(w, new, "mark") /\ Updates(w, new, "CREATED")
  BY DEF Insert, Updates
<1>3. flow[w].pc = "insert" /\ UNCHANGED <<returnRef, advancing>>
  BY DEF Insert, At
<1> HIDE DEF new
<1>4. Wrote(w, new, "mark")
  BY <1>1, <1>2, ContinueWrites, "mark" \in Labels DEF FlowsFit, Labels
<1> QED
  BY <1>1, <1>2, <1>3, <1>4 DEF new

LEMMA FailUpdates ==
  ASSUME FlowsFit, now \in Nat, NEW w \in Workers, Fail(w)
  PROVE  LET new == [Cur(w) EXCEPT !.state = "FAILED", !.code = flow[w].code,
                                   !.failedAt = now] IN
         /\ new \in RowType /\ new.state = "FAILED" /\ new.code = flow[w].code
         /\ new.failedAt = now /\ new.deadline = Cur(w).deadline
         /\ new.version = Cur(w).version
         /\ Updates(w, new, "FAILED") /\ Wrote(w, new, "failIntent")
         /\ flow[w].pc = "fail" /\ UNCHANGED <<returnRef, advancing>>
<1> DEFINE new == [Cur(w) EXCEPT !.state = "FAILED", !.code = flow[w].code,
                                 !.failedAt = now]
<1>1. flow[w].pc = "fail" /\ UNCHANGED <<returnRef, advancing>>
  BY DEF Fail, At
<1>2. Cur(w) \in RowType /\ flow[w].code \in Codes
  BY <1>1, NotIdle DEF FlowType
<1>3. /\ new \in RowType /\ new.state = "FAILED" /\ new.code = flow[w].code
      /\ new.failedAt = now /\ new.deadline = Cur(w).deadline
      /\ new.version = Cur(w).version
  <2>1. "FAILED" \in States
    BY DEF States
  <2> QED
    BY <1>2, <2>1 DEF RowType
<1>4. Continue(w, new, "failIntent") /\ Updates(w, new, "FAILED")
  BY DEF Fail, Updates
<1> HIDE DEF new
<1>5. Wrote(w, new, "failIntent")
  BY <1>3, <1>4, ContinueWrites, "failIntent" \in Labels DEF FlowsFit, Labels
<1> QED
  BY <1>1, <1>3, <1>4, <1>5 DEF new

LEMMA ReopenUpdates ==
  ASSUME FlowsFit, NEW w \in Workers, Reopen(w)
  PROVE  LET new == [Cur(w) EXCEPT !.state = "ASSET_RECEIVED", !.code = "none",
                                   !.failedAt = 0] IN
         /\ new \in RowType /\ new.state = "ASSET_RECEIVED" /\ new.code = "none"
         /\ new.failedAt = 0 /\ new.deadline = Cur(w).deadline
         /\ new.version = Cur(w).version
         /\ Updates(w, new, "ASSET_RECEIVED") /\ Wrote(w, new, "reopenIntent")
         /\ flow[w].pc = "reopen" /\ UNCHANGED <<returnRef, advancing>>
<1> DEFINE new == [Cur(w) EXCEPT !.state = "ASSET_RECEIVED", !.code = "none",
                                 !.failedAt = 0]
<1>1. flow[w].pc = "reopen" /\ UNCHANGED <<returnRef, advancing>>
  BY DEF Reopen, At
<1>2. Cur(w) \in RowType
  BY <1>1, NotIdle
<1>3. /\ new \in RowType /\ new.state = "ASSET_RECEIVED" /\ new.code = "none"
      /\ new.failedAt = 0 /\ new.deadline = Cur(w).deadline
      /\ new.version = Cur(w).version
  <2>1. "ASSET_RECEIVED" \in States /\ "none" \in Codes
    BY DEF States, Codes
  <2> QED
    BY <1>2, <2>1 DEF RowType
<1>4. Continue(w, new, "reopenIntent") /\ Updates(w, new, "ASSET_RECEIVED")
  BY DEF Reopen, Updates
<1> HIDE DEF new
<1>5. Wrote(w, new, "reopenIntent")
  BY <1>3, <1>4, ContinueWrites, "reopenIntent" \in Labels DEF FlowsFit, Labels
<1> QED
  BY <1>1, <1>3, <1>4, <1>5 DEF new

LEMMA RenewUpdates ==
  ASSUME FlowsFit, now \in Nat, NEW w \in Workers, Renew(w)
  PROVE  LET new == [Cur(w) EXCEPT !.deadline = now + RenewTtl] IN
         /\ new \in RowType /\ new.state = Cur(w).state /\ new.code = Cur(w).code
         /\ new.failedAt = Cur(w).failedAt /\ new.deadline = now + RenewTtl
         /\ new.version = Cur(w).version
         /\ Updates(w, new, "ASSET_RECEIVED") /\ Wrote(w, new, "sweep")
         /\ flow[w].pc = "step" /\ Cur(w).state = "ASSET_RECEIVED"
         /\ Cur(w).deadline <= now /\ path[Job(w)] = "order"
         /\ UNCHANGED <<returnRef, advancing>>
<1> DEFINE new == [Cur(w) EXCEPT !.deadline = now + RenewTtl]
<1>1. /\ flow[w].pc = "step" /\ UNCHANGED <<returnRef, advancing>>
      /\ Cur(w).state = "ASSET_RECEIVED" /\ path[Job(w)] = "order"
      /\ Cur(w).deadline <= now
  BY DEF Renew, Executing, InState, At, Stale
<1>2. Cur(w) \in RowType
  BY <1>1, NotIdle
<1>3. /\ new \in RowType /\ new.state = Cur(w).state /\ new.code = Cur(w).code
      /\ new.failedAt = Cur(w).failedAt /\ new.deadline = now + RenewTtl
      /\ new.version = Cur(w).version
  <2>1. now + RenewTtl \in Nat
    BY ConstantsAssumption
  <2> QED
    BY <1>2, <2>1 DEF RowType
<1>4. /\ flow' = [flow EXCEPT ![w].cur = Bump(new), ![w].pc = "sweep",
                              ![w].renewed = TRUE]
      /\ Updates(w, new, "ASSET_RECEIVED")
  BY DEF Renew, Updates
<1> HIDE DEF new
<1>5. Bump(new) \in RowType
  BY <1>3, BumpFits
<1> DEFINE f == [flow[w] EXCEPT !.cur = Bump(new), !.pc = "sweep",
                                !.renewed = TRUE]
<1>6. flow[w] \in FlowType
  BY DEF FlowsFit
<1>7. f \in FlowType /\ f.pc = "sweep" /\ f.job = flow[w].job /\ f.cur = Bump(new)
  <2>1. "sweep" \in Labels
    BY DEF Labels
  <2> QED
    BY <1>5, <1>6, <2>1 DEF FlowType
<1>8. flow' = [flow EXCEPT ![w] = f]
  BY <1>4 DEF FlowsFit
<1> HIDE DEF f
<1>9. Wrote(w, new, "sweep")
  <2>1. flow \in [Workers -> FlowType]
    BY DEF FlowsFit
  <2>2. /\ flow' \in [Workers -> FlowType] /\ flow'[w] = f
        /\ \A v \in Workers \ {w} : flow'[v] = flow[v]
    BY <1>7, <1>8, <2>1
  <2> QED
    BY <1>7, <2>2 DEF Wrote, OnlyMoves
<1> QED
  BY <1>1, <1>3, <1>4, <1>9 DEF new

\* The row a transition writes.
LEMMA MovedFits ==
  ASSUME FlowsFit, now \in Nat, NEW w \in Workers, Cur(w) \in RowType,
         Cur(w).state \in Resumable
  PROVE  LET new == Moved(w) IN
         /\ new \in RowType /\ new.state = NextState(Cur(w).state)
         /\ new.code = Cur(w).code /\ new.failedAt = Cur(w).failedAt
         /\ new.version = Cur(w).version
         /\ new.deadline =
              IF NextState(Cur(w).state) # "PRICE_LOCKED" THEN Cur(w).deadline
              ELSE IF path[Job(w)] = "contract" THEN now + QuoteTtl
              ELSE IntentExpiry + ExpiryGrace
<1> DEFINE to == NextState(Cur(w).state)
           d == IF to # "PRICE_LOCKED" THEN Cur(w).deadline
                ELSE IF path[Job(w)] = "contract" THEN now + QuoteTtl
                ELSE IntentExpiry + ExpiryGrace
           h == \/ Cur(w).hash \/ (path[Job(w)] = "contract" /\ to = "ASSET_RECEIVED")
                \/ (path[Job(w)] = "order" /\ to = "CLEARING")
<1>1. Moved(w) = [Cur(w) EXCEPT !.state = to, !.deadline = d, !.hash = h]
  BY Zenon DEF Moved
<1>2. to \in States
  BY NextStateFits
<1>3. d \in Nat
  BY ConstantsAssumption DEF RowType
<1>4. h \in BOOLEAN
  OBVIOUS
<1> HIDE DEF to, d, h
<1>5. LET new == Moved(w) IN
      /\ new \in RowType /\ new.state = to
      /\ new.code = Cur(w).code /\ new.failedAt = Cur(w).failedAt
      /\ new.version = Cur(w).version /\ new.deadline = d
  BY <1>1, <1>2, <1>3, <1>4 DEF RowType
<1> QED
  BY <1>5 DEF to, d

LEMMA PersistUpdates ==
  ASSUME FlowsFit, now \in Nat, NEW w \in Workers, Persist(w)
  PROVE  /\ Cur(w).state \in Resumable \ {"SETTLED"}
         /\ Cur(w) \in RowType /\ flow[w].pc \in {"step", "persist"}
         /\ Updates(w, Moved(w), Moved(w).state) /\ Wrote(w, Moved(w), "step")
         /\ UNCHANGED <<returnRef, advancing>>
<1>1. flow[w].pc \in {"step", "persist"}
  BY DEF Persist, Quiet, At
<1>2. /\ Cur(w) \in RowType /\ Cur(w).state \in Resumable /\ Job(w) \in Payments
  BY <1>1, NotIdle DEF Stage, RunningPcs, Cur
<1>3. Cur(w).state # "SETTLED"
  BY DEF Persist, Quiet
<1>4. Updates(w, Moved(w), Moved(w).state) /\ UNCHANGED <<returnRef, advancing>>
  BY DEF Persist, Updates
<1>5. Bump(Moved(w)) \in RowType
  BY <1>2, MovedFits, BumpFits
<1> DEFINE f == [FlowAt("step", Job(w), Bump(Moved(w))) EXCEPT !.entered = TRUE]
<1>6. flow' = [flow EXCEPT ![w] = f]
  BY DEF Persist
<1>7. f \in FlowType /\ f.pc = "step" /\ f.job = Job(w) /\ f.cur = Bump(Moved(w))
  <2>1. "step" \in Labels /\ "none" \in Codes
    BY DEF Labels, Codes
  <2> QED
    BY <1>2, <1>5, <2>1, NoTxYet DEF FlowType, FlowAt
<1> HIDE DEF f
<1>8. Wrote(w, Moved(w), "step")
  BY <1>6, <1>7 DEF FlowsFit, Wrote, OnlyMoves, Job
<1> QED
  BY <1>1, <1>2, <1>3, <1>4, <1>8

LEMMA FinishUpdates ==
  ASSUME FlowsFit, now \in Nat, NEW w \in Workers, Finish(w)
  PROVE  /\ Cur(w).state = "SETTLED" /\ Cur(w) \in RowType
         /\ flow[w].pc = "persist" /\ Moved(w).state = "SUCCESS"
         /\ Updates(w, Moved(w), "SUCCESS") /\ Stop(w) /\ UNCHANGED returnRef
<1>1. /\ flow[w].pc = "persist" /\ Cur(w).state = "SETTLED"
      /\ Updates(w, Moved(w), "SUCCESS") /\ Stop(w) /\ UNCHANGED returnRef
  BY DEF Finish, At, Updates
<1>2. Cur(w) \in RowType
  BY <1>1, NotIdle
<1>3. NextState("SETTLED") = "SUCCESS" /\ "SETTLED" \in Resumable
  BY DEF NextState, Resumable, Terminal, States
<1> QED
  BY <1>1, <1>2, <1>3, MovedFits

LEMMA ReturnStartUpdates ==
  ASSUME FlowsFit, NEW w \in Workers, ReturnStart(w)
  PROVE  /\ Cur(w) \in RowType /\ flow[w].pc = "retStart"
         /\ Updates(w, Cur(w), "return.started") /\ Wrote(w, Cur(w), "retSend")
         /\ UNCHANGED <<returnRef, advancing>>
<1>1. /\ flow[w].pc = "retStart" /\ Updates(w, Cur(w), "return.started")
      /\ Continue(w, Cur(w), "retSend") /\ UNCHANGED <<returnRef, advancing>>
  BY DEF ReturnStart, At, Updates
<1>2. Cur(w) \in RowType
  BY <1>1, NotIdle
<1> QED
  BY <1>1, <1>2, ContinueWrites, "retSend" \in Labels DEF FlowsFit, Labels

LEMMA ReturnRecordUpdates ==
  ASSUME FlowsFit, NEW w \in Workers, ReturnRecord(w)
  PROVE  /\ Cur(w) \in RowType /\ flow[w].pc = "retRecord"
         /\ Updates(w, Cur(w), "return.broadcast") /\ Wrote(w, Cur(w), "retReceipt")
         /\ flow'[w].tx = flow[w].tx /\ UNCHANGED advancing
         /\ returnRef' = [returnRef EXCEPT ![Job(w)] = flow[w].tx]
<1>1. /\ flow[w].pc = "retRecord" /\ Updates(w, Cur(w), "return.broadcast")
      /\ Continue(w, Cur(w), "retReceipt") /\ UNCHANGED advancing
      /\ returnRef' = [returnRef EXCEPT ![Job(w)] = flow[w].tx]
  BY DEF ReturnRecord, At, Updates
<1>2. Cur(w) \in RowType
  BY <1>1, NotIdle
<1> QED
  BY <1>1, <1>2, ContinueWrites, "retReceipt" \in Labels DEF FlowsFit, Labels

LEMMA ReturnConfirmUpdates ==
  ASSUME FlowsFit, NEW w \in Workers, ReturnConfirm(w)
  PROVE  /\ Cur(w) \in RowType /\ flow[w].pc = "retConfirm"
         /\ Updates(w, Cur(w), "return.confirmed") /\ Stop(w) /\ UNCHANGED returnRef
<1>1. /\ flow[w].pc = "retConfirm" /\ Updates(w, Cur(w), "return.confirmed")
      /\ Stop(w) /\ UNCHANGED returnRef
  BY DEF ReturnConfirm, At, Updates
<1> QED
  BY <1>1, NotIdle

\* A flow that goes on from the row it wrote.
LEMMA WroteFits ==
  ASSUME FlowsFit, NEW w \in Workers, NEW new \in RowType, NEW l \in Labels,
         Wrote(w, new, l), flow[w].pc # "idle", UNCHANGED advancing,
         \/ l \in FailedPcs \ {"postLate", "retRecord", "retReceipt"} /\ new.state = "FAILED"
         \/ l \in ReceivedPcs \ {"ordering"} /\ new.state = "ASSET_RECEIVED"
         \/ l \in RunningPcs /\ new.state \in Resumable
  PROVE  FlowsFit'
<1>1. flow[w].job \in Payments
  BY NotIdle DEF Job
<1>2. Bump(new).state = new.state
  BY BumpFits
<1>3. Stage(flow'[w])
  BY <1>1, <1>2 DEF Wrote, Stage, FailedPcs, ReceivedPcs, RunningPcs
<1> QED
  BY <1>3, MoveFits DEF Wrote, FlowsFit

LEMMA UpdateActionsFit ==
  ASSUME Fits, NEW w \in Workers,
         \/ Insert(w) \/ Renew(w) \/ Persist(w) \/ Finish(w) \/ Fail(w) \/ Reopen(w)
         \/ ReturnStart(w) \/ ReturnRecord(w) \/ ReturnConfirm(w)
  PROVE  Fits'
<1>0. FlowsFit /\ DataFits /\ ChainFits /\ now \in Nat
  BY DEF Fits, DataFits
<1>1. CASE Insert(w)
  <2>1. "mark" \in Labels /\ "mark" \in RunningPcs /\ "CREATED" \in Resumable
        /\ "CREATED" \in Events
    BY DEF Labels, RunningPcs, Resumable, Terminal, States, Events
  <2> QED
    BY <1>0, <1>1, <2>1, InsertUpdates, UpdatesFits, WroteFits DEF Fits
<1>2. CASE Renew(w)
  <2>1. "sweep" \in Labels /\ "sweep" \in ReceivedPcs \ {"ordering"}
        /\ "ASSET_RECEIVED" \in Events
    BY DEF Labels, ReceivedPcs, States, Events
  <2> QED
    BY <1>0, <1>2, <2>1, RenewUpdates, UpdatesFits, WroteFits DEF Fits
<1>3. CASE Persist(w)
  <2>1. "step" \in Labels /\ "step" \in RunningPcs
    BY DEF Labels, RunningPcs
  <2>2. /\ Cur(w).state \in Resumable \ {"SETTLED"} /\ Cur(w) \in RowType
        /\ flow[w].pc \in {"step", "persist"}
        /\ Updates(w, Moved(w), Moved(w).state) /\ Wrote(w, Moved(w), "step")
        /\ UNCHANGED <<returnRef, advancing>>
    BY <1>0, <1>3, PersistUpdates
  <2>3. /\ Moved(w) \in RowType /\ Moved(w).state \in Resumable
        /\ Moved(w).state \in Events
    BY <1>0, <2>2, MovedFits, NextStateFits DEF Events
  <2> QED
    BY <1>0, <2>1, <2>2, <2>3, UpdatesFits, WroteFits DEF Fits
<1>4. CASE Finish(w)
  <2>1. "SUCCESS" \in Events /\ "SETTLED" \in Resumable
    BY DEF Events, States, Resumable, Terminal
  <2>2. Moved(w) \in RowType
    BY <1>0, <1>4, <2>1, FinishUpdates, MovedFits
  <2> QED
    BY <1>0, <1>4, <2>1, <2>2, FinishUpdates, UpdatesFits, StopFits DEF Fits
<1>5. CASE Fail(w)
  <2>1. "failIntent" \in Labels /\ "FAILED" \in Events
        /\ "failIntent" \in FailedPcs \ {"postLate", "retRecord", "retReceipt"}
    BY DEF Labels, FailedPcs, States, Events
  <2> QED
    BY <1>0, <1>5, <2>1, FailUpdates, UpdatesFits, WroteFits DEF Fits
<1>6. CASE Reopen(w)
  <2>1. "reopenIntent" \in Labels /\ "ASSET_RECEIVED" \in Events
        /\ "reopenIntent" \in ReceivedPcs \ {"ordering"}
    BY DEF Labels, ReceivedPcs, States, Events
  <2> QED
    BY <1>0, <1>6, <2>1, ReopenUpdates, UpdatesFits, WroteFits DEF Fits
<1>7. CASE ReturnStart(w)
  <2>1. "retSend" \in Labels /\ "return.started" \in Events
        /\ "retSend" \in FailedPcs \ {"postLate", "retRecord", "retReceipt"}
    BY DEF Labels, FailedPcs, Events
  <2>2. flow[w].pc = "retStart" /\ Cur(w).state = "FAILED"
    BY <1>0, <1>7, ReturnStartUpdates DEF FlowsFit, Staged, Stage, FailedPcs, Cur
  <2> QED
    BY <1>0, <1>7, <2>1, <2>2, ReturnStartUpdates, UpdatesFits, WroteFits DEF Fits
<1>8. CASE ReturnRecord(w)
  <2>1. "return.broadcast" \in Events
    BY DEF Events
  <2>2. /\ Cur(w) \in RowType /\ flow[w].pc = "retRecord"
        /\ Updates(w, Cur(w), "return.broadcast") /\ Wrote(w, Cur(w), "retReceipt")
        /\ flow'[w].tx = flow[w].tx /\ UNCHANGED advancing
        /\ returnRef' = [returnRef EXCEPT ![Job(w)] = flow[w].tx]
    BY <1>0, <1>8, ReturnRecordUpdates
  <2>3. Stage(flow[w]) /\ flow[w] \in FlowType
    BY <1>0, <2>2, NotIdle
  <2>4. flow[w].tx \in 0..MaxTx
    BY <2>3 DEF FlowType
  <2>5. DataFits' /\ ChainFits'
    <3>1. returnRef' \in [Payments -> 0..MaxTx]
      BY <1>0, <2>2, <2>4 DEF DataFits
    <3> QED
      BY <1>0, <2>1, <2>2, <3>1, UpdateFits, ChainStays DEF Updates
  <2>6. Bump(Cur(w)).state = Cur(w).state
    BY <2>2, BumpFits
  <2>7. Stage(flow'[w])
    BY <2>2, <2>3, <2>6 DEF Wrote, Stage, Cur, FailedPcs, ReceivedPcs, RunningPcs
  <2> QED
    BY <1>0, <2>2, <2>5, <2>7, MoveFits DEF Wrote, Fits, FlowsFit
<1>9. CASE ReturnConfirm(w)
  <2>1. "return.confirmed" \in Events
    BY DEF Events
  <2> QED
    BY <1>0, <1>9, <2>1, ReturnConfirmUpdates, UpdatesFits, StopFits DEF Fits
<1> QED
  BY <1>1, <1>2, <1>3, <1>4, <1>5, <1>6, <1>7, <1>8, <1>9

(***************************************************************************)
(* The world, and a crash                                                  *)
(***************************************************************************)
LEMMA WorldFits ==
  ASSUME Fits, NEW p \in Payments, World(p)
  PROVE  Fits'
<1>1. UNCHANGED <<flow, advancing>>
  BY DEF World, ConfirmIntent, ExpireIntent, PayerDeposits, PayerPays,
         AdapterDecides
<1>2. DataFits'
  BY DEF Fits, DataFits, IntentStatus, env, db, World, ConfirmIntent,
         ExpireIntent, PayerDeposits, PayerPays, AdapterDecides
<1>3. ChainFits'
  BY DEF Fits, ChainFits, chain, World, ConfirmIntent, ExpireIntent,
         PayerDeposits, PayerPays, AdapterDecides
<1> QED
  BY <1>1, <1>2, <1>3, FlowsStay DEF Fits

LEMMA TickFits ==
  ASSUME Fits, Tick
  PROVE  Fits'
<1>1. DataFits'
  BY DEF Fits, DataFits, db, Tick
<1> QED
  BY <1>1, FlowsStay, ChainStays DEF Fits, Tick

\* What mining the next transaction did to it.
MinedAs(s) ==
    LET t == optx[mined + 1] IN
    /\ s \in Outcomes(t)
    /\ optx' = [optx EXCEPT ![mined + 1].status = s]
    /\ pool' = IF s = "success" THEN pool - 1 ELSE pool
    /\ consumed' = IF s = "success" /\ t.kind = "order"
                   THEN [consumed EXCEPT ![t.p] = TRUE] ELSE consumed

LEMMA MineMines ==
  ASSUME ChainFits, Mine
  PROVE  /\ mined + 1 \in Tx /\ mined + 1 <= sent
         /\ optx[mined + 1] \in TxType
         /\ \E s \in TxStatus : MinedAs(s) /\ (s = "success" => pool # 0)
<1>1. mined < sent /\ mined + 1 \in Tx /\ mined + 1 <= sent
  BY ConstantsAssumption DEF ChainFits, Mine, Tx
<1>2. PICK s \in Outcomes(optx[mined + 1]) : MinedAs(s)
  BY DEF Mine, MinedAs
<1>3. s \in TxStatus /\ (s = "success" => pool # 0)
  BY <1>2 DEF Outcomes, TxStatus
<1> QED
  BY <1>1, <1>2, <1>3 DEF ChainFits

LEMMA MineFits ==
  ASSUME Fits, Mine
  PROVE  Fits'
<1>1. PICK s \in TxStatus : MinedAs(s) /\ (s = "success" => pool # 0)
  BY MineMines DEF Fits
<1>2. mined + 1 \in Tx /\ optx[mined + 1] \in TxType /\ ChainFits
  BY MineMines DEF Fits
<1>3. optx' \in [Tx -> TxType]
  BY <1>1, <1>2 DEF MinedAs, ChainFits, TxType
<1>4. pool' \in Nat
  BY <1>1, <1>2 DEF MinedAs, ChainFits
<1>5. consumed' \in [Payments -> BOOLEAN]
  BY <1>1, <1>2 DEF MinedAs, ChainFits
<1>6. mined' \in 0..sent' /\ sent' \in 0..MaxTx
  BY <1>2, ConstantsAssumption DEF Mine, ChainFits
<1>7. ChainFits'
  BY <1>2, <1>3, <1>4, <1>5, <1>6 DEF Mine, ChainFits
<1> QED
  BY <1>7, FlowsStay, DataStays DEF Fits, Mine

LEMMA CrashFits ==
  ASSUME Fits, NEW h \in Hosts, Crash(h)
  PROVE  Fits'
<1>1. /\ flow' \in [Workers -> FlowType]
      /\ \A w \in Workers : flow'[w] = flow[w] \/ flow'[w] = Idle
  BY IdleFits DEF Fits, FlowsFit, Crash
<1>2. Staged'
  BY <1>1, IdleFits DEF Fits, FlowsFit, Staged
<1>3. advancing' \subseteq Hosts \X Payments
  BY DEF Fits, FlowsFit, Crash
<1>4. DataFits' /\ ChainFits'
  BY ChainStays DEF Fits, DataFits, db, Crash, Upset
<1> QED
  BY <1>1, <1>2, <1>3, <1>4 DEF Fits, FlowsFit

(***************************************************************************)
(* Types hold                                                              *)
(***************************************************************************)
LEMMA RunFits ==
  ASSUME Fits, NEW w \in Workers, Run(w)
  PROVE  Fits'
<1>1. CASE EndsFlow(w)
  BY <1>1, EndsFlowFits
<1>2. CASE Enter(w)
  BY <1>2, EnterFits
<1>3. CASE QuoteExpired(w) \/ Unconfirmed(w)
  BY <1>3, FailingFits
<1>4. CASE OrderMined(w)
  BY <1>4, OrderMinedFits
<1>5. CASE ReadEvents(w) \/ ReturnRead(w) \/ ReturnCheck(w)
  BY <1>5, ReadFits
<1>6. CASE Receive(w) \/ Clear(w) \/ Confirm(w)
  BY <1>6, PostsFits
<1>7. CASE Settle(w) \/ Complete(w) \/ FailIntent(w)
  BY <1>7, SettleFits, CompleteFits, FailIntentFits
<1>8. CASE MarkProcessing(w) \/ ReopenIntent(w)
  BY <1>8, EntersAgainFits
<1>9. CASE Sweep(w) \/ Book(w) \/ PostLate(w)
  BY <1>9, SweepFits, PostLateFits
<1>10. CASE ReturnSweep(w) \/ ReturnReceipt(w)
  BY <1>10, ReturnSweepFits, ReturnReceiptFits
<1>11. CASE Submit(w) \/ ReturnSend(w)
  BY <1>11, SubmitFits, ReturnSendFits
<1>12. CASE \/ Insert(w) \/ Renew(w) \/ Persist(w) \/ Finish(w) \/ Fail(w)
            \/ Reopen(w) \/ ReturnStart(w) \/ ReturnRecord(w) \/ ReturnConfirm(w)
  BY <1>12, UpdateActionsFit
<1> QED
  BY <1>1, <1>2, <1>3, <1>4, <1>5, <1>6, <1>7, <1>8, <1>9, <1>10, <1>11, <1>12
     DEF Run, EndsFlow

LEMMA StutterFits ==
  ASSUME Fits, UNCHANGED vars
  PROVE  Fits'
  BY DataStays, ChainStays, FlowsStay DEF Fits, vars

LEMMA InitTypes == Init => TInv
<1> SUFFICES ASSUME Init PROVE TInv
  OBVIOUS
<1>1. FlowsFit
  BY IdleFits DEF Init, FlowsFit, Staged
<1>2. DataFits
  <2>1. NoRow \in RowType
    BY DEF RowType, NoRow, States, Codes
  <2> QED
    BY <2>1, NoTxYet DEF Init, DataFits, IntentStatus
<1>3. ChainFits
  <2>1. NoTx \in TxType
    BY DEF TxType, NoTx, TxStatus
  <2> QED
    BY <2>1, ConstantsAssumption DEF Init, ChainFits
<1> QED
  BY <1>1, <1>2, <1>3, TypesSplit DEF Fits

LEMMA NextTypes == TInv /\ [Next]_vars => TInv'
<1> SUFFICES ASSUME Fits, [Next]_vars PROVE Fits'
  BY TypesSplit
<1>1. CASE Tick
  BY <1>1, TickFits
<1>2. CASE Mine
  BY <1>2, MineFits
<1>3. ASSUME NEW p \in Payments, World(p) PROVE Fits'
  BY <1>3, WorldFits
<1>4. ASSUME NEW w \in Workers, NEW p \in Payments, PickUp(w, p) PROVE Fits'
  BY <1>4, PickUpFits
<1>5. ASSUME NEW w \in Workers, Run(w) \/ SubmitFails(w) \/ Throw(w) PROVE Fits'
  BY <1>5, RunFits, OrderMinedFits, FailingFits
<1>6. ASSUME NEW h \in Hosts, Crash(h) PROVE Fits'
  BY <1>6, CrashFits
<1>7. CASE UNCHANGED vars
  BY <1>7, StutterFits
<1> QED
  BY <1>1, <1>2, <1>3, <1>4, <1>5, <1>6, <1>7 DEF Next

\* Every variable keeps its type, and a flow holds only rows in the states its
\* label stands for, whatever interleaves with it.
THEOREM TypeCorrect == Spec => []TypeOK
<1>1. Spec => []TInv
  BY InitTypes, NextTypes, PTL DEF Spec
<1>2. TInv => TypeOK
  BY DEF TInv
<1> QED
  BY <1>1, <1>2, PTL

(***************************************************************************)
(* Why a deposit is never returned twice, and never both returned and      *)
(* paid out unless its order outlives the grace, for every number of       *)
(* payments, flows and processes and all times: the invariant IInv of      *)
(* ClearingInvariant is inductive.                                         *)
(***************************************************************************)
\* What the data parts of the invariant and the knowledge of a flow are about.
core == <<now, row, log, path, consumed, optx, sent, payout>>

DataInv ==
    /\ \A p \in Payments : RowInv(p) /\ StartedInv(p) /\ PayoutInv(p)
    /\ \A i \in Tx : TxInv(i)
    /\ AtMostOneReturn

FlowsInv == (\A w \in Workers : FlowInv(flow[w])) /\ OneSender

LEMMA InvSplit ==
  /\ IInv <=> TInv /\ DataInv /\ FlowsInv
  /\ IInv' <=> TInv' /\ DataInv' /\ FlowsInv'
  BY DEF IInv, DataInv, FlowsInv

(***************************************************************************)
(* Steps that change what one flow holds and nothing it knows about        *)
(***************************************************************************)
LEMMA DataInvStays ==
  ASSUME DataInv, UNCHANGED core
  PROVE  DataInv'
  BY DEF DataInv, core, RowInv, StartedInv, OrderOutlivesGrace, PayoutInv, TxInv, AtMostOneReturn,
         ReturnTxs, Started

\* Flow w took a step, and what it holds now is still true of the stored data.
LEMMA FlowStepSafe ==
  ASSUME FlowsInv, NEW w \in Workers, OnlyMoves(w), UNCHANGED core,
         FlowInv(flow'[w]), flow'[w].pc # "retSend"
  PROVE  FlowsInv'
<1>1. ASSUME NEW v \in Workers PROVE FlowInv(flow[v])'
  <2>1. FlowInv(flow'[v])
    BY DEF FlowsInv, OnlyMoves
  <2> QED
    BY <2>1 DEF core, FlowInv, Snapshot, Unmoved, Reopening, Returning, OrderOutlivesGrace, Started, ReturnTxs
<1>2. OneSender'
  BY DEF FlowsInv, OneSender, OnlyMoves, At, Job
<1> QED
  BY <1>1, <1>2 DEF FlowsInv

LEMMA LocalSafe ==
  ASSUME IInv, TInv', NEW w \in Workers, OnlyMoves(w), UNCHANGED core,
         FlowInv(flow'[w]), flow'[w].pc # "retSend"
  PROVE  IInv'
  BY InvSplit, DataInvStays, FlowStepSafe

LEMMA NothingSafe ==
  ASSUME IInv, TInv', UNCHANGED core, UNCHANGED flow
  PROVE  IInv'
<1>1. FlowsInv'
  BY InvSplit
     DEF FlowsInv, core, FlowInv, Snapshot, Unmoved, Reopening, Returning, OrderOutlivesGrace, Started,
         ReturnTxs, OneSender, At, Job
<1> QED
  BY <1>1, InvSplit, DataInvStays

LEMMA IdleKnows == FlowInv(Idle)
  BY DEF Idle, FlowAt, FlowInv, Snapshot, Reopening, Returning, OrderOutlivesGrace

LEMMA EndedSafe ==
  ASSUME IInv, TInv', NEW w \in Workers, Ended(w), UNCHANGED core
  PROVE  IInv'
<1>1. flow'[w] = Idle /\ OnlyMoves(w)
  BY DEF Ended
<1>2. FlowInv(flow'[w]) /\ flow'[w].pc # "retSend"
  <2>1. Idle.pc = "idle"
    BY DEF Idle, FlowAt
  <2> QED
    BY <1>1, <2>1, IdleKnows
<1> QED
  BY <1>1, <1>2, LocalSafe

\* A label where a flow relies on nothing but the row it read.
Plain(l) == l \notin {"reopen", "retRead", "retCheck", "retSweep", "retStart", "retSend"}

LEMMA PlainKnows ==
  ASSUME NEW f, NEW g, FlowInv(f), f.pc # "idle", g.job = f.job, g.cur = f.cur,
         Plain(g.pc)
  PROVE  FlowInv(g)
  BY DEF Plain, FlowInv, Snapshot, Unmoved, Reopening, Returning, OrderOutlivesGrace

LEMMA WentSafe ==
  ASSUME IInv, TInv', NEW w \in Workers, NEW l, Went(w, l), flow[w].pc # "idle",
         UNCHANGED core, Plain(l)
  PROVE  IInv'
<1>1. FlowInv(flow[w])
  BY DEF IInv
<1>2. FlowInv(flow'[w])
  BY <1>1, PlainKnows DEF Went
<1> QED
  BY <1>2, LocalSafe DEF Went, Plain

LEMMA FailingSafe ==
  ASSUME IInv, TInv', NEW w \in Workers, Failing(w), flow[w].pc # "idle",
         UNCHANGED core
  PROVE  IInv'
<1>1. FlowInv(flow[w])
  BY DEF IInv
<1>2. FlowInv(flow'[w])
  BY <1>1, PlainKnows, Plain("fail") DEF Failing, Plain
<1> QED
  BY <1>2, LocalSafe DEF Failing

LEMMA Typed ==
  ASSUME IInv
  PROVE  /\ Fits /\ FlowsFit /\ DataFits /\ ChainFits
         /\ flow \in [Workers -> FlowType]
  BY TypesSplit DEF IInv, Fits, FlowsFit

LEMMA GotoSafe ==
  ASSUME IInv, TInv', NEW w \in Workers, NEW l \in Labels, Goto(w, l),
         flow[w].pc # "idle", UNCHANGED core, Plain(l)
  PROVE  IInv'
  BY Typed, GotoGoes, WentSafe

LEMMA ThrowsSafe ==
  ASSUME IInv, TInv', NEW w \in Workers, flow[w].pc # "idle", UNCHANGED core,
         Stop(w) \/ Throws(w) \/ TryAgain(w)
  PROVE  IInv'
<1>1. Ended(w) \/ Failing(w) \/ Went(w, "submit")
  BY Typed, StopEnds, ThrowsFails, TryAgainGoes
<1> QED
  BY <1>1, EndedSafe, FailingSafe, WentSafe, Plain("submit") DEF Plain

(***************************************************************************)
(* The entry points, and the steps that leave the core alone               *)
(***************************************************************************)
LEMMA PickUpSafe ==
  ASSUME IInv, TInv', NEW w \in Workers, NEW p \in Payments, PickUp(w, p)
  PROVE  IInv'
<1>1. PICK l \in Labels : PickedUp(w, p, l)
  BY Typed, PickUpPicksUp DEF DataFits
<1>2. UNCHANGED core
  BY DEF PickUp, Start, Load, Signal, SweepExpired, FailCall, Retry,
         AcceptLateFunds, ReturnPending, env, db, chain, core
<1>3. /\ OnlyMoves(w) /\ flow'[w].pc = l /\ flow'[w].job = p /\ flow'[w].cur = row[p]
      /\ l \in {"insert", "enter", "fail", "readEvents", "postLate", "retRead"}
  BY <1>1 DEF PickedUp, Began
<1>4. l = "retRead" => /\ path[p] = "order" /\ "ASSET_RECEIVED" \in log[p]
                       /\ row[p].failedAt + ReturnGrace <= now
  BY <1>1 DEF PickedUp, ReturnPending
<1>5. row[p] \in RowType
  BY Typed DEF DataFits
<1>6. FlowInv(flow'[w])
  BY <1>3, <1>4, <1>5 DEF FlowInv, Snapshot, Unmoved, Reopening, Returning, OrderOutlivesGrace, RowType
<1> QED
  BY <1>2, <1>3, <1>6, LocalSafe

LEMMA PlainStepSafe ==
  ASSUME IInv, TInv', NEW w \in Workers,
         \/ Enter(w) \/ Receive(w) \/ Clear(w) \/ Confirm(w) \/ Complete(w)
         \/ MarkProcessing(w) \/ ReopenIntent(w) \/ FailIntent(w) \/ Sweep(w) \/ Book(w)
         \/ EndsFlow(w) \/ QuoteExpired(w) \/ Unconfirmed(w) \/ Throw(w)
         \/ OrderMined(w) \/ SubmitFails(w) \/ ReturnReceipt(w)
  PROVE  IInv'
<1>1. UNCHANGED core /\ flow[w].pc # "idle"
  BY DEF core, env, db, chain, At, InState, Executing, Quiet, EndsFlow, Enter,
         Receive, Clear, Confirm, Complete, MarkProcessing, ReopenIntent,
         FailIntent, Sweep, SweepDeposit, Book, StartRefused, Wait, Park,
         CompleteRefused, Conflict, QuoteExpired, Unconfirmed, Throw, OrderMined,
         SubmitFails, ReturnReceipt, Upset
<1>2. CASE Stop(w) \/ Throws(w) \/ TryAgain(w)
  BY <1>1, <1>2, ThrowsSafe
<1>3. CASE \E l \in {"persist", "enter", "submit", "clear", "retConfirm"} : Goto(w, l)
  <2>1. PICK l \in {"persist", "enter", "submit", "clear", "retConfirm"} : Goto(w, l)
    BY <1>3
  <2>2. l \in Labels /\ Plain(l)
    BY DEF Labels, Plain
  <2> QED
    BY <1>1, <2>1, <2>2, GotoSafe
<1>4. CASE flow' = [flow EXCEPT ![w].pc = "step", ![w].entered = TRUE]
  <2>1. "step" \in Labels /\ Plain("step")
    BY DEF Labels, Plain
  <2>2. Went(w, "step")
    BY <1>4, <2>1, Typed, EntersGoes
  <2> QED
    BY <1>1, <2>1, <2>2, WentSafe
<1>5. CASE flow' = [flow EXCEPT ![w].pc = "book", ![w].tx = 0]
  <2>1. "book" \in Labels /\ Plain("book")
    BY DEF Labels, Plain
  <2>2. Went(w, "book")
    BY <1>5, <2>1, Typed, TakesTxGoes, NoTxYet
  <2> QED
    BY <1>1, <2>1, <2>2, WentSafe
<1> QED
  BY <1>2, <1>3, <1>4, <1>5
     DEF EndsFlow, Enter, Receive, Clear, Confirm, Complete, MarkProcessing,
         ReopenIntent, FailIntent, Sweep, Book, StartRefused, Wait, Park,
         CompleteRefused, Conflict, QuoteExpired, Unconfirmed, Throw, OrderMined,
         SubmitFails, ReturnReceipt

(***************************************************************************)
(* The reads that decide a reopening or a return                           *)
(***************************************************************************)
LEMMA FlowKnows ==
  ASSUME IInv, NEW w \in Workers, flow[w].pc # "idle"
  PROVE  /\ FlowInv(flow[w]) /\ Stage(flow[w]) /\ flow[w].job \in Payments
         /\ RowInv(flow[w].job) /\ StartedInv(flow[w].job) /\ PayoutInv(flow[w].job)
         /\ flow[w].cur \in RowType /\ row[flow[w].job] \in RowType
  BY Typed, NotIdle DEF IInv, Job, Cur, DataFits

LEMMA ReadEventsSafe ==
  ASSUME IInv, TInv', NEW w \in Workers, ReadEvents(w)
  PROVE  IInv'
<1>1. UNCHANGED core /\ flow[w].pc = "readEvents"
  BY DEF ReadEvents, At, core, env, db, chain
<1>2. CASE Stop(w)
  BY <1>1, <1>2, ThrowsSafe
<1>3. CASE ~Stop(w)
  <2>1. Goto(w, "reopen") /\ ~Started(flow[w].job)
    BY <1>3 DEF ReadEvents, Started, Job
  <2>2. Went(w, "reopen")
    BY <2>1, Typed, GotoGoes, "reopen" \in Labels DEF Labels
  <2>3. FlowInv(flow'[w])
    BY <1>1, <2>1, <2>2, FlowKnows
       DEF Went, FlowInv, Snapshot, Unmoved, Reopening, Returning, OrderOutlivesGrace
  <2> QED
    BY <1>1, <2>2, <2>3, LocalSafe DEF Went
<1> QED
  BY <1>2, <1>3

\* A payment that failed for expiry has no receipt on record, so no return of
\* it can have started.
LEMMA PostLateSafe ==
  ASSUME IInv, TInv', NEW w \in Workers, PostLate(w)
  PROVE  IInv'
<1>1. UNCHANGED core /\ flow[w].pc = "postLate" /\ Goto(w, "reopen")
  BY DEF PostLate, At, core, env, chain
<1>2. Went(w, "reopen")
  BY <1>1, Typed, GotoGoes, "reopen" \in Labels DEF Labels
<1>3. FlowInv(flow[w]) /\ flow[w].cur.code = "PAYMENT_EXPIRED"
  BY <1>1, FlowKnows DEF Stage
<1>4. Unmoved(flow[w]) => ~Started(flow[w].job)
  BY <1>1, <1>3, FlowKnows
     DEF FlowInv, Snapshot, Unmoved, RowInv, StartedInv
<1>5. FlowInv(flow'[w])
  BY <1>1, <1>2, <1>3, <1>4
     DEF Went, FlowInv, Snapshot, Unmoved, Reopening, Returning, OrderOutlivesGrace
<1> QED
  BY <1>1, <1>2, <1>5, LocalSafe DEF Went

LEMMA ReturnReadSafe ==
  ASSUME IInv, TInv', NEW w \in Workers, ReturnRead(w)
  PROVE  IInv'
<1>1. UNCHANGED core /\ flow[w].pc = "retRead"
  BY DEF ReturnRead, At, core, env, db, chain
<1>2. CASE Stop(w)
  BY <1>1, <1>2, ThrowsSafe
<1>3. CASE flow' = [flow EXCEPT ![w].pc = "retReceipt", ![w].tx = returnRef[Job(w)]]
  <2>1. returnRef[Job(w)] \in 0..MaxTx
    BY <1>1, Typed, NotIdle DEF DataFits
  <2>2. "retReceipt" \in Labels /\ Plain("retReceipt")
    BY DEF Labels, Plain
  <2>3. Went(w, "retReceipt")
    BY <1>3, <2>1, <2>2, Typed, TakesTxGoes
  <2> QED
    BY <1>1, <2>2, <2>3, WentSafe
<1>4. CASE Goto(w, "retCheck") /\ ~Started(flow[w].job)
  <2>1. Went(w, "retCheck")
    BY <1>4, Typed, GotoGoes, "retCheck" \in Labels DEF Labels
  <2>2. FlowInv(flow'[w])
    BY <1>1, <1>4, <2>1, FlowKnows
       DEF Went, FlowInv, Snapshot, Unmoved, Reopening, Returning, OrderOutlivesGrace
  <2> QED
    BY <1>1, <2>1, <2>2, LocalSafe DEF Went
<1> QED
  BY <1>2, <1>3, <1>4 DEF ReturnRead, Started, Job

LEMMA ReturnCheckSafe ==
  ASSUME IInv, TInv', NEW w \in Workers, ReturnCheck(w)
  PROVE  IInv'
<1>1. UNCHANGED core /\ flow[w].pc = "retCheck"
  BY DEF ReturnCheck, At, core, env, db, chain
<1>2. CASE Stop(w)
  BY <1>1, <1>2, ThrowsSafe
<1>3. CASE ~Stop(w)
  <2>1. Goto(w, "retSweep") /\ ~consumed[flow[w].job]
    BY <1>3 DEF ReturnCheck, Job
  <2>2. Went(w, "retSweep")
    BY <2>1, Typed, GotoGoes, "retSweep" \in Labels DEF Labels
  <2>3. FlowInv(flow'[w])
    BY <1>1, <2>1, <2>2, FlowKnows
       DEF Went, FlowInv, Snapshot, Unmoved, Reopening, Returning, OrderOutlivesGrace
  <2> QED
    BY <1>1, <2>2, <2>3, LocalSafe DEF Went
<1> QED
  BY <1>2, <1>3

LEMMA ReturnSweepSafe ==
  ASSUME IInv, TInv', NEW w \in Workers, ReturnSweep(w)
  PROVE  IInv'
<1>1. UNCHANGED core /\ flow[w].pc = "retSweep"
  BY DEF ReturnSweep, At, core, env, db
<1>2. CASE Stop(w)
  BY <1>1, <1>2, ThrowsSafe
<1>3. CASE ~Stop(w)
  <2>1. Goto(w, "retStart")
    BY <1>3 DEF ReturnSweep
  <2>2. Went(w, "retStart")
    BY <2>1, Typed, GotoGoes, "retStart" \in Labels DEF Labels
  <2>3. FlowInv(flow'[w])
    BY <1>1, <2>2, FlowKnows
       DEF Went, FlowInv, Snapshot, Unmoved, Reopening, Returning, OrderOutlivesGrace
  <2> QED
    BY <1>1, <2>2, <2>3, LocalSafe DEF Went
<1> QED
  BY <1>2, <1>3

(***************************************************************************)
(* The world                                                               *)
(***************************************************************************)
LEMMA TickSafe ==
  ASSUME IInv, TInv', Tick
  PROVE  IInv'
<1>1. /\ now' = now + 1 /\ now \in Nat
      /\ UNCHANGED <<row, log, path, consumed, optx, sent, payout, flow>>
  BY Typed DEF Tick, db, chain, DataFits
<1>2. \A p \in Payments : row[p] \in RowType
  BY Typed DEF DataFits
<1>3. ASSUME NEW p \in Payments PROVE RowInv(p)'
  <2>1. RowInv(p) /\ row[p].failedAt \in Nat /\ row[p].deadline \in Nat
    BY <1>2 DEF IInv, RowType
  <2>2. ReturnGrace \in Nat
    BY ConstantsAssumption
  <2> QED
    BY <1>1, <2>1, <2>2 DEF RowInv
<1>4. ASSUME NEW p \in Payments PROVE StartedInv(p)' /\ PayoutInv(p)'
  <2>1. /\ StartedInv(p) /\ PayoutInv(p)
        /\ row[p].failedAt \in Nat /\ ReturnGrace \in Nat
    BY <1>2, ConstantsAssumption DEF IInv, RowType
  <2> QED
    BY <1>1, <2>1 DEF StartedInv, OrderOutlivesGrace, PayoutInv, Started
<1>5. \A i \in Tx : TxInv(i)'
  BY <1>1 DEF IInv, TxInv, Started
<1>6. AtMostOneReturn'
  BY <1>1 DEF IInv, AtMostOneReturn, ReturnTxs
<1>7. ASSUME NEW w \in Workers PROVE FlowInv(flow[w])'
  <2>1. FlowInv(flow[w]) /\ flow[w].cur.failedAt \in Nat /\ ReturnGrace \in Nat
    BY Typed, ConstantsAssumption DEF IInv, FlowType, RowType
  <2> QED
    BY <1>1, <2>1
       DEF FlowInv, Snapshot, Unmoved, Reopening, Returning, OrderOutlivesGrace, Started, ReturnTxs
<1>8. OneSender'
  BY <1>1 DEF IInv, OneSender, At, Job
<1> QED
  BY <1>3, <1>4, <1>5, <1>6, <1>7, <1>8, InvSplit DEF DataInv, FlowsInv

\* The router settles only a contract-path order here, and only an order-path
\* deposit is ever returned.
LEMMA PayerPaysSafe ==
  ASSUME IInv, TInv', NEW p \in Payments, PayerPays(p)
  PROVE  IInv'
<1>1. /\ path[p] = "contract" /\ consumed' = [consumed EXCEPT ![p] = TRUE]
      /\ UNCHANGED <<now, row, log, path, optx, sent, payout, flow>>
  BY DEF PayerPays, env, db
<1>2. \A q \in Payments : path[q] = "order" => consumed'[q] = consumed[q]
  BY <1>1, Typed DEF ChainFits
<1>3. ASSUME NEW q \in Payments PROVE RowInv(q)' /\ StartedInv(q)' /\ PayoutInv(q)'
  <2>1. RowInv(q) /\ StartedInv(q) /\ PayoutInv(q)
    BY DEF IInv
  <2> QED
    BY <1>1, <1>2, <2>1 DEF RowInv, StartedInv, OrderOutlivesGrace, PayoutInv, Started
<1>4. \A i \in Tx : TxInv(i)'
  BY <1>1 DEF IInv, TxInv, Started
<1>5. AtMostOneReturn'
  BY <1>1 DEF IInv, AtMostOneReturn, ReturnTxs
<1>6. ASSUME NEW w \in Workers PROVE FlowInv(flow[w])'
  <2>1. CASE flow[w].pc = "idle"
    BY <1>1, <2>1 DEF FlowInv, Snapshot, Reopening, Returning, OrderOutlivesGrace
  <2>2. CASE flow[w].pc # "idle"
    BY <1>1, <1>2, <2>2, FlowKnows
       DEF FlowInv, Snapshot, Unmoved, Reopening, Returning, OrderOutlivesGrace, Started, ReturnTxs
  <2> QED
    BY <2>1, <2>2
<1>7. OneSender'
  BY <1>1 DEF IInv, OneSender, At, Job
<1> QED
  BY <1>3, <1>4, <1>5, <1>6, <1>7, InvSplit DEF DataInv, FlowsInv

\* Only the payout of an adapter payment changes.
LEMMA PayoutSafe ==
  ASSUME DataInv, UNCHANGED <<now, row, log, path, consumed, optx, sent>>,
         \A p \in Payments : PayoutInv(p)'
  PROVE  DataInv'
  BY DEF DataInv, RowInv, StartedInv, OrderOutlivesGrace, TxInv, AtMostOneReturn, ReturnTxs, Started

LEMMA AdapterSafe ==
  ASSUME IInv, TInv', NEW p \in Payments, AdapterDecides(p)
  PROVE  IInv'
<1>1. /\ UNCHANGED <<now, row, log, path, consumed, optx, sent, flow>>
      /\ payout[p] = "PENDING"
      /\ \E s \in {"SUCCEEDED", "FAILED"} : payout' = [payout EXCEPT ![p] = s]
  BY DEF AdapterDecides, env, db, chain
<1>2. ASSUME NEW q \in Payments PROVE PayoutInv(q)'
  BY <1>1, Typed DEF IInv, PayoutInv, ChainFits
<1>3. FlowsInv'
  BY <1>1, InvSplit
     DEF FlowsInv, FlowInv, Snapshot, Unmoved, Reopening, Returning, OrderOutlivesGrace, Started,
         ReturnTxs, OneSender, At, Job
<1> QED
  BY <1>1, <1>2, <1>3, PayoutSafe, InvSplit

LEMMA SettleSafe ==
  ASSUME IInv, TInv', NEW w \in Workers, Settle(w)
  PROVE  IInv'
<1>1. /\ UNCHANGED <<now, row, log, path, consumed, optx, sent>>
      /\ flow[w].pc = "step" /\ ~SettlesOnChain(flow[w].job)
      /\ payout' = [payout EXCEPT ![flow[w].job] = IF @ = "none" THEN "PENDING" ELSE @]
      /\ Goto(w, "persist")
  BY DEF Settle, InState, At, Job, env, db, chain
<1>2. flow[w].job \in Payments /\ path[flow[w].job] = "adapter"
  <2>1. flow[w].job \in Payments
    BY <1>1, FlowKnows
  <2>2. path[flow[w].job] \in AllPaths
    BY <2>1, Typed, ConstantsAssumption DEF ChainFits
  <2> QED
    BY <1>1, <2>1, <2>2 DEF AllPaths, SettlesOnChain
<1>3. ASSUME NEW q \in Payments PROVE PayoutInv(q)'
  BY <1>1, <1>2, Typed DEF IInv, PayoutInv, ChainFits
<1>4. Went(w, "persist")
  BY <1>1, Typed, GotoGoes, "persist" \in Labels DEF Labels
<1>5. FlowInv(flow'[w]) /\ OnlyMoves(w) /\ flow'[w].pc # "retSend"
  BY <1>1, <1>4, FlowKnows, PlainKnows, Plain("persist") DEF Went, Plain
<1>6. FlowsInv'
  <2>1. ASSUME NEW v \in Workers PROVE FlowInv(flow'[v])
    BY <1>5 DEF IInv, OnlyMoves
  <2>2. ASSUME NEW v \in Workers PROVE FlowInv(flow[v])'
    BY <1>1, <2>1
       DEF FlowInv, Snapshot, Unmoved, Reopening, Returning, OrderOutlivesGrace, Started, ReturnTxs
  <2>3. OneSender'
    BY <1>5 DEF IInv, OneSender, OnlyMoves, At, Job
  <2> QED
    BY <2>2, <2>3 DEF FlowsInv
<1> QED
  BY <1>1, <1>3, <1>6, PayoutSafe, InvSplit

LEMMA CrashSafe ==
  ASSUME IInv, TInv', NEW h \in Hosts, Crash(h)
  PROVE  IInv'
<1>1. /\ UNCHANGED core
      /\ \A w \in Workers : flow'[w] = flow[w] \/ flow'[w] = Idle
  BY DEF Crash, core, db, chain
<1>2. Idle.pc = "idle"
  BY DEF Idle, FlowAt
<1>3. ASSUME NEW w \in Workers PROVE FlowInv(flow[w])'
  <2>1. FlowInv(flow'[w])
    BY <1>1, IdleKnows DEF IInv
  <2> QED
    BY <1>1, <2>1
       DEF core, FlowInv, Snapshot, Unmoved, Reopening, Returning, OrderOutlivesGrace, Started, ReturnTxs
<1>4. OneSender'
  BY <1>1, <1>2 DEF IInv, OneSender, At, Job
<1> QED
  BY <1>1, <1>3, <1>4, DataInvStays, InvSplit DEF FlowsInv

(***************************************************************************)
(* The chain: broadcasting, and mining                                     *)
(***************************************************************************)

\* A payment whose return has started, or may be started by a flow that has
\* not moved, has an order that can still be mined only if it outlives the grace.
LEMMA WhatIsLeftToMine ==
  ASSUME IInv, NEW i \in Tx, optx[i].kind = "order", now <= optx[i].deadline
  PROVE  /\ optx[i].p \in Payments
         /\ Started(optx[i].p) => OrderOutlivesGrace(optx[i].p)
         /\ \A w \in Workers :
               flow[w].pc \in {"retSweep", "retStart"} /\ flow[w].job = optx[i].p
                   /\ Unmoved(flow[w]) => OrderOutlivesGrace(optx[i].p)
<1>1. TxInv(i) /\ optx[i] \in TxType
  BY Typed DEF IInv, ChainFits
<1>2. optx[i].p \in Payments /\ optx[i].deadline <= row[optx[i].p].deadline
  BY <1>1 DEF TxInv
<1>3. /\ row[optx[i].p].deadline \in Nat /\ row[optx[i].p].failedAt \in Nat
      /\ optx[i].deadline \in Nat /\ now \in Nat /\ ReturnGrace \in Nat
  BY <1>1, <1>2, Typed, ConstantsAssumption DEF DataFits, RowType, TxType
<1>4. row[optx[i].p].failedAt + ReturnGrace <= now => OrderOutlivesGrace(optx[i].p)
  BY <1>2, <1>3 DEF OrderOutlivesGrace
<1>5. Started(optx[i].p) => OrderOutlivesGrace(optx[i].p)
  BY <1>2, <1>4 DEF IInv, StartedInv
<1>6. ASSUME NEW w \in Workers, flow[w].pc \in {"retSweep", "retStart"},
             flow[w].job = optx[i].p, Unmoved(flow[w])
      PROVE  OrderOutlivesGrace(optx[i].p)
  <2>1. FlowInv(flow[w])
    BY <1>6, FlowKnows
  <2>2. flow[w].cur = row[flow[w].job]
    BY <1>6, <2>1 DEF FlowInv, Snapshot, Unmoved
  <2> QED
    BY <1>4, <1>6, <2>1, <2>2 DEF FlowInv, Returning
<1> QED
  BY <1>2, <1>5, <1>6

\* Transaction i returns the deposit of payment q.
SentBack(i, q) == optx[i].kind = "return" /\ optx[i].p = q

LEMMA OneSentBack ==
  /\ AtMostOneReturn <=>
        \A q \in Payments : \A i, j \in Tx : SentBack(i, q) /\ SentBack(j, q) => i = j
  /\ AtMostOneReturn' <=>
        \A q \in Payments : \A i, j \in Tx : SentBack(i, q)' /\ SentBack(j, q)' => i = j
  BY DEF AtMostOneReturn, ReturnTxs, SentBack

LEMMA MineSafe ==
  ASSUME IInv, TInv', Mine
  PROVE  IInv'
<1>1. UNCHANGED <<now, row, log, path, sent, payout, flow>>
  BY DEF Mine, env, db
<1>2. mined + 1 \in Tx /\ optx[mined + 1] \in TxType
  BY MineMines, Typed
<1>3. PICK s \in TxStatus : MinedAs(s)
  BY MineMines, Typed
<1>4. \A i \in Tx : /\ optx'[i].kind = optx[i].kind /\ optx'[i].p = optx[i].p
                    /\ optx'[i].deadline = optx[i].deadline
                    /\ i # mined + 1 => optx'[i] = optx[i]
  BY <1>2, <1>3, Typed DEF MinedAs, ChainFits, TxType
<1>5. \A q : \A i \in Tx : SentBack(i, q)' <=> SentBack(i, q)
  BY <1>4 DEF SentBack
<1>6. \A q \in Payments : consumed'[q] # consumed[q] =>
          /\ optx[mined + 1].kind = "order" /\ optx[mined + 1].p = q
          /\ now <= optx[mined + 1].deadline
  <2>1. now \in Nat /\ optx[mined + 1].deadline \in Nat
    BY <1>2, Typed DEF DataFits, TxType
  <2>2. ASSUME NEW q \in Payments, consumed'[q] # consumed[q]
        PROVE  /\ optx[mined + 1].kind = "order" /\ optx[mined + 1].p = q
               /\ s = "success" /\ s \in Outcomes(optx[mined + 1])
    BY <1>3, <2>2, Typed DEF MinedAs, ChainFits
  <2> QED
    BY <2>1, <2>2 DEF Outcomes
<1>7. \A q \in Payments :
          Started(q) /\ consumed'[q] # consumed[q] => OrderOutlivesGrace(q)
  BY <1>2, <1>6, WhatIsLeftToMine
<1>8. ASSUME NEW q \in Payments PROVE RowInv(q)' /\ StartedInv(q)' /\ PayoutInv(q)'
  <2>1. RowInv(q) /\ StartedInv(q) /\ PayoutInv(q)
    BY DEF IInv
  <2> QED
    BY <1>1, <1>7, <2>1 DEF RowInv, StartedInv, OrderOutlivesGrace, PayoutInv, Started
<1>9. ASSUME NEW i \in Tx PROVE TxInv(i)'
  <2>1. TxInv(i) /\ i \in Nat /\ mined + 1 <= sent /\ mined \in Nat /\ sent \in Nat
    BY MineMines, Typed, ConstantsAssumption DEF IInv, Tx, ChainFits
  <2>2. i > sent => optx'[i] = optx[i]
    BY <1>4, <2>1
  <2> QED
    BY <1>1, <1>4, <2>1, <2>2 DEF TxInv, Started
<1>10. AtMostOneReturn'
  BY <1>5, OneSentBack DEF IInv
<1>11. ASSUME NEW w \in Workers PROVE FlowInv(flow[w])'
  <2>1. CASE flow[w].pc = "idle"
    BY <1>1, <2>1 DEF FlowInv, Snapshot, Reopening, Returning, OrderOutlivesGrace
  <2>2. CASE flow[w].pc # "idle"
    <3>1. FlowInv(flow[w]) /\ flow[w].job \in Payments
      BY <2>2, FlowKnows
    <3>2. Snapshot(flow[w])' /\ Reopening(flow[w])'
      BY <1>1, <3>1 DEF FlowInv, Snapshot, Unmoved, Reopening, Started
    <3>3. flow[w].pc \in {"retSweep", "retStart"} /\ Unmoved(flow[w])
              /\ consumed'[flow[w].job] => OrderOutlivesGrace(flow[w].job)
      BY <1>2, <1>6, <3>1, WhatIsLeftToMine DEF FlowInv, Returning
    <3>4. flow[w].pc = "retSend" => \A i \in Tx : ~SentBack(i, flow[w].job)'
      BY <1>1, <1>4, <3>1 DEF FlowInv, Returning, ReturnTxs, SentBack
    <3>5. Returning(flow[w])'
      BY <1>1, <3>1, <3>3, <3>4
         DEF FlowInv, Returning, OrderOutlivesGrace, Unmoved, Started, ReturnTxs, SentBack
    <3> QED
      BY <3>2, <3>5 DEF FlowInv
  <2> QED
    BY <2>1, <2>2
<1>12. OneSender'
  BY <1>1 DEF IInv, OneSender, At, Job
<1> QED
  BY <1>8, <1>9, <1>10, <1>11, <1>12, InvSplit DEF DataInv, FlowsInv

\* A broadcast puts t in a place that was empty.
LEMMA BroadcastPlaces ==
  ASSUME IInv, NEW t \in TxType, Broadcast(t)
  PROVE  /\ sent + 1 \in Tx /\ sent' = sent + 1 /\ optx[sent + 1] = NoTx
         /\ optx'[sent + 1] = t
         /\ \A i \in Tx \ {sent + 1} : optx'[i] = optx[i]
<1>1. sent \in 0..MaxTx /\ sent < MaxTx /\ optx \in [Tx -> TxType]
  BY Typed DEF Broadcast, ChainFits
<1>2. sent + 1 \in Tx /\ sent + 1 > sent
  BY <1>1, ConstantsAssumption DEF Tx
<1>3. optx[sent + 1] = NoTx
  BY <1>2 DEF IInv, TxInv
<1> QED
  BY <1>1, <1>2, <1>3 DEF Broadcast

LEMMA BroadcastKeepsTxInv ==
  ASSUME IInv, NEW t \in TxType, Broadcast(t), UNCHANGED <<row, log>>,
         t.kind = "order" => t.p \in Payments /\ t.deadline <= row[t.p].deadline,
         t.kind = "return" => t.p \in Payments /\ Started(t.p),
         t.kind # "none"
  PROVE  \A i \in Tx : TxInv(i)'
<1>1. /\ sent + 1 \in Tx /\ sent' = sent + 1 /\ optx'[sent + 1] = t
      /\ \A i \in Tx \ {sent + 1} : optx'[i] = optx[i]
  BY BroadcastPlaces
<1>2. SUFFICES ASSUME NEW i \in Tx PROVE TxInv(i)'
  OBVIOUS
<1>3. TxInv(i) /\ i \in Nat /\ sent \in Nat
  BY Typed, ConstantsAssumption DEF IInv, Tx, ChainFits
<1>4. CASE i = sent + 1
  BY <1>1, <1>3, <1>4 DEF TxInv, Started, TxType
<1>5. CASE i # sent + 1
  BY <1>1, <1>3, <1>5 DEF TxInv, Started
<1> QED
  BY <1>4, <1>5

LEMMA SubmitSafe ==
  ASSUME IInv, TInv', NEW w \in Workers, Submit(w)
  PROVE  IInv'
<1>1. /\ UNCHANGED <<now, row, log, path, consumed, payout>>
      /\ flow[w].pc = "submit"
  BY DEF Submit, At, env, db, chain
<1>2. /\ FlowInv(flow[w]) /\ flow[w].job \in Payments /\ flow[w].cur \in RowType
  BY <1>1, FlowKnows
<1>3. CASE consumed[Job(w)]
  <2>1. Goto(w, "book") /\ UNCHANGED core
    BY <1>1, <1>3 DEF Submit, chain, core
  <2> QED
    BY <1>1, <2>1, GotoSafe, "book" \in Labels, Plain("book") DEF Labels, Plain
<1>4. CASE ~consumed[Job(w)]
  <2> DEFINE t == [kind |-> "order", p |-> Job(w), deadline |-> Cur(w).deadline,
                   status |-> "pending"]
  <2>1. /\ t \in TxType /\ t.kind = "order" /\ t.p = flow[w].job
        /\ t.deadline <= row[t.p].deadline
    BY <1>1, <1>2 DEF FlowInv, Snapshot, TxType, TxStatus, RowType, Job, Cur
  <2>2. /\ Broadcast(t)
        /\ flow' = [flow EXCEPT ![w].pc = "ordering", ![w].tx = sent + 1]
    BY <1>4 DEF Submit
  <2> HIDE DEF t
  <2>3. /\ sent + 1 \in Tx /\ optx[sent + 1] = NoTx /\ optx'[sent + 1] = t
        /\ \A i \in Tx \ {sent + 1} : optx'[i] = optx[i]
    BY <2>1, <2>2, BroadcastPlaces
  <2>4. \A i \in Tx : TxInv(i)'
    BY <1>1, <1>2, <2>1, <2>2, BroadcastKeepsTxInv
  <2>5. \A q : \A i \in Tx : SentBack(i, q)' <=> SentBack(i, q)
    BY <2>1, <2>3 DEF SentBack, NoTx
  <2>6. DataInv'
    <3>1. AtMostOneReturn'
      BY <2>5, OneSentBack DEF IInv
    <3>2. \A q \in Payments : RowInv(q)' /\ StartedInv(q)' /\ PayoutInv(q)'
      BY <1>1 DEF IInv, RowInv, StartedInv, OrderOutlivesGrace, PayoutInv, Started
    <3> QED
      BY <2>4, <3>1, <3>2 DEF DataInv
  <2>7. OnlyMoves(w) /\ FlowInv(flow'[w]) /\ flow'[w].pc = "ordering"
    <3>1. sent + 1 \in 0..MaxTx /\ "ordering" \in Labels /\ Plain("ordering")
      BY <2>3, ConstantsAssumption DEF Tx, Labels, Plain
    <3>2. Went(w, "ordering")
      BY <2>2, <3>1, Typed, TakesTxGoes
    <3> QED
      BY <1>1, <1>2, <3>1, <3>2, PlainKnows DEF Went
  <2>8. ASSUME NEW v \in Workers PROVE FlowInv(flow[v])'
    <3>1. FlowInv(flow'[v]) /\ (flow'[v].pc # "idle" => flow'[v].job \in Payments)
      BY <1>2, <2>7, Typed DEF IInv, TInv, Staged, Stage, OnlyMoves
    <3>2. flow'[v].pc = "retSend" =>
              \A i \in Tx : ~(optx'[i].kind = "return" /\ optx'[i].p = flow'[v].job)
      BY <2>5, <3>1 DEF FlowInv, Returning, ReturnTxs, SentBack
    <3> QED
      BY <1>1, <3>1, <3>2
         DEF FlowInv, Snapshot, Unmoved, Reopening, Returning, OrderOutlivesGrace, Started, ReturnTxs
  <2>9. OneSender'
    BY <2>7 DEF IInv, OneSender, OnlyMoves, At, Job
  <2> QED
    BY <2>6, <2>8, <2>9, InvSplit DEF FlowsInv
<1> QED
  BY <1>3, <1>4

\* The flow that sends is the only one that may, and nothing was sent before.
LEMMA ReturnSendSafe ==
  ASSUME IInv, TInv', NEW w \in Workers, ReturnSend(w)
  PROVE  IInv'
<1> DEFINE t == [kind |-> "return", p |-> Job(w), deadline |-> 0,
                 status |-> "pending"]
<1>1. /\ UNCHANGED <<now, row, log, path, consumed, payout>>
      /\ flow[w].pc = "retSend" /\ Broadcast(t)
      /\ flow' = [flow EXCEPT ![w].pc = "retRecord", ![w].tx = sent + 1]
  BY DEF ReturnSend, At, env, db
<1>2. /\ FlowInv(flow[w]) /\ flow[w].job \in Payments
      /\ Started(flow[w].job) /\ ReturnTxs(flow[w].job) = {}
  BY <1>1, FlowKnows DEF FlowInv, Returning
<1>3. t \in TxType /\ t.kind = "return" /\ t.p = flow[w].job
  BY <1>2 DEF TxType, TxStatus, Job
<1> HIDE DEF t
<1>4. /\ sent + 1 \in Tx /\ optx[sent + 1] = NoTx /\ optx'[sent + 1] = t
      /\ \A i \in Tx \ {sent + 1} : optx'[i] = optx[i]
  BY <1>1, <1>3, BroadcastPlaces
<1>5. \A i \in Tx : TxInv(i)'
  BY <1>1, <1>2, <1>3, BroadcastKeepsTxInv
<1>6. \A q : \A i \in Tx :
          SentBack(i, q)' <=> SentBack(i, q) \/ (i = sent + 1 /\ q = flow[w].job)
  BY <1>3, <1>4 DEF SentBack, NoTx
<1>7. DataInv'
  <2>1. \A i \in Tx : ~SentBack(i, flow[w].job)
    BY <1>2 DEF ReturnTxs, SentBack
  <2>2. AtMostOneReturn'
    BY <1>6, <2>1, OneSentBack DEF IInv
  <2>3. \A q \in Payments : RowInv(q)' /\ StartedInv(q)' /\ PayoutInv(q)'
    BY <1>1 DEF IInv, RowInv, StartedInv, OrderOutlivesGrace, PayoutInv, Started
  <2> QED
    BY <1>5, <2>2, <2>3 DEF DataInv
<1>8. OnlyMoves(w) /\ FlowInv(flow'[w]) /\ flow'[w].pc = "retRecord"
  <2>1. sent + 1 \in 0..MaxTx /\ "retRecord" \in Labels /\ Plain("retRecord")
    BY <1>4, ConstantsAssumption DEF Tx, Labels, Plain
  <2>2. Went(w, "retRecord")
    BY <1>1, <2>1, Typed, TakesTxGoes
  <2> QED
    BY <1>1, <1>2, <2>1, <2>2, PlainKnows DEF Went
<1>9. ASSUME NEW v \in Workers PROVE FlowInv(flow[v])'
  <2>1. FlowInv(flow'[v]) /\ (flow'[v].pc # "idle" => flow'[v].job \in Payments)
    BY <1>2, <1>8, Typed DEF IInv, TInv, Staged, Stage, OnlyMoves
  <2>2. flow'[v].pc = "retSend" => flow'[v].job # flow[w].job
    BY <1>1, <1>8 DEF IInv, OneSender, OnlyMoves, At, Job
  <2>3. flow'[v].pc = "retSend" =>
            \A i \in Tx : ~(optx'[i].kind = "return" /\ optx'[i].p = flow'[v].job)
    BY <1>6, <2>1, <2>2 DEF FlowInv, Returning, ReturnTxs, SentBack
  <2> QED
    BY <1>1, <2>1, <2>3
       DEF FlowInv, Snapshot, Unmoved, Reopening, Returning, OrderOutlivesGrace, Started, ReturnTxs
<1>10. OneSender'
  BY <1>8 DEF IInv, OneSender, OnlyMoves, At, Job
<1> QED
  BY <1>7, <1>9, <1>10, InvSplit DEF FlowsInv

(***************************************************************************)
(* The steps that update the row of a payment                              *)
(***************************************************************************)

\* What such a step does to the payment it is about, and to no other.
LEMMA UpdateChanges ==
  ASSUME IInv, NEW w \in Workers, flow[w].pc # "idle", NEW new \in RowType,
         NEW event, Updates(w, new, event), new.version = Cur(w).version
  PROVE  LET p == flow[w].job IN
         /\ p \in Payments /\ flow[w].cur = row[p]
         /\ row'[p] = Bump(new) /\ log'[p] = log[p] \cup {event}
         /\ row'[p].version = row[p].version + 1
         /\ \A q \in Payments \ {p} : row'[q] = row[q] /\ log'[q] = log[q]
         /\ UNCHANGED <<now, path, consumed, optx, sent, payout>>
<1>1. /\ flow[w].job \in Payments /\ FlowInv(flow[w])
  BY FlowKnows
<1>2. row[flow[w].job].version = flow[w].cur.version
  BY DEF Updates, Update, Current, Row, Cur
<1>3. flow[w].cur = row[flow[w].job]
  BY <1>1, <1>2 DEF FlowInv, Snapshot
<1>4. /\ row' = [row EXCEPT ![flow[w].job] = Bump(new)]
      /\ log' = [log EXCEPT ![flow[w].job] = @ \cup {event}]
      /\ UNCHANGED <<now, path, consumed, optx, sent, payout>>
  BY DEF Updates, Update, Job, env, chain
<1>5. Bump(new).version = new.version + 1
  BY BumpFits
<1> QED
  BY <1>1, <1>3, <1>4, <1>5, Typed DEF Cur, DataFits

\* It is enough that the payment's own row, its return and the flow are right:
\* every other flow now holds an old version, or another payment.
LEMMA UpdateSafe ==
  ASSUME IInv, TInv', NEW w \in Workers, flow[w].pc # "idle", NEW new \in RowType,
         NEW event, Updates(w, new, event), new.version = Cur(w).version,
         OnlyMoves(w), Cur(w).deadline <= new.deadline,
         NEW p \in Payments, p = flow[w].job, RowInv(p)', StartedInv(p)',
         FlowInv(flow[w])',
         flow'[w].pc = "retSend" => ~Started(p) /\ flow'[w].job = p
  PROVE  IInv'
<1>1. /\ p \in Payments /\ flow[w].cur = row[p]
      /\ row'[p] = Bump(new) /\ log'[p] = log[p] \cup {event}
      /\ row'[p].version = row[p].version + 1
      /\ \A q \in Payments \ {p} : row'[q] = row[q] /\ log'[q] = log[q]
      /\ UNCHANGED <<now, path, consumed, optx, sent, payout>>
  BY UpdateChanges
<1>2. /\ row[p].version \in Nat /\ row[p].deadline \in Nat /\ row'[p].deadline \in Nat
      /\ row[p].deadline <= row'[p].deadline
  BY <1>1, BumpFits, Typed DEF DataFits, RowType, Cur
<1>3. \A q \in Payments : RowInv(q)' /\ StartedInv(q)' /\ PayoutInv(q)'
  <2>2. ASSUME NEW q \in Payments PROVE PayoutInv(q)'
    BY <1>1 DEF IInv, PayoutInv
  <2>3. ASSUME NEW q \in Payments \ {p} PROVE RowInv(q)' /\ StartedInv(q)'
    <3>1. RowInv(q) /\ StartedInv(q)
      BY DEF IInv
    <3> QED
      BY <1>1, <3>1 DEF RowInv, StartedInv, OrderOutlivesGrace, Started
  <2>4. ASSUME NEW q \in Payments, q = p PROVE RowInv(q)' /\ StartedInv(q)'
    BY <2>4
  <2> QED
    BY <2>2, <2>3, <2>4
<1>4. \A i \in Tx : TxInv(i)'
  <2>1. SUFFICES ASSUME NEW i \in Tx PROVE TxInv(i)'
    OBVIOUS
  <2>2. TxInv(i) /\ optx[i] \in TxType
    BY Typed DEF IInv, ChainFits
  <2>3. optx[i].kind = "order" => optx[i].deadline <= row'[optx[i].p].deadline
    <3>1. optx[i].deadline \in Nat
      BY <2>2 DEF TxType
    <3> QED
      BY <1>1, <1>2, <2>2, <3>1 DEF TxInv
  <2> QED
    BY <1>1, <2>2, <2>3 DEF TxInv, Started
<1>5. AtMostOneReturn'
  BY <1>1 DEF IInv, AtMostOneReturn, ReturnTxs
<1>6. ASSUME NEW v \in Workers \ {w} PROVE FlowInv(flow[v])'
  <2>1. /\ FlowInv(flow[v]) /\ flow'[v] = flow[v]
        /\ flow[v].cur \in RowType
        /\ flow[v].pc # "idle" => flow[v].job \in Payments
    BY Typed DEF IInv, OnlyMoves, FlowType, TInv, Staged, Stage
  <2>2. flow[v].cur.version \in Nat /\ flow[v].cur.deadline \in Nat
    BY <2>1 DEF RowType
  <2>3. CASE flow[v].pc = "idle"
    BY <2>1, <2>3 DEF FlowInv, Snapshot, Reopening, Returning, OrderOutlivesGrace
  <2>4. CASE flow[v].pc # "idle" /\ flow[v].job = p
    <3>1. /\ flow[v].cur.version < row'[p].version
          /\ flow[v].cur.deadline <= row'[p].deadline
      BY <1>1, <1>2, <2>1, <2>2, <2>4 DEF FlowInv, Snapshot
    <3>2. ~Unmoved(flow[v])'
      BY <2>1, <2>2, <2>4, <3>1 DEF Unmoved
    <3>3. Snapshot(flow[v])' /\ Reopening(flow[v])'
      <4>1. row'[p].version \in Nat
        BY <1>1, <1>2
      <4>2. flow[v].cur.version # row'[p].version
        BY <2>2, <3>1, <4>1
      <4> QED
        BY <2>1, <2>2, <2>4, <3>1, <3>2, <4>1, <4>2 DEF Snapshot, Reopening
    <3>4. Returning(flow[v])'
      BY <1>1, <2>1, <2>2, <2>4, <3>1
         DEF FlowInv, Returning, Unmoved, Started, ReturnTxs
    <3> QED
      BY <3>3, <3>4 DEF FlowInv
  <2>5. CASE flow[v].pc # "idle" /\ flow[v].job # p
    BY <1>1, <2>1, <2>5
       DEF FlowInv, Snapshot, Unmoved, Reopening, Returning, OrderOutlivesGrace, Started, ReturnTxs
  <2> QED
    BY <2>3, <2>4, <2>5
<1>7. OneSender'
  <2>1. ASSUME NEW v \in Workers \ {w}, flow'[v].pc = "retSend", flow'[w].pc = "retSend",
               flow'[v].job = flow'[w].job
        PROVE  FALSE
    BY <2>1 DEF IInv, OnlyMoves, FlowInv, Returning
  <2> QED
    BY <2>1 DEF IInv, OneSender, OnlyMoves, At, Job
<1> QED
  BY <1>3, <1>4, <1>5, <1>6, <1>7, InvSplit DEF DataInv, FlowsInv

\* A flow that goes on from the row it wrote knows it.
LEMMA WroteKnows ==
  ASSUME IInv, TInv', NEW w \in Workers, flow[w].pc # "idle", NEW new \in RowType,
         NEW event, Updates(w, new, event), new.version = Cur(w).version,
         NEW l, Wrote(w, new, l), Plain(l)
  PROVE  FlowInv(flow[w])'
<1>1. /\ flow[w].job \in Payments /\ row'[flow[w].job] = Bump(new)
  BY UpdateChanges
<1>2. /\ flow'[w].pc = l /\ flow'[w].job = flow[w].job /\ flow'[w].cur = Bump(new)
  BY DEF Wrote
<1>3. Bump(new).version \in Nat /\ Bump(new).deadline \in Nat
  BY BumpFits DEF RowType
<1> QED
  BY <1>1, <1>2, <1>3 DEF Plain, FlowInv, Snapshot, Unmoved, Reopening, Returning, OrderOutlivesGrace

LEMMA EndedKnows ==
  ASSUME NEW w \in Workers, Ended(w)
  PROVE  FlowInv(flow[w])' /\ flow'[w].pc = "idle"
<1>1. flow'[w].pc = "idle"
  <2>1. Idle.pc = "idle"
    BY DEF Idle, FlowAt
  <2> QED
    BY <2>1 DEF Ended
<1> QED
  BY <1>1 DEF FlowInv, Snapshot, Reopening, Returning, OrderOutlivesGrace

LEMMA InsertSafe ==
  ASSUME IInv, TInv', NEW w \in Workers, NEW p \in Payments, p = flow[w].job,
         Insert(w)
  PROVE  IInv'
<1> DEFINE new == [NoRow EXCEPT !.state = "CREATED"]
<1>1. /\ new \in RowType /\ new.state = "CREATED" /\ new.version = 0
      /\ new.code = "none" /\ new.failedAt = 0 /\ new.deadline = 0
      /\ Updates(w, new, "CREATED") /\ Wrote(w, new, "mark")
      /\ flow[w].pc = "insert"
  BY Typed, InsertUpdates
<1> HIDE DEF new
<1>2. /\ RowInv(p) /\ StartedInv(p) /\ row[p].state = "NONE" /\ row[p] \in RowType
  BY <1>1, FlowKnows DEF Insert, Row
<1>3. row[p] = NoRow /\ Cur(w) = NoRow
  <2>1. row[p].version = 0
    BY <1>2 DEF RowInv, RowType
  <2>2. FlowInv(flow[w]) /\ Current(w)
    BY <1>1, FlowKnows DEF Updates, Update
  <2> QED
    BY <1>1, <1>2, <2>1, <2>2 DEF RowInv, FlowInv, Snapshot, Current, Row, Cur
<1>4. Cur(w).version = 0 /\ Cur(w).deadline = 0
  <2>1. NoRow.version = 0 /\ NoRow.deadline = 0
    BY DEF NoRow
  <2> QED
    BY <1>3, <2>1
<1>5. /\ row'[p] = Bump(new) /\ log'[p] = log[p] \cup {"CREATED"}
      /\ UNCHANGED <<now, path, consumed>>
  BY <1>1, <1>4, UpdateChanges
<1>6. /\ Bump(new).version = 1 /\ Bump(new).state = "CREATED" /\ Bump(new).code = "none"
      /\ Bump(new).failedAt = 0 /\ Bump(new).deadline = 0
  <2>1. new \in RowType
    BY <1>1
  <2>2. /\ Bump(new).version = new.version + 1 /\ Bump(new).state = new.state
        /\ Bump(new).code = new.code /\ Bump(new).failedAt = new.failedAt
        /\ Bump(new).deadline = new.deadline
    BY <2>1, BumpFits
  <2> QED
    BY <1>1, <2>2
<1>7. now \in Nat
  BY Typed DEF DataFits
<1>8. RowInv(p)'
  BY <1>2, <1>5, <1>6, <1>7 DEF RowInv, Unreceived
<1>9. StartedInv(p)'
  BY <1>2, <1>5 DEF StartedInv, OrderOutlivesGrace, Started
<1>10. FlowInv(flow[w])' /\ OnlyMoves(w) /\ flow'[w].pc = "mark"
  BY <1>1, <1>4, WroteKnows, Plain("mark") DEF Wrote, Plain
<1>11. Cur(w).deadline <= new.deadline
  BY <1>1, <1>4
<1> QED
  BY <1>1, <1>4, <1>8, <1>9, <1>10, <1>11, UpdateSafe

\* A renewal replaces an order that has expired.
LEMMA RenewSafe ==
  ASSUME IInv, TInv', NEW w \in Workers, NEW p \in Payments, p = flow[w].job,
         Renew(w)
  PROVE  IInv'
<1> DEFINE new == [Cur(w) EXCEPT !.deadline = now + RenewTtl]
<1>0. now \in Nat /\ RenewTtl \in Nat
  BY Typed, ConstantsAssumption DEF DataFits
<1>1. /\ new \in RowType /\ new.state = Cur(w).state /\ new.code = Cur(w).code
      /\ new.failedAt = Cur(w).failedAt /\ new.deadline = now + RenewTtl
      /\ new.version = Cur(w).version
      /\ Updates(w, new, "ASSET_RECEIVED") /\ Wrote(w, new, "sweep")
      /\ flow[w].pc = "step" /\ Cur(w).state = "ASSET_RECEIVED"
      /\ Cur(w).deadline <= now
  BY <1>0, Typed, RenewUpdates
<1> HIDE DEF new
<1>2. /\ Cur(w) = row[p] /\ row'[p] = Bump(new)
      /\ log'[p] = log[p] \cup {"ASSET_RECEIVED"}
      /\ UNCHANGED <<now, path, consumed>>
  BY <1>1, UpdateChanges DEF Cur
<1>3. RowInv(p) /\ StartedInv(p) /\ row[p] \in RowType
  BY <1>1, FlowKnows
<1>4. /\ Bump(new).version = row[p].version + 1 /\ Bump(new).state = "ASSET_RECEIVED"
      /\ Bump(new).code = row[p].code /\ Bump(new).failedAt = row[p].failedAt
      /\ Bump(new).deadline = now + RenewTtl
  BY <1>1, <1>2, BumpFits
<1>5. row[p].version \in Nat /\ row[p].deadline \in Nat
  BY <1>3 DEF RowType
<1>6. RowInv(p)'
  BY <1>0, <1>1, <1>2, <1>3, <1>4, <1>5 DEF RowInv, Unreceived
<1>7. StartedInv(p)'
  BY <1>1, <1>2, <1>3 DEF StartedInv, OrderOutlivesGrace, Started
<1>8. FlowInv(flow[w])' /\ OnlyMoves(w) /\ flow'[w].pc = "sweep"
  BY <1>1, WroteKnows, Plain("sweep") DEF Wrote, Plain
<1>9. Cur(w).deadline <= new.deadline
  BY <1>0, <1>1, <1>2, <1>5
<1> QED
  BY <1>1, <1>6, <1>7, <1>8, <1>9, UpdateSafe

\* The row after a transition along the table.
LEMMA MovedRow ==
  ASSUME IInv, NEW w \in Workers, NEW p \in Payments, p = flow[w].job,
         Cur(w) \in RowType, Cur(w).state \in Resumable,
         flow[w].pc # "idle", Updates(w, Moved(w), Moved(w).state)
  PROVE  RowInv(p)' /\ StartedInv(p)' /\ Cur(w).deadline <= Moved(w).deadline
<1> DEFINE s == Cur(w).state
<1>0. /\ now \in Nat /\ IntentExpiry \in Nat /\ ExpiryGrace \in Nat /\ QuoteTtl \in Nat
  BY Typed, ConstantsAssumption DEF DataFits
<1>1. /\ Moved(w) \in RowType /\ Moved(w).state = NextState(s)
      /\ Moved(w).code = Cur(w).code /\ Moved(w).failedAt = Cur(w).failedAt
      /\ Moved(w).version = Cur(w).version
      /\ Moved(w).deadline =
           IF NextState(s) # "PRICE_LOCKED" THEN Cur(w).deadline
           ELSE IF path[Job(w)] = "contract" THEN now + QuoteTtl
           ELSE IntentExpiry + ExpiryGrace
  BY <1>0, Typed, MovedFits
<1>2. /\ Cur(w) = row[p] /\ row'[p] = Bump(Moved(w))
      /\ log'[p] = log[p] \cup {Moved(w).state}
      /\ UNCHANGED <<now, path, consumed>>
  BY <1>1, UpdateChanges DEF Cur
<1>3. RowInv(p) /\ StartedInv(p) /\ row[p] \in RowType
  BY FlowKnows
<1>4. /\ Bump(Moved(w)).version = row[p].version + 1
      /\ Bump(Moved(w)).state = NextState(s)
      /\ Bump(Moved(w)).code = row[p].code
      /\ Bump(Moved(w)).failedAt = row[p].failedAt
      /\ Bump(Moved(w)).deadline = Moved(w).deadline
  BY <1>1, <1>2, BumpFits
<1>5. row[p].version \in Nat /\ row[p].deadline \in Nat
  BY <1>3 DEF RowType
<1>6. /\ s \in Unreceived \ {"NONE"} \/ s \in {"ASSET_RECEIVED", "CLEARING", "SETTLING", "SETTLED"}
      /\ s # "FAILED" /\ s # "NONE"
  BY DEF Resumable, Terminal, States, Unreceived
<1>7. /\ NextState(s) \in States \ {"NONE", "FAILED", "CREATED"}
      /\ NextState(s) \in Unreceived => s \in Unreceived
      /\ NextState(s) = "ASSET_RECEIVED" => s = "PAYMENT_PENDING"
      /\ NextState(s) = "QR_PARSED" <=> s = "CREATED"
      /\ NextState(s) = "PRICE_LOCKED" <=> s = "QR_PARSED"
  BY DEF NextState, Resumable, Terminal, States, Unreceived
<1> HIDE DEF s
<1>8. row[p].state = s
  BY <1>2 DEF s
<1>9. s = "QR_PARSED" => row[p].deadline = 0
  BY <1>3, <1>8 DEF RowInv
<1>10. row[p].deadline <= Moved(w).deadline
  BY <1>0, <1>1, <1>2, <1>5, <1>7, <1>9
<1>12. row[p].code # "PAYMENT_EXPIRED"
  BY <1>3, <1>6, <1>8 DEF RowInv
<1>13. NextState(s) \in Unreceived =>
           "ASSET_RECEIVED" \notin log[p] /\ NextState(s) # "ASSET_RECEIVED"
  BY <1>3, <1>7, <1>8 DEF RowInv, Unreceived
<1>14. RowInv(p)'
  <2>1. row'[p].state = NextState(s) /\ row'[p].code = row[p].code
    BY <1>2, <1>4
  <2>2. /\ row'[p].version # 0 /\ row'[p].state \notin {"NONE", "CREATED", "FAILED"}
        /\ row'[p].failedAt <= now'
    BY <1>2, <1>3, <1>4, <1>5, <1>7 DEF RowInv
  <2>3. row'[p].state = "QR_PARSED" => row'[p].deadline = 0
    BY <1>1, <1>2, <1>3, <1>4, <1>7, <1>8 DEF RowInv
  <2>4. row'[p].state \in Unreceived => "ASSET_RECEIVED" \notin log'[p]
    BY <1>1, <1>2, <1>13, <2>1
  <2> QED
    BY <1>12, <2>1, <2>2, <2>3, <2>4 DEF RowInv
<1>15. StartedInv(p)'
  <2>1. ~Started(p)
    BY <1>3, <1>6, <1>8 DEF StartedInv
  <2>2. NextState(s) # "return.started"
    BY <1>7 DEF States
  <2> QED
    BY <1>1, <1>2, <2>1, <2>2 DEF StartedInv, OrderOutlivesGrace, Started
<1> QED
  BY <1>2, <1>10, <1>14, <1>15

LEMMA PersistSafe ==
  ASSUME IInv, TInv', NEW w \in Workers, NEW p \in Payments, p = flow[w].job,
         Persist(w) \/ Finish(w)
  PROVE  IInv'
<1>1. /\ Cur(w).state \in Resumable /\ Cur(w) \in RowType /\ flow[w].pc # "idle"
      /\ Updates(w, Moved(w), Moved(w).state)
      /\ Wrote(w, Moved(w), "step") \/ Ended(w)
  <2>1. "SETTLED" \in Resumable
    BY DEF Resumable, Terminal, States
  <2> QED
    BY <2>1, Typed, PersistUpdates, FinishUpdates, StopEnds DEF DataFits
<1>2. RowInv(p)' /\ StartedInv(p)' /\ Cur(w).deadline <= Moved(w).deadline
  BY <1>1, MovedRow
<1>3. Moved(w) \in RowType /\ Moved(w).version = Cur(w).version
  BY <1>1, Typed, MovedFits DEF DataFits
<1>4. FlowInv(flow[w])' /\ OnlyMoves(w) /\ flow'[w].pc # "retSend"
  <2>1. CASE Wrote(w, Moved(w), "step")
    BY <1>1, <1>3, <2>1, WroteKnows, Plain("step") DEF Wrote, Plain
  <2>2. CASE Ended(w)
    BY <2>2, EndedKnows DEF Ended
  <2> QED
    BY <1>1, <2>1, <2>2
<1> QED
  BY <1>1, <1>2, <1>3, <1>4, UpdateSafe

LEMMA FailSafe ==
  ASSUME IInv, TInv', NEW w \in Workers, NEW p \in Payments, p = flow[w].job, Fail(w)
  PROVE  IInv'
<1> DEFINE new == [Cur(w) EXCEPT !.state = "FAILED", !.code = flow[w].code,
                                 !.failedAt = now]
<1>1. /\ new \in RowType /\ new.state = "FAILED" /\ new.code = flow[w].code
      /\ new.failedAt = now /\ new.deadline = Cur(w).deadline
      /\ new.version = Cur(w).version
      /\ Updates(w, new, "FAILED") /\ Wrote(w, new, "failIntent")
      /\ flow[w].pc = "fail"
  BY Typed, FailUpdates DEF DataFits
<1> HIDE DEF new
<1>2. /\ Cur(w) = row[p] /\ row'[p] = Bump(new) /\ log'[p] = log[p] \cup {"FAILED"}
      /\ UNCHANGED <<now, path, consumed>>
  BY <1>1, UpdateChanges DEF Cur
<1>3. RowInv(p) /\ StartedInv(p) /\ row[p] \in RowType /\ Stage(flow[w])
  BY <1>1, FlowKnows
<1>4. /\ Bump(new).version = row[p].version + 1 /\ Bump(new).state = "FAILED"
      /\ Bump(new).code = flow[w].code /\ Bump(new).failedAt = now
      /\ Bump(new).deadline = row[p].deadline
  BY <1>1, <1>2, BumpFits
<1>5. row[p].version \in Nat /\ row[p].deadline \in Nat /\ now \in Nat
  BY <1>3, Typed DEF RowType, DataFits
<1>6. /\ row[p].state \in CanFail
      /\ flow[w].code = "PAYMENT_EXPIRED" => row[p].state = "PAYMENT_PENDING"
  BY <1>1, <1>2, <1>3 DEF Stage, Cur
<1>7. row[p].state # "FAILED"
  BY <1>6 DEF CanFail, Resumable, Terminal
<1>8. RowInv(p)'
  BY <1>2, <1>3, <1>4, <1>5, <1>6, <1>7 DEF RowInv, Unreceived
<1>9. StartedInv(p)'
  BY <1>2, <1>3, <1>7 DEF StartedInv, OrderOutlivesGrace, Started
<1>10. FlowInv(flow[w])' /\ OnlyMoves(w) /\ flow'[w].pc = "failIntent"
  BY <1>1, WroteKnows, Plain("failIntent") DEF Wrote, Plain
<1>11. Cur(w).deadline <= new.deadline
  BY <1>1, <1>2, <1>5
<1> QED
  BY <1>1, <1>8, <1>9, <1>10, <1>11, UpdateSafe

LEMMA ReopenSafe ==
  ASSUME IInv, TInv', NEW w \in Workers, NEW p \in Payments, p = flow[w].job, Reopen(w)
  PROVE  IInv'
<1> DEFINE new == [Cur(w) EXCEPT !.state = "ASSET_RECEIVED", !.code = "none",
                                 !.failedAt = 0]
<1>1. /\ new \in RowType /\ new.state = "ASSET_RECEIVED" /\ new.code = "none"
      /\ new.failedAt = 0 /\ new.deadline = Cur(w).deadline
      /\ new.version = Cur(w).version
      /\ Updates(w, new, "ASSET_RECEIVED") /\ Wrote(w, new, "reopenIntent")
      /\ flow[w].pc = "reopen"
  BY Typed, ReopenUpdates
<1> HIDE DEF new
<1>2. /\ Cur(w) = row[p] /\ row'[p] = Bump(new)
      /\ log'[p] = log[p] \cup {"ASSET_RECEIVED"}
      /\ UNCHANGED <<now, path, consumed>>
  BY <1>1, UpdateChanges DEF Cur
<1>3. /\ RowInv(p) /\ row[p] \in RowType /\ Stage(flow[w]) /\ FlowInv(flow[w])
  BY <1>1, FlowKnows
<1>4. /\ Bump(new).version = row[p].version + 1 /\ Bump(new).state = "ASSET_RECEIVED"
      /\ Bump(new).code = "none" /\ Bump(new).failedAt = 0
      /\ Bump(new).deadline = row[p].deadline
  <2>1. new \in RowType
    BY <1>1
  <2>2. /\ Bump(new).version = new.version + 1 /\ Bump(new).state = new.state
        /\ Bump(new).code = new.code /\ Bump(new).failedAt = new.failedAt
        /\ Bump(new).deadline = new.deadline
    BY <2>1, BumpFits
  <2> QED
    BY <1>1, <1>2, <2>2
<1>5. /\ row[p].version \in Nat /\ row[p].deadline \in Nat /\ now \in Nat
      /\ row[p].failedAt \in Nat /\ ReturnGrace \in Nat
  BY <1>3, Typed, ConstantsAssumption DEF RowType, DataFits
<1>6. row[p].state = "FAILED"
  BY <1>1, <1>2, <1>3 DEF Stage, FailedPcs, Cur
<1>7. ~Started(p)
  BY <1>1, <1>2, <1>3 DEF FlowInv, Reopening, Unmoved, Cur
<1>9. RowInv(p)'
  BY <1>2, <1>4, <1>5 DEF RowInv, Unreceived
<1>10. StartedInv(p)'
  BY <1>2, <1>7 DEF StartedInv, OrderOutlivesGrace, Started
<1>11. FlowInv(flow[w])' /\ OnlyMoves(w) /\ flow'[w].pc = "reopenIntent"
  BY <1>1, WroteKnows, Plain("reopenIntent") DEF Wrote, Plain
<1>12. Cur(w).deadline <= new.deadline
  BY <1>1, <1>2, <1>5
<1> QED
  BY <1>1, <1>9, <1>10, <1>11, <1>12, UpdateSafe

\* The rows a return leaves as they are, but for the version.
LEMMA ReturnRow ==
  ASSUME IInv, NEW w \in Workers, NEW p \in Payments, p = flow[w].job,
         flow[w].pc # "idle", Cur(w) \in RowType, Cur(w).state = "FAILED",
         NEW event \in {"return.started", "return.broadcast", "return.confirmed"},
         Updates(w, Cur(w), event)
  PROVE  /\ RowInv(p)' /\ Cur(w) = row[p] /\ Cur(w).deadline <= Cur(w).deadline
         /\ row'[p].state = "FAILED" /\ row'[p].deadline = row[p].deadline
         /\ row'[p].failedAt = row[p].failedAt
         /\ log'[p] = log[p] \cup {event} /\ UNCHANGED <<now, path, consumed>>
         /\ row'[p] = Bump(Cur(w))
<1>1. /\ Cur(w) = row[p] /\ row'[p] = Bump(Cur(w)) /\ log'[p] = log[p] \cup {event}
      /\ UNCHANGED <<now, path, consumed>>
  BY UpdateChanges DEF Cur
<1>2. /\ RowInv(p) /\ row[p] \in RowType
  BY FlowKnows
<1>3. /\ row'[p].version = row[p].version + 1 /\ row'[p].state = "FAILED"
      /\ row'[p].code = row[p].code /\ row'[p].failedAt = row[p].failedAt
      /\ row'[p].deadline = row[p].deadline
  BY <1>1, BumpFits
<1>4. row[p].version \in Nat /\ row[p].deadline \in Nat
  BY <1>2 DEF RowType
<1>5. RowInv(p)'
  BY <1>1, <1>2, <1>3, <1>4 DEF RowInv, Unreceived
<1> QED
  BY <1>1, <1>3, <1>4, <1>5

\* What the check found still holds when the start of the return is recorded:
\* the row has not moved since.
LEMMA ReturnStartSafe ==
  ASSUME IInv, TInv', NEW w \in Workers, NEW p \in Payments, p = flow[w].job,
         ReturnStart(w)
  PROVE  IInv'
<1>1. /\ Cur(w) \in RowType /\ flow[w].pc = "retStart"
      /\ Updates(w, Cur(w), "return.started") /\ Wrote(w, Cur(w), "retSend")
  BY Typed, ReturnStartUpdates
<1>2. /\ RowInv(p) /\ Stage(flow[w]) /\ FlowInv(flow[w]) /\ row[p] \in RowType
  BY <1>1, FlowKnows
<1>3. Cur(w).state = "FAILED"
  BY <1>1, <1>2 DEF Stage, FailedPcs, Cur
<1>4. /\ RowInv(p)' /\ Cur(w) = row[p] /\ Cur(w).deadline <= Cur(w).deadline
      /\ row'[p].state = "FAILED" /\ row'[p].deadline = row[p].deadline
      /\ row'[p].failedAt = row[p].failedAt
      /\ log'[p] = log[p] \cup {"return.started"} /\ UNCHANGED <<now, path, consumed>>
      /\ row'[p] = Bump(Cur(w))
  BY <1>1, <1>3, ReturnRow
<1>5. Unmoved(flow[w])
  BY <1>4 DEF Unmoved, Cur
<1>6. /\ path[p] = "order" /\ "ASSET_RECEIVED" \in log[p] /\ ~Started(p)
      /\ row[p].failedAt + ReturnGrace <= now
      /\ consumed[p] => OrderOutlivesGrace(p)
  BY <1>1, <1>2, <1>4, <1>5 DEF FlowInv, Returning, Cur
<1>9. StartedInv(p)'
  BY <1>4, <1>6 DEF StartedInv, OrderOutlivesGrace
<1>10. \A i \in Tx : ~SentBack(i, p)
  BY <1>6 DEF IInv, TxInv, SentBack
<1>11. FlowInv(flow[w])'
  <2>1. flow'[w].pc = "retSend" /\ flow'[w].job = p /\ flow'[w].cur = row'[p]
    BY <1>1, <1>4 DEF Wrote
  <2>2. Bump(Cur(w)).version \in Nat /\ Bump(Cur(w)).deadline \in Nat
    BY <1>1, BumpFits DEF RowType
  <2>3. UNCHANGED optx
    BY <1>1 DEF Updates, chain
  <2>4. Snapshot(flow[w])' /\ Reopening(flow[w])'
    BY <1>4, <2>1, <2>2 DEF Snapshot, Reopening
  <2>5. Returning(flow[w])'
    BY <1>4, <1>10, <2>1, <2>3 DEF Returning, Started, ReturnTxs, SentBack
  <2> QED
    BY <2>4, <2>5 DEF FlowInv
<1> QED
  BY <1>1, <1>4, <1>6, <1>9, <1>11, UpdateSafe DEF Wrote

LEMMA ReturnGoesOnSafe ==
  ASSUME IInv, TInv', NEW w \in Workers, NEW p \in Payments, p = flow[w].job,
         ReturnRecord(w) \/ ReturnConfirm(w)
  PROVE  IInv'
<1>1. /\ Cur(w) \in RowType /\ flow[w].pc \in {"retRecord", "retConfirm"}
      /\ Wrote(w, Cur(w), "retReceipt") \/ Ended(w)
  BY Typed, ReturnRecordUpdates, ReturnConfirmUpdates, StopEnds
<1>2. PICK event \in {"return.broadcast", "return.confirmed"} : Updates(w, Cur(w), event)
  BY Typed, ReturnRecordUpdates, ReturnConfirmUpdates
<1>3. Cur(w).state = "FAILED" /\ StartedInv(p)
  BY <1>1, FlowKnows DEF Stage, FailedPcs, Cur
<1>4. /\ RowInv(p)' /\ Cur(w).deadline <= Cur(w).deadline
      /\ row'[p].state = "FAILED" /\ row'[p].deadline = row[p].deadline
      /\ row'[p].failedAt = row[p].failedAt
      /\ log'[p] = log[p] \cup {event} /\ UNCHANGED <<now, path, consumed>>
  BY <1>1, <1>2, <1>3, ReturnRow
<1>5. StartedInv(p)'
  BY <1>2, <1>3, <1>4 DEF StartedInv, OrderOutlivesGrace, Started
<1>6. FlowInv(flow[w])' /\ OnlyMoves(w) /\ flow'[w].pc # "retSend"
  <2>1. CASE Wrote(w, Cur(w), "retReceipt")
    BY <1>1, <1>2, <2>1, WroteKnows, Plain("retReceipt") DEF Wrote, Plain
  <2>2. CASE Ended(w)
    BY <2>2, EndedKnows DEF Ended
  <2> QED
    BY <1>1, <2>1, <2>2
<1> QED
  BY <1>1, <1>2, <1>4, <1>5, <1>6, UpdateSafe

(***************************************************************************)
(* Every step preserves the invariant                                      *)
(***************************************************************************)
LEMMA WorldSafe ==
  ASSUME IInv, TInv', NEW p \in Payments, World(p)
  PROVE  IInv'
<1>1. CASE ConfirmIntent(p) \/ ExpireIntent(p) \/ PayerDeposits(p)
  <2>1. UNCHANGED core /\ UNCHANGED flow
    BY <1>1 DEF ConfirmIntent, ExpireIntent, PayerDeposits, core, env, db, chain
  <2> QED BY <2>1, NothingSafe
<1>2. CASE PayerPays(p) BY <1>2, PayerPaysSafe
<1>3. CASE AdapterDecides(p) BY <1>3, AdapterSafe
<1> QED BY <1>1, <1>2, <1>3 DEF World

LEMMA RunSafe ==
  ASSUME IInv, TInv', NEW w \in Workers, Run(w)
  PROVE  IInv'
<1>1. CASE flow[w].pc = "idle"
  <2>1. FALSE
    BY <1>1 DEF Run, Insert, MarkProcessing, StartRefused, Enter, Wait, QuoteExpired,
       Receive, Park, Renew, Sweep, Submit, OrderMined, Book, Clear, Settle, Confirm,
       Unconfirmed, Complete, CompleteRefused, Persist, Finish, Fail, FailIntent,
       ReadEvents, PostLate, Reopen, ReopenIntent, ReturnRead, ReturnCheck,
       ReturnSweep, ReturnStart, ReturnSend, ReturnRecord, ReturnReceipt,
       ReturnConfirm, Conflict, At, InState, Executing, Quiet
  <2> QED BY <2>1
<1>2. CASE flow[w].pc # "idle"
  <2>1. PICK p \in Payments : p = flow[w].job
    BY <1>2, FlowKnows
  <2>2. CASE \/ Enter(w) \/ Receive(w) \/ Clear(w) \/ Confirm(w) \/ Complete(w)
             \/ MarkProcessing(w) \/ ReopenIntent(w) \/ FailIntent(w) \/ Sweep(w)
             \/ Book(w) \/ EndsFlow(w) \/ QuoteExpired(w) \/ Unconfirmed(w)
             \/ OrderMined(w) \/ ReturnReceipt(w)
    BY <2>2, PlainStepSafe
  <2>3. CASE Insert(w) BY <2>1, <2>3, InsertSafe
  <2>4. CASE Renew(w) BY <2>1, <2>4, RenewSafe
  <2>5. CASE Submit(w) BY <2>5, SubmitSafe
  <2>6. CASE Settle(w) BY <2>6, SettleSafe
  <2>7. CASE Persist(w) \/ Finish(w) BY <2>1, <2>7, PersistSafe
  <2>8. CASE Fail(w) BY <2>1, <2>8, FailSafe
  <2>9. CASE ReadEvents(w) BY <2>9, ReadEventsSafe
  <2>10. CASE PostLate(w) BY <2>10, PostLateSafe
  <2>11. CASE Reopen(w) BY <2>1, <2>11, ReopenSafe
  <2>12. CASE ReturnRead(w) BY <2>12, ReturnReadSafe
  <2>13. CASE ReturnCheck(w) BY <2>13, ReturnCheckSafe
  <2>14. CASE ReturnSweep(w) BY <2>14, ReturnSweepSafe
  <2>15. CASE ReturnStart(w) BY <2>1, <2>15, ReturnStartSafe
  <2>16. CASE ReturnSend(w) BY <2>16, ReturnSendSafe
  <2>17. CASE ReturnRecord(w) \/ ReturnConfirm(w) BY <2>1, <2>17, ReturnGoesOnSafe
  <2> QED
    BY <2>2, <2>3, <2>4, <2>5, <2>6, <2>7, <2>8, <2>9, <2>10, <2>11, <2>12, <2>13,
       <2>14, <2>15, <2>16, <2>17 DEF Run, EndsFlow
<1> QED BY <1>1, <1>2

LEMMA NextInv ==
  ASSUME IInv, [Next]_vars
  PROVE  IInv'
<1>1. TInv'
  BY NextTypes DEF IInv
<1>2. CASE UNCHANGED vars
  <2>1. UNCHANGED core /\ UNCHANGED flow
    BY <1>2 DEF vars, env, db, chain, core
  <2> QED BY <1>1, <2>1, NothingSafe
<1>3. CASE Tick BY <1>1, <1>3, TickSafe
<1>4. CASE Mine BY <1>1, <1>4, MineSafe
<1>5. CASE \E p \in Payments : World(p) BY <1>1, <1>5, WorldSafe
<1>6. CASE \E w \in Workers, p \in Payments : PickUp(w, p)
  BY <1>1, <1>6, PickUpSafe
<1>7. CASE \E w \in Workers : Run(w) BY <1>1, <1>7, RunSafe
<1>8. CASE \E w \in Workers : SubmitFails(w) \/ Throw(w)
  BY <1>1, <1>8, PlainStepSafe
<1>9. CASE \E h \in Hosts : Crash(h) BY <1>1, <1>9, CrashSafe
<1> QED
  BY <1>2, <1>3, <1>4, <1>5, <1>6, <1>7, <1>8, <1>9 DEF Next

LEMMA InitInv ==
  ASSUME Init
  PROVE  IInv
<1>1. TInv
  BY InitTypes
<1>3. now = 0 /\ sent = 0
  BY DEF Init
<1>4. ASSUME NEW p \in Payments PROVE RowInv(p) /\ StartedInv(p) /\ PayoutInv(p)
  <2>1. /\ row[p] = NoRow /\ log[p] = {} /\ payout[p] = "none"
    BY DEF Init
  <2> QED BY <1>3, <2>1 DEF RowInv, StartedInv, PayoutInv, Started, NoRow
<1>5. ASSUME NEW i \in Tx PROVE optx[i] = NoTx /\ TxInv(i)
  <2>1. optx[i] = NoTx
    BY DEF Init
  <2> QED BY <2>1 DEF TxInv, NoTx
<1>6. ASSUME NEW w \in Workers PROVE flow[w].pc = "idle" /\ FlowInv(flow[w])
  <2>1. flow[w] = Idle
    BY DEF Init
  <2> QED BY <2>1, IdleKnows DEF Idle, FlowAt
<1>7. OneSender
  BY <1>6 DEF OneSender, At
<1>8. AtMostOneReturn
  BY <1>5 DEF AtMostOneReturn, ReturnTxs, NoTx
<1> QED BY <1>1, <1>4, <1>5, <1>6, <1>7, <1>8 DEF IInv

(***************************************************************************)
(* What the invariant says of the payer's and the merchant's money         *)
(***************************************************************************)
LEMMA InvariantMeans ==
  ASSUME IInv
  PROVE  ReturnIsFinal /\ NeverPaidAndReturned /\ AtMostOneReturn
<1>1. ReturnIsFinal
  BY DEF IInv, ReturnIsFinal, StartedInv
<1>2. ASSUME NEW p \in Payments, Returned(p), Paid(p) PROVE OrderOutlivesGrace(p)
  <2>1. PICK i \in Tx : optx[i].kind = "return" /\ optx[i].p = p
    BY <1>2 DEF Returned, ReturnTxs
  <2>2. Started(p)
    BY <2>1 DEF IInv, TxInv
  <2>3. path[p] = "order" /\ (consumed[p] => OrderOutlivesGrace(p))
    BY <2>2 DEF IInv, StartedInv
  <2>4. payout[p] = "none"
    BY <2>3 DEF IInv, PayoutInv
  <2> QED BY <1>2, <2>3, <2>4 DEF Paid
<1>3. NeverPaidAndReturned
  BY <1>2 DEF NeverPaidAndReturned, IInv, TInv
<1> QED BY <1>1, <1>3 DEF IInv

\* IInv is an inductive invariant of the engine, for any number of payments,
\* flows and processes, any bounds and any times.
THEOREM InvariantHolds ==
  Spec => []IInv
<1>1. Init => IInv
  BY InitInv
<1>2. IInv /\ [Next]_vars => IInv'
  BY NextInv
<1> QED BY <1>1, <1>2, PTL DEF Spec

\* deposit-return.ts: no payment is both settled to the merchant and returned to
\* the payer, although the consumed check is a read made before the transfer,
\* except one whose order outlives the grace.
THEOREM NeverBothWays ==
  Spec => []NeverPaidAndReturned
<1>1. IInv => NeverPaidAndReturned
  BY InvariantMeans
<1> QED BY InvariantHolds, <1>1, PTL

\* deposit-return.ts #return: whatever crashes and however many processes run
\* the pass, the operator signs at most one return of a payment.
THEOREM OneReturnOnly ==
  Spec => []AtMostOneReturn
<1>1. IInv => AtMostOneReturn
  BY InvariantMeans
<1> QED BY InvariantHolds, <1>1, PTL

\* engine.ts retry: a payment whose return has started stays failed, against
\* every retry and late acceptance that read it before the return did.
THEOREM ReturnStaysFinal ==
  Spec => []ReturnIsFinal
<1>1. IInv => ReturnIsFinal
  BY InvariantMeans
<1> QED BY InvariantHolds, <1>1, PTL

=============================================================================
