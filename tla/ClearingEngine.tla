--------------------------- MODULE ClearingEngine ---------------------------
(***************************************************************************)
(* The clearing engine (packages/core/clearing): the persisted state       *)
(* machine of a payment, driven by concurrent flows of several processes,  *)
(* with the payment intent it answers to, the operator's transactions on   *)
(* the chain, the external settlement adapter, and the service that sends  *)
(* a failed deposit back to the payer.                                     *)
(*                                                                         *)
(* One worker is one asynchronous flow: a request handler of the API, a    *)
(* pass of the chain worker, a watcher's callback.  A flow is cut into one *)
(* action per write to shared state or read it later relies on, so flows   *)
(* interleave exactly where the code awaits.  Local work is not a step.    *)
(*                                                                         *)
(* The facilitator (x402) path is not part of this module.                 *)
(*                                                                         *)
(* A definition named Op_Fault is Op with a plausible bug in it.  No       *)
(* action uses it: it stands beside the definition it spoils to show that  *)
(* a property tells the two apart.                                         *)
(***************************************************************************)
EXTENDS Integers, FiniteSets

CONSTANTS
    Payments,       \* payments, each with one intent and one deposit address
    NoPayment,      \* the job of an idle flow
    Paths,          \* the execution paths payments are minted with
    Workers,        \* asynchronous flows
    Executors,      \* the flows that run in a process holding the operator key
    Hosts,          \* processes
    HostOf,         \* the process a flow runs in
    IntentExpiry,   \* when an intent expires (all are minted at time 0)
    ExpiryGrace,    \* contractExpiryGraceSeconds
    QuoteTtl,       \* how long a contract-path lock is valid
    RenewTtl,       \* renewedOrderTtlSeconds
    ReturnGrace,    \* AUTO_RETURN_GRACE_SECONDS
    MaxAttempts,    \* submissions one execution may make
    ResumePage,     \* payments one pass of resumeStuck takes up
    Float,          \* units the operator wallet holds of its own
    MaxTime,        \* bound: the clock stops here
    MaxTx,          \* bound: operator transactions
    MaxUpsets       \* bound: crashes, errors, operator (human) calls

\* "order": deposit address and a signed router order the treasury executes;
\* "adapter": deposit address, settled by a settlement adapter;
\* "contract": the payer submits the signed order itself.
AllPaths == {"order", "adapter", "contract"}

ASSUME ConstantsAssumption ==
    /\ NoPayment \notin Payments
    /\ Paths \subseteq AllPaths
    /\ Executors \subseteq Workers
    /\ HostOf \in [Workers -> Hosts]
    /\ {IntentExpiry, QuoteTtl, RenewTtl} \subseteq Nat \ {0}
    /\ {ExpiryGrace, ReturnGrace, Float, MaxTime, MaxTx, MaxUpsets} \subseteq Nat
    /\ {MaxAttempts, ResumePage} \subseteq Nat \ {0}

VARIABLES
    now,        \* the clock
    path,       \* execution_path, fixed when the payment is minted
    upsets,     \* crashes, errors and human calls so far
    row,        \* clearing_transactions, by payment
    log,        \* clearing_events: target states and return events, by payment
    returnRef,  \* the transaction a deposit.return.broadcast event names, or 0
    ledger,     \* keys of the postings of a payment
    intent,     \* payment_intents.status
    deposit,    \* the payer's asset at the deposit address
    pool,       \* what the operator wallet holds
    consumed,   \* router: intents it has settled
    optx,       \* the operator's transactions, by nonce
    sent,       \* how many are broadcast
    mined,      \* how many of those are mined
    payout,     \* the settlement adapter's view of a payment
    flow,       \* what each worker is doing
    advancing   \* #advancing of each process

env   == <<now, upsets>>
db    == <<row, log, returnRef, ledger, intent>>
chain == <<deposit, pool, consumed, optx, sent, mined>>
vars  == <<env, db, chain, path, payout, flow, advancing>>

States == {"NONE", "CREATED", "QR_PARSED", "PRICE_LOCKED", "PAYMENT_PENDING",
           "ASSET_RECEIVED", "CLEARING", "SETTLING", "SETTLED", "SUCCESS",
           "FAILED"}
Terminal == {"SUCCESS", "FAILED"}
Resumable == States \ (Terminal \cup {"NONE"})
CanFail == Resumable \ {"SETTLED"}

NextState(s) ==
    CASE s = "CREATED" -> "QR_PARSED"
      [] s = "QR_PARSED" -> "PRICE_LOCKED"
      [] s = "PRICE_LOCKED" -> "PAYMENT_PENDING"
      [] s = "PAYMENT_PENDING" -> "ASSET_RECEIVED"
      [] s = "ASSET_RECEIVED" -> "CLEARING"
      [] s = "CLEARING" -> "SETTLING"
      [] s = "SETTLING" -> "SETTLED"
      [] s = "SETTLED" -> "SUCCESS"

Codes == {"none", "PAYMENT_EXPIRED", "CLEARING_FAILED"}

\* hash: contract.txHash is recorded; deadline: of the signed order.
NoRow == [state |-> "NONE", version |-> 0, code |-> "none", failedAt |-> 0,
          deadline |-> 0, hash |-> FALSE]

NoTx == [kind |-> "none", p |-> NoPayment, deadline |-> 0, status |-> "none"]

\* A flow at a label, about payment p, holding the row it read.
FlowAt(label, p, cur) ==
    [pc |-> label, job |-> p, cur |-> cur, code |-> "none", tries |-> 0, tx |-> 0,
     sig |-> FALSE, renewed |-> FALSE, entered |-> FALSE]

Idle == FlowAt("idle", NoPayment, NoRow)

Tx == 1..MaxTx

(***************************************************************************)
(* A worker's flow                                                         *)
(***************************************************************************)
At(w, label) == flow[w].pc = label
Job(w) == flow[w].job
Cur(w) == flow[w].cur
Row(w) == row[flow[w].job]

Goto(w, label) == flow' = [flow EXCEPT ![w].pc = label]

\* A flow that loads payment p and continues at label.
Begin(w, p, label) ==
    flow' = [flow EXCEPT ![w] = FlowAt(label, p, row[p])]

Stop_KeepsMark(w) ==
    /\ flow' = [flow EXCEPT ![w] = Idle]
    /\ UNCHANGED advancing

\* The flow ends; #advance's finally removes the mark of its process.
Stop(w) ==
    /\ flow' = [flow EXCEPT ![w] = Idle]
    /\ advancing' = IF flow[w].entered
                    THEN advancing \ {<<HostOf[w], Job(w)>>} ELSE advancing

\* #run's catch of an error that is not retryable.  #fail carries the version
\* of the loop's own snapshot, so after a renewal it can only conflict.
Throws(w) ==
    IF Cur(w).state \in CanFail /\ ~flow[w].renewed
    THEN /\ flow' = [flow EXCEPT ![w].pc = "fail", ![w].code = "CLEARING_FAILED"]
         /\ UNCHANGED advancing
    ELSE Stop(w)

Current_Unchecked(w) == TRUE
Current(w) == Row(w).version = Cur(w).version

Bump(r) == [r EXCEPT !.version = @ + 1]

\* repository.update: `new` and its event are written together, if the row is
\* still the version this flow read.
Update(w, new, event) ==
    /\ Current(w)
    /\ row' = [row EXCEPT ![Job(w)] = Bump(new)]
    /\ log' = [log EXCEPT ![Job(w)] = @ \cup {event}]

\* The flow goes on from what it wrote.
Continue(w, new, label) ==
    flow' = [flow EXCEPT ![w].cur = Bump(new), ![w].pc = label]

Post(w, key) == ledger' = [ledger EXCEPT ![Job(w)] = @ \cup {key}]

OnDeposit(p) == path[p] \in {"order", "adapter"}
SettlesOnChain(p) == path[p] \in {"order", "contract"}

\* Another crash, error or human call is within the bound.
Upset == upsets < MaxUpsets /\ upsets' = upsets + 1

-----------------------------------------------------------------------------
Init ==
    /\ now = 0
    /\ upsets = 0
    /\ path \in [Payments -> Paths]
    /\ row = [p \in Payments |-> NoRow]
    /\ log = [p \in Payments |-> {}]
    /\ returnRef = [p \in Payments |-> 0]
    /\ ledger = [p \in Payments |-> {}]
    /\ intent = [p \in Payments |-> "CREATED"]
    /\ deposit = [p \in Payments |-> "none"]
    /\ pool = Float
    /\ consumed = [p \in Payments |-> FALSE]
    /\ optx = [i \in Tx |-> NoTx]
    /\ sent = 0
    /\ mined = 0
    /\ payout = [p \in Payments |-> "none"]
    /\ flow = [w \in Workers |-> Idle]
    /\ advancing = {}

(***************************************************************************)
(* The world: the clock, the payer, the chain, the settlement adapter      *)
(***************************************************************************)
Tick ==
    /\ now < MaxTime
    /\ now' = now + 1
    /\ UNCHANGED <<upsets, db, chain, path, payout, flow, advancing>>

ConfirmIntent(p) ==
    /\ intent[p] = "CREATED" /\ now < IntentExpiry
    /\ intent' = [intent EXCEPT ![p] = "CONFIRMED"]
    /\ UNCHANGED <<env, row, log, returnRef, ledger, chain, path, payout, flow, advancing>>

\* Any read of a due intent (getById) expires it.
ExpireIntent(p) ==
    /\ intent[p] \in {"CREATED", "CONFIRMED"} /\ now >= IntentExpiry
    /\ intent' = [intent EXCEPT ![p] = "EXPIRED"]
    /\ UNCHANGED <<env, row, log, returnRef, ledger, chain, path, payout, flow, advancing>>

\* The payer knows the address once the price is locked, and pays when it likes.
PayerDeposits(p) ==
    /\ OnDeposit(p) /\ "PRICE_LOCKED" \in log[p] /\ deposit[p] = "none"
    /\ deposit' = [deposit EXCEPT ![p] = "held"]
    /\ UNCHANGED <<env, db, pool, consumed, optx, sent, mined, path, payout, flow, advancing>>

\* The payer submits the signed order; the router refuses a late or used one.
PayerPays(p) ==
    /\ path[p] = "contract" /\ "PRICE_LOCKED" \in log[p]
    /\ now <= row[p].deadline /\ ~consumed[p]
    /\ consumed' = [consumed EXCEPT ![p] = TRUE]
    /\ UNCHANGED <<env, db, deposit, pool, optx, sent, mined, path, payout, flow, advancing>>

AdapterDecides(p) ==
    /\ payout[p] = "PENDING"
    /\ \E s \in {"SUCCEEDED", "FAILED"} : payout' = [payout EXCEPT ![p] = s]
    /\ UNCHANGED <<env, db, chain, path, flow, advancing>>

\* What mining the operator's next transaction can do to it.
Outcomes(t) ==
    IF t.kind = "order"
    THEN IF now > t.deadline THEN {"ExpiredOrder"}
         ELSE IF consumed[t.p] THEN {"AlreadyConsumed"}
         ELSE IF pool = 0 THEN {"reverted"} ELSE {"success", "reverted"}
    ELSE IF pool = 0 THEN {"reverted"} ELSE {"success"}

\* Transactions of one key are mined in nonce order.  Sweeps are not in optx: a
\* sweep is one step of its flow, at the moment it is mined, since nothing reads
\* the deposit address between its broadcast and that moment.
Mine ==
    /\ mined < sent
    /\ mined' = mined + 1
    /\ LET t == optx[mined + 1] IN \E s \in Outcomes(t) :
        /\ optx' = [optx EXCEPT ![mined + 1].status = s]
        /\ pool' = IF s = "success" THEN pool - 1 ELSE pool
        /\ consumed' = IF s = "success" /\ t.kind = "order"
                       THEN [consumed EXCEPT ![t.p] = TRUE] ELSE consumed
    /\ UNCHANGED <<env, db, deposit, sent, path, payout, flow, advancing>>

Broadcast(t) ==
    /\ sent < MaxTx
    /\ sent' = sent + 1
    /\ optx' = [optx EXCEPT ![sent + 1] = t]

(***************************************************************************)
(* Entry points: what an idle flow may pick up                             *)
(***************************************************************************)

\* start: no transaction yet for a confirmed intent.
Start(w, p) ==
    /\ At(w, "idle") /\ row[p].state = "NONE" /\ intent[p] = "CONFIRMED"
    /\ Begin(w, p, "insert")
    /\ UNCHANGED <<env, db, chain, path, payout, advancing>>

\* resumeStuck, resume, a webhook, start of what exists: read it and advance.
Load(w, p) ==
    /\ At(w, "idle") /\ row[p].state \in Resumable
    /\ Begin(w, p, "enter")
    /\ UNCHANGED <<env, db, chain, path, payout, advancing>>

\* recordAssetReceived and recordPaymentCompleted while the payment is pending;
\* past that they are a Load.
Signal(w, p) ==
    /\ At(w, "idle") /\ row[p].state = "PAYMENT_PENDING"
    /\ deposit[p] # "none" \/ (path[p] = "contract" /\ consumed[p])
    /\ flow' = [flow EXCEPT ![w] =
            [FlowAt("enter", p, row[p]) EXCEPT !.sig = TRUE]]
    /\ UNCHANGED <<env, db, chain, path, payout, advancing>>

\* sweepExpired, from its page to #fail.
SweepExpired(w, p) ==
    /\ At(w, "idle") /\ row[p].state = "PAYMENT_PENDING" /\ now >= IntentExpiry
    /\ flow' = [flow EXCEPT ![w] =
            [FlowAt("fail", p, row[p]) EXCEPT !.code = "PAYMENT_EXPIRED"]]
    /\ UNCHANGED <<env, db, chain, path, payout, advancing>>

\* engine.fail
FailCall(w, p) ==
    /\ At(w, "idle") /\ row[p].state \in CanFail /\ Upset
    /\ flow' = [flow EXCEPT ![w] =
            [FlowAt("fail", p, row[p]) EXCEPT !.code = "CLEARING_FAILED"]]
    /\ UNCHANGED <<now, db, chain, path, payout, advancing>>

\* engine.retry reads the transaction, and its events in the next step.
Retry(w, p) ==
    /\ At(w, "idle") /\ row[p].state = "FAILED" /\ Upset
    /\ Begin(w, p, "readEvents")
    /\ UNCHANGED <<now, db, chain, path, payout, advancing>>

\* LateDeposits.accept found a confirmed deposit; acceptLateFunds checks the code.
AcceptLateFunds(w, p) ==
    /\ At(w, "idle") /\ OnDeposit(p) /\ deposit[p] # "none"
    /\ row[p].state = "FAILED" /\ row[p].code = "PAYMENT_EXPIRED" /\ Upset
    /\ Begin(w, p, "postLate")
    /\ UNCHANGED <<now, db, chain, path, payout, advancing>>

\* listPendingDepositReturns
ReturnPending(w, p) ==
    /\ At(w, "idle") /\ w \in Executors /\ path[p] = "order"
    /\ row[p].state = "FAILED" /\ row[p].failedAt + ReturnGrace <= now
    /\ ~row[p].hash
    /\ "ASSET_RECEIVED" \in log[p] /\ "return.confirmed" \notin log[p]
    /\ Begin(w, p, "retRead")
    /\ UNCHANGED <<env, db, chain, path, payout, advancing>>

(***************************************************************************)
(* start                                                                   *)
(***************************************************************************)

\* One transaction per intent: the unique index refuses the second insert.
Insert(w) ==
    /\ At(w, "insert") /\ Row(w).state = "NONE"
    /\ LET new == [NoRow EXCEPT !.state = "CREATED"] IN
        Update(w, new, "CREATED") /\ Continue(w, new, "mark")
    /\ UNCHANGED <<env, returnRef, ledger, intent, chain, path, payout, advancing>>

MarkProcessing(w) ==
    /\ At(w, "mark") /\ intent[Job(w)] = "CONFIRMED"
    /\ intent' = [intent EXCEPT ![Job(w)] = "PROCESSING"]
    /\ Goto(w, "enter")
    /\ UNCHANGED <<env, row, log, returnRef, ledger, chain, path, payout, advancing>>

\* The intent expired or failed since the caller read it, or the insert lost.
StartRefused(w) ==
    /\ \/ At(w, "mark") /\ intent[Job(w)] # "CONFIRMED"
       \/ At(w, "insert") /\ Row(w).state # "NONE"
    /\ Stop(w)
    /\ UNCHANGED <<env, db, chain, path, payout>>

(***************************************************************************)
(* #advance and the steps of #run                                          *)
(***************************************************************************)
Mark(w) == <<HostOf[w], Job(w)>>

Enter(w) ==
    /\ At(w, "enter")
    /\ IF Mark(w) \in advancing /\ ~flow[w].sig
       THEN Stop(w)
       ELSE /\ advancing' = advancing \cup {Mark(w)}
            /\ flow' = [flow EXCEPT ![w].pc = "step", ![w].entered = TRUE]
    /\ UNCHANGED <<env, db, chain, path, payout>>

InState(w, s) == At(w, "step") /\ Cur(w).state = s

Expired(w) ==
    path[Job(w)] = "contract" /\ now > Cur(w).deadline + ExpiryGrace

Wait(w) ==
    /\ InState(w, "PAYMENT_PENDING") /\ ~flow[w].sig /\ ~Expired(w)
    /\ Stop(w)
    /\ UNCHANGED <<env, db, chain, path, payout>>

\* #assertContractNotExpired
QuoteExpired(w) ==
    /\ InState(w, "PAYMENT_PENDING") /\ ~flow[w].sig /\ Expired(w)
    /\ Throws(w)
    /\ UNCHANGED <<env, db, chain, path, payout>>

Receive(w) ==
    /\ InState(w, "PAYMENT_PENDING") /\ flow[w].sig
    /\ Post(w, "ASSET_RECEIVED")
    /\ Goto(w, "persist")
    /\ UNCHANGED <<env, row, log, returnRef, intent, chain, path, payout, advancing>>

(***************************************************************************)
(* ASSET_RECEIVED: the treasury executes a signed order                    *)
(***************************************************************************)
Executing(w) == InState(w, "ASSET_RECEIVED") /\ path[Job(w)] = "order"
Stale(w) == Cur(w).deadline <= now

\* A process without an executor leaves the payment to one that has it.
Park(w) ==
    /\ Executing(w) /\ w \notin Executors
    /\ Stop(w)
    /\ UNCHANGED <<env, db, chain, path, payout>>

Renew(w) ==
    /\ Executing(w) /\ w \in Executors /\ Stale(w)
    /\ LET new == [Cur(w) EXCEPT !.deadline = now + RenewTtl] IN
        /\ Update(w, new, "ASSET_RECEIVED")
        /\ flow' = [flow EXCEPT ![w].cur = Bump(new), ![w].pc = "sweep",
                                ![w].renewed = TRUE]
    /\ UNCHANGED <<env, returnRef, ledger, intent, chain, path, payout, advancing>>

SweepDeposit(p) ==
    IF deposit[p] = "held"
    THEN /\ deposit' = [deposit EXCEPT ![p] = "swept"]
         /\ pool' = pool + 1
    ELSE UNCHANGED <<deposit, pool>>

Sweep(w) ==
    /\ \/ At(w, "sweep")
       \/ Executing(w) /\ w \in Executors /\ ~Stale(w)
    /\ SweepDeposit(Job(w))
    /\ Goto(w, "submit")
    /\ UNCHANGED <<env, db, consumed, optx, sent, mined, path, payout, advancing>>

\* A consumed intent was settled by an earlier transaction, whose log stands in
\* for this one's.  Consumption after the check is the revert AlreadyConsumed.
Submit(w) ==
    /\ At(w, "submit")
    /\ IF consumed[Job(w)]
       THEN Goto(w, "book") /\ UNCHANGED chain
       ELSE /\ Broadcast([kind |-> "order", p |-> Job(w),
                          deadline |-> Cur(w).deadline, status |-> "pending"])
            /\ flow' = [flow EXCEPT ![w].pc = "ordering", ![w].tx = sent + 1]
            /\ UNCHANGED <<deposit, pool, consumed, mined>>
    /\ UNCHANGED <<env, db, path, payout, advancing>>

\* #submitWithRetries after a retryable failure: try again, or give up.
TryAgain(w) ==
    IF flow[w].tries + 1 < MaxAttempts
    THEN /\ flow' = [flow EXCEPT ![w].pc = "submit", ![w].tx = 0,
                                 ![w].tries = @ + 1]
         /\ UNCHANGED advancing
    ELSE Throws(w)

\* The submission failed before its broadcast was known.
SubmitFails(w) ==
    /\ At(w, "submit") /\ Upset
    /\ TryAgain(w)
    /\ UNCHANGED <<now, db, chain, path, payout>>

OrderMined(w) ==
    /\ At(w, "ordering")
    /\ LET s == optx[flow[w].tx].status IN
        \/ /\ s \in {"success", "AlreadyConsumed"}
           /\ flow' = [flow EXCEPT ![w].pc = "book", ![w].tx = 0]
           /\ UNCHANGED advancing
        \/ s = "ExpiredOrder" /\ Throws(w)
        \/ s = "reverted" /\ TryAgain(w)
    /\ UNCHANGED <<env, db, chain, path, payout>>

Book(w) ==
    /\ At(w, "book")
    /\ Post(w, "SWAPPED")
    /\ Goto(w, "clear")
    /\ UNCHANGED <<env, row, log, returnRef, intent, chain, path, payout, advancing>>

Clear(w) ==
    /\ At(w, "clear") \/ (InState(w, "ASSET_RECEIVED") /\ path[Job(w)] # "order")
    /\ Post(w, "CLEARING")
    /\ Goto(w, "persist")
    /\ UNCHANGED <<env, row, log, returnRef, intent, chain, path, payout, advancing>>

(***************************************************************************)
(* CLEARING to SUCCESS                                                     *)
(***************************************************************************)

\* The adapter's idempotency key makes a second settle the same payout.
Settle(w) ==
    /\ InState(w, "CLEARING") /\ ~SettlesOnChain(Job(w))
    /\ payout' = [payout EXCEPT ![Job(w)] = IF @ = "none" THEN "PENDING" ELSE @]
    /\ Goto(w, "persist")
    /\ UNCHANGED <<env, db, chain, path, advancing>>

Confirm_Pending(w) ==
    /\ InState(w, "SETTLING")
    /\ Post(w, "SETTLED")
    /\ Goto(w, "persist")
    /\ UNCHANGED <<env, row, log, returnRef, intent, chain, path, payout, advancing>>

Confirm(w) ==
    /\ InState(w, "SETTLING")
    /\ SettlesOnChain(Job(w)) \/ payout[Job(w)] = "SUCCEEDED"
    /\ Post(w, "SETTLED")
    /\ Goto(w, "persist")
    /\ UNCHANGED <<env, row, log, returnRef, intent, chain, path, payout, advancing>>

\* #confirmSettlement when the payout is pending, and when it failed.
Unconfirmed(w) ==
    /\ InState(w, "SETTLING") /\ ~SettlesOnChain(Job(w))
    /\ \/ payout[Job(w)] = "PENDING" /\ Stop(w)
       \/ payout[Job(w)] = "FAILED" /\ Throws(w)
    /\ UNCHANGED <<env, db, chain, path, payout>>

Complete_Swallowed(w) ==
    /\ InState(w, "SETTLED")
    /\ Goto(w, "persist")
    /\ UNCHANGED <<env, db, chain, path, payout, advancing>>

Complete(w) ==
    /\ InState(w, "SETTLED") /\ intent[Job(w)] \in {"PROCESSING", "COMPLETED"}
    /\ intent' = [intent EXCEPT ![Job(w)] = "COMPLETED"]
    /\ Goto(w, "persist")
    /\ UNCHANGED <<env, row, log, returnRef, ledger, chain, path, payout, advancing>>

\* markCompleted from any other status is an illegal transition.
CompleteRefused(w) ==
    /\ InState(w, "SETTLED") /\ intent[Job(w)] \notin {"PROCESSING", "COMPLETED"}
    /\ Stop(w)
    /\ UNCHANGED <<env, db, chain, path, payout>>

\* The row a transition writes: the lock sets the order's deadline, and the
\* hash is the payer's (contract path) or the executor's (order path).
Moved(w) ==
    LET p == Job(w)  to == NextState(Cur(w).state) IN
    [Cur(w) EXCEPT
        !.state = to,
        !.deadline = IF to # "PRICE_LOCKED" THEN @
                     ELSE IF path[p] = "contract" THEN now + QuoteTtl
                     ELSE IntentExpiry + ExpiryGrace,
        !.hash = @ \/ (path[p] = "contract" /\ to = "ASSET_RECEIVED")
                   \/ (path[p] = "order" /\ to = "CLEARING")]

\* The steps that only move the row: parsing, the lock, asking for the payment,
\* and on-chain settlement, which happened with the execution.
Quiet(w) ==
    /\ At(w, "step")
    /\ \/ Cur(w).state \in {"CREATED", "QR_PARSED", "PRICE_LOCKED"}
       \/ Cur(w).state = "CLEARING" /\ SettlesOnChain(Job(w))

Persist(w) ==
    /\ Quiet(w) \/ (At(w, "persist") /\ Cur(w).state # "SETTLED")
    /\ Update(w, Moved(w), Moved(w).state)
    /\ flow' = [flow EXCEPT ![w] =
            [FlowAt("step", Job(w), Bump(Moved(w))) EXCEPT !.entered = TRUE]]
    /\ UNCHANGED <<env, returnRef, ledger, intent, chain, path, payout, advancing>>

Finish(w) ==
    /\ At(w, "persist") /\ Cur(w).state = "SETTLED"
    /\ Update(w, Moved(w), "SUCCESS")
    /\ Stop(w)
    /\ UNCHANGED <<env, returnRef, ledger, intent, chain, path, payout>>

(***************************************************************************)
(* Failure, and the two ways back                                          *)
(***************************************************************************)
Fail(w) ==
    /\ At(w, "fail")
    /\ LET new == [Cur(w) EXCEPT !.state = "FAILED", !.code = flow[w].code,
                                 !.failedAt = now] IN
        Update(w, new, "FAILED") /\ Continue(w, new, "failIntent")
    /\ UNCHANGED <<env, returnRef, ledger, intent, chain, path, payout, advancing>>

FailIntent(w) ==
    /\ At(w, "failIntent")
    /\ intent' = IF intent[Job(w)] \in {"CONFIRMED", "PROCESSING"}
                 THEN [intent EXCEPT ![Job(w)] = "FAILED"] ELSE intent
    /\ Stop(w)
    /\ UNCHANGED <<env, row, log, returnRef, ledger, chain, path, payout>>

ReadEvents_ReturnIgnored(w) ==
    /\ At(w, "readEvents") /\ "ASSET_RECEIVED" \in log[Job(w)]
    /\ Goto(w, "reopen")
    /\ UNCHANGED <<env, db, chain, path, payout, advancing>>
ReadEvents_Unfunded(w) ==
    /\ At(w, "readEvents") /\ "return.started" \notin log[Job(w)]
    /\ Goto(w, "reopen")
    /\ UNCHANGED <<env, db, chain, path, payout, advancing>>

\* retry: only funds that arrived and are not on their way back.
ReadEvents(w) ==
    /\ At(w, "readEvents")
    /\ IF "return.started" \in log[Job(w)] \/ "ASSET_RECEIVED" \notin log[Job(w)]
       THEN Stop(w) ELSE Goto(w, "reopen") /\ UNCHANGED advancing
    /\ UNCHANGED <<env, db, chain, path, payout>>

PostLate_Unbooked(w) ==
    /\ At(w, "postLate")
    /\ Goto(w, "reopen")
    /\ UNCHANGED <<env, db, chain, path, payout, advancing>>

PostLate(w) ==
    /\ At(w, "postLate")
    /\ Post(w, "ASSET_RECEIVED")
    /\ Goto(w, "reopen")
    /\ UNCHANGED <<env, row, log, returnRef, intent, chain, path, payout, advancing>>

Reopen(w) ==
    /\ At(w, "reopen")
    /\ LET new == [Cur(w) EXCEPT !.state = "ASSET_RECEIVED", !.code = "none",
                                 !.failedAt = 0] IN
        Update(w, new, "ASSET_RECEIVED") /\ Continue(w, new, "reopenIntent")
    /\ UNCHANGED <<env, returnRef, ledger, intent, chain, path, payout, advancing>>

ReopenIntent(w) ==
    /\ At(w, "reopenIntent")
    /\ intent' = IF intent[Job(w)] = "FAILED"
                 THEN [intent EXCEPT ![Job(w)] = "PROCESSING"] ELSE intent
    /\ Goto(w, "enter")
    /\ UNCHANGED <<env, row, log, returnRef, ledger, chain, path, payout, advancing>>

(***************************************************************************)
(* The return of a failed deposit                                          *)
(***************************************************************************)

ReturnRead_Restarts(w) ==
    /\ At(w, "retRead") /\ returnRef[Job(w)] = 0
    /\ Goto(w, "retCheck")
    /\ UNCHANGED <<env, db, chain, path, payout, advancing>>

\* A return that was broadcast is only read back; one that was started and not
\* broadcast is left for a person.
ReturnRead(w) ==
    /\ At(w, "retRead")
    /\ IF returnRef[Job(w)] # 0
       THEN /\ flow' = [flow EXCEPT ![w].pc = "retReceipt", ![w].tx = returnRef[Job(w)]]
            /\ UNCHANGED advancing
       ELSE IF "return.started" \in log[Job(w)]
       THEN Stop(w)
       ELSE Goto(w, "retCheck") /\ UNCHANGED advancing
    /\ UNCHANGED <<env, db, chain, path, payout>>

ReturnCheck_Skipped(w) ==
    /\ At(w, "retCheck")
    /\ Goto(w, "retSweep")
    /\ UNCHANGED <<env, db, chain, path, payout, advancing>>

\* prepare: the router must not have consumed the intent ...
ReturnCheck(w) ==
    /\ At(w, "retCheck")
    /\ IF consumed[Job(w)] THEN Stop(w)
       ELSE Goto(w, "retSweep") /\ UNCHANGED advancing
    /\ UNCHANGED <<env, db, chain, path, payout>>

\* ... and the operator must hold the amount once the deposit is swept.
ReturnSweep(w) ==
    /\ At(w, "retSweep")
    /\ SweepDeposit(Job(w))
    /\ IF pool' = 0 THEN Stop(w)
       ELSE Goto(w, "retStart") /\ UNCHANGED advancing
    /\ UNCHANGED <<env, db, consumed, optx, sent, mined, path, payout>>

ReturnStart(w) ==
    /\ At(w, "retStart")
    /\ Update(w, Cur(w), "return.started")
    /\ Continue(w, Cur(w), "retSend")
    /\ UNCHANGED <<env, returnRef, ledger, intent, chain, path, payout, advancing>>

ReturnSend(w) ==
    /\ At(w, "retSend")
    /\ Broadcast([kind |-> "return", p |-> Job(w), deadline |-> 0,
                  status |-> "pending"])
    /\ flow' = [flow EXCEPT ![w].pc = "retRecord", ![w].tx = sent + 1]
    /\ UNCHANGED <<env, db, deposit, pool, consumed, mined, path, payout, advancing>>

ReturnRecord(w) ==
    /\ At(w, "retRecord")
    /\ Update(w, Cur(w), "return.broadcast")
    /\ returnRef' = [returnRef EXCEPT ![Job(w)] = flow[w].tx]
    /\ Continue(w, Cur(w), "retReceipt")
    /\ UNCHANGED <<env, ledger, intent, chain, path, payout, advancing>>

ReturnReceipt_Unread(w) ==
    /\ At(w, "retReceipt")
    /\ Post(w, "RETURNED")
    /\ Goto(w, "retConfirm")
    /\ UNCHANGED <<env, row, log, returnRef, intent, chain, path, payout, advancing>>

\* A receipt that is pending or reverted ends the pass.
ReturnReceipt(w) ==
    /\ At(w, "retReceipt")
    /\ IF optx[flow[w].tx].status = "success"
       THEN /\ Post(w, "RETURNED")
            /\ Goto(w, "retConfirm")
            /\ UNCHANGED advancing
       ELSE Stop(w) /\ UNCHANGED ledger
    /\ UNCHANGED <<env, row, log, returnRef, intent, chain, path, payout>>

ReturnConfirm(w) ==
    /\ At(w, "retConfirm")
    /\ Update(w, Cur(w), "return.confirmed")
    /\ Stop(w)
    /\ UNCHANGED <<env, returnRef, ledger, intent, chain, path, payout>>

(***************************************************************************)
(* What goes wrong                                                         *)
(***************************************************************************)

\* The row moved since this flow read it: ConcurrencyError ends the flow.
Conflict(w) ==
    /\ \/ flow[w].pc \in {"persist", "fail", "reopen",
                          "retStart", "retRecord", "retConfirm"}
       \/ Quiet(w)
       \/ Executing(w) /\ w \in Executors /\ Stale(w)
    /\ ~Current(w)
    /\ Stop(w)
    /\ UNCHANGED <<env, db, chain, path, payout>>

\* A call throws and the flow ends, unless it is inside a step of #run and the
\* error is not retryable: that fails the payment.  A receipt-wait timeout is one.
Throw(w) ==
    /\ ~At(w, "idle") /\ Upset
    /\ \/ Stop(w)
       \/ /\ flow[w].pc \in {"step", "sweep", "submit", "ordering", "book", "clear",
                             "persist"}
          /\ Throws(w)
    /\ UNCHANGED <<now, db, chain, path, payout>>

\* A process dies: its flows and its marks are gone, what is stored stays.
Crash(h) ==
    /\ Upset
    /\ \E w \in Workers : HostOf[w] = h /\ ~At(w, "idle")
    /\ flow' = [w \in Workers |-> IF HostOf[w] = h THEN Idle ELSE flow[w]]
    /\ advancing' = {m \in advancing : m[1] # h}
    /\ UNCHANGED <<now, db, chain, path, payout>>

-----------------------------------------------------------------------------
World(p) ==
    \/ ConfirmIntent(p) \/ ExpireIntent(p)
    \/ PayerDeposits(p) \/ PayerPays(p) \/ AdapterDecides(p)

PickUp(w, p) ==
    \/ Start(w, p) \/ Load(w, p) \/ Signal(w, p) \/ SweepExpired(w, p)
    \/ FailCall(w, p) \/ Retry(w, p) \/ AcceptLateFunds(w, p)
    \/ ReturnPending(w, p)

\* The steps a flow takes of its own accord.
Run(w) ==
    \/ Insert(w) \/ MarkProcessing(w) \/ StartRefused(w) \/ Enter(w)
    \/ Wait(w) \/ QuoteExpired(w) \/ Receive(w)
    \/ Park(w) \/ Renew(w) \/ Sweep(w) \/ Submit(w) \/ OrderMined(w)
    \/ Book(w) \/ Clear(w) \/ Settle(w) \/ Confirm(w) \/ Unconfirmed(w)
    \/ Complete(w) \/ CompleteRefused(w) \/ Persist(w) \/ Finish(w)
    \/ Fail(w) \/ FailIntent(w)
    \/ ReadEvents(w) \/ PostLate(w) \/ Reopen(w) \/ ReopenIntent(w)
    \/ ReturnRead(w) \/ ReturnCheck(w) \/ ReturnSweep(w) \/ ReturnStart(w)
    \/ ReturnSend(w) \/ ReturnRecord(w) \/ ReturnReceipt(w) \/ ReturnConfirm(w)
    \/ Conflict(w)

Next ==
    \/ Tick
    \/ Mine
    \/ \E p \in Payments : World(p)
    \/ \E w \in Workers, p \in Payments : PickUp(w, p)
    \/ \E w \in Workers : Run(w) \/ SubmitFails(w) \/ Throw(w)
    \/ \E h \in Hosts : Crash(h)

Spec == Init /\ [][Next]_vars

\* A SETTLED payment whose intent cannot be completed throws on every pass.
Wedged(p) == row[p].state = "SETTLED" /\ intent[p] \notin {"PROCESSING", "COMPLETED"}

\* A pass is abandoned at a payment that throws, and takes up one page: it need
\* not come to p while another payment is wedged or the others fill the page.
HeldUp(p) ==
    LET others == {q \in Payments \ {p} : row[q].state \in Resumable} IN
    (\E q \in others : Wedged(q)) \/ Cardinality(others) >= ResumePage

\* Scheduling: a flow that can step does; the clock, the chain and the adapter
\* go on; the chain worker's resumeStuck and the watcher's callbacks run on
\* timers, so they come to a payment that is not held up again and again.
Fairness ==
    /\ WF_vars(Tick) /\ WF_vars(Mine)
    /\ \A p \in Payments : WF_vars(AdapterDecides(p))
    /\ \A w \in Workers : WF_vars(Run(w))
    /\ \A w \in Executors, p \in Payments :
        /\ SF_vars(Load(w, p) /\ ~HeldUp(p))
        /\ SF_vars(Signal(w, p) /\ ~HeldUp(p))

LiveSpec == Spec /\ Fairness

(***************************************************************************)
(* Types                                                                   *)
(***************************************************************************)
Events == States \cup {"return.started", "return.broadcast", "return.confirmed"}
Postings == {"ASSET_RECEIVED", "SWAPPED", "CLEARING", "SETTLED", "RETURNED"}
IntentStatus ==
    {"CREATED", "CONFIRMED", "PROCESSING", "COMPLETED", "FAILED", "EXPIRED"}
TxStatus ==
    {"none", "pending", "success", "reverted", "AlreadyConsumed", "ExpiredOrder"}
Labels ==
    {"idle", "insert", "mark", "enter", "step", "sweep", "submit", "ordering",
     "book", "clear", "persist", "fail", "failIntent", "readEvents", "postLate",
     "reopen", "reopenIntent", "retRead", "retCheck", "retSweep", "retStart",
     "retSend", "retRecord", "retReceipt", "retConfirm"}

RowType == [state : States, version : Nat, code : Codes, failedAt : Nat,
            deadline : Nat, hash : BOOLEAN]
TxType == [kind : {"none", "order", "return"}, p : Payments \cup {NoPayment},
           deadline : Nat, status : TxStatus]
FlowType == [pc : Labels, job : Payments \cup {NoPayment}, cur : RowType,
             code : Codes, tries : Nat, tx : 0..MaxTx, sig : BOOLEAN,
             renewed : BOOLEAN, entered : BOOLEAN]

TypeOK ==
    /\ now \in Nat /\ upsets \in Nat
    /\ path \in [Payments -> Paths]
    /\ row \in [Payments -> RowType]
    /\ log \in [Payments -> SUBSET Events]
    /\ returnRef \in [Payments -> 0..MaxTx]
    /\ ledger \in [Payments -> SUBSET Postings]
    /\ intent \in [Payments -> IntentStatus]
    /\ deposit \in [Payments -> {"none", "held", "swept"}]
    /\ pool \in Nat
    /\ consumed \in [Payments -> BOOLEAN]
    /\ optx \in [Tx -> TxType]
    /\ sent \in 0..MaxTx /\ mined \in 0..sent
    /\ payout \in [Payments -> {"none", "PENDING", "SUCCEEDED", "FAILED"}]
    /\ flow \in [Workers -> FlowType]
    /\ advancing \subseteq Hosts \X Payments
=============================================================================
