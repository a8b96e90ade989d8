---------------------------- MODULE RefundService ----------------------------
(***************************************************************************)
(* Refunds of one settled payment: RefundService.issue and resumePending   *)
(* over the refunds table, the settlement rail and the ledger.             *)
(*                                                                         *)
(* A flow is a request handler (issue) or a recovery pass (resumePending). *)
(* It is cut at every statement it sends to the database and at the rail   *)
(* call.  One payment is enough: the lock, the balance, the trigger and    *)
(* the rail's record are per payment.  The payment is SUCCESS on the       *)
(* adapter path, so its row and its net never change again.                *)
(***************************************************************************)
EXTENDS Naturals, FiniteSets, Functions

CONSTANTS
    Requests,    \* flows of issue
    Passes,      \* flows of resumePending
    Processes,   \* each with a connection pool of its own
    ProcessOf,   \* the process of each flow
    Keys,        \* idempotency keys
    NoKey, NoFlow,
    Net,         \* the payment's net amount
    PoolSize,    \* connections of one process (createDatabase)
    OlderThan,   \* resumePending's olderThanMs
    MaxRefunds,  \* bound: calls of issue, so also rows
    MaxTime,     \* bound: the clock
    MaxUpsets    \* bound: crashes and failed statements

Flows == Requests \cup Passes
Ids == 1 .. MaxRefunds

ASSUME FlowsAssumption ==
    /\ Requests \cap Passes = {}
    /\ NoFlow \notin Flows /\ NoKey \notin Keys
    /\ ProcessOf \in [Flows -> Processes]

ASSUME BoundsAssumption ==
    /\ Net \in Nat \ {0} /\ PoolSize \in Nat \ {0} /\ OlderThan \in Nat
    /\ MaxRefunds \in Nat /\ MaxTime \in Nat /\ MaxUpsets \in Nat

VARIABLES
    time,
    refund,   \* refunds table: state, amount, key, updatedAt of each id
    settled,  \* the rail's record of the payment: SUCCEEDED or REFUNDED
    sent,     \* the ids the rail has refunded
    posted,   \* ids whose refund posting is in the ledger
    lock,     \* the flow that holds the payment's advisory lock
    flow,     \* where each flow stands
    issued,   \* calls of issue so far (bound)
    upsets    \* crashes and failed statements so far (bound)

vars == <<time, refund, settled, sent, posted, lock, flow, issued, upsets>>
world == <<time, refund, settled, sent, posted, lock, issued, upsets>>

NoRefund == [state |-> "NONE", amount |-> 0, key |-> NoKey, updatedAt |-> 0]

\* Where a flow stands: the request's key, the amount and id of the refund it
\* is about, the rest of a pass's list.
Job(pc, k, a, i, ids) == [pc |-> pc, key |-> k, amount |-> a, id |-> i, todo |-> ids]
NoJob == Job("idle", NoKey, 0, 0, {})

\* An omitted amount refunds everything that remains.
Everything == 0

Exists(i) == refund[i].state # "NONE"
Used(k) == k # NoKey /\ \E i \in Ids : Exists(i) /\ refund[i].key = k

\* summariseRefunds: what refunds take of the net; FAILED ones do not count.
\* A sum of amounts, written as the number of units they are made of.
Units(S) ==
    {x \in S \X (1 .. Net) : /\ refund[x[1]].state \in {"PENDING", "SUCCEEDED"}
                            /\ x[2] <= refund[x[1]].amount}
Taken(S) == Cardinality(Units(S))

\* Mutant: the balance is enforced when a row is inserted and never again.
Balanced_OnInsert(i, amount) == i # 0 \/ Taken(Ids) + amount <= Net

\* The trigger of migration 0055, on insert and on every update of the state.
Balanced(i, amount) == Taken(Ids \ {i}) + amount <= Net

(***************************************************************************)
(* Flows                                                                   *)
(***************************************************************************)
Executing == {"calling", "refunding", "looking", "posting", "marking", "failing"}

At(w, pc) == flow[w].pc = pc
Goes(w, pc) == flow' = [flow EXCEPT ![w].pc = pc]
Becomes(w, f) == flow' = [flow EXCEPT ![w] = f]

\* serialize keeps one connection open while its callback takes another one.
InTransaction(w) == flow[w].pc \in {"locking", "listing", "inserting"}
CanQuery(w) ==
    Cardinality({v \in Flows : ProcessOf[v] = ProcessOf[w] /\ InTransaction(v)})
        < PoolSize

\* Mutant: the advisory lock belongs to the session and outlives the transaction.
Unlock_Never(w) == UNCHANGED lock

\* The transaction of serialize ends, and its lock with it.
Unlock(w) == lock' = IF lock = w THEN NoFlow ELSE lock

\* Executing the oldest refund of a list, as the list has it.
Takes(w, ids) ==
    \E i \in ids :
        /\ \A j \in ids : i <= j
        /\ Becomes(w, Job("calling", NoKey, refund[i].amount, i, ids \ {i}))

\* A refund is done with: a request is answered, a pass goes on to its next.
Continues(w) ==
    \/ flow[w].todo = {} /\ Becomes(w, NoJob)
    \/ Takes(w, flow[w].todo)

(***************************************************************************)
(* issue                                                                   *)
(***************************************************************************)

\* A key that is on record is answered with its refund, and nothing changes.
Issue(w) ==
    /\ At(w, "idle") /\ issued < MaxRefunds /\ CanQuery(w)
    /\ \E k \in Keys \cup {NoKey}, ask \in Everything .. Net :
          /\ ~Used(k)
          /\ Becomes(w, Job("beginning", k, ask, 0, {}))
    /\ issued' = issued + 1
    /\ UNCHANGED <<time, refund, settled, sent, posted, lock, upsets>>

Begin(w) ==
    /\ At(w, "beginning") /\ CanQuery(w)
    /\ Goes(w, "locking") /\ UNCHANGED world

Lock(w) ==
    /\ At(w, "locking") /\ lock = NoFlow
    /\ lock' = w /\ Goes(w, "listing")
    /\ UNCHANGED <<time, refund, settled, sent, posted, issued, upsets>>

\* The balance and assertRefundable, on what other connections have committed.
List(w) ==
    /\ At(w, "listing") /\ CanQuery(w)
    /\ LET amount == IF flow[w].amount = Everything THEN Net - Taken(Ids)
                     ELSE flow[w].amount
       IN  IF amount \in 1 .. Net /\ Balanced(0, amount)
           THEN /\ Becomes(w, Job("inserting", flow[w].key, amount, 0, {}))
                /\ UNCHANGED lock
           ELSE Becomes(w, NoJob) /\ Unlock(w)
    /\ UNCHANGED <<time, refund, settled, sent, posted, issued, upsets>>

\* Mutant: no unique index, only the look-up before the lock.
Refused_NoIndex(w) == ~Balanced(0, flow[w].amount)

\* The unique index on the key and the trigger may refuse the row.
Refused(w) == Used(flow[w].key) \/ ~Balanced(0, flow[w].amount)

\* Ids are made in the order of creation.
IsNew(i) == ~Exists(i) /\ \A j \in Ids : j < i => Exists(j)

Insert(w) ==
    /\ At(w, "inserting") /\ CanQuery(w) /\ Unlock(w)
    /\ \/ Refused(w) /\ Becomes(w, NoJob) /\ UNCHANGED refund
       \/ ~Refused(w) /\ \E i \in Ids :
             /\ IsNew(i)
             /\ refund' = [refund EXCEPT ![i] = [state |-> "PENDING",
                    amount |-> flow[w].amount, key |-> flow[w].key, updatedAt |-> time]]
             /\ Becomes(w, Job("calling", flow[w].key, flow[w].amount, i, {}))
    /\ UNCHANGED <<time, settled, sent, posted, issued, upsets>>

(***************************************************************************)
(* resumePending                                                           *)
(***************************************************************************)
\* Mutant: the cutoff the wrong way round.
Due_Young ==
    {i \in Ids : refund[i].state = "PENDING" /\ refund[i].updatedAt + OlderThan > time}

Due == {i \in Ids : refund[i].state = "PENDING" /\ refund[i].updatedAt + OlderThan < time}

\* The pass lists once and works from that list, however long it takes.
ResumePending(w) ==
    /\ At(w, "idle") /\ CanQuery(w)
    /\ Takes(w, Due)
    /\ UNCHANGED world

(***************************************************************************)
(* #execute                                                                *)
(***************************************************************************)

\* Mutant: the rail's refusal is not an error.
RailReads_Swallowed(w) ==
    /\ At(w, "calling") /\ CanQuery(w)
    /\ Goes(w, IF settled = "SUCCEEDED" THEN "refunding" ELSE "looking")
    /\ UNCHANGED world

\* The adapter reads its record of the settlement and refuses one that is
\* REFUNDED, whichever refund it was refunded for, and whatever its amount.
RailReads(w) ==
    /\ At(w, "calling") /\ CanQuery(w)
    /\ Goes(w, IF settled = "SUCCEEDED" THEN "refunding" ELSE "failing")
    /\ UNCHANGED world

RailRefunds(w) ==
    /\ At(w, "refunding") /\ CanQuery(w)
    /\ settled' = "REFUNDED" /\ sent' = sent \cup {flow[w].id}
    /\ Goes(w, "looking")
    /\ UNCHANGED <<time, refund, posted, lock, issued, upsets>>

PostFinds(w) ==
    /\ At(w, "looking") /\ CanQuery(w)
    /\ Goes(w, IF flow[w].id \in posted THEN "marking" ELSE "posting")
    /\ UNCHANGED world

PostInserts(w) ==
    /\ At(w, "posting") /\ CanQuery(w)
    /\ posted' = posted \cup {flow[w].id}
    /\ Goes(w, IF flow[w].id \in posted THEN "failing" ELSE "marking")
    /\ UNCHANGED <<time, refund, settled, sent, lock, issued, upsets>>

Writes(w, state) ==
    refund' = [refund EXCEPT ![flow[w].id].state = state, ![flow[w].id].updatedAt = time]

\* The row is written whatever it says by now: update takes no version.
MarkSucceeded(w) ==
    /\ At(w, "marking") /\ CanQuery(w)
    /\ IF Balanced(flow[w].id, flow[w].amount)
       THEN Writes(w, "SUCCEEDED") /\ Continues(w)
       ELSE Goes(w, "failing") /\ UNCHANGED refund
    /\ UNCHANGED <<time, settled, sent, posted, lock, issued, upsets>>

MarkFailed(w) ==
    /\ At(w, "failing") /\ CanQuery(w)
    /\ Writes(w, "FAILED") /\ Continues(w)
    /\ UNCHANGED <<time, settled, sent, posted, lock, issued, upsets>>

(***************************************************************************)
(* The environment                                                         *)
(***************************************************************************)

\* A statement fails: #execute's catch marks the refund failed, anything else
\* ends the request or the whole pass.
Throw(w) ==
    /\ ~At(w, "idle") /\ upsets < MaxUpsets
    /\ IF flow[w].pc \in Executing \ {"failing"}
       THEN Goes(w, "failing") /\ UNCHANGED lock
       ELSE Becomes(w, NoJob) /\ Unlock(w)
    /\ upsets' = upsets + 1
    /\ UNCHANGED <<time, refund, settled, sent, posted, issued>>

\* A process dies; the database ends its transactions.
Crash(p) ==
    /\ upsets < MaxUpsets
    /\ \E w \in Flows : ProcessOf[w] = p /\ ~At(w, "idle")
    /\ flow' = [w \in Flows |-> IF ProcessOf[w] = p THEN NoJob ELSE flow[w]]
    /\ lock' = IF lock # NoFlow /\ ProcessOf[lock] = p THEN NoFlow ELSE lock
    /\ upsets' = upsets + 1
    /\ UNCHANGED <<time, refund, settled, sent, posted, issued>>

Tick ==
    /\ time < MaxTime
    /\ time' = time + 1
    /\ UNCHANGED <<refund, settled, sent, posted, lock, flow, issued, upsets>>

(***************************************************************************)
(* The specification                                                       *)
(***************************************************************************)
Init ==
    /\ time = 0
    /\ refund = [i \in Ids |-> NoRefund]
    /\ settled = "SUCCEEDED" /\ sent = {}
    /\ posted = {}
    /\ lock = NoFlow
    /\ flow = [w \in Flows |-> NoJob]
    /\ issued = 0 /\ upsets = 0

Execute(w) ==
    \/ RailReads(w) \/ RailRefunds(w)
    \/ PostFinds(w) \/ PostInserts(w) \/ MarkSucceeded(w) \/ MarkFailed(w)

Reserve(w) == Begin(w) \/ Lock(w) \/ List(w) \/ Insert(w)

Next ==
    \/ \E w \in Requests : Issue(w) \/ Reserve(w)
    \/ \E w \in Passes : ResumePending(w)
    \/ \E w \in Flows : Execute(w) \/ Throw(w)
    \/ \E p \in Processes : Crash(p)
    \/ Tick

Spec == Init /\ [][Next]_vars

\* A flow that can step does; the pass runs every five minutes while anything
\* is due.  Nothing is assumed of the callers, of errors or of crashes.
Fairness ==
    /\ WF_vars(Tick)
    /\ \A w \in Requests : WF_vars(Reserve(w))
    /\ \A w \in Passes : WF_vars(ResumePending(w))
    /\ \A w \in Flows : WF_vars(Execute(w))

LiveSpec == Spec /\ Fairness

(***************************************************************************)
(* Properties                                                              *)
(***************************************************************************)
Labels ==
    {"idle", "beginning", "locking", "listing", "inserting", "calling", "refunding",
     "looking", "posting", "marking", "failing"}

RefundTypeOK ==
    /\ time \in 0 .. MaxTime
    /\ refund \in [Ids -> [state : {"NONE", "PENDING", "SUCCEEDED", "FAILED"},
                           amount : 0 .. Net, key : Keys \cup {NoKey},
                           updatedAt : 0 .. MaxTime]]
    /\ settled \in {"SUCCEEDED", "REFUNDED"} /\ sent \subseteq Ids
    /\ posted \subseteq Ids
    /\ lock \in Requests \cup {NoFlow}
    /\ flow \in [Flows -> [pc : Labels, key : Keys \cup {NoKey}, amount : 0 .. Net,
                           id : 0 .. MaxRefunds, todo : SUBSET Ids]]
    /\ issued \in 0 .. MaxRefunds /\ upsets \in 0 .. MaxUpsets

\* Migration 0055: what is not failed never exceeds the net, although an
\* executor may turn a failed refund, whose balance was taken again, into a
\* succeeded one.
ReservedAtMostNet ==
    /\ RefundTypeOK
    /\ Taken(Ids) <= Net

\* refund-service.ts issue: a request retried while its first attempt still
\* runs is refused or answered with the first refund, never a second one.
OneRefundPerKey ==
    \A i, j \in Ids :
        Exists(i) /\ Exists(j) /\ refund[i].key \in Keys /\ refund[j].key = refund[i].key
            => i = j

\* refund-service.ts: the row is written before the rail is called, and the
\* posting after it, so the ledger never records value leaving that never left,
\* and reconcile never finds a succeeded refund without its posting.
BooksFollowTheRail ==
    \A i \in Ids :
        /\ i \in sent => Exists(i)
        /\ i \in posted => i \in sent
        /\ refund[i].state = "SUCCEEDED" => i \in posted

\* What a flow that executes a refund knows, whatever the others do meanwhile.
Knows(w) ==
    /\ flow[w].pc \in Executing => flow[w].id \in Ids /\ Exists(flow[w].id)
    /\ \A i \in flow[w].todo : Exists(i)
    /\ flow[w].pc \in {"looking", "posting", "marking"} => flow[w].id \in sent
    /\ flow[w].pc = "marking" => flow[w].id \in posted

\* The inductive invariant behind the three above.
RefundInv ==
    /\ RefundTypeOK /\ OneRefundPerKey /\ BooksFollowTheRail
    /\ \A w \in Flows : Knows(w)

\* ... and the balance: an executor asks the trigger for what its row reserves.
BalanceInv ==
    /\ RefundInv /\ ReservedAtMostNet
    /\ \A w \in Flows : flow[w].pc \in Executing => flow[w].amount = refund[flow[w].id].amount

\* resumePending: a refund does not stay pending, whatever crashed; the balance
\* it reserves is used or released.
PendingFinishes ==
    \A i \in Ids :
        refund[i].state = "PENDING" /\ refund[i].updatedAt + OlderThan < MaxTime
            ~> refund[i].state # "PENDING"

\* Every connection of the process is held by a transaction of serialize, and
\* the one that has the lock needs a further connection to go on.
Exhausted(p) ==
    /\ lock # NoFlow /\ ProcessOf[lock] = p
    /\ Cardinality({v \in Flows : ProcessOf[v] = p /\ InTransaction(v)}) = PoolSize

\* db refund.ts serialize: a request for a refund ends, "the check and the
\* insert it guards commit before the next caller's check can start", unless
\* the requests of its process have taken every connection and wait for each
\* other for good.
RequestsEnd ==
    \A w \in Requests :
        ~At(w, "idle") ~> (At(w, "idle") \/ []Exhausted(ProcessOf[w]))

\* refund.ts:15: "Refunds accumulate. Several partials may exist against one
\* payment": a refund that was reserved is made when nothing goes wrong.
ReservedIsRefunded ==
    \A i \in Ids : refund[i].state = "PENDING" ~> refund[i].state = "SUCCEEDED"

\* docs/runbooks.md:46: "the failure to look for is a refund to the wrong place
\* or a stuck one, not an over-refund".
NotOverRefunded ==
    SumFunctionOnSet([i \in Ids |-> refund[i].amount], posted) <= Net
=============================================================================
