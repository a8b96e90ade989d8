-------------------------- MODULE WebhookDispatcher --------------------------
(***************************************************************************)
(* Webhooks (packages/core/notifications): the outbox read over the        *)
(* clearing event log, the cursor, the delivery rows and the dispatcher's  *)
(* tick, with several processes dispatching at once, endpoints that are    *)
(* switched off, receivers that refuse, crashes and operators' replays.    *)
(*                                                                         *)
(* An event's id is made before the transaction that stores it commits     *)
(* (transaction.ts), so events appear in the order of commits and are read *)
(* in the order of ids.  One merchant; its payments do not matter here.    *)
(***************************************************************************)
EXTENDS Naturals, FiniteSets

CONSTANTS
    Writers,      \* flows that store clearing events
    Dispatchers,  \* processes that run tick; each skips a beat while one runs
    Endpoints,    \* the merchant's webhook endpoints
    Retries,      \* entries of backoffSeconds
    BatchSize,    \* events read, and due deliveries attempted, per tick
    MaxEvents,    \* bound: events
    MaxUpsets     \* bound: crashes, replays and endpoints switched

ASSUME WebhookAssumption ==
    /\ {Retries, MaxEvents, MaxUpsets} \subseteq Nat
    /\ BatchSize \in Nat \ {0}

VARIABLES
    made,       \* event ids made so far
    writing,    \* the id a writer's open transaction stores, or 0
    log,        \* clearing_events: the ids committed
    late,       \* those committed after a greater id, for the properties
    cursor,     \* webhook_cursors: the last id processed
    active,     \* the endpoints switched on
    steady,     \* the endpoints that were on all the time, for the properties
    delivery,   \* webhook_deliveries by event and endpoint
    ahead,      \* nextAttemptAt: the due deliveries whose own is earlier
    flow,       \* where each dispatcher stands
    upsets      \* crashes, replays and switches so far (bound)

vars == <<made, writing, log, late, cursor, active, steady, delivery, ahead, flow, upsets>>

Events == 1 .. MaxEvents
Keys == Events \X Endpoints

Row(status, attempts, due) == [status |-> status, attempts |-> attempts, due |-> due]
NoRow == Row("NONE", 0, FALSE)
Rows == [status : {"NONE", "PENDING", "DELIVERED", "DEAD"},
         attempts : 0 .. Retries + 1, due : BOOLEAN]

\* page: events still to queue.  last: the cursor to write.  due: the rows of
\* the due deliveries still to attempt, as they were listed, the one in hand
\* (key) included.
Job(pc, page, last, due, key) ==
    [pc |-> pc, page |-> page, last |-> last, due |-> due, key |-> key]
NoKey == <<0, 0>>
NoDue == [k \in {} |-> NoRow]
NoJob == Job("idle", {}, 0, NoDue, NoKey)

Due == {k \in Keys : delivery[k].status = "PENDING" /\ delivery[k].due}

\* The rows ks get a nextAttemptAt that passes now, after all that passed
\* before, or none that passed yet.
Falls(ks) == ahead' = [k \in Keys |-> IF k \in ks THEN Due \ ks ELSE ahead[k] \ ks]
Leaves(k) == ahead' = [x \in Keys |-> IF x = k THEN {} ELSE ahead[x] \ {k}]

At(d, pc) == flow[d].pc = pc
Becomes(d, f) == flow' = [flow EXCEPT ![d] = f]

(***************************************************************************)
(* The clearing event log                                                  *)
(***************************************************************************)
MakeEvent(w) ==
    /\ writing[w] = 0 /\ made < MaxEvents
    /\ made' = made + 1 /\ writing' = [writing EXCEPT ![w] = made + 1]
    /\ UNCHANGED <<log, late, cursor, active, steady, delivery, ahead, flow, upsets>>

CommitEvent(w) ==
    /\ writing[w] # 0
    /\ log' = log \cup {writing[w]} /\ writing' = [writing EXCEPT ![w] = 0]
    /\ late' = late \cup {e \in {writing[w]} : \E x \in log : x > e}
    /\ UNCHANGED <<made, cursor, active, steady, delivery, ahead, flow, upsets>>

(***************************************************************************)
(* tick: enqueue                                                           *)
(***************************************************************************)

\* listAfter: the first BatchSize ids after the cursor.
Unread == {e \in log : e > cursor}
Page == {e \in Unread : Cardinality({x \in Unread : x < e}) < BatchSize}

\* The last of a page's events, or 0.
LastOf(page) == IF page = {} THEN 0 ELSE CHOOSE e \in page : \A x \in page : x <= e

\* Mutant: the cursor is written before the deliveries are.
ReadsPage_CursorFirst(d) ==
    /\ Becomes(d, Job("queueing", Page, 0, NoDue, NoKey))
    /\ cursor' = IF Page = {} THEN cursor ELSE LastOf(Page)

ReadsPage(d) ==
    /\ Becomes(d, Job("queueing", Page, LastOf(Page), NoDue, NoKey))
    /\ UNCHANGED cursor

ReadEvents(d) ==
    /\ At(d, "idle") /\ ReadsPage(d)
    /\ UNCHANGED <<made, writing, log, late, active, steady, delivery, ahead, upsets>>

Queued(k) == delivery[k].status # "NONE"

\* insertMany: one row for each active endpoint, none for a key there is.
Enqueue(d) ==
    /\ At(d, "queueing")
    /\ \E e \in flow[d].page :
          /\ \A x \in flow[d].page : e <= x
          /\ LET new == {k \in Keys : k[1] = e /\ k[2] \in active /\ ~Queued(k)}
             IN  /\ delivery' = [k \in Keys |->
                        IF k \in new THEN Row("PENDING", 0, TRUE) ELSE delivery[k]]
                 /\ Falls(new)
          /\ Becomes(d, [flow[d] EXCEPT !.page = @ \ {e}])
    /\ UNCHANGED <<made, writing, log, late, cursor, active, steady, upsets>>

\* The cursor is written last, whatever it is by now.
SetCursor(d) ==
    /\ At(d, "queueing") /\ flow[d].page = {}
    /\ cursor' = IF flow[d].last = 0 THEN cursor ELSE flow[d].last
    /\ Becomes(d, Job("listing", {}, 0, NoDue, NoKey))
    /\ UNCHANGED <<made, writing, log, late, active, steady, delivery, ahead, upsets>>

(***************************************************************************)
(* tick: deliver                                                           *)
(***************************************************************************)

\* listDue: at most BatchSize rows, the earliest nextAttemptAt first.
DuePage(page) ==
    /\ Cardinality(page) <= BatchSize
    /\ page # Due => Cardinality(page) = BatchSize
    /\ \A k \in page : ahead[k] \cap Due \subseteq page

ListDue(d) ==
    /\ At(d, "listing")
    /\ \E page \in SUBSET Due :
          /\ DuePage(page)
          /\ Becomes(d, Job("attempting", {}, 0, [k \in page |-> delivery[k]], NoKey))
    /\ UNCHANGED <<made, writing, log, late, cursor, active, steady, delivery, ahead, upsets>>

\* What is left of the list once k is dealt with.
Rest(d, k) ==
    Job("attempting", {}, 0, [x \in DOMAIN flow[d].due \ {k} |-> flow[d].due[x]], NoKey)

\* update writes the whole row over whatever is there, from the listed copy.
Writes(d, k, row) ==
    /\ delivery' = [delivery EXCEPT ![k] = row] /\ Leaves(k)
    /\ Becomes(d, Rest(d, k))

\* Mutant: a refused attempt is not counted.
Failed_Uncounted(row) == Row("PENDING", row.attempts, FALSE)

\* #failed: the next entry of the schedule, or the dead letter.
Failed(row) ==
    IF row.attempts + 1 <= Retries THEN Row("PENDING", row.attempts + 1, FALSE)
    ELSE Row("DEAD", row.attempts + 1, FALSE)

\* The endpoint is looked up: off, the delivery is parked; on, the row is posted.
Look(d) ==
    /\ At(d, "attempting")
    /\ \E k \in DOMAIN flow[d].due :
          IF k[2] \in active
          THEN Becomes(d, Job("posting", {}, 0, flow[d].due, k)) /\ UNCHANGED <<delivery, ahead>>
          ELSE Writes(d, k, Row("DEAD", flow[d].due[k].attempts, FALSE))
    /\ UNCHANGED <<made, writing, log, late, cursor, active, steady, upsets>>

\* The receiver answers, or does not, and the outcome is written.
Post(d) ==
    /\ At(d, "posting")
    /\ LET k == flow[d].key  row == flow[d].due[k]
       IN  \/ Writes(d, k, Row("DELIVERED", row.attempts + 1, FALSE))
           \/ Writes(d, k, Failed(row))
    /\ UNCHANGED <<made, writing, log, late, cursor, active, steady, upsets>>

EndTick(d) ==
    /\ At(d, "attempting") /\ DOMAIN flow[d].due = {} /\ Becomes(d, NoJob)
    /\ UNCHANGED <<made, writing, log, late, cursor, active, steady, delivery, ahead, upsets>>

(***************************************************************************)
(* Time, merchants, operators, failure                                     *)
(***************************************************************************)

\* nextAttemptAt passes.
FallDue(k) ==
    /\ delivery[k].status = "PENDING" /\ ~delivery[k].due
    /\ delivery' = [delivery EXCEPT ![k].due = TRUE] /\ Falls({k})
    /\ UNCHANGED <<made, writing, log, late, cursor, active, steady, flow, upsets>>

Disturbs == upsets < MaxUpsets /\ upsets' = upsets + 1

Switch(ep) ==
    /\ Disturbs
    /\ active' = IF ep \in active THEN active \ {ep} ELSE active \cup {ep}
    /\ steady' = steady \ {ep}
    /\ UNCHANGED <<made, writing, log, late, cursor, delivery, ahead, flow>>

\* replayed: the delivery is pending again, with its whole schedule.
Replay(k) ==
    /\ Disturbs /\ delivery[k].status # "NONE"
    /\ delivery' = [delivery EXCEPT ![k] = Row("PENDING", 0, TRUE)] /\ Falls({k})
    /\ UNCHANGED <<made, writing, log, late, cursor, active, steady, flow>>

\* A process dies, or a statement of its tick fails.
Crash(d) ==
    /\ Disturbs /\ ~At(d, "idle") /\ Becomes(d, NoJob)
    /\ UNCHANGED <<made, writing, log, late, cursor, active, steady, delivery, ahead>>

(***************************************************************************)
(* The specification                                                       *)
(***************************************************************************)
Init ==
    /\ made = 0 /\ writing = [w \in Writers |-> 0]
    /\ log = {} /\ late = {} /\ cursor = 0
    /\ active = Endpoints /\ steady = Endpoints
    /\ delivery = [k \in Keys |-> NoRow] /\ ahead = [k \in Keys |-> {}]
    /\ flow = [d \in Dispatchers |-> NoJob] /\ upsets = 0

Tick(d) ==
    ReadEvents(d) \/ Enqueue(d) \/ SetCursor(d) \/ ListDue(d) \/ Look(d) \/ Post(d) \/ EndTick(d)

Next ==
    \/ \E w \in Writers : MakeEvent(w) \/ CommitEvent(w)
    \/ \E d \in Dispatchers : Tick(d) \/ Crash(d)
    \/ \E k \in Keys : FallDue(k) \/ Replay(k)
    \/ \E ep \in Endpoints : Switch(ep)

Spec == Init /\ [][Next]_vars

\* The timer starts the next tick when none runs; time passes.  Nothing makes a
\* receiver accept.
Fairness ==
    /\ \A d \in Dispatchers : WF_vars(Tick(d))
    /\ \A k \in Keys : WF_vars(FallDue(k))

LiveSpec == Spec /\ Fairness

(***************************************************************************)
(* Properties                                                              *)
(***************************************************************************)
Labels == {"idle", "queueing", "listing", "attempting", "posting"}

WebhookTypeOK ==
    /\ made \in 0 .. MaxEvents /\ cursor \in log \cup {0}
    /\ writing \in [Writers -> 0 .. made]
    /\ log \subseteq 1 .. made /\ late \subseteq log
    /\ steady \subseteq active /\ active \subseteq Endpoints
    /\ delivery \in [Keys -> Rows] /\ ahead \in [Keys -> SUBSET Keys]
    /\ flow = [d \in Dispatchers |->
                  Job(flow[d].pc, flow[d].page, flow[d].last, flow[d].due, flow[d].key)]
    /\ \A d \in Dispatchers :
          /\ flow[d].pc \in Labels
          /\ flow[d].page \subseteq log /\ flow[d].last \in log \cup {0}
          /\ DOMAIN flow[d].due \subseteq Keys /\ flow[d].key \in Keys \cup {NoKey}
          /\ \A k \in DOMAIN flow[d].due : flow[d].due[k] \in Rows
    /\ upsets \in 0 .. MaxUpsets

\* An event that became visible in the order of the ids, for an endpoint that
\* was on all the time.
Owed(k) == k[1] \in log \ late /\ k[2] \in steady

\* repository.ts: "a crash between a transition and a delivery loses nothing".
\* The cursor passes no event owed that is not queued, however dispatchers
\* overlap, crash and move it back.
NothingSkipped ==
    /\ WebhookTypeOK
    /\ \A k \in Keys : Owed(k) /\ k[1] <= cursor => Queued(k)

\* The inductive invariant behind it: what a dispatcher still has to queue
\* before it writes the cursor, and what keeps the attempts in their schedule.
WebhookInv ==
    /\ NothingSkipped
    /\ \A k \in Keys : delivery[k].status = "PENDING" => delivery[k].attempts <= Retries
    /\ \A d \in Dispatchers :
          /\ \A k \in DOMAIN flow[d].due : flow[d].due[k].attempts <= Retries
          /\ At(d, "posting") => flow[d].key \in DOMAIN flow[d].due
          /\ At(d, "queueing") => \A k \in Keys :
                Owed(k) /\ k[1] <= flow[d].last => Queued(k) \/ k[1] \in flow[d].page

\* Every event owed ends delivered or in the dead letters, and none waits behind
\* one that a receiver keeps refusing.
EventsResolve ==
    \A k \in Keys :
        k[1] \in log \ late
            ~> delivery[k].status \in {"DELIVERED", "DEAD"} \/ k[2] \notin steady
=============================================================================
