---------------------------- MODULE WebhookProofs ----------------------------
(* WebhookInv is an inductive invariant of WebhookDispatcher, for every      *)
(* number of writers, dispatchers, endpoints and events and every batch.     *)
EXTENDS WebhookDispatcher, FiniteSetTheorems, TLAPS

LEMMA Bounds ==
  Retries \in Nat /\ MaxEvents \in Nat /\ MaxUpsets \in Nat /\ BatchSize \in Nat \ {0}
  BY WebhookAssumption

(***************************************************************************)
(* Pages                                                                   *)
(***************************************************************************)

\* A bounded set of numbers has a greatest member: the least distance from n.
LEMMA Greatest ==
  ASSUME NEW n \in Nat, NEW S \in SUBSET (1 .. n), S # {}
  PROVE  \E e \in S : \A x \in S : x <= e
  <1> DEFINE T == {n - x : x \in S}
             R == {ss \in Nat \X Nat : ss[1] < ss[2]}
  <1>1. T \subseteq Nat /\ T # {}
    <2>1. \A x \in S : n - x \in Nat
      OBVIOUS
    <2> QED BY <2>1
  <1>2. OpToRel(<, Nat) = R
    BY DEF OpToRel
  <1> HIDE DEF T
  <1>3. IsWellFoundedOn(R, Nat)
    BY <1>2, NatLessThanWellFounded
  <1> HIDE DEF R
  <1>4. PICK t \in T : \A u \in T : ~(<<u, t>> \in R)
    BY <1>1, <1>3, WFMin
  <1>5. \A u \in T : t <= u
    <2> SUFFICES ASSUME NEW u \in T, ~(t <= u) PROVE FALSE
      OBVIOUS
    <2>1. <<u, t>> \in R
      BY <1>1 DEF R
    <2> QED BY <1>4, <2>1
  <1> USE DEF T
  <1>6. PICK e \in S : t = n - e
    OBVIOUS
  <1>7. \A x \in S : n - e <= n - x
    BY <1>5, <1>6
  <1> QED BY <1>7

\* What a dispatcher reads: the beginning of what is after the cursor, and the
\* id it will write when it has queued it.
LEMMA PageReads ==
  ASSUME WebhookTypeOK
  PROVE  /\ Page \subseteq log /\ LastOf(Page) \in log \cup {0}
         /\ \A x \in log : cursor < x /\ x <= LastOf(Page) => x \in Page
  <1>1. log \subseteq 1 .. made /\ made \in Nat /\ cursor \in Nat /\ IsFiniteSet(log)
    <2>1. log \subseteq 1 .. made /\ made \in Nat /\ cursor \in Nat
      BY Bounds DEF WebhookTypeOK
    <2>2. IsFiniteSet(1 .. made)
      BY <2>1, FS_Interval
    <2> QED BY <2>1, <2>2, FS_Subset
  <1>2. Page \subseteq log /\ \A e \in Page : e > cursor
    BY DEF Page, Unread
  <1>3. CASE Page = {}
    BY <1>1, <1>3 DEF LastOf
  <1>4. CASE Page # {}
    <2>1. \E e \in Page : \A x \in Page : x <= e
      BY <1>1, <1>2, <1>4, Greatest
    <2>2. LastOf(Page) \in Page
      BY <1>4, <2>1 DEF LastOf
    <2>3. ASSUME NEW x \in log, cursor < x, x <= LastOf(Page)
          PROVE  x \in Page
      <3> DEFINE A == {z \in Unread : z < x}
                 B == {z \in Unread : z < LastOf(Page)}
      <3>1. A \subseteq B
        <4>1. \A z \in log : z \in Nat
          BY <1>1
        <4>2. LastOf(Page) \in Nat /\ x \in Nat
          BY <1>2, <2>2, <2>3, <4>1
        <4>3. \A z \in log : z < x => z < LastOf(Page)
          BY <2>3, <4>1, <4>2
        <4> QED BY <4>3 DEF Unread
      <3>2. IsFiniteSet(A) /\ IsFiniteSet(B)
        BY <1>1, FS_Subset DEF Unread
      <3>3. Cardinality(A) <= Cardinality(B)
        BY <3>1, <3>2, FS_Subset
      <3>4. Cardinality(A) \in Nat /\ Cardinality(B) \in Nat
        BY <3>2, FS_CardinalityType
      <3>5. Cardinality(B) < BatchSize
        BY <2>2 DEF Page
      <3>6. Cardinality(A) < BatchSize
        BY <3>3, <3>4, <3>5, Bounds
      <3>7. x \in Unread
        BY <2>3 DEF Unread
      <3> QED BY <3>6, <3>7 DEF Page
    <2> QED BY <1>2, <2>2, <2>3
  <1> QED BY <1>3, <1>4

(***************************************************************************)
(* The invariant, dispatcher by dispatcher                                 *)
(***************************************************************************)

\* A job is a record with the fields of Job.
IsJob(f) == f = Job(f.pc, f.page, f.last, f.due, f.key)

LEMMA JobExcept ==
  ASSUME NEW f, IsJob(f), NEW page
  PROVE  [f EXCEPT !.page = page] = Job(f.pc, page, f.last, f.due, f.key)
  <1>1. PICK a, b, c, u, k : f = [pc |-> a, page |-> b, last |-> c, due |-> u, key |-> k]
    BY DEF IsJob, Job
  <1>2. [f EXCEPT !.page = page] = [pc |-> a, page |-> page, last |-> c, due |-> u, key |-> k]
    BY <1>1
  <1> QED BY <1>1, <1>2 DEF Job

\* What the invariant says of a job f.
Typed(f) ==
    /\ IsJob(f) /\ f.pc \in Labels
    /\ f.page \subseteq log /\ f.last \in log \cup {0}
    /\ DOMAIN f.due \subseteq Keys /\ f.key \in Keys \cup {NoKey}
    /\ \A k \in DOMAIN f.due : f.due[k] \in Rows /\ f.due[k].attempts <= Retries
    /\ f.pc = "posting" => f.key \in DOMAIN f.due

Covers(f) ==
    f.pc = "queueing" => \A k \in Keys :
        Owed(k) /\ k[1] <= f.last => Queued(k) \/ k[1] \in f.page

\* What it says of the tables.
TablesOK ==
    /\ made \in 0 .. MaxEvents /\ cursor \in log \cup {0}
    /\ writing \in [Writers -> 0 .. made]
    /\ log \subseteq 1 .. made /\ late \subseteq log
    /\ steady \subseteq active /\ active \subseteq Endpoints
    /\ delivery \in [Keys -> Rows] /\ ahead \in [Keys -> SUBSET Keys]
    /\ \A k \in Keys : delivery[k].status = "PENDING" => delivery[k].attempts <= Retries
    /\ upsets \in 0 .. MaxUpsets
    /\ \A k \in Keys : Owed(k) /\ k[1] <= cursor => Queued(k)

LEMMA InvParts ==
  WebhookInv <=> /\ TablesOK
                 /\ flow = [d \in Dispatchers |-> flow[d]]
                 /\ \A d \in Dispatchers : Typed(flow[d]) /\ Covers(flow[d])
  <1>1. ASSUME WebhookInv
        PROVE  /\ TablesOK
               /\ flow = [d \in Dispatchers |-> flow[d]]
               /\ \A d \in Dispatchers : Typed(flow[d]) /\ Covers(flow[d])
    <2>1. TablesOK
      BY <1>1 DEF WebhookInv, NothingSkipped, WebhookTypeOK, TablesOK
    <2>2. flow = [d \in Dispatchers |->
                     Job(flow[d].pc, flow[d].page, flow[d].last, flow[d].due, flow[d].key)]
      BY <1>1 DEF WebhookInv, NothingSkipped, WebhookTypeOK
    <2>3. \A d \in Dispatchers :
             flow[d] = Job(flow[d].pc, flow[d].page, flow[d].last, flow[d].due, flow[d].key)
      BY <2>2
    <2>4. ASSUME NEW d \in Dispatchers PROVE Typed(flow[d]) /\ Covers(flow[d])
      BY <1>1, <2>3 DEF WebhookInv, NothingSkipped, WebhookTypeOK, Typed, IsJob, Covers, At
    <2>5. flow = [d \in Dispatchers |-> flow[d]]
      BY <2>2, <2>3
    <2> QED BY <2>1, <2>4, <2>5
  <1>2. ASSUME TablesOK, flow = [d \in Dispatchers |-> flow[d]],
               \A d \in Dispatchers : Typed(flow[d]) /\ Covers(flow[d])
        PROVE  WebhookInv
    <2>1. flow = [d \in Dispatchers |->
                     Job(flow[d].pc, flow[d].page, flow[d].last, flow[d].due, flow[d].key)]
      BY <1>2 DEF Typed, IsJob
    <2>2. WebhookTypeOK
      BY <1>2, <2>1 DEF TablesOK, Typed, WebhookTypeOK
    <2>3. NothingSkipped
      BY <1>2, <2>2 DEF TablesOK, NothingSkipped
    <2> QED BY <1>2, <2>3 DEF WebhookInv, TablesOK, Typed, Covers, At
  <1> QED BY <1>1, <1>2

Parts ==
    /\ TablesOK
    /\ flow = [d \in Dispatchers |-> flow[d]]
    /\ \A d \in Dispatchers : Typed(flow[d]) /\ Covers(flow[d])

\* One dispatcher moves on to f, nothing owed is taken back.
LEMMA OneMoves ==
  ASSUME Parts, TablesOK', NEW d \in Dispatchers, NEW f, Becomes(d, f),
         UNCHANGED <<log, late, steady>>,
         \A k \in Keys : Queued(k) => Queued(k)',
         Typed(f),
         f.pc = "queueing" => \A k \in Keys :
             Owed(k) /\ k[1] <= f.last => Queued(k)' \/ k[1] \in f.page
  PROVE  Parts'
  <1>1. \A e \in Dispatchers : flow'[e] = IF e = d THEN f ELSE flow[e]
    BY DEF Parts, Becomes
  <1>2. flow' = [e \in Dispatchers |-> flow'[e]]
    BY DEF Parts, Becomes
  <1>3. ASSUME NEW e \in Dispatchers PROVE Typed(flow[e])' /\ Covers(flow[e])'
    <2>1. CASE e = d
      BY <1>1, <2>1 DEF Typed, Covers, Owed
    <2>2. CASE e # d
      BY <1>1, <2>2 DEF Parts, Typed, Covers, Owed
    <2> QED BY <2>1, <2>2
  <1> QED BY <1>2, <1>3 DEF Parts

\* ... and writes no row.
LEMMA OneReads ==
  ASSUME Parts, NEW d \in Dispatchers, NEW f, Becomes(d, f),
         UNCHANGED <<made, writing, log, late, active, steady, delivery, ahead>>,
         cursor' \in log \cup {0},
         \A k \in Keys : Owed(k) /\ k[1] <= cursor' => Queued(k),
         upsets' \in 0 .. MaxUpsets,
         Typed(f), Covers(f)
  PROVE  Parts'
  <1>1. TablesOK'
    BY DEF Parts, TablesOK, Owed, Queued
  <1>2. \A k \in Keys : Queued(k)' <=> Queued(k)
    BY DEF Queued
  <1> QED BY <1>1, <1>2, OneMoves DEF Covers

LEMMA IdleIsFine ==
  Typed(NoJob) /\ Covers(NoJob)
  BY DEF Typed, Covers, IsJob, NoJob, Job, NoDue, Labels

(***************************************************************************)
(* One lemma per action                                                    *)
(***************************************************************************)
LEMMA InitParts == Init => Parts
  <1> SUFFICES ASSUME Init PROVE Parts
    OBVIOUS
  <1>1. TablesOK
    BY Bounds DEF Init, TablesOK, NoRow, Row, Rows, Owed, Queued, Keys, Events
  <1> QED BY <1>1, IdleIsFine DEF Init, Parts

LEMMA MakeParts ==
  ASSUME Parts, NEW w \in Writers, MakeEvent(w)
  PROVE  Parts'
  <1>1. TablesOK'
    BY Bounds DEF MakeEvent, Parts, TablesOK, Owed, Queued
  <1> QED BY <1>1 DEF MakeEvent, Parts, Typed, Covers, Owed, Queued

\* An id that is not late is greater than every id there was, and so than every
\* cursor written or about to be.
LEMMA CommitParts ==
  ASSUME Parts, NEW w \in Writers, CommitEvent(w)
  PROVE  Parts'
  <1> DEFINE e == writing[w]
  <1>1. e \in 1 .. made /\ made \in Nat
    BY Bounds DEF CommitEvent, Parts, TablesOK
  <1>2. log' = log \cup {e} /\ late' = late \cup {x \in {e} : \E y \in log : y > x}
    BY DEF CommitEvent
  <1>3. UNCHANGED <<made, cursor, active, steady, delivery, ahead, flow, upsets>>
    BY DEF CommitEvent
  <1>4. writing' = [writing EXCEPT ![w] = 0]
    BY DEF CommitEvent
  <1>5. log \subseteq 1 .. made /\ late \subseteq log
    BY DEF Parts, TablesOK
  <1> HIDE DEF e
  <1>6. ASSUME NEW k \in Keys, Owed(k)', ~Owed(k) PROVE k[1] = e /\ \A x \in log : x < e
    <2>1. k[1] = e /\ e \notin log /\ \A y \in log : ~(y > e)
      BY <1>2, <1>3, <1>6 DEF Owed
    <2>2. \A x \in log : x # e /\ x \in Nat /\ ~(x > e)
      BY <1>5, <2>1
    <2> QED BY <1>1, <2>1, <2>2
  <1>7. ASSUME NEW k \in Keys, NEW n \in log \cup {0}, Owed(k)', k[1] <= n PROVE Owed(k)
    <2> SUFFICES ASSUME ~Owed(k) PROVE FALSE
      OBVIOUS
    <2>1. k[1] = e /\ n < e
      BY <1>1, <1>5, <1>6, <1>7
    <2> QED BY <1>1, <1>5, <1>7, <2>1
  <1>8. TablesOK'
    <2>1. \A k \in Keys : Owed(k)' /\ k[1] <= cursor' => Queued(k)'
      BY <1>3, <1>7 DEF Parts, TablesOK, Queued
    <2>2. log' \subseteq 1 .. made' /\ late' \subseteq log' /\ cursor' \in log' \cup {0}
      BY <1>1, <1>2, <1>3 DEF Parts, TablesOK
    <2>3. writing' \in [Writers -> 0 .. made']
      BY <1>1, <1>3, <1>4 DEF Parts, TablesOK
    <2> QED BY <1>3, <2>1, <2>2, <2>3 DEF Parts, TablesOK
  <1>9. ASSUME NEW d \in Dispatchers PROVE Typed(flow[d])' /\ Covers(flow[d])'
    <2>1. Typed(flow[d]) /\ Covers(flow[d])
      BY DEF Parts
    <2>2. Typed(flow[d])'
      BY <1>2, <1>3, <2>1 DEF Typed
    <2>3. Covers(flow[d])'
      BY <1>3, <1>7, <2>1 DEF Covers, Typed, Queued
    <2> QED BY <2>2, <2>3
  <1> QED BY <1>3, <1>8, <1>9 DEF Parts

LEMMA ReadParts ==
  ASSUME Parts, NEW d \in Dispatchers, ReadEvents(d)
  PROVE  Parts'
  <1> DEFINE f == Job("queueing", Page, LastOf(Page), NoDue, NoKey)
  <1>1. Becomes(d, f) /\ UNCHANGED <<made, writing, log, late, cursor, active, steady, delivery, ahead, upsets>>
    BY DEF ReadEvents, ReadsPage
  <1>2. WebhookTypeOK
    BY InvParts DEF Parts, WebhookInv, NothingSkipped
  <1>3. /\ Page \subseteq log /\ LastOf(Page) \in log \cup {0}
        /\ \A x \in log : cursor < x /\ x <= LastOf(Page) => x \in Page
    BY <1>2, PageReads
  <1>4. Typed(f)
    BY <1>3 DEF Typed, IsJob, Job, NoDue, Labels
  <1>5. Covers(f)
    <2> SUFFICES ASSUME NEW k \in Keys, Owed(k), k[1] <= LastOf(Page), k[1] \notin Page
                 PROVE  Queued(k)
      BY DEF Covers, Job
    <2>1. k[1] \in log /\ log \subseteq Nat /\ cursor \in Nat
      BY Bounds DEF Owed, Parts, TablesOK
    <2>2. ~(cursor < k[1])
      BY <1>3, <2>1
    <2>3. k[1] \in Nat
      BY <2>1
    <2>4. k[1] <= cursor
      BY <2>1, <2>2, <2>3
    <2> QED BY <2>4 DEF Parts, TablesOK
  <1>6. cursor' \in log \cup {0} /\ upsets' \in 0 .. MaxUpsets
        /\ \A k \in Keys : Owed(k) /\ k[1] <= cursor' => Queued(k)
    BY <1>1 DEF Parts, TablesOK
  <1> HIDE DEF f
  <1> QED BY <1>1, <1>4, <1>5, <1>6, OneReads

\* The order of the due deliveries is one of deliveries.
LEMMA OrderTyped ==
  ASSUME Parts
  PROVE  /\ \A ks : Falls(ks) => ahead' \in [Keys -> SUBSET Keys]
         /\ \A k : Leaves(k) => ahead' \in [Keys -> SUBSET Keys]
         /\ UNCHANGED ahead => ahead' \in [Keys -> SUBSET Keys]
  BY DEF Parts, TablesOK, Falls, Leaves, Due

LEMMA EnqueueParts ==
  ASSUME Parts, NEW d \in Dispatchers, Enqueue(d)
  PROVE  Parts'
  <1>0. PICK e \in flow[d].page :
          LET new == {k \in Keys : k[1] = e /\ k[2] \in active /\ ~Queued(k)}
          IN  /\ delivery' = [k \in Keys |->
                     IF k \in new THEN Row("PENDING", 0, TRUE) ELSE delivery[k]]
              /\ Falls(new)
              /\ Becomes(d, [flow[d] EXCEPT !.page = @ \ {e}])
    BY DEF Enqueue
  <1>1. /\ delivery' = [k \in Keys |->
                IF k[1] = e /\ k[2] \in active /\ delivery[k].status = "NONE"
                THEN Row("PENDING", 0, TRUE) ELSE delivery[k]]
        /\ Becomes(d, [flow[d] EXCEPT !.page = @ \ {e}])
        /\ ahead' \in [Keys -> SUBSET Keys]
    BY <1>0, OrderTyped DEF Queued
  <1> DEFINE f == [flow[d] EXCEPT !.page = @ \ {e}]
  <1>2. At(d, "queueing") /\ UNCHANGED <<made, writing, log, late, cursor, active, steady, upsets>>
    BY DEF Enqueue
  <1>3. Typed(flow[d]) /\ Covers(flow[d])
    BY DEF Parts
  <1>4. \A k \in Keys :
          /\ Queued(k) => Queued(k)' /\ delivery'[k] = delivery[k]
          /\ ~Queued(k) => delivery'[k] \in {delivery[k], Row("PENDING", 0, TRUE)}
          /\ k[1] = e /\ k[2] \in active => Queued(k)'
    BY <1>1 DEF Queued, Row
  <1>5. Row("PENDING", 0, TRUE) \in Rows /\ Row("PENDING", 0, TRUE).attempts <= Retries
    BY Bounds DEF Row, Rows
  <1>6. TablesOK'
    <2>1. delivery' \in [Keys -> Rows]
      BY <1>1, <1>5 DEF Parts, TablesOK
    <2>2. \A k \in Keys : delivery'[k].status = "PENDING" => delivery'[k].attempts <= Retries
      BY <1>4, <1>5 DEF Parts, TablesOK
    <2>3. \A k \in Keys : Owed(k)' /\ k[1] <= cursor' => Queued(k)'
      BY <1>2, <1>4 DEF Parts, TablesOK, Owed
    <2> QED BY <1>1, <1>2, <2>1, <2>2, <2>3 DEF Parts, TablesOK
  <1>7. /\ f.pc = flow[d].pc /\ f.page = flow[d].page \ {e} /\ f.last = flow[d].last
        /\ f.due = flow[d].due /\ f.key = flow[d].key /\ IsJob(f)
    <2>1. f = Job(flow[d].pc, flow[d].page \ {e}, flow[d].last, flow[d].due, flow[d].key)
      BY <1>3, JobExcept DEF Typed
    <2> HIDE DEF f
    <2> QED BY <2>1 DEF IsJob, Job
  <1>8. \A k \in Keys : Owed(k) /\ k[1] <= f.last => Queued(k)' \/ k[1] \in f.page
    <2> SUFFICES ASSUME NEW k \in Keys, Owed(k), k[1] <= f.last, k[1] \notin f.page
                 PROVE  Queued(k)'
      OBVIOUS
    <2>1. k[2] \in active
      BY DEF Owed, Parts, TablesOK
    <2>2. Queued(k) \/ k[1] \in flow[d].page
      BY <1>2, <1>3, <1>7 DEF Covers, At
    <2> QED BY <1>4, <1>7, <2>1, <2>2
  <1>9. Typed(f)
    BY <1>3, <1>7 DEF Typed
  <1>10. Becomes(d, f)
    BY <1>1
  <1>11. \A k \in Keys : Queued(k) => Queued(k)'
    BY <1>4
  <1> HIDE DEF f
  <1> QED BY <1>2, <1>6, <1>8, <1>9, <1>10, <1>11, OneMoves

LEMMA CursorParts ==
  ASSUME Parts, NEW d \in Dispatchers, SetCursor(d)
  PROVE  Parts'
  <1> DEFINE f == Job("listing", {}, 0, NoDue, NoKey)
  <1>1. /\ At(d, "queueing") /\ flow[d].page = {} /\ Becomes(d, f)
        /\ cursor' = IF flow[d].last = 0 THEN cursor ELSE flow[d].last
        /\ UNCHANGED <<made, writing, log, late, active, steady, delivery, ahead, upsets>>
    BY DEF SetCursor
  <1>2. Typed(flow[d]) /\ Covers(flow[d])
    BY DEF Parts
  <1>3. cursor' \in log \cup {0} /\ upsets' \in 0 .. MaxUpsets
    BY <1>1, <1>2 DEF Parts, TablesOK, Typed
  <1>4. \A k \in Keys : Owed(k) /\ k[1] <= cursor' => Queued(k)
    BY <1>1, <1>2 DEF Parts, TablesOK, Covers, At
  <1>5. Typed(f) /\ Covers(f)
    BY DEF Typed, Covers, IsJob, Job, NoDue, Labels
  <1> HIDE DEF f
  <1> QED BY <1>1, <1>3, <1>4, <1>5, OneReads

LEMMA ListParts ==
  ASSUME Parts, NEW d \in Dispatchers, ListDue(d) \/ EndTick(d)
  PROVE  Parts'
  <1>1. /\ UNCHANGED <<made, writing, log, late, cursor, active, steady, delivery, ahead, upsets>>
        /\ cursor' \in log \cup {0} /\ upsets' \in 0 .. MaxUpsets
        /\ \A k \in Keys : Owed(k) /\ k[1] <= cursor' => Queued(k)
    BY DEF ListDue, EndTick, Parts, TablesOK
  <1>2. CASE ListDue(d)
    <2>0. PICK page \in SUBSET Due :
            Becomes(d, Job("attempting", {}, 0, [k \in page |-> delivery[k]], NoKey))
      BY <1>2 DEF ListDue
    <2> DEFINE f == Job("attempting", {}, 0, [k \in page |-> delivery[k]], NoKey)
    <2>1. Typed(f) /\ Covers(f)
      BY DEF Typed, Covers, IsJob, Job, Labels, Due, Parts, TablesOK
    <2>2. Becomes(d, f)
      BY <2>0
    <2> HIDE DEF f
    <2> QED BY <1>1, <2>1, <2>2, OneReads
  <1>3. CASE EndTick(d)
    BY <1>1, <1>3, IdleIsFine, OneReads DEF EndTick
  <1> QED BY <1>2, <1>3

LEMMA RestTyped ==
  ASSUME Parts, NEW d \in Dispatchers, NEW k
  PROVE  Typed(Rest(d, k)) /\ Covers(Rest(d, k))
  BY DEF Parts, Typed, Covers, IsJob, Rest, Job, Labels

\* The outcome of an attempt is written over a row that there is.
LEMMA WriteParts ==
  ASSUME Parts, NEW d \in Dispatchers, NEW k \in Keys, NEW row \in Rows, Writes(d, k, row),
         row.status # "NONE", row.status = "PENDING" => row.attempts <= Retries,
         UNCHANGED <<made, writing, log, late, cursor, active, steady, upsets>>
  PROVE  Parts'
  <1>1. \A x \in Keys : delivery'[x] = IF x = k THEN row ELSE delivery[x]
    BY DEF Writes, Parts, TablesOK
  <1>2. \A x \in Keys : Queued(x) => Queued(x)'
    BY <1>1 DEF Queued
  <1>3. TablesOK'
    BY <1>1, <1>2, OrderTyped DEF Writes, Parts, TablesOK, Owed
  <1>4. Typed(Rest(d, k)) /\ Becomes(d, Rest(d, k)) /\ Rest(d, k).pc = "attempting"
    BY RestTyped DEF Writes, Rest, Job
  <1> QED BY <1>2, <1>3, <1>4, OneMoves

LEMMA LookParts ==
  ASSUME Parts, NEW d \in Dispatchers, Look(d)
  PROVE  Parts'
  <1>1. PICK k \in DOMAIN flow[d].due :
          IF k[2] \in active
          THEN Becomes(d, Job("posting", {}, 0, flow[d].due, k)) /\ UNCHANGED <<delivery, ahead>>
          ELSE Writes(d, k, Row("DEAD", flow[d].due[k].attempts, FALSE))
    BY DEF Look
  <1>2. UNCHANGED <<made, writing, log, late, cursor, active, steady, upsets>>
    BY DEF Look
  <1>3. Typed(flow[d]) /\ k \in Keys
    BY DEF Parts, Typed
  <1>4. CASE k[2] \in active
    <2> DEFINE f == Job("posting", {}, 0, flow[d].due, k)
    <2>1. Typed(f) /\ Covers(f)
      BY <1>3 DEF Typed, Covers, IsJob, Job, Labels
    <2>2. Becomes(d, f) /\ UNCHANGED <<delivery, ahead>>
      BY <1>1, <1>4
    <2>3. /\ cursor' \in log \cup {0} /\ upsets' \in 0 .. MaxUpsets
          /\ \A x \in Keys : Owed(x) /\ x[1] <= cursor' => Queued(x)
      BY <1>2 DEF Parts, TablesOK
    <2> HIDE DEF f
    <2> QED BY <1>2, <2>1, <2>2, <2>3, OneReads
  <1>5. CASE k[2] \notin active
    <2> DEFINE row == Row("DEAD", flow[d].due[k].attempts, FALSE)
    <2>1. row \in Rows /\ row.status = "DEAD"
      BY <1>3 DEF Typed, Row, Rows
    <2>2. Writes(d, k, row)
      BY <1>1, <1>5
    <2> HIDE DEF row
    <2> QED BY <1>2, <1>3, <2>1, <2>2, WriteParts
  <1> QED BY <1>4, <1>5

LEMMA PostParts ==
  ASSUME Parts, NEW d \in Dispatchers, Post(d)
  PROVE  Parts'
  <1> DEFINE k == flow[d].key
             row == flow[d].due[k]
  <1>1. Typed(flow[d]) /\ At(d, "posting")
    BY DEF Parts, Post
  <1>2. k \in Keys /\ row \in Rows /\ row.attempts <= Retries
    BY <1>1 DEF Typed, At
  <1>3. UNCHANGED <<made, writing, log, late, cursor, active, steady, upsets>>
    BY DEF Post
  <1>4. PICK new \in {Row("DELIVERED", row.attempts + 1, FALSE), Failed(row)} : Writes(d, k, new)
    BY DEF Post
  <1>5. new \in Rows /\ new.status # "NONE" /\ (new.status = "PENDING" => new.attempts <= Retries)
    <2> HIDE DEF row
    <2>1. row.attempts \in Nat /\ row.attempts + 1 \in 0 .. Retries + 1
      BY <1>2, Bounds DEF Rows
    <2>2. CASE new = Row("DELIVERED", row.attempts + 1, FALSE)
      BY <2>1, <2>2 DEF Row, Rows
    <2>3. CASE new = Failed(row)
      <3>1. CASE row.attempts + 1 <= Retries
        BY <2>1, <2>3, <3>1 DEF Failed, Row, Rows
      <3>2. CASE ~(row.attempts + 1 <= Retries)
        BY <2>1, <2>3, <3>2 DEF Failed, Row, Rows
      <3> QED BY <3>1, <3>2
    <2> QED BY <1>4, <2>2, <2>3
  <1> HIDE DEF row, k
  <1> QED BY <1>2, <1>3, <1>4, <1>5, WriteParts

\* Steps that no dispatcher takes and that write one row or none.
LEMMA WorldParts ==
  ASSUME Parts, NEW k \in Keys, FallDue(k) \/ Replay(k)
  PROVE  Parts'
  <1>1. UNCHANGED <<made, writing, log, late, cursor, active, steady, flow>>
        /\ upsets' \in 0 .. MaxUpsets
    <2>1. upsets \in 0 .. MaxUpsets
      BY DEF Parts, TablesOK
    <2>2. CASE FallDue(k)
      BY <2>1, <2>2 DEF FallDue
    <2>3. CASE Replay(k)
      BY <2>1, <2>3, Bounds DEF Replay, Disturbs
    <2> QED BY <2>2, <2>3
  <1>2. PICK row \in Rows :
          /\ delivery' = [delivery EXCEPT ![k] = row]
          /\ row.status = "PENDING" /\ row.attempts <= Retries
    <2>1. CASE FallDue(k)
      <3>1. delivery[k] \in Rows
        BY DEF Parts, TablesOK
      <3>2. [delivery[k] EXCEPT !.due = TRUE] \in Rows
        BY <3>1 DEF Rows
      <3>3. delivery' = [delivery EXCEPT ![k] = [delivery[k] EXCEPT !.due = TRUE]]
        BY <2>1 DEF FallDue
      <3>4. /\ [delivery[k] EXCEPT !.due = TRUE].status = "PENDING"
            /\ [delivery[k] EXCEPT !.due = TRUE].attempts <= Retries
        BY <2>1, <3>1 DEF FallDue, Rows, Parts, TablesOK
      <3> QED BY <3>2, <3>3, <3>4
    <2>2. CASE Replay(k)
      <3>1. delivery' = [delivery EXCEPT ![k] = Row("PENDING", 0, TRUE)]
        BY <2>2 DEF Replay
      <3>2. /\ Row("PENDING", 0, TRUE) \in Rows
            /\ Row("PENDING", 0, TRUE).status = "PENDING"
            /\ Row("PENDING", 0, TRUE).attempts <= Retries
        BY Bounds DEF Row, Rows
      <3> QED BY <3>1, <3>2
    <2> QED BY <2>1, <2>2
  <1>3. \A x \in Keys : delivery'[x] = IF x = k THEN row ELSE delivery[x]
    BY <1>2 DEF Parts, TablesOK
  <1>4. \A x \in Keys : Queued(x) => Queued(x)'
    BY <1>2, <1>3 DEF Queued
  <1>0. ahead' \in [Keys -> SUBSET Keys]
    BY OrderTyped DEF FallDue, Replay
  <1>5. TablesOK'
    BY <1>0, <1>1, <1>2, <1>3, <1>4 DEF Parts, TablesOK, Owed
  <1>6. ASSUME NEW e \in Dispatchers PROVE Typed(flow[e])' /\ Covers(flow[e])'
    BY <1>1, <1>4 DEF Parts, Typed, Covers, Owed
  <1> QED BY <1>1, <1>5, <1>6 DEF Parts

LEMMA SwitchParts ==
  ASSUME Parts, NEW ep \in Endpoints, Switch(ep)
  PROVE  Parts'
  <1>1. /\ UNCHANGED <<made, writing, log, late, cursor, delivery, ahead, flow>>
        /\ upsets' \in 0 .. MaxUpsets /\ steady' \subseteq steady
        /\ steady' \subseteq active' /\ active' \subseteq Endpoints
    BY Bounds DEF Switch, Disturbs, Parts, TablesOK
  <1>2. TablesOK'
    BY <1>1 DEF Parts, TablesOK, Owed, Queued
  <1>3. ASSUME NEW e \in Dispatchers PROVE Typed(flow[e])' /\ Covers(flow[e])'
    BY <1>1 DEF Parts, Typed, Covers, Owed, Queued
  <1> QED BY <1>1, <1>2, <1>3 DEF Parts

LEMMA CrashParts ==
  ASSUME Parts, NEW d \in Dispatchers, Crash(d)
  PROVE  Parts'
  <1>1. /\ UNCHANGED <<made, writing, log, late, cursor, active, steady, delivery, ahead>>
        /\ cursor' \in log \cup {0} /\ upsets' \in 0 .. MaxUpsets /\ Becomes(d, NoJob)
        /\ \A k \in Keys : Owed(k) /\ k[1] <= cursor' => Queued(k)
    BY Bounds DEF Crash, Disturbs, Parts, TablesOK
  <1> QED BY <1>1, IdleIsFine, OneReads

LEMMA NextParts ==
  ASSUME Parts, [Next]_vars
  PROVE  Parts'
  <1>1. ASSUME NEW d \in Dispatchers, Tick(d) PROVE Parts'
    BY <1>1, ReadParts, EnqueueParts, CursorParts, ListParts, LookParts, PostParts DEF Tick
  <1>2. CASE UNCHANGED vars
    BY <1>2 DEF vars, Parts, TablesOK, Typed, Covers, Owed, Queued
  <1> QED BY <1>1, <1>2, MakeParts, CommitParts, WorldParts, SwitchParts, CrashParts DEF Next

(***************************************************************************)
(* The theorems                                                            *)
(***************************************************************************)

\* The tables, what each dispatcher still has to queue and what it listed keep
\* the invariant, however dispatchers overlap, crash and are replayed.
THEOREM WebhookInvHolds == Spec => []WebhookInv
  <1>1. Parts => WebhookInv
    BY InvParts DEF Parts
  <1> QED BY <1>1, InitParts, NextParts, PTL DEF Spec

\* No crash and no overlap of dispatchers loses an event that became visible in
\* the order of the ids.
THEOREM NoEventIsLost == Spec => []NothingSkipped
  <1>1. WebhookInv => NothingSkipped
    BY DEF WebhookInv
  <1> QED BY <1>1, WebhookInvHolds, PTL
=============================================================================
