---------------------------- MODULE RefundProofs ----------------------------
(* RefundInv is an inductive invariant of RefundService, for every number of *)
(* requests, passes, processes and refunds.                                  *)
EXTENDS RefundService, FiniteSetTheorems, TLAPS

LEMMA InitInv == Init => RefundInv
  <1> SUFFICES ASSUME Init PROVE RefundInv
    OBVIOUS
  <1>1. RefundTypeOK
    BY FlowsAssumption, BoundsAssumption
    DEF Init, RefundTypeOK, NoRefund, Job, NoJob, Labels, Ids
  <1>2. OneRefundPerKey
    BY FlowsAssumption DEF Init, OneRefundPerKey, Exists, NoRefund
  <1>3. BooksFollowTheRail
    BY DEF Init, BooksFollowTheRail, NoRefund
  <1>4. \A w \in Flows : Knows(w)
    BY DEF Init, Knows, Job, NoJob, Executing
  <1> QED BY <1>1, <1>2, <1>3, <1>4 DEF RefundInv

Jobs == [pc : Labels, key : Keys \cup {NoKey}, amount : 0 .. Net,
         id : 0 .. MaxRefunds, todo : SUBSET Ids]

\* What a job f may say of the world, before a step and after it.
Informed(f) ==
    /\ f.pc \in Executing => f.id \in Ids /\ Exists(f.id)
    /\ \A i \in f.todo : Exists(i)
    /\ f.pc \in {"looking", "posting", "marking"} => f.id \in sent
    /\ f.pc = "marking" => f.id \in posted

InformedNext(f) ==
    /\ f.pc \in Executing => f.id \in Ids /\ refund'[f.id].state # "NONE"
    /\ \A i \in f.todo : refund'[i].state # "NONE"
    /\ f.pc \in {"looking", "posting", "marking"} => f.id \in sent'
    /\ f.pc = "marking" => f.id \in posted'

\* One flow moves, the world only grows: what the other flows know stays true.
LEMMA Grows ==
  ASSUME RefundInv, NEW w \in Flows, NEW f \in Jobs, InformedNext(f),
         flow' = [flow EXCEPT ![w] = f],
         \A i \in Ids : Exists(i) => Exists(i)',
         sent \subseteq sent', posted \subseteq posted',
         RefundTypeOK', OneRefundPerKey', BooksFollowTheRail'
  PROVE  RefundInv'
  <1> SUFFICES ASSUME NEW v \in Flows PROVE Knows(v)'
    BY DEF RefundInv
  <1>1. flow'[v] = IF v = w THEN f ELSE flow[v]
    BY DEF RefundInv, RefundTypeOK
  <1>2. CASE v = w
    BY <1>1, <1>2 DEF InformedNext, Knows, Exists
  <1>3. CASE v # w
    <2>1. Knows(v) /\ flow[v] \in Jobs
      BY DEF RefundInv, RefundTypeOK, Jobs
    <2> QED BY <1>1, <1>3, <2>1 DEF Knows, Jobs, Executing
  <1> QED BY <1>2, <1>3

\* A step that moves one flow and writes nothing that anyone relies on.
LEMMA FlowMoves ==
  ASSUME RefundInv, NEW w \in Flows, NEW f \in Jobs, Informed(f),
         flow' = [flow EXCEPT ![w] = f],
         UNCHANGED <<time, refund, settled, sent, posted>>,
         lock' \in Requests \cup {NoFlow},
         issued' \in 0 .. MaxRefunds, upsets' \in 0 .. MaxUpsets
  PROVE  RefundInv'
  <1>1. RefundTypeOK'
    BY DEF RefundInv, RefundTypeOK, Jobs
  <1>2. OneRefundPerKey' /\ BooksFollowTheRail'
    BY DEF RefundInv, OneRefundPerKey, BooksFollowTheRail, Exists
  <1>3. InformedNext(f) /\ \A i \in Ids : Exists(i) => Exists(i)'
    BY DEF Informed, InformedNext, Exists
  <1> QED BY <1>1, <1>2, <1>3, Grows

\* A flow that only moves its program counter.
LEMMA PcMoves ==
  ASSUME RefundInv, NEW w \in Flows, NEW pc \in Labels
  PROVE  /\ [flow[w] EXCEPT !.pc = pc] \in Jobs
         /\ Goes(w, pc) => flow' = [flow EXCEPT ![w] = [flow[w] EXCEPT !.pc = pc]]
         /\ flow[w] \in Jobs /\ Knows(w)
         /\ pc \notin Executing => Informed([flow[w] EXCEPT !.pc = pc])
         /\ At(w, "calling") /\ pc = "failing" => Informed([flow[w] EXCEPT !.pc = pc])
  BY DEF RefundInv, RefundTypeOK, Jobs, Goes, Informed, Knows, At, Executing

LEMMA Idles ==
  NoJob \in Jobs /\ Informed(NoJob)
  BY BoundsAssumption DEF Job, NoJob, Jobs, Informed, Executing, Labels

LEMMA LockTyped ==
  ASSUME RefundInv, NEW w \in Flows, Unlock(w) \/ UNCHANGED lock
  PROVE  lock' \in Requests \cup {NoFlow}
  BY DEF RefundInv, RefundTypeOK, Unlock

(***************************************************************************)
(* One lemma per group of actions                                          *)
(***************************************************************************)
LEMMA IssueInv ==
  ASSUME RefundInv, NEW w \in Requests, Issue(w)
  PROVE  RefundInv'
  <1>1. PICK k \in Keys \cup {NoKey}, ask \in Everything .. Net :
          Becomes(w, Job("beginning", k, ask, 0, {}))
    BY DEF Issue
  <1> DEFINE f == Job("beginning", k, ask, 0, {})
  <1>2. f \in Jobs /\ Informed(f)
    BY BoundsAssumption DEF Job, NoJob, Jobs, Labels, Everything, Informed, Executing
  <1>3. issued' \in 0 .. MaxRefunds /\ upsets' \in 0 .. MaxUpsets /\ lock' \in Requests \cup {NoFlow}
    BY BoundsAssumption DEF Issue, RefundInv, RefundTypeOK
  <1> QED BY <1>1, <1>2, <1>3, FlowMoves DEF Issue, Becomes, Flows

LEMMA BeginInv ==
  ASSUME RefundInv, NEW w \in Requests, Begin(w) \/ Lock(w)
  PROVE  RefundInv'
  <1>1. PICK pc \in {"locking", "listing"} : Goes(w, pc)
    BY DEF Begin, Lock
  <1>2. pc \in Labels /\ pc \notin Executing /\ w \in Flows
    BY DEF Labels, Executing, Flows
  <1>3. /\ lock' \in Requests \cup {NoFlow}
        /\ issued' \in 0 .. MaxRefunds /\ upsets' \in 0 .. MaxUpsets
        /\ UNCHANGED <<time, refund, settled, sent, posted>>
    BY DEF Begin, Lock, world, RefundInv, RefundTypeOK
  <1>4. /\ [flow[w] EXCEPT !.pc = pc] \in Jobs /\ Informed([flow[w] EXCEPT !.pc = pc])
        /\ flow' = [flow EXCEPT ![w] = [flow[w] EXCEPT !.pc = pc]]
    BY <1>1, <1>2, PcMoves
  <1> QED BY <1>2, <1>3, <1>4, FlowMoves

LEMMA ListInv ==
  ASSUME RefundInv, NEW w \in Requests, List(w)
  PROVE  RefundInv'
  <1> DEFINE amount == IF flow[w].amount = Everything THEN Net - Taken(Ids)
                       ELSE flow[w].amount
             f == Job("inserting", flow[w].key, amount, 0, {})
  <1>1. /\ issued' \in 0 .. MaxRefunds /\ upsets' \in 0 .. MaxUpsets
        /\ UNCHANGED <<time, refund, settled, sent, posted>> /\ w \in Flows
    BY DEF List, RefundInv, RefundTypeOK, Flows
  <1>2. CASE amount \in 1 .. Net /\ Balanced(0, amount)
    <2>1. Becomes(w, f) /\ UNCHANGED lock
      BY <1>2 DEF List
    <2>2. flow[w] \in Jobs /\ Knows(w)
      BY <1>1 DEF RefundInv, RefundTypeOK, Jobs
    <2> HIDE DEF amount
    <2>3. f \in Jobs /\ Informed(f)
      BY <1>2, <2>2, BoundsAssumption DEF Job, Jobs, Labels, Informed, Executing, Knows
    <2> HIDE DEF f
    <2> QED BY <1>1, <2>1, <2>3, LockTyped, FlowMoves DEF Becomes
  <1>3. CASE ~(amount \in 1 .. Net /\ Balanced(0, amount))
    <2>1. Becomes(w, NoJob) /\ Unlock(w)
      BY <1>3 DEF List
    <2> QED BY <1>1, <2>1, Idles, LockTyped, FlowMoves DEF Becomes
  <1> QED BY <1>2, <1>3

LEMMA InsertInv ==
  ASSUME RefundInv, NEW w \in Requests, Insert(w)
  PROVE  RefundInv'
  <1>1. /\ issued' \in 0 .. MaxRefunds /\ upsets' \in 0 .. MaxUpsets
        /\ UNCHANGED <<time, settled, sent, posted>> /\ w \in Flows
        /\ lock' \in Requests \cup {NoFlow}
    BY LockTyped DEF Insert, RefundInv, RefundTypeOK, Flows
  <1>2. CASE Becomes(w, NoJob) /\ UNCHANGED refund
    BY <1>1, <1>2, Idles, FlowMoves DEF Becomes
  <1>3. ASSUME ~Refused(w), NEW i \in Ids, IsNew(i),
               refund' = [refund EXCEPT ![i] = [state |-> "PENDING",
                   amount |-> flow[w].amount, key |-> flow[w].key, updatedAt |-> time]],
               Becomes(w, Job("calling", flow[w].key, flow[w].amount, i, {}))
        PROVE  RefundInv'
    <2> DEFINE f == Job("calling", flow[w].key, flow[w].amount, i, {})
               r == [state |-> "PENDING", amount |-> flow[w].amount,
                     key |-> flow[w].key, updatedAt |-> time]
    <2>1. flow[w] \in Jobs /\ Knows(w) /\ i \in 0 .. MaxRefunds
      BY <1>1, BoundsAssumption DEF RefundInv, RefundTypeOK, Jobs, Ids
    <2>2. f \in Jobs
      BY <2>1 DEF Job, Jobs, Labels
    <2>3. \A j \in Ids : refund'[j] = IF j = i THEN r ELSE refund[j]
      BY <1>3 DEF RefundInv, RefundTypeOK
    <2>4. \A j \in Ids : Exists(j) => Exists(j)'
      BY <2>3 DEF Exists
    <2>5. Exists(i)'
      BY <2>3 DEF Exists
    <2>6. InformedNext(f)
      BY <1>1, <2>1, <2>4, <2>5 DEF Job, InformedNext, Exists, Knows, Executing, Jobs
    <2>7. RefundTypeOK'
      <3>1. r \in [state : {"NONE", "PENDING", "SUCCEEDED", "FAILED"},
                   amount : 0 .. Net, key : Keys \cup {NoKey}, updatedAt : 0 .. MaxTime]
        BY <2>1 DEF RefundInv, RefundTypeOK, Jobs
      <3> HIDE DEF r, f
      <3> QED BY <1>1, <1>3, <2>2, <3>1 DEF RefundInv, RefundTypeOK, Becomes, Jobs, r, f
    <2>8. OneRefundPerKey'
      <3> SUFFICES ASSUME NEW a \in Ids, NEW b \in Ids, Exists(a)', Exists(b)',
                          refund'[a].key \in Keys, refund'[b].key = refund'[a].key
                   PROVE  a = b
        BY DEF OneRefundPerKey
      <3>1. \A j \in Ids : Exists(j) /\ refund[j].key = flow[w].key => flow[w].key \notin Keys
        BY <1>3, FlowsAssumption DEF Refused, Used
      <3>2. \A j \in Ids : j # i /\ Exists(j)' => Exists(j)
        BY <2>3 DEF Exists
      <3>3. r.key = flow[w].key
        OBVIOUS
      <3> HIDE DEF r
      <3>4. CASE a # i /\ b # i
        BY <2>3, <3>2, <3>4 DEF RefundInv, OneRefundPerKey
      <3>5. CASE a = i \/ b = i
        BY <2>3, <3>1, <3>2, <3>3, <3>5
      <3> QED BY <3>4, <3>5
    <2>9. BooksFollowTheRail'
      BY <1>1, <1>3, <2>3, <2>4 DEF RefundInv, BooksFollowTheRail, IsNew, Exists
    <2>10. sent \subseteq sent' /\ posted \subseteq posted'
      BY <1>1
    <2>11. flow' = [flow EXCEPT ![w] = f]
      BY <1>3 DEF Becomes
    <2> HIDE DEF f, r
    <2> QED BY <1>1, <2>2, <2>4, <2>6, <2>7, <2>8, <2>9, <2>10, <2>11, Grows
  <1> QED BY <1>2, <1>3 DEF Insert

LEMMA TakesInv ==
  ASSUME RefundInv, NEW w \in Flows, NEW ids \in SUBSET Ids, \A i \in ids : Exists(i),
         Takes(w, ids)
  PROVE  \E f \in Jobs : Informed(f) /\ flow' = [flow EXCEPT ![w] = f]
  <1>1. PICK i \in ids : Becomes(w, Job("calling", NoKey, refund[i].amount, i, ids \ {i}))
    BY DEF Takes
  <1> DEFINE f == Job("calling", NoKey, refund[i].amount, i, ids \ {i})
  <1>2. f \in Jobs
    BY BoundsAssumption DEF Job, Jobs, Labels, RefundInv, RefundTypeOK, Ids
  <1>3. Informed(f)
    BY DEF Job, Informed, Executing
  <1> QED BY <1>1, <1>2, <1>3 DEF Becomes

LEMMA ContinuesInv ==
  ASSUME RefundInv, NEW w \in Flows, Continues(w)
  PROVE  \E f \in Jobs : Informed(f) /\ flow' = [flow EXCEPT ![w] = f]
  <1>1. flow[w].todo \in SUBSET Ids /\ \A i \in flow[w].todo : Exists(i)
    BY DEF RefundInv, RefundTypeOK, Knows
  <1>2. CASE Becomes(w, NoJob)
    BY <1>2, Idles DEF Becomes
  <1>3. CASE Takes(w, flow[w].todo)
    BY <1>1, <1>3, TakesInv
  <1> QED BY <1>2, <1>3 DEF Continues

LEMMA ResumeInv ==
  ASSUME RefundInv, NEW w \in Passes, ResumePending(w)
  PROVE  RefundInv'
  <1>1. w \in Flows /\ Due \in SUBSET Ids /\ \A i \in Due : Exists(i)
    BY DEF Flows, Due, Exists
  <1>2. PICK f \in Jobs : Informed(f) /\ flow' = [flow EXCEPT ![w] = f]
    BY <1>1, TakesInv DEF ResumePending
  <1>3. /\ lock' \in Requests \cup {NoFlow}
        /\ issued' \in 0 .. MaxRefunds /\ upsets' \in 0 .. MaxUpsets
        /\ UNCHANGED <<time, refund, settled, sent, posted>>
    BY DEF ResumePending, world, RefundInv, RefundTypeOK
  <1> QED BY <1>1, <1>2, <1>3, FlowMoves

\* The steps of #execute that only look, or give up.
LEMMA LooksInv ==
  ASSUME RefundInv, NEW w \in Flows, RailReads(w) \/ PostFinds(w)
  PROVE  RefundInv'
  <1>1. PICK pc \in {"failing", "refunding", "marking", "posting"} :
          /\ Goes(w, pc)
          /\ pc \in {"failing", "refunding"} => At(w, "calling")
          /\ pc \in {"marking", "posting"} => At(w, "looking")
          /\ pc = "marking" => flow[w].id \in posted
    BY DEF RailReads, PostFinds
  <1>2. pc \in Labels
    BY DEF Labels
  <1> DEFINE f == [flow[w] EXCEPT !.pc = pc]
  <1>3. /\ f \in Jobs /\ flow' = [flow EXCEPT ![w] = f]
        /\ flow[w] \in Jobs /\ Knows(w)
    BY <1>1, <1>2, PcMoves
  <1>4. Informed(f)
    BY <1>1, <1>3 DEF Informed, Knows, Jobs, At, Executing
  <1>5. /\ lock' \in Requests \cup {NoFlow}
        /\ issued' \in 0 .. MaxRefunds /\ upsets' \in 0 .. MaxUpsets
        /\ UNCHANGED <<time, refund, settled, sent, posted>>
    BY DEF RailReads, PostFinds, world, RefundInv, RefundTypeOK
  <1> HIDE DEF f
  <1> QED BY <1>3, <1>4, <1>5, FlowMoves

LEMMA RailInv ==
  ASSUME RefundInv, NEW w \in Flows, RailRefunds(w)
  PROVE  RefundInv'
  <1>1. Goes(w, "looking")
    BY DEF RailRefunds
  <1>2. "looking" \in Labels /\ At(w, "refunding")
    BY DEF Labels, RailRefunds
  <1> DEFINE f == [flow[w] EXCEPT !.pc = "looking"]
  <1>3. /\ f \in Jobs /\ flow' = [flow EXCEPT ![w] = f]
        /\ flow[w] \in Jobs /\ Knows(w)
    BY <1>1, <1>2, PcMoves
  <1>4. /\ sent' = sent \cup {flow[w].id} /\ settled' = "REFUNDED"
        /\ UNCHANGED <<time, refund, posted, lock, issued, upsets>>
    BY DEF RailRefunds
  <1>5. flow[w].id \in Ids /\ Exists(flow[w].id)
    BY <1>2, <1>3 DEF Knows, At, Executing
  <1>7. InformedNext(f)
    BY <1>1, <1>2, <1>3, <1>4, <1>5 DEF InformedNext, Knows, Jobs, Executing, Exists
  <1>8. OneRefundPerKey' /\ BooksFollowTheRail' /\ \A i \in Ids : Exists(i) => Exists(i)'
    BY <1>4, <1>5 DEF RefundInv, OneRefundPerKey, BooksFollowTheRail, Exists
  <1> HIDE DEF f
  <1>9. RefundTypeOK'
    BY <1>3, <1>4, <1>5 DEF RefundInv, RefundTypeOK, Jobs
  <1> QED BY <1>3, <1>4, <1>7, <1>8, <1>9, Grows

LEMMA PostInv ==
  ASSUME RefundInv, NEW w \in Flows, PostInserts(w)
  PROVE  RefundInv'
  <1>1. PICK pc \in {"marking", "failing"} : Goes(w, pc)
    BY DEF PostInserts
  <1>2. pc \in Labels /\ At(w, "posting")
    BY DEF Labels, PostInserts
  <1> DEFINE f == [flow[w] EXCEPT !.pc = pc]
  <1>3. /\ f \in Jobs /\ flow' = [flow EXCEPT ![w] = f]
        /\ flow[w] \in Jobs /\ Knows(w)
    BY <1>1, <1>2, PcMoves
  <1>4. /\ posted' = posted \cup {flow[w].id}
        /\ UNCHANGED <<time, refund, settled, sent, lock, issued, upsets>>
    BY DEF PostInserts
  <1>5. flow[w].id \in Ids /\ Exists(flow[w].id) /\ flow[w].id \in sent
    BY <1>2, <1>3 DEF Knows, At, Executing
  <1>7. InformedNext(f)
    BY <1>1, <1>2, <1>3, <1>4, <1>5 DEF InformedNext, Knows, Jobs, Executing, Exists, PostInserts
  <1>8. OneRefundPerKey' /\ BooksFollowTheRail' /\ \A i \in Ids : Exists(i) => Exists(i)'
    BY <1>4, <1>5 DEF RefundInv, OneRefundPerKey, BooksFollowTheRail, Exists
  <1> HIDE DEF f
  <1>9. RefundTypeOK'
    BY <1>3, <1>4, <1>5 DEF RefundInv, RefundTypeOK, Jobs
  <1> QED BY <1>3, <1>4, <1>7, <1>8, <1>9, Grows

\* Recording an outcome: the state of an existing row, SUCCEEDED only of a
\* posted refund.
LEMMA WritesInv ==
  ASSUME RefundInv, NEW w \in Flows, NEW state \in {"SUCCEEDED", "FAILED"},
         flow[w].id \in Ids, Exists(flow[w].id),
         state = "SUCCEEDED" => flow[w].id \in posted,
         Writes(w, state), Continues(w),
         UNCHANGED <<time, settled, sent, posted, lock, issued, upsets>>
  PROVE  RefundInv'
  <1>1. PICK f \in Jobs : Informed(f) /\ flow' = [flow EXCEPT ![w] = f]
    BY ContinuesInv
  <1>2. refund' = [refund EXCEPT ![flow[w].id] = [refund[flow[w].id] EXCEPT !.state = state, !.updatedAt = time]]
    BY DEF Writes, RefundInv, RefundTypeOK
  <1>3. \A i \in Ids :
          /\ refund'[i].key = refund[i].key
          /\ refund'[i].state = IF i = flow[w].id THEN state ELSE refund[i].state
    BY DEF Writes, RefundInv, RefundTypeOK
  <1>4. \A i \in Ids : Exists(i)' <=> Exists(i)
    BY <1>3 DEF Exists
  <1>5. OneRefundPerKey' /\ BooksFollowTheRail'
    BY <1>3, <1>4 DEF RefundInv, OneRefundPerKey, BooksFollowTheRail
  <1>6. InformedNext(f)
    BY <1>1, <1>4 DEF Informed, InformedNext, Jobs, Exists
  <1>7. RefundTypeOK'
    <2>1. refund' \in [Ids -> [state : {"NONE", "PENDING", "SUCCEEDED", "FAILED"},
                               amount : 0 .. Net, key : Keys \cup {NoKey},
                               updatedAt : 0 .. MaxTime]]
      BY DEF Writes, RefundInv, RefundTypeOK
    <2> QED BY <1>1, <2>1 DEF RefundInv, RefundTypeOK, Jobs
  <1> QED BY <1>1, <1>4, <1>5, <1>6, <1>7, Grows

LEMMA MarkInv ==
  ASSUME RefundInv, NEW w \in Flows, MarkSucceeded(w) \/ MarkFailed(w)
  PROVE  RefundInv'
  <1>1. flow[w].id \in Ids /\ Exists(flow[w].id) /\ Knows(w)
    BY DEF RefundInv, Knows, MarkSucceeded, MarkFailed, At, Executing
  <1>2. CASE MarkFailed(w)
    BY <1>1, <1>2, WritesInv DEF MarkFailed
  <1>3. CASE MarkSucceeded(w) /\ Writes(w, "SUCCEEDED") /\ Continues(w)
    <2>1. flow[w].id \in posted /\ UNCHANGED <<time, settled, sent, posted, lock, issued, upsets>>
      BY <1>1, <1>3 DEF MarkSucceeded, Knows, At
    <2> QED BY <1>1, <1>3, <2>1, WritesInv
  <1>4. CASE MarkSucceeded(w) /\ Goes(w, "failing") /\ UNCHANGED refund
    <2> DEFINE f == [flow[w] EXCEPT !.pc = "failing"]
    <2>1. f \in Jobs /\ flow' = [flow EXCEPT ![w] = f] /\ flow[w] \in Jobs
      BY <1>4, PcMoves DEF Labels
    <2>2. Informed(f)
      BY <1>1, <2>1 DEF Informed, Knows, Jobs
    <2>3. /\ lock' \in Requests \cup {NoFlow}
          /\ issued' \in 0 .. MaxRefunds /\ upsets' \in 0 .. MaxUpsets
          /\ UNCHANGED <<time, refund, settled, sent, posted>>
      BY <1>4 DEF MarkSucceeded, RefundInv, RefundTypeOK
    <2> HIDE DEF f
    <2> QED BY <2>1, <2>2, <2>3, FlowMoves
  <1> QED BY <1>2, <1>3, <1>4 DEF MarkSucceeded

LEMMA ThrowInv ==
  ASSUME RefundInv, NEW w \in Flows, Throw(w)
  PROVE  RefundInv'
  <1>1. /\ issued' \in 0 .. MaxRefunds /\ upsets' \in 0 .. MaxUpsets
        /\ UNCHANGED <<time, refund, settled, sent, posted>>
    BY BoundsAssumption DEF Throw, RefundInv, RefundTypeOK
  <1>2. CASE Becomes(w, NoJob) /\ Unlock(w)
    BY <1>1, <1>2, Idles, LockTyped, FlowMoves DEF Becomes
  <1>3. CASE /\ flow[w].pc \in Executing \ {"failing"}
             /\ Goes(w, "failing") /\ UNCHANGED lock
    <2> DEFINE f == [flow[w] EXCEPT !.pc = "failing"]
    <2>1. f \in Jobs /\ flow' = [flow EXCEPT ![w] = f] /\ flow[w] \in Jobs /\ Knows(w)
      BY <1>3, PcMoves DEF Labels
    <2>2. Informed(f)
      BY <1>3, <2>1 DEF Informed, Knows, Jobs, Executing
    <2>3. lock' \in Requests \cup {NoFlow}
      BY <1>3, LockTyped
    <2> HIDE DEF f
    <2> QED BY <1>1, <2>1, <2>2, <2>3, FlowMoves
  <1> QED BY <1>2, <1>3 DEF Throw

LEMMA CrashInv ==
  ASSUME RefundInv, NEW p \in Processes, Crash(p)
  PROVE  RefundInv'
  <1>1. RefundTypeOK'
    <2>1. flow' \in [Flows -> Jobs]
      BY Idles DEF Crash, RefundInv, RefundTypeOK, Jobs
    <2>2. lock' \in Requests \cup {NoFlow} /\ upsets' \in 0 .. MaxUpsets
      BY BoundsAssumption DEF Crash, RefundInv, RefundTypeOK
    <2> QED BY <2>1, <2>2 DEF Crash, RefundInv, RefundTypeOK, Jobs
  <1>2. OneRefundPerKey' /\ BooksFollowTheRail'
    BY DEF Crash, RefundInv, OneRefundPerKey, BooksFollowTheRail, Exists
  <1>3. ASSUME NEW v \in Flows PROVE Knows(v)'
    <2>1. UNCHANGED <<refund, settled, sent, posted>> /\ Knows(v)
      BY DEF Crash, RefundInv
    <2>2. flow'[v] = NoJob \/ flow'[v] = flow[v]
      BY DEF Crash
    <2>3. CASE flow'[v] = NoJob
      BY <2>3 DEF Knows, NoJob, Job, Executing
    <2>4. CASE flow'[v] = flow[v]
      BY <2>1, <2>4 DEF Knows, Exists
    <2> QED BY <2>2, <2>3, <2>4
  <1> QED BY <1>1, <1>2, <1>3 DEF RefundInv

LEMMA StillInv ==
  ASSUME RefundInv, Tick \/ UNCHANGED vars
  PROVE  RefundInv'
  <1>1. UNCHANGED <<refund, settled, sent, posted, lock, flow, issued, upsets>> /\ time' \in 0 .. MaxTime
    BY BoundsAssumption DEF Tick, vars, RefundInv, RefundTypeOK
  <1>2. RefundTypeOK'
    BY <1>1 DEF RefundInv, RefundTypeOK
  <1>3. OneRefundPerKey' /\ BooksFollowTheRail' /\ \A w \in Flows : Knows(w)'
    BY <1>1 DEF RefundInv, OneRefundPerKey, BooksFollowTheRail, Knows, Exists
  <1> QED BY <1>2, <1>3 DEF RefundInv

LEMMA NextInv ==
  ASSUME RefundInv, [Next]_vars
  PROVE  RefundInv'
  <1>1. ASSUME NEW w \in Requests, Issue(w) \/ Reserve(w) PROVE RefundInv'
    BY <1>1, IssueInv, BeginInv, ListInv, InsertInv DEF Reserve
  <1>2. ASSUME NEW w \in Flows, Execute(w) PROVE RefundInv'
    BY <1>2, LooksInv, RailInv, PostInv, MarkInv DEF Execute
  <1> QED BY <1>1, <1>2, ResumeInv, ThrowInv, CrashInv, StillInv DEF Next

(***************************************************************************)
(* The balance                                                             *)
(***************************************************************************)

\* What a table r reserves of the net for the refunds of S.
Counts(r, i) == r[i].state \in {"PENDING", "SUCCEEDED"}
UnitsOf(r, S) == {x \in S \X (1 .. Net) : Counts(r, x[1]) /\ x[2] <= r[x[1]].amount}

LEMMA UnitsFinite ==
  ASSUME NEW r, NEW S \in SUBSET Ids
  PROVE  IsFiniteSet(UnitsOf(r, S)) /\ Cardinality(UnitsOf(r, S)) \in Nat
  <1>1. IsFiniteSet(Ids) /\ IsFiniteSet(1 .. Net)
    BY BoundsAssumption, FS_Interval DEF Ids
  <1>2. IsFiniteSet(Ids \X (1 .. Net))
    BY <1>1, FS_Product
  <1>3. UnitsOf(r, S) \in SUBSET (Ids \X (1 .. Net))
    BY DEF UnitsOf
  <1>4. IsFiniteSet(UnitsOf(r, S))
    BY <1>2, <1>3, FS_Subset
  <1> QED BY <1>4, FS_CardinalityType

\* A refund that counts takes its amount.
LEMMA UnitsOfOne ==
  ASSUME NEW r, NEW i \in Ids, r[i].amount \in 0 .. Net
  PROVE  Cardinality(UnitsOf(r, {i})) = IF Counts(r, i) THEN r[i].amount ELSE 0
  <1>1. CASE ~Counts(r, i)
    <2>1. UnitsOf(r, {i}) = {}
      BY <1>1 DEF UnitsOf
    <2> QED BY <1>1, <2>1, FS_EmptySet
  <1>2. CASE Counts(r, i)
    <2> DEFINE a == r[i].amount
               U == UnitsOf(r, {i})
               f == [u \in 1 .. a |-> <<i, u>>]
    <2>1. a \in Nat /\ a <= Net
      BY BoundsAssumption
    <2>2. \A x \in U : x[1] = i /\ x[2] \in 1 .. a /\ x = <<i, x[2]>>
      BY <2>1 DEF UnitsOf
    <2>3. \A u \in 1 .. a : <<i, u>> \in U
      BY <1>2, <2>1, BoundsAssumption DEF UnitsOf
    <2> HIDE DEF U, a
    <2>4. f \in [1 .. a -> U]
      BY <2>3
    <2>5. \A u, v \in 1 .. a : f[u] = f[v] => u = v
      OBVIOUS
    <2>6. \A x \in U : \E u \in 1 .. a : f[u] = x
      BY <2>2
    <2>7. f \in Bijection(1 .. a, U)
      BY <2>4, <2>5, <2>6 DEF Bijection, Injection, Surjection, IsInjective
    <2>8. ExistsBijection(1 .. a, U)
      BY <2>7 DEF ExistsBijection
    <2>9. Cardinality(U) = a
      BY <2>1, <2>8, FS_CountingElements
    <2> QED BY <1>2, <2>9 DEF U, a
  <1> QED BY <1>1, <1>2

\* One row apart from the others.
LEMMA UnitsApart ==
  ASSUME NEW r, NEW i \in Ids
  PROVE  Cardinality(UnitsOf(r, Ids))
             = Cardinality(UnitsOf(r, Ids \ {i})) + Cardinality(UnitsOf(r, {i}))
  <1> DEFINE A == UnitsOf(r, Ids \ {i})
             B == UnitsOf(r, {i})
  <1>1. UnitsOf(r, Ids) = A \cup B /\ A \cap B = {}
    BY DEF UnitsOf
  <1>2. /\ IsFiniteSet(A) /\ Cardinality(A) \in Nat
        /\ IsFiniteSet(B) /\ Cardinality(B) \in Nat
    BY UnitsFinite
  <1> HIDE DEF A, B
  <1>3. Cardinality(A \cup B) = Cardinality(A) + Cardinality(B) - Cardinality(A \cap B)
    BY <1>2, FS_Union
  <1>4. Cardinality(A \cap B) = 0
    BY <1>1, FS_EmptySet
  <1>5. Cardinality(UnitsOf(r, Ids)) = Cardinality(A) + Cardinality(B)
    BY <1>1, <1>2, <1>3, <1>4
  <1> QED BY <1>5 DEF A, B

\* A step that writes one row keeps the balance if the row is failed or if the
\* trigger allowed its amount.
LEMMA OneRowWritten ==
  ASSUME NEW r, NEW q, NEW i \in Ids,
         r[i].amount \in 0 .. Net, q[i].amount \in 0 .. Net,
         \A j \in Ids \ {i} : q[j].state = r[j].state /\ q[j].amount = r[j].amount,
         Cardinality(UnitsOf(r, Ids)) <= Net,
         Counts(q, i) => Cardinality(UnitsOf(r, Ids \ {i})) + q[i].amount <= Net
  PROVE  Cardinality(UnitsOf(q, Ids)) <= Net
  <1> DEFINE others == Cardinality(UnitsOf(r, Ids \ {i}))
  <1>1. UnitsOf(q, Ids \ {i}) = UnitsOf(r, Ids \ {i})
    BY DEF UnitsOf, Counts
  <1>2. others \in Nat /\ Cardinality(UnitsOf(r, {i})) \in Nat
    BY UnitsFinite
  <1>3. Cardinality(UnitsOf(r, Ids)) = others + Cardinality(UnitsOf(r, {i}))
    BY UnitsApart
  <1>4. Cardinality(UnitsOf(q, Ids)) = others + Cardinality(UnitsOf(q, {i}))
    BY <1>1, UnitsApart
  <1>5. Cardinality(UnitsOf(q, {i})) = IF Counts(q, i) THEN q[i].amount ELSE 0
    BY UnitsOfOne
  <1> HIDE DEF others
  <1>6. others <= Net
    BY <1>2, <1>3, BoundsAssumption
  <1>7. CASE Counts(q, i)
    BY <1>4, <1>5, <1>7 DEF others
  <1>8. CASE ~Counts(q, i)
    BY <1>2, <1>4, <1>5, <1>6, <1>8
  <1> QED BY <1>7, <1>8

LEMMA TakenIs ==
  ASSUME NEW S
  PROVE  /\ Taken(S) = Cardinality(UnitsOf(refund, S))
         /\ Taken(S)' = Cardinality(UnitsOf(refund', S))
  <1>1. Units(S) = UnitsOf(refund, S) /\ Units(S)' = UnitsOf(refund', S)
    BY DEF Units, UnitsOf, Counts
  <1> QED BY <1>1 DEF Taken

\* What each executor believes of its refund's amount.
Agrees(f) == f.pc \in Executing => f.amount = refund[f.id].amount
AgreesNext(f) == f.pc \in Executing => f.amount = refund'[f.id].amount

\* One flow moves, amounts of rows that exist stay: the rest agree as before.
LEMMA StillAgree ==
  ASSUME BalanceInv, NEW w \in Flows, NEW f, AgreesNext(f),
         flow' = [flow EXCEPT ![w] = f],
         \A i \in Ids : Exists(i) => refund'[i].amount = refund[i].amount
  PROVE  \A v \in Flows : flow'[v].pc \in Executing
             => flow'[v].amount = refund'[flow'[v].id].amount
  <1> SUFFICES ASSUME NEW v \in Flows, flow'[v].pc \in Executing
               PROVE  flow'[v].amount = refund'[flow'[v].id].amount
    OBVIOUS
  <1>1. flow'[v] = IF v = w THEN f ELSE flow[v]
    BY DEF BalanceInv, RefundInv, RefundTypeOK
  <1>2. CASE v = w
    BY <1>1, <1>2 DEF AgreesNext
  <1>3. CASE v # w
    BY <1>1, <1>3 DEF BalanceInv, RefundInv, Knows
  <1> QED BY <1>2, <1>3

\* A step that writes no refund and moves one flow.
LEMMA BalanceMoves ==
  ASSUME BalanceInv, RefundInv', NEW w \in Flows, NEW f, Agrees(f),
         flow' = [flow EXCEPT ![w] = f], UNCHANGED refund
  PROVE  BalanceInv'
  <1>1. Taken(Ids)' <= Net
    BY TakenIs DEF BalanceInv, ReservedAtMostNet
  <1>2. AgreesNext(f)
    BY DEF Agrees, AgreesNext
  <1> QED BY <1>1, <1>2, StillAgree DEF BalanceInv, ReservedAtMostNet, RefundInv

\* What Goes, Becomes and Takes make of a flow.
LEMMA GoesAgrees ==
  ASSUME BalanceInv, NEW w \in Flows, NEW pc, Goes(w, pc),
         pc \in Executing => flow[w].pc \in Executing
  PROVE  \E f : Agrees(f) /\ flow' = [flow EXCEPT ![w] = f]
  <1> DEFINE f == [flow[w] EXCEPT !.pc = pc]
  <1>1. flow[w] \in Jobs
    BY DEF BalanceInv, RefundInv, RefundTypeOK, Jobs
  <1>2. flow' = [flow EXCEPT ![w] = f]
    BY DEF Goes
  <1>3. Agrees(f)
    BY <1>1 DEF BalanceInv, Agrees, Jobs
  <1> QED BY <1>2, <1>3

LEMMA TakesAgrees ==
  ASSUME NEW w \in Flows, NEW ids, Takes(w, ids)
  PROVE  \E f : Agrees(f) /\ flow' = [flow EXCEPT ![w] = f]
  BY DEF Takes, Becomes, Job, Agrees

LEMMA IdleAgrees ==
  Agrees(NoJob)
  BY DEF Agrees, NoJob, Job, Executing

LEMMA ContinuesAgrees ==
  ASSUME NEW w \in Flows, Continues(w)
  PROVE  \E f : /\ flow' = [flow EXCEPT ![w] = f]
                /\ f = NoJob \/ \E i \in flow[w].todo : f.amount = refund[i].amount /\ f.id = i
  BY DEF Continues, Takes, Becomes, Job

LEMMA IssueBalance ==
  ASSUME BalanceInv, RefundInv', NEW w \in Requests, Issue(w) \/ Begin(w) \/ Lock(w) \/ List(w)
  PROVE  BalanceInv'
  <1>1. UNCHANGED refund /\ w \in Flows
    BY DEF Issue, Begin, Lock, List, world, Flows
  <1>2. \E f : Agrees(f) /\ flow' = [flow EXCEPT ![w] = f]
    <2>1. CASE Issue(w)
      BY <2>1 DEF Issue, Becomes, Job, Agrees, Executing
    <2>2. CASE Begin(w)
      BY <1>1, <2>2, GoesAgrees DEF Begin, Executing
    <2>3. CASE Lock(w)
      BY <1>1, <2>3, GoesAgrees DEF Lock, Executing
    <2>4. CASE List(w)
      BY <2>4, IdleAgrees DEF List, Becomes, Job, Agrees, Executing
    <2> QED BY <2>1, <2>2, <2>3, <2>4
  <1> QED BY <1>1, <1>2, BalanceMoves

LEMMA InsertBalance ==
  ASSUME BalanceInv, RefundInv', NEW w \in Requests, Insert(w)
  PROVE  BalanceInv'
  <1>1. w \in Flows
    BY DEF Flows
  <1>2. CASE Becomes(w, NoJob) /\ UNCHANGED refund
    BY <1>1, <1>2, IdleAgrees, BalanceMoves DEF Becomes
  <1>3. ASSUME ~Refused(w), NEW i \in Ids, IsNew(i),
               refund' = [refund EXCEPT ![i] = [state |-> "PENDING",
                   amount |-> flow[w].amount, key |-> flow[w].key, updatedAt |-> time]],
               Becomes(w, Job("calling", flow[w].key, flow[w].amount, i, {}))
        PROVE  BalanceInv'
    <2>1. /\ flow[w].amount \in 0 .. Net /\ refund[i].amount \in 0 .. Net
          /\ refund'[i].amount = flow[w].amount /\ ~Exists(i)
          /\ \A j \in Ids \ {i} : refund'[j] = refund[j]
      BY <1>1, <1>3 DEF BalanceInv, RefundInv, RefundTypeOK, IsNew
    <2>2. Taken(Ids) + flow[w].amount <= Net
      <3>1. Ids \ {0} = Ids
        BY DEF Ids
      <3> QED BY <1>3, <3>1 DEF Refused, Balanced
    <2>3. Cardinality(UnitsOf(refund, Ids \ {i})) = Taken(Ids)
      <3>1. UnitsOf(refund, Ids \ {i}) = UnitsOf(refund, Ids)
        BY <2>1 DEF UnitsOf, Counts, Exists
      <3> QED BY <3>1, TakenIs
    <2>4. Taken(Ids)' <= Net
      BY <2>1, <2>2, <2>3, OneRowWritten, TakenIs DEF BalanceInv, ReservedAtMostNet
    <2> DEFINE f == Job("calling", flow[w].key, flow[w].amount, i, {})
    <2>5. AgreesNext(f)
      BY <2>1 DEF AgreesNext, Job
    <2>6. \A j \in Ids : Exists(j) => refund'[j].amount = refund[j].amount
      BY <2>1
    <2>7. flow' = [flow EXCEPT ![w] = f]
      BY <1>3 DEF Becomes
    <2> HIDE DEF f
    <2> QED BY <1>1, <2>4, <2>5, <2>6, <2>7, StillAgree DEF BalanceInv, ReservedAtMostNet, RefundInv
  <1> QED BY <1>2, <1>3 DEF Insert

LEMMA MarkBalance ==
  ASSUME BalanceInv, RefundInv', NEW w \in Flows, MarkSucceeded(w) \/ MarkFailed(w)
  PROVE  BalanceInv'
  <1> DEFINE i == flow[w].id
  <1>1. i \in Ids /\ Exists(i) /\ flow[w].amount = refund[i].amount /\ flow[w].pc \in Executing
    BY DEF BalanceInv, RefundInv, Knows, MarkSucceeded, MarkFailed, At, Executing
  <1>2. CASE Goes(w, "failing") /\ UNCHANGED refund
    BY <1>1, <1>2, GoesAgrees, BalanceMoves DEF Executing
  <1>3. ASSUME NEW state \in {"SUCCEEDED", "FAILED"}, Writes(w, state), Continues(w),
               state = "SUCCEEDED" => Balanced(i, flow[w].amount)
        PROVE  BalanceInv'
    <2>1. /\ \A j \in Ids : refund'[j].amount = refund[j].amount /\ refund[j].amount \in 0 .. Net
          /\ \A j \in Ids \ {i} : refund'[j].state = refund[j].state
          /\ refund'[i].state = state
      BY <1>1, <1>3 DEF Writes, BalanceInv, RefundInv, RefundTypeOK
    <2>2. state = "SUCCEEDED"
              => Cardinality(UnitsOf(refund, Ids \ {i})) + refund'[i].amount <= Net
      BY <1>1, <1>3, <2>1, TakenIs DEF Balanced
    <2>3. Counts(refund', i) => state = "SUCCEEDED"
      BY <2>1 DEF Counts
    <2>4. Taken(Ids)' <= Net
      <3>1. Cardinality(UnitsOf(refund, Ids)) <= Net
        BY TakenIs DEF BalanceInv, ReservedAtMostNet
      <3> HIDE DEF i
      <3>2. Cardinality(UnitsOf(refund', Ids)) <= Net
        BY <1>1, <2>1, <2>2, <2>3, <3>1, OneRowWritten
      <3> QED BY <3>2, TakenIs
    <2>5. PICK f : /\ flow' = [flow EXCEPT ![w] = f]
                   /\ f = NoJob \/ \E j \in flow[w].todo : f.amount = refund[j].amount /\ f.id = j
      BY <1>3, ContinuesAgrees
    <2>6. flow[w].todo \subseteq Ids
      BY DEF BalanceInv, RefundInv, RefundTypeOK
    <2>7. AgreesNext(f)
      BY <2>1, <2>5, <2>6 DEF AgreesNext, NoJob, Job, Executing
    <2> QED BY <2>1, <2>4, <2>5, <2>7, StillAgree DEF BalanceInv, ReservedAtMostNet, RefundInv
  <1>4. CASE MarkFailed(w)
    BY <1>3, <1>4 DEF MarkFailed
  <1>5. CASE MarkSucceeded(w)
    BY <1>2, <1>3, <1>5 DEF MarkSucceeded
  <1> QED BY <1>4, <1>5

LEMMA OthersBalance ==
  ASSUME BalanceInv, RefundInv', NEW w \in Flows,
         \/ RailReads(w) \/ RailRefunds(w) \/ PostFinds(w) \/ PostInserts(w) \/ Throw(w)
         \/ w \in Passes /\ ResumePending(w)
  PROVE  BalanceInv'
  <1>1. UNCHANGED refund
    BY DEF RailReads, RailRefunds, PostFinds, PostInserts, Throw, ResumePending, world
  <1>2. \E f : Agrees(f) /\ flow' = [flow EXCEPT ![w] = f]
    <2>1. CASE RailReads(w) \/ RailRefunds(w) \/ PostFinds(w) \/ PostInserts(w)
      <3>1. flow[w].pc \in Executing /\ \E pc : Goes(w, pc)
        BY <2>1 DEF RailReads, RailRefunds, PostFinds, PostInserts, At, Executing
      <3> QED BY <3>1, GoesAgrees
    <2>2. CASE Throw(w)
      BY <2>2, GoesAgrees, IdleAgrees DEF Throw, Becomes
    <2>3. CASE ResumePending(w)
      BY <2>3, TakesAgrees DEF ResumePending
    <2> QED BY <2>1, <2>2, <2>3
  <1> QED BY <1>1, <1>2, BalanceMoves

LEMMA CrashBalance ==
  ASSUME BalanceInv, RefundInv', (\E p \in Processes : Crash(p)) \/ Tick \/ UNCHANGED vars
  PROVE  BalanceInv'
  <1>1. UNCHANGED refund /\ \A v \in Flows : flow'[v] = NoJob \/ flow'[v] = flow[v]
    BY DEF Crash, Tick, vars
  <1>2. Taken(Ids)' <= Net
    BY <1>1, TakenIs DEF BalanceInv, ReservedAtMostNet
  <1>3. ASSUME NEW v \in Flows, flow'[v].pc \in Executing
        PROVE  flow'[v].amount = refund'[flow'[v].id].amount
    BY <1>1, <1>3 DEF BalanceInv, NoJob, Job, Executing
  <1> QED BY <1>2, <1>3 DEF BalanceInv, ReservedAtMostNet, RefundInv

LEMMA InitBalance == Init => BalanceInv
  <1> SUFFICES ASSUME Init PROVE BalanceInv
    OBVIOUS
  <1>1. UnitsOf(refund, Ids) = {}
    BY DEF Init, UnitsOf, Counts, NoRefund
  <1>2. Taken(Ids) <= Net
    BY <1>1, TakenIs, FS_EmptySet, BoundsAssumption
  <1> QED BY <1>2, InitInv DEF Init, BalanceInv, ReservedAtMostNet, RefundInv, NoJob, Job, Executing

LEMMA NextBalance ==
  ASSUME BalanceInv, [Next]_vars
  PROVE  BalanceInv'
  <1>1. RefundInv'
    BY NextInv DEF BalanceInv
  <1>2. ASSUME NEW w \in Requests, Issue(w) \/ Reserve(w) PROVE BalanceInv'
    BY <1>1, <1>2, IssueBalance, InsertBalance DEF Reserve
  <1>3. ASSUME NEW w \in Flows, Execute(w) \/ Throw(w) PROVE BalanceInv'
    BY <1>1, <1>3, OthersBalance, MarkBalance DEF Execute
  <1>4. ASSUME NEW w \in Passes, ResumePending(w) PROVE BalanceInv'
    BY <1>1, <1>4, OthersBalance DEF Flows
  <1> QED BY <1>1, <1>2, <1>3, <1>4, CrashBalance DEF Next

(***************************************************************************)
(* The theorems                                                            *)
(***************************************************************************)

\* resumePending may run a refund another process is executing: what each of
\* them knows of the rail and the ledger survives the other's steps.
THEOREM RefundInvHolds == Spec => []RefundInv
  BY InitInv, NextInv, PTL DEF Spec

\* Every variable keeps its type.
THEOREM RefundsTyped == Spec => []RefundTypeOK
  <1>1. RefundInv => RefundTypeOK
    BY DEF RefundInv
  <1> QED BY <1>1, RefundInvHolds, PTL

\* Two requests that looked their key up at once do not both get a refund.
THEOREM KeyedOnce == Spec => []OneRefundPerKey
  <1>1. RefundInv => OneRefundPerKey
    BY DEF RefundInv
  <1> QED BY <1>1, RefundInvHolds, PTL

\* A posting follows a payment by the rail, a success follows its posting,
\* whoever executes the refund, however often, and whatever crashes between.
THEOREM BooksNeverAhead == Spec => []BooksFollowTheRail
  <1>1. RefundInv => BooksFollowTheRail
    BY DEF RefundInv
  <1> QED BY <1>1, RefundInvHolds, PTL

\* The trigger and the lock together: whatever the order of inserts, late
\* successes and failures, what is not failed never exceeds the payment's net.
THEOREM NeverOverReserved == Spec => []ReservedAtMostNet
  <1>1. BalanceInv => ReservedAtMostNet
    BY DEF BalanceInv
  <1> QED BY <1>1, InitBalance, NextBalance, PTL DEF Spec
=============================================================================
