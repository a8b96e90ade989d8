----------------------------- MODULE OperatorKey -----------------------------
(***************************************************************************)
(* One operator key: the worker lease, the Postgres nonce sequencer, the   *)
(* record of operator transactions and the reconciler that closes or bumps *)
(* them, over a chain whose nodes may be behind.                           *)
(*                                                                         *)
(* Workers hold the lease and broadcast under its fencing token; Servers   *)
(* (the API's x402 paths) broadcast without one.  A signer is one of the   *)
(* flows of a process that broadcast, and they share its connection pool.  *)
(* A clock is kept as ages that stop growing where the code stops looking. *)
(***************************************************************************)
EXTENDS Naturals, Sequences, FiniteSets

CONSTANTS
    Workers,     \* chain workers, alive or replaced
    Servers,     \* API processes
    Signers,     \* flows that broadcast: loops of a worker, requests of a server
    HostOf,      \* the process of each signer
    Nobody,
    PoolSize,    \* connections of one process (createDatabase)
    FloorTtl,    \* FLOOR_TTL_MS
    Grace,       \* the reconciler's graceMs
    Lag,         \* a node has seen every broadcast this old
    MaxHold,     \* a broadcast holds the lock no longer: the RPC's timeouts
    MaxBumps,    \* MAX_BUMPS
    MaxCalls,    \* bound: broadcasts, so also rows
    MaxLeases,   \* bound: fencing tokens handed out
    MaxUpsets    \* bound: crashes, failed statements, dropped transactions

Ids == 1 .. MaxCalls
Attempts == 0 .. MaxBumps

ASSUME SignersAssumption ==
    /\ Nobody \notin Workers \cup Servers \cup Signers /\ Workers \cap Servers = {}
    /\ HostOf \in [Signers -> Workers \cup Servers]

\* Propagation lag is seconds, so the window is far longer than the problem.
ASSUME WindowsAssumption ==
    /\ FloorTtl \in Nat /\ Grace \in Nat /\ Lag \in Nat /\ MaxHold \in Nat
    /\ MaxHold + Lag <= FloorTtl
    /\ MaxHold < Grace

ASSUME BoundsAssumption ==
    /\ PoolSize \in Nat \ {0} /\ MaxBumps \in Nat
    /\ MaxCalls \in Nat /\ MaxLeases \in Nat /\ MaxUpsets \in Nat

VARIABLES
    lease,   \* the worker whose session holds the lease's advisory lock
    token,   \* worker_fencing.token
    fence,   \* the token each worker broadcasts under; 0 without one
    lock,    \* the signer whose transaction holds the key's advisory lock
    floor,   \* operator_nonces: next nonce and age; next = 0 is no row
    row,     \* operator_transactions
    flow,    \* the broadcast each signer is in
    pass,    \* the reconciler of each worker
    pool,    \* transactions some node has accepted
    mined,   \* the transactions that used nonces 0, 1, ...
    upsets   \* failures so far (bound)

keeping == <<lease, token, fence>>
chain == <<pool, mined>>
vars == <<keeping, lock, floor, row, flow, pass, chain, upsets>>

NoFloor == [next |-> 0, age |-> 0]
NoRow == [status |-> "none", nonce |-> 0, try |-> 0, bumps |-> 0, age |-> 0]
Open == {"allocated", "submitted"}

\* A transaction: the row whose call it carries, its fee attempt (its hash is
\* both), the nonce it bids and how long ago it was broadcast.
Tx(i, n, t, a) == [id |-> i, nonce |-> n, try |-> t, age |-> a]

Flow(pc, i, n, a, e) == [pc |-> pc, id |-> i, nonce |-> n, age |-> a, alive |-> e]
NoFlow == Flow("idle", 0, 0, 0, TRUE)
Pass(pc, i, r, v) == [pc |-> pc, id |-> i, row |-> r, verdict |-> v]
NoPass == Pass("idle", 0, NoRow, "none")

\* The key's mined transaction count.
Confirmed == Len(mined)

\* eth_getTransactionCount(pending) of a node that has seen S.
PendingCount(S, n) ==
    /\ n >= Confirmed /\ \A t \in S : t.nonce # n
    /\ \A m \in Confirmed .. n - 1 : \E t \in S : t.nonce = m

\* The transactions every node has seen.
Known == {t \in pool : t.age >= Lag}

\* A node answers with what it has seen, between what all have and what any has.
Observed(n) ==
    \E S \in SUBSET pool : Known \subseteq S /\ PendingCount(S, n)

(***************************************************************************)
(* acquireWorkerLease                                                      *)
(***************************************************************************)

\* The lock is polled, and the next token is taken under it.
Acquire(w) ==
    /\ lease = Nobody /\ fence[w] = 0 /\ token < MaxLeases
    /\ lease' = w
    /\ token' = token + 1 /\ fence' = [fence EXCEPT ![w] = token + 1]
    /\ UNCHANGED <<lock, floor, row, flow, pass, chain, upsets>>

\* The session drops and the worker does not notice.
LoseLease(w) ==
    /\ lease = w /\ fence[w] # 0 /\ upsets < MaxUpsets
    /\ lease' = Nobody /\ upsets' = upsets + 1
    /\ UNCHANGED <<token, fence, lock, floor, row, flow, pass, chain>>

\* The process h ends: its sessions close, its memory is gone.
Ends(h) ==
    /\ lease' = IF lease = h THEN Nobody ELSE lease
    /\ fence' = IF h \in Workers THEN [fence EXCEPT ![h] = 0] ELSE fence
    /\ lock' = IF lock # Nobody /\ HostOf[lock] = h THEN Nobody ELSE lock
    /\ flow' = [s \in Signers |-> IF HostOf[s] = h THEN NoFlow ELSE flow[s]]
    /\ pass' = IF h \in Workers THEN [pass EXCEPT ![h] = NoPass] ELSE pass
    /\ UNCHANGED <<token, floor, row, chain>>

\* The watchdog finds the lock gone; onLost exits.
Watchdog(w) == fence[w] # 0 /\ lease # w /\ Ends(w) /\ UNCHANGED upsets

Crash(h) == upsets < MaxUpsets /\ Ends(h) /\ upsets' = upsets + 1

(***************************************************************************)
(* PostgresNonceSequencer.broadcast                                        *)
(***************************************************************************)
At(s, pc) == flow[s].pc = pc
Becomes(s, f) == flow' = [flow EXCEPT ![s] = f]
Goes(s, pc) ==
    Becomes(s, Flow(pc, flow[s].id, flow[s].nonce, flow[s].age, flow[s].alive))

\* A broadcast keeps one connection of its process for its transaction; the
\* outbox has two more of its own, one of which the lock's holder always finds.
InTransaction(s) == flow[s].pc \notin {"idle", "clearing"} /\ flow[s].alive
HasConnection(h) ==
    Cardinality({s \in Signers : HostOf[s] = h /\ InTransaction(s)}) < PoolSize

\* Bound: a row is left for every broadcast that has none yet.
Waiting == {s \in Signers : flow[s].pc \in {"locking", "checking", "reading", "allocating"}}
RowLeft == Cardinality(Waiting) < Cardinality({i \in Ids : row[i].status = "none"})

Broadcast(s) ==
    /\ At(s, "idle") /\ (HostOf[s] \in Workers => fence[HostOf[s]] # 0)
    /\ RowLeft /\ HasConnection(HostOf[s])
    /\ Goes(s, "locking")
    /\ UNCHANGED <<keeping, lock, floor, row, pass, chain, upsets>>

Lock(s) ==
    /\ At(s, "locking") /\ lock = Nobody
    /\ lock' = s /\ Goes(s, "checking")
    /\ UNCHANGED <<keeping, floor, row, pass, chain, upsets>>

IsCurrent(s) == HostOf[s] \in Servers \/ fence[HostOf[s]] = token

\* Mutant: the lock belongs to the session and outlives the transaction.
Unlock_Never(s) == UNCHANGED lock

\* The transaction ends; its lock is free unless it was lost before.
Unlock(s) == lock' = IF lock = s THEN Nobody ELSE lock

\* assertCurrent, and the error path of a superseded worker.  worker_fencing is
\* read on a connection of its own, while the transaction keeps the one it has.
AssertCurrent(s) ==
    /\ At(s, "checking") /\ (HostOf[s] \in Workers => HasConnection(HostOf[s]))
    /\ IF IsCurrent(s) THEN Goes(s, "reading") /\ UNCHANGED lock
       ELSE Goes(s, "clearing") /\ Unlock(s)
    /\ UNCHANGED <<keeping, floor, row, pass, chain, upsets>>

\* Mutant: the floor is never believed.
Trusted_Never == 0

Trusted == IF floor.age < FloorTtl THEN floor.next ELSE 0

ReadFloor(s) ==
    /\ At(s, "reading") /\ flow[s].alive
    /\ Becomes(s, Flow("allocating", 0, Trusted, 0, TRUE))
    /\ UNCHANGED <<keeping, lock, floor, row, pass, chain, upsets>>

\* Ids are made in the order of creation.
IsNew(i) == row[i].status = "none" /\ \A j \in Ids : j < i => row[j].status # "none"

Allocated(n) == [status |-> "allocated", nonce |-> n, try |-> 0, bumps |-> 0, age |-> 0]

\* Mutant: nothing is written before the send.
Insert_Later(i, n) == UNCHANGED row

\* The outbox row, committed before the send.
Insert(i, n) == row' = [row EXCEPT ![i] = Allocated(n)]

Allocate(s) ==
    /\ At(s, "allocating")
    /\ \E i \in Ids, seen \in 0 .. MaxCalls :
          /\ IsNew(i) /\ Observed(seen)
          /\ LET n == IF seen >= flow[s].nonce THEN seen ELSE flow[s].nonce
             IN  /\ Insert(i, n)
                 /\ Becomes(s, Flow("sending", i, n, flow[s].age, flow[s].alive))
    /\ UNCHANGED <<keeping, lock, floor, pass, chain, upsets>>

\* A node takes a transaction whose nonce is unused and not bid for, that it knows.
Accepts(n) == n >= Confirmed /\ \A t \in Known : t.nonce # n

\* The node accepts, and the reply arrives; or it does not (an upset).
Send(s) ==
    /\ At(s, "sending") /\ Accepts(flow[s].nonce)
    /\ pool' = pool \cup {Tx(flow[s].id, flow[s].nonce, 0, 0)}
    /\ \/ Goes(s, "recording") /\ UNCHANGED upsets
       \/ upsets < MaxUpsets /\ Goes(s, "closing") /\ upsets' = upsets + 1
    /\ UNCHANGED <<keeping, lock, floor, row, pass, mined>>

Bidden(n) == n < Confirmed \/ \E t \in pool : t.nonce = n

\* The node refuses the nonce, or cannot be reached (an upset).
Refuse(s) ==
    /\ At(s, "sending")
    /\ \/ Bidden(flow[s].nonce) /\ UNCHANGED upsets
       \/ upsets < MaxUpsets /\ upsets' = upsets + 1
    /\ Goes(s, "closing")
    /\ UNCHANGED <<keeping, lock, floor, row, pass, chain>>

\* recordHash: unconditional, and a failure (an upset) is swallowed.
Record(s) ==
    /\ At(s, "recording") /\ Goes(s, "committing")
    /\ LET r == row[flow[s].id]
       IN  \/ /\ row' = [row EXCEPT ![flow[s].id] =
                            [status |-> "submitted", nonce |-> r.nonce, try |-> 0,
                             bumps |-> r.bumps, age |-> 0]]
              /\ UNCHANGED upsets
           \/ upsets < MaxUpsets /\ upsets' = upsets + 1 /\ UNCHANGED row
    /\ UNCHANGED <<keeping, lock, floor, pass, chain>>

\* A row keeps all but its status.
Marked(r, status) ==
    [status |-> status, nonce |-> r.nonce, try |-> r.try, bumps |-> r.bumps, age |-> r.age]

\* The send failed: close the row (a failure is swallowed), and roll back.
Close(s) ==
    /\ At(s, "closing") /\ Goes(s, "clearing") /\ Unlock(s)
    /\ \/ /\ row' = [row EXCEPT ![flow[s].id] = Marked(row[flow[s].id], "abandoned")]
          /\ UNCHANGED upsets
       \/ upsets < MaxUpsets /\ upsets' = upsets + 1 /\ UNCHANGED row
    /\ UNCHANGED <<keeping, floor, pass, chain>>

\* The floor and the lock's release are one commit.
Commit(s) ==
    /\ At(s, "committing") /\ flow[s].alive
    /\ floor' = [next |-> flow[s].nonce + 1, age |-> flow[s].age]
    /\ Becomes(s, NoFlow) /\ Unlock(s)
    /\ UNCHANGED <<keeping, row, pass, chain, upsets>>

\* The transaction's connection drops: the lock is free, the process goes on.
LoseConnection(s) ==
    /\ lock = s /\ upsets < MaxUpsets
    /\ lock' = Nobody /\ upsets' = upsets + 1
    /\ Becomes(s, Flow(flow[s].pc, flow[s].id, flow[s].nonce, flow[s].age, FALSE))
    /\ UNCHANGED <<keeping, floor, row, pass, chain>>

\* The next statement on the lost connection throws.
Broken(s) ==
    /\ flow[s].pc \in {"reading", "committing"} /\ ~flow[s].alive
    /\ Goes(s, "clearing")
    /\ UNCHANGED <<keeping, lock, floor, row, pass, chain, upsets>>

\* After any error, outside the lock; the error is the caller's.
Clear(s) ==
    /\ At(s, "clearing") /\ HasConnection(HostOf[s])
    /\ floor' = NoFloor /\ Becomes(s, NoFlow)
    /\ UNCHANGED <<keeping, lock, row, pass, chain, upsets>>

(***************************************************************************)
(* OperatorTransactionReconciler                                           *)
(***************************************************************************)
In(w, pc) == pass[w].pc = pc
Turns(w, p) == pass' = [pass EXCEPT ![w] = p]
Leaves(w) == Turns(w, NoPass)
Notes(w, pc, v) == Turns(w, Pass(pc, pass[w].id, pass[w].row, v))

\* A row of listOpen past its grace, as the list has it.  The rows of one pass
\* share nothing, so a pass is about one row, read any time before.
Pick(w, i) ==
    /\ In(w, "idle") /\ fence[w] # 0 /\ HasConnection(w)
    /\ row[i].status \in Open /\ row[i].age >= Grace
    /\ Turns(w, Pass(IF row[i].status = "submitted" THEN "asking" ELSE "counting",
                     i, row[i], "none"))
    /\ UNCHANGED <<keeping, lock, floor, row, flow, chain, upsets>>

Landed(k, i, t) == k \in DOMAIN mined /\ mined[k].id = i /\ mined[k].try = t
HasReceipt(i, t) == \E k \in 1 .. Len(mined) : Landed(k, i, t)

\* The receipt of the hash the list has.
AskReceipt(w) ==
    /\ In(w, "asking")
    /\ LET p == pass[w]
       IN  \/ ~HasReceipt(p.id, p.row.try) /\ Notes(w, "counting", "none")
           \/ \E k \in 1 .. Len(mined) :
                 /\ Landed(k, p.id, p.row.try)
                 /\ Notes(w, "resolving", IF mined[k].ok THEN "finalized" ELSE "reverted")
    /\ UNCHANGED <<keeping, lock, floor, row, flow, chain, upsets>>

\* Mutant: one nonce too far.
Passed_Beyond(n) == Confirmed > n + 1

\* Mutant: the chain has moved up to the nonce, not past it.
Passed_AtNonce(n) == Confirmed >= n

Passed(n) == Confirmed > n

\* The mined count, read after the receipt.
Count(w) ==
    /\ In(w, "counting")
    /\ LET r == pass[w].row
       IN  IF r.status = "allocated" THEN Notes(w, "resolving", "abandoned")
           ELSE IF Passed(r.nonce) THEN Notes(w, "resolving", "replaced")
           ELSE IF r.bumps < MaxBumps THEN Notes(w, "bumping", "none")
           ELSE Leaves(w)
    /\ UNCHANGED <<keeping, lock, floor, row, flow, chain, upsets>>

Resolve(w) ==
    /\ In(w, "resolving") /\ HasConnection(w) /\ Leaves(w)
    /\ row' = [row EXCEPT ![pass[w].id] = Marked(row[pass[w].id], pass[w].verdict)]
    /\ UNCHANGED <<keeping, lock, floor, flow, chain, upsets>>

\* Mutant: a replacement bids the next free nonce.
BumpNonce_Next(r) == IF Confirmed > r.nonce THEN Confirmed ELSE r.nonce + 1

BumpNonce(r) == r.nonce

\* The same call with fees raised from the hash the list has; the node no longer
\* finds that hash once it was dropped, and refuses a spent nonce or a known hash.
Replacement(p) == Tx(p.id, BumpNonce(p.row), p.row.try + 1, 0)
Replaceable(p) ==
    /\ BumpNonce(p.row) >= Confirmed
    /\ \E t \in pool : t.id = p.id /\ t.try = p.row.try
    /\ \A t \in pool : ~(t.id = p.id /\ t.try = p.row.try + 1)

Bump(w) ==
    /\ In(w, "bumping")
    /\ IF Replaceable(pass[w])
       THEN pool' = pool \cup {Replacement(pass[w])} /\ Notes(w, "bumped", "none")
       ELSE UNCHANGED pool /\ Leaves(w)
    /\ UNCHANGED <<keeping, lock, floor, row, flow, mined, upsets>>

\* The hash and a new grace; bump_count + 1; whatever the row has become.
RecordBump(w) ==
    /\ In(w, "bumped") /\ HasConnection(w) /\ Leaves(w)
    /\ LET r == row[pass[w].id]
       IN  row' = [row EXCEPT ![pass[w].id] =
                     [status |-> r.status, nonce |-> r.nonce, try |-> pass[w].row.try + 1,
                      bumps |-> r.bumps + 1, age |-> 0]]
    /\ UNCHANGED <<keeping, lock, floor, flow, chain, upsets>>

\* A read or a write fails: the pass ends there, the next one starts over.
PassFails(w) ==
    /\ ~In(w, "idle") /\ upsets < MaxUpsets
    /\ Leaves(w) /\ upsets' = upsets + 1
    /\ UNCHANGED <<keeping, lock, floor, row, flow, chain>>

(***************************************************************************)
(* The chain and the clock                                                 *)
(***************************************************************************)
\* One transaction of those that bid the next nonce; the others are void.
Mine ==
    /\ \E t \in pool, ok \in BOOLEAN :
          /\ t.nonce = Confirmed
          /\ mined' = Append(mined, [id |-> t.id, try |-> t.try, ok |-> ok])
    /\ pool' = {t \in pool : t.nonce # Confirmed}
    /\ UNCHANGED <<keeping, lock, floor, row, flow, pass, upsets>>

\* The mempool drops a transaction it had accepted.
Drop ==
    /\ upsets < MaxUpsets /\ upsets' = upsets + 1
    /\ \E t \in pool : pool' = pool \ {t}
    /\ UNCHANGED <<keeping, lock, floor, row, flow, pass, mined>>

Older(a, cap) == IF a < cap THEN a + 1 ELSE a

Holding(f) == f.pc \in {"allocating", "sending", "recording", "committing"}

AgedRow(r) == [status |-> r.status, nonce |-> r.nonce, try |-> r.try, bumps |-> r.bumps,
               age |-> Older(r.age, Grace)]
AgedFlow(f) == IF Holding(f) THEN Flow(f.pc, f.id, f.nonce, f.age + 1, f.alive) ELSE f

Tick ==
    /\ \A s \in Signers : Holding(flow[s]) => flow[s].age < MaxHold
    /\ floor' = [next |-> floor.next, age |-> Older(floor.age, FloorTtl)]
    /\ row' = [i \in Ids |-> AgedRow(row[i])]
    /\ pool' = {Tx(t.id, t.nonce, t.try, Older(t.age, Lag)) : t \in pool}
    /\ flow' = [s \in Signers |-> AgedFlow(flow[s])]
    /\ UNCHANGED <<keeping, lock, pass, mined, upsets>>

(***************************************************************************)
(* Specification                                                           *)
(***************************************************************************)
Init ==
    /\ lease = Nobody /\ token = 0 /\ fence = [w \in Workers |-> 0]
    /\ lock = Nobody /\ floor = NoFloor
    /\ row = [i \in Ids |-> NoRow]
    /\ flow = [s \in Signers |-> NoFlow] /\ pass = [w \in Workers |-> NoPass]
    /\ pool = {} /\ mined = <<>> /\ upsets = 0

Sequencing(s) ==
    \/ AssertCurrent(s) \/ ReadFloor(s) \/ Allocate(s) \/ Send(s) \/ Refuse(s)
    \/ Record(s) \/ Close(s) \/ Commit(s) \/ Broken(s) \/ Clear(s)

Reconciling(w) ==
    \/ AskReceipt(w) \/ Count(w) \/ Resolve(w) \/ Bump(w) \/ RecordBump(w)

Next ==
    \/ \E w \in Workers : \/ Acquire(w) \/ LoseLease(w) \/ Watchdog(w) \/ PassFails(w)
                          \/ Reconciling(w) \/ \E i \in Ids : Pick(w, i)
    \/ \E s \in Signers : Broadcast(s) \/ Lock(s) \/ Sequencing(s) \/ LoseConnection(s)
    \/ \E h \in Workers \cup Servers : Crash(h)
    \/ Mine \/ Drop \/ Tick

\* Advisory locks queue; a handler and a pass run on; each pass visits every open
\* row; a waiting worker polls; blocks are mined and the clock moves.
Fairness ==
    /\ \A s \in Signers : SF_vars(Lock(s)) /\ WF_vars(Sequencing(s))
    /\ \A w \in Workers : WF_vars(Reconciling(w)) /\ \A i \in Ids : SF_vars(Pick(w, i))
    /\ \A w \in Workers : WF_vars(Acquire(w)) /\ WF_vars(Watchdog(w))
    /\ WF_vars(Mine) /\ WF_vars(Tick)

Spec == Init /\ [][Next]_vars
LiveSpec == Spec /\ Fairness

(***************************************************************************)
(* Properties                                                              *)
(***************************************************************************)
Statuses == Open \cup {"none", "finalized", "reverted", "replaced", "abandoned"}
Rows == [status : Statuses, nonce : Nat, try : Nat, bumps : Nat, age : Nat]
Txs == [id : Ids, nonce : Nat, try : Nat, age : Nat]
FlowLabels == {"idle", "locking", "checking", "reading", "allocating", "sending",
               "recording", "committing", "closing", "clearing"}
PassLabels == {"idle", "asking", "counting", "resolving", "bumping", "bumped"}
Verdicts == {"none", "finalized", "reverted", "replaced", "abandoned"}

\* Every variable stays in its domain.
OperatorTypeOK ==
    /\ lease \in Workers \cup {Nobody} /\ token \in Nat
    /\ fence \in [Workers -> Nat]
    /\ lock \in Signers \cup {Nobody}
    /\ floor \in [next : Nat, age : Nat]
    /\ row \in [Ids -> Rows]
    /\ flow \in [Signers -> [pc : FlowLabels, id : Ids \cup {0}, nonce : Nat,
                            age : Nat, alive : BOOLEAN]]
    /\ pass \in [Workers -> [pc : PassLabels, id : Ids \cup {0}, row : Rows,
                            verdict : Verdicts]]
    /\ pool \subseteq Txs
    /\ mined \in Seq([id : Ids, try : Nat, ok : BOOLEAN])
    /\ upsets \in Nat

\* Every variable has its type, and whatever crashed in between, a transaction
\* that a node holds or that used a nonce has a row with that nonce: the outbox
\* insert comes before the send and nothing later takes the nonce away ("this row
\* is the only trace").
EveryBroadcastIsOnRecord ==
    /\ OperatorTypeOK
    /\ \A t \in pool : row[t.id].status # "none" /\ row[t.id].nonce = t.nonce
    /\ \A k \in 1 .. Len(mined) :
          row[mined[k].id].status # "none" /\ row[mined[k].id].nonce = k - 1

\* However often a call was bumped, by however many workers, and whichever of its
\* hashes is mined, the chain executes it at most once.
CallMinedOnce ==
    \A j, k \in 1 .. Len(mined) : mined[j].id = mined[k].id => j = k

BidsFor(i, n) ==
    \/ \E t \in pool : t.id = i /\ t.nonce = n
    \/ n < Confirmed /\ mined[n + 1].id = i

\* Concurrent processes, a deploy that overlaps and nodes that are behind never
\* make two calls bid for one nonce, as long as nothing fails: the floor holds
\* while the nodes catch up and the nodes have caught up when it expires.
SlotsAreNotShared ==
    upsets = 0 =>
        \A i, j \in Ids : \A n \in 0 .. MaxCalls : BidsFor(i, n) /\ BidsFor(j, n) => i = j

\* The reconciler closes a row only as the chain settled it, although it decides
\* from a list read earlier and writes without a condition: a finalized or
\* reverted call was mined that way, and the nonce of a replaced one is spent.
VerdictsAreTrue ==
    \A i \in Ids :
        /\ row[i].status \in {"finalized", "reverted"} =>
              \E k \in 1 .. Len(mined) :
                  mined[k].id = i /\ mined[k].ok = (row[i].status = "finalized")
        /\ row[i].status = "replaced" => Confirmed > row[i].nonce

\* A row is replaced only when something else used its nonce ("no receipt for our
\* hash, yet the chain moved past the nonce, so something else used it").
ReplacedMeansAnother ==
    \A i \in Ids :
        row[i].status = "replaced" => mined[row[i].nonce + 1].id # i

\* The flows of a worker hold all its connections, and the one that has the
\* key's lock needs a further one to read its fencing token.
Exhausted ==
    \E s \in Signers :
        /\ lock = s /\ At(s, "checking")
        /\ HostOf[s] \in Workers /\ ~HasConnection(HostOf[s])

\* A broadcast that waits for the key's lock is answered, even if holders are
\* superseded, die or lose their connection, unless the flows of a worker have
\* taken every connection and wait for each other for good.  nonce-sequencer.ts
\* gives the outbox a pool of its own against this, and reads the token from the
\* pool that the waiting submitters hold.
BroadcastsEnd ==
    \A s \in Signers : At(s, "locking") ~> (At(s, "idle") \/ []Exhausted)

\* The mempool dropped the row's transaction, and nothing took its nonce.
Dropped(i) ==
    /\ Confirmed <= row[i].nonce
    /\ \A t \in pool : ~(t.id = i /\ t.try = row[i].try)

\* A worker takes over from one that died while a lease is left (the bound).
NoWorker == token = MaxLeases /\ \A w \in Workers : fence[w] = 0

\* An open row is closed in the end, whichever worker died in a pass, unless its
\* bumps are used up or its transaction was dropped (those are only reported), or
\* its worker is stuck without a connection.
RowsResolve ==
    \A i \in Ids :
        row[i].status \in Open ~>
            row[i].status \notin Open \/ row[i].bumps >= MaxBumps \/ Dropped(i) \/ NoWorker
            \/ []Exhausted

=============================================================================
