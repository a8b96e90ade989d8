-------------------------- MODULE SettlementIndexer --------------------------
(***************************************************************************)
(* SettlementIndexer.tick: the loop that reads a router's                  *)
(* PaymentCompleted logs and hands each settled one to the engine.         *)
(*                                                                         *)
(* A settlement is the log of one transaction.  Where the engine recorded  *)
(* the hash of a payment's settlement, its receipt may be read too.        *)
(***************************************************************************)
EXTENDS ChainView

CONSTANTS
    Settlements,    \* transactions that settle a payment
    Strangers,      \* those the engine knows no payment for
    Submitted,      \* those of which the engine recorded the hash, not receiptWindowMs ago
    ReceiptLimit,   \* receiptLimit
    ScanRange,      \* blockRange
    SettlementPage, \* probeLimit
    MaxFailures     \* bound: passes that throw or die, refusals, receipts not read

ASSUME IndexerAssumption ==
    /\ Settlements = Txs /\ Strangers \subseteq Settlements
    /\ Submitted \subseteq Settlements \ Strangers
    /\ ReceiptLimit \in Nat \ {0} /\ ScanRange \in Nat \ {0} /\ SettlementPage \in Nat \ {0} /\ MaxFailures \in Nat

VARIABLES
    event,        \* settlement_events
    scanned,      \* watcher_cursors of the router
    index,        \* where the loop stands
    completed,    \* settlements the engine was told of and took
    refused,      \* settlements on which the engine threw what is not retried
    failures      \* failed passes so far

indexer == <<chain, event, scanned, index, completed, refused, failures>>

NoEvent == [status |-> "NONE", height |-> 0, hash |-> 0, done |-> FALSE]
Logged(h) == [status |-> "PENDING", height |-> h, hash |-> hash[h], done |-> FALSE]

\* What a pass knows: the head and cursor it started from, the rows it judges or
\* hands over, the statuses it will write.
Index(pc, top, start, rows, updates) ==
    [pc |-> pc, top |-> top, start |-> start, rows |-> rows, updates |-> updates]
NoIndex == Index("idle", 0, 0, {}, {})

Stands(pc) == index.pc = pc
Step(pc, rows, updates) == index' = Index(pc, index.top, index.start, rows, updates)

IndexStart ==
    /\ Stands("idle")
    /\ index' = Index("scanning", head, scanned, {}, {})
    /\ UNCHANGED <<chain, event, scanned, completed, refused, failures>>

IndexTo == LowOf(index.top, index.start + ScanRange)

\* record: nothing on conflict, so an orphan does not come back.
Records(X) == event' = [x \in Settlements |->
                  IF x \in X /\ event[x].status = "NONE" THEN Logged(at[x]) ELSE event[x]]

ScanLogs ==
    /\ Stands("scanning")
    /\ Records({x \in Settlements : at[x] \in index.start + 1 .. IndexTo})
    /\ Step("reading", {}, {})
    /\ UNCHANGED <<chain, scanned, completed, refused, failures>>

\* listUnindexedTransactions: recorded hashes without a row.
Unindexed == {x \in Submitted : event[x].status = "NONE"}

\* A page of them (newest payment first, whatever its transaction does) is read; a
\* receipt that cannot be read ends that, and does not stop the pass.
ReadReceipts ==
    /\ Stands("reading")
    /\ \E X \in SUBSET Unindexed :
          \/ /\ Cardinality(X) = LowOf(ReceiptLimit, Cardinality(Unindexed))
             /\ UNCHANGED failures
          \/ /\ Cardinality(X) < LowOf(ReceiptLimit, Cardinality(Unindexed))
             /\ failures < MaxFailures /\ failures' = failures + 1
          /\ Records({x \in X : at[x] > 0})
    /\ Step("listing", {}, {})
    /\ UNCHANGED <<chain, scanned, completed, refused>>

Listed(x) == [id |-> x, row |-> event[x]]
Written(x, status) == [id |-> x, status |-> status]

OldestOf(X, S) ==
    /\ S \subseteq X /\ Cardinality(S) = LowOf(SettlementPage, Cardinality(X))
    /\ \A x \in S, y \in X \ S : event[x].height <= event[y].height

\* Mutant: a row that was not judged inside the reorg watch is not judged any more.
JudgedEvent_Watched(x) == InReorgWatch(event[x].height, index.top)

\* A pending row is judged at any age, a confirmed one inside the reorg watch.
JudgedEvent(x) == event[x].status = "PENDING" \/ InReorgWatch(event[x].height, index.top)

ListEvents ==
    /\ Stands("listing")
    /\ \E S \in SUBSET Settlements :
          /\ OldestOf({x \in Settlements : event[x].status \in {"PENDING", "CONFIRMED"}}, S)
          /\ Step("probing", {Listed(x) : x \in {x \in S : JudgedEvent(x)}}, {})
    /\ UNCHANGED <<chain, event, scanned, completed, refused, failures>>

ProbeEvents ==
    /\ Stands("probing") /\ index.rows # {}
    /\ LET h == Min({j.row.height : j \in index.rows})
           js == {j \in index.rows : j.row.height = h}
           changed == {j \in js : Classify(j.row, index.top) # j.row.status}
       IN  Step("probing", index.rows \ js, index.updates \cup
                {Written(j.id, Classify(j.row, index.top)) : j \in changed})
    /\ UNCHANGED <<chain, event, scanned, completed, refused, failures>>

\* One statement a row.
UpdateEvent ==
    /\ Stands("probing") /\ index.rows = {}
    /\ \E u \in index.updates :
          /\ event' = [event EXCEPT ![u.id].status = u.status]
          /\ Step("probing", {}, index.updates \ {u})
    /\ UNCHANGED <<chain, scanned, completed, refused, failures>>

\* listCompletable.
Completable(x) == event[x].status = "CONFIRMED" /\ ~event[x].done

ListCompletable ==
    /\ Stands("probing") /\ index.rows = {} /\ index.updates = {}
    /\ \E S \in SUBSET Settlements :
          /\ OldestOf({x \in Settlements : Completable(x)}, S)
          /\ Step("handing", {Listed(x) : x \in S}, {})
    /\ UNCHANGED <<chain, event, scanned, completed, refused, failures>>

\* The oldest listed settlement goes to the engine, which takes it, does not know it, or
\* throws: what is not a retryable error of its own, a raw one included, is an answer
\* too.  The row is marked either way, by a statement of its own.
Hand ==
    /\ Stands("handing")
    /\ \E j \in index.rows :
          /\ \A k \in index.rows : j.row.height <= k.row.height
          /\ \/ /\ completed' = IF j.id \in Strangers THEN completed ELSE completed \cup {j.id}
                /\ UNCHANGED <<refused, failures>>
             \/ /\ j.id \notin Strangers /\ failures < MaxFailures
                /\ refused' = refused \cup {j.id} /\ failures' = failures + 1
                /\ UNCHANGED completed
          /\ Step("marking", index.rows, {Written(j.id, "DONE")})
    /\ UNCHANGED <<chain, event, scanned>>

MarkCompleted ==
    /\ Stands("marking")
    /\ \E u \in index.updates :
          /\ event' = [event EXCEPT ![u.id].done = TRUE]
          /\ Step("handing", {j \in index.rows : j.id # u.id}, {})
    /\ UNCHANGED <<chain, scanned, completed, refused, failures>>

\* Written last.
SetScanned ==
    /\ Stands("handing") /\ index.rows = {}
    /\ scanned' = TopOf(scanned, IndexTo)
    /\ index' = NoIndex
    /\ UNCHANGED <<chain, event, completed, refused, failures>>

IndexFails ==
    /\ ~Stands("idle") /\ failures < MaxFailures
    /\ index' = NoIndex /\ failures' = failures + 1
    /\ UNCHANGED <<chain, event, scanned, completed, refused>>

IndexerMoving ==
    /\ Grow \/ Reorg
    /\ UNCHANGED <<event, scanned, index, completed, refused, failures>>

IndexerGrowing == Grow /\ UNCHANGED <<event, scanned, index, completed, refused, failures>>

Indexing ==
    \/ IndexStart \/ ScanLogs \/ ReadReceipts \/ ListEvents \/ ProbeEvents \/ UpdateEvent
    \/ ListCompletable \/ Hand \/ MarkCompleted \/ SetScanned

IndexerInit ==
    /\ ChainInit
    /\ event = [x \in Settlements |-> NoEvent] /\ scanned = 0
    /\ index = NoIndex /\ completed = {} /\ refused = {} /\ failures = 0

IndexerNext == IndexerMoving \/ Indexing \/ IndexFails

IndexerSpec == IndexerInit /\ [][IndexerNext]_indexer
IndexerLiveSpec == IndexerSpec /\ WF_indexer(IndexerGrowing) /\ WF_indexer(Indexing)

(***************************************************************************)
(* Properties                                                              *)
(***************************************************************************)
\* Every variable of the indexer stays in its domain.
IndexerTypeOK ==
    /\ \A x \in Settlements : /\ event[x].status \in {"NONE", "PENDING", "CONFIRMED", "ORPHANED"}
                              /\ event[x].height \in 0 .. MaxHeight
                              /\ event[x].done \in BOOLEAN
    /\ scanned \in 0 .. MaxHeight
    /\ index.top \in 0 .. MaxHeight /\ index.start \in 0 .. MaxHeight
    /\ \A j \in index.rows : j.id \in Settlements
    /\ completed \subseteq Settlements \ Strangers /\ refused \subseteq Settlements \ Strangers
    /\ failures \in 0 .. MaxFailures

\* Every variable has its type, and the engine completes a payment only for a
\* settlement past the finality line, however the chain was replaced while a pass
\* was under way.
CompletedFromChain == IndexerTypeOK /\ completed \subseteq Settled

\* The inductive invariant behind it: what rows and listed copies say was on the
\* chain, and a settlement is past the finality line from the verdict on.
SeenRow(x, row) ==
    /\ row.status \in {"NONE", "PENDING", "CONFIRMED", "ORPHANED"}
    /\ row.status # "NONE" => SeenAt(x, row.height, row.hash)
    /\ row.status = "CONFIRMED" => x \in Settled

IndexerInv ==
    /\ ChainInv /\ CompletedFromChain
    /\ event \in [Settlements ->
          [status : {"NONE", "PENDING", "CONFIRMED", "ORPHANED"}, height : 0 .. MaxHeight,
           hash : 0 .. MaxReorgs, done : BOOLEAN]]
    /\ \A x \in Settlements : SeenRow(x, event[x])
    /\ final >= Minus(index.top + 1, Depth)
    /\ \A j \in index.rows :
          /\ SeenRow(j.id, j.row) /\ j.row.status # "NONE" /\ event[j.id].status # "NONE"
          /\ index.pc \in {"handing", "marking"} => j.id \in Settled
    /\ \A u \in index.updates :
          /\ u.id \in Settlements
          /\ index.pc = "probing" =>
                /\ u.status \in {"PENDING", "CONFIRMED", "ORPHANED"}
                /\ event[u.id].status # "NONE"
                /\ u.status = "CONFIRMED" => u.id \in Settled

\* A settlement past the finality line whose payment the engine knows completes it,
\* whatever block a reorganisation moved it to before it was seen and whichever pass dies,
\* also between handing it over and marking it: unless it was seen in a block that was
\* lost, the engine threw on it what is not retried, or a reorganisation put it, with no
\* hash recorded, where the scan had been.
SettlementsComplete ==
    \A x \in Settlements \ Strangers :
        x \in Settled ~>
            \/ x \in completed \/ x \in refused \/ event[x].status = "ORPHANED"
            \/ event[x].status = "NONE" /\ x \notin Submitted /\ reorgs > 0

=============================================================================
