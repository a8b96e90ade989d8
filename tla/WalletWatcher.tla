---------------------------- MODULE WalletWatcher ----------------------------
(***************************************************************************)
(* WalletWatcher.tick: one loop for each asset of a chain, scanning for    *)
(* deposits, reading balances, moving deposits between statuses as the     *)
(* chain settles or replaces their blocks, and funding payments.           *)
(*                                                                         *)
(* A loop never overlaps itself; the loops of a chain interleave at every  *)
(* call they make.  An asset has one watched address and one payment.      *)
(***************************************************************************)
EXTENDS ChainView

CONSTANTS
    Assets,      \* the watched pairs of the chain
    Deposits,    \* transfers payers send, one unit each
    AssetOf,     \* the asset of each deposit
    Hidden,      \* deposits that arrive as internal calls: no scan shows them
    Balanced,    \* assets whose balance is read: native, or tokenBalanceCatchUp
    Required,    \* what the payment of an asset is owed
    BlockRange,  \* blockRange
    Page,        \* probeLimit
    Prompt,      \* no worker is down longer than the reorg watch
    MaxErrors    \* bound: passes that throw or die

\* A balance's row is keyed by the address and the height it was read at.
Notes == Assets \X Heights
Rows == Deposits \cup Notes

ASSUME WatcherAssumption ==
    /\ Deposits = Txs /\ IsFiniteSet(Deposits) /\ Hidden \subseteq Deposits /\ Balanced \subseteq Assets
    /\ AssetOf \in [Deposits -> Assets] /\ Deposits \cap Notes = {}
    /\ Required \in Nat \ {0} /\ BlockRange \in Nat \ {0} /\ Page \in Nat \ {0}
    /\ Prompt \in BOOLEAN /\ MaxErrors \in Nat

VARIABLES
    deposit,   \* chain_deposits
    cursor,    \* watcher_cursors of each asset
    loop,      \* where the loop of each asset stands
    funded,    \* assets whose payment the engine was told is funded
    errors     \* failed passes so far

vars == <<chain, deposit, cursor, loop, funded, errors>>

NoRow == [status |-> "NONE", height |-> 0, hash |-> 0, amount |-> 0]
Seen(h, amount) == [status |-> "PENDING", height |-> h, hash |-> hash[h], amount |-> amount]

AssetOfRow(r) == IF r \in Deposits THEN AssetOf[r] ELSE r[1]
RowsOf(a) == {r \in Rows : AssetOfRow(r) = a}
Units(a, S) ==
    {u \in RowsOf(a) \X (1 .. Cardinality(Deposits)) :
        deposit[u[1]].status \in S /\ u[2] <= deposit[u[1]].amount}
Total(a, S) == Cardinality(Units(a, S))

\* The units of transfers that count, and those that balances found unaccounted for.
Own(a) == {u \in Units(a, {"CONFIRMED"}) : u[1] \in Deposits}
Noted(a) == {u \in Units(a, {"PENDING", "CONFIRMED"}) : u[1] \in Notes}

\* What a pass knows: the head and cursor it started from, the page it judges, the
\* statuses it will write, the lowest orphan of each asset (0: none).
Pass(pc, top, start, page, updates, rewind) ==
    [pc |-> pc, top |-> top, start |-> start, page |-> page, updates |-> updates,
     rewind |-> rewind]
NoRewind == [a \in Assets |-> 0]
NoPass == Pass("idle", 0, 0, {}, {}, NoRewind)

At(a, pc) == loop[a].pc = pc
Moves(a, pass) == loop' = [loop EXCEPT ![a] = pass]
Goes(a, pc) ==
    Moves(a, Pass(pc, loop[a].top, loop[a].start, loop[a].page, loop[a].updates, loop[a].rewind))

(***************************************************************************)
(* One pass                                                                *)
(***************************************************************************)
Start(a) ==
    /\ At(a, "idle")
    /\ Moves(a, Pass("scanning", head, cursor[a], {}, {}, NoRewind))
    /\ UNCHANGED <<chain, deposit, cursor, funded, errors>>

\* The scan ends one block short of the head.
ScanTo(a) == LowOf(Minus(loop[a].top, 1), loop[a].start + BlockRange)

\* record: a new row, or an orphan that comes back.
Recordable(d) == deposit[d].status \in {"NONE", "ORPHANED"}

\* A row keeps its amount when it comes back.
Scan(a) ==
    /\ At(a, "scanning")
    /\ deposit' = [d \in Rows |->
          IF /\ d \in Deposits \ Hidden /\ AssetOfRow(d) = a /\ Recordable(d)
             /\ at[d] \in loop[a].start + 1 .. ScanTo(a)
          THEN Seen(at[d], 1) ELSE deposit[d]]
    /\ Goes(a, IF a \in Balanced THEN "balancing" ELSE "listing")
    /\ UNCHANGED <<chain, cursor, funded, errors>>

SettledBlock(a) == Minus(loop[a].top, Depth)
Balance(a, h) == Cardinality({d \in Deposits : AssetOf[d] = a /\ at[d] \in 1 .. h})

\* Mutant: only what is confirmed counts as recorded.
RecordedTotal_Confirmed(a) == Total(a, {"CONFIRMED"})

RecordedTotal(a) == Total(a, {"PENDING", "CONFIRMED"})

\* reconcileBalances at the settled height.  A row that is there stays, unless it
\* is an orphan, which comes back with the amount it had.
ReconcileBalance(a) ==
    /\ At(a, "balancing") /\ Goes(a, "listing")
    /\ LET h == SettledBlock(a)
           more == Minus(Balance(a, h), RecordedTotal(a))
       IN  IF h > 0 /\ more > 0 /\ deposit[<<a, h>>].status \in {"NONE", "ORPHANED"}
           THEN deposit' = [deposit EXCEPT ![<<a, h>>] =
                    Seen(h, IF deposit[<<a, h>>].amount > 0 THEN deposit[<<a, h>>].amount ELSE more)]
           ELSE UNCHANGED deposit
    /\ UNCHANGED <<chain, cursor, funded, errors>>

\* listProbable: the oldest rows that are not orphaned, whatever their asset.
Probable == {r \in Rows : deposit[r].status \in {"PENDING", "CONFIRMED"}}
PageOf(S) ==
    /\ S \subseteq Probable /\ Cardinality(S) = LowOf(Page, Cardinality(Probable))
    /\ \A r \in S, q \in Probable \ S : deposit[r].height <= deposit[q].height

Judged(r, row) == [id |-> r, row |-> row]
Update(r, status) == [id |-> r, status |-> status]

\* Past the reorg watch a pending deposit is final, and its hash is not looked at.
List(a) ==
    /\ At(a, "listing")
    /\ \E S \in SUBSET Probable :
          /\ PageOf(S)
          /\ LET top == loop[a].top
                 watch == {r \in S : InReorgWatch(deposit[r].height, top)}
                 old == {r \in S \ watch : deposit[r].status = "PENDING"}
             IN  Moves(a, Pass("probing", top, loop[a].start,
                               {Judged(r, deposit[r]) : r \in watch},
                               {Update(r, "CONFIRMED") : r \in old}, NoRewind))
    /\ UNCHANGED <<chain, deposit, cursor, funded, errors>>

\* The lowest orphan of each asset.
Lowest(rewind, orphans) ==
    [b \in Assets |->
        LET hs == {o.row.height : o \in {o \in orphans : AssetOfRow(o.id) = b}}
                  \cup ({rewind[b]} \ {0})
        IN  IF hs = {} THEN 0 ELSE Min(hs)]

\* One hash is read for all the rows of a height.
Probe(a) ==
    /\ At(a, "probing") /\ loop[a].page # {}
    /\ LET h == Min({j.row.height : j \in loop[a].page})
           js == {j \in loop[a].page : j.row.height = h}
           changed == {j \in js : Classify(j.row, loop[a].top) # j.row.status}
           orphans == {j \in changed : Classify(j.row, loop[a].top) = "ORPHANED"}
       IN  Moves(a, Pass("probing", loop[a].top, loop[a].start, loop[a].page \ js,
                loop[a].updates \cup {Update(j.id, Classify(j.row, loop[a].top)) : j \in changed},
                Lowest(loop[a].rewind, orphans)))
    /\ UNCHANGED <<chain, deposit, cursor, funded, errors>>

\* updateStatuses: one statement a row, without a condition.
UpdateStatus(a) ==
    /\ At(a, "probing") /\ loop[a].page = {}
    /\ \E u \in loop[a].updates :
          /\ deposit' = [deposit EXCEPT ![u.id].status = u.status]
          /\ Moves(a, Pass("probing", loop[a].top, loop[a].start, {},
                           loop[a].updates \ {u}, loop[a].rewind))
    /\ UNCHANGED <<chain, cursor, funded, errors>>

\* Mutant: pending deposits count.
ConfirmedTotal_Recorded(a) == Total(a, {"PENDING", "CONFIRMED"})

\* Mutant: what only a balance showed does not count.
ConfirmedTotal_Transfers(a) == Cardinality(Own(a))

ConfirmedTotal(a) == Total(a, {"CONFIRMED"})

Fund(a) ==
    /\ At(a, "probing") /\ loop[a].page = {} /\ loop[a].updates = {}
    /\ funded' = IF ConfirmedTotal(a) >= Required THEN funded \cup {a} ELSE funded
    /\ Goes(a, "rewinding")
    /\ UNCHANGED <<chain, deposit, cursor, errors>>

\* One stream after another is moved back to before its lowest orphan.
Rewind(a) ==
    /\ loop[a].pc \in {"rewinding", "rewound"}
    /\ \E b \in Assets :
          /\ loop[a].rewind[b] > 0
          /\ cursor' = [cursor EXCEPT ![b] = LowOf(cursor[b], loop[a].rewind[b] - 1)]
          /\ Moves(a, Pass(IF b = a THEN "rewound" ELSE loop[a].pc, loop[a].top, loop[a].start,
                           {}, {}, [loop[a].rewind EXCEPT ![b] = 0]))
    /\ UNCHANGED <<chain, deposit, funded, errors>>

CursorTo(a) ==
    LET scanned == TopOf(loop[a].start, ScanTo(a))
    IN  IF a \in Balanced THEN TopOf(scanned, SettledBlock(a)) ELSE scanned

\* This stream's own advance is dropped when it was moved back.
AdvancesCursor(a) == At(a, "rewinding")

\* The cursor is written last, and only forward.
SetCursor(a) ==
    /\ loop[a].pc \in {"rewinding", "rewound"} /\ loop[a].rewind = NoRewind
    /\ cursor' = IF AdvancesCursor(a) THEN [cursor EXCEPT ![a] = TopOf(cursor[a], CursorTo(a))]
                 ELSE cursor
    /\ Moves(a, NoPass)
    /\ UNCHANGED <<chain, deposit, funded, errors>>

\* A call throws, or the process dies; the loop starts a new pass.
Fail(a) ==
    /\ ~At(a, "idle") /\ errors < MaxErrors
    /\ Moves(a, NoPass) /\ errors' = errors + 1
    /\ UNCHANGED <<chain, deposit, cursor, funded>>

\* A pending row whose block was replaced, and the chain at which it is still judged.
Stale(r) == deposit[r].status = "PENDING" /\ Gone(deposit[r].height, deposit[r].hash)
WatchedAt(top) == \A r \in Rows : Stale(r) => InReorgWatch(deposit[r].height, top)

\* Payers pay, late or more than is owed, as the chain moves on.
Moving ==
    /\ Grow \/ Reorg
    /\ Prompt => WatchedAt(head')
    /\ UNCHANGED <<deposit, cursor, loop, funded, errors>>

Growing == Grow /\ UNCHANGED <<deposit, cursor, loop, funded, errors>>

Watching(a) ==
    \/ Start(a) \/ Scan(a) \/ ReconcileBalance(a) \/ List(a) \/ Probe(a)
    \/ UpdateStatus(a) \/ Fund(a) \/ Rewind(a) \/ SetCursor(a)

Init ==
    /\ ChainInit
    /\ deposit = [r \in Rows |-> NoRow]
    /\ cursor = [a \in Assets |-> 0] /\ loop = [a \in Assets |-> NoPass]
    /\ funded = {} /\ errors = 0

Next == Moving \/ \E a \in Assets : Watching(a) \/ Fail(a)

Spec == Init /\ [][Next]_vars

\* Each loop schedules its next pass once the last one ended, whatever it threw.
LiveSpec == Spec /\ WF_vars(Growing) /\ \A a \in Assets : WF_vars(Watching(a))

(***************************************************************************)
(* Properties                                                              *)
(***************************************************************************)
Statuses == {"NONE", "PENDING", "CONFIRMED", "ORPHANED"}
LoopLabels == {"idle", "scanning", "balancing", "listing", "probing", "rewinding", "rewound"}

RowType == [status : Statuses, height : 0 .. MaxHeight, hash : 0 .. MaxReorgs,
            amount : 0 .. Cardinality(Deposits)]
PassType == [pc : LoopLabels, top : 0 .. MaxHeight, start : 0 .. MaxHeight,
             page : SUBSET [id : Rows, row : RowType],
             updates : SUBSET [id : Rows, status : Statuses],
             rewind : [Assets -> 0 .. MaxHeight]]

\* Every variable of the watcher stays in its domain.
WatcherTypeOK ==
    /\ deposit \in [Rows -> RowType]
    /\ cursor \in [Assets -> 0 .. MaxHeight]
    /\ loop \in [Assets -> PassType]
    /\ funded \subseteq Assets /\ errors \in 0 .. MaxErrors

\* What the chain holds past the finality line covers what is owed; where balances are
\* read, twice of it does.
Covered(a) == (IF a \in Balanced THEN 2 ELSE 1) * Balance(a, final) >= Required

\* Every variable has its type, and a payment is funded only by what the chain
\* holds past the finality line, through reorganisations, passes that die and
\* loops that overwrite each other's verdicts.
FundedFromChain ==
    /\ WatcherTypeOK
    /\ \A a \in funded : Covered(a)

\* What counts toward a payment is on the chain past the finality line, and no transfer
\* counts twice as a transfer, mined again or not, nor twice as a balance.
CountedOncePerRoute ==
    \A a \in Assets :
        Cardinality(Own(a)) <= Balance(a, final) /\ Cardinality(Noted(a)) <= Balance(a, final)

\* Nor once as each.  The code does not keep this: see the README.
NothingCountedTwice ==
    \A a \in Assets : Total(a, {"CONFIRMED"}) <= Balance(a, final)

\* The inductive invariant behind both.  Fixed: a deposit is
\* past the finality line where its row says.
Fixed(d) == d \in Settled /\ ~Gone(deposit[d].height, deposit[d].hash)

\* What a row says was on the chain, what is confirmed cannot be lost, and what was
\* lost is still looked at.
RowFits(d) ==
    deposit[d].status # "NONE" =>
        /\ SeenAt(d, deposit[d].height, deposit[d].hash) /\ deposit[d].amount = 1
        /\ deposit[d].status = "CONFIRMED" => Fixed(d)
        /\ Stale(d) => InReorgWatch(deposit[d].height, head)

\* What a balance showed stays.
Kept(row) == row.height \in 1 .. final /\ ~Gone(row.height, row.hash)
NoteFits(r) ==
    /\ deposit[r].status = "NONE" => deposit[r].amount = 0
    /\ deposit[r].status # "NONE" =>
          /\ r[1] \in Balanced /\ Kept(deposit[r])
          /\ deposit[r].status \in {"PENDING", "CONFIRMED"}

\* A listed copy may be of an older row: then its block is gone.
CopyFits(j) ==
    /\ j.id \in Notes => Kept(j.row)
    /\ j.row.status \in {"PENDING", "CONFIRMED"} /\ deposit[j.id].status # "NONE"
    /\ j.id \in Deposits =>
          /\ SeenAt(j.id, j.row.height, j.row.hash)
          /\ j.row.status = "CONFIRMED" => Fixed(j.id)
          /\ ~Gone(j.row.height, j.row.hash) =>
                deposit[j.id].height = j.row.height /\ deposit[j.id].hash = j.row.hash

\* A verdict other than ORPHANED is of a deposit that cannot be lost.
VerdictFits(u) ==
    /\ u.status # "NONE" /\ deposit[u.id].status # "NONE"
    /\ u.id \in Deposits /\ u.status # "ORPHANED" => Fixed(u.id)
    /\ u.id \in Notes => u.status # "ORPHANED"

\* A pass knows a head whose deep blocks are final and at which what was lost is
\* looked at, whatever the chain did since it was read.
PassFits(a, pass) ==
    /\ final >= Minus(pass.top + 1, Depth)
    /\ \A d \in Deposits : Stale(d) => InReorgWatch(deposit[d].height, pass.top)
    /\ pass.pc = "balancing" => a \in Balanced
    /\ \A j \in pass.page : CopyFits(j)
    /\ \A u \in pass.updates : VerdictFits(u)

WatcherInv ==
    /\ ChainInv /\ WatcherTypeOK
    /\ \A d \in Deposits : RowFits(d)
    /\ \A a \in Assets : PassFits(a, loop[a])
    /\ \A r \in Notes : NoteFits(r)
    /\ \A a \in Assets : Cardinality(Noted(a)) <= Balance(a, final)
    /\ \A a \in funded : Covered(a)

\* What the payers of an asset sent is enough, and all of it is at a height that
\* both the scan and the balance reach.
Buried(a) ==
    LET held == Balance(a, Minus(head, Depth))
    IN  held >= Required /\ held = Balance(a, head)

\* Funds that stay on the chain fund their payment, whichever pass fails: always where
\* balances are read, and without a reorganisation where only scans are.  (A transfer
\* that no scan shows waits until the balance covers those scanned after it.)
FundsArrive ==
    \A a \in {AssetOf[d] : d \in Deposits} :
        Buried(a) ~> (a \in funded \/ ~Buried(a) \/ (a \notin Balanced /\ reorgs > 0))

=============================================================================
