# Mayarin in TLA+

A verification development of the payment system in `src/`. Mayarin lets
a payer pay a merchant's request from any asset: an *intent* is minted and
confirmed, a *clearing transaction* moves through ten persisted states, the
payer's asset arrives at a deposit address (or is spent by the payer's own call of
the router contract), the operator executes a signed order that pays the merchant
on chain, and a payment that failed with the payer's asset in hand is sent back.
Around that core, workers watch the chain, broadcast with one operator key, settle
x402 payments for agents, tell merchants by webhook and bill their subscriptions.

Everything here is translated from the code. Line references are to the files
under `src/`; `PROJECT.json` maps every definition to the lines it stands for.

## 1. The system

| Part | State it keeps | Operations | How it meets the others |
| --- | --- | --- | --- |
| Clearing engine (`packages/core/clearing`: `engine.ts`, `state-machine.ts`, `transaction.ts`) | `clearing_transactions` (state, version, failure, signed order, tx hash), `clearing_events`; in memory `#advancing` | `start`, `resume`, `resumeStuck`, `recordAssetReceived`, `recordPaymentCompleted`, webhooks, `sweepExpired`, `fail`, `retry`, `acceptLateFunds` | writes rows by compare-and-set on `version`; posts to the ledger; calls the treasury executor, the settlement adapters and the intent service |
| Payment intents (`packages/core/payment-intent`) | `payment_intents.status`, `version`, expiry | `confirm`, `expireIfDue` (inside every read), `markProcessing`, `markCompleted`, `markFailed`, `reopen` | a second row the engine updates in a second transaction |
| Treasury execution (`clearing/treasury.ts`, `providers/evm/treasury-executor.ts`) | none but the chain's | `sweep`, `execute` with retries | one operator key and wallet for every payment and every return |
| Deposit returns (`clearing/deposit-return.ts`) | `deposit.return.*` events on the same row | `returnPending` | races with `retry`, with a late order, and with itself in another process |
| Ledger (`packages/core/ledger`, `clearing/postings.ts`) | balanced postings, by idempotency key | `post` | the books of every step |
| PaymentRouter and escrow contracts (`packages/contracts`) | `consumed[intentId]`, vaults | `pay*`, `release`, `refund`, `sweep` | the chain is the guard between processes |
| Refunds (`clearing/refund-service.ts`) | `refunds` rows | `issue`, `resumePending`, `reconcile` | reads settled transactions, calls a rail |
| Wallet watcher (`packages/core/chain/watcher.ts`) | `chain_deposits`, `watcher_cursors` | one loop per asset: scan, balance, classify, fund, move the cursor | tells the engine a payment is funded, at least once |
| Settlement indexer (`core/chain/indexer.ts`) | `settlement_events`, a cursor | scan logs, read receipts, classify, hand over | tells the engine a payment completed, at least once |
| Operator key (`packages/db/nonce-sequencer.ts`, `packages/shared`) | `operator_nonces`, `operator_transactions`, worker lease and fencing token | broadcast, reconcile, bump | under every transaction the operator signs |
| x402 (`apps/api/services/x402.ts`, `x402-payables.ts`) | the clearing row's reference and swap and surplus events, `x402_payable_quotes` | `settle`, `settlePayable`, `recoverBroadcasts` | a facilitator broadcasts before the engine knows; the expiry sweep and a timer work on the same row |
| Notifications (`packages/core/notifications`) | `webhook_cursors`, `webhook_deliveries` | `tick`, replay | reads the clearing event log by id |
| Subscriptions and invoices (`apps/dashboard-api`, `core/subscriptions`, `core/invoicing`) | `subscriptions`, `invoices`, `invoice_counters` | `tick`, pause, resume, cancel; create, edit, issue, void | enqueues webhooks, sends email; an invoice is paid by intents |
| Quotes, catalog, payouts, wallets, auth, compliance, fraud | their own rows | | around clearing |

What makes it hard:

- several processes (API replicas, chain workers) and several asynchronous flows in
  each act on one payment; between an `await` and the next write the row may move;
- each step has side effects *before* its state is written, so a crash replays them;
- processes draw every connection from one bounded pool, some while they hold one;
- the row, the intent, the ledger, the operator's transactions and the router are
  five stores with no common transaction;
- the same deposit can leave in two directions (paid out, or returned);
- one wallet holds everybody's swept deposits, so paying twice does not fail by itself;
- the chain itself is revised: blocks are replaced, nodes are behind, transactions are
  dropped, bumped and mined late;
- timers of several processes page through the same tables, with no claim on a row, and
  some rows never leave their page.

What makes it correct, component by component: value that reached the merchant or
went back to the payer is never moved again, and never both (engine, executor,
returns); the row follows the transition table whatever interleaves (repository);
the books say what happened on the chain, completely, once (ledger); a merchant is
told success only of what was paid (intents); funds that arrived do not stay in
between (recovery passes); only what the chain can no longer lose funds or completes a
payment, once (watcher, indexer); each call of the operator is executed at most once and
leaves a record (key); one quote is paid by one payer and credited only for money that
moved (x402); no event is passed over (notifications); no cycle is skipped, billed twice
or numbered with a gap (billing).

`PROJECT.json` lists the hazards at the lines where they bite, with the property
that catches each.

## 2. The modules

    ClearingEngine      the code: state, one action per write or decisive read
      ClearingProperties  what it must guarantee; refines PaymentPromise
        ClearingInvariant   the inductive invariant
          ClearingProofs      types, the invariant and its consequences, proved
          RecordInvariant     a second one: the record, the books, the money
            RecordProofs        it and its consequences, proved; with both
                                invariants the refinement and the wallet
          MCClearingEngine    instances for TLC
    PaymentPromise      what the engine promises about a payment's value
    RefundService       refunds of a settled payment     RefundProofs, MCRefundService
    OperatorKey         lease, sequencer, reconciler     OperatorProofs, MCOperatorKey
    ChainView           a chain that is revised, and the policy it is judged by
      WalletWatcher       deposits and balances          MCWalletWatcher
      SettlementIndexer   the router's logs              MCSettlementIndexer
        ChainProofs         the invariants of both loops, proved
    X402Settlement      settle, recover, swap, change    X402Proofs, MCX402Settlement
    WebhookDispatcher   the outbox and its deliveries    WebhookProofs, MCWebhookDispatcher
    SubscriptionBilling the tick and the invoices        BillingProofs, MCSubscriptionBilling

In every module the first safety invariant carries the module's type invariant, and a
definition named `X_Y` is a plausible bug put in the place of `X`: `PROJECT.json` lists
which property each one breaks.

### ClearingEngine

A *worker* is one asynchronous flow: a request handler, one payment of a recovery
pass, a watcher's callback, one payment of a return pass. `flow[w]` is its program
counter, the payment, and `cur`, the row as this flow read it (the TypeScript
variable `transaction` or `current`). A flow is cut into one action per write of
shared state or per read a later step relies on; the rest is local. `HostOf` puts
flows into processes: a crash ends every flow of a process and clears its
`#advancing` set.

| Code | Model |
| --- | --- |
| `clearing_transactions` row, CAS on `version` | `row[p]`, `Update` (with its event, in one step), `Conflict` for `ConcurrencyError` |
| `clearing_events` | `log[p]`, the target states and return events seen |
| `payment_intents.status` | `intent[p]` |
| ledger postings | `ledger[p]`, the set of idempotency keys posted |
| `#advance`, `#run`, `#step` | `Enter`, then one action per state and side effect, `Throws` for the catch |
| `treasury.execute` | `Sweep`, `Submit`, `OrderMined`, `TryAgain`, `Book` |
| operator's transactions | `optx`, mined in nonce order by `Mine` |
| `PaymentRouter` | `consumed[p]`, `Outcomes` |
| operator wallet | `pool` in units of one deposit, `Float` of its own |
| settlement adapter | `payout[p]`, decided by `AdapterDecides` |
| `DepositReturnService` | `ReturnPending`, `ReturnRead` ... `ReturnConfirm` |
| timers, handlers, callbacks | `PickUp`: what an idle flow may start |
| thrown errors | `Throw` (retryable: the flow ends; otherwise `#fail`), `SubmitFails` |

Abstracted: amounts, assets, rates and fees (one payment is one unit); order
signatures (an order is its deadline); gas; event payloads. Every failure code but
`PAYMENT_EXPIRED` is one code, since the code tells only that one apart. A sweep is
one step, as nothing reads the deposit address between its broadcast and its mining.
A payer is assumed to have named a return address. The x402 path has a module of its own.

`resumeStuck` takes the `ResumePage` oldest payments and rethrows what is not retryable, so it
need not come to every payment: `Wedged(p)` is a payment that throws in every pass (settled, with
an intent that cannot complete) and `HeldUp(p)` one that another such payment, or a full page,
keeps from being reached. Both are used by the fairness and by `ReceivedResolves`.

### Properties

Money: `NeverPaidAndReturned`, `AtMostOneReturn`, `WalletAccounts`. Books:
`ClearingIsCovered`, `BooksMatchTheWorld`, `SuccessIsWhole`. Record:
`ReturnIsFinal`, `LinearHistory` and `ReopenedIsFunded`
(action properties). Progress: `ReceivedResolves`. Refinement: `PromiseKept`, every behaviour of
the engine is one of `PaymentPromise` with `Custody` and `Outcome` for its variables.

`OrderOutlivesGrace(p)` marks the payments whose signed order is still valid when their return may
start. The grace is a setting, equal to the order's lifetime in the shipped defaults, so the case
is real; nothing is assumed against it. `NeverPaidAndReturned` says that a payment goes both ways
only in that case, `WalletAccounts` counts the unit that is then missing from the wallet
(`LeftTwice`), and the promise has a custody of its own for it (`exposed`).

### RefundService

A flow is a request (`issue`) or a recovery pass (`resumePending`), cut at every
statement it sends to the database. `refund` is the table, `lock` the advisory lock of
`serialize`, `settled` the stablecoin rail's record of the payment, `sent` the refunds it
accepted, `posted` the ledger. A flow inside `serialize` holds a connection of its
process; every statement needs a free one (`CanQuery`), and when all are held by requests that wait
for the lock nothing moves (`Exhausted`). One payment is enough, since
the lock, the balance, the trigger and the rail's record are per payment. Money is a
small natural; reasons, references and events are left out (the event bus swallows its
handlers' errors). `reconcile` only reads: what it reports is what
`BooksFollowTheRail` denies, or a posting of a refund that is not `SUCCEEDED`.

`ReservedAtMostNet` (the trigger, not the lock, keeps it: an executor may revive a failed
refund), `OneRefundPerKey`, `BooksFollowTheRail`, `PendingFinishes`, `RequestsEnd`.

### OperatorKey

A *signer* is a flow that broadcasts, `HostOf` its process: a chain worker, which broadcasts under
the fencing token of its lease, or an API server, which has none. A broadcast holds one of the
`PoolSize` connections of its process for its transaction, and `AssertCurrent` needs another to
read the token, as does every other statement (`HasConnection`); the outbox has a pool of its own. `lease`, `token` and `fence` are
`acquireWorkerLease`; `lock` is the advisory lock of `PostgresNonceSequencer.broadcast`, `floor`
the row of `operator_nonces`, `row` the outbox `operator_transactions`, `flow[s]` the broadcast
a signer is in (`Broadcast`, `Lock`, `AssertCurrent`, `ReadFloor`, `Allocate`, `Send` or
`Refuse`, `Record`, `Close`, `Commit`, `Clear`), `pass[w]` the reconciler (`Pick`,
`AskReceipt`, `Count`, `Resolve`, `Bump`, `RecordBump`). `pool` holds what some node accepted, `mined` the
transactions that used the nonces. A node answers a nonce query from any set between what
all nodes and what any node has seen (`Observed`). `LoseConnection` leaves a flow running
whose session, and with it the lock, is gone; the code does not notice before it commits.
Abstracted: gas prices (a bump is an attempt number; two attempts bid for one nonce), and the
clock, kept as ages that stop at the window that reads them.

### ChainView, WalletWatcher, SettlementIndexer

`ChainView` is the chain both loops read: blocks are added, and above the finality line
replaced by others, perhaps one fewer. `Classify`, `DeepEnough` and `InReorgWatch` are
`confirmations.ts`. Each loop is one pass at a time, cut at each call it makes:
`Start`, `Scan`, `ReconcileBalance`, `List`, `Probe`, `UpdateStatus`, `Fund`, `Rewind`,
`SetCursor` for the watcher; `IndexStart`, `ScanLogs`, `ReadReceipts`, `ListEvents`,
`ProbeEvents`, `UpdateEvent`, `ListCompletable`, `Hand`, `MarkCompleted`, `SetScanned` for the
indexer. A scan is atomic: a node that serves one log query from two forks is outside the
model. The loops of two assets share the page of `listProbable` and move each other's cursors,
and the module has them; the run has one asset, the theorems any number.

The indexer reads receipts of recorded hashes only (`Submitted`), at most `ReceiptLimit` a pass;
a settlement a payer sends is found by its log alone. What the engine throws on a settlement
and is not retryable is swallowed and the row marked all the same: `refused` remembers which.

### X402Settlement

A flow is a request (`settle`, `settlePayable`) or a pass of the sixty-second timer
(`recoverBroadcasts`, the expiry sweep, `resumeStuck`), cut at every read relied on later,
every broadcast, every wait for a receipt and every write. `row` is the clearing row with its
reference and what its event log says of the swap and the change, `quote` the row of
`x402_payable_quotes`, `chain` the transactions broadcast. What a step of the engine throws and
is not retryable fails the payment (`StepFails`), and everything else that goes wrong only ends the
flow (`Upset`). A nonce is used once: `Mine` of an
authorization needs that no other of its payment is mined. Abstracted: the engine's steps from
`ASSET_RECEIVED` to `SETTLED` are one (ClearingEngine has them); an intent or an
authorization may expire at any moment; change is always left to return. The resource
catalogue, prices and the facilitator's other calls are left out, and so are a retry by hand of a
failed payment, a change refund that reverts or is dropped (`x402.ts:1247`) and the page of the 100
oldest that the recovery lists take.

### WebhookDispatcher

`log` is the clearing event log, `writing` the ids made for transactions that have not
committed yet, `late` those that committed after a greater id, `cursor` and `delivery` the dispatcher's tables. A dispatcher's tick is
`ReadEvents`, `Enqueue`, `SetCursor`, `ListDue`, `Look`, `Post`, `EndTick`; a delivery falls due by
`FallDue`, and `ahead` is the order in which they did, since a page of `listDue` is the oldest; merchants switch endpoints, operators replay, processes crash. `update` writes the whole
row from the listed copy, as the code does. Signatures, secrets and bodies are left out.

### SubscriptionBilling

`Ticks` are the processes of the dashboard API, each with at most one tick. A tick lists
(`Tick`) and then takes each due subscription through `Find`, `Insert`, `Load`, `Issue`, `Tell`,
`Mail` and `Advance`; the first failure of a subscription passes on to the next one. `invoice[c]`
is found by the cycle's idempotency key, `next` is the merchant's counter, taken in the
transaction that issues. The merchant's `Pause`, `Resume`, `Cancel`, `Touch` (edit, list), `Void` and
`IssueByHand` are one step each, since each ends in a write the version guards. All subscriptions are
one merchant's; cycle `n` is due at time `n`; a subscription of `AtOnce` asks for payment in zero
days, so that its invoice's due date lies before its date of issue and may be refused
(`DueBeforeIssued`); a process without an email provider is
`Mailable = {}`. Left out: new subscriptions, free-standing invoices, prices, and
`checkoutInvoice` (its payments are intents).

## 3. What is checked

| Run | Question | Bounds |
| --- | --- | --- |
| `engine_safety` | all safety of the engine, the action properties and the refinement | one payment of each path, two executor processes with one flow each, a grace equal to a renewed order's life, a float of one, clock to 3, three operator transactions, one upset |
| `engine_progress` | progress of the engine | one payment of each path, one executor and one API process, clock to 2, six operator transactions, one upset |
| `refunds` | all properties of `RefundService` | net of 2, two requests in one process with two connections, one pass, a key they may share, clock to 2, one upset |
| `operator_key` | safety of the key | two workers and an API server with one flow each, two connections, two calls, two leases, one bump, one upset |
| `operator_progress` | every broadcast ends, every row closes | one worker with two flows and two connections, an API server, two calls, two leases, one bump, one upset |
| `watcher` | all properties of `WalletWatcher` | one asset with balances, one deposit seen and one hidden, depth 3, height 5, two reorganisations, scans of one block, one failed pass |
| `indexer` | all properties of `SettlementIndexer` | a settlement with a recorded hash, one a payer sent and a stranger's, depth 2, height 3, one receipt a pass, one reorganisation, one failed pass or refusal |
| `x402_claims` | one payer per quote, the sweep, progress | two authorizations for one obligation, two requests, one pass, two quotes, four transactions, one upset |
| `x402_recovery` | credit and change of a cross-asset payment | one payment asked for twice, one request flow, one pass, seven transactions, one upset |
| `webhooks` | nothing skipped, everything resolved | two writers, two dispatchers, one endpoint, two events, pages and batches of one, one retry, two upsets |
| `billing` | numbers, schedule, catching up | two subscriptions, one listed a tick, one perhaps paused and due at once, two processes, two cycles, two acts of the merchant, one upset |
| `double_swap` | a sentence of the repository the code does not keep | one cross-asset payment, one request, one pass, no upset |

Why the bounds are enough to be interesting. Two flows are enough for every race of
the engine, which is always between one flow's read and another's write; `MaxUpsets` is
one crash, one error *or* one human call, placed anywhere. The clock reaches past
intent expiry (1), past the deadline of a renewed order (expiry at 1, renewed to 2)
and past the return grace (1), so late orders, late signals, late funds, returns and the race of a
return with a late order all happen. Three operator transactions are an order, a second
submission of it and a return. `HeldUp` never holds in `engine_progress`, which has one payment: the
run shows that a payment reached by the passes resolves, not that each is reached.

For refunds, two rows of a net of 2 give a full refund, two partials and a second refund
after a failed one; two connections are as many as the requests that want them, so the pool is
exhausted in the run; two requests and a pass give two executors of one refund beside a
new reservation, the most a row, the lock and the rail's record can tell apart. The
clock lets a refund age past the cutoff while its request still runs.

For the key, two calls are a nonce and its successor, or two bids for one nonce; two leases
are an overlapping deploy; three signers put two behind the holder of the lock, and two
flows with two connections leave the holder none for its fencing check. For the
watcher, the finality line passes the first blocks while a reorganisation still moves the next
ones (a depth of 2 never orphans a scanned row); scans of one block lag behind the settled height,
so that the balance and the scan count the same money. For the indexer, three settlements are
the three ways one is found, or is nobody's. For x402, a
re-quote lets a second payer claim; seven transactions are an authorization and its replay, two
swaps, two returns and one more. Batches of one make a dispatcher's page shorter than the log and
its batch shorter than what is due. A list of one keeps the younger subscription off it for as long
as the older is active. Two cycles are a
backlog, two subscriptions are two bids for one invoice number.

Runs do not check for deadlock: with the clock, the height and the transactions bounded
each system does stop.

Symmetry: `engine_safety` exchanges the two flows together with their processes, `operator_key`
the two workers; neither `Init` nor the properties tell them apart. Liveness runs use none.

Fairness, and the code that justifies it. Nothing is assumed of people, crashes or payers.

- ClearingEngine (`Fairness`): a flow that can step does (the event loop); the clock ticks,
  the chain mines, the adapter decides. `resumeStuck` runs every 30 s and the watcher calls its
  sink on every tick while a payment is covered, so each finds a free flow again and again, though
  not continuously: strong fairness, of payments that are not `HeldUp` only. Nothing is assumed of
  `returnPending`, so nothing is claimed of when a deposit goes back (see the deviations).
- RefundService: every flow that can step does and a pass starts while anything is due
  (every five minutes, `chain-worker.ts`), while they find a connection.
- OperatorKey: Postgres queues waiters of an advisory lock, and every pass visits each open row
  (strong fairness of `Lock` and `Pick`); started flows go on, a standby worker polls for the lease,
  blocks are mined, time passes (weak).
- WalletWatcher, SettlementIndexer: the chain grows, and each loop schedules its next pass whatever
  the last one threw. Reorganisations are not fair.
- X402Settlement: flows go on, transactions are mined; the timer's pass comes to every payment on
  its lists again and again (strong).
- WebhookDispatcher: a tick goes on and the next one starts; a backoff ends.
- SubscriptionBilling: each process ticks every minute (`dashboard-api/src/index.ts`) and finishes
  what it started.

Assumptions that exclude behaviour. `Prompt` (watcher): no worker is down longer than the reorg
watch; past it the code confirms a deposit without looking at its hash. `WindowsAssumption`
(operator): a broadcast holds the lock, and a node lags, for less than the floor lives, and
a broadcast ends before the reconciler's grace. The engine's theorems assume nothing of its times.
An event of `late` is excepted by both properties of `webhooks`; see the deviations.

### What the repository says and the code does not do

`double_swap` is a run: the timer (`recoverBroadcasts`) and the live request that recorded the
authorization both reach the swap of one payment; each sends one, and the merchant is paid twice
from the operator's balance. `x402.ts:1013` says the hash is recorded so that cannot happen.

The others were met while modelling and are kept as named properties or constants; to
see one, give a configuration the change named in brackets.

Engine and returns:

- [`SettledAlwaysCompletes`] `start` inserts the transaction and marks the intent in two
  writes; a crash (or the intent's expiry) between them gives a payment that settles
  and can never complete. The same state is reached by a crash between a reopened row and
  `intents.reopen`, and without any crash when a reopening slips between `#fail`'s two writes.
- [`OneFlightPerProcess`, `HostOf <- SharedHost`] the `#advancing` mark is one set entry shared
  by overlapping passes.
- [`LateSignalSettles`] a payment made in time can be failed before its signal arrives.
- [`NeverPaidAndReturned` without `OrderOutlivesGrace`] the "never also returned" of
  `deposit-return.ts` rests on the grace outliving every order; the shipped defaults make it equal to a
  renewed order's life and the configuration admits any, also none. An order sent before the
  consumed check and mined after it pays the merchant what goes back to the payer.
- `returnPending` takes the 50 oldest failed deposits (`deposit-return.ts:121`), and the list drops only
  what was confirmed (`db/repositories/clearing.ts:245`): 50 deposits without a return address, under
  review or reverted keep every younger one from going back. No progress of returns is stated.
- A payment that settled and cannot complete throws in every pass of `resumeStuck`, which abandons
  the rest of its page (`engine.ts:329`); at boot the error ends the process. A hundred payments that wait
  fill the page as well. `ReceivedResolves` excepts what is held up so.

Refunds:

- [`ReservedIsRefunded`] the rail keeps one state per payment, so a second partial refund is
  reserved and then refused; so is a refund resumed after the rail already made it.
- [`NotOverRefunded`] any error marks a refund failed and frees its balance while another flow
  may still be executing it; both that refund and its successor are posted.
- [`RequestsEnd` without `Exhausted`] `serialize` holds a connection and needs a second one; as many
  requests as the pool has connections wait for each other for good.

Operator key:

- [`BroadcastsEnd` without `Exhausted`] `nonce-sequencer.ts:20` gives the outbox connections of its own
  so that waiting submitters cannot starve the holder, but the holder's fencing check reads from
  the pool they wait with; flows of one worker that hold all of it wait for good.
- [`ReplacedMeansAnother`] the reconciler asks for one hash's receipt and only then for the count: a
  call mined in between, or under another of its hashes, is closed as replaced.
- [`SlotsAreNotShared` without `upsets = 0`] after a failed statement or a lost connection a
  nonce may be bid for twice; one of the calls then never executes.

Chain:

- One stream's rewind is lost when the other stream's pass, which started from the old cursor, writes
  its own cursor after it, or when the pass dies between the two writes.
- [`FundsArrive`, `Page = 1`, `Required = 2`] `listProbable` counts confirmed rows too
  (`repository.ts:58`), so rows within the reorg watch can keep younger ones off the page that
  `chain.ts:226` says is judged. The indexer's list has the same page.
- [`NothingCountedTwice`] "a transfer the scan already caught is never counted twice, whichever pass
  runs first" (`watcher.ts:234`). A balance records a transfer the scan has not reached yet, the
  pass dies before its cursor, and the next one, which finds a head one lower, scans the transfer too: it
  counts once by each route. `CountedOncePerRoute` and `FundedFromChain` bound the harm to that.
- [`SettlementsComplete` without `refused`] "A retryable failure (an RPC or a database) still propagates"
  (`indexer.ts`, above `#hand`), but only an error marked retryable does: one the database throws itself is
  swallowed, the row is marked completed and no later pass hands it over again.
- [`SettlementsComplete` without its last clause] a settlement a payer sent, in a block a reorganisation put
  below the cursor, is on no list.
- An orphaned settlement that is mined again in another block is never revived, which is why
  `SettlementsComplete` excepts it. A scan-only stream can miss a deposit moved by a
  reorganisation below its cursor, hence the exception of `FundsArrive`.

x402:

- [`FailedMeansUnpaid`] the sweep fails a payment whose authorization is broadcast but not
  recorded yet, and mined afterwards (`engine.ts:370` says otherwise); and an error of the ledger
  while a payment is credited or posted, unless it is marked retryable, fails it with its broadcast on
  record (`engine.ts:764`).
- [`ChangeReturnedOnce`] two passes, or a pass and a request, may both send the change.
- [`LeftForAPerson`] a recorded swap that reverts, and a payment whose terms left the quote row with a
  re-quote, wait for a person; a late `markSettled` writes over a newer claim; a second payer can claim a new quote
  while the first one's transaction is not on record.

Notifications:

- [`NothingSkipped` without `late`] an event with a smaller id that commits after a greater one may be
  behind the cursor for good. `NothingSkipped` and `EventsResolve` except exactly such events.
- A replay that races an attempt in flight is written over by its outcome; two dispatchers may both post, and the
  slower one's refusal turns a delivered row pending again; a crash after a post posts again.
  Delivery is at least once, and the docs say so.

Billing:

- [`PausedIsNotCharged`] a tick that listed the row before the pause still issues the cycle's invoice
  (`subscription.ts:111`: "a pause means stop charging").
- [`DueIsBilled` without `[]~Listed`] the list is the 500 oldest active subscriptions, due or not, so with
  more active ones the younger are never billed.
- [`DueIsBilled` with `AtOnce`] zero days until due is a legal choice (`subscription.ts:73`), but the due
  date counts from the start of the tick and the date of issue is a later reading of the clock: the
  invoice "cannot fall due before it is issued" (`invoice.ts:116`) and the cycle may be refused in every tick.
- A resume skips a cycle that was owed before the pause.

## 4. What is proved

The theorems hold for every number of payments, flows and processes, every clock and any bounds.

**ClearingProofs.** `TypeCorrect`: `Spec => []TypeOK`. It needs `Staged`, what each
label says of the row a flow holds; `TInv` is inductive. `InvariantHolds`: `Spec => []IInv`, and from it
`NeverBothWays` (`NeverPaidAndReturned`, which carries the types), `OneReturnOnly`
(`AtMostOneReturn`) and `ReturnStaysFinal` (`ReturnIsFinal`).

They assume nothing of the grace. That a payment never goes both ways is false when its order is
still valid at the end of the grace, so the invariant and the property carry the condition
`OrderOutlivesGrace` where the argument needs it; `AtMostOneReturn` and `ReturnIsFinal` need it nowhere.

The argument. None of the three properties is inductive. A return is safe because the
consumed check, once passed, stays true unless the order outlives the grace; it stays true because
no order of the payment can be mined any more; that is because every order's deadline is at
most the one on record (`TxInv`, `Snapshot`), and the return starts no earlier than the failure's
time plus the grace (`Returning`). A started return is of a failed payment that stays failed, so
neither side of that comparison moves again (`StartedInv`).
But the row may have been reopened and failed again since the return's flow read it:
then its version moved, and the flow's next write conflicts, so what the flow knows is
needed only while the row is unmoved (`Unmoved`). Hence the shape of `IInv`: what is
true of a payment's data (`RowInv`, `StartedInv`, `PayoutInv`, `TxInv`), and what a flow
knows *if its snapshot is current* (`Snapshot`, `Reopening`, `Returning`), with
`OneSender`: two flows never both hold the right to send. The module proves one lemma
per action, from general ones for steps that move only a flow (`LocalSafe`,
`PlainKnows`) and for a compare-and-set (`UpdateSafe`, `WroteKnows`).

**RecordProofs.** `ClearingCovered` (`ClearingIsCovered`), `BooksAreTrue` (`BooksMatchTheWorld`) and
`HistoryIsLinear` (`LinearHistory`). Their invariant, `RecordInv`, says
what a state of a payment stands for (`Says`): which postings, whose money, which intent. All of it only ever
becomes truer (`Gains`, `Grows`), so a flow whose snapshot is stale still books nothing that did not happen;
what it may no longer do is write the row, and there the version decides: a flow that holds the
current version holds the current row (`Matches`). Only the nine actions of `OnlyWriters` write the row, each along
a legal move to a state of which all that `Says` asks is so (`Writes`).

Then, in the same module, what needs both invariants: `SuccessIsWholeAlways`
(`SuccessIsWhole`), `ReopenedAlwaysFunded` (`ReopenedIsFunded`), the refinement `PromiseIsKept`
(`PromiseKept`) and `WalletBalances` (`WalletAccounts`, for finitely many payments). The key lemma,
`StepEffect`, says that a step moves the money of at most one payment, in one of four ways (it
arrives, is swept, is paid out, goes back), and then leaves every row alone. The first three of these and the
writes of a row are steps of the promise or stutter; the fourth is a step because a return is
in flight only for a failed payment nobody has paid, unless it is exposed, and `Expose` is a step of
the promise too. The wallet's balance follows the same four ways, less `LeftTwice`.

**RefundProofs.** `RefundInvHolds`, `RefundsTyped`, `KeyedOnce`, `BooksNeverAhead`: the inductive
invariant of `RefundService` and the three properties it implies, with no assumption beyond the
constants' types. The invariant adds to them what an executor knows (`Knows`): its row
exists, the rail accepted it once the answer is in, its posting is there once it was
found or made. Each is stable because the rows, the rail's refunds and the postings only
grow (`Grows`), which is why two executors of one refund do no harm to the books.

`NeverOverReserved` (`ReservedAtMostNet`) follows from `BalanceInv`: what is not failed takes at most the net
(`Taken`), and an executor asks the trigger for exactly what its row reserves. The lock plays no part; the
trigger is asked on every insert and on every update that revives a row. To avoid a sum over data, `Taken`
counts the members of `Units`, pairs of a refund and a unit of its amount, so that the lemmas are about
the cardinality of a set taken apart in two (`UnitsApart`).

**OperatorProofs.** `KeyInvHolds`, and from it `BroadcastsOnRecord` (`EveryBroadcastIsOnRecord`),
`MinedOnce` (`CallMinedOnce`) and `VerdictsStayTrue` (`VerdictsAreTrue`). The invariant ties every
transaction, pooled or mined, to a row with its nonce, every flow past `Allocate` to a row
only it broadcasts first, and every pass to a list entry whose nonce is still its row's. A call is mined
once because all its attempts carry the row's nonce and a nonce is used once. The windows play no
part: these properties survive any lag.

`SlotsHold` (`SlotsAreNotShared`) is where they matter, as `WindowsAssumption`. Its invariant, `SlotInv`, is
over `NextSlot`, the nonce after the last one broadcast: the floor, or one more while the holder of the lock has
sent and not committed. Every nonce from the mined count to `NextSlot` has its first transaction in the
mempool and no second call (`PoolFits`), and what the holder will bid is `NextSlot` (`FlowFits`). The hard
case is a floor that has expired: then the holder believes a node. The age of a first
transaction is at least the floor's less one hold (`TxFits`), so an expired floor means that every node has seen
all of them, and a node that has seen them all answers `NextSlot` (`AnswerFits`). All of this is claimed
while `upsets = 0`; after a failure it is false, as the deviations say.

**X402Proofs.** `CreditIsBacked` (`CreditedFromChain`) and `QuotePaidOnce` (`OnePayerPerQuote`). The
invariant `X402Inv` says what each row (`RowFits`), each flow (`FlowFits`), each transaction
(`TxFits`) and the quote (`ClaimsFit`) implies of the chain; what a flow knows of the chain stays
true because receipts do not change (`Frame`). A payable's authorization is broadcast only under
the claim of a quote, and only one nonce ever claims a quote. `RecordedStays` is the action property
`RecordedIsNotFailed`: two actions write `FAILED`. The sweep's compares what it read with the row,
which has no broadcast then; the other is a step that throws, and a payment on record is stepped only
by a flow of its own that credits or posts it (`OnlyPostingFails`).

**BillingProofs.** `BillingInvHolds`, `NumberingIsGapless` (`NumbersAreGapless`) and the action property
`ScheduleIsKept` (`ScheduleHolds`). A tick holds rows and invoices that were there once
(`Seen`), however the list was cut: if the version is still the one it has, so is the rest, and an invoice that left its draft
never returns to it, its event and its email stay sent (`Grows`). So the write that advances, which compares
the version, finds its cycle delivered.

**WebhookProofs.** `WebhookInvHolds` and `NoEventIsLost` (`NothingSkipped`). The cursor alone says nothing of a tick
that is under way in another process, so the invariant adds what each tick has yet to queue: every event
up to the id it will write is queued already or still in its page (`Covers`). A page covers
its range because it is the beginning of what is unread (`PageReads`), which fails exactly for
the events of `late`. `update` writes a whole row from a listed copy, so the invariant also bounds the
attempts of the copies.

**ChainProofs.** Both loops judge what they listed earlier, on a chain that is being replaced; the lemmas on
`ChainView` (`ChainKeeps`) say what no block takes back: what was seen at a height with a hash is
there as long as that block is, a block that is gone does not come back (a hash carries the
number of its reorganisation), and what is past the finality line stays. From them:

- `IndexerInvHolds` and `CompletionsAreFinal` (`CompletedFromChain`), with no assumption: a settlement is final
  from the verdict on, and a pass that hands it over holds only such ones.
- `WatcherInvHolds`: a listed copy is of a block that is gone, or it agrees with its row (`CopyFits`);
  a verdict that is not `ORPHANED` is of a deposit that cannot be lost (`VerdictFits`); a confirmed row
  whose block is gone is impossible, and one that was lost is still within the reorg watch of every head a pass
  has read (`RowFits`, `PassFits`). The last part needs `Prompt`: without it a pass would confirm, by
  depth alone, a deposit whose hash nobody looked at.
- `FundsAreFinal` (`FundedFromChain`) and `CountedOnce` (`CountedOncePerRoute`), for balanced assets as well: what a
  balance noted stays in the chain it was read from (`NoteFits`, `Kept`), and the notes of an asset
  never add up to more than the chain holds, since each adds only what the recorded total lacks. So the
  confirmed total is at most what is there once by each route, and no more can be
  proved: `NothingCountedTwice` is false (see the deviations).
- `ScannedFunds` (`ScansAreTrue`): the exact count for each asset whose balance is not read, next to any
  others. Tokens are such assets by default (`tokenBalanceCatchUp` is off).

Every safety property of the passing runs is the subject of a theorem. Liveness under fairness is beyond the
prover: the progress properties are model-checked only, within the bounds above.

## 5. Plan and what is left

| | Part | State |
| --- | --- | --- |
| 1 | ClearingEngine and its invariant | done; every safety property and the refinement proved, with no assumption on the grace |
| 2 | RefundService | done; every safety property proved |
| 3 | Wallet watcher and settlement indexer | done; every safety property proved |
| 4 | Operator key | done; every safety property proved |
| 5 | x402 | done; every safety property proved |
| 6 | Notifications | done; the safety property proved |
| 7 | Subscriptions and invoices | safety proved; done but for `checkoutInvoice` and free-standing invoices |

Not modelled, and why:

- escrow vault, forwarders, batch payouts, the rest of PaymentRouter: amounts and access rules of
  contracts that each run in one transaction; nothing interleaves inside them, and what the
  engine relies on (consumption, deadline, revert) is in ClearingEngine;
- the order of the pages of `resumeStuck`, `returnPending` and the x402 recovery lists: a pass takes any payment
  of its list, and where a page can hold one up the fairness leaves it out;
- quotes and rates: arithmetic over decimals; a quote enters as a deadline;
- payouts and catalogue: products that create intents and read their outcome;
- wallets, authentication, compliance, fraud: policy and lookups without a protocol between processes;
- documents, user interfaces, SDKs, plugins and the routes of the API: I/O. They are most of the
  repository's lines, so the map covers a small part of it.
