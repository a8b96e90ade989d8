------------------------- MODULE ClearingInvariant -------------------------
(***************************************************************************)
(* The inductive invariant behind the safety theorems of ClearingEngine.   *)
(* It says, part by part, what a stale flow can and cannot know, and why   *)
(* the check a return makes stays true until its transfer is mined, unless *)
(* the payment's order outlives the grace.                                 *)
(***************************************************************************)
EXTENDS ClearingProperties

Unreceived == {"NONE", "CREATED", "QR_PARSED", "PRICE_LOCKED", "PAYMENT_PENDING"}

(* ---- the row of a payment --------------------------------------------- *)

RowInv(p) ==
    /\ row[p].version = 0 => row[p] = NoRow
    /\ row[p].version # 0 => row[p].state # "NONE"
    /\ row[p].state \in {"NONE", "CREATED", "QR_PARSED"} => row[p].deadline = 0
    /\ row[p].code = "PAYMENT_EXPIRED" => row[p].state = "FAILED"
    /\ row[p].state \in Unreceived \/ row[p].code = "PAYMENT_EXPIRED" =>
           "ASSET_RECEIVED" \notin log[p]
    /\ row[p].failedAt <= now

\* Once a return has started nothing can consume the payment's order any more,
\* unless the order outlives the grace.
StartedInv(p) == Started(p) =>
    /\ path[p] = "order" /\ row[p].state = "FAILED"
    /\ "ASSET_RECEIVED" \in log[p]
    /\ row[p].failedAt + ReturnGrace <= now
    /\ consumed[p] => OrderOutlivesGrace(p)

PayoutInv(p) == payout[p] # "none" => path[p] = "adapter"

(* ---- the operator's transactions -------------------------------------- *)

TxInv(i) ==
    /\ i > sent => optx[i] = NoTx
    /\ optx[i].kind # "none" => optx[i].p \in Payments
    /\ optx[i].kind = "order" => optx[i].deadline <= row[optx[i].p].deadline
    /\ optx[i].kind = "return" => Started(optx[i].p)

(* ---- what a flow f holds ---------------------------------------------- *)

FailedPcs == {"failIntent", "readEvents", "postLate", "reopen", "retRead",
              "retCheck", "retSweep", "retStart", "retSend", "retRecord",
              "retReceipt", "retConfirm"}
ReceivedPcs == {"sweep", "submit", "ordering", "book", "clear", "reopenIntent"}
RunningPcs == {"enter", "step", "persist", "mark"}

Stage(f) ==
    /\ f.pc # "idle" => f.job \in Payments
    /\ f.pc = "insert" => f.cur.state = "NONE"
    /\ f.pc \in FailedPcs => f.cur.state = "FAILED"
    /\ f.pc \in ReceivedPcs => f.cur.state = "ASSET_RECEIVED"
    /\ f.pc \in RunningPcs => f.cur.state \in Resumable
    /\ f.pc = "fail" => f.cur.state \in CanFail
    /\ f.pc = "fail" /\ f.code = "PAYMENT_EXPIRED" =>
           f.cur.state = "PAYMENT_PENDING"
    /\ f.pc = "postLate" => f.cur.code = "PAYMENT_EXPIRED"
    /\ f.pc \in {"ordering", "retRecord", "retReceipt"} => f.tx # 0

\* A flow that read the current version read the current row, and no order it
\* may still submit outlives the one on record.
Snapshot(f) == f.pc # "idle" =>
    /\ f.cur.version <= row[f.job].version
    /\ f.cur.version = row[f.job].version => f.cur = row[f.job]
    /\ f.cur.deadline <= row[f.job].deadline

Unmoved(f) == f.cur.version = row[f.job].version

Reopening(f) == f.pc = "reopen" /\ Unmoved(f) => ~Started(f.job)

Returning(f) ==
    /\ f.pc \in {"retRead", "retCheck", "retSweep", "retStart"} =>
           /\ path[f.job] = "order" /\ "ASSET_RECEIVED" \in log[f.job]
           /\ f.cur.failedAt + ReturnGrace <= now
    /\ f.pc \in {"retCheck", "retSweep", "retStart"} /\ Unmoved(f) =>
           ~Started(f.job)
    /\ f.pc \in {"retSweep", "retStart"} /\ Unmoved(f) /\ consumed[f.job] =>
           OrderOutlivesGrace(f.job)
    /\ f.pc = "retSend" => Started(f.job) /\ ReturnTxs(f.job) = {}

FlowInv(f) == Snapshot(f) /\ Reopening(f) /\ Returning(f)

\* No two flows are about to send the same return.
OneSender ==
    \A v, w \in Workers :
        At(v, "retSend") /\ At(w, "retSend") /\ Job(v) = Job(w) => v = w

\* Types, and what each point of a flow knows of the row it read.
Staged == \A w \in Workers : Stage(flow[w])
TInv == TypeOK /\ Staged

IInv ==
    /\ TInv
    /\ \A p \in Payments : RowInv(p) /\ StartedInv(p) /\ PayoutInv(p)
    /\ \A i \in Tx : TxInv(i)
    /\ \A w \in Workers : FlowInv(flow[w])
    /\ OneSender
    /\ AtMostOneReturn
=============================================================================
