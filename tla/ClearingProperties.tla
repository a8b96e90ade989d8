------------------------- MODULE ClearingProperties -------------------------
(***************************************************************************)
(* What the clearing engine must guarantee, over the states and steps of   *)
(* ClearingEngine.                                                         *)
(***************************************************************************)
EXTENDS ClearingEngine

ReturnTxs(p) == {i \in Tx : optx[i].kind = "return" /\ optx[i].p = p}
Returned(p) == \E i \in ReturnTxs(p) : optx[i].status = "success"
Paid(p) == consumed[p] \/ payout[p] = "SUCCEEDED"
Started(p) == "return.started" \in log[p]

(***************************************************************************)
(* Money                                                                   *)
(***************************************************************************)

\* The signed order of a payment may still be executed when its deposit may
\* already be sent back: then the return's read of the router proves nothing.
\* The shipped defaults (a renewed order lives as long as the grace) allow it.
OrderOutlivesGrace(p) == row[p].deadline >= row[p].failedAt + ReturnGrace

\* deposit-return.ts: the router must not have consumed the order's intent, so
\* a payment that did settle is never also returned.  The consumed check is a
\* read; it lasts until the transfer is mined unless, and only unless, the
\* order of that payment outlives the grace.
NeverPaidAndReturned ==
    /\ TypeOK
    /\ \A p \in Payments : Paid(p) /\ Returned(p) => OrderOutlivesGrace(p)

\* deposit-return.ts: deposit.return.started is written before the transfer, so
\* no crash and no second process makes a later pass send another one.
AtMostOneReturn ==
    \A p \in Payments : \A i, j \in ReturnTxs(p) : i = j

\* One wallet pays every order and every return, so paying one payment twice
\* would be covered silently by another's deposit or by the operator's own
\* funds: beside those it holds exactly the swept deposits it still owes, less
\* one unit for each payment that could leave, and left, both ways.
Owed(p) == deposit[p] = "swept" /\ ~Paid(p) /\ ~Returned(p)
LeftTwice(p) == Paid(p) /\ Returned(p) /\ OrderOutlivesGrace(p)
WalletAccounts ==
    pool + Cardinality({p \in Payments : LeftTwice(p)}) =
        Float + Cardinality({p \in Payments : Owed(p)})

(***************************************************************************)
(* The books                                                               *)
(***************************************************************************)

\* engine.ts #executeTreasury, acceptLateFunds: clearingPosting debits a payable
\* that only the receipt (or, for an executed deposit, the swap) credits, so it
\* is never booked before them, whichever way the payment was reopened.
ClearingIsCovered ==
    \A p \in Payments :
        "CLEARING" \in ledger[p] =>
            {"ASSET_RECEIVED"} \cup (IF path[p] = "order" THEN {"SWAPPED"} ELSE {})
                \subseteq ledger[p]

\* Postings say what happened: a swap or an on-chain settlement only of a
\* consumed intent, a payout only of one the adapter confirmed, a return only
\* of a transfer read back as successful.
BooksMatchTheWorld ==
    \A p \in Payments :
        /\ {"SWAPPED", "SETTLED"} \cap ledger[p] # {} => Paid(p)
        /\ "RETURNED" \in ledger[p] => Returned(p)
        /\ "ASSET_RECEIVED" \in ledger[p] =>
               deposit[p] # "none" \/ (path[p] = "contract" /\ consumed[p])

\* engine.ts #splitsDepositReceipt: a payment is SUCCESS only with its whole
\* set of postings and a completed intent, never settled "internally while the
\* deposit sits unswept"; and a merchant is told COMPLETED only of a payment
\* that was paid and whose clearing can no longer fail.
SuccessIsWhole ==
    \A p \in Payments :
        /\ row[p].state = "SUCCESS" =>
              /\ ledger[p] = {"ASSET_RECEIVED", "CLEARING", "SETTLED"} \cup
                             (IF path[p] = "order" THEN {"SWAPPED"} ELSE {})
              /\ intent[p] = "COMPLETED"
              /\ path[p] = "order" => deposit[p] = "swept"
        /\ intent[p] = "COMPLETED" => Paid(p) /\ row[p].state \in {"SETTLED", "SUCCESS"}

(***************************************************************************)
(* The record                                                              *)
(***************************************************************************)

\* engine.ts retry: once a return has started the payer's asset is on its way
\* back, and the payment stays failed for good.
ReturnIsFinal ==
    \A p \in Payments : Started(p) => row[p].state = "FAILED"

LegalMove(s, t) ==
    \/ s = "NONE" /\ t = "CREATED"
    \/ s \in Resumable /\ t = NextState(s)
    \/ s \in CanFail /\ t = "FAILED"
    \/ s = "FAILED" /\ t = "ASSET_RECEIVED"
    \/ s = t /\ s \in {"ASSET_RECEIVED", "FAILED"}

\* repository.update: however flows of several processes interleave, the row
\* moves one version at a time along the transition table (or a reopening, a
\* renewed order, a return event), so no flow undoes what another wrote.
LinearHistory ==
    [][\A p \in Payments : row'[p] # row[p] =>
          /\ row'[p].version = row[p].version + 1
          /\ LegalMove(row[p].state, row'[p].state)]_vars

\* transaction.ts reopenTransaction: a payment is reopened only if its funds
\* are still with the operator or already with the merchant.
ReopenedIsFunded ==
    [][\A p \in Payments :
          row[p].state = "FAILED" /\ row'[p].state = "ASSET_RECEIVED" =>
              /\ deposit[p] # "none" \/ consumed[p]
              /\ ~Started(p) /\ ReturnTxs(p) = {}]_vars

(***************************************************************************)
(* The promise                                                             *)
(***************************************************************************)
\* A return that has started while the order can still be executed leaves the
\* value exposed: either may happen to it, or both.
Exposed(p) == Started(p) /\ OrderOutlivesGrace(p)
Custody == [p \in Payments |->
    IF Exposed(p) THEN "exposed"
    ELSE IF Paid(p) THEN "paid" ELSE IF Returned(p) THEN "returned"
    ELSE IF deposit[p] # "none" THEN "held" ELSE "unpaid"]

Outcome == [p \in Payments |->
    IF row[p].state = "SUCCESS" THEN "succeeded"
    ELSE IF row[p].state = "FAILED" THEN "failed" ELSE "open"]

Promise == INSTANCE PaymentPromise WITH custody <- Custody, outcome <- Outcome

\* The engine, the chain and the return service together implement the promise.
PromiseKept == Promise!Spec

(***************************************************************************)
(* Progress                                                                *)
(***************************************************************************)

\* engine.ts resumeStuck: a payment whose funds arrived does not stay in
\* between, whatever crashed: it settles or fails, unless other payments hold
\* it up for good.
ReceivedResolves ==
    \A p \in Payments :
        row[p].state \in {"ASSET_RECEIVED", "CLEARING", "SETTLING"} ~>
            \/ row[p].state \in {"SETTLED", "SUCCESS", "FAILED"}
            \/ []HeldUp(p)

(***************************************************************************)
(* What the repository says and the code does not do                       *)
(***************************************************************************)

\* engine.ts:263 start "picks up where an earlier attempt left off", and
\* docs/clearing-engine.md: the persisted state is the only input a step needs.
SettledAlwaysCompletes ==
    \A p \in Payments : row[p].state = "SETTLED" ~> row[p].state = "SUCCESS"

\* engine.ts:739: a pass over a payment this process is already stepping never
\* runs that step's side effects while the first is still in flight.
OneFlightPerProcess ==
    \A v, w \in Workers :
        v # w /\ HostOf[v] = HostOf[w] /\ Job(v) = Job(w) =>
            ~(At(v, "ordering") /\ At(w, "ordering"))

\* engine.ts:597 recordPaymentCompleted: "A late signal still settles".
LateSignalSettles ==
    \A p \in Payments :
        path[p] = "contract" /\ consumed[p] ~> row[p].state = "SUCCESS"
=============================================================================
