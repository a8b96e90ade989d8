--------------------------- MODULE X402Settlement ---------------------------
(***************************************************************************)
(* x402 payments: X402Service.settle, settlePayable and recoverBroadcasts, *)
(* the expiry sweep they race, the facilitator that broadcasts the payer's *)
(* authorization, the swap and the surplus return of a cross-asset         *)
(* payment, and the quote row that lets one payer at a time pay an         *)
(* invoice or a payment link.                                              *)
(*                                                                         *)
(* A payment is one authorization: its nonce keys the intent and the       *)
(* clearing row.  A flow is a request handler or a pass of the API's       *)
(* sixty-second timer, which guards nothing against overlap.  A flow is    *)
(* cut at every read it relies on later, every broadcast, every wait for a *)
(* receipt and every write; the engine's read and compare-and-set write of *)
(* one row are one step, since a refused write only ends the flow.         *)
(***************************************************************************)
EXTENDS Naturals, Sequences

CONSTANTS
    Payments,   \* authorizations, each with its nonce
    Payable,    \* those that pay the obligation; the others buy a resource
    Cross,      \* those signed in an asset the merchant does not settle in
    Requests,   \* flows of settle and settlePayable
    Passes,     \* flows of recoverBroadcasts, sweepExpired and resumeStuck
    Nobody,     \* no payment
    MaxAsks,    \* bound: requests made
    MaxQuotes,  \* bound: quotes of the obligation
    MaxTx,      \* bound: transactions broadcast
    MaxUpsets   \* bound: crashes, failed calls and steps, reverted swaps

Flows == Requests \cup Passes

ASSUME X402Assumption ==
    /\ Payable \subseteq Payments /\ Cross \subseteq Payments
    /\ Nobody \notin Payments
    /\ Requests \cap Passes = {}
    /\ {MaxAsks, MaxTx, MaxUpsets} \subseteq Nat /\ MaxQuotes \in Nat \ {0}

VARIABLES
    row,      \* the payment's clearing row, and what its event log says
    quote,    \* the obligation's row of x402_payable_quotes
    chain,    \* the transactions broadcast, in order
    flow,     \* where each flow stands
    asks,     \* requests so far (bound)
    upsets    \* crashes, failed calls and steps, reverted swaps so far (bound)

vars == <<row, quote, chain, flow, asks, upsets>>

\* The reference is a position of chain, or 0.  ASSET_RECEIVED stands for the
\* states from it to SETTLED, which x402 crosses without asking anyone.
\* refund, confirmed: what the two payer-surplus events name.
\* under: the quote the payment claimed, for the properties.
NoRow == [state |-> "NONE", ref |-> 0, swapped |-> FALSE,
          refund |-> 0, confirmed |-> 0, under |-> 0]

States == {"NONE", "PAYMENT_PENDING", "ASSET_RECEIVED", "SUCCESS", "FAILED"}

\* own: a request that broadcasts the authorization itself.
Job(pc, p, h, own) == [pc |-> pc, pay |-> p, tx |-> h, own |-> own]
NoJob == Job("idle", Nobody, 0, FALSE)

Waiting == {"mining", "swapping", "refunding"}
Labels == Waiting \cup
    {"idle", "claiming", "reclaiming", "starting", "paying", "recording", "sending", "noting",
     "crediting", "finishing", "returning", "booking", "marking", "resuming",
     "failing"}

At(w, pc) == flow[w].pc = pc
Becomes(w, f) == flow' = [flow EXCEPT ![w] = f]
Holds(w, pc, h) == Becomes(w, Job(pc, flow[w].pay, h, flow[w].own))
Goes(w, pc) == Holds(w, pc, flow[w].tx)
Ends(w) == Becomes(w, NoJob)

Sent(kind, p) == [kind |-> kind, pay |-> p, status |-> "sent"]
Is(h, kind, p, status) == chain[h] = [kind |-> kind, pay |-> p, status |-> status]
Authorized(p) == \E h \in DOMAIN chain : Is(h, "authorization", p, "mined")

\* A flow broadcasts and keeps the hash.
Broadcasts(w, kind, pc) ==
    /\ Len(chain) < MaxTx
    /\ chain' = Append(chain, Sent(kind, flow[w].pay))
    /\ Holds(w, pc, Len(chain) + 1)

\* The receipt of the transaction a flow waits for.
Receipt(w, status) == chain[flow[w].tx].status = status

(***************************************************************************)
(* settle and settlePayable                                                *)
(***************************************************************************)

\* A request with the payer's header.  A payable's replay is answered from the
\* record, resumes a recorded broadcast, or is refused; nothing is written.
Ask(w, p) ==
    /\ At(w, "idle") /\ asks < MaxAsks
    /\ asks' = asks + 1
    /\ \/ p \notin Payable /\ Becomes(w, Job("starting", p, 0, TRUE))
       \/ /\ p \in Payable /\ row[p].state \in {"NONE", "FAILED"}
          /\ Becomes(w, Job(IF quote.live THEN "claiming" ELSE "reclaiming", p, 0, TRUE))
       \/ /\ p \in Payable /\ row[p].state = "PAYMENT_PENDING" /\ row[p].ref # 0
          /\ Becomes(w, Job("resuming", p, row[p].ref, FALSE))
       \/ /\ p \in Payable
          /\ \/ row[p].state \in {"ASSET_RECEIVED", "SUCCESS"}
             \/ row[p].state = "PAYMENT_PENDING" /\ row[p].ref = 0
          /\ UNCHANGED flow
    /\ UNCHANGED <<row, quote, chain, upsets>>

\* Mutant: the nonce is written whatever the row holds.
Claimable_Unconditional(w) == At(w, "claiming")

\* The condition of the claim's UPDATE.  It compares the expiry with the time
\* the request started at: too late then, only the same nonce passes.
Claimable(w) ==
    \/ quote.nonce = flow[w].pay
    \/ quote.nonce = Nobody /\ quote.status = "quoted" /\ At(w, "claiming")

Claim(w) ==
    /\ flow[w].pc \in {"claiming", "reclaiming"}
    /\ LET p == flow[w].pay
       IN  IF Claimable(w)
           THEN /\ quote' = [quote EXCEPT !.status = "claimed", !.nonce = p]
                /\ row' = [row EXCEPT ![p].under = quote.epoch]
                /\ Goes(w, "starting")
           ELSE Ends(w) /\ UNCHANGED <<quote, row>>
    /\ UNCHANGED <<chain, asks, upsets>>

\* intents.confirm and engine.start: a new row is brought to PAYMENT_PENDING,
\* one that waits there is used, any other is refused.
Start(w) ==
    /\ At(w, "starting")
    /\ LET p == flow[w].pay
       IN  \/ /\ row[p].state = "NONE"
              /\ row' = [row EXCEPT ![p].state = "PAYMENT_PENDING"]
              /\ Goes(w, "paying")
           \/ row[p].state = "PAYMENT_PENDING" /\ Goes(w, "paying") /\ UNCHANGED row
           \/ /\ row[p].state \notin {"NONE", "PAYMENT_PENDING"}
              /\ Ends(w) /\ UNCHANGED row
    /\ UNCHANGED <<quote, chain, asks, upsets>>

\* The facilitator checks the signature's window, which closes at any moment,
\* and the token's record of the nonce, then broadcasts.
Pay(w) ==
    /\ At(w, "paying")
    /\ \/ ~Authorized(flow[w].pay) /\ Broadcasts(w, "authorization", "mining")
       \/ Ends(w) /\ UNCHANGED chain
    /\ UNCHANGED <<row, quote, asks, upsets>>

\* It answers only when it has the receipt.
Answer(w) ==
    /\ At(w, "mining")
    /\ \/ Receipt(w, "mined") /\ Goes(w, "recording")
       \/ Receipt(w, "reverted") /\ Ends(w)
    /\ UNCHANGED <<row, quote, chain, asks, upsets>>

\* Mutant: a cross-asset payment is credited for its authorization.
AfterAuthorization_Credits(p) == "crediting"

AfterAuthorization(p) == IF p \in Cross THEN "sending" ELSE "crediting"

\* recordFacilitatorBroadcast: it looks at the reference and not at the state.
RecordBroadcast(w) ==
    /\ At(w, "recording")
    /\ LET p == flow[w].pay  h == flow[w].tx
       IN  IF row[p].ref \in {0, h}
           THEN /\ row' = [row EXCEPT ![p].ref = h]
                /\ Goes(w, AfterAuthorization(p))
           ELSE Ends(w) /\ UNCHANGED row
    /\ UNCHANGED <<quote, chain, asks, upsets>>

(***************************************************************************)
(* The swap of a cross-asset payment                                       *)
(***************************************************************************)
SendSwap(w) ==
    /\ At(w, "sending") /\ Broadcasts(w, "swap", "noting")
    /\ UNCHANGED <<row, quote, asks, upsets>>

\* recordCrossAssetSwap: any earlier reference is replaced.
RecordSwap(w) ==
    /\ At(w, "noting")
    /\ IF row[flow[w].pay].ref # 0
       THEN /\ row' = [row EXCEPT ![flow[w].pay] =
                                  [@ EXCEPT !.ref = flow[w].tx, !.swapped = TRUE]]
            /\ Goes(w, "swapping")
       ELSE Ends(w) /\ UNCHANGED row
    /\ UNCHANGED <<quote, chain, asks, upsets>>

\* A hash that is not a swap which delivered the invoice ends the flow.
ConfirmSwap(w) ==
    /\ At(w, "swapping") /\ ~Receipt(w, "sent")
    /\ IF Is(flow[w].tx, "swap", flow[w].pay, "mined") THEN Goes(w, "crediting")
       ELSE Ends(w)
    /\ UNCHANGED <<row, quote, chain, asks, upsets>>

(***************************************************************************)
(* Crediting the merchant                                                  *)
(***************************************************************************)

\* recordFacilitatorSettlement: the receipt is booked and the row advances.
Credit(w) ==
    /\ At(w, "crediting")
    /\ LET p == flow[w].pay  h == flow[w].tx
       IN  IF row[p].ref \notin {0, h} \/ row[p].state = "FAILED"
           THEN Ends(w) /\ UNCHANGED row
           ELSE /\ row' = [row EXCEPT ![p] =
                             IF @.state = "PAYMENT_PENDING"
                             THEN [@ EXCEPT !.state = "ASSET_RECEIVED", !.ref = h] ELSE @]
                /\ Goes(w, "finishing")
    /\ UNCHANGED <<quote, chain, asks, upsets>>

\* What a request still does once its payment is SUCCESS.
Closing(w, p) ==
    IF w \in Requests /\ p \in Payable THEN Goes(w, "marking") ELSE Ends(w)

\* The advance to SUCCESS; a payment failed meanwhile is not SUCCESS, and the
\* flow has nothing more to do.  A request returns the payer's change; a recovery
\* pass leaves that to its second list, a replay to a recovery pass.
Finish(w) ==
    /\ At(w, "finishing")
    /\ LET p == flow[w].pay
       IN  IF row[p].state = "FAILED" THEN Ends(w) /\ UNCHANGED row
           ELSE /\ row' = [row EXCEPT ![p].state = "SUCCESS"]
                /\ IF flow[w].own /\ p \in Cross
                   THEN Goes(w, "returning") ELSE Closing(w, p)
    /\ UNCHANGED <<quote, chain, asks, upsets>>

\* A state's work a flow has the engine do: the lock of the price of a new row,
\* the postings of the receipt, and those after it.
Stepping(w) ==
    LET p == flow[w].pay
    IN  \/ At(w, "starting") /\ row[p].state = "NONE"
        \/ /\ At(w, "crediting") /\ row[p].state = "PAYMENT_PENDING"
           /\ row[p].ref \in {0, flow[w].tx}
        \/ At(w, "finishing") /\ row[p].state = "ASSET_RECEIVED"

\* #run and #fail: what a state's work throws that is not marked retryable fails
\* the payment, a broadcast on its record or not.
StepFails(w) ==
    /\ upsets < MaxUpsets /\ upsets' = upsets + 1
    /\ Stepping(w)
    /\ row' = [row EXCEPT ![flow[w].pay].state = "FAILED"]
    /\ Ends(w)
    /\ UNCHANGED <<quote, chain, asks>>

(***************************************************************************)
(* The payer's change                                                      *)
(***************************************************************************)

\* Mutant: the event that names the return already sent is not looked for.
ReturnOnRecord_Never(p) == FALSE

ReturnOnRecord(p) == row[p].refund # 0

\* #refundPayerSurplus: the recorded transaction, or a new one.
Return(w) ==
    /\ At(w, "returning")
    /\ LET p == flow[w].pay
       IN  IF ReturnOnRecord(p) THEN Holds(w, "refunding", row[p].refund) /\ UNCHANGED chain
           ELSE Broadcasts(w, "refund", "booking")
    /\ UNCHANGED <<row, quote, asks, upsets>>

\* recordPayerSurplusRefundBroadcast: a second, different one is refused.
RecordReturn(w) ==
    /\ At(w, "booking")
    /\ LET p == flow[w].pay
       IN  IF row[p].refund = 0
           THEN row' = [row EXCEPT ![p].refund = flow[w].tx] /\ Goes(w, "refunding")
           ELSE Closing(w, p) /\ UNCHANGED row
    /\ UNCHANGED <<quote, chain, asks, upsets>>

ConfirmReturn(w) ==
    /\ At(w, "refunding") /\ Receipt(w, "mined")
    /\ row' = [row EXCEPT ![flow[w].pay].confirmed = flow[w].tx]
    /\ Closing(w, flow[w].pay)
    /\ UNCHANGED <<quote, chain, asks, upsets>>

\* #markPayableSettled writes whatever claim the row holds by now.
MarkSettled(w) ==
    /\ At(w, "marking")
    /\ quote' = [quote EXCEPT !.status = "settled"]
    /\ Ends(w)
    /\ UNCHANGED <<row, chain, asks, upsets>>

(***************************************************************************)
(* Passes                                                                  *)
(***************************************************************************)

\* Mutant: a payment whose terms are not a resource's is passed over.
Interrupted_Resource(p) ==
    row[p].state = "PAYMENT_PENDING" /\ row[p].ref # 0 /\ p \notin Payable

Interrupted(p) == row[p].state = "PAYMENT_PENDING" /\ row[p].ref # 0

\* recoverBroadcasts takes a payment of its list, with the row as it was then.
Recover(w, p) ==
    /\ At(w, "idle") /\ Interrupted(p)
    /\ Becomes(w, Job("resuming", p, row[p].ref, FALSE))
    /\ UNCHANGED <<row, quote, chain, asks, upsets>>

\* #signedTerms: a payable's terms are those its quote row has now.
TermsKnown(p) == p \in Payable => quote.offered

\* #resumeBroadcast and #recoverCrossAsset: the event log says how far it got.
ResumesFrom(p) ==
    IF p \notin Cross THEN "crediting"
    ELSE IF row[p].swapped THEN "swapping" ELSE "sending"

ResumeBroadcast(w) ==
    /\ At(w, "resuming")
    /\ LET p == flow[w].pay
       IN  IF TermsKnown(p) THEN Goes(w, ResumesFrom(p)) ELSE Ends(w)
    /\ UNCHANGED <<row, quote, chain, asks, upsets>>

\* listPendingPayerSurplusRefunds.
RecoverReturn(w, p) ==
    /\ At(w, "idle") /\ p \in Cross
    /\ row[p].state = "SUCCESS" /\ row[p].confirmed = 0
    /\ Becomes(w, Job("returning", p, 0, FALSE))
    /\ UNCHANGED <<row, quote, chain, asks, upsets>>

\* sweepExpired lists a payment nothing was broadcast for, and whose intent has
\* expired by now: at any moment.
Sweep(w, p) ==
    /\ At(w, "idle")
    /\ row[p].state = "PAYMENT_PENDING" /\ row[p].ref = 0
    /\ Becomes(w, Job("failing", p, 0, FALSE))
    /\ UNCHANGED <<row, quote, chain, asks, upsets>>

\* Mutant: the row is failed whatever was written since the sweep read it.
Unchanged_Assumed(p) == TRUE

\* The version the sweep read is still the row's.
Unchanged(p) == row[p].state = "PAYMENT_PENDING" /\ row[p].ref = 0

Fail(w) ==
    /\ At(w, "failing")
    /\ IF Unchanged(flow[w].pay)
       THEN row' = [row EXCEPT ![flow[w].pay].state = "FAILED"] ELSE UNCHANGED row
    /\ Ends(w)
    /\ UNCHANGED <<quote, chain, asks, upsets>>

\* resumeStuck finishes what a crash left between receipt and SUCCESS.
ResumeStuck(w, p) ==
    /\ At(w, "idle") /\ row[p].state = "ASSET_RECEIVED"
    /\ Becomes(w, Job("finishing", p, 0, FALSE))
    /\ UNCHANGED <<row, quote, chain, asks, upsets>>

(***************************************************************************)
(* The 402, the chain, time, failure                                       *)
(***************************************************************************)

\* A 402 for the obligation.  A live claim is served as it stands; any other
\* row is quoted anew, on the rails the merchant offers now.
Quote ==
    /\ quote.epoch < MaxQuotes
    /\ ~(quote.status = "claimed" /\ quote.live)
    /\ \E offered \in BOOLEAN :
          quote' = [status |-> "quoted", nonce |-> Nobody, live |-> TRUE,
                    offered |-> offered, epoch |-> quote.epoch + 1]
    /\ UNCHANGED <<row, chain, flow, asks, upsets>>

IsMined(h, status) == chain' = [chain EXCEPT ![h].status = status]

\* EIP-3009: a nonce is spent once, and only before validBefore.
Mine(h) ==
    /\ h \in DOMAIN chain /\ chain[h].status = "sent"
    /\ \/ /\ chain[h].kind = "authorization" => ~Authorized(chain[h].pay)
          /\ IsMined(h, "mined")
       \/ chain[h].kind = "authorization" /\ IsMined(h, "reverted")
    /\ UNCHANGED <<row, quote, flow, asks, upsets>>

\* The route of a swap went stale.
RevertSwap(h) ==
    /\ upsets < MaxUpsets /\ upsets' = upsets + 1
    /\ h \in DOMAIN chain /\ chain[h].kind = "swap" /\ chain[h].status = "sent"
    /\ IsMined(h, "reverted")
    /\ UNCHANGED <<row, quote, flow, asks>>

ExpireQuote ==
    /\ quote.live /\ quote' = [quote EXCEPT !.live = FALSE]
    /\ UNCHANGED <<row, chain, flow, asks, upsets>>

\* A flow is lost to a crash, or a call it makes fails and it gives up.
Upset(w) ==
    /\ upsets < MaxUpsets /\ upsets' = upsets + 1
    /\ ~At(w, "idle") /\ Ends(w)
    /\ UNCHANGED <<row, quote, chain, asks>>

(***************************************************************************)
(* The specification                                                       *)
(***************************************************************************)
Init ==
    /\ row = [p \in Payments |-> NoRow]
    /\ quote = [status |-> "quoted", nonce |-> Nobody, live |-> TRUE,
                offered |-> TRUE, epoch |-> 1]
    /\ chain = <<>>
    /\ flow = [w \in Flows |-> NoJob]
    /\ asks = 0 /\ upsets = 0

\* What a flow that was started goes on to do.
Proceed(w) ==
    \/ Claim(w) \/ Start(w) \/ Pay(w) \/ Answer(w) \/ RecordBroadcast(w)
    \/ SendSwap(w) \/ RecordSwap(w) \/ ConfirmSwap(w) \/ Credit(w) \/ Finish(w)
    \/ Return(w) \/ RecordReturn(w) \/ ConfirmReturn(w) \/ MarkSettled(w)
    \/ ResumeBroadcast(w) \/ Fail(w)

PassStarts(w, p) ==
    Recover(w, p) \/ RecoverReturn(w, p) \/ Sweep(w, p) \/ ResumeStuck(w, p)

Next ==
    \/ \E w \in Requests, p \in Payments : Ask(w, p)
    \/ \E w \in Passes, p \in Payments : PassStarts(w, p)
    \/ \E w \in Flows : Proceed(w) \/ StepFails(w) \/ Upset(w)
    \/ \E h \in DOMAIN chain : Mine(h) \/ RevertSwap(h)
    \/ Quote \/ ExpireQuote

Spec == Init /\ [][Next]_vars

\* Started flows go on; every pass comes to every payment on its lists; time
\* passes and transactions are mined.  Nobody has to pay or to ask again.
Fairness ==
    /\ \A w \in Flows : WF_vars(Proceed(w))
    /\ \A w \in Passes, p \in Payments : SF_vars(PassStarts(w, p))
    /\ \A h \in 1 .. MaxTx : WF_vars(Mine(h))

LiveSpec == Spec /\ Fairness

(***************************************************************************)
(* Properties                                                              *)
(***************************************************************************)
Statuses == {"sent", "mined", "reverted"}
Txs == [kind : {"authorization", "swap", "refund"}, pay : Payments, status : Statuses]
Hashes == 0 .. MaxTx

RowType == [state : States, ref : Hashes, swapped : BOOLEAN,
            refund : Hashes, confirmed : Hashes, under : 0 .. MaxQuotes]
JobType == [pc : Labels, pay : Payments \cup {Nobody}, tx : Hashes, own : BOOLEAN]
QuoteType == [status : {"quoted", "claimed", "settled"}, nonce : Payments \cup {Nobody},
              live : BOOLEAN, offered : BOOLEAN, epoch : 1 .. MaxQuotes]

X402TypeOK ==
    /\ row \in [Payments -> RowType]
    /\ flow \in [Flows -> JobType]
    /\ quote \in QuoteType
    /\ chain \in Seq(Txs) /\ Len(chain) <= MaxTx
    /\ asks \in 0 .. MaxAsks /\ upsets \in 0 .. MaxUpsets

\* Every variable has its type, and a merchant is credited for money that moved:
\* the payer's authorization is mined, and on a cross-asset payment a swap that
\* paid the merchant is mined too; and the operator swaps for nobody whose
\* authorization is not.
CreditedFromChain ==
    /\ X402TypeOK
    /\ \A p \in Payments : row[p].state \in {"ASSET_RECEIVED", "SUCCESS"} =>
          /\ Authorized(p)
          /\ p \in Cross => \E h \in DOMAIN chain : Is(h, "swap", p, "mined")
    /\ \A h \in DOMAIN chain : chain[h].kind = "swap" => Authorized(chain[h].pay)

\* One quote is paid by one payer: of two authorizations that claimed the same
\* quote of an obligation, at most one moves money.
OnePayerPerQuote ==
    \A p, q \in Payable :
        Authorized(p) /\ Authorized(q) /\ row[p].under = row[q].under => p = q

\* A payment whose broadcast is on record is failed by no flow but the one that
\* has the engine post its receipt, when that throws: never by the expiry sweep,
\* however late it writes what it decided, and never by a flow of another payment.
RecordedIsNotFailed ==
    [][\A p \in Payments :
          row[p].ref # 0 /\ row[p].state # "FAILED" /\ row'[p].state = "FAILED" =>
              \E w \in Flows :
                  flow[w].pay = p /\ flow[w].pc \in {"crediting", "finishing"}
                  /\ flow'[w] = NoJob]_vars

\* Two ways a payment is left for a person: its swap reverted after it was
\* recorded, or its terms left the quote row when a new quote was made.
LeftForAPerson(p) ==
    \/ \E h \in DOMAIN chain : Is(h, "swap", p, "reverted")
    \/ ~TermsKnown(p)

\* A payment that waits is paid or failed, whatever became of the request that
\* made it, unless it is left for a person.
PaymentsEnd ==
    \A p \in Payments :
        row[p].state = "PAYMENT_PENDING"
            ~> row[p].state \in {"SUCCESS", "FAILED"} \/ LeftForAPerson(p)

\* A cross-asset payment that waits ends with the payer's change returned, or
\* failed, unless it is left for a person; once it succeeded, only with the change.
ChangeIsReturned ==
    \A p \in Cross :
        /\ row[p].state = "PAYMENT_PENDING"
              ~> row[p].confirmed # 0 \/ row[p].state = "FAILED" \/ LeftForAPerson(p)
        /\ row[p].state = "SUCCESS" ~> row[p].confirmed # 0

(***************************************************************************)
(* What the repository says and the code does not do                       *)
(***************************************************************************)

\* x402.ts:1013: the swap's hash is recorded so that no resume sends it again,
\* "spending the operator's own balance and paying the merchant twice".
MerchantPaidOnce ==
    \A h, k \in DOMAIN chain : \A p \in Payments :
        Is(h, "swap", p, "mined") /\ Is(k, "swap", p, "mined") => h = k

\* engine.ts:370: "expiry describes a payer who never paid, not one whose
\* payment is still being confirmed".
FailedMeansUnpaid ==
    \A p \in Payments : row[p].state = "FAILED" => ~Authorized(p)

\* x402.ts:724: "`recoverBroadcasts` resumes the return from its recorded
\* position": the change of a payment is returned once.
ChangeReturnedOnce ==
    \A h, k \in DOMAIN chain : \A p \in Payments :
        Is(h, "refund", p, "mined") /\ Is(k, "refund", p, "mined") => h = k
=============================================================================
