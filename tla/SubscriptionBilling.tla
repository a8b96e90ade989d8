------------------------- MODULE SubscriptionBilling -------------------------
(***************************************************************************)
(* Subscriptions and the invoices they bill: SubscriptionService.tick of   *)
(* several dashboard processes, the merchant's pause, resume and cancel,   *)
(* and what the merchant does to a cycle's invoice by hand meanwhile.      *)
(*                                                                         *)
(* A tick is cut at every statement and call: the list of subscriptions,   *)
(* then for each one due its invoice looked up by key, inserted, read      *)
(* again and issued under the merchant's next number, the webhook, the     *)
(* email, and the write that advances the subscription.  A person's call   *)
(* is one step, since the write it ends in is refused when the row moved.  *)
(*                                                                         *)
(* All subscriptions are one merchant's and share the number counter.      *)
(* Cycle n of each is due at time n.                                       *)
(***************************************************************************)
EXTENDS Naturals, FiniteSets

CONSTANTS
    Subs,       \* subscriptions
    Age,        \* listActive returns them by Age
    TickBatch,  \* how many active subscriptions a tick lists
    AtOnce,     \* those whose invoices fall due the moment they are billed
    Mailable,   \* those whose subscriber has an email address
    Paused,     \* those that may be paused at first
    Ticks,      \* processes, each with at most one tick
    MaxTime,    \* bound: the clock, and with it the cycles
    MaxActs,    \* bound: what the merchant does
    MaxUpsets   \* bound: crashes and failed calls

ASSUME BillingAssumption ==
    /\ Age \in [Subs -> Nat] /\ \A s, t \in Subs : Age[s] = Age[t] => s = t
    /\ AtOnce \subseteq Subs /\ Mailable \subseteq Subs /\ Paused \subseteq Subs
    /\ {TickBatch, MaxTime, MaxActs, MaxUpsets} \subseteq Nat

VARIABLES
    sub,      \* the subscriptions' rows
    invoice,  \* each cycle's invoice, found by its unique idempotency key
    next,     \* invoice_counters.next_number
    told,     \* cycles whose webhook event is enqueued
    mailed,   \* cycles whose email the provider took
    flow,     \* where each process's tick stands
    now,      \* the clock
    acts,     \* what the merchant did so far (bound)
    upsets    \* crashes and failed calls so far (bound)

vars == <<sub, invoice, next, told, mailed, flow, now, acts, upsets>>
papers == <<invoice, next>>
messages == <<told, mailed>>
bounds == <<now, acts, upsets>>

Cycles == Subs \X (0 .. MaxTime)
NewSub == [state |-> "active", billed |-> 0, version |-> 1]
PausedSub == [state |-> "paused", billed |-> 0, version |-> 2]
NoInvoice == [state |-> "none", number |-> 0, version |-> 0]

\* A tick bills s from the row it listed, r; todo: the others it listed.
\* inv: the cycle's invoice as it read it last.
Idle == [pc |-> "idle", todo |-> {}, r |-> NewSub, s |-> "none", inv |-> NoInvoice]
At(t, pc) == flow[t].pc = pc
Becomes(t, f) == flow' = [flow EXCEPT ![t] = f]
Goes(t, pc, inv) == Becomes(t, [flow[t] EXCEPT !.pc = pc, !.inv = inv])
Cycle(t) == <<flow[t].s, flow[t].r.billed>>

\* The oldest of the rows left, or the end of the tick.
TakesNext(t, todo) ==
    IF todo = {} THEN Becomes(t, Idle)
    ELSE \E j \in todo :
            /\ \A k \in todo : Age[j.s] <= Age[k.s]
            /\ Becomes(t, [pc |-> "finding", todo |-> todo \ {j}, r |-> j.r, s |-> j.s,
                           inv |-> NoInvoice])
Passes(t) == TakesNext(t, flow[t].todo)

(***************************************************************************)
(* The tick                                                                *)
(***************************************************************************)
IsDue(r) == r.state = "active" /\ r.billed <= now

\* listActive: the oldest TickBatch of the active ones, due or not.
Listed(s) ==
    /\ sub[s].state = "active"
    /\ Cardinality({t \in Subs : sub[t].state = "active" /\ Age[t] < Age[s]}) < TickBatch

Tick(t) ==
    /\ At(t, "idle")
    /\ \E s \in Subs : Listed(s) /\ IsDue(sub[s])
    /\ TakesNext(t, {[s |-> s, r |-> sub[s]] : s \in {u \in Subs : Listed(u) /\ IsDue(sub[u])}})
    /\ UNCHANGED <<sub, papers, messages, bounds>>

\* Mutant: the key is not looked up, so a replay meets the unique index.
Find_Never(t) ==
    /\ At(t, "finding")
    /\ Goes(t, "inserting", NoInvoice)
    /\ UNCHANGED <<sub, papers, messages, bounds>>

\* createInvoice looks the key up; an invoice that is no draft any more is
\* taken as it is.
Find(t) ==
    /\ At(t, "finding")
    /\ LET inv == invoice[Cycle(t)]
       IN  Goes(t, CASE inv.state = "none" -> "inserting"
                     [] inv.state = "draft" -> "loading"
                     [] OTHER -> "telling", inv)
    /\ UNCHANGED <<sub, papers, messages, bounds>>

\* A key that is taken by now fails the cycle until the next tick.
Insert(t) ==
    /\ At(t, "inserting")
    /\ IF invoice[Cycle(t)] = NoInvoice
       THEN /\ invoice' = [invoice EXCEPT ![Cycle(t)] =
                              [state |-> "draft", number |-> 0, version |-> 1]]
            /\ Goes(t, "loading", NoInvoice)
       ELSE Passes(t) /\ UNCHANGED invoice
    /\ UNCHANGED <<sub, next, messages, bounds>>

\* issueInvoice reads the row; it refuses what is no draft.
Load(t) ==
    /\ At(t, "loading")
    /\ LET inv == invoice[Cycle(t)]
       IN  IF inv.state = "draft" THEN Goes(t, "issuing", inv) ELSE Passes(t)
    /\ UNCHANGED <<sub, papers, messages, bounds>>

Issued(inv) == [state |-> "issued", number |-> next, version |-> inv.version + 1]

\* Mutant: the number is taken before the transaction of the write.
Issue_Apart(t) ==
    /\ At(t, "issuing") /\ next' = next + 1
    /\ LET c == Cycle(t)  inv == flow[t].inv
       IN  IF invoice[c].version = inv.version
           THEN invoice' = [invoice EXCEPT ![c] = Issued(inv)] /\ Goes(t, "telling", Issued(inv))
           ELSE Passes(t) /\ UNCHANGED invoice
    /\ UNCHANGED <<sub, messages, bounds>>

\* The due date is counted from the start of the tick, and the clock is read
\* again for the date of issue: an invoice due at once is mostly due before it
\* is issued, which issueInvoice refuses.
DueBeforeIssued(s) == s \in AtOnce

\* repository.issue: the number and the write are one transaction; a refusal and
\* a row that moved roll both back, and the cycle waits for the next tick.
Issue(t) ==
    /\ At(t, "issuing")
    /\ LET c == Cycle(t)  inv == flow[t].inv
       IN  \/ /\ invoice[c].version = inv.version
              /\ next' = next + 1
              /\ invoice' = [invoice EXCEPT ![c] = Issued(inv)]
              /\ Goes(t, "telling", Issued(inv))
           \/ /\ invoice[c].version # inv.version \/ DueBeforeIssued(flow[t].s)
              /\ Passes(t) /\ UNCHANGED papers
    /\ UNCHANGED <<sub, messages, bounds>>

\* enqueueMerchantEvent: the cycle's key is the event's id.
Tell(t) ==
    /\ At(t, "telling")
    /\ told' = told \cup {Cycle(t)}
    /\ LET mails == flow[t].s \in Mailable /\ flow[t].inv.number # 0
       IN  Goes(t, IF mails THEN "mailing" ELSE "advancing", NoInvoice)
    /\ UNCHANGED <<sub, papers, mailed, bounds>>

\* The provider takes one message per key, which is the cycle's.
Mail(t) ==
    /\ At(t, "mailing")
    /\ mailed' = mailed \cup {Cycle(t)}
    /\ Goes(t, "advancing", NoInvoice)
    /\ UNCHANGED <<sub, papers, told, bounds>>

\* Mutant: the row's version is not compared.
Unmoved_Assumed(t) == TRUE

Unmoved(t) == sub[flow[t].s].version = flow[t].r.version

MarkBilled(r) == [state |-> r.state, billed |-> r.billed + 1, version |-> r.version + 1]

\* The row the tick listed is written, under its version.
Advance(t) ==
    /\ At(t, "advancing")
    /\ IF Unmoved(t)
       THEN sub' = [sub EXCEPT ![flow[t].s] = MarkBilled(flow[t].r)]
       ELSE UNCHANGED sub
    /\ Passes(t)
    /\ UNCHANGED <<papers, messages, bounds>>

(***************************************************************************)
(* The merchant                                                            *)
(***************************************************************************)
Acts == acts < MaxActs /\ acts' = acts + 1 /\ UNCHANGED <<messages, flow, now, upsets>>

Sets(s, state, billed) ==
    /\ Acts
    /\ sub' = [sub EXCEPT ![s] = [state |-> state, billed |-> billed, version |-> @.version + 1]]
    /\ UNCHANGED papers

Pause(s) == sub[s].state = "active" /\ Sets(s, "paused", sub[s].billed)

\* Billing goes on from the next date that is not in the past.
Resume(s) ==
    /\ sub[s].state = "paused"
    /\ Sets(s, "active", IF sub[s].billed < now THEN now ELSE sub[s].billed)

Cancel(s) == sub[s].state # "cancelled" /\ Sets(s, "cancelled", sub[s].billed)

\* A draft is edited, or an invoice listed or taken off the list.
Touch(c) ==
    /\ Acts /\ invoice[c].state # "none"
    /\ invoice' = [invoice EXCEPT ![c].version = @ + 1]
    /\ UNCHANGED <<sub, next>>

\* The number is not released.
Voided(inv) == [state |-> "void", number |-> inv.number, version |-> inv.version + 1]

Void(c) ==
    /\ Acts /\ invoice[c].state \in {"draft", "issued"}
    /\ invoice' = [invoice EXCEPT ![c] = Voided(@)]
    /\ UNCHANGED <<sub, next>>

IssueByHand(c) ==
    /\ Acts /\ invoice[c].state = "draft"
    /\ invoice' = [invoice EXCEPT ![c] = Issued(@)] /\ next' = next + 1
    /\ UNCHANGED sub

(***************************************************************************)
(* Time and failure                                                        *)
(***************************************************************************)
Elapse == now < MaxTime /\ now' = now + 1
          /\ UNCHANGED <<sub, papers, messages, flow, acts, upsets>>

Upset(t) == upsets < MaxUpsets /\ upsets' = upsets + 1 /\ ~At(t, "idle")
            /\ UNCHANGED <<sub, papers, messages, now, acts>>

\* A call the cycle makes fails; the tick goes on to the next subscription.
CallFails(t) == Upset(t) /\ Passes(t)
Crash(t) == Upset(t) /\ Becomes(t, Idle)

(***************************************************************************)
(* The specification                                                       *)
(***************************************************************************)
Init ==
    /\ \E P \in SUBSET Paused : sub = [s \in Subs |-> IF s \in P THEN PausedSub ELSE NewSub]
    /\ invoice = [c \in Cycles |-> NoInvoice]
    /\ next = 1 /\ told = {} /\ mailed = {}
    /\ flow = [t \in Ticks |-> Idle]
    /\ now = 0 /\ acts = 0 /\ upsets = 0

Bill(t) ==
    Find(t) \/ Insert(t) \/ Load(t) \/ Issue(t) \/ Tell(t) \/ Mail(t) \/ Advance(t)

Next ==
    \/ \E t \in Ticks : Tick(t) \/ Bill(t) \/ CallFails(t) \/ Crash(t)
    \/ \E s \in Subs : Pause(s) \/ Resume(s) \/ Cancel(s)
    \/ \E c \in Cycles : Touch(c) \/ Void(c) \/ IssueByHand(c)
    \/ Elapse

Spec == Init /\ [][Next]_vars

\* Every process ticks once a minute and finishes what it started.
Fairness == \A t \in Ticks : WF_vars(Tick(t) \/ Bill(t))

LiveSpec == Spec /\ Fairness

(***************************************************************************)
(* Properties                                                              *)
(***************************************************************************)
SubType == [state : {"active", "paused", "cancelled"}, billed : Nat, version : Nat]
InvoiceType == [state : {"none", "draft", "issued", "void"}, number : Nat, version : Nat]
Labels == {"idle", "finding", "inserting", "loading", "issuing", "telling", "mailing", "advancing"}
FlowType == [pc : Labels, todo : SUBSET [s : Subs, r : SubType], r : SubType,
             s : Subs \cup {"none"}, inv : InvoiceType]

BillingTypeOK ==
    /\ sub \in [Subs -> SubType] /\ invoice \in [Cycles -> InvoiceType] /\ next \in Nat \ {0}
    /\ told \subseteq Cycles /\ mailed \subseteq Cycles
    /\ flow \in [Ticks -> FlowType] /\ \A t \in Ticks : ~At(t, "idle") => Cycle(t) \in Cycles
    /\ now \in 0 .. MaxTime /\ acts \in 0 .. MaxActs /\ upsets \in 0 .. MaxUpsets

Gapless ==
    /\ {invoice[c].number : c \in Cycles} \ {0} = 1 .. next - 1
    /\ \A c, d \in Cycles : invoice[c].number = invoice[d].number /\ c # d
          => invoice[c].number = 0
    /\ \A c \in Cycles : /\ invoice[c].state = "issued" => invoice[c].number # 0
                         /\ invoice[c].state \in {"none", "draft"} => invoice[c].number = 0

\* invoice.ts: numbering is gapless.  However ticks and people issue invoices,
\* void them or collide, the numbers given out are the first ones, once each,
\* and an invoice has one exactly when it was issued.
NumbersAreGapless == BillingTypeOK /\ Gapless

\* What the merchant and the subscriber have of a cycle once it counts as billed:
\* an invoice that is no draft, its event, and its email unless it never had a
\* number because the merchant voided the draft.
Delivered(c) ==
    /\ invoice[c].state \in {"issued", "void"}
    /\ c \in told
    /\ c[1] \in Mailable /\ invoice[c].number # 0 => c \in mailed

\* subscription-service.ts: the subscription only advances under its lock.  A
\* cycle is counted by one tick, once it is delivered; only a resume skips
\* cycles, up to the present; and no late write of a tick undoes a pause or a
\* cancellation.
ScheduleHolds ==
    [][\A s \in Subs : sub'[s] # sub[s] =>
          LET r == sub[s]  q == sub'[s]
          IN  /\ r.state # "cancelled"
              /\ r.state = q.state =>
                    r.state = "active" /\ q.billed = r.billed + 1 /\ Delivered(<<s, r.billed>>)
              /\ r.state # q.state =>
                    \/ q.billed = r.billed
                    \/ r.state = "paused" /\ q.billed = now /\ r.billed < now]_vars

\* subscription-service.ts: a crash replays into the same invoice and the same
\* email, then advances.  A subscription with cycles due catches up with all of
\* them, unless the merchant pauses or cancels it.  Two are left behind: one
\* whose invoices fall due at once, which may be refused every time, and one
\* that TickBatch older ones, due or not, keep off the list for good.
DueIsBilled ==
    \A s \in Subs \ AtOnce : IsDue(sub[s]) ~> (~IsDue(sub[s]) \/ []~Listed(s))

(***************************************************************************)
(* What the repository says and the code does not do                       *)
(***************************************************************************)

\* subscription.ts:111: 'a pause means "stop charging"'.
PausedIsNotCharged ==
    [][\A c \in Cycles : invoice[c].state = "draft" /\ invoice'[c].state = "issued" /\ acts' = acts
          => sub[c[1]].state = "active"]_vars
=============================================================================
