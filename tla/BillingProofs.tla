--------------------------- MODULE BillingProofs ---------------------------
(* The numbering and the schedule, for every number of subscriptions,        *)
(* processes, cycles, merchant's calls and failures.                         *)
EXTENDS SubscriptionBilling, TLAPS

(***************************************************************************)
(* The inductive invariant                                                 *)
(***************************************************************************)

\* A version seen is not ahead of the row's, and names one content of it.
Seen(old, row) == old.version <= row.version /\ (old.version = row.version => row = old)

RowFits(s, r) == r.state = "active" /\ r.billed <= now /\ Seen(r, sub[s])

\* What a tick may rely on where it stands.
FlowFits(t) ==
    LET c == Cycle(t)  inv == flow[t].inv
    IN  /\ \A j \in flow[t].todo : RowFits(j.s, j.r)
        /\ ~At(t, "idle") => RowFits(flow[t].s, flow[t].r)
        /\ At(t, "issuing") => inv.state = "draft" /\ Seen(inv, invoice[c])
        /\ flow[t].pc \in {"telling", "mailing", "advancing"} => invoice[c].state \in {"issued", "void"}
        /\ At(t, "telling") => inv.number = invoice[c].number
        /\ flow[t].pc \in {"mailing", "advancing"} => c \in told
        /\ At(t, "advancing") => Delivered(c)

BillingInv == NumbersAreGapless /\ \A t \in Ticks : FlowFits(t)


(***************************************************************************)
(* What a step changes                                                     *)
(***************************************************************************)

\* Rows that are written get a higher version, and what is settled stays.
Grows ==
    /\ now <= now' /\ told \subseteq told' /\ mailed \subseteq mailed'
    /\ \A s \in Subs : sub'[s] = sub[s] \/ sub[s].version < sub'[s].version
    /\ \A c \in Cycles :
          \/ invoice'[c] = invoice[c]
          \/ /\ invoice[c].version < invoice'[c].version
             /\ invoice[c].state \in {"issued", "void"} =>
                   /\ invoice'[c].state \in {"issued", "void"}
                   /\ invoice'[c].number = invoice[c].number

DataTyped ==
    /\ sub' \in [Subs -> SubType] /\ invoice' \in [Cycles -> InvoiceType] /\ next' \in Nat \ {0}
    /\ told' \subseteq Cycles /\ mailed' \subseteq Cycles
    /\ now' \in 0 .. MaxTime /\ acts' \in 0 .. MaxActs /\ upsets' \in 0 .. MaxUpsets

\* Only the flow of t moved, and to where it may stand.
Moved(t) ==
    /\ flow' \in [Ticks -> FlowType]
    /\ \A u \in Ticks \ {t} : flow'[u] = flow[u]
    /\ flow'[t].pc # "idle" => <<flow'[t].s, flow'[t].r.billed>> \in Cycles
    /\ FlowFits(t)'

LEMMA SeenStays ==
  ASSUME NEW o, NEW a, NEW b, o.version \in Nat, a.version \in Nat, b.version \in Nat,
         Seen(o, a), b = a \/ a.version < b.version
  PROVE  Seen(o, b)
  BY DEF Seen

LEMMA FlowStays ==
  ASSUME BillingInv, DataTyped, Grows, NEW t \in Ticks, flow'[t] = flow[t]
  PROVE  FlowFits(t)'
  <1> DEFINE c == Cycle(t)
             inv == flow[t].inv
  <1>1. flow[t] \in FlowType /\ FlowFits(t)
    BY DEF BillingInv, NumbersAreGapless, BillingTypeOK
  <1>2. ASSUME NEW s \in Subs, NEW r \in SubType, RowFits(s, r)
        PROVE  r.state = "active" /\ r.billed <= now' /\ Seen(r, sub'[s])
    <2>1. sub[s] \in SubType /\ sub'[s] \in SubType /\ now \in Nat /\ now' \in Nat
      BY DEF BillingInv, NumbersAreGapless, BillingTypeOK, DataTyped
    <2>2. Seen(r, sub[s]) /\ (sub'[s] = sub[s] \/ sub[s].version < sub'[s].version)
      BY <1>2 DEF RowFits, Grows
    <2>3. Seen(r, sub'[s])
      BY <2>1, <2>2 DEF Seen, SubType
    <2> QED BY <1>2, <2>1, <2>3 DEF RowFits, Grows, SubType
  <1>3. \A j \in flow[t].todo : j.s \in Subs /\ j.r \in SubType
    BY <1>1 DEF FlowType
  <1>4. (\A j \in flow[t].todo : RowFits(j.s, j.r))'
    BY <1>1, <1>2, <1>3 DEF FlowFits, RowFits
  <1>5. CASE At(t, "idle")
    BY <1>4, <1>5 DEF FlowFits, At
  <1>6. CASE ~At(t, "idle")
    <2>1. c \in Cycles /\ flow[t].s \in Subs /\ flow[t].r \in SubType
      BY <1>1, <1>6 DEF BillingInv, NumbersAreGapless, BillingTypeOK, Cycle, Cycles, FlowType
    <2>2. (~At(t, "idle") => RowFits(flow[t].s, flow[t].r))'
      BY <1>1, <1>2, <1>6, <2>1 DEF FlowFits, RowFits, At
    <2>3. invoice[c] \in InvoiceType /\ invoice'[c] \in InvoiceType /\ inv \in InvoiceType
      BY <1>1, <2>1 DEF BillingInv, NumbersAreGapless, BillingTypeOK, DataTyped, FlowType
    <2>4. invoice'[c] = invoice[c] \/ invoice[c].version < invoice'[c].version
      BY <2>1 DEF Grows
    <2>5. At(t, "issuing") => Seen(inv, invoice'[c])
      BY <1>1, <2>3, <2>4 DEF FlowFits, Seen, InvoiceType
    <2>6. ASSUME invoice[c].state \in {"issued", "void"}
          PROVE  invoice'[c].state \in {"issued", "void"} /\ invoice'[c].number = invoice[c].number
      BY <2>1, <2>6 DEF Grows
    <2>7. c \in told => c \in told'
      BY DEF Grows
    <2>8. c \in mailed => c \in mailed'
      BY DEF Grows
    <2>9. At(t, "advancing") =>
             /\ invoice'[c].state \in {"issued", "void"} /\ c \in told'
             /\ c[1] \in Mailable /\ invoice'[c].number # 0 => c \in mailed'
      BY <1>1, <2>6, <2>7, <2>8 DEF FlowFits, Delivered
    <2>10. Cycle(t)' = c
      BY DEF Cycle
    <2> QED BY <1>1, <1>4, <2>2, <2>5, <2>6, <2>7, <2>9, <2>10 DEF FlowFits, At, Delivered
  <1> QED BY <1>5, <1>6

LEMMA TickStep ==
  ASSUME BillingInv, DataTyped, Grows, Gapless', NEW t \in Ticks, Moved(t)
  PROVE  BillingInv'
  <1>1. \A u \in Ticks : FlowFits(u)'
    BY FlowStays DEF Moved
  <1>2. ASSUME NEW u \in Ticks PROVE (~At(u, "idle") => Cycle(u) \in Cycles)'
    BY DEF Moved, BillingInv, NumbersAreGapless, BillingTypeOK, At, Cycle
  <1>3. BillingTypeOK'
    BY <1>2 DEF DataTyped, Moved, BillingTypeOK
  <1> QED BY <1>1, <1>3 DEF BillingInv, NumbersAreGapless

LEMMA OtherStep ==
  ASSUME BillingInv, DataTyped, Grows, Gapless', flow' = flow
  PROVE  BillingInv'
  <1>1. \A u \in Ticks : FlowFits(u)'
    BY FlowStays
  <1>2. BillingTypeOK'
    BY DEF DataTyped, BillingInv, NumbersAreGapless, BillingTypeOK, At, Cycle
  <1> QED BY <1>1, <1>2 DEF BillingInv, NumbersAreGapless

(***************************************************************************)
(* Numbers                                                                 *)
(***************************************************************************)
LEMMA SameNumbers ==
  ASSUME Gapless, next' = next, \A c \in Cycles : invoice'[c].number = invoice[c].number,
         \A c \in Cycles : /\ invoice'[c].state = "issued" => invoice[c].number # 0
                           /\ invoice'[c].state \in {"none", "draft"} => invoice[c].number = 0
  PROVE  Gapless'
  <1>1. {invoice'[c].number : c \in Cycles} = {invoice[c].number : c \in Cycles}
    OBVIOUS
  <1> QED BY <1>1 DEF Gapless

LEMMA NewNumber ==
  ASSUME BillingTypeOK, Gapless, NEW c \in Cycles, NEW i \in InvoiceType,
         invoice[c].number = 0, next' = next + 1, invoice' = [invoice EXCEPT ![c] = Issued(i)]
  PROVE  Gapless'
  <1>1. invoice'[c].number = next /\ invoice'[c].state = "issued" /\ next \in Nat \ {0}
    BY DEF BillingTypeOK, Issued
  <1>2. \A d \in Cycles \ {c} : invoice'[d] = invoice[d]
    BY DEF BillingTypeOK
  <1>3. \A d \in Cycles : invoice[d].number \in Nat
    BY DEF BillingTypeOK, InvoiceType
  <1>4. \A d \in Cycles : invoice[d].number # 0 => invoice[d].number \in 1 .. next - 1
    BY DEF Gapless
  <1>5. \A k \in 1 .. next - 1 : \E d \in Cycles : invoice[d].number = k
    BY DEF Gapless
  <1>6. \A d \in Cycles : invoice'[d].number # 0 => invoice'[d].number \in 1 .. next
    BY <1>1, <1>2, <1>4
  <1>7. ASSUME NEW k \in 1 .. next PROVE \E d \in Cycles : invoice'[d].number = k
    <2>1. CASE k = next
      BY <1>1, <2>1
    <2>2. CASE k # next
      <3>1. k \in 1 .. next - 1 /\ k # 0
        BY <1>1, <2>2
      <3>2. PICK d \in Cycles : invoice[d].number = k
        BY <1>5, <3>1
      <3> QED BY <1>2, <3>1, <3>2
    <2> QED BY <2>1, <2>2
  <1>8. {invoice'[d].number : d \in Cycles} \ {0} = 1 .. next' - 1
    <2>1. 1 .. next' - 1 = 1 .. next /\ 0 \notin 1 .. next
      BY <1>1
    <2>2. {invoice'[d].number : d \in Cycles} \ {0} \subseteq 1 .. next
      BY <1>6
    <2>3. \A k \in 1 .. next : k \in {invoice'[d].number : d \in Cycles}
      BY <1>7
    <2> QED BY <2>1, <2>2, <2>3
  <1>9. ASSUME NEW d \in Cycles, NEW e \in Cycles, invoice'[d].number = invoice'[e].number, d # e
        PROVE  invoice'[d].number = 0
    <2>1. ASSUME NEW b \in Cycles, invoice[b].number = next PROVE FALSE
      <3>1. next # 0 /\ next \notin 1 .. next - 1
        BY <1>1
      <3> QED BY <1>4, <2>1, <3>1
    <2>2. d # c /\ e # c
      BY <1>1, <1>2, <1>9, <2>1
    <2>3. invoice[d].number = invoice[e].number /\ invoice'[d] = invoice[d]
      BY <1>2, <1>9, <2>2
    <2>4. invoice[d].number = 0
      BY <1>9, <2>3 DEF Gapless
    <2> QED BY <2>3, <2>4
  <1>10. ASSUME NEW d \in Cycles
         PROVE  /\ invoice'[d].state = "issued" => invoice'[d].number # 0
                /\ invoice'[d].state \in {"none", "draft"} => invoice'[d].number = 0
    BY <1>1, <1>2 DEF Gapless
  <1> QED BY <1>8, <1>9, <1>10 DEF Gapless

(***************************************************************************)
(* The tick                                                                *)
(***************************************************************************)
LEMMA InitInv == Init => BillingInv
  <1> SUFFICES ASSUME Init PROVE BillingInv
    OBVIOUS
  <1>1. 0 \in Nat /\ 1 \in Nat /\ 2 \in Nat /\ {MaxTime, MaxActs, MaxUpsets} \subseteq Nat
    BY BillingAssumption
  <1>2. NewSub \in SubType /\ PausedSub \in SubType /\ NoInvoice \in InvoiceType
    BY <1>1 DEF NewSub, PausedSub, NoInvoice, SubType, InvoiceType
  <1>3. sub \in [Subs -> SubType]
    BY <1>2 DEF Init
  <1>4. Idle \in FlowType
    BY <1>2 DEF Idle, FlowType, Labels
  <1>5. BillingTypeOK
    BY <1>1, <1>2, <1>3, <1>4 DEF Init, BillingTypeOK, At, Idle
  <1>6. \A c \in Cycles : invoice[c].number = 0 /\ invoice[c].state = "none"
    BY DEF Init, NoInvoice
  <1>7. {invoice[c].number : c \in Cycles} \ {0} = {} /\ 1 .. next - 1 = {}
    BY <1>6 DEF Init
  <1>8. Gapless
    BY <1>6, <1>7 DEF Gapless
  <1>9. ASSUME NEW t \in Ticks PROVE FlowFits(t)
    BY DEF Init, FlowFits, At, Idle
  <1> QED BY <1>5, <1>8, <1>9 DEF BillingInv, NumbersAreGapless

\* A tick that goes on to the next of its rows.
LEMMA TakesNextMoves ==
  ASSUME BillingTypeOK, DataTyped, NEW t \in Ticks, NEW todo \in SUBSET [s : Subs, r : SubType],
         \A j \in todo : j.r.state = "active" /\ j.r.billed <= now' /\ Seen(j.r, sub'[j.s]),
         TakesNext(t, todo)
  PROVE  Moved(t)
  <1>1. CASE todo = {}
    <2>1. flow' = [flow EXCEPT ![t] = Idle]
      BY <1>1 DEF TakesNext, Becomes
    <2>2. Idle \in FlowType
      BY DEF Idle, FlowType, Labels, NewSub, NoInvoice, SubType, InvoiceType
    <2>3. flow' \in [Ticks -> FlowType] /\ flow'[t] = Idle /\ \A u \in Ticks \ {t} : flow'[u] = flow[u]
      BY <2>1, <2>2 DEF BillingTypeOK
    <2>4. FlowFits(t)'
      BY <2>3 DEF FlowFits, At, Idle
    <2> QED BY <2>3, <2>4 DEF Moved, Idle
  <1>2. CASE todo # {}
    <2>1. PICK j \in todo :
            flow' = [flow EXCEPT ![t] = [pc |-> "finding", todo |-> todo \ {j}, r |-> j.r, s |-> j.s,
                                         inv |-> NoInvoice]]
      BY <1>2 DEF TakesNext, Becomes
    <2>2. j.s \in Subs /\ j.r \in SubType /\ NoInvoice \in InvoiceType
      BY DEF NoInvoice, InvoiceType
    <2>3. [pc |-> "finding", todo |-> todo \ {j}, r |-> j.r, s |-> j.s, inv |-> NoInvoice] \in FlowType
      BY <2>2 DEF FlowType, Labels
    <2>4. /\ flow' \in [Ticks -> FlowType] /\ \A u \in Ticks \ {t} : flow'[u] = flow[u]
          /\ flow'[t] = [pc |-> "finding", todo |-> todo \ {j}, r |-> j.r, s |-> j.s,
                         inv |-> NoInvoice]
      BY <2>1, <2>3 DEF BillingTypeOK
    <2>5. j.r.billed \in 0 .. MaxTime
      BY <2>2, BillingAssumption DEF SubType, DataTyped
    <2>6. <<flow'[t].s, flow'[t].r.billed>> \in Cycles
      BY <2>2, <2>4, <2>5 DEF Cycles
    <2>7. FlowFits(t)'
      BY <2>4 DEF FlowFits, RowFits, At
    <2> QED BY <2>4, <2>6, <2>7 DEF Moved
  <1> QED BY <1>1, <1>2

LEMMA PassesMoves ==
  ASSUME BillingInv, DataTyped, Grows, NEW t \in Ticks, Passes(t)
  PROVE  Moved(t)
  <1>1. PICK todo : todo = flow[t].todo
    OBVIOUS
  <1>2. todo \in SUBSET [s : Subs, r : SubType] /\ \A j \in todo : RowFits(j.s, j.r)
    BY <1>1 DEF BillingInv, NumbersAreGapless, BillingTypeOK, FlowType, FlowFits
  <1>3. ASSUME NEW j \in todo
        PROVE  j.r.state = "active" /\ j.r.billed <= now' /\ Seen(j.r, sub'[j.s])
    <2>1. j.s \in Subs /\ j.r \in SubType /\ RowFits(j.s, j.r)
      BY <1>2
    <2>2. sub[j.s] \in SubType /\ sub'[j.s] \in SubType /\ now \in Nat /\ now' \in Nat
      BY <2>1 DEF BillingInv, NumbersAreGapless, BillingTypeOK, DataTyped
    <2>3. Seen(j.r, sub'[j.s])
      BY <2>1, <2>2 DEF RowFits, Seen, SubType, Grows
    <2> QED BY <2>1, <2>2, <2>3 DEF RowFits, Grows, SubType
  <1>4. TakesNext(t, todo)
    BY <1>1 DEF Passes
  <1> QED BY <1>2, <1>3, <1>4, TakesNextMoves DEF BillingInv, NumbersAreGapless

\* Nothing but flows, and bounds, changes.
LEMMA StillGrows ==
  ASSUME BillingInv, UNCHANGED <<sub, papers, messages, now>>,
         acts' \in 0 .. MaxActs, upsets' \in 0 .. MaxUpsets
  PROVE  DataTyped /\ Grows /\ Gapless'
  BY DEF BillingInv, NumbersAreGapless, BillingTypeOK, papers, messages, DataTyped, Grows, Gapless

\* The rows a flow holds fit as well after a step.
LEMMA RowStays ==
  ASSUME BillingInv, DataTyped, Grows, NEW s \in Subs, NEW r \in SubType, RowFits(s, r)
  PROVE  r.state = "active" /\ r.billed <= now' /\ Seen(r, sub'[s])
  <1>1. sub[s] \in SubType /\ sub'[s] \in SubType /\ now \in Nat /\ now' \in Nat
    BY DEF BillingInv, NumbersAreGapless, BillingTypeOK, DataTyped
  <1>2. Seen(r, sub'[s])
    BY <1>1 DEF RowFits, Seen, SubType, Grows
  <1> QED BY <1>1, <1>2 DEF RowFits, Grows, SubType

\* What the label pc needs of the invoice of the cycle c.
Allows(pc, inv, c) ==
    /\ pc = "issuing" => inv.state = "draft" /\ Seen(inv, invoice'[c])
    /\ pc \in {"telling", "mailing", "advancing"} => invoice'[c].state \in {"issued", "void"}
    /\ pc = "telling" => inv.number = invoice'[c].number
    /\ pc \in {"mailing", "advancing"} => c \in told'
    /\ pc = "advancing" /\ c[1] \in Mailable /\ invoice'[c].number # 0 => c \in mailed'

LEMMA GoesMoves ==
  ASSUME BillingInv, DataTyped, Grows, NEW t \in Ticks, ~At(t, "idle"),
         NEW pc \in Labels \ {"idle"}, NEW inv \in InvoiceType, NEW c, c = Cycle(t),
         Goes(t, pc, inv), Allows(pc, inv, c)
  PROVE  Moved(t)
  <1>1. flow[t] \in FlowType /\ FlowFits(t) /\ c \in Cycles
    BY DEF BillingInv, NumbersAreGapless, BillingTypeOK
  <1>2. flow' = [flow EXCEPT ![t] = [flow[t] EXCEPT !.pc = pc, !.inv = inv]]
    BY DEF Goes, Becomes
  <1>3. [flow[t] EXCEPT !.pc = pc, !.inv = inv] \in FlowType
    BY <1>1 DEF FlowType
  <1>4. /\ flow' \in [Ticks -> FlowType] /\ \A u \in Ticks \ {t} : flow'[u] = flow[u]
        /\ flow'[t] = [flow[t] EXCEPT !.pc = pc, !.inv = inv]
    BY <1>2, <1>3 DEF BillingInv, NumbersAreGapless, BillingTypeOK
  <1>5. /\ flow'[t].pc = pc /\ flow'[t].inv = inv /\ flow'[t].todo = flow[t].todo
        /\ flow'[t].s = flow[t].s /\ flow'[t].r = flow[t].r
    BY <1>1, <1>4 DEF FlowType
  <1>6. flow[t].s \in Subs /\ flow[t].r \in SubType
    BY <1>1 DEF Cycle, Cycles, FlowType
  <1>7. \A j \in flow[t].todo : j.s \in Subs /\ j.r \in SubType /\ RowFits(j.s, j.r)
    BY <1>1 DEF FlowType, FlowFits
  <1>8. (\A j \in flow[t].todo : RowFits(j.s, j.r))'
    BY <1>5, <1>7, RowStays DEF RowFits
  <1>9. RowFits(flow[t].s, flow[t].r)'
    <2>1. PICK s \in Subs, r \in SubType : s = flow[t].s /\ r = flow[t].r
      BY <1>6
    <2>2. RowFits(s, r)
      BY <1>1, <2>1 DEF FlowFits
    <2>3. r.state = "active" /\ r.billed <= now' /\ Seen(r, sub'[s])
      BY <2>2, RowStays
    <2> QED BY <1>5, <2>1, <2>3 DEF RowFits
  <1>10. Cycle(t)' = c
    BY <1>5 DEF Cycle
  <1>11. FlowFits(t)'
    BY <1>5, <1>8, <1>9, <1>10 DEF FlowFits, Allows, Delivered, At
  <1> QED BY <1>1, <1>4, <1>5, <1>10, <1>11 DEF Moved, Cycle

LEMMA TickInv ==
  ASSUME BillingInv, NEW t \in Ticks, Tick(t)
  PROVE  BillingInv'
  <1>1. DataTyped /\ Grows /\ Gapless'
    BY StillGrows DEF Tick, bounds, BillingInv, NumbersAreGapless, BillingTypeOK
  <1>2. PICK todo : todo = {[s |-> u, r |-> sub[u]] : u \in {v \in Subs : Listed(v) /\ IsDue(sub[v])}}
    OBVIOUS
  <1>3. TakesNext(t, todo)
    BY <1>2 DEF Tick
  <1>4. sub \in [Subs -> SubType] /\ now' = now /\ sub' = sub
    BY DEF BillingInv, NumbersAreGapless, BillingTypeOK, Tick, bounds
  <1>5. ASSUME NEW j \in todo
        PROVE  /\ j \in [s : Subs, r : SubType]
               /\ j.r.state = "active" /\ j.r.billed <= now' /\ Seen(j.r, sub'[j.s])
    <2>1. PICK u \in Subs : j = [s |-> u, r |-> sub[u]] /\ IsDue(sub[u])
      BY <1>2
    <2> QED BY <1>4, <2>1 DEF IsDue, Seen, SubType
  <1>6. Moved(t)
    BY <1>1, <1>3, <1>5, TakesNextMoves DEF BillingInv, NumbersAreGapless
  <1> QED BY <1>1, <1>6, TickStep

LEMMA FindInv ==
  ASSUME BillingInv, NEW t \in Ticks, Find(t)
  PROVE  BillingInv'
  <1>1. DataTyped /\ Grows /\ Gapless' /\ invoice' = invoice
    BY StillGrows DEF Find, papers, bounds, BillingInv, NumbersAreGapless, BillingTypeOK
  <1>2. ~At(t, "idle") /\ Cycle(t) \in Cycles
    BY DEF Find, At, BillingInv, NumbersAreGapless, BillingTypeOK
  <1>3. PICK c \in Cycles, inv \in InvoiceType : c = Cycle(t) /\ inv = invoice[c]
    BY <1>2 DEF BillingInv, NumbersAreGapless, BillingTypeOK
  <1>4. PICK pc \in Labels \ {"idle"} :
          /\ Goes(t, pc, inv) /\ pc \in {"inserting", "loading", "telling"}
          /\ pc = "telling" => inv.state \in {"issued", "void"}
    <2>1. CASE inv.state = "none"
      BY <1>3, <2>1 DEF Find, Labels
    <2>2. CASE inv.state = "draft"
      BY <1>3, <2>2 DEF Find, Labels
    <2>3. CASE inv.state \in {"issued", "void"}
      BY <1>3, <2>3 DEF Find, Labels
    <2> QED BY <1>3, <2>1, <2>2, <2>3 DEF InvoiceType
  <1>5. Allows(pc, inv, c)
    BY <1>1, <1>3, <1>4 DEF Allows
  <1>6. Moved(t)
    BY <1>1, <1>2, <1>3, <1>4, <1>5, GoesMoves
  <1> QED BY <1>1, <1>6, TickStep

LEMMA InsertInv ==
  ASSUME BillingInv, NEW t \in Ticks, Insert(t)
  PROVE  BillingInv'
  <1>1. ~At(t, "idle") /\ Cycle(t) \in Cycles
    BY DEF Insert, At, BillingInv, NumbersAreGapless, BillingTypeOK
  <1>2. PICK c \in Cycles : c = Cycle(t)
    BY <1>1
  <1>3. CASE invoice[c] = NoInvoice
    <2> DEFINE draft == [state |-> "draft", number |-> 0, version |-> 1]
    <2>1. invoice' = [invoice EXCEPT ![c] = draft] /\ Goes(t, "loading", NoInvoice)
      BY <1>2, <1>3 DEF Insert
    <2>2. draft \in InvoiceType /\ NoInvoice \in InvoiceType
      BY DEF InvoiceType, NoInvoice
    <2>3. /\ invoice' \in [Cycles -> InvoiceType] /\ invoice'[c] = draft
          /\ \A d \in Cycles \ {c} : invoice'[d] = invoice[d]
      BY <2>1, <2>2 DEF BillingInv, NumbersAreGapless, BillingTypeOK
    <2>4. DataTyped /\ Grows
      BY <1>3, <2>3 DEF Insert, messages, bounds, BillingInv, NumbersAreGapless, BillingTypeOK,
                        DataTyped, Grows, NoInvoice
    <2>5. \A d \in Cycles : /\ invoice[d].state = "issued" => invoice[d].number # 0
                            /\ invoice[d].state \in {"none", "draft"} => invoice[d].number = 0
      BY DEF BillingInv, NumbersAreGapless, Gapless
    <2>6. Gapless'
      BY <1>3, <2>3, <2>5, SameNumbers DEF Insert, NoInvoice, BillingInv, NumbersAreGapless
    <2>7. Allows("loading", NoInvoice, c)
      BY DEF Allows
    <2>8. Moved(t)
      BY <1>1, <1>2, <2>1, <2>2, <2>4, <2>7, GoesMoves DEF Labels
    <2> QED BY <2>4, <2>6, <2>8, TickStep
  <1>4. CASE invoice[c] # NoInvoice
    <2>1. Passes(t) /\ invoice' = invoice
      BY <1>2, <1>4 DEF Insert
    <2>2. DataTyped /\ Grows /\ Gapless'
      BY <2>1, StillGrows DEF Insert, papers, bounds, BillingInv, NumbersAreGapless, BillingTypeOK
    <2> QED BY <2>1, <2>2, PassesMoves, TickStep
  <1> QED BY <1>3, <1>4

LEMMA LoadInv ==
  ASSUME BillingInv, NEW t \in Ticks, Load(t)
  PROVE  BillingInv'
  <1>1. DataTyped /\ Grows /\ Gapless' /\ invoice' = invoice
    BY StillGrows DEF Load, papers, bounds, BillingInv, NumbersAreGapless, BillingTypeOK
  <1>2. ~At(t, "idle") /\ Cycle(t) \in Cycles
    BY DEF Load, At, BillingInv, NumbersAreGapless, BillingTypeOK
  <1>3. PICK c \in Cycles, inv \in InvoiceType : c = Cycle(t) /\ inv = invoice[c]
    BY <1>2 DEF BillingInv, NumbersAreGapless, BillingTypeOK
  <1>4. CASE inv.state = "draft"
    <2>1. Goes(t, "issuing", inv)
      BY <1>3, <1>4 DEF Load
    <2>2. Allows("issuing", inv, c)
      BY <1>1, <1>3, <1>4 DEF Allows, Seen, InvoiceType
    <2>3. Moved(t)
      BY <1>1, <1>2, <1>3, <2>1, <2>2, GoesMoves DEF Labels
    <2> QED BY <1>1, <2>3, TickStep
  <1>5. CASE inv.state # "draft"
    <2>1. Passes(t)
      BY <1>3, <1>5 DEF Load
    <2> QED BY <1>1, <2>1, PassesMoves, TickStep
  <1> QED BY <1>4, <1>5

\* A draft c is issued, by a tick or by hand.
LEMMA IssuedGrows ==
  ASSUME BillingInv, NEW c \in Cycles, NEW i \in InvoiceType, i = invoice[c], i.state = "draft",
         next' = next + 1, invoice' = [invoice EXCEPT ![c] = Issued(i)],
         UNCHANGED <<sub, messages, now, upsets>>, acts' \in 0 .. MaxActs
  PROVE  DataTyped /\ Grows /\ Gapless' /\ Issued(i) \in InvoiceType /\ invoice'[c] = Issued(i)
  <1>1. next \in Nat \ {0} /\ i.version \in Nat /\ i.number = 0
    BY DEF BillingInv, NumbersAreGapless, BillingTypeOK, InvoiceType, Gapless
  <1>2. Issued(i) \in InvoiceType /\ i.version < Issued(i).version
    BY <1>1 DEF Issued, InvoiceType
  <1>3. /\ invoice' \in [Cycles -> InvoiceType] /\ invoice'[c] = Issued(i)
        /\ \A d \in Cycles \ {c} : invoice'[d] = invoice[d]
    BY <1>2 DEF BillingInv, NumbersAreGapless, BillingTypeOK
  <1>4. DataTyped
    BY <1>1, <1>3 DEF BillingInv, NumbersAreGapless, BillingTypeOK, DataTyped, messages
  <1>5. Grows
    BY <1>1, <1>2, <1>3 DEF BillingInv, NumbersAreGapless, BillingTypeOK, Grows, messages
  <1>6. Gapless'
    BY <1>1, NewNumber DEF BillingInv, NumbersAreGapless
  <1> QED BY <1>2, <1>3, <1>4, <1>5, <1>6

LEMMA IssueInv ==
  ASSUME BillingInv, NEW t \in Ticks, Issue(t)
  PROVE  BillingInv'
  <1>1. ~At(t, "idle") /\ Cycle(t) \in Cycles /\ flow[t] \in FlowType /\ FlowFits(t)
    BY DEF Issue, At, BillingInv, NumbersAreGapless, BillingTypeOK
  <1>2. PICK c \in Cycles, inv \in InvoiceType : c = Cycle(t) /\ inv = flow[t].inv
    BY <1>1 DEF FlowType
  <1>3. inv.state = "draft" /\ Seen(inv, invoice[c])
    BY <1>1, <1>2 DEF Issue, FlowFits
  <1>4. CASE /\ invoice[c].version = inv.version /\ next' = next + 1
             /\ invoice' = [invoice EXCEPT ![c] = Issued(inv)]
             /\ Goes(t, "telling", Issued(inv))
    <2>1. /\ next' = next + 1 /\ invoice' = [invoice EXCEPT ![c] = Issued(inv)]
          /\ Goes(t, "telling", Issued(inv))
      BY <1>4
    <2>2. inv = invoice[c]
      BY <1>3, <1>4 DEF Seen
    <2>3. /\ DataTyped /\ Grows /\ Gapless' /\ invoice'[c] = Issued(inv)
          /\ Issued(inv) \in InvoiceType
      BY <1>3, <2>1, <2>2, IssuedGrows DEF Issue, bounds, BillingInv, NumbersAreGapless, BillingTypeOK
    <2>4. PICK new \in InvoiceType : new = Issued(inv)
      BY <2>3
    <2>5. Allows("telling", new, c)
      BY <2>3, <2>4 DEF Allows, Issued
    <2>6. Moved(t)
      BY <1>1, <1>2, <2>1, <2>3, <2>4, <2>5, GoesMoves DEF Labels
    <2> QED BY <2>3, <2>6, TickStep
  <1>5. CASE Passes(t) /\ UNCHANGED papers
    <2>1. DataTyped /\ Grows /\ Gapless'
      BY <1>5, StillGrows DEF Issue, bounds, BillingInv, NumbersAreGapless, BillingTypeOK
    <2> QED BY <1>5, <2>1, PassesMoves, TickStep
  <1> QED BY <1>2, <1>4, <1>5 DEF Issue

\* The event or the email of a cycle is out.
LEMMA MessageGrows ==
  ASSUME BillingInv, NEW c \in Cycles, told' \in {told, told \cup {c}},
         mailed' \in {mailed, mailed \cup {c}}, UNCHANGED <<sub, papers, bounds>>
  PROVE  DataTyped /\ Grows /\ Gapless'
  BY DEF BillingInv, NumbersAreGapless, BillingTypeOK, papers, bounds, DataTyped, Grows, Gapless

LEMMA TellInv ==
  ASSUME BillingInv, NEW t \in Ticks, Tell(t)
  PROVE  BillingInv'
  <1>1. ~At(t, "idle") /\ Cycle(t) \in Cycles /\ FlowFits(t)
    BY DEF Tell, At, BillingInv, NumbersAreGapless, BillingTypeOK
  <1>2. PICK c \in Cycles : c = Cycle(t)
    BY <1>1
  <1>3. told' = told \cup {c} /\ UNCHANGED <<sub, papers, mailed, bounds>>
    BY <1>2 DEF Tell
  <1>4. DataTyped /\ Grows /\ Gapless' /\ invoice' = invoice
    BY <1>3, MessageGrows DEF papers
  <1>5. PICK pc \in {"mailing", "advancing"} :
          /\ Goes(t, pc, NoInvoice)
          /\ pc = "advancing" => ~(flow[t].s \in Mailable /\ flow[t].inv.number # 0)
    BY DEF Tell
  <1>6. invoice[c].state \in {"issued", "void"} /\ flow[t].inv.number = invoice[c].number
    BY <1>1, <1>2 DEF Tell, FlowFits, At
  <1>7. c[1] = flow[t].s /\ NoInvoice \in InvoiceType
    BY <1>2 DEF Cycle, NoInvoice, InvoiceType
  <1>8. Allows(pc, NoInvoice, c)
    BY <1>3, <1>4, <1>5, <1>6, <1>7 DEF Allows
  <1>9. Moved(t)
    BY <1>1, <1>2, <1>4, <1>5, <1>7, <1>8, GoesMoves DEF Labels
  <1> QED BY <1>4, <1>9, TickStep

LEMMA MailInv ==
  ASSUME BillingInv, NEW t \in Ticks, Mail(t)
  PROVE  BillingInv'
  <1>1. ~At(t, "idle") /\ Cycle(t) \in Cycles /\ FlowFits(t)
    BY DEF Mail, At, BillingInv, NumbersAreGapless, BillingTypeOK
  <1>2. PICK c \in Cycles : c = Cycle(t)
    BY <1>1
  <1>3. mailed' = mailed \cup {c} /\ UNCHANGED <<sub, papers, told, bounds>>
    BY <1>2 DEF Mail
  <1>4. DataTyped /\ Grows /\ Gapless' /\ invoice' = invoice
    BY <1>3, MessageGrows DEF papers
  <1>5. invoice[c].state \in {"issued", "void"} /\ c \in told
    BY <1>1, <1>2 DEF Mail, FlowFits, At
  <1>6. Goes(t, "advancing", NoInvoice) /\ NoInvoice \in InvoiceType
    BY DEF Mail, NoInvoice, InvoiceType
  <1>7. Allows("advancing", NoInvoice, c)
    BY <1>3, <1>4, <1>5 DEF Allows
  <1>8. Moved(t)
    BY <1>1, <1>2, <1>4, <1>6, <1>7, GoesMoves DEF Labels
  <1> QED BY <1>4, <1>8, TickStep

\* A subscription's row is written under its version.
LEMMA SubGrows ==
  ASSUME BillingInv, NEW s \in Subs, NEW q \in SubType, sub[s].version < q.version,
         sub' = [sub EXCEPT ![s] = q], UNCHANGED <<papers, messages, now, upsets>>,
         acts' \in 0 .. MaxActs
  PROVE  DataTyped /\ Grows /\ Gapless'
  <1>1. /\ sub' \in [Subs -> SubType] /\ sub'[s] = q
        /\ \A u \in Subs \ {s} : sub'[u] = sub[u]
    BY DEF BillingInv, NumbersAreGapless, BillingTypeOK
  <1> QED BY <1>1 DEF BillingInv, NumbersAreGapless, BillingTypeOK, papers, messages,
                      DataTyped, Grows, Gapless

LEMMA AdvanceInv ==
  ASSUME BillingInv, NEW t \in Ticks, Advance(t)
  PROVE  BillingInv'
  <1>1. ~At(t, "idle") /\ Cycle(t) \in Cycles /\ flow[t] \in FlowType
    BY DEF Advance, At, BillingInv, NumbersAreGapless, BillingTypeOK
  <1>2. PICK s \in Subs, r \in SubType : s = flow[t].s /\ r = flow[t].r
    BY <1>1 DEF Cycle, Cycles, FlowType
  <1>3. CASE Unmoved(t)
    <2>1. sub' = [sub EXCEPT ![s] = MarkBilled(r)]
      BY <1>2, <1>3 DEF Advance
    <2>2. MarkBilled(r) \in SubType /\ sub[s].version < MarkBilled(r).version
      BY <1>2, <1>3 DEF MarkBilled, Unmoved, SubType
    <2>3. DataTyped /\ Grows /\ Gapless'
      BY <2>1, <2>2, SubGrows DEF Advance, bounds, BillingInv, NumbersAreGapless, BillingTypeOK
    <2> QED BY <2>3, PassesMoves, TickStep DEF Advance
  <1>4. CASE ~Unmoved(t)
    <2>1. DataTyped /\ Grows /\ Gapless'
      BY <1>4, StillGrows DEF Advance, bounds, BillingInv, NumbersAreGapless, BillingTypeOK
    <2> QED BY <2>1, PassesMoves, TickStep DEF Advance
  <1> QED BY <1>3, <1>4

LEMMA UpsetInv ==
  ASSUME BillingInv, NEW t \in Ticks, CallFails(t) \/ Crash(t)
  PROVE  BillingInv'
  <1>1. Upset(t)
    BY DEF CallFails, Crash
  <1>2. upsets' \in 0 .. MaxUpsets
    BY <1>1, BillingAssumption DEF Upset, BillingInv, NumbersAreGapless, BillingTypeOK
  <1>3. DataTyped /\ Grows /\ Gapless'
    BY <1>1, <1>2, StillGrows DEF Upset, BillingInv, NumbersAreGapless, BillingTypeOK
  <1>4. CASE CallFails(t)
    BY <1>3, <1>4, PassesMoves, TickStep DEF CallFails
  <1>5. CASE Crash(t)
    <2>1. TakesNext(t, {})
      BY <1>5 DEF Crash, TakesNext
    <2>2. Moved(t)
      BY <1>3, <2>1, TakesNextMoves DEF BillingInv, NumbersAreGapless
    <2> QED BY <1>3, <2>2, TickStep
  <1> QED BY <1>4, <1>5

(***************************************************************************)
(* The merchant and the clock                                              *)
(***************************************************************************)
LEMMA SetsInv ==
  ASSUME BillingInv, NEW s \in Subs, NEW state \in {"active", "paused", "cancelled"},
         NEW billed \in Nat, Sets(s, state, billed)
  PROVE  BillingInv'
  <1> DEFINE q == [state |-> state, billed |-> billed, version |-> sub[s].version + 1]
  <1>1. sub[s] \in SubType
    BY DEF BillingInv, NumbersAreGapless, BillingTypeOK
  <1>2. q \in SubType /\ sub[s].version < q.version
    BY <1>1 DEF SubType
  <1>3. sub' = [sub EXCEPT ![s] = q]
    BY DEF Sets, BillingInv, NumbersAreGapless, BillingTypeOK
  <1>4. acts' \in 0 .. MaxActs
    BY BillingAssumption DEF Sets, Acts, BillingInv, NumbersAreGapless, BillingTypeOK
  <1>5. DataTyped /\ Grows /\ Gapless'
    BY <1>2, <1>3, <1>4, SubGrows DEF Sets, Acts
  <1> QED BY <1>5, OtherStep DEF Sets, Acts

LEMMA PeopleSetInv ==
  ASSUME BillingInv, NEW s \in Subs, Pause(s) \/ Resume(s) \/ Cancel(s)
  PROVE  BillingInv'
  <1>1. sub[s].billed \in Nat /\ now \in Nat
    BY DEF BillingInv, NumbersAreGapless, BillingTypeOK, SubType
  <1>2. PICK state \in {"active", "paused", "cancelled"}, billed \in Nat : Sets(s, state, billed)
    BY <1>1 DEF Pause, Resume, Cancel
  <1> QED BY <1>2, SetsInv

\* An edit, a listing or a void.
LEMMA InvoiceWritten ==
  ASSUME BillingInv, NEW c \in Cycles, NEW i \in InvoiceType, Acts, UNCHANGED <<sub, next>>,
         invoice' = [invoice EXCEPT ![c] = i], invoice[c].version < i.version,
         i.number = invoice[c].number, i.state \in {invoice[c].state, "void"}
  PROVE  BillingInv'
  <1>1. /\ invoice' \in [Cycles -> InvoiceType] /\ invoice'[c] = i
        /\ \A d \in Cycles \ {c} : invoice'[d] = invoice[d]
    BY DEF BillingInv, NumbersAreGapless, BillingTypeOK
  <1>2. acts' \in 0 .. MaxActs
    BY BillingAssumption DEF Acts, BillingInv, NumbersAreGapless, BillingTypeOK
  <1>3. DataTyped /\ Grows
    BY <1>1, <1>2 DEF Acts, messages, BillingInv, NumbersAreGapless, BillingTypeOK, DataTyped, Grows
  <1>4. \A d \in Cycles : /\ invoice[d].state = "issued" => invoice[d].number # 0
                          /\ invoice[d].state \in {"none", "draft"} => invoice[d].number = 0
    BY DEF BillingInv, NumbersAreGapless, Gapless
  <1>5. Gapless'
    BY <1>1, <1>4, SameNumbers DEF BillingInv, NumbersAreGapless
  <1> QED BY <1>3, <1>5, OtherStep DEF Acts

LEMMA PeopleWriteInv ==
  ASSUME BillingInv, NEW c \in Cycles, Touch(c) \/ Void(c) \/ IssueByHand(c)
  PROVE  BillingInv'
  <1>1. PICK i \in InvoiceType : i = invoice[c]
    BY DEF BillingInv, NumbersAreGapless, BillingTypeOK
  <1>2. CASE Touch(c)
    <2> DEFINE new == [i EXCEPT !.version = @ + 1]
    <2>1. invoice' = [invoice EXCEPT ![c] = new]
      BY <1>1, <1>2 DEF Touch, BillingInv, NumbersAreGapless, BillingTypeOK
    <2>2. new \in InvoiceType /\ i.version < new.version /\ new.number = i.number /\ new.state = i.state
      BY DEF InvoiceType
    <2> QED BY <1>1, <1>2, <2>1, <2>2, InvoiceWritten DEF Touch
  <1>3. CASE Void(c)
    <2>1. invoice' = [invoice EXCEPT ![c] = Voided(i)]
      BY <1>1, <1>3 DEF Void, BillingInv, NumbersAreGapless, BillingTypeOK
    <2>2. /\ Voided(i) \in InvoiceType /\ i.version < Voided(i).version
          /\ Voided(i).number = i.number /\ Voided(i).state = "void"
      BY DEF Voided, InvoiceType
    <2> QED BY <1>1, <1>3, <2>1, <2>2, InvoiceWritten DEF Void
  <1>4. CASE IssueByHand(c)
    <2>1. invoice' = [invoice EXCEPT ![c] = Issued(i)]
      BY <1>1, <1>4 DEF IssueByHand, BillingInv, NumbersAreGapless, BillingTypeOK
    <2>2. acts' \in 0 .. MaxActs
      BY <1>4, BillingAssumption DEF IssueByHand, Acts, BillingInv, NumbersAreGapless, BillingTypeOK
    <2>3. DataTyped /\ Grows /\ Gapless'
      BY <1>1, <1>4, <2>1, <2>2, IssuedGrows DEF IssueByHand, Acts
    <2> QED BY <1>4, <2>3, OtherStep DEF IssueByHand, Acts
  <1> QED BY <1>2, <1>3, <1>4

LEMMA ElapseInv ==
  ASSUME BillingInv, Elapse
  PROVE  BillingInv'
  <1>1. now' \in 0 .. MaxTime /\ now < now'
    BY BillingAssumption DEF Elapse, BillingInv, NumbersAreGapless, BillingTypeOK
  <1>2. DataTyped /\ Grows /\ Gapless'
    BY <1>1 DEF Elapse, papers, messages, BillingInv, NumbersAreGapless, BillingTypeOK, DataTyped,
                Grows, Gapless
  <1> QED BY <1>2, OtherStep DEF Elapse

LEMMA NextInv ==
  ASSUME BillingInv, [Next]_vars
  PROVE  BillingInv'
  <1>1. ASSUME NEW t \in Ticks, Tick(t) \/ Bill(t) \/ CallFails(t) \/ Crash(t) PROVE BillingInv'
    BY <1>1, TickInv, FindInv, InsertInv, LoadInv, IssueInv, TellInv, MailInv, AdvanceInv, UpsetInv
       DEF Bill
  <1>2. CASE UNCHANGED vars
    BY <1>2 DEF vars, BillingInv, NumbersAreGapless, BillingTypeOK, Gapless, FlowFits, RowFits,
                Delivered, At, Cycle
  <1> QED BY <1>1, <1>2, PeopleSetInv, PeopleWriteInv, ElapseInv DEF Next

(***************************************************************************)
(* The theorems                                                            *)
(***************************************************************************)

\* The inductive invariant holds: the rows and the invoice a tick holds were
\* read from what is there or from an older version of it, and a tick stands
\* past a message only once it is out.
THEOREM BillingInvHolds == Spec => []BillingInv
  <1> QED BY InitInv, NextInv, PTL DEF Spec

\* invoice.ts: whatever ticks, people, crashes and collisions do, a merchant's
\* invoice numbers are 1, 2, 3 and so on, each on one invoice.
THEOREM NumberingIsGapless == Spec => []NumbersAreGapless
  <1>1. BillingInv => NumbersAreGapless
    BY DEF BillingInv
  <1> QED BY <1>1, BillingInvHolds, PTL

\* What a step may do to the row of s.
Keeps(s) ==
    LET r == sub[s]  q == sub'[s]
    IN  /\ r.state # "cancelled"
        /\ r.state = q.state =>
              r.state = "active" /\ q.billed = r.billed + 1 /\ Delivered(<<s, r.billed>>)
        /\ r.state # q.state =>
              \/ q.billed = r.billed
              \/ r.state = "paused" /\ q.billed = now /\ r.billed < now

LEMMA StepKeeps ==
  ASSUME BillingInv, Next, NEW s \in Subs, sub'[s] # sub[s]
  PROVE  Keeps(s)
  <1>1. sub \in [Subs -> SubType]
    BY DEF BillingInv, NumbersAreGapless, BillingTypeOK
  <1>2. ASSUME NEW t \in Ticks, Advance(t) PROVE Keeps(s)
    <2>1. flow[t] \in FlowType /\ FlowFits(t) /\ At(t, "advancing") /\ Cycle(t) \in Cycles
      BY <1>2 DEF Advance, At, BillingInv, NumbersAreGapless, BillingTypeOK
    <2>2. Unmoved(t)
      BY <1>2 DEF Advance
    <2>3. flow[t].s \in Subs /\ flow[t].r \in SubType
      BY <2>1 DEF Cycle, Cycles, FlowType
    <2>4. sub' = [sub EXCEPT ![flow[t].s] = MarkBilled(flow[t].r)]
      BY <1>2, <2>2 DEF Advance
    <2>5. flow[t].s = s
      BY <1>1, <2>3, <2>4
    <2>6. flow[t].r.state = "active" /\ Seen(flow[t].r, sub[s]) /\ Delivered(Cycle(t))
      BY <2>1, <2>5 DEF FlowFits, RowFits, At
    <2>7. sub[s] = flow[t].r
      BY <2>2, <2>5, <2>6 DEF Unmoved, Seen
    <2>8. Cycle(t) = <<s, sub[s].billed>>
      BY <2>5, <2>7 DEF Cycle
    <2>9. sub'[s] = MarkBilled(sub[s])
      BY <1>1, <2>4, <2>5, <2>7
    <2>10. sub'[s].state = sub[s].state /\ sub'[s].billed = sub[s].billed + 1
      BY <2>9 DEF MarkBilled
    <2> QED BY <2>6, <2>7, <2>8, <2>10 DEF Keeps
  <1>3. ASSUME NEW u \in Subs, Pause(u) \/ Resume(u) \/ Cancel(u) PROVE Keeps(s)
    <2>1. ASSUME NEW state, NEW billed, Sets(u, state, billed)
          PROVE  u = s /\ sub'[s].state = state /\ sub'[s].billed = billed
      BY <1>1, <2>1 DEF Sets
    <2>2. now \in Nat /\ sub[s].billed \in Nat
      BY <1>1 DEF SubType, BillingInv, NumbersAreGapless, BillingTypeOK
    <2>3. PICK b : b = IF sub[u].billed < now THEN now ELSE sub[u].billed
      OBVIOUS
    <2>4. PICK a : a = sub[u].billed
      OBVIOUS
    <2>5. CASE Pause(u)
      BY <2>1, <2>4, <2>5 DEF Pause, Keeps
    <2>6. CASE Resume(u)
      BY <2>1, <2>2, <2>3, <2>6 DEF Resume, Keeps
    <2>7. CASE Cancel(u)
      BY <2>1, <2>4, <2>7 DEF Cancel, Keeps
    <2> QED BY <1>3, <2>5, <2>6, <2>7
  <1>4. ASSUME NEW t \in Ticks, Tick(t) \/ Bill(t) \/ CallFails(t) \/ Crash(t) PROVE Keeps(s)
    <2>1. sub' # sub
      OBVIOUS
    <2>2. Advance(t)
      BY <1>4, <2>1 DEF Tick, Bill, CallFails, Crash, Upset, Find, Insert, Load, Issue, Tell, Mail
    <2> QED BY <1>2, <2>2
  <1>5. ASSUME NEW c \in Cycles, Touch(c) \/ Void(c) \/ IssueByHand(c) PROVE FALSE
    BY <1>5 DEF Touch, Void, IssueByHand
  <1>6. ~Elapse
    BY DEF Elapse
  <1> QED BY <1>3, <1>4, <1>5, <1>6 DEF Next

\* subscription-service.ts: no cycle is skipped or counted twice by any ticks,
\* none before it is delivered, and a pause or a cancellation is never undone
\* by a late write.
THEOREM ScheduleIsKept == Spec => ScheduleHolds
  <1>1. BillingInv /\ [Next]_vars =>
          [\A s \in Subs : sub'[s] # sub[s] => Keeps(s)]_vars
    BY StepKeeps
  <1>2. [][\A s \in Subs : sub'[s] # sub[s] => Keeps(s)]_vars <=> ScheduleHolds
    BY DEF ScheduleHolds, Keeps
  <1> QED BY <1>1, <1>2, BillingInvHolds, PTL DEF Spec
=============================================================================
