--------------------------- MODULE PaymentPromise ---------------------------
(***************************************************************************)
(* What the clearing engine promises about a payment, whatever its path:   *)
(* where the payer's value is, and what the merchant is told.  Value that  *)
(* is with the merchant or back with the payer stays there; a payment is   *)
(* reported successful only while the merchant has the value; only a       *)
(* failed payment is returned, and a returned one never reopens.  The one  *)
(* exception is stated too: the value of a failed payment may become       *)
(* exposed, to both ways out at once, and the payment then stays failed.   *)
(***************************************************************************)
CONSTANT Payments

VARIABLES
    custody,    \* "unpaid", "held", "paid", "returned" or "exposed"
    outcome     \* "open", "succeeded" or "failed"

vars == <<custody, outcome>>

Init ==
    /\ custody = [p \in Payments |-> "unpaid"]
    /\ outcome = [p \in Payments |-> "open"]

\* The payer's asset arrives at an address of the operator's.
Arrive(p) ==
    /\ custody[p] = "unpaid"
    /\ custody' = [custody EXCEPT ![p] = "held"]
    /\ UNCHANGED outcome

\* The merchant is paid: from the deposit, or by the payer's own call.
Pay(p) ==
    /\ custody[p] \in {"unpaid", "held"}
    /\ custody' = [custody EXCEPT ![p] = "paid"]
    /\ UNCHANGED outcome

Return(p) ==
    /\ custody[p] = "held" /\ outcome[p] = "failed"
    /\ custody' = [custody EXCEPT ![p] = "returned"]
    /\ UNCHANGED outcome

\* A return starts while the payment may still be made.
Expose(p) ==
    /\ custody[p] \in {"held", "paid"} /\ outcome[p] = "failed"
    /\ custody' = [custody EXCEPT ![p] = "exposed"]
    /\ UNCHANGED outcome

Succeed(p) ==
    /\ outcome[p] = "open" /\ custody[p] = "paid"
    /\ outcome' = [outcome EXCEPT ![p] = "succeeded"]
    /\ UNCHANGED custody

Fail(p) ==
    /\ outcome[p] = "open"
    /\ outcome' = [outcome EXCEPT ![p] = "failed"]
    /\ UNCHANGED custody

\* Only a payment whose value has arrived and not left is tried again.
Reopen(p) ==
    /\ outcome[p] = "failed" /\ custody[p] \in {"held", "paid"}
    /\ outcome' = [outcome EXCEPT ![p] = "open"]
    /\ UNCHANGED custody

Next == \E p \in Payments :
    Arrive(p) \/ Pay(p) \/ Return(p) \/ Expose(p) \/ Succeed(p) \/ Fail(p)
    \/ Reopen(p)

Spec == Init /\ [][Next]_vars
=============================================================================
