-------------------------- MODULE RecordInvariant --------------------------
(***************************************************************************)
(* The inductive invariant behind what the record, the books and the money *)
(* of a payment say of each other.  It needs no assumption on the times:   *)
(* what a state of a payment implies only ever becomes truer, so a flow    *)
(* may act on a stale row and still book nothing that did not happen.      *)
(***************************************************************************)
EXTENDS ClearingInvariant

Cleared == {"CLEARING", "SETTLING", "SETTLED", "SUCCESS"}
Settled == {"SETTLED", "SUCCESS"}
Received == {"ASSET_RECEIVED"} \cup Cleared

Funded(p) == deposit[p] # "none" \/ (path[p] = "contract" /\ consumed[p])
Booked(p, key) == key \in ledger[p]

\* What the state s of payment p stands for.
Says(p, s) ==
    /\ s \in Received => Funded(p) /\ Booked(p, "ASSET_RECEIVED")
    /\ s \in Cleared =>
        /\ Booked(p, "CLEARING")
        /\ path[p] # "adapter" => consumed[p]
        /\ path[p] = "order" => deposit[p] = "swept" /\ Booked(p, "SWAPPED")
    /\ s \in Settled => Paid(p) /\ Booked(p, "SETTLED")
    /\ s = "SUCCESS" => intent[p] = "COMPLETED"

(* ---- a payment --------------------------------------------------------- *)

Standing(p) ==
    /\ row[p].state = "NONE" => row[p].version = 0
    /\ Says(p, row[p].state)
    /\ "ASSET_RECEIVED" \in log[p] => Funded(p) /\ Booked(p, "ASSET_RECEIVED")
    /\ intent[p] = "COMPLETED" => Paid(p) /\ row[p].state \in Settled

Books(p) ==
    /\ Booked(p, "CLEARING") =>
        /\ Booked(p, "ASSET_RECEIVED")
        /\ path[p] = "order" => Booked(p, "SWAPPED")
    /\ Booked(p, "SWAPPED") => path[p] = "order" /\ Paid(p)
    /\ Booked(p, "SETTLED") => Paid(p)
    /\ Booked(p, "RETURNED") => Returned(p)
    /\ Booked(p, "ASSET_RECEIVED") => Funded(p)

IsOrder(i, p) == i \in Tx /\ optx[i].kind = "order" /\ optx[i].p = p
IsReturn(i, p) == i \in Tx /\ optx[i].kind = "return" /\ optx[i].p = p

Holding(p) ==
    /\ path[p] = "contract" => deposit[p] = "none"
    /\ deposit[p] = "swept" => path[p] = "order"
    /\ path[p] = "order" /\ consumed[p] => deposit[p] = "swept"
    /\ returnRef[p] # 0 => IsReturn(returnRef[p], p)

Record(p) == Standing(p) /\ Books(p) /\ Holding(p)

(* ---- a transaction of the operator ------------------------------------- *)

Backed(i) ==
    /\ i > sent => optx[i] = NoTx
    /\ i <= sent => optx[i].kind # "none"
    /\ optx[i].kind # "none" => optx[i].p \in Payments /\ deposit[optx[i].p] = "swept"
    /\ optx[i].kind = "order" /\ optx[i].status \in {"success", "AlreadyConsumed"} =>
           consumed[optx[i].p]
    /\ optx[i].status = "success" => i <= mined

(* ---- what a flow f knows ----------------------------------------------- *)

\* A flow that read the current version read the current row.
Matches(f) ==
    /\ f.cur.version <= row[f.job].version
    /\ f.cur.version = row[f.job].version => f.cur = row[f.job]

\* What it read stands, and a payment that was settled still is.
Remembers(f) ==
    /\ Says(f.job, f.cur.state)
    /\ f.cur.state \in Settled => row[f.job].state \in Settled
    /\ f.sig => Funded(f.job)

SweptPcs == {"submit", "ordering", "book", "clear", "retStart", "retSend"}

\* What the steps it took on the way to its label made true.
HasDone(f) ==
    /\ f.pc = "persist" => Says(f.job, NextState(f.cur.state))
    /\ f.pc \in {"postLate", "reopen"} => Funded(f.job)
    /\ f.pc = "reopen" => Booked(f.job, "ASSET_RECEIVED")
    /\ f.pc \in {"sweep", "retRead", "retCheck", "retSweep"} =>
           path[f.job] = "order" /\ deposit[f.job] # "none"
    /\ f.pc \in SweptPcs => deposit[f.job] = "swept"
    /\ f.pc \in {"book", "clear"} => consumed[f.job]
    /\ f.pc = "clear" => Booked(f.job, "SWAPPED")
    /\ f.pc = "ordering" => IsOrder(f.tx, f.job)
    /\ f.pc \in {"retRecord", "retReceipt"} => IsReturn(f.tx, f.job)

Knows(f) == f.pc # "idle" => Matches(f) /\ Remembers(f) /\ HasDone(f)

RecordInv ==
    /\ TInv
    /\ \A p \in Payments : Record(p)
    /\ \A i \in Tx : Backed(i)
    /\ \A w \in Workers : Knows(flow[w])
=============================================================================
