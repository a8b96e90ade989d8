-------------------------- MODULE MCClearingEngine --------------------------
(* Instances of ClearingEngine for TLC: one payment of each path, and two   *)
(* flows that share a process or do not.                                    *)
EXTENDS ClearingInvariant, TLC

CONSTANTS p1, p2, w1, w2, h1, h2

\* Two processes, one flow each / one process with every flow.
OwnHost == [w \in Workers |-> IF w = w1 THEN h1 ELSE h2]
SharedHost == [w \in Workers |-> h1]

\* Under OwnHost: exchanging the flows together with their processes.
SwapProcesses ==
    {f \in Permutations({w1, w2, h1, h2}) :
        /\ f[w1] \in {w1, w2} /\ f[w2] \in {w1, w2}
        /\ f[HostOf[w1]] = HostOf[f[w1]]}

=============================================================================
