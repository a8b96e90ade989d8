-------------------------- MODULE MCWalletWatcher --------------------------
(***************************************************************************)
(* Instances of WalletWatcher: deposits of one asset or of two.            *)
(***************************************************************************)
EXTENDS WalletWatcher

CONSTANTS usdc, eth, d1, d2

AllUsdc == [d \in Deposits |-> usdc]
OneOfEach == [d \in Deposits |-> IF d = d1 THEN usdc ELSE eth]

=============================================================================
