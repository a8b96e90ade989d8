-------------------------- MODULE MCX402Settlement --------------------------
(* Small instances of X402Settlement for TLC. *)
EXTENDS X402Settlement

CONSTANTS a, b, c, r1, r2, s1
=============================================================================
