------------------------ MODULE MCSettlementIndexer ------------------------
(***************************************************************************)
(* An instance of SettlementIndexer: a settlement whose hash the engine    *)
(* recorded, one a payer sent, and a stranger's.                           *)
(***************************************************************************)
EXTENDS SettlementIndexer

CONSTANTS ours, payers, theirs

=============================================================================
