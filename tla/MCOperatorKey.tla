---------------------------- MODULE MCOperatorKey ----------------------------
(***************************************************************************)
(* Instances of OperatorKey: chain workers of overlapping deploys and one  *)
(* API process, with one flow in each or with two flows in the worker.     *)
(***************************************************************************)
EXTENDS OperatorKey, TLC

CONSTANTS w1, w2, api, resume, settle

\* A process with one flow goes by the name of the flow.
OneEach == [s \in Signers |-> s]
TwoInWorker == [s \in Signers |-> IF s = api THEN api ELSE w1]

\* The workers are interchangeable (safety only).
WorkersAlike == Permutations(Workers)

=============================================================================
