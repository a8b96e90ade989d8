--------------------------- MODULE MCRefundService ---------------------------
(* Instances of RefundService for TLC: two requests in the API's process and *)
(* the recovery pass in the worker's.                                        *)
EXTENDS RefundService

CONSTANTS r1, r2, api, worker

ApiAndWorker == [w \in Flows |-> IF w \in Requests THEN api ELSE worker]
=============================================================================
