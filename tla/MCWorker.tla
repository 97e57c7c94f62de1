------------------------------ MODULE MCWorker ------------------------------
(* WorkerRpc on small instances; the configurations choose the methods. *)
EXTENDS WorkerRpc
=============================================================================
