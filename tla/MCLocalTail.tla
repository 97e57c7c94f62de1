----------------------------- MODULE MCLocalTail ----------------------------
(* LocalTail on small instances. *)
EXTENDS LocalTail
=============================================================================
