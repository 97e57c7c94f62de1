---------------------------- MODULE MCServerTail ----------------------------
(* ServerTail on small instances. *)
EXTENDS ServerTail
=============================================================================
