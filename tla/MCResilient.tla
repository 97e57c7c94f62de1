---------------------------- MODULE MCResilient ----------------------------
(* Resilient on small instances. *)
EXTENDS Resilient
=============================================================================
