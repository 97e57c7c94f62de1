------------------------------ MODULE MCLocalDb -----------------------------
(* LocalDb on small instances. *)
EXTENDS LocalDb
=============================================================================
