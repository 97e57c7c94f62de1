----------------------------- MODULE MCExternal -----------------------------
(* Each of the external services, followed by two instances.                  *)
EXTENDS External
=============================================================================
