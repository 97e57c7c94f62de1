---------------------------- MODULE MCExceptions ----------------------------
(* Calls nested five deep that throw three times.                            *)
EXTENDS Exceptions

Addresses == Permutations(Ptrs)
=============================================================================
