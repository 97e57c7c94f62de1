------------------------------ MODULE MCMirror ------------------------------
(* Mirror on small instances. *)
EXTENDS Mirror
SmallPlans == {<< <<"gone">> >>, << <<"orders">> >>, << <<"report">> >>}
=============================================================================
