---------------------------- MODULE MCSkipService ----------------------------
(* A resource made of a map and a reduce, one with external data, and one that *)
(* has a lazy collection and a class without a name.                           *)
EXTENDS SkipService

ThreeResources == <<<<"mapReduce">>, <<"external">>, <<"lazy", "anonymous">>>>
=============================================================================
