------------------------------ MODULE MCProto -------------------------------
(* ProtoMsg on small instances: a 16-bit field has eight values, so a length *)
(* of four is negative, and one of eight is written as nothing.              *)
EXTENDS ProtoMsg

Filled(n) == [i \in 1..n |-> i % 2]
MCTexts == UNION {[1..k -> Bytes] : k \in 0..3} \cup {Filled(n) : n \in 4..13}
MCTailTexts == {<<>>, <<0>>, <<1>>} \cup {Filled(n) : n \in {2, 3, 4, 8, 10}}
MCBatchTexts == {<<>>, <<1>>, Filled(4)}
MCChunks == {<<>>, <<0>>, <<1>>}
=============================================================================
