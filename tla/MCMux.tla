------------------------------- MODULE MCMux -------------------------------
(* Mux with a bound on the streams of a behaviour, whichever end opens them:  *)
(* the client's have identifiers 1, 3, ..., the server's 2, 4, ...            *)
EXTENDS Mux

CONSTANT MaxStreams \* bound: streams opened

FewStreams == cnext + snext <= 3 + 2 * MaxStreams
FewStreamsSpec == Init /\ [][Next /\ FewStreams']_vars /\ Fairness
=============================================================================
