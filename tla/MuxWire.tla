------------------------------ MODULE MuxWire ------------------------------
(***************************************************************************)
(* The WebSocket that carries the stream-multiplexing protocol of SKDB     *)
(* between the browser/node client (MuxedSocket in skdb_orchestration.ts)  *)
(* and the server (MuxedSocket in Mux.kt).                                 *)
(*                                                                         *)
(* The two ends are two FIFO queues of frames, the readiness of each end   *)
(* as its own endpoint sees it, and whether the TCP connection underneath  *)
(* still exists.  A frame keeps what the endpoints look at: its type, its  *)
(* stream (0 for socket-level frames) and a number: the rank of a data     *)
(* frame on its stream and direction, or the error code of a goaway.       *)
(* "wsclose" is WebSocket's own Close frame (n = 1: a normal closure,      *)
(* n = 0: any other code).                                                 *)
(***************************************************************************)
EXTENDS Naturals, Sequences, FiniteSets

CONSTANTS MaxId,       \* bound: the largest stream identifier used
          MaxData,     \* bound: data frames a user sends per stream and side
          MaxInFlight, \* bound: frames queued before a user may send more
          HearsWhileClosing  \* messages still arrive after WebSocket.close()

ASSUME MuxBounds ==
  /\ MaxId \in Nat \ {0} /\ MaxData \in Nat /\ MaxInFlight \in Nat
  /\ HearsWhileClosing \in BOOLEAN

VARIABLES c2s,   \* frames on their way to the server
          s2c,   \* frames on their way to the client
          cws,   \* readiness of the client's WebSocket
          sws,   \* readiness of the server's channel
          link   \* FALSE once the connection is lost

wireVars == <<c2s, s2c, cws, sws, link>>

Ids == 1..MaxId
ClientIds == {i \in Ids : i % 2 = 1}
ServerIds == {i \in Ids : i % 2 = 0}

FrameTypes == {"auth", "goaway", "data", "close", "reset", "wsclose"}
Frame == [type : FrameTypes, stream : 0..MaxId, n : Nat]
F(t, s, k) == [type |-> t, stream |-> s, n |-> k]

AuthMsg == F("auth", 0, 0)
GoawayMsg(code) == F("goaway", 0, code)
StreamDataMsg(s, k) == F("data", s, k)
StreamCloseMsg(s) == F("close", s, 0)
StreamResetMsg(s) == F("reset", s, 0)
WsClose == F("wsclose", 0, 1)
WsAbort == F("wsclose", 0, 0)

\* Stream objects exist in these states once they exist at all.
StreamStates == {"OPEN", "CLOSING", "CLOSEWAIT", "CLOSED"}
NoStream == "NONE"

\* A frame is lost unless both ends are open and the connection is up: send
\* on a closed WebSocket discards, and nobody reads a closed channel.
ToServer(q) == IF link /\ cws = "OPEN" /\ sws = "OPEN" THEN c2s \o q ELSE c2s
ToClient(q) == IF link /\ sws = "OPEN" /\ cws # "CLOSED" THEN s2c \o q ELSE s2c

\* The orders in which a loop over activeStreams may visit a set of streams.
Orders(S) == {q \in [1..Cardinality(S) -> S] :
                \A i, j \in 1..Cardinality(S) : i # j => q[i] # q[j]}
CloseMsgs(q) == [i \in DOMAIN q |-> StreamCloseMsg(q[i])]

WireInit ==
  /\ c2s = <<>> /\ s2c = <<>>
  /\ cws = "OPEN" /\ sws = "OPEN"
  /\ link = TRUE

WireTypeOK ==
  /\ c2s \in Seq(Frame) /\ s2c \in Seq(Frame)
  /\ cws \in {"OPEN", "CLOSING", "CLOSED"}
  /\ sws \in {"OPEN", "CLOSED"}
  /\ link \in BOOLEAN

\* The connection breaks: what was in flight is gone.
LinkLost ==
  /\ link
  /\ link' = FALSE
  /\ c2s' = <<>> /\ s2c' = <<>>
  /\ UNCHANGED <<cws, sws>>
=============================================================================
