----------------------------- MODULE MuxServer -----------------------------
(***************************************************************************)
(* MuxedSocket and Stream of sql/server/core/.../Mux.kt with the callbacks *)
(* the development server gives them (Service.kt): the server end.         *)
(*                                                                         *)
(* A handler is one action here.  CLOSE_WAIT does not show between         *)
(* handlers: onClose of the server answers onSocketClose with closeSocket  *)
(* before the handler returns.  The worker that executes requests is the   *)
(* nondeterministic user of the streams; it closes a stream whose peer     *)
(* closed.                                                                 *)
(***************************************************************************)
EXTENDS MuxWire

VARIABLES sstate,   \* MuxedSocket.State
          sactive,  \* keys of activeStreams
          sstream,  \* state of each Stream, "NONE" before it is made
          snext,    \* nextStream
          swater,   \* otherStreamWatermark
          stimer,   \* timeout: the session timer
          ssent,    \* data frames put on the wire for each stream
          sgot      \* ranks of the data frames handed to onData

serverVars == <<sstate, sactive, sstream, snext, swater, stimer, ssent, sgot>>

ServerStates == {"IDLE", "AUTH", "CLOSING", "CLOSED"}

\* Mutation: the server numbers its streams like a client.
ServerInitOdd ==
  /\ sstate = "IDLE"
  /\ sactive = {}
  /\ sstream = [s \in Ids |-> NoStream]
  /\ snext = 1
  /\ swater = 0
  /\ stimer = "armed"
  /\ ssent = [s \in Ids |-> 0]
  /\ sgot = [s \in Ids |-> <<>>]

\* onConnect: the constructor schedules the session timeout.
ServerInit ==
  /\ sstate = "IDLE"
  /\ sactive = {}
  /\ sstream = [s \in Ids |-> NoStream]
  /\ snext = 2
  /\ swater = 0
  /\ stimer = "armed"
  /\ ssent = [s \in Ids |-> 0]
  /\ sgot = [s \in Ids |-> <<>>]

ServerTypeOK ==
  /\ sstate \in ServerStates
  /\ sactive \in SUBSET Ids
  /\ sstream \in [Ids -> StreamStates \cup {NoStream}]
  /\ snext \in Nat \ {0} /\ swater \in 0..MaxId
  /\ stimer \in {"armed", "due", "off"}
  /\ ssent \in [Ids -> Nat]
  /\ sgot \in [Ids -> Seq(Nat)]
-----------------------------------------------------------------------------
(* What the socket does to a set S of streams at once. *)

\* Stream.close on every member of S.
SrvCloseAll(S) ==
  [s \in Ids |-> IF s \notin S THEN sstream[s]
                 ELSE IF sstream[s] = "OPEN" THEN "CLOSING"
                 ELSE IF sstream[s] = "CLOSEWAIT" THEN "CLOSED"
                 ELSE sstream[s]]

\* Stream.onStreamClose on every member of S.
SrvPeerClosedAll(S) ==
  [s \in Ids |-> IF s \notin S THEN sstream[s]
                 ELSE IF sstream[s] = "OPEN" THEN "CLOSEWAIT"
                 ELSE IF sstream[s] = "CLOSING" THEN "CLOSED"
                 ELSE sstream[s]]

\* Stream.onStreamError on every member of S; also what onStreamClose
\* followed by close leaves behind.
SrvEndAll(S) == [s \in Ids |-> IF s \in S THEN "CLOSED" ELSE sstream[s]]

\* The streams that owe the peer a close frame.
SrvUnclosed == {s \in sactive : sstream[s] \in {"OPEN", "CLOSEWAIT"}}
-----------------------------------------------------------------------------
(* The user's operations on the socket. *)

SrvOpenStream ==
  /\ sstate = "AUTH"
  /\ snext <= MaxId
  /\ sstream' = [sstream EXCEPT ![snext] = "OPEN"]
  /\ sactive' = sactive \cup {snext}
  /\ snext' = snext + 2
  /\ UNCHANGED <<sstate, swater, stimer, ssent, sgot>>
  /\ UNCHANGED wireVars

\* Mutation: the channel goes away without its last frames.
SrvHangUpSilent(q) ==
  /\ s2c' = s2c
  /\ c2s' = <<>>
  /\ sws' = "CLOSED"
  /\ UNCHANGED <<cws, link>>

\* sendData of the frames q, sendClose and channel.close(): what the peer
\* sent and nobody read is lost with the channel.
SrvHangUp(q) ==
  /\ s2c' = ToClient(q)
  /\ c2s' = <<>>
  /\ sws' = "CLOSED"
  /\ UNCHANGED <<cws, link>>

SrvCloseSocketIdle ==
  /\ sstate = "IDLE"
  /\ sstate' = "CLOSED"
  /\ sactive' = {}
  /\ stimer' = "off"
  /\ SrvHangUp(<<WsClose>>)
  /\ UNCHANGED <<sstream, snext, swater, ssent, sgot>>

SrvCloseSocket ==
  /\ sstate = "AUTH"
  /\ sstate' = "CLOSING"
  /\ sstream' = SrvCloseAll(sactive)
  /\ sactive' = {s \in sactive : sstream[s] # "CLOSEWAIT"}
  /\ stimer' = "off"
  /\ \E q \in Orders(SrvUnclosed) : SrvHangUp(Append(CloseMsgs(q), WsClose))
  /\ UNCHANGED <<snext, swater, ssent, sgot>>

\* errorSocket: a live socket says goaway, fails its streams and hangs up; on
\* one that is closing or closed it only clears up.
SrvErrorSocket(code) ==
  /\ sstate' = "CLOSED"
  /\ sactive' = {}
  /\ stimer' = "off"
  /\ IF sstate \in {"IDLE", "AUTH"}
     THEN /\ sstream' = SrvEndAll(sactive)
          /\ SrvHangUp(<<GoawayMsg(code), WsAbort>>)
     ELSE UNCHANGED <<sstream, c2s, s2c, sws, cws, link>>
  /\ UNCHANGED <<snext, swater, ssent, sgot>>

\* onConnect of the server: the database could not be opened.
SrvNoDatabase == sstate = "IDLE" /\ SrvErrorSocket(1004)

\* The ten minutes are over; the task pool has yet to run the timeout.
SessionExpires ==
  /\ stimer = "armed"
  /\ stimer' = "due"
  /\ UNCHANGED <<sstate, sactive, sstream, snext, swater, ssent, sgot>>
  /\ UNCHANGED wireVars

SessionTimeout ==
  /\ stimer = "due"
  /\ SrvErrorSocket(1003)
-----------------------------------------------------------------------------
(* The worker's operations on a stream. *)

\* streamClose, streamError and streamSend put frames on the wire only here.
SrvSendable == sstate = "AUTH"

\* Mutation: the second half of a close is not sent.
SrvStreamCloseQuiet(s) ==
  /\ sstream[s] \in {"OPEN", "CLOSEWAIT"}
  /\ Len(s2c) < MaxInFlight
  /\ sstream' = SrvCloseAll({s})
  /\ sactive' = IF sstream[s] = "CLOSEWAIT" THEN sactive \ {s} ELSE sactive
  /\ s2c' = IF sstream[s] = "OPEN" THEN ToClient(<<StreamCloseMsg(s)>>) ELSE s2c
  /\ UNCHANGED <<sstate, snext, swater, stimer, ssent, sgot>>
  /\ UNCHANGED <<c2s, cws, sws, link>>

SrvStreamClose(s) ==
  /\ sstream[s] \in {"OPEN", "CLOSEWAIT"}
  /\ Len(s2c) < MaxInFlight
  /\ sstream' = SrvCloseAll({s})
  /\ IF SrvSendable
     THEN /\ s2c' = ToClient(<<StreamCloseMsg(s)>>)
          /\ sactive' = IF sstream[s] = "CLOSEWAIT" THEN sactive \ {s} ELSE sactive
     ELSE UNCHANGED <<s2c, sactive>>
  /\ UNCHANGED <<sstate, snext, swater, stimer, ssent, sgot>>
  /\ UNCHANGED <<c2s, cws, sws, link>>

\* Mutation: an error is kept to oneself.
SrvStreamErrorQuiet(s) ==
  /\ sstream[s] \in {"OPEN", "CLOSEWAIT", "CLOSING"}
  /\ sstream' = [sstream EXCEPT ![s] = "CLOSED"]
  /\ sactive' = sactive \ {s}
  /\ UNCHANGED <<sstate, snext, swater, stimer, ssent, sgot>>
  /\ UNCHANGED wireVars

SrvStreamError(s) ==
  /\ sstream[s] \in {"OPEN", "CLOSEWAIT", "CLOSING"}
  /\ Len(s2c) < MaxInFlight
  /\ sstream' = [sstream EXCEPT ![s] = "CLOSED"]
  /\ IF sstream[s] # "CLOSING" /\ SrvSendable
     THEN /\ s2c' = ToClient(<<StreamResetMsg(s)>>)
          /\ sactive' = sactive \ {s}
     ELSE UNCHANGED <<s2c, sactive>>
  /\ UNCHANGED <<sstate, snext, swater, stimer, ssent, sgot>>
  /\ UNCHANGED <<c2s, cws, sws, link>>

\* A send on a socket that is closing or closed is dropped in silence.
SrvStreamSend(s) ==
  /\ sstream[s] \in {"OPEN", "CLOSEWAIT"}
  /\ SrvSendable
  /\ ssent[s] < MaxData
  /\ Len(s2c) < MaxInFlight
  /\ ssent' = [ssent EXCEPT ![s] = @ + 1]
  /\ s2c' = ToClient(<<StreamDataMsg(s, ssent[s] + 1)>>)
  /\ UNCHANGED <<sstate, sactive, sstream, snext, swater, stimer, sgot>>
  /\ UNCHANGED <<c2s, cws, sws, link>>
-----------------------------------------------------------------------------
(* Events of the channel. *)

\* Mutation: nobody answers onSocketClose with closeSocket.
SrvOnSocketCloseHalf(q) ==
  /\ sstate # "CLOSED" /\ sstate' = "CLOSE_WAIT"
  /\ sstream' = SrvPeerClosedAll(sactive)
  /\ q = <<>>
  /\ UNCHANGED <<sactive, stimer, snext, swater, ssent, sgot>>

\* onSocketClose, with closeSocket as the server's onClose: every stream ends,
\* the ones that had not closed say so if the channel still works.
SrvOnSocketClose(q) ==
  /\ IF sstate = "CLOSED"
     THEN UNCHANGED <<sstate, sactive, sstream, stimer>>
     ELSE /\ sstate' = "CLOSED"
          /\ sstream' = SrvEndAll(sactive)
          /\ sactive' = {}
          /\ stimer' = "off"
  /\ q \in Orders(IF sstate = "AUTH" THEN SrvUnclosed ELSE {})
  /\ UNCHANGED <<snext, swater, ssent, sgot>>

\* onSocketError; the server's onError does nothing, the channel is left open.
SrvOnSocketError ==
  /\ IF sstate = "CLOSED"
     THEN UNCHANGED <<sstate, sactive, sstream>>
     ELSE /\ sstate' = "CLOSED"
          /\ sstream' = SrvEndAll(sactive)
          /\ sactive' = {}
  /\ stimer' = "off"
  /\ UNCHANGED <<snext, swater, ssent, sgot>>

\* onCloseMessage: undertow answers the Close frame and closes the channel.
SrvWsClosed ==
  /\ c2s # <<>> /\ Head(c2s).type = "wsclose" /\ sws = "OPEN"
  /\ \/ /\ Head(c2s) = WsClose
        /\ \E q \in Orders(SrvUnclosed) \cup {<<>>} :
             SrvOnSocketClose(q) /\ SrvHangUp(Append(CloseMsgs(q), WsClose))
     \/ /\ Head(c2s) = WsAbort
        /\ SrvOnSocketError /\ SrvHangUp(<<WsAbort>>)

\* The channel's close listener, or a failed write, finds the connection lost.
SrvLinkDown ==
  /\ ~link /\ sws = "OPEN"
  /\ SrvHangUp(<<>>)
  /\ SrvOnSocketError \/ \E q \in Orders(SrvUnclosed) \cup {<<>>} : SrvOnSocketClose(q)

\* The close listener runs after the server's own closeSocket.
SrvChannelClosed ==
  /\ sws = "CLOSED" /\ sstate = "CLOSING"
  /\ SrvOnSocketClose(<<>>)
  /\ UNCHANGED wireVars
-----------------------------------------------------------------------------
(* onSocketMessage *)

SrvHead(types) == c2s # <<>> /\ sws = "OPEN" /\ Head(c2s).type \in types
SrvTakes == c2s' = Tail(c2s) /\ UNCHANGED <<s2c, cws, sws, link>>

SrvIgnores ==
  /\ SrvHead(FrameTypes \ {"wsclose"})
  /\ sstate = "CLOSED"
  /\ SrvTakes
  /\ UNCHANGED serverVars

\* verify may refuse: a bad signature, a stale date, an unknown user.
SrvRecvAuth ==
  /\ SrvHead({"auth"})
  /\ sstate \in {"IDLE", "AUTH"}
  /\ \/ /\ SrvTakes
        /\ sstate' = "AUTH"
        /\ stimer' = IF sstate = "AUTH" THEN "armed" ELSE stimer
        /\ UNCHANGED <<sactive, sstream, snext, swater, ssent, sgot>>
     \/ SrvErrorSocket(1002)

\* A goaway, or a stream frame before authentication: the socket dies without
\* a word.
SrvRecvFatal ==
  /\ \/ SrvHead({"goaway"}) /\ sstate \in {"IDLE", "AUTH"}
     \/ SrvHead({"data", "close", "reset"}) /\ sstate = "IDLE"
  /\ SrvTakes
  /\ SrvOnSocketError

\* Stream.onStreamData: which streams still hand data to their user.
SrvHandsOver(state) == state \in {"OPEN", "CLOSING"}

\* Mutation: no watermark.
SrvRecvDataNoWatermark ==
  /\ SrvHead({"data"})
  /\ sstate = "AUTH"
  /\ SrvTakes
  /\ LET s == Head(c2s).stream
         new == s \notin sactive /\ s % 2 = 1
         state == IF new THEN "OPEN" ELSE sstream[s]
     IN  /\ IF new
            THEN /\ swater' = s
                 /\ sactive' = sactive \cup {s}
                 /\ sstream' = [sstream EXCEPT ![s] = "OPEN"]
            ELSE UNCHANGED <<swater, sactive, sstream>>
         /\ sgot' = IF s \in sactive' /\ SrvHandsOver(state)
                    THEN [sgot EXCEPT ![s] = Append(@, Head(c2s).n)] ELSE sgot
  /\ UNCHANGED <<sstate, snext, stimer, ssent>>

\* Mutation: the frame that makes a stream is not handed to it.
SrvRecvDataForgetsFirst ==
  /\ SrvHead({"data"})
  /\ sstate = "AUTH"
  /\ SrvTakes
  /\ LET s == Head(c2s).stream
         new == s \notin sactive /\ s % 2 = 1 /\ s > swater
         state == IF new THEN "OPEN" ELSE sstream[s]
     IN  /\ IF new
            THEN /\ swater' = s
                 /\ sactive' = sactive \cup {s}
                 /\ sstream' = [sstream EXCEPT ![s] = "OPEN"]
            ELSE UNCHANGED <<swater, sactive, sstream>>
         /\ sgot' = IF s \in sactive /\ SrvHandsOver(state)
                    THEN [sgot EXCEPT ![s] = Append(@, Head(c2s).n)] ELSE sgot
  /\ UNCHANGED <<sstate, snext, stimer, ssent>>

\* A data frame goes to its stream, which an odd identifier above the
\* watermark makes.
SrvRecvData ==
  /\ SrvHead({"data"})
  /\ sstate = "AUTH"
  /\ SrvTakes
  /\ LET s == Head(c2s).stream
         new == s \notin sactive /\ s % 2 = 1 /\ s > swater
         state == IF new THEN "OPEN" ELSE sstream[s]
     IN  /\ IF new
            THEN /\ swater' = s
                 /\ sactive' = sactive \cup {s}
                 /\ sstream' = [sstream EXCEPT ![s] = "OPEN"]
            ELSE UNCHANGED <<swater, sactive, sstream>>
         /\ sgot' = IF s \in sactive' /\ SrvHandsOver(state)
                    THEN [sgot EXCEPT ![s] = Append(@, Head(c2s).n)] ELSE sgot
  /\ UNCHANGED <<sstate, snext, stimer, ssent>>

SrvRecvClose ==
  /\ SrvHead({"close"})
  /\ sstate = "AUTH"
  /\ SrvTakes
  /\ LET s == Head(c2s).stream
     IN  /\ sstream' = SrvPeerClosedAll({s} \cap sactive)
         /\ sactive' = {x \in sactive : x = s => sstream'[x] # "CLOSED"}
  /\ UNCHANGED <<sstate, snext, swater, stimer, ssent, sgot>>

\* The stream fails but stays in activeStreams.
SrvRecvReset ==
  /\ SrvHead({"reset"})
  /\ sstate = "AUTH"
  /\ SrvTakes
  /\ sstream' = SrvEndAll({Head(c2s).stream} \cap sactive)
  /\ UNCHANGED <<sstate, sactive, snext, swater, stimer, ssent, sgot>>

\* A message that finds the session older than ten minutes, before the task
\* pool ran the timeout: errorSocket(1003), and then the message is handled
\* all the same, on the closed socket: an auth re-arms the timer if it
\* verifies, a data frame may make a stream.
SrvRecvExpired ==
  /\ SrvHead(FrameTypes \ {"wsclose"})
  /\ sstate = "AUTH" /\ stimer = "due"
  /\ sstate' = "CLOSED"
  /\ SrvHangUp(<<GoawayMsg(1003), WsAbort>>)
  /\ LET m == Head(c2s)
         new == m.type = "data" /\ m.stream % 2 = 1 /\ m.stream > swater
     IN  /\ sactive' = IF new THEN {m.stream} ELSE {}
         /\ swater' = IF new THEN m.stream ELSE swater
         /\ sstream' = [s \in Ids |-> IF new /\ s = m.stream THEN "OPEN"
                                      ELSE SrvEndAll(sactive)[s]]
         /\ sgot' = IF new THEN [sgot EXCEPT ![m.stream] = Append(@, m.n)] ELSE sgot
         /\ stimer' \in IF m.type = "auth" THEN {"off", "armed"} ELSE {"off"}
  /\ UNCHANGED <<snext, ssent>>
-----------------------------------------------------------------------------
SrvUser ==
  \/ SrvOpenStream
  \/ SrvCloseSocketIdle \/ SrvCloseSocket \/ SrvNoDatabase
  \/ \E s \in Ids : SrvStreamClose(s) \/ SrvStreamError(s) \/ SrvStreamSend(s)

SrvSystem ==
  \/ SessionExpires \/ SessionTimeout
  \/ SrvWsClosed \/ SrvLinkDown \/ SrvChannelClosed
  \/ SrvIgnores
  \/ SrvRecvAuth \/ SrvRecvFatal
  \/ SrvRecvData \/ SrvRecvClose \/ SrvRecvReset \/ SrvRecvExpired
=============================================================================
