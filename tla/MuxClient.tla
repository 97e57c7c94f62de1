----------------------------- MODULE MuxClient -----------------------------
(***************************************************************************)
(* MuxedSocket and Stream of sql/ts/src/skdb_orchestration.ts: the client  *)
(* end.  JavaScript runs one handler at a time, so a handler is one        *)
(* action, with two exceptions.  sendAuth awaits the HMAC signature half   *)
(* way: it is AuthTimer (up to the await) and AuthSigned (after it).  And  *)
(* onSocketClose and onSocketError call back into their users before they  *)
(* set the state: creturn is what they set it to in CliReturns, and in     *)
(* between the users act on the socket in the state it still has, while no *)
(* other event of the socket is handled.  The streams are told together,   *)
(* at the start of the handler.                                            *)
(*                                                                         *)
(* Stream objects stay in their users' hands when they leave               *)
(* activeStreams, so cstream keeps the state of every stream ever made.    *)
(***************************************************************************)
EXTENDS MuxWire

VARIABLES cstate,   \* MuxedSocketState
          cactive,  \* keys of activeStreams
          cstream,  \* StreamState of each stream, "NONE" before it is made
          cnext,    \* nextStream
          cwater,   \* serverStreamWatermark
          csigning, \* a sendAuth awaits its signature: connect's, a later one, none
          ctimer,   \* reauthTimer is armed
          csent,    \* data frames the user sent on each stream
          cgot,     \* ranks of the data frames handed to onData
          ctold,    \* which of onClose, onError the user of a stream has seen
          creturn   \* the state a handler sets when its callbacks are back

clientVars ==
  <<cstate, cactive, cstream, cnext, cwater, csigning, ctimer, csent, cgot, ctold,
    creturn>>

ClientStates == {"IDLE", "AUTH_SENT", "CLOSING", "CLOSEWAIT", "CLOSED"}

\* creturn when neither onSocketClose nor onSocketError is running.
NoHandler == "none"
CliAtRest == creturn = NoHandler

\* connect: the WebSocket has opened, MuxedSocket is constructed and sendAuth
\* is waiting for its signature.
ClientInit ==
  /\ cstate = "IDLE"
  /\ cactive = {}
  /\ cstream = [s \in Ids |-> NoStream]
  /\ cnext = 1
  /\ cwater = 0
  /\ csigning = "first"
  /\ ctimer = FALSE
  /\ csent = [s \in Ids |-> 0]
  /\ cgot = [s \in Ids |-> <<>>]
  /\ ctold = [s \in Ids |-> {}]
  /\ creturn = NoHandler

ClientTypeOK ==
  /\ cstate \in ClientStates
  /\ cactive \in SUBSET Ids
  /\ cstream \in [Ids -> StreamStates \cup {NoStream}]
  /\ cnext \in Nat \ {0} /\ cwater \in 0..MaxId
  /\ csigning \in {"first", "again", "no"} /\ ctimer \in BOOLEAN
  /\ csent \in [Ids -> Nat]
  /\ cgot \in [Ids -> Seq(Nat)]
  /\ ctold \in [Ids -> SUBSET {"close", "error"}]
  /\ creturn \in {NoHandler, "CLOSEWAIT", "CLOSED"}

\* streamClose, streamError and streamSend put frames on the wire only here.
CliSendable == cstate \in {"AUTH_SENT", "CLOSEWAIT"}
-----------------------------------------------------------------------------
(* What the socket does to a set S of streams at once. *)

\* Mutation: close sends its frame and leaves the stream open.
CliCloseAllStaysOpen(S) ==
  [s \in Ids |-> IF s \in S /\ cstream[s] = "CLOSEWAIT" THEN "CLOSED" ELSE cstream[s]]

\* Stream.close on every member of S.
CliCloseAll(S) ==
  [s \in Ids |-> IF s \notin S THEN cstream[s]
                 ELSE IF cstream[s] = "OPEN" THEN "CLOSING"
                 ELSE IF cstream[s] = "CLOSEWAIT" THEN "CLOSED"
                 ELSE cstream[s]]

\* Stream.onStreamClose on every member of S.
CliPeerClosedAll(S) ==
  [s \in Ids |-> IF s \notin S THEN cstream[s]
                 ELSE IF cstream[s] = "OPEN" THEN "CLOSEWAIT"
                 ELSE IF cstream[s] = "CLOSING" THEN "CLOSED"
                 ELSE cstream[s]]

\* Stream.onStreamError on every member of S.
CliErrorAll(S) ==
  [s \in Ids |-> IF s \in S THEN "CLOSED" ELSE cstream[s]]

\* The callbacks those two make.
CliTold(S, states, what) ==
  [s \in Ids |-> IF s \in S /\ cstream[s] \in states
                 THEN ctold[s] \cup {what} ELSE ctold[s]]
CliToldClose(S) == CliTold(S, {"OPEN", "CLOSING"}, "close")
CliToldError(S) == CliTold(S, {"OPEN", "CLOSING", "CLOSEWAIT"}, "error")
-----------------------------------------------------------------------------
(* sendAuth *)

\* The reauth timer runs sendAuth: it starts a signature in AUTH_SENT and in
\* IDLE, and does nothing on a socket that is closing or closed.
AuthTimer ==
  /\ CliAtRest /\ ctimer
  /\ Len(c2s) < MaxInFlight
  /\ ctimer' = FALSE
  /\ csigning' = IF cstate \in {"IDLE", "AUTH_SENT"} THEN "again" ELSE "no"
  /\ UNCHANGED <<cstate, cactive, cstream, cnext, cwater, csent, cgot, ctold, creturn>>
  /\ UNCHANGED wireVars

\* The signature is there: whatever happened to the socket during the await,
\* the frame is sent, the state becomes AUTH_SENT and the timer is re-armed.
AuthSigned ==
  /\ CliAtRest /\ csigning # "no"
  /\ c2s' = ToServer(<<AuthMsg>>)
  /\ cstate' = "AUTH_SENT"
  /\ csigning' = "no"
  /\ ctimer' = TRUE
  /\ UNCHANGED <<cactive, cstream, cnext, cwater, csent, cgot, ctold, creturn>>
  /\ UNCHANGED <<s2c, cws, sws, link>>
-----------------------------------------------------------------------------
(* The user's operations on the socket. *)

\* connect hands the socket over when its first sendAuth has finished.
CliConnected == csigning # "first"

CliOpenStream ==
  /\ cstate = "AUTH_SENT"
  /\ cnext <= MaxId
  /\ cstream' = [cstream EXCEPT ![cnext] = "OPEN"]
  /\ cactive' = cactive \cup {cnext}
  /\ cnext' = cnext + 2
  /\ UNCHANGED <<cstate, cwater, csigning, ctimer, csent, cgot, ctold, creturn>>
  /\ UNCHANGED wireVars

\* The frames q, the last of which is the Close frame of WebSocket.close();
\* nothing happens unless it is open.
CliHangUp(q) ==
  /\ c2s' = ToServer(q)
  /\ cws' = IF cws = "OPEN" THEN "CLOSING" ELSE cws
  /\ UNCHANGED <<s2c, sws, link>>

\* The streams are closed one by one; each that was OPEN or CLOSEWAIT sends
\* its close frame, and one that was CLOSEWAIT leaves activeStreams.
CliCloseSocket ==
  /\ CliConnected
  /\ cstate \in {"AUTH_SENT", "CLOSEWAIT"}
  /\ LET closing == {s \in cactive : cstream[s] \in {"OPEN", "CLOSEWAIT"}}
     IN  \E q \in Orders(closing) : CliHangUp(Append(CloseMsgs(q), WsClose))
  /\ cstream' = CliCloseAll(cactive)
  /\ IF cstate = "AUTH_SENT"
     THEN /\ cstate' = "CLOSING"
          /\ cactive' = {s \in cactive : cstream[s] # "CLOSEWAIT"}
          /\ UNCHANGED ctimer
     ELSE /\ cstate' = "CLOSED"
          /\ cactive' = {}
          /\ ctimer' = FALSE
  /\ UNCHANGED <<cnext, cwater, csigning, csent, cgot, ctold, creturn>>

\* errorSocket on a closing socket: the streams are forgotten and their users
\* hear nothing.
CliErrorSocketQuiet ==
  /\ cstate = "CLOSING"
  /\ cstate' = "CLOSED"
  /\ cactive' = {}
  /\ ctimer' = FALSE
  /\ UNCHANGED <<cstream, cnext, cwater, csigning, csent, cgot, ctold, creturn>>
  /\ UNCHANGED wireVars

\* Mutation: errorSocket tells the streams and keeps them.
CliErrorSocketKeepsStreams ==
  /\ CliConnected
  /\ cstate \in {"AUTH_SENT", "CLOSEWAIT"}
  /\ cstream' = CliErrorAll(cactive)
  /\ ctold' = CliToldError(cactive)
  /\ ctimer' = FALSE
  /\ cstate' = "CLOSED"
  /\ CliHangUp(<<GoawayMsg(0), WsAbort>>)
  /\ UNCHANGED <<cactive, cnext, cwater, csigning, csent, cgot, creturn>>

CliErrorSocket ==
  /\ CliConnected
  /\ cstate \in {"AUTH_SENT", "CLOSEWAIT"}
  /\ cstream' = CliErrorAll(cactive)
  /\ ctold' = CliToldError(cactive)
  /\ cactive' = {}
  /\ ctimer' = FALSE
  /\ cstate' = "CLOSED"
  /\ CliHangUp(<<GoawayMsg(0), WsAbort>>)
  /\ UNCHANGED <<cnext, cwater, csigning, csent, cgot, creturn>>
-----------------------------------------------------------------------------
(* The user's operations on a stream. *)

CliStreamClose(s) ==
  /\ cstream[s] \in {"OPEN", "CLOSEWAIT"}
  /\ Len(c2s) < MaxInFlight
  /\ cstream' = CliCloseAll({s})
  /\ IF CliSendable
     THEN /\ c2s' = ToServer(<<StreamCloseMsg(s)>>)
          /\ cactive' = IF cstream[s] = "CLOSEWAIT" THEN cactive \ {s} ELSE cactive
     ELSE UNCHANGED <<c2s, cactive>>
  /\ UNCHANGED <<cstate, cnext, cwater, csigning, ctimer, csent, cgot, ctold, creturn>>
  /\ UNCHANGED <<s2c, cws, sws, link>>

\* On a stream whose close frame is already out, error is silent.
CliStreamError(s) ==
  /\ cstream[s] \in {"OPEN", "CLOSEWAIT", "CLOSING"}
  /\ Len(c2s) < MaxInFlight
  /\ cstream' = [cstream EXCEPT ![s] = "CLOSED"]
  /\ IF cstream[s] # "CLOSING" /\ CliSendable
     THEN /\ c2s' = ToServer(<<StreamResetMsg(s)>>)
          /\ cactive' = cactive \ {s}
     ELSE UNCHANGED <<c2s, cactive>>
  /\ UNCHANGED <<cstate, cnext, cwater, csigning, ctimer, csent, cgot, ctold, creturn>>
  /\ UNCHANGED <<s2c, cws, sws, link>>

CliStreamSend(s) ==
  /\ cstream[s] \in {"OPEN", "CLOSEWAIT"}
  /\ csent[s] < MaxData
  /\ Len(c2s) < MaxInFlight
  /\ csent' = [csent EXCEPT ![s] = @ + 1]
  /\ c2s' = IF CliSendable
            THEN ToServer(<<StreamDataMsg(s, csent[s] + 1)>>) ELSE c2s
  /\ UNCHANGED <<cstate, cactive, cstream, cnext, cwater, csigning, ctimer, cgot, ctold,
                 creturn>>
  /\ UNCHANGED <<s2c, cws, sws, link>>
-----------------------------------------------------------------------------
(* Events of the WebSocket. *)

\* onSocketClose and onSocketError up to the return of their callbacks; the
\* caller says what happens on the wire.
CliOnSocketClose ==
  /\ IF cstate \in {"IDLE", "AUTH_SENT", "CLOSING"}
     THEN /\ cstream' = CliPeerClosedAll(cactive)
          /\ ctold' = CliToldClose(cactive)
          /\ creturn' = IF cstate = "CLOSING" THEN "CLOSED" ELSE "CLOSEWAIT"
     ELSE UNCHANGED <<cstream, ctold, creturn>>
  /\ UNCHANGED <<cstate, cactive, ctimer, cnext, cwater, csigning, csent, cgot>>

CliOnSocketError ==
  /\ IF cstate # "CLOSED"
     THEN /\ cstream' = CliErrorAll(cactive)
          /\ ctold' = CliToldError(cactive)
          /\ creturn' = "CLOSED"
     ELSE UNCHANGED <<cstream, ctold, creturn>>
  /\ UNCHANGED <<cstate, cactive, ctimer, cnext, cwater, csigning, csent, cgot>>

\* The callbacks are back and the handler sets the state, whatever state the
\* callbacks left the socket in.
CliReturns ==
  /\ ~CliAtRest
  /\ cstate' = creturn
  /\ creturn' = NoHandler
  /\ IF creturn = "CLOSED"
     THEN cactive' = {} /\ ctimer' = FALSE
     ELSE UNCHANGED <<cactive, ctimer>>
  /\ UNCHANGED <<cstream, cnext, cwater, csigning, csent, cgot, ctold>>
  /\ UNCHANGED wireVars

\* The peer's Close frame arrives: the browser completes the closing
\* handshake and fires onclose.
CliWsClosed ==
  /\ CliAtRest
  /\ cws # "CLOSED" /\ s2c # <<>> /\ Head(s2c).type = "wsclose"
  /\ c2s' = ToServer(<<WsClose>>)
  /\ s2c' = <<>>
  /\ cws' = "CLOSED"
  /\ UNCHANGED <<sws, link>>
  /\ CliOnSocketClose

\* The connection is found lost: onclose fires, after onerror in some
\* environments.
CliLinkDown ==
  /\ CliAtRest
  /\ ~link /\ cws # "CLOSED"
  /\ cws' = "CLOSED"
  /\ UNCHANGED <<c2s, s2c, sws, link>>
  /\ CliOnSocketClose \/ CliOnSocketError
-----------------------------------------------------------------------------
(* onSocketMessage *)

\* A browser stops handing over messages once close() was called; the node
\* WebSocket goes on until the peer's Close frame (HearsWhileClosing).
CliTakes(t) ==
  /\ CliAtRest
  /\ s2c # <<>> /\ Head(s2c).type = t
  /\ cws = "OPEN" \/ (cws = "CLOSING" /\ HearsWhileClosing)
  /\ s2c' = Tail(s2c)
  /\ UNCHANGED <<c2s, cws, sws, link>>

CliHears == cstate \in {"AUTH_SENT", "CLOSING"}

CliIgnores ==
  /\ CliAtRest
  /\ s2c # <<>> /\ Head(s2c).type # "wsclose"
  /\ cws # "CLOSED"
  /\ ~CliHears \/ (cws = "CLOSING" /\ ~HearsWhileClosing)
  /\ s2c' = Tail(s2c)
  /\ UNCHANGED <<c2s, cws, sws, link>>
  /\ UNCHANGED clientVars

CliRecvGoaway == CliTakes("goaway") /\ CliHears /\ CliOnSocketError

\* Stream.onStreamData: which streams still hand data to their user.
CliHandsOver(state) == state \in {"OPEN", "CLOSING"}

\* Mutation: a stream that closed its own half takes no more data.
CliRecvDataOpenOnly ==
  /\ CliTakes("data") /\ CliHears
  /\ LET s == Head(s2c).stream
         new == /\ s \notin cactive /\ cstate # "CLOSING"
                /\ s % 2 = 0 /\ s > cwater
         state == IF new THEN "OPEN" ELSE cstream[s]
     IN  /\ IF new
            THEN /\ cwater' = s
                 /\ cactive' = cactive \cup {s}
                 /\ cstream' = [cstream EXCEPT ![s] = "OPEN"]
            ELSE UNCHANGED <<cwater, cactive, cstream>>
         /\ cgot' = IF s \in cactive' /\ state = "OPEN"
                    THEN [cgot EXCEPT ![s] = Append(@, Head(s2c).n)] ELSE cgot
  /\ UNCHANGED <<cstate, cnext, csigning, ctimer, csent, ctold, creturn>>

\* A data frame goes to its stream, which an even identifier above the
\* watermark makes if the socket is not closing.
CliRecvData ==
  /\ CliTakes("data") /\ CliHears
  /\ LET s == Head(s2c).stream
         new == /\ s \notin cactive /\ cstate # "CLOSING"
                /\ s % 2 = 0 /\ s > cwater
         state == IF new THEN "OPEN" ELSE cstream[s]
     IN  /\ IF new
            THEN /\ cwater' = s
                 /\ cactive' = cactive \cup {s}
                 /\ cstream' = [cstream EXCEPT ![s] = "OPEN"]
            ELSE UNCHANGED <<cwater, cactive, cstream>>
         /\ cgot' = IF s \in cactive' /\ CliHandsOver(state)
                    THEN [cgot EXCEPT ![s] = Append(@, Head(s2c).n)] ELSE cgot
  /\ UNCHANGED <<cstate, cnext, csigning, ctimer, csent, ctold, creturn>>

CliRecvClose ==
  /\ CliTakes("close") /\ CliHears
  /\ LET s == Head(s2c).stream
         mine == {s} \cap cactive
     IN  /\ cstream' = CliPeerClosedAll(mine)
         /\ ctold' = CliToldClose(mine)
         /\ cactive' = {x \in cactive : x = s => cstream'[x] # "CLOSED"}
  /\ UNCHANGED <<cstate, cnext, cwater, csigning, ctimer, csent, cgot, creturn>>

CliRecvReset ==
  /\ CliTakes("reset") /\ CliHears
  /\ LET s == Head(s2c).stream
         mine == {s} \cap cactive
     IN  /\ cstream' = CliErrorAll(mine)
         /\ ctold' = CliToldError(mine)
         /\ cactive' = cactive \ {s}
  /\ UNCHANGED <<cstate, cnext, cwater, csigning, ctimer, csent, cgot, creturn>>
-----------------------------------------------------------------------------
CliUser ==
  \/ CliOpenStream
  \/ CliCloseSocket
  \/ CliErrorSocketQuiet \/ CliErrorSocket
  \/ \E s \in Ids : CliStreamClose(s) \/ CliStreamError(s) \/ CliStreamSend(s)

CliSystem ==
  \/ AuthTimer \/ AuthSigned
  \/ CliWsClosed \/ CliLinkDown \/ CliReturns
  \/ CliIgnores \/ CliRecvGoaway
  \/ CliRecvData \/ CliRecvClose \/ CliRecvReset
=============================================================================
