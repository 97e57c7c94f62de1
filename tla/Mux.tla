-------------------------------- MODULE Mux --------------------------------
(***************************************************************************)
(* The multiplexed socket of SKDB, both ends together: a client            *)
(* (MuxClient), a server (MuxServer) and the WebSocket between them        *)
(* (MuxWire), which may break at any time.                                 *)
(***************************************************************************)
EXTENDS MuxClient, MuxServer

vars == <<wireVars, clientVars, serverVars>>

Init == WireInit /\ ClientInit /\ ServerInit

ClientStep == (CliUser \/ CliSystem) /\ UNCHANGED serverVars
ServerStep == (SrvUser \/ SrvSystem) /\ UNCHANGED clientVars
LinkStep == LinkLost /\ UNCHANGED <<clientVars, serverVars>>

Next == ClientStep \/ ServerStep \/ LinkStep

Spec == Init /\ [][Next]_vars

\* What arrives is handled, callbacks return, a signature is computed, a lost
\* connection is noticed, and the server's worker closes a stream its peer closed.  Users,
\* timers and the loss of the connection are under no obligation.
CliReceives ==
  /\ \/ CliWsClosed \/ CliLinkDown \/ CliReturns \/ CliIgnores
     \/ CliRecvGoaway \/ CliRecvData \/ CliRecvClose \/ CliRecvReset
  /\ UNCHANGED serverVars
SrvReceives ==
  /\ \/ SrvWsClosed \/ SrvLinkDown \/ SrvChannelClosed \/ SrvIgnores
     \/ SrvRecvAuth \/ SrvRecvFatal
     \/ SrvRecvData \/ SrvRecvClose \/ SrvRecvReset \/ SrvRecvExpired
  /\ UNCHANGED clientVars
WorkerAnswers(s) ==
  sstream[s] = "CLOSEWAIT" /\ SrvStreamClose(s) /\ UNCHANGED clientVars

Fairness ==
  /\ WF_vars(AuthSigned /\ UNCHANGED serverVars)
  /\ WF_vars(CliReceives)
  /\ WF_vars(SrvReceives)
  /\ \A s \in Ids : WF_vars(WorkerAnswers(s))

FairSpec == Spec /\ Fairness
-----------------------------------------------------------------------------
\* Every variable keeps its type; in particular no handler of the server
\* leaves the socket in CLOSE_WAIT.
TypeOK == WireTypeOK /\ ClientTypeOK /\ ServerTypeOK

\* The last word on a stream is the last: behind the close or reset of a
\* stream, no frame of that stream is ever in flight in the same direction.
FinalIn(q) ==
  \A i, j \in DOMAIN q :
    i < j /\ q[i].type \in {"close", "reset"} => q[j].stream # q[i].stream
FinalFrame == FinalIn(c2s) /\ FinalIn(s2c)

\* A stream object exists at the end that did not open it only if the other
\* end opened it, and both ends count the streams they opened in step with
\* the watermark of the other.
PeerOpened ==
  /\ \A s \in ClientIds : sstream[s] # NoStream => cstream[s] # NoStream
  /\ \A s \in ServerIds : cstream[s] # NoStream => sstream[s] # NoStream
  /\ swater < cnext /\ cwater < snext

\* The inductive invariant behind FinalFrame, PeerOpened and StreamLifecycle.
\* A queue q is consistent with the stream states st of its sender: frames
\* are about streams the sender has, and once a close or reset is out the
\* sender's half is over.
StreamFrames == {"data", "close", "reset"}
Consistent(q, st) ==
  /\ FinalIn(q)
  /\ \A i \in DOMAIN q :
       IF q[i].type \in StreamFrames
       THEN /\ q[i].stream \in Ids
            /\ st[q[i].stream] # NoStream
            /\ q[i].type # "data" => st[q[i].stream] \in {"CLOSING", "CLOSED"}
       ELSE q[i].stream = 0

\* A stream exists only below the counter or the watermark it came from, and
\* activeStreams holds streams that exist.
CliCounters ==
  /\ cnext % 2 = 1
  /\ \A s \in cactive : cstream[s] # NoStream
  /\ \A s \in Ids : cstream[s] # NoStream => IF s % 2 = 1 THEN s < cnext ELSE s <= cwater
SrvCounters ==
  /\ snext % 2 = 0
  /\ \A s \in sactive : sstream[s] # NoStream
  /\ \A s \in Ids : sstream[s] # NoStream => IF s % 2 = 0 THEN s < snext ELSE s <= swater

StreamInv ==
  /\ Consistent(c2s, cstream) /\ Consistent(s2c, sstream)
  /\ CliCounters /\ SrvCounters
  /\ PeerOpened

\* With both sockets authenticated and nothing in flight, the two ends of a
\* stream that both know agree: no end waits for a close that the other end
\* has no reason to send.
Settled(s) ==
  \/ cstream[s] = "OPEN" /\ sstream[s] = "OPEN"
  \/ cstream[s] \in {"CLOSING", "CLOSED"} /\ sstream[s] = "CLOSEWAIT"
  \/ cstream[s] = "CLOSEWAIT" /\ sstream[s] \in {"CLOSING", "CLOSED"}
  \/ cstream[s] = "CLOSED" /\ sstream[s] = "CLOSED"
Quiet ==
  /\ link /\ cws = "OPEN" /\ sws = "OPEN" /\ c2s = <<>> /\ s2c = <<>>
  /\ cstate = "AUTH_SENT" /\ sstate = "AUTH"
EndsAgree ==
  Quiet => \A s \in Ids :
             cstream[s] # NoStream /\ sstream[s] # NoStream => Settled(s)

\* Data reaches a stream's user in the order it was sent, without gap or
\* repetition.  The exception is a stream the server opens towards a client
\* that still hears while it closes: sendAuth may bring a socket back that
\* ignored the first frames (see ClosedIsFinal).
Counts(q) == \A i \in DOMAIN q : q[i] = i
InOrder ==
  /\ \A s \in Ids : Counts(sgot[s])
  /\ \A s \in Ids : (s \in ClientIds \/ ~HearsWhileClosing) => Counts(cgot[s])

\* A stream goes forward only: it is never made a second time, whatever late
\* frames arrive for it, and a closed one stays closed.
Rank(st) == CASE st = NoStream -> 0 [] st = "OPEN" -> 1
              [] st \in {"CLOSING", "CLOSEWAIT"} -> 2 [] st = "CLOSED" -> 3
Forward(a, b) == a = b \/ Rank(a) < Rank(b)
StreamsForward ==
  \A s \in Ids : Forward(cstream[s], cstream'[s]) /\ Forward(sstream[s], sstream'[s])
StreamLifecycle == [][StreamsForward]_vars

\* When a close frame makes the client's user hear onClose, the user has every
\* data frame the server sent on that stream: makeRequest may decode.
TakesClose(s) ==
  /\ s2c # <<>> /\ Head(s2c) = StreamCloseMsg(s) /\ s2c' = Tail(s2c)
  /\ "close" \in ctold'[s] \ ctold[s]
AnswerComplete ==
  [][\A s \in ClientIds : TakesClose(s) => Len(cgot[s]) = ssent[s]]_vars

\* A stream the client closed and the server knows does not stay half closed:
\* the server's close, an error, or the end of the socket settles it.
ClosingEnds ==
  \A s \in ClientIds :
    (cstream[s] = "CLOSING" /\ s \in cactive /\ sstream[s] # NoStream)
      ~> ~(cstream[s] = "CLOSING" /\ s \in cactive)

\* A CLOSED socket is left in two ways only: sendAuth resumes after its await
\* without looking at the state, and onSocketClose sets CLOSEWAIT after its
\* owner's onClose called errorSocket, then on a WebSocket that is closed.
\* Neither brings a stream back.  A CLOSED server gives no data to its streams.
\* The RFC of the protocol allows no way out of CLOSED, and nothing heard in it:
\* the two ways are exceptions to it, and so is the message that finds the
\* session expired, which the server handles after it has called errorSocket.
ClosedIsFinal ==
  [][/\ cstate = "CLOSED" /\ cstate' # "CLOSED" =>
          /\ cactive' = {}
          /\ \/ csigning # "no" /\ cstate' = "AUTH_SENT"
             \/ creturn = "CLOSEWAIT" /\ cstate' = "CLOSEWAIT" /\ cws = "CLOSED"
     /\ sgot' # sgot => sstate # "CLOSED"]_vars

\* The end of one end's channel reaches the other end.
TeardownReaches ==
  /\ (cws = "CLOSED") ~> (sws = "CLOSED" /\ sstate = "CLOSED")
  /\ (sws = "CLOSED") ~> (cws = "CLOSED")
=============================================================================
