----------------------------- MODULE Resilient -----------------------------
(***************************************************************************)
(* ResilientMuxedSocket and ResilientStream of skdb_orchestration.ts: a    *)
(* client that replaces a failed MuxedSocket by a new one and moves its    *)
(* streams over, with pingSocket as the policy's health check.             *)
(*                                                                         *)
(* An action is one turn of the JavaScript event loop with the microtasks  *)
(* that follow it: a timer or an event of a socket, every callback it      *)
(* runs, and the coroutines those wake.  A MuxedSocket is reduced to what  *)
(* its owner can tell: it works ("up"), it looks open and nothing will     *)
(* ever arrive on it ("mute": the peer vanished, or the WebSocket closed   *)
(* while connect was signing), closeSocket has been called on it           *)
(* ("closing"), or it is over ("dead").  Module Mux has the detail.        *)
(*                                                                         *)
(* The users of a socket are resilient streams and the plain streams of    *)
(* makeRequest, which close their half at once and end with the answer.    *)
(***************************************************************************)
EXTENDS Naturals

CONSTANTS Streams,    \* the resilient streams
          Requests,   \* the plain streams, one per makeRequest
          MaxSockets, \* bound: MuxedSockets ever connected
          MaxFaults   \* bound: failures of the network or the server

ASSUME ResilientBounds ==
  /\ MaxSockets \in Nat \ {0} /\ MaxFaults \in Nat
  /\ Streams \cap Requests = {}

VARIABLES cur,     \* this.socket, 0 when undefined
          last,    \* the newest socket
          sock,    \* condition of each socket
          reconn,  \* replaceFailedSocket is in its connect loop
          failed,  \* permanentFailureReason is set
          closer,  \* a closeSocket waits for the connect loop
          shut,    \* closeSocket has taken the socket away
          pc,      \* where each user is
          at,      \* the socket a user is attached to or has pinged, or 0
          timer,   \* the streams whose failureDetectionTimeout is armed
          closed,  \* the streams their owner has closed
          faults   \* failures so far

vars == <<cur, last, sock, reconn, failed, closer, shut, pc, at, timer, closed, faults>>

Users == Streams \cup Requests
Sockets == 1..MaxSockets
SocketStates == {"none", "up", "mute", "closing", "dead"}

\* A user is not there yet; waits in openStream for a first socket; has a
\* stream; is replacing it, first awaiting the health check, then a socket;
\* or is over: answered, closed, or given an error.
UserStates == {"new", "wait", "open", "ping", "queue", "over"}

Init ==
  /\ cur = 1 /\ last = 1
  /\ sock = [i \in Sockets |-> IF i = 1 THEN "up" ELSE "none"]
  /\ reconn = FALSE /\ failed = FALSE
  /\ closer = FALSE /\ shut = FALSE
  /\ pc = [u \in Users |-> "new"]
  /\ at = [u \in Users |-> 0]
  /\ timer = {} /\ closed = {}
  /\ faults = 0

TypeOK ==
  /\ cur \in 0..MaxSockets /\ last \in Sockets
  /\ sock \in [Sockets -> SocketStates]
  /\ reconn \in BOOLEAN /\ failed \in BOOLEAN
  /\ closer \in BOOLEAN /\ shut \in BOOLEAN
  /\ pc \in [Users -> UserStates]
  /\ at \in [Users -> 0..MaxSockets]
  /\ timer \in SUBSET Streams /\ closed \in SUBSET Streams
  /\ faults \in 0..MaxFaults
-----------------------------------------------------------------------------
On(i) == {u \in Users : pc[u] = "open" /\ at[u] = i}
Waiting == {u \in Users : pc[u] \in {"wait", "queue"}}

\* Where getSocket takes a user: an exception, a stream on the socket, or the
\* socketQueue.
GetSocket(waiting) ==
  IF failed THEN "over" ELSE IF cur # 0 THEN "open" ELSE waiting

\* Move the users of S to state p and socket i.
Move(S, p, i) ==
  /\ pc' = [u \in Users |-> IF u \in S THEN p ELSE pc[u]]
  /\ at' = [u \in Users |-> IF u \in S THEN i ELSE at[u]]

\* Mutation: a closing socket does not tell its streams.
EvictSilently ==
  /\ sock' = [sock EXCEPT ![cur] = "dead"]
  /\ cur' = 0
  /\ UNCHANGED <<pc, at, timer>>

\* The current socket ends under its users.  Its requests are settled.  Its
\* resilient streams, which hear of it first, start to replace themselves and
\* ping this.socket: it is still the failing one.
Evict ==
  /\ pc' = [u \in Users |-> IF u \notin On(cur) THEN pc[u]
                            ELSE IF u \in Streams THEN "ping" ELSE "over"]
  /\ at' = [u \in Users |-> IF u \in On(cur) \cap Requests THEN 0 ELSE at[u]]
  /\ timer' = timer \ On(cur)
  /\ sock' = [sock EXCEPT ![cur] = "dead"]
  /\ cur' = 0

\* A bounded number of things go wrong.
Fault == faults < MaxFaults /\ faults' = faults + 1
-----------------------------------------------------------------------------
(* The users' operations. *)

\* openResilientStream and openStream.
Open(u) ==
  /\ pc[u] = "new"
  /\ Move({u}, GetSocket("wait"), IF failed THEN 0 ELSE cur)
  /\ UNCHANGED <<cur, last, sock, reconn, failed, closer, shut, timer, closed, faults>>

\* expectingData: does nothing on a stream that is being replaced.
ExpectingData(u) ==
  /\ u \in Streams /\ pc[u] = "open"
  /\ timer' = timer \cup {u}
  /\ UNCHANGED <<cur, last, sock, reconn, failed, closer, shut, pc, at, closed, faults>>

\* ResilientStream.close: a stream that is being replaced has nothing to
\* close, and the replacement goes on.
Close(u) ==
  /\ u \in Streams \ closed /\ pc[u] \in {"open", "ping", "queue"}
  /\ closed' = closed \cup {u}
  /\ timer' = timer \ {u}
  /\ IF pc[u] = "open" THEN Move({u}, "over", 0) ELSE UNCHANGED <<pc, at>>
  /\ UNCHANGED <<cur, last, sock, reconn, failed, closer, shut, faults>>

\* closeSocket with a socket: the streams keep their handlers and hear of the
\* end when the WebSocket has closed.  Without one it waits for the next.
CloseSocket ==
  /\ IF cur # 0
     THEN /\ cur' = 0 /\ shut' = TRUE
          /\ sock' = [sock EXCEPT ![cur] = "closing"]
          /\ UNCHANGED closer
     ELSE /\ reconn /\ ~closer
          /\ closer' = TRUE
          /\ UNCHANGED <<cur, shut, sock>>
  /\ UNCHANGED <<last, reconn, failed, pc, at, timer, closed, faults>>
-----------------------------------------------------------------------------
(* Events of the sockets. *)

\* Data for a stream disarms its timer.
DataArrives(u) ==
  /\ u \in timer /\ sock[at[u]] \in {"up", "closing"}
  /\ timer' = timer \ {u}
  /\ UNCHANGED <<cur, last, sock, reconn, failed, closer, shut, pc, at, closed, faults>>

\* The server answers a request, or resets it.
ReqDone(u) ==
  /\ u \in Requests /\ pc[u] = "open" /\ sock[at[u]] \in {"up", "closing"}
  /\ Move({u}, "over", 0)
  /\ UNCHANGED <<cur, last, sock, reconn, failed, closer, shut, timer, closed, faults>>

\* The peer of the current socket vanishes without a word.
Stalls ==
  /\ cur # 0 /\ sock[cur] = "up"
  /\ Fault
  /\ sock' = [sock EXCEPT ![cur] = "mute"]
  /\ UNCHANGED <<cur, last, reconn, failed, closer, shut, pc, at, timer, closed>>

\* onClose, or onError with a code worth a retry, on the current socket; then
\* replaceFailedSocket drops it and starts its connect loop.
SocketFails ==
  /\ cur # 0
  /\ Fault
  /\ Evict
  /\ reconn' = TRUE
  /\ UNCHANGED <<last, failed, closer, shut, closed>>

\* onError with a code that is not retried (1002, 1004): nobody reconnects.
SocketRefused ==
  /\ cur # 0 /\ sock[cur] = "up"
  /\ Fault
  /\ Evict
  /\ failed' = TRUE
  /\ UNCHANGED <<last, reconn, closer, shut, closed>>

\* A socket that closeSocket was called on ends, perhaps with such a code.
\* Its streams try to replace themselves and find no socket.
ClosingSocketEnds(i) ==
  /\ sock[i] = "closing"
  /\ sock' = [sock EXCEPT ![i] = "dead"]
  /\ failed' \in {failed, TRUE}
  /\ pc' = [u \in Users |-> IF u \notin On(i) THEN pc[u]
                            ELSE IF u \in Streams /\ ~failed' THEN "queue" ELSE "over"]
  /\ at' = [u \in Users |-> IF u \in On(i) THEN 0 ELSE at[u]]
  /\ timer' = timer \ On(i)
  /\ UNCHANGED <<cur, last, reconn, closer, shut, closed, faults>>
-----------------------------------------------------------------------------
(* ResilientStream.replaceFailedStream *)

\* The stream gives up its own Stream and asks whether the socket answers:
\* a ping if there is a socket, and straight into the queue if there is none.
ReplaceStream(u) ==
  /\ Move({u}, IF cur # 0 THEN "ping" ELSE IF failed THEN "over" ELSE "queue", cur)
  /\ timer' = timer \ {u}
  /\ UNCHANGED <<cur, last, sock, reconn, failed, closer, shut, closed>>

\* The server closed or reset this stream alone: a failure, or its part in
\* the close of the socket.
StreamFails(u) ==
  /\ u \in Streams /\ pc[u] = "open"
  /\ \/ sock[at[u]] = "up" /\ Fault
     \/ sock[at[u]] = "closing" /\ UNCHANGED faults
  /\ ReplaceStream(u)

\* Mutation: the timer fires and only clears itself.
StreamExpiresQuietly(u) ==
  /\ u \in timer
  /\ timer' = timer \ {u}
  /\ UNCHANGED <<cur, last, sock, reconn, failed, closer, shut, pc, at, closed, faults>>

\* No data for failureThresholdMs, one minute.  The health checks of earlier
\* sockets, which last ten seconds, are over by then.
StreamExpires(u) ==
  /\ u \in timer
  /\ \A v \in Users : pc[v] = "ping" => at[v] >= at[u]
  /\ ReplaceStream(u)
  /\ UNCHANGED faults

\* The pong resolves every health check of the socket; the streams go on to
\* openStream.
Pong(i) ==
  /\ sock[i] \in {"up", "closing"}
  /\ LET S == {u \in Users : pc[u] = "ping" /\ at[u] = i}
     IN  /\ S # {}
         /\ Move(S, GetSocket("queue"), IF failed THEN 0 ELSE cur)
  /\ UNCHANGED <<cur, last, sock, reconn, failed, closer, shut, timer, closed, faults>>

\* Mutation: the old socket is not errored when it is replaced.
PingTimeoutLeaks(u) ==
  /\ pc[u] = "ping"
  /\ IF cur # 0 /\ ~failed
     THEN /\ Move({u}, "queue", 0)
          /\ cur' = 0
          /\ reconn' = TRUE
     ELSE /\ Move({u}, GetSocket("queue"), 0)
          /\ UNCHANGED <<cur, reconn>>
  /\ UNCHANGED <<last, sock, failed, closer, shut, timer, closed, faults>>

\* Mutation: a ping waits for its pong for ever.
PingTimeoutNever(u) == pc[u] = "ping" /\ FALSE /\ UNCHANGED vars

\* No pong for pingTimeoutMs: shouldReconnect is true and replaceFailedSocket
\* drops whatever socket is current by now, whose streams find none and queue.
\* A pong that is merely late on a working socket is a failure of the network.
PingTimeout(u) ==
  /\ pc[u] = "ping"
  /\ IF cur # 0 /\ ~failed
     THEN /\ IF at[u] = cur /\ sock[cur] = "up" THEN Fault ELSE UNCHANGED faults
          /\ pc' = [v \in Users |-> IF v # u /\ v \notin On(cur) THEN pc[v]
                                    ELSE IF v \in Streams THEN "queue" ELSE "over"]
          /\ at' = [v \in Users |-> IF v # u /\ v \notin On(cur) THEN at[v] ELSE 0]
          /\ timer' = timer \ On(cur)
          /\ sock' = [sock EXCEPT ![cur] = "dead"]
          /\ cur' = 0
          /\ reconn' = TRUE
     ELSE /\ Move({u}, GetSocket("queue"), 0)
          /\ UNCHANGED <<cur, sock, reconn, timer, faults>>
  /\ UNCHANGED <<last, failed, closer, shut, closed>>
-----------------------------------------------------------------------------
(* The end of the connect loop *)

\* Mutation: attachSocket serves the first in the queue only.
AttachFirst(i) ==
  /\ cur' = i
  /\ IF Waiting = {} THEN UNCHANGED <<pc, at>>
     ELSE \E u \in Waiting : Move({u}, "open", i)
  /\ UNCHANGED <<closer, shut>>

\* attachSocket: everyone in the queue gets the new socket and opens a stream.
Attach(i) ==
  /\ cur' = i
  /\ Move(Waiting, "open", i)
  /\ UNCHANGED <<closer, shut>>

\* A closeSocket was in the queue too.  Whoever was before it (S) got a stream
\* that is closed at once; behind it openStream refuses, which a new stream
\* takes for an answer and a replacement does not.
AttachAndClose(i) ==
  /\ cur' = 0 /\ closer' = FALSE /\ shut' = TRUE
  /\ \E S \in SUBSET Waiting :
       /\ pc' = [u \in Users |-> IF u \in S THEN "open"
                                 ELSE IF pc[u] = "wait" THEN "over" ELSE pc[u]]
       /\ at' = [u \in Users |-> IF u \in S THEN i ELSE at[u]]

\* connect has succeeded, perhaps with a socket that is mute by now; failed
\* attempts before it change nothing.
Connected ==
  /\ reconn /\ last < MaxSockets
  /\ reconn' = FALSE
  /\ last' = last + 1
  /\ \E c \in {"up", "mute"} :
       /\ IF c = "mute" THEN Fault ELSE UNCHANGED faults
       /\ sock' = [sock EXCEPT ![last + 1] = IF closer THEN "closing" ELSE c]
  /\ IF closer THEN AttachAndClose(last + 1) ELSE Attach(last + 1)
  /\ UNCHANGED <<failed, timer, closed>>
-----------------------------------------------------------------------------
UserStep ==
  \/ CloseSocket
  \/ \E u \in Users : Open(u) \/ ExpectingData(u) \/ Close(u)

SocketStep ==
  \/ Stalls \/ SocketFails \/ SocketRefused \/ Connected
  \/ \E i \in Sockets : ClosingSocketEnds(i) \/ Pong(i)
  \/ \E u \in Users : DataArrives(u) \/ ReqDone(u) \/ StreamFails(u)

TimerStep == \E u \in Users : StreamExpires(u) \/ PingTimeout(u)

Next == UserStep \/ SocketStep \/ TimerStep

Spec == Init /\ [][Next]_vars

\* Timers fire, and the server can be reached again after every failure.
\* A pong may be lost, so it is owed only where nothing is at fault.
FairSpec ==
  /\ Spec
  /\ WF_vars(Connected)
  /\ \A u \in Streams :
       /\ WF_vars(StreamExpires(u))
       /\ WF_vars(pc[u] = "ping" /\ (PingTimeout(u) \/ Pong(at[u])))
-----------------------------------------------------------------------------
\* One connection at a time: every socket that may still work is the current
\* one, so replaceFailedSocket never leaves one behind, and the connect loop
\* runs only without a current socket.
OneConnection ==
  /\ \A i \in Sockets : sock[i] \in {"up", "mute"} => i = cur
  /\ reconn => cur = 0

\* Nobody waits in socketQueue for a socket that nobody is connecting: there is
\* a connect loop, or the owner closed the connection.
NoOrphans == \A u \in Waiting : cur = 0 /\ (reconn \/ shut)

\* Every stream in a user's hands is on the current socket or on one whose
\* close is under way, never on a socket that is over without its knowing; and
\* only such a stream has a failure timer.
AttachedToLive ==
  /\ \A u \in Users : pc[u] = "open" =>
       at[u] \in Sockets /\ (at[u] = cur \/ sock[at[u]] = "closing")
  /\ \A u \in timer : pc[u] = "open"

\* The inductive invariant behind these three.
SocketInv ==
  /\ cur \in {0, last}
  /\ cur # 0 => sock[cur] \in {"up", "mute"} /\ ~failed /\ ~shut
  /\ cur = 0 => reconn \/ failed \/ shut
  /\ reconn => ~failed /\ ~shut
  /\ closer => reconn
  /\ \A i \in Sockets : i > last => sock[i] = "none"
  /\ \A i \in Sockets : sock[i] = "closing" => shut
UserInv ==
  /\ \A u \in Users : pc[u] = "ping" => u \in Streams /\ at[u] \in Sockets
  /\ \A u \in Users : pc[u] = "queue" => u \in Streams
ResilientInv ==
  TypeOK /\ OneConnection /\ NoOrphans /\ AttachedToLive /\ SocketInv /\ UserInv

\* A resilient stream that lost its Stream gets a new one, unless the connection
\* was closed or refused for good: pings time out, the connect loop ends, and
\* no verdict of an old health check can hold it back for ever.
StreamsReturn ==
  \A u \in Streams :
    pc[u] \in {"ping", "queue"} ~> pc[u] = "open" \/ shut \/ failed

\* A socket that fell silent is found out if one of its streams expects data
\* and is not closed, and everyone who was on it, requests too, is moved or
\* settled.
SilenceIsNoticed ==
  \A s \in Streams, u \in Users, i \in Sockets :
    (sock[i] = "mute" /\ pc[u] = "open" /\ at[u] = i /\ s \in timer /\ at[s] = i)
      ~> s \in closed \/ ~(sock[i] = "mute" /\ pc[u] = "open" /\ at[u] = i)
=============================================================================
