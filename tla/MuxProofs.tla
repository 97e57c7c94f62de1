----------------------------- MODULE MuxProofs -----------------------------
(***************************************************************************)
(* Theorems about Mux for every bound.                                     *)
(***************************************************************************)
EXTENDS Mux, FiniteSetTheorems, TLAPS

LEMMA Bounds == MaxId \in Nat \ {0} /\ HearsWhileClosing \in BOOLEAN
BY MuxBounds DEF MuxBounds

LEMMA IdsFinite ==
  ASSUME NEW S \in SUBSET Ids
  PROVE  IsFiniteSet(S) /\ Cardinality(S) \in Nat
<1>1. IsFiniteSet(Ids)
  BY FS_Interval, Bounds DEF Ids
<1>2. IsFiniteSet(S)
  BY <1>1, FS_Subset
<1> QED
  BY <1>2, FS_CardinalityType

\* What the close frames of a set of streams look like on the wire.
LEMMA CloseMsgsShape ==
  ASSUME NEW S \in SUBSET Ids, NEW o \in Orders(S)
  PROVE  /\ CloseMsgs(o) \in Seq(Frame)
         /\ \A i \in DOMAIN CloseMsgs(o) :
              CloseMsgs(o)[i].type = "close" /\ CloseMsgs(o)[i].stream \in S
         /\ \A i, j \in DOMAIN CloseMsgs(o) :
              i # j => CloseMsgs(o)[i].stream # CloseMsgs(o)[j].stream
<1> DEFINE n == Cardinality(S)
<1>1. n \in Nat
  BY IdsFinite
<1>2. o \in [1..n -> S] /\ \A i, j \in 1..n : i # j => o[i] # o[j]
  BY DEF Orders
<1> HIDE DEF n
<1>3. CloseMsgs(o) = [i \in 1..n |-> [type |-> "close", stream |-> o[i], n |-> 0]]
  BY <1>2 DEF CloseMsgs, StreamCloseMsg, F
<1>4. \A i \in 1..n : [type |-> "close", stream |-> o[i], n |-> 0] \in Frame
  <2> SUFFICES ASSUME NEW i \in 1..n
               PROVE  [type |-> "close", stream |-> o[i], n |-> 0] \in Frame
    OBVIOUS
  <2>1. o[i] \in Ids
    BY <1>2
  <2>2. o[i] \in 0..MaxId
    BY <2>1, Bounds DEF Ids
  <2> QED
    BY <2>2 DEF Frame, FrameTypes
<1>5. CloseMsgs(o) \in Seq(Frame)
  BY <1>1, <1>3, <1>4
<1> QED
  BY <1>2, <1>3, <1>5

\* Sending keeps a queue of frames a queue of frames.
LEMMA SendType ==
  ASSUME WireTypeOK, NEW q \in Seq(Frame)
  PROVE  ToServer(q) \in Seq(Frame) /\ ToClient(q) \in Seq(Frame)
BY DEF WireTypeOK, ToServer, ToClient

LEMMA FrameType ==
  /\ AuthMsg \in Frame /\ WsClose \in Frame /\ WsAbort \in Frame
  /\ \A k \in Nat : GoawayMsg(k) \in Frame
  /\ \A s \in Ids, k \in Nat :
       StreamDataMsg(s, k) \in Frame /\ StreamCloseMsg(s) \in Frame /\ StreamResetMsg(s) \in Frame
BY Bounds DEF AuthMsg, WsClose, WsAbort, GoawayMsg, StreamDataMsg, StreamCloseMsg,
                 StreamResetMsg, F, Frame, FrameTypes, Ids

LEMMA HeadType ==
  ASSUME NEW q \in Seq(Frame), q # <<>>
  PROVE  Head(q) \in Frame /\ Tail(q) \in Seq(Frame)
OBVIOUS

\* The farewell of an end that closes: close frames, then WebSocket's own.
LEMMA FarewellType ==
  ASSUME NEW S \in SUBSET Ids, NEW o \in Orders(S)
  PROVE  Append(CloseMsgs(o), WsClose) \in Seq(Frame)
<1>1. CloseMsgs(o) \in Seq(Frame)
  BY CloseMsgsShape
<1> QED
  BY <1>1, FrameType

LEMMA GoodbyeType ==
  ASSUME NEW k \in Nat
  PROVE  <<GoawayMsg(k), WsAbort>> \in Seq(Frame)
BY FrameType

LEMMA TakeStream ==
  ASSUME NEW f \in Frame
  PROVE  f.stream \in 0..MaxId /\ f.n \in Nat /\ (f.stream > 0 => f.stream \in Ids)
BY Bounds DEF Frame, Ids
-----------------------------------------------------------------------------
(* Type correctness *)

LEMMA InitType == Init => TypeOK
<1> SUFFICES ASSUME Init PROVE TypeOK
  OBVIOUS
<1>1. WireTypeOK
  BY DEF Init, WireInit, WireTypeOK
<1>2. ClientTypeOK
  <2>1. /\ cstream \in [Ids -> StreamStates \cup {NoStream}]
        /\ csent \in [Ids -> Nat]
        /\ cgot \in [Ids -> Seq(Nat)]
    BY DEF Init, ClientInit
  <2>2. ctold \in [Ids -> SUBSET {"close", "error"}]
    BY DEF Init, ClientInit
  <2>3. cnext \in Nat \ {0} /\ cwater \in 0..MaxId
    BY Bounds DEF Init, ClientInit
  <2> QED
    BY <2>1, <2>2, <2>3 DEF Init, ClientInit, ClientTypeOK, ClientStates
<1>3. ServerTypeOK
  BY Bounds DEF Init, ServerInit, ServerTypeOK, ServerStates, StreamStates, NoStream
<1> QED
  BY <1>1, <1>2, <1>3 DEF TypeOK

LEMMA CliHelpersType ==
  ASSUME ClientTypeOK, NEW S \in SUBSET Ids
  PROVE  /\ CliCloseAll(S) \in [Ids -> StreamStates \cup {NoStream}]
         /\ CliPeerClosedAll(S) \in [Ids -> StreamStates \cup {NoStream}]
         /\ CliErrorAll(S) \in [Ids -> StreamStates \cup {NoStream}]
         /\ CliToldClose(S) \in [Ids -> SUBSET {"close", "error"}]
         /\ CliToldError(S) \in [Ids -> SUBSET {"close", "error"}]
BY DEF ClientTypeOK, CliCloseAll, CliPeerClosedAll, CliErrorAll, CliToldClose,
       CliToldError, CliTold, StreamStates, NoStream

LEMMA CliUserType == TypeOK /\ CliUser => WireTypeOK' /\ ClientTypeOK'
<1> SUFFICES ASSUME WireTypeOK, ClientTypeOK, CliUser
             PROVE  WireTypeOK' /\ ClientTypeOK'
  BY DEF TypeOK
<1> USE DEF ClientTypeOK, wireVars
<1>0. ASSUME NEW q \in Seq(Frame), CliHangUp(q)
      PROVE  WireTypeOK'
  <2>1. ToServer(q) \in Seq(Frame)
    BY SendType
  <2> QED
    BY <1>0, <2>1 DEF CliHangUp, WireTypeOK
<1>1. CASE CliOpenStream
  <2>1. cnext \in Ids
    BY <1>1, Bounds DEF CliOpenStream, Ids
  <2>2. cstream' \in [Ids -> StreamStates \cup {NoStream}]
    BY <1>1 DEF CliOpenStream, StreamStates
  <2>3. cnext' \in Nat \ {0}
    BY <1>1 DEF CliOpenStream
  <2> QED
    BY <1>1, <2>1, <2>2, <2>3 DEF CliOpenStream, WireTypeOK, ClientStates
<1>3. CASE CliCloseSocket
  <2> DEFINE closing == {s \in cactive : cstream[s] \in {"OPEN", "CLOSEWAIT"}}
  <2>1. PICK q \in Orders(closing) : CliHangUp(Append(CloseMsgs(q), WsClose))
    BY <1>3 DEF CliCloseSocket
  <2>2. closing \in SUBSET Ids
    OBVIOUS
  <2>3. Append(CloseMsgs(q), WsClose) \in Seq(Frame)
    BY <2>2, FarewellType
  <2>4. WireTypeOK'
    BY <1>0, <2>1, <2>3
  <2>5. cstream' \in [Ids -> StreamStates \cup {NoStream}]
    BY <1>3, CliHelpersType DEF CliCloseSocket
  <2> QED
    BY <1>3, <2>4, <2>5 DEF CliCloseSocket, ClientStates
<1>4. CASE CliErrorSocketQuiet
  BY <1>4 DEF CliErrorSocketQuiet, WireTypeOK, ClientStates
<1>5. CASE CliErrorSocket
  <2>1. WireTypeOK'
    <3>1. <<GoawayMsg(0), WsAbort>> \in Seq(Frame)
      BY GoodbyeType
    <3> QED
      BY <1>0, <1>5, <3>1 DEF CliErrorSocket
  <2>2. /\ cstream' \in [Ids -> StreamStates \cup {NoStream}]
        /\ ctold' \in [Ids -> SUBSET {"close", "error"}]
    BY <1>5, CliHelpersType DEF CliErrorSocket
  <2> QED
    BY <1>5, <2>1, <2>2 DEF CliErrorSocket, ClientStates
<1>6. ASSUME NEW s \in Ids, CliStreamClose(s)
      PROVE  WireTypeOK' /\ ClientTypeOK'
  <2>1. ToServer(<<StreamCloseMsg(s)>>) \in Seq(Frame)
    <3>1. <<StreamCloseMsg(s)>> \in Seq(Frame)
      BY FrameType
    <3> QED
      BY <3>1, SendType
  <2>2. cstream' \in [Ids -> StreamStates \cup {NoStream}]
    BY <1>6, CliHelpersType DEF CliStreamClose
  <2> QED
    BY <1>6, <2>1, <2>2 DEF CliStreamClose, WireTypeOK
<1>7. ASSUME NEW s \in Ids, CliStreamError(s)
      PROVE  WireTypeOK' /\ ClientTypeOK'
  <2>1. ToServer(<<StreamResetMsg(s)>>) \in Seq(Frame)
    <3>1. <<StreamResetMsg(s)>> \in Seq(Frame)
      BY FrameType
    <3> QED
      BY <3>1, SendType
  <2>2. cstream' \in [Ids -> StreamStates \cup {NoStream}]
    BY <1>7 DEF CliStreamError, StreamStates
  <2> QED
    BY <1>7, <2>1, <2>2 DEF CliStreamError, WireTypeOK
<1>8. ASSUME NEW s \in Ids, CliStreamSend(s)
      PROVE  WireTypeOK' /\ ClientTypeOK'
  <2>1. ToServer(<<StreamDataMsg(s, csent[s] + 1)>>) \in Seq(Frame)
    <3>1. <<StreamDataMsg(s, csent[s] + 1)>> \in Seq(Frame)
      BY FrameType
    <3> QED
      BY <3>1, SendType
  <2>2. csent' \in [Ids -> Nat]
    BY <1>8 DEF CliStreamSend
  <2> QED
    BY <1>8, <2>1, <2>2 DEF CliStreamSend, WireTypeOK
<1> QED
  BY <1>1, <1>3, <1>4, <1>5, <1>6, <1>7, <1>8 DEF CliUser

LEMMA CliSocketEventType ==
  ASSUME ClientTypeOK, CliOnSocketClose \/ CliOnSocketError
  PROVE  ClientTypeOK'
<1>1. /\ CliPeerClosedAll(cactive) \in [Ids -> StreamStates \cup {NoStream}]
      /\ CliErrorAll(cactive) \in [Ids -> StreamStates \cup {NoStream}]
      /\ CliToldClose(cactive) \in [Ids -> SUBSET {"close", "error"}]
      /\ CliToldError(cactive) \in [Ids -> SUBSET {"close", "error"}]
  BY CliHelpersType DEF ClientTypeOK
<1>2. CASE CliOnSocketClose
  BY <1>1, <1>2 DEF CliOnSocketClose, ClientTypeOK, ClientStates
<1>3. CASE CliOnSocketError
  BY <1>1, <1>3 DEF CliOnSocketError, ClientTypeOK, ClientStates
<1> QED
  BY <1>2, <1>3

LEMMA CliTakesType ==
  ASSUME WireTypeOK, NEW t, CliTakes(t)
  PROVE  /\ WireTypeOK'
         /\ Head(s2c) \in Frame /\ Head(s2c).type = t
         /\ s2c # <<>> /\ s2c' = Tail(s2c) /\ c2s' = c2s
BY HeadType DEF CliTakes, WireTypeOK

LEMMA CliSystemType == TypeOK /\ CliSystem => WireTypeOK' /\ ClientTypeOK'
<1> SUFFICES ASSUME WireTypeOK, ClientTypeOK, CliSystem
             PROVE  WireTypeOK' /\ ClientTypeOK'
  BY DEF TypeOK
<1>1. CASE AuthTimer
  <2>1. csigning' \in {"first", "again", "no"}
    <3>1. CASE cstate \in {"IDLE", "AUTH_SENT"}
      BY <1>1, <3>1 DEF AuthTimer
    <3>2. CASE cstate \notin {"IDLE", "AUTH_SENT"}
      BY <1>1, <3>2 DEF AuthTimer
    <3> QED
      BY <3>1, <3>2
  <2> QED
    BY <1>1, <2>1 DEF AuthTimer, ClientTypeOK, WireTypeOK, wireVars
<1>2. CASE AuthSigned
  <2>1. <<AuthMsg>> \in Seq(Frame)
    BY FrameType
  <2>2. ToServer(<<AuthMsg>>) \in Seq(Frame)
    BY <2>1, SendType
  <2> QED
    BY <1>2, <2>2 DEF AuthSigned, ClientTypeOK, WireTypeOK, ClientStates
<1>3. CASE CliWsClosed
  <2>1. <<WsClose>> \in Seq(Frame)
    BY FrameType
  <2>2. ToServer(<<WsClose>>) \in Seq(Frame)
    BY <2>1, SendType
  <2>3. WireTypeOK'
    BY <1>3, <2>2 DEF CliWsClosed, WireTypeOK
  <2> QED
    BY <1>3, <2>3, CliSocketEventType DEF CliWsClosed
<1>4. CASE CliLinkDown
  BY <1>4, CliSocketEventType DEF CliLinkDown, WireTypeOK
<1>5. CASE CliIgnores
  <2>1. Tail(s2c) \in Seq(Frame)
    BY <1>5, HeadType DEF CliIgnores, WireTypeOK
  <2> QED
    BY <1>5, <2>1 DEF CliIgnores, WireTypeOK, ClientTypeOK, clientVars
<1>6. CASE CliRecvGoaway
  BY <1>6, CliTakesType, CliSocketEventType DEF CliRecvGoaway
<1>7. CASE CliRecvData
  <2>1. WireTypeOK' /\ Head(s2c) \in Frame
    BY <1>7, CliTakesType DEF CliRecvData
  <2> DEFINE s == Head(s2c).stream
             new == s \notin cactive /\ cstate # "CLOSING" /\ s % 2 = 0 /\ s > cwater
             state == IF new THEN "OPEN" ELSE cstream[s]
  <2>2. s \in 0..MaxId /\ Head(s2c).n \in Nat /\ (s > 0 => s \in Ids)
    BY <2>1, TakeStream
  <2>3. new => s \in Ids
    BY <2>2 DEF ClientTypeOK
  <2>4. /\ IF new
           THEN /\ cwater' = s
                /\ cactive' = cactive \cup {s}
                /\ cstream' = [cstream EXCEPT ![s] = "OPEN"]
           ELSE UNCHANGED <<cwater, cactive, cstream>>
        /\ cgot' = IF s \in cactive' /\ CliHandsOver(state)
                   THEN [cgot EXCEPT ![s] = Append(@, Head(s2c).n)] ELSE cgot
        /\ UNCHANGED <<cstate, cnext, csigning, ctimer, csent, ctold, creturn>>
    BY <1>7 DEF CliRecvData
  <2> HIDE DEF s, new, state
  <2>5. /\ cwater' \in 0..MaxId /\ cactive' \in SUBSET Ids
        /\ cstream' \in [Ids -> StreamStates \cup {NoStream}]
    <3>1. CASE new
      <4>1. s \in Ids /\ s \in 0..MaxId
        BY <2>2, <2>3, <3>1
      <4>2. cwater' \in 0..MaxId
        BY <2>4, <3>1, <4>1
      <4>3. cactive' \in SUBSET Ids
        <5>1. cactive' = cactive \cup {s}
          BY <2>4, <3>1
        <5> QED
          BY <4>1, <5>1 DEF ClientTypeOK
      <4>4. cstream' \in [Ids -> StreamStates \cup {NoStream}]
        BY <2>4, <3>1, <4>1 DEF ClientTypeOK, StreamStates
      <4> QED
        BY <4>2, <4>3, <4>4
    <3>2. CASE ~new
      BY <2>4, <3>2 DEF ClientTypeOK
    <3> QED
      BY <3>1, <3>2
  <2>6. cgot' \in [Ids -> Seq(Nat)]
    <3>1. CASE s \in cactive'
      <4>1. Append(cgot[s], Head(s2c).n) \in Seq(Nat)
        BY <2>2, <2>5, <3>1 DEF ClientTypeOK
      <4> QED
        BY <2>4, <4>1 DEF ClientTypeOK
    <3>2. CASE s \notin cactive'
      BY <2>4, <3>2 DEF ClientTypeOK
    <3> QED
      BY <3>1, <3>2
  <2> QED
    BY <2>1, <2>4, <2>5, <2>6 DEF ClientTypeOK
<1>8. CASE CliRecvClose
  <2>1. WireTypeOK'
    BY <1>8, CliTakesType DEF CliRecvClose
  <2> DEFINE mine == {Head(s2c).stream} \cap cactive
  <2>2. mine \in SUBSET Ids
    BY DEF ClientTypeOK
  <2>3. /\ CliPeerClosedAll(mine) \in [Ids -> StreamStates \cup {NoStream}]
        /\ CliToldClose(mine) \in [Ids -> SUBSET {"close", "error"}]
    BY <2>2, CliHelpersType
  <2> QED
    BY <1>8, <2>1, <2>3 DEF CliRecvClose, ClientTypeOK
<1>9. CASE CliRecvReset
  <2>1. WireTypeOK'
    BY <1>9, CliTakesType DEF CliRecvReset
  <2> DEFINE mine == {Head(s2c).stream} \cap cactive
  <2>2. mine \in SUBSET Ids
    BY DEF ClientTypeOK
  <2>3. /\ CliErrorAll(mine) \in [Ids -> StreamStates \cup {NoStream}]
        /\ CliToldError(mine) \in [Ids -> SUBSET {"close", "error"}]
    BY <2>2, CliHelpersType
  <2> QED
    BY <1>9, <2>1, <2>3 DEF CliRecvReset, ClientTypeOK
<1>10. CASE CliReturns
  BY <1>10 DEF CliReturns, CliAtRest, ClientTypeOK, ClientStates, WireTypeOK, wireVars
<1> QED
  BY <1>1, <1>2, <1>3, <1>4, <1>5, <1>6, <1>7, <1>8, <1>9, <1>10 DEF CliSystem

LEMMA SrvHelpersType ==
  ASSUME ServerTypeOK, NEW S \in SUBSET Ids
  PROVE  /\ SrvCloseAll(S) \in [Ids -> StreamStates \cup {NoStream}]
         /\ SrvPeerClosedAll(S) \in [Ids -> StreamStates \cup {NoStream}]
         /\ SrvEndAll(S) \in [Ids -> StreamStates \cup {NoStream}]
BY DEF ServerTypeOK, SrvCloseAll, SrvPeerClosedAll, SrvEndAll, StreamStates, NoStream

LEMMA SrvUnclosedIds ==
  ASSUME ServerTypeOK
  PROVE  SrvUnclosed \in SUBSET Ids
BY DEF ServerTypeOK, SrvUnclosed

LEMMA SrvHangUpType ==
  ASSUME WireTypeOK, NEW q \in Seq(Frame), SrvHangUp(q)
  PROVE  WireTypeOK'
<1>1. ToClient(q) \in Seq(Frame)
  BY SendType
<1> QED
  BY <1>1 DEF SrvHangUp, WireTypeOK

LEMMA SrvErrorSocketType ==
  ASSUME WireTypeOK, ServerTypeOK, NEW k \in Nat, SrvErrorSocket(k)
  PROVE  WireTypeOK' /\ ServerTypeOK'
<1>1. SrvEndAll(sactive) \in [Ids -> StreamStates \cup {NoStream}]
  BY SrvHelpersType DEF ServerTypeOK
<1>2. ServerTypeOK'
  BY <1>1 DEF SrvErrorSocket, ServerTypeOK, ServerStates
<1>3. CASE sstate \in {"IDLE", "AUTH"}
  <2>1. SrvHangUp(<<GoawayMsg(k), WsAbort>>)
    BY <1>3 DEF SrvErrorSocket
  <2>2. WireTypeOK'
    BY <2>1, GoodbyeType, SrvHangUpType
  <2> QED
    BY <1>2, <2>2
<1>4. CASE sstate \notin {"IDLE", "AUTH"}
  BY <1>2, <1>4 DEF SrvErrorSocket, WireTypeOK
<1> QED
  BY <1>3, <1>4

LEMMA SrvUserType == TypeOK /\ SrvUser => WireTypeOK' /\ ServerTypeOK'
<1> SUFFICES ASSUME WireTypeOK, ServerTypeOK, SrvUser
             PROVE  WireTypeOK' /\ ServerTypeOK'
  BY DEF TypeOK
<1>1. CASE SrvOpenStream
  <2>1. snext \in Ids
    BY <1>1, Bounds DEF SrvOpenStream, ServerTypeOK, Ids
  <2>2. sstream' \in [Ids -> StreamStates \cup {NoStream}]
    BY <1>1 DEF SrvOpenStream, ServerTypeOK, StreamStates
  <2>3. snext' \in Nat \ {0}
    BY <1>1 DEF SrvOpenStream, ServerTypeOK
  <2> QED
    BY <1>1, <2>1, <2>2, <2>3 DEF SrvOpenStream, ServerTypeOK, WireTypeOK, wireVars
<1>2. CASE SrvCloseSocketIdle
  <2>1. <<WsClose>> \in Seq(Frame)
    BY FrameType
  <2>2. WireTypeOK'
    BY <1>2, <2>1, SrvHangUpType DEF SrvCloseSocketIdle
  <2> QED
    BY <1>2, <2>2 DEF SrvCloseSocketIdle, ServerTypeOK, ServerStates
<1>3. CASE SrvCloseSocket
  <2>1. PICK o \in Orders(SrvUnclosed) : SrvHangUp(Append(CloseMsgs(o), WsClose))
    BY <1>3 DEF SrvCloseSocket
  <2>2. WireTypeOK'
    BY <2>1, SrvUnclosedIds, FarewellType, SrvHangUpType
  <2>3. sstream' \in [Ids -> StreamStates \cup {NoStream}]
    BY <1>3, SrvHelpersType DEF SrvCloseSocket, ServerTypeOK
  <2> QED
    BY <1>3, <2>2, <2>3 DEF SrvCloseSocket, ServerTypeOK, ServerStates
<1>4. CASE SrvNoDatabase
  BY <1>4, SrvErrorSocketType DEF SrvNoDatabase
<1>5. ASSUME NEW s \in Ids, SrvStreamClose(s)
      PROVE  WireTypeOK' /\ ServerTypeOK'
  <2>1. <<StreamCloseMsg(s)>> \in Seq(Frame)
    BY FrameType
  <2>2. ToClient(<<StreamCloseMsg(s)>>) \in Seq(Frame)
    BY <2>1, SendType
  <2>3. sstream' \in [Ids -> StreamStates \cup {NoStream}]
    BY <1>5, SrvHelpersType DEF SrvStreamClose, SrvSendable
  <2> QED
    BY <1>5, <2>2, <2>3 DEF SrvStreamClose, SrvSendable, WireTypeOK, ServerTypeOK
<1>6. ASSUME NEW s \in Ids, SrvStreamError(s)
      PROVE  WireTypeOK' /\ ServerTypeOK'
  <2>1. <<StreamResetMsg(s)>> \in Seq(Frame)
    BY FrameType
  <2>2. ToClient(<<StreamResetMsg(s)>>) \in Seq(Frame)
    BY <2>1, SendType
  <2>3. sstream' \in [Ids -> StreamStates \cup {NoStream}]
    BY <1>6 DEF SrvStreamError, SrvSendable, ServerTypeOK, StreamStates
  <2> QED
    BY <1>6, <2>2, <2>3 DEF SrvStreamError, SrvSendable, WireTypeOK, ServerTypeOK
<1>7. ASSUME NEW s \in Ids, SrvStreamSend(s)
      PROVE  WireTypeOK' /\ ServerTypeOK'
  <2>1. ssent[s] + 1 \in Nat
    BY DEF ServerTypeOK
  <2>2. <<StreamDataMsg(s, ssent[s] + 1)>> \in Seq(Frame)
    BY <2>1, FrameType
  <2>3. ToClient(<<StreamDataMsg(s, ssent[s] + 1)>>) \in Seq(Frame)
    BY <2>2, SendType
  <2>4. ssent' \in [Ids -> Nat]
    BY <1>7 DEF SrvStreamSend, SrvSendable, ServerTypeOK
  <2> QED
    BY <1>7, <2>3, <2>4 DEF SrvStreamSend, SrvSendable, WireTypeOK, ServerTypeOK
<1> QED
  BY <1>1, <1>2, <1>3, <1>4, <1>5, <1>6, <1>7 DEF SrvUser

LEMMA SrvSocketEventType ==
  ASSUME ServerTypeOK, SrvOnSocketError \/ \E q : SrvOnSocketClose(q)
  PROVE  ServerTypeOK'
<1>1. SrvEndAll(sactive) \in [Ids -> StreamStates \cup {NoStream}]
  BY SrvHelpersType DEF ServerTypeOK
<1>2. CASE SrvOnSocketError
  BY <1>1, <1>2 DEF SrvOnSocketError, ServerTypeOK, ServerStates
<1>3. ASSUME NEW q, SrvOnSocketClose(q)
      PROVE  ServerTypeOK'
  BY <1>1, <1>3 DEF SrvOnSocketClose, ServerTypeOK, ServerStates
<1> QED
  BY <1>2, <1>3

LEMMA SrvTakesType ==
  ASSUME WireTypeOK, NEW types, SrvHead(types)
  PROVE  /\ Head(c2s) \in Frame /\ Head(c2s).type \in types /\ c2s # <<>>
         /\ SrvTakes => WireTypeOK' /\ c2s' = Tail(c2s) /\ s2c' = s2c
BY HeadType DEF SrvHead, SrvTakes, WireTypeOK

\* The farewell that answers a peer's Close frame.
LEMMA AnswerType ==
  ASSUME NEW S \in SUBSET Ids, NEW q \in Orders(S) \cup {<<>>}
  PROVE  Append(CloseMsgs(q), WsClose) \in Seq(Frame)
<1>1. CASE q \in Orders(S)
  BY <1>1, FarewellType
<1>2. CASE q = <<>>
  <2>1. CloseMsgs(<<>>) = <<>>
    BY DEF CloseMsgs
  <2>2. <<>> \in Seq(Frame) /\ WsClose \in Frame
    BY FrameType
  <2>3. Append(<<>>, WsClose) \in Seq(Frame)
    BY <2>2
  <2> QED
    BY <1>2, <2>1, <2>3
<1> QED
  BY <1>1, <1>2

LEMMA SrvSystemType == TypeOK /\ SrvSystem => WireTypeOK' /\ ServerTypeOK'
<1> SUFFICES ASSUME WireTypeOK, ServerTypeOK, SrvSystem
             PROVE  WireTypeOK' /\ ServerTypeOK'
  BY DEF TypeOK
<1>1. CASE SessionExpires
  BY <1>1 DEF SessionExpires, ServerTypeOK, WireTypeOK, wireVars
<1>2. CASE SessionTimeout
  BY <1>2, SrvErrorSocketType DEF SessionTimeout
<1>3. CASE SrvWsClosed
  <2>1. CASE Head(c2s) = WsAbort /\ SrvOnSocketError /\ SrvHangUp(<<WsAbort>>)
    <3>1. <<WsAbort>> \in Seq(Frame)
      BY FrameType
    <3> QED
      BY <2>1, <3>1, SrvHangUpType, SrvSocketEventType
  <2>2. ASSUME NEW q \in Orders(SrvUnclosed) \cup {<<>>},
               SrvOnSocketClose(q), SrvHangUp(Append(CloseMsgs(q), WsClose))
        PROVE  WireTypeOK' /\ ServerTypeOK'
    <3>1. Append(CloseMsgs(q), WsClose) \in Seq(Frame)
      BY SrvUnclosedIds, AnswerType
    <3> QED
      BY <2>2, <3>1, SrvHangUpType, SrvSocketEventType
  <2> QED
    BY <1>3, <2>1, <2>2 DEF SrvWsClosed
<1>4. CASE SrvLinkDown
  <2>1. <<>> \in Seq(Frame)
    OBVIOUS
  <2> QED
    BY <1>4, <2>1, SrvHangUpType, SrvSocketEventType DEF SrvLinkDown
<1>5. CASE SrvChannelClosed
  BY <1>5, SrvSocketEventType DEF SrvChannelClosed, WireTypeOK, wireVars
<1>6. CASE SrvIgnores
  BY <1>6, SrvTakesType DEF SrvIgnores, ServerTypeOK, serverVars
<1>7. CASE SrvRecvAuth
  <2>1. CASE SrvErrorSocket(1002)
    BY <2>1, SrvErrorSocketType
  <2>2. CASE ~SrvErrorSocket(1002)
    <3>1. WireTypeOK'
      BY <1>7, <2>2, SrvTakesType DEF SrvRecvAuth
    <3> QED
      BY <1>7, <2>2, <3>1 DEF SrvRecvAuth, ServerTypeOK, ServerStates
  <2> QED
    BY <2>1, <2>2
<1>8. CASE SrvRecvFatal
  BY <1>8, SrvTakesType, SrvSocketEventType DEF SrvRecvFatal
<1>9. CASE SrvRecvData
  <2>1. WireTypeOK' /\ Head(c2s) \in Frame
    BY <1>9, SrvTakesType DEF SrvRecvData
  <2> DEFINE s == Head(c2s).stream
             new == s \notin sactive /\ s % 2 = 1 /\ s > swater
             state == IF new THEN "OPEN" ELSE sstream[s]
  <2>2. s \in 0..MaxId /\ Head(c2s).n \in Nat /\ (s > 0 => s \in Ids)
    BY <2>1, TakeStream
  <2>3. new => s \in Ids
    BY <2>2 DEF ServerTypeOK
  <2>4. /\ IF new
           THEN /\ swater' = s
                /\ sactive' = sactive \cup {s}
                /\ sstream' = [sstream EXCEPT ![s] = "OPEN"]
           ELSE UNCHANGED <<swater, sactive, sstream>>
        /\ sgot' = IF s \in sactive' /\ SrvHandsOver(state)
                   THEN [sgot EXCEPT ![s] = Append(@, Head(c2s).n)] ELSE sgot
        /\ UNCHANGED <<sstate, snext, stimer, ssent>>
    BY <1>9 DEF SrvRecvData
  <2> HIDE DEF s, new, state
  <2>5. /\ swater' \in 0..MaxId /\ sactive' \in SUBSET Ids
        /\ sstream' \in [Ids -> StreamStates \cup {NoStream}]
    <3>1. CASE new
      <4>1. s \in Ids /\ s \in 0..MaxId
        BY <2>2, <2>3, <3>1
      <4>2. sactive' = sactive \cup {s} /\ swater' = s
        BY <2>4, <3>1
      <4>3. sactive' \in SUBSET Ids
        BY <4>1, <4>2 DEF ServerTypeOK
      <4>4. sstream' \in [Ids -> StreamStates \cup {NoStream}]
        BY <2>4, <3>1, <4>1 DEF ServerTypeOK, StreamStates
      <4> QED
        BY <4>1, <4>2, <4>3, <4>4
    <3>2. CASE ~new
      BY <2>4, <3>2 DEF ServerTypeOK
    <3> QED
      BY <3>1, <3>2
  <2>6. sgot' \in [Ids -> Seq(Nat)]
    <3>1. CASE s \in sactive'
      <4>1. Append(sgot[s], Head(c2s).n) \in Seq(Nat)
        BY <2>2, <2>5, <3>1 DEF ServerTypeOK
      <4> QED
        BY <2>4, <4>1 DEF ServerTypeOK
    <3>2. CASE s \notin sactive'
      BY <2>4, <3>2 DEF ServerTypeOK
    <3> QED
      BY <3>1, <3>2
  <2> QED
    BY <2>1, <2>4, <2>5, <2>6 DEF ServerTypeOK
<1>10. CASE SrvRecvClose
  <2>1. WireTypeOK'
    BY <1>10, SrvTakesType DEF SrvRecvClose
  <2> DEFINE mine == {Head(c2s).stream} \cap sactive
  <2>2. mine \in SUBSET Ids
    BY DEF ServerTypeOK
  <2>3. SrvPeerClosedAll(mine) \in [Ids -> StreamStates \cup {NoStream}]
    BY <2>2, SrvHelpersType
  <2> QED
    BY <1>10, <2>1, <2>3 DEF SrvRecvClose, ServerTypeOK
<1>11. CASE SrvRecvReset
  <2>1. WireTypeOK'
    BY <1>11, SrvTakesType DEF SrvRecvReset
  <2> DEFINE mine == {Head(c2s).stream} \cap sactive
  <2>2. mine \in SUBSET Ids
    BY DEF ServerTypeOK
  <2>3. SrvEndAll(mine) \in [Ids -> StreamStates \cup {NoStream}]
    BY <2>2, SrvHelpersType
  <2> QED
    BY <1>11, <2>1, <2>3 DEF SrvRecvReset, ServerTypeOK
<1>12. CASE SrvRecvExpired
  <2> DEFINE m == Head(c2s)
             new == m.type = "data" /\ m.stream % 2 = 1 /\ m.stream > swater
  <2>1. WireTypeOK'
    <3>1. <<GoawayMsg(1003), WsAbort>> \in Seq(Frame)
      BY GoodbyeType
    <3>2. SrvHangUp(<<GoawayMsg(1003), WsAbort>>)
      BY <1>12 DEF SrvRecvExpired
    <3> QED
      BY <3>1, <3>2, SrvHangUpType, ZenonT(60)
  <2>2. m \in Frame
    BY <1>12, SrvTakesType DEF SrvRecvExpired
  <2>3. m.stream \in 0..MaxId /\ m.n \in Nat /\ (m.stream > 0 => m.stream \in Ids)
    BY <2>2, TakeStream
  <2>4. new => m.stream \in Ids
    BY <2>3 DEF ServerTypeOK
  <2>5. SrvEndAll(sactive) \in [Ids -> StreamStates \cup {NoStream}]
    BY SrvHelpersType DEF ServerTypeOK
  <2>6. /\ sstate' = "CLOSED"
        /\ sactive' = IF new THEN {m.stream} ELSE {}
        /\ swater' = IF new THEN m.stream ELSE swater
        /\ sstream' = [s \in Ids |-> IF new /\ s = m.stream THEN "OPEN"
                                     ELSE SrvEndAll(sactive)[s]]
        /\ sgot' = IF new THEN [sgot EXCEPT ![m.stream] = Append(@, m.n)] ELSE sgot
        /\ stimer' \in {"off", "armed"}
        /\ UNCHANGED <<snext, ssent>>
    BY <1>12 DEF SrvRecvExpired
  <2> HIDE DEF m, new
  <2>7. sactive' \in SUBSET Ids /\ swater' \in 0..MaxId
    BY <2>3, <2>4, <2>6 DEF ServerTypeOK
  <2>8. sstream' \in [Ids -> StreamStates \cup {NoStream}]
    BY <2>5, <2>6 DEF StreamStates
  <2>9. sgot' \in [Ids -> Seq(Nat)]
    <3>1. CASE new
      <4>1. Append(sgot[m.stream], m.n) \in Seq(Nat)
        BY <2>3, <2>4, <3>1 DEF ServerTypeOK
      <4> QED
        BY <2>6, <3>1, <4>1 DEF ServerTypeOK
    <3>2. CASE ~new
      BY <2>6, <3>2 DEF ServerTypeOK
    <3> QED
      BY <3>1, <3>2
  <2> QED
    BY <2>1, <2>6, <2>7, <2>8, <2>9 DEF ServerTypeOK, ServerStates
<1> QED
  BY <1>1, <1>2, <1>3, <1>4, <1>5, <1>6, <1>7, <1>8, <1>9, <1>10, <1>11, <1>12
  DEF SrvSystem

LEMMA NextType == TypeOK /\ [Next]_vars => TypeOK'
<1> SUFFICES ASSUME TypeOK, [Next]_vars
             PROVE  TypeOK'
  OBVIOUS
<1>1. CASE ClientStep
  <2>1. WireTypeOK' /\ ClientTypeOK'
    BY <1>1, CliUserType, CliSystemType DEF ClientStep
  <2> QED
    BY <1>1, <2>1 DEF ClientStep, TypeOK, ServerTypeOK, serverVars
<1>2. CASE ServerStep
  <2>1. WireTypeOK' /\ ServerTypeOK'
    BY <1>2, SrvUserType, SrvSystemType DEF ServerStep
  <2> QED
    BY <1>2, <2>1 DEF ServerStep, TypeOK, ClientTypeOK, clientVars
<1>3. CASE LinkStep
  <2>1. WireTypeOK'
    <3>1. c2s' = <<>> /\ s2c' = <<>> /\ link' = FALSE /\ UNCHANGED <<cws, sws>>
      BY <1>3 DEF LinkStep, LinkLost
    <3>2. <<>> \in Seq(Frame)
      OBVIOUS
    <3> QED
      BY <3>1, <3>2 DEF TypeOK, WireTypeOK
  <2>2. ClientTypeOK' /\ ServerTypeOK'
    BY <1>3 DEF LinkStep, TypeOK, ClientTypeOK, ServerTypeOK, clientVars, serverVars
  <2> QED
    BY <2>1, <2>2 DEF TypeOK
<1>4. CASE UNCHANGED vars
  BY <1>4 DEF vars, wireVars, clientVars, serverVars, TypeOK, WireTypeOK, ClientTypeOK,
              ServerTypeOK
<1> QED
  BY <1>1, <1>2, <1>3, <1>4 DEF Next

\* The variables of both endpoints and of the wire keep their types; in
\* particular the server's CLOSE_WAIT never survives a handler, because the
\* onClose it is given answers with closeSocket.
THEOREM TypeCorrect == Spec => []TypeOK
BY InitType, NextType, PTL DEF Spec
-----------------------------------------------------------------------------
(* Queues of frames and the stream states of their sender *)

StreamMap == [Ids -> StreamStates \cup {NoStream}]
Advance(st, st2) == \A s \in Ids : Forward(st[s], st2[s])

\* Frames a sender may add: socket-level ones, and those of streams whose own
\* half is still open, where a close or reset ends that half.
Sendable(r, st, st2) ==
  /\ FinalIn(r)
  /\ \A i \in DOMAIN r :
       IF r[i].type \in StreamFrames
       THEN /\ r[i].stream \in Ids
            /\ st[r[i].stream] \in {"OPEN", "CLOSEWAIT"}
            /\ r[i].type # "data" => st2[r[i].stream] \in {"CLOSING", "CLOSED"}
       ELSE r[i].stream = 0

LEMMA ForwardFacts ==
  ASSUME NEW a \in StreamStates \cup {NoStream}, NEW b \in StreamStates \cup {NoStream}
  PROVE  /\ Forward(a, b) /\ a # NoStream => b # NoStream
         /\ Forward(a, b) /\ a \in {"CLOSING", "CLOSED"} => b \in {"CLOSING", "CLOSED"}
         /\ Forward(a, a) /\ Forward(a, "CLOSED") /\ Forward(NoStream, b)
         /\ Forward("OPEN", "CLOSING") /\ Forward("OPEN", "CLOSEWAIT")
BY DEF Forward, Rank, StreamStates, NoStream

LEMMA ConsistentEmpty ==
  ASSUME NEW st
  PROVE  Consistent(<<>>, st)
BY DEF Consistent, FinalIn

LEMMA ConsistentTail ==
  ASSUME NEW st, NEW q \in Seq(Frame), q # <<>>, Consistent(q, st)
  PROVE  Consistent(Tail(q), st)
<1>1. \A i \in DOMAIN Tail(q) : i + 1 \in DOMAIN q /\ Tail(q)[i] = q[i + 1] /\ i \in Nat
  OBVIOUS
<1> QED
  BY <1>1 DEF Consistent, FinalIn

LEMMA ConsistentHead ==
  ASSUME NEW st, NEW q \in Seq(Frame), q # <<>>, Consistent(q, st)
  PROVE  Head(q).type \in StreamFrames =>
           Head(q).stream \in Ids /\ st[Head(q).stream] # NoStream
<1>1. 1 \in DOMAIN q /\ Head(q) = q[1]
  OBVIOUS
<1> QED
  BY <1>1 DEF Consistent

LEMMA ConsistentMore ==
  ASSUME NEW q \in Seq(Frame), NEW r \in Seq(Frame),
         NEW st \in StreamMap, NEW st2 \in StreamMap,
         Consistent(q, st), Advance(st, st2), Sendable(r, st, st2)
  PROVE  Consistent(q \o r, st2)
<1> DEFINE c == q \o r
<1>1. \A i \in DOMAIN c :
        \/ i \in DOMAIN q /\ c[i] = q[i]
        \/ i - Len(q) \in DOMAIN r /\ c[i] = r[i - Len(q)] /\ i > Len(q)
  OBVIOUS
<1>2. \A i \in DOMAIN q : i \in Nat /\ i <= Len(q)
  OBVIOUS
<1>3. \A i \in DOMAIN r : i \in Nat
  OBVIOUS
<1>4. DOMAIN c \subseteq Nat /\ Len(q) \in Nat
  OBVIOUS
<1>5. \A i \in DOMAIN q :
        IF q[i].type \in StreamFrames
        THEN /\ q[i].stream \in Ids
             /\ st[q[i].stream] # NoStream /\ st2[q[i].stream] # NoStream
             /\ q[i].type # "data" => /\ st[q[i].stream] \in {"CLOSING", "CLOSED"}
                                      /\ st2[q[i].stream] \in {"CLOSING", "CLOSED"}
        ELSE q[i].stream = 0
  BY ForwardFacts DEF Consistent, Advance, StreamMap
<1>6. \A i \in DOMAIN r :
        IF r[i].type \in StreamFrames
        THEN /\ r[i].stream \in Ids
             /\ st[r[i].stream] \in {"OPEN", "CLOSEWAIT"} /\ st2[r[i].stream] # NoStream
             /\ r[i].type # "data" => st2[r[i].stream] \in {"CLOSING", "CLOSED"}
        ELSE r[i].stream = 0
  BY ForwardFacts DEF Sendable, Advance, StreamMap, NoStream
<1> HIDE DEF c
<1>7. \A i \in DOMAIN c :
        IF c[i].type \in StreamFrames
        THEN /\ c[i].stream \in Ids
             /\ st2[c[i].stream] # NoStream
             /\ c[i].type # "data" => st2[c[i].stream] \in {"CLOSING", "CLOSED"}
        ELSE c[i].stream = 0
  BY <1>1, <1>5, <1>6
<1>8. FinalIn(c)
  <2> SUFFICES ASSUME NEW i \in DOMAIN c, NEW j \in DOMAIN c, i < j,
                      c[i].type \in {"close", "reset"}
               PROVE  c[j].stream # c[i].stream
    BY DEF FinalIn
  <2>1. CASE i \in DOMAIN q /\ c[i] = q[i] /\ j \in DOMAIN q /\ c[j] = q[j]
    BY <2>1 DEF Consistent, FinalIn
  <2>2. CASE /\ i - Len(q) \in DOMAIN r /\ c[i] = r[i - Len(q)]
             /\ j - Len(q) \in DOMAIN r /\ c[j] = r[j - Len(q)]
    <3>1. i - Len(q) < j - Len(q)
      BY <1>4
    <3> QED
      BY <2>2, <3>1 DEF Sendable, FinalIn
  <2>3. CASE /\ i \in DOMAIN q /\ c[i] = q[i]
             /\ j - Len(q) \in DOMAIN r /\ c[j] = r[j - Len(q)]
    <3>1. c[i].stream \in Ids /\ st[c[i].stream] \in {"CLOSING", "CLOSED"}
      BY <1>5, <2>3 DEF StreamFrames
    <3>2. c[j].stream = 0 \/ st[c[j].stream] \in {"OPEN", "CLOSEWAIT"}
      BY <1>6, <2>3
    <3>3. c[i].stream # 0
      BY <3>1, Bounds DEF Ids
    <3> QED
      BY <3>1, <3>2, <3>3
  <2>4. CASE j \in DOMAIN q /\ i > Len(q)
    BY <1>2, <1>4, <2>4
  <2> QED
    BY <1>1, <2>1, <2>2, <2>3, <2>4
<1> QED
  BY <1>7, <1>8 DEF Consistent, c

\* No new frame, but the states move on.
LEMMA ConsistentStill ==
  ASSUME NEW q \in Seq(Frame), NEW st \in StreamMap, NEW st2 \in StreamMap,
         Consistent(q, st), Advance(st, st2)
  PROVE  Consistent(q, st2)
BY ForwardFacts DEF Consistent, Advance, StreamMap

LEMMA SendConsistent ==
  ASSUME WireTypeOK, NEW r \in Seq(Frame), NEW st \in StreamMap, NEW st2 \in StreamMap,
         Advance(st, st2), Sendable(r, st, st2)
  PROVE  /\ Consistent(c2s, st) => Consistent(ToServer(r), st2)
         /\ Consistent(s2c, st) => Consistent(ToClient(r), st2)
<1>1. c2s \in Seq(Frame) /\ s2c \in Seq(Frame)
  BY DEF WireTypeOK
<1>2. Consistent(c2s, st) => Consistent(c2s \o r, st2) /\ Consistent(c2s, st2)
  BY <1>1, ConsistentMore, ConsistentStill
<1>3. Consistent(s2c, st) => Consistent(s2c \o r, st2) /\ Consistent(s2c, st2)
  BY <1>1, ConsistentMore, ConsistentStill
<1> QED
  BY <1>2, <1>3 DEF ToServer, ToClient

\* Socket-level frames may always be sent.
LEMMA SocketFrames ==
  ASSUME NEW st, NEW st2
  PROVE  /\ Sendable(<<AuthMsg>>, st, st2) /\ Sendable(<<WsClose>>, st, st2)
         /\ Sendable(<<WsAbort>>, st, st2)
BY DEF Sendable, FinalIn, StreamFrames, AuthMsg, WsClose, WsAbort, F

LEMMA GoawayFrames ==
  ASSUME NEW st, NEW st2, NEW k \in Nat
  PROVE  Sendable(<<GoawayMsg(k), WsAbort>>, st, st2)
BY DEF Sendable, FinalIn, StreamFrames, WsAbort, GoawayMsg, F

LEMMA OneStreamFrame ==
  ASSUME NEW s \in Ids, NEW st \in StreamMap, NEW st2 \in StreamMap,
         st[s] \in {"OPEN", "CLOSEWAIT"}, NEW k \in Nat
  PROVE  /\ Sendable(<<StreamDataMsg(s, k)>>, st, st2)
         /\ st2[s] \in {"CLOSING", "CLOSED"} =>
              Sendable(<<StreamCloseMsg(s)>>, st, st2) /\ Sendable(<<StreamResetMsg(s)>>, st, st2)
BY DEF Sendable, FinalIn, StreamFrames, StreamDataMsg, StreamCloseMsg, StreamResetMsg, F

\* The close frames of a set of streams, and WebSocket's Close frame.
LEMMA FarewellFrames ==
  ASSUME NEW S \in SUBSET Ids, NEW o \in Orders(S),
         NEW st \in StreamMap, NEW st2 \in StreamMap,
         \A s \in S : st[s] \in {"OPEN", "CLOSEWAIT"} /\ st2[s] \in {"CLOSING", "CLOSED"}
  PROVE  Sendable(Append(CloseMsgs(o), WsClose), st, st2)
<1> DEFINE c == CloseMsgs(o)
           r == Append(c, WsClose)
<1>1. /\ c \in Seq(Frame)
      /\ \A i \in DOMAIN c : c[i].type = "close" /\ c[i].stream \in S
      /\ \A i, j \in DOMAIN c : i # j => c[i].stream # c[j].stream
  BY CloseMsgsShape
<1>2. WsClose.type = "wsclose" /\ WsClose.stream = 0 /\ WsClose \in Frame
  BY FrameType DEF WsClose, F
<1> HIDE DEF c
<1>3. \A i \in DOMAIN r : \/ i \in DOMAIN c /\ r[i] = c[i]
                          \/ i = Len(c) + 1 /\ r[i] = WsClose
  BY <1>1
<1>4. \A i \in DOMAIN c : i \in Nat /\ i < Len(c) + 1 /\ Len(c) \in Nat
  BY <1>1
<1>5. \A s \in S : s \in Ids /\ s # 0
  BY Bounds DEF Ids
<1> HIDE DEF r
<1>6. FinalIn(r)
  <2> SUFFICES ASSUME NEW i \in DOMAIN r, NEW j \in DOMAIN r, i < j,
                      r[i].type \in {"close", "reset"}
               PROVE  r[j].stream # r[i].stream
    BY DEF FinalIn
  <2>1. i \in DOMAIN c /\ r[i] = c[i]
    BY <1>2, <1>3
  <2>2. CASE j \in DOMAIN c /\ r[j] = c[j]
    BY <1>1, <1>4, <2>1, <2>2
  <2>3. CASE r[j] = WsClose
    BY <1>1, <1>2, <1>5, <2>1, <2>3
  <2> QED
    BY <1>3, <2>2, <2>3
<1>7. \A i \in DOMAIN r :
        IF r[i].type \in StreamFrames
        THEN /\ r[i].stream \in Ids
             /\ st[r[i].stream] \in {"OPEN", "CLOSEWAIT"}
             /\ r[i].type # "data" => st2[r[i].stream] \in {"CLOSING", "CLOSED"}
        ELSE r[i].stream = 0
  BY <1>1, <1>2, <1>3, <1>5 DEF StreamFrames
<1> QED
  BY <1>6, <1>7 DEF Sendable, r, c
-----------------------------------------------------------------------------
(* Steps of the client *)

LEMMA CliAdvance ==
  ASSUME ClientTypeOK, NEW S \in SUBSET Ids
  PROVE  /\ Advance(cstream, cstream)
         /\ Advance(cstream, CliCloseAll(S)) /\ Advance(cstream, CliPeerClosedAll(S))
         /\ Advance(cstream, CliErrorAll(S))
         /\ \A s \in S : cstream[s] \in {"OPEN", "CLOSEWAIT"} =>
              CliCloseAll(S)[s] \in {"CLOSING", "CLOSED"}
         /\ \A s \in Ids :
              /\ cstream[s] = NoStream => CliCloseAll(S)[s] = NoStream
              /\ cstream[s] = NoStream => CliPeerClosedAll(S)[s] = NoStream
              /\ cstream[s] = NoStream /\ s \notin S => CliErrorAll(S)[s] = NoStream
<1>1. \A s \in Ids : cstream[s] \in StreamStates \cup {NoStream}
  BY DEF ClientTypeOK
<1>2. /\ \A a \in StreamStates \cup {NoStream} : Forward(a, a) /\ Forward(a, "CLOSED")
      /\ Forward("OPEN", "CLOSING") /\ Forward("OPEN", "CLOSEWAIT")
  BY ForwardFacts
<1>3. Advance(cstream, cstream)
  BY <1>1, <1>2 DEF Advance
<1>4. Advance(cstream, CliCloseAll(S))
  BY <1>1, <1>2 DEF Advance, CliCloseAll
<1>5. Advance(cstream, CliPeerClosedAll(S))
  BY <1>1, <1>2 DEF Advance, CliPeerClosedAll
<1>6. Advance(cstream, CliErrorAll(S))
  BY <1>1, <1>2 DEF Advance, CliErrorAll
<1>7. \A s \in S : cstream[s] \in {"OPEN", "CLOSEWAIT"} =>
        CliCloseAll(S)[s] \in {"CLOSING", "CLOSED"}
  BY DEF CliCloseAll
<1>8. \A s \in Ids :
        /\ cstream[s] = NoStream => CliCloseAll(S)[s] = NoStream
        /\ cstream[s] = NoStream => CliPeerClosedAll(S)[s] = NoStream
        /\ cstream[s] = NoStream /\ s \notin S => CliErrorAll(S)[s] = NoStream
  BY DEF CliCloseAll, CliPeerClosedAll, CliErrorAll, NoStream
<1> QED
  BY <1>3, <1>4, <1>5, <1>6, <1>7, <1>8

CliLedger == Consistent(c2s, cstream) /\ CliCounters

\* A step that makes no stream keeps the counters right.
LEMMA CliCountersKept ==
  ASSUME ClientTypeOK, ClientTypeOK', CliCounters,
         UNCHANGED <<cnext, cwater>>, cactive' \subseteq cactive,
         Advance(cstream, cstream'),
         \A s \in Ids : cstream[s] = NoStream => cstream'[s] = NoStream
  PROVE  CliCounters'
<1>1. \A s \in Ids : cstream[s] # NoStream => cstream'[s] # NoStream
  BY ForwardFacts DEF Advance, ClientTypeOK
<1> QED
  BY <1>1 DEF CliCounters, ClientTypeOK

LEMMA CliUserLedger ==
  ASSUME TypeOK, TypeOK', CliLedger, CliUser
  PROVE  /\ CliLedger' /\ Advance(cstream, cstream')
         /\ s2c' = s2c /\ cwater' = cwater /\ cnext' >= cnext
         /\ \A s \in ServerIds : cstream'[s] # NoStream => cstream[s] # NoStream
<1> USE DEF CliLedger
<1>t. WireTypeOK /\ ClientTypeOK /\ WireTypeOK' /\ ClientTypeOK'
  BY DEF TypeOK
<1>m. cstream \in StreamMap /\ cstream' \in StreamMap /\ cactive \in SUBSET Ids
      /\ c2s \in Seq(Frame) /\ cnext \in Nat
  BY <1>t DEF ClientTypeOK, WireTypeOK, StreamMap
<1>i. ServerIds \subseteq Ids
  BY DEF ServerIds
<1>k. ASSUME Consistent(c2s', cstream'), Advance(cstream, cstream'),
             \A s \in Ids : cstream[s] = NoStream => cstream'[s] = NoStream,
             UNCHANGED <<s2c, cwater, cnext>>, cactive' \subseteq cactive
      PROVE  /\ CliLedger' /\ Advance(cstream, cstream')
             /\ s2c' = s2c /\ cwater' = cwater /\ cnext' >= cnext
             /\ \A s \in ServerIds : cstream'[s] # NoStream => cstream[s] # NoStream
  <2>1. CliCounters'
    BY <1>k, <1>t, CliCountersKept
  <2> QED
    BY <1>k, <1>i, <1>m, <2>1
<1>1. CASE CliOpenStream
  <2>1. cnext \in Ids /\ cnext % 2 = 1 /\ cnext \notin ServerIds
    BY <1>1, <1>t, Bounds DEF CliOpenStream, CliCounters, ClientTypeOK, Ids, ServerIds
  <2>2. cstream[cnext] = NoStream
    BY <1>m, <2>1 DEF CliCounters
  <2>3. cstream' = [cstream EXCEPT ![cnext] = "OPEN"] /\ cactive' = cactive \cup {cnext}
        /\ cnext' = cnext + 2 /\ UNCHANGED <<c2s, s2c, cwater>>
    BY <1>1 DEF CliOpenStream, wireVars
  <2>4. Advance(cstream, cstream')
    BY <1>m, <2>1, <2>2, <2>3, ForwardFacts DEF Advance, StreamMap
  <2>5. Consistent(c2s', cstream')
    BY <1>m, <2>3, <2>4, ConsistentStill
  <2>6. CliCounters'
    <3>1. cnext' % 2 = 1 /\ cnext < cnext'
      BY <1>m, <2>1, <2>3
    <3>2. \A s \in Ids : s # cnext => cstream'[s] = cstream[s]
      BY <1>m, <2>3 DEF StreamMap
    <3>3. cstream'[cnext] = "OPEN"
      BY <1>m, <2>1, <2>3 DEF StreamMap
    <3>4. \A s \in Ids : cstream'[s] # NoStream => IF s % 2 = 1 THEN s < cnext' ELSE s <= cwater'
      <4> SUFFICES ASSUME NEW s \in Ids, cstream'[s] # NoStream
                   PROVE  IF s % 2 = 1 THEN s < cnext' ELSE s <= cwater'
        OBVIOUS
      <4>1. CASE s = cnext
        BY <2>1, <3>1, <4>1
      <4>2. CASE s # cnext
        <5>1. IF s % 2 = 1 THEN s < cnext ELSE s <= cwater
          BY <3>2, <4>2 DEF CliCounters
        <5> QED
          BY <1>m, <2>3, <5>1, <3>1, Bounds DEF Ids
      <4> QED
        BY <4>1, <4>2
    <3>5. \A s \in cactive' : cstream'[s] # NoStream
      BY <1>m, <2>3, <3>2, <3>3 DEF CliCounters, NoStream
    <3> QED
      BY <3>1, <3>4, <3>5 DEF CliCounters
  <2>7. \A s \in ServerIds : cstream'[s] # NoStream => cstream[s] # NoStream
    BY <1>m, <1>i, <2>1, <2>3 DEF StreamMap
  <2> QED
    BY <1>m, <2>3, <2>4, <2>5, <2>6, <2>7
<1>3. CASE CliCloseSocket
  <2> DEFINE closing == {s \in cactive : cstream[s] \in {"OPEN", "CLOSEWAIT"}}
  <2>1. PICK o \in Orders(closing) : CliHangUp(Append(CloseMsgs(o), WsClose))
    BY <1>3 DEF CliCloseSocket
  <2>2. cstream' = CliCloseAll(cactive) /\ cactive' \subseteq cactive
        /\ UNCHANGED <<s2c, cwater, cnext>> /\ c2s' = ToServer(Append(CloseMsgs(o), WsClose))
    BY <1>3, <2>1 DEF CliCloseSocket, CliHangUp
  <2>3. closing \in SUBSET Ids
    BY <1>m
  <2>4. /\ Advance(cstream, cstream')
        /\ \A s \in closing : cstream[s] \in {"OPEN", "CLOSEWAIT"}
                              /\ cstream'[s] \in {"CLOSING", "CLOSED"}
        /\ \A s \in Ids : cstream[s] = NoStream => cstream'[s] = NoStream
    BY <1>t, <1>m, <2>2, CliAdvance
  <2> HIDE DEF closing
  <2>5. Sendable(Append(CloseMsgs(o), WsClose), cstream, cstream')
    BY <1>m, <2>3, <2>4, FarewellFrames
  <2>6. Append(CloseMsgs(o), WsClose) \in Seq(Frame)
    BY <2>3, FarewellType
  <2>7. Consistent(c2s', cstream')
    BY <1>t, <1>m, <2>2, <2>4, <2>5, <2>6, SendConsistent
  <2> QED
    BY <1>k, <2>2, <2>4, <2>7
<1>4. CASE CliErrorSocketQuiet
  <2>1. UNCHANGED <<c2s, s2c, cstream, cwater, cnext>> /\ cactive' = {}
    BY <1>4 DEF CliErrorSocketQuiet, wireVars
  <2>2. Advance(cstream, cstream') /\ Consistent(c2s', cstream')
    BY <1>t, <1>m, <2>1, CliAdvance
  <2> QED
    BY <1>k, <2>1, <2>2
<1>5. CASE CliErrorSocket
  <2>1. cstream' = CliErrorAll(cactive) /\ cactive' = {} /\ UNCHANGED <<s2c, cwater, cnext>>
        /\ c2s' = ToServer(<<GoawayMsg(0), WsAbort>>)
    BY <1>5 DEF CliErrorSocket, CliHangUp
  <2>2. /\ Advance(cstream, cstream')
        /\ \A s \in Ids : cstream[s] = NoStream => cstream'[s] = NoStream
    BY <1>t, <1>m, <2>1, CliAdvance DEF CliCounters
  <2>3. <<GoawayMsg(0), WsAbort>> \in Seq(Frame)
    BY GoodbyeType
  <2>4. Sendable(<<GoawayMsg(0), WsAbort>>, cstream, cstream')
    BY GoawayFrames
  <2>5. Consistent(c2s', cstream')
    BY <1>t, <1>m, <2>1, <2>2, <2>3, <2>4, SendConsistent
  <2> QED
    BY <1>k, <2>1, <2>2, <2>5
<1>6. ASSUME NEW s \in Ids, CliStreamClose(s)
      PROVE  CliLedger' /\ Advance(cstream, cstream')
             /\ s2c' = s2c /\ cwater' = cwater /\ cnext' >= cnext
             /\ \A x \in ServerIds : cstream'[x] # NoStream => cstream[x] # NoStream
  <2>1. /\ cstream[s] \in {"OPEN", "CLOSEWAIT"} /\ cstream' = CliCloseAll({s})
        /\ cactive' \subseteq cactive /\ UNCHANGED <<s2c, cwater, cnext>>
        /\ c2s' = c2s \/ c2s' = ToServer(<<StreamCloseMsg(s)>>)
    BY <1>6 DEF CliStreamClose
  <2>2. /\ Advance(cstream, cstream') /\ cstream'[s] \in {"CLOSING", "CLOSED"}
        /\ \A x \in Ids : cstream[x] = NoStream => cstream'[x] = NoStream
    BY <1>t, <1>m, <2>1, CliAdvance
  <2>3. <<StreamCloseMsg(s)>> \in Seq(Frame)
    BY FrameType
  <2>4. Sendable(<<StreamCloseMsg(s)>>, cstream, cstream')
    BY <1>m, <2>1, <2>2, OneStreamFrame
  <2>5. Consistent(ToServer(<<StreamCloseMsg(s)>>), cstream')
    BY <1>t, <1>m, <2>2, <2>3, <2>4, SendConsistent
  <2>6. Consistent(c2s, cstream')
    BY <1>m, <2>2, ConsistentStill
  <2> QED
    BY <1>k, <2>1, <2>2, <2>5, <2>6
<1>7. ASSUME NEW s \in Ids, CliStreamError(s)
      PROVE  CliLedger' /\ Advance(cstream, cstream')
             /\ s2c' = s2c /\ cwater' = cwater /\ cnext' >= cnext
             /\ \A x \in ServerIds : cstream'[x] # NoStream => cstream[x] # NoStream
  <2>1. /\ cstream[s] \in {"OPEN", "CLOSEWAIT", "CLOSING"}
        /\ cstream' = [cstream EXCEPT ![s] = "CLOSED"]
        /\ cactive' \subseteq cactive /\ UNCHANGED <<s2c, cwater, cnext>>
        /\ \/ c2s' = c2s
           \/ cstream[s] # "CLOSING" /\ c2s' = ToServer(<<StreamResetMsg(s)>>)
    BY <1>7 DEF CliStreamError
  <2>2. /\ Advance(cstream, cstream') /\ cstream'[s] \in {"CLOSING", "CLOSED"}
        /\ \A x \in Ids : cstream[x] = NoStream => cstream'[x] = NoStream
    BY <1>m, <2>1, ForwardFacts DEF Advance, StreamMap, NoStream
  <2>3. <<StreamResetMsg(s)>> \in Seq(Frame)
    BY FrameType
  <2>4. cstream[s] # "CLOSING" => Sendable(<<StreamResetMsg(s)>>, cstream, cstream')
    BY <1>m, <2>1, <2>2, OneStreamFrame
  <2>5. cstream[s] # "CLOSING" => Consistent(ToServer(<<StreamResetMsg(s)>>), cstream')
    BY <1>t, <1>m, <2>2, <2>3, <2>4, SendConsistent
  <2>6. Consistent(c2s, cstream')
    BY <1>m, <2>2, ConsistentStill
  <2> QED
    BY <1>k, <2>1, <2>2, <2>5, <2>6
<1>8. ASSUME NEW s \in Ids, CliStreamSend(s)
      PROVE  CliLedger' /\ Advance(cstream, cstream')
             /\ s2c' = s2c /\ cwater' = cwater /\ cnext' >= cnext
             /\ \A x \in ServerIds : cstream'[x] # NoStream => cstream[x] # NoStream
  <2>1. /\ cstream[s] \in {"OPEN", "CLOSEWAIT"}
        /\ UNCHANGED <<cstream, cactive, s2c, cwater, cnext>>
        /\ c2s' = c2s \/ c2s' = ToServer(<<StreamDataMsg(s, csent[s] + 1)>>)
    BY <1>8 DEF CliStreamSend
  <2>2. Advance(cstream, cstream')
    BY <1>t, <1>m, <2>1, CliAdvance
  <2>3. csent[s] + 1 \in Nat
    BY <1>t DEF ClientTypeOK
  <2>4. <<StreamDataMsg(s, csent[s] + 1)>> \in Seq(Frame)
    BY <2>3, FrameType
  <2>5. Sendable(<<StreamDataMsg(s, csent[s] + 1)>>, cstream, cstream')
    BY <1>m, <2>1, <2>3, OneStreamFrame
  <2>6. Consistent(ToServer(<<StreamDataMsg(s, csent[s] + 1)>>), cstream')
    BY <1>t, <1>m, <2>2, <2>4, <2>5, SendConsistent
  <2> QED
    BY <1>k, <2>1, <2>2, <2>6
<1> QED
  BY <1>1, <1>3, <1>4, <1>5, <1>6, <1>7, <1>8 DEF CliUser

LEMMA CliSystemLedger ==
  ASSUME TypeOK, TypeOK', CliLedger, CliSystem
  PROVE  /\ CliLedger' /\ Advance(cstream, cstream')
         /\ s2c' = s2c \/ s2c' = <<>> \/ (s2c # <<>> /\ s2c' = Tail(s2c))
         /\ cnext' = cnext
         /\ \/ /\ cwater' = cwater
               /\ \A s \in Ids : cstream'[s] # NoStream => cstream[s] # NoStream
            \/ /\ s2c # <<>> /\ Head(s2c).type = "data" /\ Head(s2c).stream % 2 = 0
               /\ cwater' = Head(s2c).stream
               /\ \A s \in Ids : cstream'[s] # NoStream =>
                                  cstream[s] # NoStream \/ s = Head(s2c).stream
<1> USE DEF CliLedger
<1> DEFINE Keeps == s2c' = s2c \/ s2c' = <<>> \/ (s2c # <<>> /\ s2c' = Tail(s2c))
<1>t. WireTypeOK /\ ClientTypeOK /\ WireTypeOK' /\ ClientTypeOK'
  BY DEF TypeOK
<1>m. cstream \in StreamMap /\ cstream' \in StreamMap /\ cactive \in SUBSET Ids
      /\ c2s \in Seq(Frame) /\ cnext \in Nat /\ cwater \in Nat
  BY <1>t, Bounds DEF ClientTypeOK, WireTypeOK, StreamMap
<1>k. ASSUME Consistent(c2s', cstream'), Advance(cstream, cstream'),
             \A s \in Ids : cstream[s] = NoStream => cstream'[s] = NoStream,
             UNCHANGED <<cwater, cnext>>, cactive' \subseteq cactive, Keeps
      PROVE  /\ CliLedger' /\ Advance(cstream, cstream') /\ Keeps
             /\ cnext' = cnext /\ cwater' = cwater
             /\ \A s \in Ids : cstream'[s] # NoStream => cstream[s] # NoStream
  <2>1. CliCounters'
    BY <1>k, <1>t, CliCountersKept
  <2> QED
    BY <1>k, <2>1
<1>v. ASSUME CliOnSocketClose \/ CliOnSocketError
      PROVE  /\ Advance(cstream, cstream') /\ UNCHANGED <<cwater, cnext>>
             /\ \A s \in Ids : cstream[s] = NoStream => cstream'[s] = NoStream
             /\ cactive' \subseteq cactive
  <2>1. \/ cstream' = cstream \/ cstream' = CliPeerClosedAll(cactive)
        \/ cstream' = CliErrorAll(cactive)
    BY <1>v DEF CliOnSocketClose, CliOnSocketError
  <2>2. /\ Advance(cstream, cstream')
        /\ \A s \in Ids : cstream[s] = NoStream => cstream'[s] = NoStream
    BY <1>t, <1>m, <2>1, CliAdvance DEF CliCounters
  <2> QED
    BY <1>v, <2>2 DEF CliOnSocketClose, CliOnSocketError
<1>1. CASE AuthTimer
  <2>1. UNCHANGED <<c2s, s2c, cstream, cactive, cwater, cnext>>
    BY <1>1 DEF AuthTimer, wireVars
  <2>2. Advance(cstream, cstream') /\ Consistent(c2s', cstream')
    BY <1>t, <1>m, <2>1, CliAdvance
  <2> QED
    BY <1>k, <2>1, <2>2
<1>2. CASE AuthSigned
  <2>1. UNCHANGED <<s2c, cstream, cactive, cwater, cnext>> /\ c2s' = ToServer(<<AuthMsg>>)
    BY <1>2 DEF AuthSigned
  <2>2. Advance(cstream, cstream')
    BY <1>t, <1>m, <2>1, CliAdvance
  <2>3. <<AuthMsg>> \in Seq(Frame)
    BY FrameType
  <2>4. Sendable(<<AuthMsg>>, cstream, cstream')
    BY SocketFrames
  <2>5. Consistent(c2s', cstream')
    BY <1>t, <1>m, <2>1, <2>2, <2>3, <2>4, SendConsistent
  <2> QED
    BY <1>k, <2>1, <2>2, <2>5
<1>3. CASE CliWsClosed
  <2>1. s2c' = <<>> /\ c2s' = ToServer(<<WsClose>>) /\ CliOnSocketClose
    BY <1>3 DEF CliWsClosed
  <2>2. <<WsClose>> \in Seq(Frame)
    BY FrameType
  <2>3. Sendable(<<WsClose>>, cstream, cstream')
    BY SocketFrames
  <2>4. Consistent(c2s', cstream')
    BY <1>t, <1>m, <1>v, <2>1, <2>2, <2>3, SendConsistent
  <2> QED
    BY <1>k, <1>v, <2>1, <2>4
<1>4. CASE CliLinkDown
  <2>1. UNCHANGED <<c2s, s2c>> /\ (CliOnSocketClose \/ CliOnSocketError)
    BY <1>4 DEF CliLinkDown
  <2>2. Consistent(c2s', cstream')
    BY <1>m, <1>v, <2>1, ConsistentStill
  <2> QED
    BY <1>k, <1>v, <2>1, <2>2
<1>5. CASE CliIgnores
  <2>1. UNCHANGED <<c2s, cstream, cactive, cwater, cnext>> /\ s2c # <<>> /\ s2c' = Tail(s2c)
    BY <1>5 DEF CliIgnores, clientVars
  <2>2. Advance(cstream, cstream') /\ Consistent(c2s', cstream')
    BY <1>t, <1>m, <2>1, CliAdvance
  <2> QED
    BY <1>k, <2>1, <2>2
<1>6. CASE CliRecvGoaway
  <2>1. c2s' = c2s /\ s2c # <<>> /\ s2c' = Tail(s2c) /\ CliOnSocketError
    BY <1>6 DEF CliRecvGoaway, CliTakes
  <2>2. Consistent(c2s', cstream')
    BY <1>m, <1>v, <2>1, ConsistentStill
  <2> QED
    BY <1>k, <1>v, <2>1, <2>2
<1>7. CASE CliRecvData
  <2> DEFINE s == Head(s2c).stream
             new == s \notin cactive /\ cstate # "CLOSING" /\ s % 2 = 0 /\ s > cwater
  <2>1. /\ c2s' = c2s /\ s2c # <<>> /\ s2c' = Tail(s2c) /\ Head(s2c).type = "data"
        /\ cnext' = cnext
        /\ IF new
           THEN /\ cwater' = s
                /\ cactive' = cactive \cup {s}
                /\ cstream' = [cstream EXCEPT ![s] = "OPEN"]
           ELSE UNCHANGED <<cwater, cactive, cstream>>
    BY <1>7 DEF CliRecvData, CliTakes
  <2>2. s \in 0..MaxId /\ (s > 0 => s \in Ids)
    BY <1>7, <1>t, CliTakesType, TakeStream DEF CliRecvData
  <2>3. CASE ~new
    <3>1. UNCHANGED <<cwater, cactive, cstream>>
      BY <2>1, <2>3
    <3>2. Advance(cstream, cstream') /\ Consistent(c2s', cstream')
      BY <1>t, <1>m, <2>1, <3>1, CliAdvance
    <3> QED
      BY <1>k, <2>1, <3>1, <3>2
  <2>4. CASE new
    <3>1. s \in Ids /\ s \in Nat /\ s > cwater /\ s % 2 = 0
      BY <1>m, <2>2, <2>4, Bounds
    <3>2. cwater' = s /\ cactive' = cactive \cup {s}
          /\ cstream' = [cstream EXCEPT ![s] = "OPEN"]
      BY <2>1, <2>4
    <3> HIDE DEF new, s
    <3>3. cstream[s] = NoStream
      <4>1. cstream[s] # NoStream => s <= cwater
        BY <3>1 DEF CliCounters
      <4> QED
        BY <1>m, <3>1, <4>1
    <3>4. \A x \in Ids : x # s => cstream'[x] = cstream[x]
      BY <1>m, <3>2 DEF StreamMap
    <3>5. cstream'[s] = "OPEN"
      BY <1>m, <3>1, <3>2 DEF StreamMap
    <3>6. Advance(cstream, cstream')
      BY <1>m, <3>3, <3>4, ForwardFacts DEF Advance, StreamMap
    <3>7. Consistent(c2s', cstream')
      BY <1>m, <2>1, <3>6, ConsistentStill
    <3>8. \A x \in Ids : cstream'[x] # NoStream => IF x % 2 = 1 THEN x < cnext' ELSE x <= cwater'
      <4> SUFFICES ASSUME NEW x \in Ids, cstream'[x] # NoStream
                   PROVE  IF x % 2 = 1 THEN x < cnext' ELSE x <= cwater'
        OBVIOUS
      <4>1. CASE x = s
        BY <3>1, <3>2, <4>1
      <4>2. CASE x # s
        <5>1. IF x % 2 = 1 THEN x < cnext ELSE x <= cwater
          BY <3>4, <4>2 DEF CliCounters
        <5>2. x \in Nat
          BY Bounds DEF Ids
        <5> QED
          BY <1>m, <2>1, <3>1, <3>2, <5>1, <5>2
      <4> QED
        BY <4>1, <4>2
    <3>9. \A x \in cactive' : cstream'[x] # NoStream
      BY <1>m, <3>2, <3>4, <3>5 DEF CliCounters, NoStream
    <3>10. CliCounters'
      BY <2>1, <3>8, <3>9 DEF CliCounters
    <3>11. \A x \in Ids : cstream'[x] # NoStream => cstream[x] # NoStream \/ x = s
      BY <3>4
    <3> QED
      BY <2>1, <3>1, <3>2, <3>6, <3>7, <3>10, <3>11 DEF s
  <2> QED
    BY <2>3, <2>4
<1>8. CASE CliRecvClose
  <2> DEFINE mine == {Head(s2c).stream} \cap cactive
  <2>1. /\ c2s' = c2s /\ s2c # <<>> /\ s2c' = Tail(s2c) /\ UNCHANGED <<cwater, cnext>>
        /\ cstream' = CliPeerClosedAll(mine) /\ cactive' \subseteq cactive
    BY <1>8 DEF CliRecvClose, CliTakes
  <2>2. mine \in SUBSET Ids
    BY <1>m
  <2>3. /\ Advance(cstream, cstream')
        /\ \A s \in Ids : cstream[s] = NoStream => cstream'[s] = NoStream
    BY <1>t, <2>1, <2>2, CliAdvance
  <2>4. Consistent(c2s', cstream')
    BY <1>m, <2>1, <2>3, ConsistentStill
  <2> QED
    BY <1>k, <2>1, <2>3, <2>4
<1>9. CASE CliRecvReset
  <2> DEFINE mine == {Head(s2c).stream} \cap cactive
  <2>1. /\ c2s' = c2s /\ s2c # <<>> /\ s2c' = Tail(s2c) /\ UNCHANGED <<cwater, cnext>>
        /\ cstream' = CliErrorAll(mine) /\ cactive' \subseteq cactive
    BY <1>9 DEF CliRecvReset, CliTakes
  <2>2. mine \in SUBSET Ids /\ \A s \in mine : cstream[s] # NoStream
    BY <1>m DEF CliCounters
  <2>3. /\ Advance(cstream, cstream')
        /\ \A s \in Ids : cstream[s] = NoStream => cstream'[s] = NoStream
    BY <1>t, <2>1, <2>2, CliAdvance
  <2>4. Consistent(c2s', cstream')
    BY <1>m, <2>1, <2>3, ConsistentStill
  <2> QED
    BY <1>k, <2>1, <2>3, <2>4
<1>10. CASE CliReturns
  <2>1. UNCHANGED <<c2s, s2c, cstream, cwater, cnext>> /\ cactive' \subseteq cactive
    BY <1>10 DEF CliReturns, wireVars
  <2>2. Advance(cstream, cstream') /\ Consistent(c2s', cstream')
    BY <1>t, <1>m, <2>1, CliAdvance
  <2> QED
    BY <1>k, <2>1, <2>2
<1> QED
  BY <1>1, <1>2, <1>3, <1>4, <1>5, <1>6, <1>7, <1>8, <1>9, <1>10 DEF CliSystem
-----------------------------------------------------------------------------
(* Steps of the server *)

LEMMA SrvAdvance ==
  ASSUME ServerTypeOK, NEW S \in SUBSET Ids
  PROVE  /\ Advance(sstream, sstream)
         /\ Advance(sstream, SrvCloseAll(S)) /\ Advance(sstream, SrvPeerClosedAll(S))
         /\ Advance(sstream, SrvEndAll(S))
         /\ \A s \in S : sstream[s] \in {"OPEN", "CLOSEWAIT"} =>
              SrvCloseAll(S)[s] \in {"CLOSING", "CLOSED"}
         /\ \A s \in Ids :
              /\ sstream[s] = NoStream => SrvCloseAll(S)[s] = NoStream
              /\ sstream[s] = NoStream => SrvPeerClosedAll(S)[s] = NoStream
              /\ sstream[s] = NoStream /\ s \notin S => SrvEndAll(S)[s] = NoStream
<1>1. \A s \in Ids : sstream[s] \in StreamStates \cup {NoStream}
  BY DEF ServerTypeOK
<1>2. /\ \A a \in StreamStates \cup {NoStream} : Forward(a, a) /\ Forward(a, "CLOSED")
      /\ Forward("OPEN", "CLOSING") /\ Forward("OPEN", "CLOSEWAIT")
  BY ForwardFacts
<1>3. Advance(sstream, sstream)
  BY <1>1, <1>2 DEF Advance
<1>4. Advance(sstream, SrvCloseAll(S))
  BY <1>1, <1>2 DEF Advance, SrvCloseAll
<1>5. Advance(sstream, SrvPeerClosedAll(S))
  BY <1>1, <1>2 DEF Advance, SrvPeerClosedAll
<1>6. Advance(sstream, SrvEndAll(S))
  BY <1>1, <1>2 DEF Advance, SrvEndAll
<1>7. \A s \in S : sstream[s] \in {"OPEN", "CLOSEWAIT"} =>
        SrvCloseAll(S)[s] \in {"CLOSING", "CLOSED"}
  BY DEF SrvCloseAll
<1>8. \A s \in Ids :
        /\ sstream[s] = NoStream => SrvCloseAll(S)[s] = NoStream
        /\ sstream[s] = NoStream => SrvPeerClosedAll(S)[s] = NoStream
        /\ sstream[s] = NoStream /\ s \notin S => SrvEndAll(S)[s] = NoStream
  BY DEF SrvCloseAll, SrvPeerClosedAll, SrvEndAll, NoStream
<1> QED
  BY <1>3, <1>4, <1>5, <1>6, <1>7, <1>8

\* What a step of the server may do to the frames on their way to it.
Drains == c2s' = c2s \/ c2s' = <<>> \/ (c2s # <<>> /\ c2s' = Tail(c2s))

SrvLedger == Consistent(s2c, sstream) /\ SrvCounters

\* A step that makes no stream keeps the counters right.
LEMMA SrvCountersKept ==
  ASSUME ServerTypeOK, ServerTypeOK', SrvCounters,
         UNCHANGED <<snext, swater>>, sactive' \subseteq sactive,
         Advance(sstream, sstream'),
         \A s \in Ids : sstream[s] = NoStream => sstream'[s] = NoStream
  PROVE  SrvCounters'
<1>1. \A s \in Ids : sstream[s] # NoStream => sstream'[s] # NoStream
  BY ForwardFacts DEF Advance, ServerTypeOK
<1> QED
  BY <1>1 DEF SrvCounters, ServerTypeOK

LEMMA SrvErrorSocketLedger ==
  ASSUME WireTypeOK, ServerTypeOK, ServerTypeOK', SrvLedger, NEW k \in Nat, SrvErrorSocket(k)
  PROVE  /\ Consistent(s2c', sstream') /\ Advance(sstream, sstream')
         /\ \A s \in Ids : sstream[s] = NoStream => sstream'[s] = NoStream
         /\ Drains /\ UNCHANGED <<swater, snext>> /\ sactive' \subseteq sactive
<1> USE DEF SrvLedger
<1>1. sstream \in StreamMap /\ sstream' \in StreamMap /\ sactive \in SUBSET Ids
  BY DEF ServerTypeOK, StreamMap
<1>2. sactive' = {} /\ UNCHANGED <<swater, snext>>
  BY DEF SrvErrorSocket
<1>3. CASE sstate \in {"IDLE", "AUTH"}
  <2>1. sstream' = SrvEndAll(sactive) /\ c2s' = <<>>
        /\ s2c' = ToClient(<<GoawayMsg(k), WsAbort>>)
    BY <1>3 DEF SrvErrorSocket, SrvHangUp
  <2>2. /\ Advance(sstream, sstream')
        /\ \A s \in Ids : sstream[s] = NoStream => sstream'[s] = NoStream
    BY <1>1, <2>1, SrvAdvance DEF SrvCounters
  <2>3. <<GoawayMsg(k), WsAbort>> \in Seq(Frame)
    BY GoodbyeType
  <2>4. Sendable(<<GoawayMsg(k), WsAbort>>, sstream, sstream')
    BY GoawayFrames
  <2>5. Consistent(s2c', sstream')
    BY <1>1, <2>1, <2>2, <2>3, <2>4, SendConsistent
  <2> QED
    BY <1>2, <2>1, <2>2, <2>5 DEF Drains
<1>4. CASE sstate \notin {"IDLE", "AUTH"}
  <2>1. UNCHANGED <<sstream, c2s, s2c>>
    BY <1>4 DEF SrvErrorSocket
  <2>2. Advance(sstream, sstream')
    BY <1>1, <2>1, SrvAdvance
  <2> QED
    BY <1>2, <2>1, <2>2 DEF Drains
<1> QED
  BY <1>3, <1>4

LEMMA SrvUserLedger ==
  ASSUME TypeOK, TypeOK', SrvLedger, SrvUser
  PROVE  /\ SrvLedger' /\ Advance(sstream, sstream')
         /\ Drains /\ swater' = swater /\ snext' >= snext
         /\ \A s \in ClientIds : sstream'[s] # NoStream => sstream[s] # NoStream
<1> USE DEF SrvLedger, Drains
<1>t. WireTypeOK /\ ServerTypeOK /\ WireTypeOK' /\ ServerTypeOK'
  BY DEF TypeOK
<1>m. sstream \in StreamMap /\ sstream' \in StreamMap /\ sactive \in SUBSET Ids
      /\ s2c \in Seq(Frame) /\ snext \in Nat
  BY <1>t DEF ServerTypeOK, WireTypeOK, StreamMap
<1>i. ClientIds \subseteq Ids
  BY DEF ClientIds
<1>k. ASSUME Consistent(s2c', sstream'), Advance(sstream, sstream'),
             \A s \in Ids : sstream[s] = NoStream => sstream'[s] = NoStream,
             Drains /\ UNCHANGED <<swater, snext>>, sactive' \subseteq sactive
      PROVE  /\ SrvLedger' /\ Advance(sstream, sstream')
             /\ Drains /\ swater' = swater /\ snext' >= snext
             /\ \A s \in ClientIds : sstream'[s] # NoStream => sstream[s] # NoStream
  <2>1. SrvCounters'
    BY <1>k, <1>t, SrvCountersKept
  <2> QED
    BY <1>k, <1>i, <1>m, <2>1
<1>1. CASE SrvOpenStream
  <2>1. snext \in Ids /\ snext % 2 = 0 /\ snext \notin ClientIds
    BY <1>1, <1>t, Bounds DEF SrvOpenStream, SrvCounters, ServerTypeOK, Ids, ClientIds
  <2>2. sstream[snext] = NoStream
    BY <1>m, <2>1 DEF SrvCounters
  <2>3. sstream' = [sstream EXCEPT ![snext] = "OPEN"] /\ sactive' = sactive \cup {snext}
        /\ snext' = snext + 2 /\ Drains /\ UNCHANGED <<s2c, swater>>
    BY <1>1 DEF SrvOpenStream, wireVars
  <2>4. Advance(sstream, sstream')
    BY <1>m, <2>1, <2>2, <2>3, ForwardFacts DEF Advance, StreamMap
  <2>5. Consistent(s2c', sstream')
    BY <1>m, <2>3, <2>4, ConsistentStill
  <2>6. SrvCounters'
    <3>1. snext' % 2 = 0 /\ snext < snext'
      BY <1>m, <2>1, <2>3
    <3>2. \A s \in Ids : s # snext => sstream'[s] = sstream[s]
      BY <1>m, <2>3 DEF StreamMap
    <3>3. sstream'[snext] = "OPEN"
      BY <1>m, <2>1, <2>3 DEF StreamMap
    <3>4. \A s \in Ids : sstream'[s] # NoStream => IF s % 2 = 0 THEN s < snext' ELSE s <= swater'
      <4> SUFFICES ASSUME NEW s \in Ids, sstream'[s] # NoStream
                   PROVE  IF s % 2 = 0 THEN s < snext' ELSE s <= swater'
        OBVIOUS
      <4>1. CASE s = snext
        BY <2>1, <3>1, <4>1
      <4>2. CASE s # snext
        <5>1. IF s % 2 = 0 THEN s < snext ELSE s <= swater
          BY <3>2, <4>2 DEF SrvCounters
        <5> QED
          BY <1>m, <2>3, <5>1, <3>1, Bounds DEF Ids
      <4> QED
        BY <4>1, <4>2
    <3>5. \A s \in sactive' : sstream'[s] # NoStream
      BY <1>m, <2>3, <3>2, <3>3 DEF SrvCounters, NoStream
    <3> QED
      BY <3>1, <3>4, <3>5 DEF SrvCounters
  <2>7. \A s \in ClientIds : sstream'[s] # NoStream => sstream[s] # NoStream
    BY <1>m, <1>i, <2>1, <2>3 DEF StreamMap
  <2> QED
    BY <1>m, <2>3, <2>4, <2>5, <2>6, <2>7
<1>2. CASE SrvCloseSocketIdle
  <2>1. s2c' = ToClient(<<WsClose>>) /\ sstream' = sstream /\ sactive' = {}
        /\ Drains /\ UNCHANGED <<swater, snext>>
    BY <1>2 DEF SrvCloseSocketIdle, SrvHangUp
  <2>2. Advance(sstream, sstream')
    BY <1>t, <1>m, <2>1, SrvAdvance
  <2>3. <<WsClose>> \in Seq(Frame)
    BY FrameType
  <2>4. Sendable(<<WsClose>>, sstream, sstream')
    BY SocketFrames
  <2>5. Consistent(s2c', sstream')
    BY <1>t, <1>m, <2>1, <2>2, <2>3, <2>4, SendConsistent
  <2> QED
    BY <1>k, <2>1, <2>2, <2>5
<1>3. CASE SrvCloseSocket
  <2> DEFINE closing == SrvUnclosed
  <2>1. PICK o \in Orders(closing) : SrvHangUp(Append(CloseMsgs(o), WsClose))
    BY <1>3 DEF SrvCloseSocket
  <2>2. sstream' = SrvCloseAll(sactive) /\ sactive' \subseteq sactive
        /\ Drains /\ UNCHANGED <<swater, snext>> /\ s2c' = ToClient(Append(CloseMsgs(o), WsClose))
    BY <1>3, <2>1 DEF SrvCloseSocket, SrvHangUp
  <2>3. closing \in SUBSET Ids
    BY <1>t, SrvUnclosedIds
  <2>4. /\ Advance(sstream, sstream')
        /\ \A s \in closing : sstream[s] \in {"OPEN", "CLOSEWAIT"}
                              /\ sstream'[s] \in {"CLOSING", "CLOSED"}
        /\ \A s \in Ids : sstream[s] = NoStream => sstream'[s] = NoStream
    BY <1>t, <1>m, <2>2, SrvAdvance DEF SrvUnclosed
  <2> HIDE DEF closing
  <2>5. Sendable(Append(CloseMsgs(o), WsClose), sstream, sstream')
    BY <1>m, <2>3, <2>4, FarewellFrames
  <2>6. Append(CloseMsgs(o), WsClose) \in Seq(Frame)
    BY <2>3, FarewellType
  <2>7. Consistent(s2c', sstream')
    BY <1>t, <1>m, <2>2, <2>4, <2>5, <2>6, SendConsistent
  <2> QED
    BY <1>k, <2>2, <2>4, <2>7
<1>4. CASE SrvNoDatabase
  <2>1. SrvErrorSocket(1004)
    BY <1>4 DEF SrvNoDatabase
  <2> QED
    BY SrvErrorSocketLedger, <1>t, <1>m, <1>k, <2>1
<1>6. ASSUME NEW s \in Ids, SrvStreamClose(s)
      PROVE  SrvLedger' /\ Advance(sstream, sstream')
             /\ Drains /\ swater' = swater /\ snext' >= snext
             /\ \A x \in ClientIds : sstream'[x] # NoStream => sstream[x] # NoStream
  <2>1. /\ sstream[s] \in {"OPEN", "CLOSEWAIT"} /\ sstream' = SrvCloseAll({s})
        /\ sactive' \subseteq sactive /\ Drains /\ UNCHANGED <<swater, snext>>
        /\ s2c' = s2c \/ s2c' = ToClient(<<StreamCloseMsg(s)>>)
    BY <1>6 DEF SrvStreamClose, SrvSendable
  <2>2. /\ Advance(sstream, sstream') /\ sstream'[s] \in {"CLOSING", "CLOSED"}
        /\ \A x \in Ids : sstream[x] = NoStream => sstream'[x] = NoStream
    BY <1>t, <1>m, <2>1, SrvAdvance
  <2>3. <<StreamCloseMsg(s)>> \in Seq(Frame)
    BY FrameType
  <2>4. Sendable(<<StreamCloseMsg(s)>>, sstream, sstream')
    BY <1>m, <2>1, <2>2, OneStreamFrame
  <2>5. Consistent(ToClient(<<StreamCloseMsg(s)>>), sstream')
    BY <1>t, <1>m, <2>2, <2>3, <2>4, SendConsistent
  <2>6. Consistent(s2c, sstream')
    BY <1>m, <2>2, ConsistentStill
  <2> QED
    BY <1>k, <2>1, <2>2, <2>5, <2>6
<1>7. ASSUME NEW s \in Ids, SrvStreamError(s)
      PROVE  SrvLedger' /\ Advance(sstream, sstream')
             /\ Drains /\ swater' = swater /\ snext' >= snext
             /\ \A x \in ClientIds : sstream'[x] # NoStream => sstream[x] # NoStream
  <2>1. /\ sstream[s] \in {"OPEN", "CLOSEWAIT", "CLOSING"}
        /\ sstream' = [sstream EXCEPT ![s] = "CLOSED"]
        /\ sactive' \subseteq sactive /\ Drains /\ UNCHANGED <<swater, snext>>
        /\ \/ s2c' = s2c
           \/ sstream[s] # "CLOSING" /\ s2c' = ToClient(<<StreamResetMsg(s)>>)
    BY <1>7 DEF SrvStreamError, SrvSendable
  <2>2. /\ Advance(sstream, sstream') /\ sstream'[s] \in {"CLOSING", "CLOSED"}
        /\ \A x \in Ids : sstream[x] = NoStream => sstream'[x] = NoStream
    BY <1>m, <2>1, ForwardFacts DEF Advance, StreamMap, NoStream
  <2>3. <<StreamResetMsg(s)>> \in Seq(Frame)
    BY FrameType
  <2>4. sstream[s] # "CLOSING" => Sendable(<<StreamResetMsg(s)>>, sstream, sstream')
    BY <1>m, <2>1, <2>2, OneStreamFrame
  <2>5. sstream[s] # "CLOSING" => Consistent(ToClient(<<StreamResetMsg(s)>>), sstream')
    BY <1>t, <1>m, <2>2, <2>3, <2>4, SendConsistent
  <2>6. Consistent(s2c, sstream')
    BY <1>m, <2>2, ConsistentStill
  <2> QED
    BY <1>k, <2>1, <2>2, <2>5, <2>6
<1>8. ASSUME NEW s \in Ids, SrvStreamSend(s)
      PROVE  SrvLedger' /\ Advance(sstream, sstream')
             /\ Drains /\ swater' = swater /\ snext' >= snext
             /\ \A x \in ClientIds : sstream'[x] # NoStream => sstream[x] # NoStream
  <2>1. /\ sstream[s] \in {"OPEN", "CLOSEWAIT"}
        /\ Drains /\ UNCHANGED <<sstream, sactive, swater, snext>>
        /\ s2c' = s2c \/ s2c' = ToClient(<<StreamDataMsg(s, ssent[s] + 1)>>)
    BY <1>8 DEF SrvStreamSend, SrvSendable
  <2>2. Advance(sstream, sstream')
    BY <1>t, <1>m, <2>1, SrvAdvance
  <2>3. ssent[s] + 1 \in Nat
    BY <1>t DEF ServerTypeOK
  <2>4. <<StreamDataMsg(s, ssent[s] + 1)>> \in Seq(Frame)
    BY <2>3, FrameType
  <2>5. Sendable(<<StreamDataMsg(s, ssent[s] + 1)>>, sstream, sstream')
    BY <1>m, <2>1, <2>3, OneStreamFrame
  <2>6. Consistent(ToClient(<<StreamDataMsg(s, ssent[s] + 1)>>), sstream')
    BY <1>t, <1>m, <2>2, <2>4, <2>5, SendConsistent
  <2> QED
    BY <1>k, <2>1, <2>2, <2>6
<1> QED
  BY <1>1, <1>2, <1>3, <1>4, <1>6, <1>7, <1>8 DEF SrvUser

\* onSocketClose and onSocketError end streams and make none; the close frames
\* q that onSocketClose sends are those of streams it ends.
LEMMA SrvSocketEventLedger ==
  ASSUME ServerTypeOK, ServerTypeOK', SrvCounters,
         SrvOnSocketError \/ \E q : SrvOnSocketClose(q)
  PROVE  /\ Advance(sstream, sstream') /\ UNCHANGED <<swater, snext>>
         /\ \A s \in Ids : sstream[s] = NoStream => sstream'[s] = NoStream
         /\ sactive' \subseteq sactive
<1>1. sstream' = sstream \/ sstream' = SrvEndAll(sactive)
  BY DEF SrvOnSocketClose, SrvOnSocketError
<1>2. sactive \in SUBSET Ids /\ \A s \in sactive : sstream[s] # NoStream
  BY DEF ServerTypeOK, SrvCounters
<1>3. /\ Advance(sstream, sstream')
      /\ \A s \in Ids : sstream[s] = NoStream => sstream'[s] = NoStream
  BY <1>1, <1>2, SrvAdvance
<1> QED
  BY <1>3 DEF SrvOnSocketClose, SrvOnSocketError

LEMMA SrvFarewell ==
  ASSUME ServerTypeOK, ServerTypeOK', NEW q, SrvOnSocketClose(q)
  PROVE  /\ Sendable(Append(CloseMsgs(q), WsClose), sstream, sstream')
         /\ Append(CloseMsgs(q), WsClose) \in Seq(Frame)
<1> DEFINE S == IF sstate = "AUTH" THEN SrvUnclosed ELSE {}
<1>1. q \in Orders(S)
  BY DEF SrvOnSocketClose
<1>2. S \in SUBSET Ids
  BY SrvUnclosedIds
<1>3. sstream \in StreamMap /\ sstream' \in StreamMap
  BY DEF ServerTypeOK, StreamMap
<1>4. \A s \in S : sstream[s] \in {"OPEN", "CLOSEWAIT"} /\ sstream'[s] \in {"CLOSING", "CLOSED"}
  BY DEF SrvOnSocketClose, SrvUnclosed, SrvEndAll, ServerTypeOK
<1> HIDE DEF S
<1> QED
  BY <1>1, <1>2, <1>3, <1>4, FarewellFrames, FarewellType

LEMMA SrvSystemLedger ==
  ASSUME TypeOK, TypeOK', SrvLedger, SrvSystem
  PROVE  /\ SrvLedger' /\ Advance(sstream, sstream') /\ Drains
         /\ snext' = snext
         /\ \/ /\ swater' = swater
               /\ \A s \in Ids : sstream'[s] # NoStream => sstream[s] # NoStream
            \/ /\ c2s # <<>> /\ Head(c2s).type = "data" /\ Head(c2s).stream % 2 = 1
               /\ swater' = Head(c2s).stream
               /\ \A s \in Ids : sstream'[s] # NoStream =>
                                  sstream[s] # NoStream \/ s = Head(c2s).stream
<1> USE DEF SrvLedger
<1>t. WireTypeOK /\ ServerTypeOK /\ WireTypeOK' /\ ServerTypeOK'
  BY DEF TypeOK
<1>m. sstream \in StreamMap /\ sstream' \in StreamMap /\ sactive \in SUBSET Ids
      /\ s2c \in Seq(Frame) /\ snext \in Nat /\ swater \in Nat
  BY <1>t, Bounds DEF ServerTypeOK, WireTypeOK, StreamMap
<1>k. ASSUME Consistent(s2c', sstream'), Advance(sstream, sstream'),
             \A s \in Ids : sstream[s] = NoStream => sstream'[s] = NoStream,
             UNCHANGED <<swater, snext>>, sactive' \subseteq sactive, Drains
      PROVE  /\ SrvLedger' /\ Advance(sstream, sstream') /\ Drains
             /\ snext' = snext /\ swater' = swater
             /\ \A s \in Ids : sstream'[s] # NoStream => sstream[s] # NoStream
  <2>1. SrvCounters'
    BY <1>k, <1>t, SrvCountersKept
  <2> QED
    BY <1>k, <2>1
\* A stream x made by a data frame: what it is worth to the counters.
<1>n. ASSUME NEW x \in Ids, x % 2 = 1, x > swater, swater' = x, snext' = snext,
             sactive' \subseteq sactive \cup {x}, sstream'[x] = "OPEN",
             \A s \in Ids \ {x} : Forward(sstream[s], sstream'[s]),
             \A s \in Ids \ {x} : sstream[s] = NoStream => sstream'[s] = NoStream
      PROVE  /\ sstream[x] = NoStream /\ Advance(sstream, sstream') /\ SrvCounters'
             /\ \A s \in Ids : sstream'[s] # NoStream => sstream[s] # NoStream \/ s = x
  <2>1. x \in Nat
    BY Bounds DEF Ids
  <2>2. sstream[x] = NoStream
    <3>1. sstream[x] # NoStream => x <= swater
      BY <1>n, <2>1 DEF SrvCounters
    <3> QED
      BY <1>m, <1>n, <2>1, <3>1
  <2>3. Advance(sstream, sstream')
    <3>1. Forward(sstream[x], sstream'[x])
      BY <1>m, <1>n, <2>2, ForwardFacts DEF StreamMap
    <3> QED
      BY <1>n, <3>1, Zenon DEF Advance
  <2>4. \A s \in Ids : sstream'[s] # NoStream => IF s % 2 = 0 THEN s < snext' ELSE s <= swater'
    <3> SUFFICES ASSUME NEW s \in Ids, sstream'[s] # NoStream
                 PROVE  IF s % 2 = 0 THEN s < snext' ELSE s <= swater'
      OBVIOUS
    <3>1. s \in Nat
      BY Bounds DEF Ids
    <3>2. CASE s = x
      BY <1>n, <2>1, <3>2
    <3>3. CASE s # x
      <4>0. sstream[s] # NoStream
        BY <1>n, <3>3, Zenon
      <4>1. IF s % 2 = 0 THEN s < snext ELSE s <= swater
        BY <4>0 DEF SrvCounters
      <4> QED
        BY <1>m, <1>n, <2>1, <3>1, <4>1
    <3> QED
      BY <3>2, <3>3
  <2>5. \A s \in sactive' : sstream'[s] # NoStream
    <3> SUFFICES ASSUME NEW s \in sactive' PROVE sstream'[s] # NoStream
      OBVIOUS
    <3>1. CASE s = x
      BY <1>n, <3>1 DEF NoStream
    <3>2. CASE s # x
      <4>1. s \in sactive /\ s \in Ids
        BY <1>m, <1>n, <3>2
      <4>2. sstream[s] # NoStream
        BY <4>1 DEF SrvCounters
      <4> QED
        BY <1>m, <2>3, <4>1, <4>2, ForwardFacts DEF Advance, StreamMap
    <3> QED
      BY <3>1, <3>2
  <2>6. SrvCounters'
    BY <1>n, <2>4, <2>5 DEF SrvCounters
  <2>7. \A s \in Ids : sstream'[s] # NoStream => sstream[s] # NoStream \/ s = x
    BY <1>n, Zenon
  <2> QED
    BY <2>2, <2>3, <2>6, <2>7
<1>1. CASE SessionExpires
  <2>1. UNCHANGED <<s2c, c2s, sstream, sactive, swater, snext>>
    BY <1>1 DEF SessionExpires, wireVars
  <2>2. Advance(sstream, sstream') /\ Consistent(s2c', sstream')
    BY <1>t, <1>m, <2>1, SrvAdvance
  <2> QED
    BY <1>k, <2>1, <2>2 DEF Drains
<1>2. CASE SessionTimeout
  <2>1. SrvErrorSocket(1003)
    BY <1>2 DEF SessionTimeout
  <2> QED
    BY <1>t, <1>k, <2>1, SrvErrorSocketLedger
<1>3. CASE SrvWsClosed
  <2>1. CASE SrvOnSocketError /\ SrvHangUp(<<WsAbort>>)
    <3>1. c2s' = <<>> /\ s2c' = ToClient(<<WsAbort>>)
      BY <2>1 DEF SrvHangUp
    <3>2. <<WsAbort>> \in Seq(Frame)
      BY FrameType
    <3>3. Sendable(<<WsAbort>>, sstream, sstream')
      BY SocketFrames
    <3>4. Consistent(s2c', sstream')
      BY <1>t, <1>m, <2>1, <3>1, <3>2, <3>3, SrvSocketEventLedger, SendConsistent
    <3> QED
      BY <1>k, <1>t, <2>1, <3>1, <3>4, SrvSocketEventLedger DEF Drains
  <2>2. ASSUME NEW q \in Orders(SrvUnclosed) \cup {<<>>},
               SrvOnSocketClose(q), SrvHangUp(Append(CloseMsgs(q), WsClose))
        PROVE  /\ SrvLedger' /\ Advance(sstream, sstream') /\ Drains
               /\ snext' = snext /\ swater' = swater
               /\ \A s \in Ids : sstream'[s] # NoStream => sstream[s] # NoStream
    <3>1. c2s' = <<>> /\ s2c' = ToClient(Append(CloseMsgs(q), WsClose))
      BY <2>2 DEF SrvHangUp
    <3>2. /\ Append(CloseMsgs(q), WsClose) \in Seq(Frame)
          /\ Sendable(Append(CloseMsgs(q), WsClose), sstream, sstream')
      BY <1>t, <2>2, SrvFarewell
    <3>3. Advance(sstream, sstream') /\ UNCHANGED <<swater, snext>>
          /\ (\A s \in Ids : sstream[s] = NoStream => sstream'[s] = NoStream)
          /\ sactive' \subseteq sactive
      BY <1>t, <2>2, SrvSocketEventLedger
    <3>4. Consistent(s2c', sstream')
      BY <1>t, <1>m, <3>1, <3>2, <3>3, SendConsistent
    <3> QED
      BY <1>k, <3>1, <3>3, <3>4 DEF Drains
  <2> QED
    BY <1>3, <2>1, <2>2 DEF SrvWsClosed
<1>4. CASE SrvLinkDown
  <2>1. c2s' = <<>> /\ s2c' = ToClient(<<>>) /\ (SrvOnSocketError \/ \E q : SrvOnSocketClose(q))
    BY <1>4 DEF SrvLinkDown, SrvHangUp
  <2>2. <<>> \in Seq(Frame) /\ Sendable(<<>>, sstream, sstream')
    BY DEF Sendable, FinalIn
  <2>3. Consistent(s2c', sstream')
    BY <1>t, <1>m, <2>1, <2>2, SrvSocketEventLedger, SendConsistent
  <2> QED
    BY <1>k, <1>t, <2>1, <2>3, SrvSocketEventLedger DEF Drains
<1>5. CASE SrvChannelClosed
  <2>1. UNCHANGED <<c2s, s2c>> /\ SrvOnSocketClose(<<>>)
    BY <1>5 DEF SrvChannelClosed, wireVars
  <2>2. Consistent(s2c', sstream')
    BY <1>t, <1>m, <2>1, SrvSocketEventLedger, ConsistentStill
  <2> QED
    BY <1>k, <1>t, <2>1, <2>2, SrvSocketEventLedger DEF Drains
<1>6. CASE SrvIgnores
  <2>1. UNCHANGED <<s2c, sstream, sactive, swater, snext>> /\ c2s # <<>> /\ c2s' = Tail(c2s)
    BY <1>6 DEF SrvIgnores, SrvHead, SrvTakes, serverVars
  <2>2. Advance(sstream, sstream') /\ Consistent(s2c', sstream')
    BY <1>t, <1>m, <2>1, SrvAdvance
  <2> QED
    BY <1>k, <2>1, <2>2 DEF Drains
<1>7. CASE SrvRecvAuth
  <2>1. CASE SrvErrorSocket(1002)
    BY <1>t, <1>k, <2>1, SrvErrorSocketLedger
  <2>2. CASE ~SrvErrorSocket(1002)
    <3>1. UNCHANGED <<s2c, sstream, sactive, swater, snext>> /\ c2s # <<>> /\ c2s' = Tail(c2s)
      BY <1>7, <2>2 DEF SrvRecvAuth, SrvHead, SrvTakes
    <3>2. Advance(sstream, sstream') /\ Consistent(s2c', sstream')
      BY <1>t, <1>m, <3>1, SrvAdvance
    <3> QED
      BY <1>k, <3>1, <3>2 DEF Drains
  <2> QED
    BY <2>1, <2>2
<1>8. CASE SrvRecvFatal
  <2>1. s2c' = s2c /\ c2s # <<>> /\ c2s' = Tail(c2s) /\ SrvOnSocketError
    BY <1>8 DEF SrvRecvFatal, SrvHead, SrvTakes
  <2>2. Consistent(s2c', sstream')
    BY <1>t, <1>m, <2>1, SrvSocketEventLedger, ConsistentStill
  <2> QED
    BY <1>k, <1>t, <2>1, <2>2, SrvSocketEventLedger DEF Drains
<1>9. CASE SrvRecvData
  <2> DEFINE x == Head(c2s).stream
             new == x \notin sactive /\ x % 2 = 1 /\ x > swater
  <2>1. /\ s2c' = s2c /\ c2s # <<>> /\ c2s' = Tail(c2s) /\ Head(c2s).type = "data"
        /\ snext' = snext
        /\ IF new
           THEN /\ swater' = x
                /\ sactive' = sactive \cup {x}
                /\ sstream' = [sstream EXCEPT ![x] = "OPEN"]
           ELSE UNCHANGED <<swater, sactive, sstream>>
    BY <1>9 DEF SrvRecvData, SrvHead, SrvTakes
  <2>2. x \in 0..MaxId /\ (x > 0 => x \in Ids)
    BY <1>9, <1>t, SrvTakesType, TakeStream DEF SrvRecvData
  <2>3. CASE ~new
    <3>1. UNCHANGED <<swater, sactive, sstream>>
      BY <2>1, <2>3
    <3>2. Advance(sstream, sstream') /\ Consistent(s2c', sstream')
      BY <1>t, <1>m, <2>1, <3>1, SrvAdvance
    <3> QED
      BY <1>k, <2>1, <3>1, <3>2 DEF Drains
  <2>4. CASE new
    <3>1. x \in Ids /\ x > swater /\ x % 2 = 1
      BY <1>m, <2>2, <2>4, Bounds
    <3>2. swater' = x /\ sactive' = sactive \cup {x}
          /\ sstream' = [sstream EXCEPT ![x] = "OPEN"]
      BY <2>1, <2>4
    <3> HIDE DEF new, x
    <3>3. sstream'[x] = "OPEN" /\ \A s \in Ids : s # x => sstream'[s] = sstream[s]
      BY <1>m, <3>1, <3>2 DEF StreamMap
    <3>4. /\ \A s \in Ids \ {x} : Forward(sstream[s], sstream'[s])
          /\ \A s \in Ids \ {x} : sstream[s] = NoStream => sstream'[s] = NoStream
      BY <1>m, <3>3, ForwardFacts DEF StreamMap
    <3>5. /\ Advance(sstream, sstream') /\ SrvCounters'
          /\ \A s \in Ids : sstream'[s] # NoStream => sstream[s] # NoStream \/ s = x
      BY <1>n, <2>1, <3>1, <3>2, <3>3, <3>4
    <3>6. Consistent(s2c', sstream')
      BY <1>m, <2>1, <3>5, ConsistentStill
    <3> QED
      BY <2>1, <3>1, <3>2, <3>5, <3>6 DEF x, Drains
  <2> QED
    BY <2>3, <2>4
<1>10. CASE SrvRecvClose
  <2> DEFINE mine == {Head(c2s).stream} \cap sactive
  <2>1. /\ s2c' = s2c /\ c2s # <<>> /\ c2s' = Tail(c2s) /\ UNCHANGED <<swater, snext>>
        /\ sstream' = SrvPeerClosedAll(mine) /\ sactive' \subseteq sactive
    BY <1>10 DEF SrvRecvClose, SrvHead, SrvTakes
  <2>2. mine \in SUBSET Ids
    BY <1>m
  <2>3. /\ Advance(sstream, sstream')
        /\ \A s \in Ids : sstream[s] = NoStream => sstream'[s] = NoStream
    BY <1>t, <2>1, <2>2, SrvAdvance
  <2>4. Consistent(s2c', sstream')
    BY <1>m, <2>1, <2>3, ConsistentStill
  <2> QED
    BY <1>k, <2>1, <2>3, <2>4 DEF Drains
<1>11. CASE SrvRecvReset
  <2> DEFINE mine == {Head(c2s).stream} \cap sactive
  <2>1. /\ s2c' = s2c /\ c2s # <<>> /\ c2s' = Tail(c2s) /\ UNCHANGED <<swater, snext>>
        /\ sstream' = SrvEndAll(mine) /\ sactive' = sactive
    BY <1>11 DEF SrvRecvReset, SrvHead, SrvTakes
  <2>2. mine \in SUBSET Ids /\ \A s \in mine : sstream[s] # NoStream
    BY <1>m DEF SrvCounters
  <2>3. /\ Advance(sstream, sstream')
        /\ \A s \in Ids : sstream[s] = NoStream => sstream'[s] = NoStream
    BY <1>t, <2>1, <2>2, SrvAdvance
  <2>4. Consistent(s2c', sstream')
    BY <1>m, <2>1, <2>3, ConsistentStill
  <2> QED
    BY <1>k, <2>1, <2>3, <2>4 DEF Drains
<1>12. CASE SrvRecvExpired
  <2> DEFINE f == Head(c2s)
             new == f.type = "data" /\ f.stream % 2 = 1 /\ f.stream > swater
             x == f.stream
  <2>1. /\ c2s # <<>> /\ c2s' = <<>> /\ s2c' = ToClient(<<GoawayMsg(1003), WsAbort>>)
        /\ snext' = snext
        /\ sactive' = IF new THEN {x} ELSE {}
        /\ swater' = IF new THEN x ELSE swater
        /\ sstream' = [s \in Ids |-> IF new /\ s = x THEN "OPEN" ELSE SrvEndAll(sactive)[s]]
    BY <1>12 DEF SrvRecvExpired, SrvHead, SrvHangUp
  <2>2. x \in 0..MaxId /\ (x > 0 => x \in Ids)
    BY <1>12, <1>t, SrvTakesType, TakeStream DEF SrvRecvExpired
  <2> DEFINE bye == <<GoawayMsg(1003), WsAbort>>
  <2>3. bye \in Seq(Frame) /\ s2c' = ToClient(bye)
    BY <2>1, GoodbyeType
  <2>4. Sendable(bye, sstream, sstream')
    BY GoawayFrames
  <2> HIDE DEF bye
  <2>5. /\ Advance(sstream, SrvEndAll(sactive))
        /\ \A s \in Ids : sstream[s] = NoStream => SrvEndAll(sactive)[s] = NoStream
    BY <1>t, <1>m, SrvAdvance DEF SrvCounters
  <2>6. CASE ~new
    <3>1. sactive' = {} /\ swater' = swater
          /\ \A s \in Ids : sstream'[s] = SrvEndAll(sactive)[s]
      BY <2>1, <2>6
    <3>2. /\ Advance(sstream, sstream')
          /\ \A s \in Ids : sstream[s] = NoStream => sstream'[s] = NoStream
      BY <2>5, <3>1 DEF Advance
    <3>3. Consistent(s2c', sstream')
      BY <1>t, <1>m, <2>3, <2>4, <3>2, SendConsistent
    <3> QED
      BY <1>k, <2>1, <3>1, <3>2, <3>3 DEF Drains
  <2>7. CASE new
    <3>1. x \in Ids /\ x > swater /\ x % 2 = 1 /\ Head(c2s).type = "data"
      BY <1>m, <2>2, <2>7, Bounds
    <3>2. swater' = x /\ sactive' = {x} /\ sstream'[x] = "OPEN"
          /\ \A s \in Ids : s # x => sstream'[s] = SrvEndAll(sactive)[s]
      BY <2>1, <2>7, <3>1
    <3> HIDE DEF new, x
    <3>3. /\ \A s \in Ids \ {x} : Forward(sstream[s], sstream'[s])
          /\ \A s \in Ids \ {x} : sstream[s] = NoStream => sstream'[s] = NoStream
      BY <2>5, <3>2 DEF Advance
    <3>4. /\ Advance(sstream, sstream') /\ SrvCounters'
          /\ \A s \in Ids : sstream'[s] # NoStream => sstream[s] # NoStream \/ s = x
      BY <1>n, <2>1, <3>1, <3>2, <3>3
    <3>5. Consistent(s2c', sstream')
      BY <1>t, <1>m, <2>3, <2>4, <3>4, SendConsistent
    <3> QED
      BY <2>1, <3>1, <3>2, <3>4, <3>5 DEF x, f, Drains
  <2> QED
    BY <2>6, <2>7
<1> QED
  BY <1>1, <1>2, <1>3, <1>4, <1>5, <1>6, <1>7, <1>8, <1>9, <1>10, <1>11, <1>12
  DEF SrvSystem
-----------------------------------------------------------------------------
(* The two ends together *)

LEMMA StreamInvInit == Init => StreamInv
<1> SUFFICES ASSUME Init PROVE StreamInv
  OBVIOUS
<1>1. c2s = <<>> /\ s2c = <<>> /\ cnext = 1 /\ cwater = 0 /\ snext = 2 /\ swater = 0
  BY DEF Init, WireInit, ClientInit, ServerInit
<1>2. cactive = {} /\ sactive = {}
      /\ \A s \in Ids : cstream[s] = NoStream /\ sstream[s] = NoStream
  BY DEF Init, ClientInit, ServerInit
<1>3. Consistent(c2s, cstream) /\ Consistent(s2c, sstream)
  BY <1>1, ConsistentEmpty
<1>4. CliCounters /\ SrvCounters
  BY <1>1, <1>2 DEF CliCounters, SrvCounters
<1>5. PeerOpened
  BY <1>1, <1>2 DEF PeerOpened, ClientIds, ServerIds
<1> QED
  BY <1>3, <1>4, <1>5 DEF StreamInv

\* The queue of the other sender only loses frames.
LEMMA ConsistentDrained ==
  ASSUME NEW st, NEW q \in Seq(Frame), NEW r, Consistent(q, st),
         r = q \/ r = <<>> \/ (q # <<>> /\ r = Tail(q))
  PROVE  Consistent(r, st)
BY ConsistentEmpty, ConsistentTail

LEMMA ClientStepInv ==
  ASSUME TypeOK, TypeOK', StreamInv, ClientStep
  PROVE  StreamInv' /\ Advance(cstream, cstream') /\ Advance(sstream, sstream')
<1>t. WireTypeOK /\ ClientTypeOK /\ ServerTypeOK /\ ClientTypeOK'
  BY DEF TypeOK
<1>m. /\ s2c \in Seq(Frame) /\ cstream \in StreamMap /\ cstream' \in StreamMap
      /\ cnext \in Nat /\ cnext' \in Nat /\ snext \in Nat /\ swater \in Nat
      /\ ClientIds \subseteq Ids /\ ServerIds \subseteq Ids
  BY <1>t, Bounds
  DEF WireTypeOK, ClientTypeOK, ServerTypeOK, StreamMap, ClientIds, ServerIds
<1>u. sstream' = sstream /\ sactive' = sactive /\ snext' = snext /\ swater' = swater
  BY DEF ClientStep, serverVars
<1>l. CliLedger /\ Consistent(s2c, sstream) /\ SrvCounters /\ PeerOpened
  BY DEF StreamInv, CliLedger
<1>1. /\ CliLedger' /\ Advance(cstream, cstream') /\ cnext' >= cnext
      /\ s2c' = s2c \/ s2c' = <<>> \/ (s2c # <<>> /\ s2c' = Tail(s2c))
      /\ cwater' < snext
      /\ \A s \in ServerIds : cstream'[s] # NoStream => sstream[s] # NoStream
  <2>1. CASE CliUser
    <3>1. /\ CliLedger' /\ Advance(cstream, cstream') /\ s2c' = s2c
          /\ cwater' = cwater /\ cnext' >= cnext
          /\ \A s \in ServerIds : cstream'[s] # NoStream => cstream[s] # NoStream
      BY <1>l, <2>1, CliUserLedger
    <3> QED
      BY <1>l, <3>1 DEF PeerOpened
  <2>2. CASE CliSystem
    <3> DEFINE x == Head(s2c).stream
    <3>1. /\ CliLedger' /\ Advance(cstream, cstream') /\ cnext' = cnext
          /\ s2c' = s2c \/ s2c' = <<>> \/ (s2c # <<>> /\ s2c' = Tail(s2c))
          /\ \/ /\ cwater' = cwater
                /\ \A s \in Ids : cstream'[s] # NoStream => cstream[s] # NoStream
             \/ /\ s2c # <<>> /\ Head(s2c).type = "data" /\ x % 2 = 0
                /\ cwater' = x
                /\ \A s \in Ids : cstream'[s] # NoStream => cstream[s] # NoStream \/ s = x
      BY <1>l, <2>2, CliSystemLedger
    <3>2. cnext' >= cnext
      BY <1>m, <3>1
    <3>3. CASE /\ cwater' = cwater
               /\ \A s \in Ids : cstream'[s] # NoStream => cstream[s] # NoStream
      BY <1>l, <1>m, <3>1, <3>2, <3>3 DEF PeerOpened
    <3>4. CASE /\ s2c # <<>> /\ Head(s2c).type = "data" /\ x % 2 = 0
               /\ cwater' = x
               /\ \A s \in Ids : cstream'[s] # NoStream => cstream[s] # NoStream \/ s = x
      <4>1. x \in Ids /\ sstream[x] # NoStream
        BY <1>l, <1>m, <3>4, ConsistentHead DEF StreamFrames
      <4> HIDE DEF x
      <4>2. x < snext
        BY <1>l, <3>4, <4>1 DEF SrvCounters
      <4>3. \A s \in ServerIds : cstream'[s] # NoStream => sstream[s] # NoStream
        BY <1>l, <1>m, <3>4, <4>1 DEF PeerOpened
      <4> QED
        BY <3>1, <3>2, <3>4, <4>2, <4>3
    <3> QED
      BY <3>1, <3>3, <3>4
  <2> QED
    BY <2>1, <2>2 DEF ClientStep
<1>2. Consistent(s2c', sstream)
  BY <1>1, <1>l, <1>m, ConsistentDrained
<1>3. PeerOpened'
  <2>1. \A s \in ClientIds : sstream[s] # NoStream => cstream'[s] # NoStream
    BY <1>1, <1>l, <1>m, ForwardFacts DEF PeerOpened, Advance, StreamMap
  <2>2. swater < cnext'
    BY <1>1, <1>l, <1>m DEF PeerOpened
  <2> QED
    BY <1>1, <1>u, <2>1, <2>2 DEF PeerOpened
<1>4. SrvCounters'
  BY <1>l, <1>u DEF SrvCounters
<1>5. Advance(sstream, sstream')
  BY <1>t, <1>u, SrvAdvance
<1> QED
  BY <1>1, <1>2, <1>3, <1>4, <1>5, <1>u DEF StreamInv, CliLedger

LEMMA ServerStepInv ==
  ASSUME TypeOK, TypeOK', StreamInv, ServerStep
  PROVE  StreamInv' /\ Advance(cstream, cstream') /\ Advance(sstream, sstream')
<1>t. WireTypeOK /\ ClientTypeOK /\ ServerTypeOK /\ ServerTypeOK'
  BY DEF TypeOK
<1>m. /\ c2s \in Seq(Frame) /\ sstream \in StreamMap /\ sstream' \in StreamMap
      /\ snext \in Nat /\ snext' \in Nat /\ cnext \in Nat /\ cwater \in Nat
      /\ ClientIds \subseteq Ids /\ ServerIds \subseteq Ids
  BY <1>t, Bounds
  DEF WireTypeOK, ClientTypeOK, ServerTypeOK, StreamMap, ClientIds, ServerIds
<1>u. cstream' = cstream /\ cactive' = cactive /\ cnext' = cnext /\ cwater' = cwater
  BY DEF ServerStep, clientVars
<1>l. SrvLedger /\ Consistent(c2s, cstream) /\ CliCounters /\ PeerOpened
  BY DEF StreamInv, SrvLedger
<1>1. /\ SrvLedger' /\ Advance(sstream, sstream') /\ snext' >= snext /\ Drains
      /\ swater' < cnext
      /\ \A s \in ClientIds : sstream'[s] # NoStream => cstream[s] # NoStream
  <2>1. CASE SrvUser
    <3>1. /\ SrvLedger' /\ Advance(sstream, sstream') /\ Drains
          /\ swater' = swater /\ snext' >= snext
          /\ \A s \in ClientIds : sstream'[s] # NoStream => sstream[s] # NoStream
      BY <1>l, <2>1, SrvUserLedger
    <3> QED
      BY <1>l, <3>1 DEF PeerOpened
  <2>2. CASE SrvSystem
    <3> DEFINE x == Head(c2s).stream
    <3>1. /\ SrvLedger' /\ Advance(sstream, sstream') /\ snext' = snext /\ Drains
          /\ \/ /\ swater' = swater
                /\ \A s \in Ids : sstream'[s] # NoStream => sstream[s] # NoStream
             \/ /\ c2s # <<>> /\ Head(c2s).type = "data" /\ x % 2 = 1
                /\ swater' = x
                /\ \A s \in Ids : sstream'[s] # NoStream => sstream[s] # NoStream \/ s = x
      BY <1>l, <2>2, SrvSystemLedger
    <3>2. snext' >= snext
      BY <1>m, <3>1
    <3>3. CASE /\ swater' = swater
               /\ \A s \in Ids : sstream'[s] # NoStream => sstream[s] # NoStream
      BY <1>l, <1>m, <3>1, <3>2, <3>3 DEF PeerOpened
    <3>4. CASE /\ c2s # <<>> /\ Head(c2s).type = "data" /\ x % 2 = 1
               /\ swater' = x
               /\ \A s \in Ids : sstream'[s] # NoStream => sstream[s] # NoStream \/ s = x
      <4>1. x \in Ids /\ cstream[x] # NoStream
        BY <1>l, <1>m, <3>4, ConsistentHead DEF StreamFrames
      <4> HIDE DEF x
      <4>2. x < cnext
        BY <1>l, <3>4, <4>1 DEF CliCounters
      <4>3. \A s \in ClientIds : sstream'[s] # NoStream => cstream[s] # NoStream
        BY <1>l, <1>m, <3>4, <4>1 DEF PeerOpened
      <4> QED
        BY <3>1, <3>2, <3>4, <4>2, <4>3
    <3> QED
      BY <3>1, <3>3, <3>4
  <2> QED
    BY <2>1, <2>2 DEF ServerStep
<1>2. Consistent(c2s', cstream)
  BY <1>1, <1>l, <1>m, ConsistentDrained DEF Drains
<1>3. PeerOpened'
  <2>1. \A s \in ServerIds : cstream[s] # NoStream => sstream'[s] # NoStream
    BY <1>1, <1>l, <1>m, ForwardFacts DEF PeerOpened, Advance, StreamMap
  <2>2. cwater < snext'
    BY <1>1, <1>l, <1>m DEF PeerOpened
  <2> QED
    BY <1>1, <1>u, <2>1, <2>2 DEF PeerOpened
<1>4. CliCounters'
  BY <1>l, <1>u DEF CliCounters
<1>5. Advance(cstream, cstream')
  BY <1>t, <1>u, CliAdvance
<1> QED
  BY <1>1, <1>2, <1>3, <1>4, <1>5, <1>u DEF StreamInv, SrvLedger

LEMMA StreamInvNext ==
  TypeOK /\ TypeOK' /\ StreamInv /\ [Next]_vars =>
    StreamInv' /\ Advance(cstream, cstream') /\ Advance(sstream, sstream')
<1> SUFFICES ASSUME TypeOK, TypeOK', StreamInv, [Next]_vars
             PROVE  StreamInv' /\ Advance(cstream, cstream') /\ Advance(sstream, sstream')
  OBVIOUS
<1>t. Advance(cstream, cstream) /\ Advance(sstream, sstream)
  BY CliAdvance, SrvAdvance DEF TypeOK
<1>1. CASE ClientStep
  BY <1>1, ClientStepInv
<1>2. CASE ServerStep
  BY <1>2, ServerStepInv
<1>3. CASE LinkStep
  <2>1. c2s' = <<>> /\ s2c' = <<>>
        /\ UNCHANGED <<cstream, cactive, cnext, cwater, sstream, sactive, snext, swater>>
    BY <1>3 DEF LinkStep, LinkLost, clientVars, serverVars
  <2>2. Consistent(c2s', cstream') /\ Consistent(s2c', sstream')
    BY <2>1, ConsistentEmpty
  <2>3. CliCounters' /\ SrvCounters' /\ PeerOpened'
    BY <2>1 DEF StreamInv, CliCounters, SrvCounters, PeerOpened
  <2> QED
    BY <1>t, <2>1, <2>2, <2>3 DEF StreamInv
<1>4. CASE UNCHANGED vars
  <2>1. UNCHANGED <<c2s, s2c, cstream, cactive, cnext, cwater, sstream, sactive, snext, swater>>
    BY <1>4 DEF vars, wireVars, clientVars, serverVars
  <2>2. CliCounters' /\ SrvCounters' /\ PeerOpened'
    BY <2>1 DEF StreamInv, CliCounters, SrvCounters, PeerOpened
  <2> QED
    BY <1>t, <2>1, <2>2 DEF StreamInv
<1> QED
  BY <1>1, <1>2, <1>3, <1>4 DEF Next

\* The invariant that carries the three results below: frames in flight are
\* about streams their sender has, and identifiers stay below the counters.
THEOREM StreamInvariant == Spec => []StreamInv
<1>1. TypeOK /\ StreamInv /\ [Next]_vars /\ TypeOK' => StreamInv'
  BY StreamInvNext
<1> QED
  BY <1>1, TypeCorrect, StreamInvInit, PTL DEF Spec

\* Nothing follows a close or reset: no end puts a frame of a stream on the
\* wire behind the frame that ended its half of the stream.
THEOREM LastWordIsLast == Spec => []FinalFrame
<1>1. StreamInv => FinalFrame
  BY DEF StreamInv, FinalFrame, Consistent
<1> QED
  BY <1>1, StreamInvariant, PTL

\* No end invents a stream: what the watermark test of onSocketMessage lets
\* in was opened by the peer, and the watermark trails the peer's nextStream.
THEOREM StreamsComeFromPeers == Spec => []PeerOpened
<1>1. StreamInv => PeerOpened
  BY DEF StreamInv
<1> QED
  BY <1>1, StreamInvariant, PTL

\* Streams only move forward: no late frame, no error after close and no
\* teardown of the socket brings an ended stream back.
THEOREM StreamsMoveForward == Spec => StreamLifecycle
<1>1. TypeOK /\ TypeOK' /\ StreamInv /\ [Next]_vars => [StreamsForward]_vars
  BY StreamInvNext DEF Advance, StreamsForward
<1> QED
  BY <1>1, TypeCorrect, StreamInvariant, PTL DEF Spec, StreamLifecycle
-----------------------------------------------------------------------------
(* What is in flight on a stream *)

DataOf(f, s) == f.type = "data" /\ f.stream = s
EndOf(f, s) == f.type \in {"close", "reset"} /\ f.stream = s
Ended(q, s) == \E i \in DOMAIN q : EndOf(q[i], s)
NoData(q, s) == \A i \in DOMAIN q : ~DataOf(q[i], s)

\* The data frames of s in q have the ranks lo + 1 to hi, in this order.
Ranked(q, s, lo, hi) ==
  /\ lo \in Nat /\ hi \in Nat /\ lo <= hi
  /\ \A i \in DOMAIN q : DataOf(q[i], s) => lo < q[i].n /\ q[i].n <= hi
  /\ \A i, j \in DOMAIN q : i < j /\ DataOf(q[i], s) /\ DataOf(q[j], s) => q[i].n < q[j].n
  /\ \A k \in Nat : lo < k /\ k <= hi => \E i \in DOMAIN q : DataOf(q[i], s) /\ q[i].n = k

\* What the receiver got and what is in flight is what was sent, unless the
\* connection is down and the rest was lost.
Flows(q, s, got, sent, up) ==
  \E hi \in Nat : Ranked(q, s, got, hi) /\ (up \/ Ended(q, s) => hi = sent)

\* Frames to the server, and to the client, are queued.
Up == link /\ cws = "OPEN" /\ sws = "OPEN"
Down == link /\ sws = "OPEN" /\ cws # "CLOSED"

\* The streams whose next data frame an end hands over.
SrvHears(s) ==
  /\ sws = "OPEN" /\ sstate # "CLOSED"
  /\ \/ s \in sactive /\ sstream[s] \in {"OPEN", "CLOSING"}
     \/ sstream[s] = NoStream /\ s % 2 = 1 /\ s > swater
CliHearsOn(s) ==
  /\ cws = "OPEN" \/ (cws = "CLOSING" /\ HearsWhileClosing)
  /\ \/ s \in cactive /\ cstream[s] \in {"OPEN", "CLOSING"} /\ (s % 2 = 1 \/ ~HearsWhileClosing)
     \/ cstream[s] = NoStream /\ s % 2 = 0 /\ s > cwater /\ ~HearsWhileClosing

CliSocketInv ==
  /\ cstate = "IDLE" => c2s = <<>> /\ \A s \in Ids : cstream[s] = NoStream /\ sstream[s] = NoStream
  /\ cstate = "IDLE" => sstate \notin {"AUTH", "CLOSING"}
  /\ cstate \in {"IDLE", "CLOSED"} => cactive = {}
  /\ cstate = "CLOSEWAIT" => cws = "CLOSED"
  /\ cws = "OPEN" => \/ cstate \in {"IDLE", "AUTH_SENT"}
                     \/ cstate = "CLOSED" /\ sws = "CLOSED" /\ \A i \in DOMAIN s2c : s2c[i].type # "data"
  /\ creturn = "CLOSEWAIT" => cws = "CLOSED"
  /\ creturn = "CLOSED" /\ cws = "OPEN" => sws = "CLOSED" /\ \A i \in DOMAIN s2c : s2c[i].type # "data"
SrvSocketInv ==
  /\ sws = "OPEN" => sstate # "CLOSING" /\ \A i \in DOMAIN s2c : s2c[i].type \notin {"goaway", "wsclose"}
  /\ sws = "CLOSED" => c2s = <<>> /\ sstate \notin {"IDLE", "AUTH"}
  /\ sstate = "IDLE" => sactive = {} /\ \A s \in Ids : sstream[s] = NoStream
  /\ \A i, j \in DOMAIN s2c : i < j /\ s2c[i].type = "goaway" => s2c[j].type # "data"

\* A stream that left activeStreams has ended, as long as the socket works.
LeftInv ==
  /\ Up => \A s \in Ids : cstream[s] # NoStream /\ s \notin cactive => cstream[s] = "CLOSED"
  /\ sstate = "AUTH" => \A s \in Ids : sstream[s] # NoStream /\ s \notin sactive => sstream[s] = "CLOSED"

FlowInv ==
  /\ \A s \in Ids : cstream[s] = NoStream => csent[s] = 0 /\ cgot[s] = <<>>
  /\ \A s \in Ids : sstream[s] = NoStream => ssent[s] = 0 /\ sgot[s] = <<>>
  /\ \A s \in Ids : SrvHears(s) => Flows(c2s, s, Len(sgot[s]), csent[s], Up)
  /\ \A s \in Ids : CliHearsOn(s) => Flows(s2c, s, Len(cgot[s]), ssent[s], Down)
  /\ InOrder

\* A stream of which one end is in state m and the other in state o, with q in
\* flight from the first to the second: an end that closed has told the other.
Told(q, s, m, o) ==
  m \in {"CLOSING", "CLOSED"} =>
    \/ Ended(q, s) \/ o \in {"CLOSEWAIT", "CLOSED"}
    \/ o = NoStream /\ NoData(q, s)
Heard(q, s, m, o) ==
  /\ m = "CLOSEWAIT" => o \in {"CLOSING", "CLOSED"}
  /\ \A i \in DOMAIN q : q[i].type = "reset" /\ q[i].stream = s => m = "CLOSED"
EndsAt(q, r, s, m, o) == Told(q, s, m, o) /\ Told(r, s, o, m) /\ Heard(q, s, m, o) /\ Heard(r, s, o, m)
EndsInv ==
  Up /\ sstate # "CLOSED" => \A s \in Ids : EndsAt(c2s, s2c, s, cstream[s], sstream[s])
-----------------------------------------------------------------------------
LEMMA RankedNone ==
  ASSUME NEW q, NEW s, NEW n \in Nat, NoData(q, s)
  PROVE  Ranked(q, s, n, n)
BY DEF Ranked, NoData

LEMMA RankedStop ==
  ASSUME NEW q, NEW s, NEW lo, NEW hi, NoData(q, s), Ranked(q, s, lo, hi)
  PROVE  lo = hi
<1>1. lo \in Nat /\ hi \in Nat /\ lo <= hi
  BY DEF Ranked
<1>2. ~(lo < hi)
  <2> SUFFICES ASSUME lo < hi PROVE FALSE
    OBVIOUS
  <2>1. \E i \in DOMAIN q : DataOf(q[i], s) /\ q[i].n = hi
    BY <1>1 DEF Ranked
  <2> QED
    BY <2>1 DEF NoData
<1> QED
  BY <1>1, <1>2

\* The elements of a tail, and of a queue with more frames.
LEMMA TailIs ==
  ASSUME NEW q \in Seq(Frame), q # <<>>
  PROVE  /\ \A i \in DOMAIN Tail(q) : i \in Nat /\ i + 1 \in DOMAIN q /\ Tail(q)[i] = q[i + 1]
         /\ \A i \in DOMAIN q : i \in Nat /\ (i = 1 \/ (i - 1 \in DOMAIN Tail(q) /\ q[i] = Tail(q)[i - 1]))
         /\ 1 \in DOMAIN q /\ q[1] = Head(q)
OBVIOUS

LEMMA MoreIs ==
  ASSUME NEW q \in Seq(Frame), NEW r \in Seq(Frame)
  PROVE  /\ \A i \in DOMAIN (q \o r) :
              \/ i \in DOMAIN q /\ (q \o r)[i] = q[i]
              \/ i - Len(q) \in DOMAIN r /\ (q \o r)[i] = r[i - Len(q)] /\ i > Len(q)
         /\ \A i \in DOMAIN q : i \in DOMAIN (q \o r) /\ (q \o r)[i] = q[i] /\ i \in Nat /\ i <= Len(q)
         /\ \A i \in DOMAIN r : i \in Nat /\ i + Len(q) \in DOMAIN (q \o r) /\ (q \o r)[i + Len(q)] = r[i]
         /\ Len(q) \in Nat /\ DOMAIN (q \o r) \subseteq Nat
OBVIOUS

\* The head is a frame of another stream, or not data.
LEMMA RankedPass ==
  ASSUME NEW q \in Seq(Frame), q # <<>>, NEW s, NEW lo, NEW hi, Ranked(q, s, lo, hi), ~DataOf(Head(q), s)
  PROVE  Ranked(Tail(q), s, lo, hi)
<1>1. PICK t : t = Tail(q)
  OBVIOUS
<1>2. /\ \A i \in DOMAIN t : i \in Nat /\ i + 1 \in DOMAIN q /\ t[i] = q[i + 1]
      /\ \A i \in DOMAIN q : i \in Nat /\ (i = 1 \/ (i - 1 \in DOMAIN t /\ q[i] = t[i - 1]))
      /\ q[1] = Head(q)
  BY <1>1, TailIs
<1>3. lo \in Nat /\ hi \in Nat /\ lo <= hi
  BY DEF Ranked
<1>4. \A i \in DOMAIN t : DataOf(t[i], s) => lo < t[i].n /\ t[i].n <= hi
  BY <1>2 DEF Ranked
<1>5. \A i, j \in DOMAIN t : i < j /\ DataOf(t[i], s) /\ DataOf(t[j], s) => t[i].n < t[j].n
  <2> SUFFICES ASSUME NEW i \in DOMAIN t, NEW j \in DOMAIN t, i < j, DataOf(t[i], s), DataOf(t[j], s)
               PROVE  t[i].n < t[j].n
    OBVIOUS
  <2>1. i + 1 \in DOMAIN q /\ j + 1 \in DOMAIN q /\ t[i] = q[i + 1] /\ t[j] = q[j + 1] /\ i + 1 < j + 1
    BY <1>2
  <2> QED
    BY <2>1 DEF Ranked
<1>6. \A k \in Nat : lo < k /\ k <= hi => \E i \in DOMAIN t : DataOf(t[i], s) /\ t[i].n = k
  <2> SUFFICES ASSUME NEW k \in Nat, lo < k, k <= hi
               PROVE  \E i \in DOMAIN t : DataOf(t[i], s) /\ t[i].n = k
    OBVIOUS
  <2>1. PICK i \in DOMAIN q : DataOf(q[i], s) /\ q[i].n = k
    BY DEF Ranked
  <2>2. i # 1
    BY <1>2, <2>1
  <2> QED
    BY <1>2, <2>1, <2>2
<1> QED
  BY <1>1, <1>3, <1>4, <1>5, <1>6 DEF Ranked

\* The head is the next data frame.
LEMMA RankedTake ==
  ASSUME NEW q \in Seq(Frame), q # <<>>, NEW s, NEW lo, NEW hi, Ranked(q, s, lo, hi), DataOf(Head(q), s)
  PROVE  Head(q).n = lo + 1 /\ Ranked(Tail(q), s, lo + 1, hi)
<1>1. PICK t : t = Tail(q)
  OBVIOUS
<1>2. /\ \A i \in DOMAIN t : i \in Nat /\ i + 1 \in DOMAIN q /\ t[i] = q[i + 1]
      /\ \A i \in DOMAIN q : i \in Nat /\ (i = 1 \/ (i - 1 \in DOMAIN t /\ q[i] = t[i - 1]))
      /\ 1 \in DOMAIN q /\ q[1] = Head(q)
  BY <1>1, TailIs
<1>3. PICK n : n = Head(q).n
  OBVIOUS
<1>4. lo \in Nat /\ hi \in Nat /\ lo < n /\ n <= hi /\ n \in Nat
  <2>1. Head(q) \in Frame
    BY HeadType
  <2> QED
    BY <1>2, <1>3, <2>1 DEF Ranked, Frame
<1>5. n = lo + 1
  <2>1. PICK i \in DOMAIN q : DataOf(q[i], s) /\ q[i].n = lo + 1
    BY <1>4 DEF Ranked
  <2>2. i = 1 \/ 1 < i
    BY <1>2
  <2>3. 1 < i => n < lo + 1
    BY <1>2, <1>3, <2>1 DEF Ranked
  <2> QED
    BY <1>2, <1>3, <1>4, <2>1, <2>2, <2>3
<1>6. \A i \in DOMAIN t : DataOf(t[i], s) => lo + 1 < t[i].n /\ t[i].n <= hi
  <2> SUFFICES ASSUME NEW i \in DOMAIN t, DataOf(t[i], s) PROVE lo + 1 < t[i].n /\ t[i].n <= hi
    OBVIOUS
  <2>1. i + 1 \in DOMAIN q /\ t[i] = q[i + 1] /\ 1 < i + 1
    BY <1>2
  <2>2. q[1].n < q[i + 1].n /\ q[i + 1].n <= hi
    BY <1>2, <2>1 DEF Ranked
  <2> QED
    BY <1>2, <1>3, <1>5, <2>1, <2>2
<1>7. \A i, j \in DOMAIN t : i < j /\ DataOf(t[i], s) /\ DataOf(t[j], s) => t[i].n < t[j].n
  <2> SUFFICES ASSUME NEW i \in DOMAIN t, NEW j \in DOMAIN t, i < j, DataOf(t[i], s), DataOf(t[j], s)
               PROVE  t[i].n < t[j].n
    OBVIOUS
  <2>1. i + 1 \in DOMAIN q /\ j + 1 \in DOMAIN q /\ t[i] = q[i + 1] /\ t[j] = q[j + 1] /\ i + 1 < j + 1
    BY <1>2
  <2> QED
    BY <2>1 DEF Ranked
<1>8. \A k \in Nat : lo + 1 < k /\ k <= hi => \E i \in DOMAIN t : DataOf(t[i], s) /\ t[i].n = k
  <2> SUFFICES ASSUME NEW k \in Nat, lo + 1 < k, k <= hi
               PROVE  \E i \in DOMAIN t : DataOf(t[i], s) /\ t[i].n = k
    OBVIOUS
  <2>1. lo < k
    BY <1>4
  <2>2. PICK i \in DOMAIN q : DataOf(q[i], s) /\ q[i].n = k
    BY <2>1 DEF Ranked
  <2>3. i # 1
    BY <1>2, <1>3, <1>4, <1>5, <2>2
  <2> QED
    BY <1>2, <2>2, <2>3
<1>9. lo + 1 \in Nat /\ lo + 1 <= hi
  BY <1>4, <1>5
<1> QED
  BY <1>1, <1>3, <1>4, <1>5, <1>6, <1>7, <1>8, <1>9 DEF Ranked

\* Frames of other streams, or no data, are added.
LEMMA RankedOther ==
  ASSUME NEW q \in Seq(Frame), NEW r \in Seq(Frame), NEW s, NEW lo, NEW hi, Ranked(q, s, lo, hi), NoData(r, s)
  PROVE  Ranked(q \o r, s, lo, hi)
<1>1. PICK c : c = q \o r
  OBVIOUS
<1>2. /\ \A i \in DOMAIN c : \/ i \in DOMAIN q /\ c[i] = q[i]
                             \/ i - Len(q) \in DOMAIN r /\ c[i] = r[i - Len(q)] /\ i > Len(q)
      /\ \A i \in DOMAIN q : i \in DOMAIN c /\ c[i] = q[i]
  BY <1>1, MoreIs
<1>3. \A i \in DOMAIN c : DataOf(c[i], s) => i \in DOMAIN q /\ c[i] = q[i]
  BY <1>2 DEF NoData
<1> QED
  BY <1>1, <1>2, <1>3 DEF Ranked

\* The next data frame is added.
LEMMA RankedNext ==
  ASSUME NEW q \in Seq(Frame), NEW s \in Ids, NEW lo, NEW hi \in Nat, Ranked(q, s, lo, hi)
  PROVE  Ranked(q \o <<StreamDataMsg(s, hi + 1)>>, s, lo, hi + 1)
<1>0. PICK r : r = <<StreamDataMsg(s, hi + 1)>>
  OBVIOUS
<1>1. r \in Seq(Frame) /\ DOMAIN r = {1} /\ DataOf(r[1], s) /\ r[1].n = hi + 1
  <2>1. StreamDataMsg(s, hi + 1) \in Frame
    BY FrameType
  <2> QED
    BY <1>0, <2>1 DEF StreamDataMsg, F, DataOf
<1>2. PICK c : c = q \o r
  OBVIOUS
<1>3. /\ \A i \in DOMAIN c : \/ i \in DOMAIN q /\ c[i] = q[i]
                             \/ i - Len(q) \in DOMAIN r /\ c[i] = r[i - Len(q)] /\ i > Len(q)
      /\ \A i \in DOMAIN q : i \in DOMAIN c /\ c[i] = q[i] /\ i \in Nat /\ i <= Len(q)
      /\ \A i \in DOMAIN r : i \in Nat /\ i + Len(q) \in DOMAIN c /\ c[i + Len(q)] = r[i]
      /\ Len(q) \in Nat /\ DOMAIN c \subseteq Nat
  BY <1>1, <1>2, MoreIs
<1>4. PICK l \in Nat : l = Len(q)
  BY <1>3
<1>5. /\ \A i \in DOMAIN c : \/ i \in DOMAIN q /\ c[i] = q[i] /\ i <= l
                             \/ i = l + 1 /\ DataOf(c[i], s) /\ c[i].n = hi + 1
      /\ l + 1 \in DOMAIN c /\ DataOf(c[l + 1], s) /\ c[l + 1].n = hi + 1
      /\ \A i \in DOMAIN q : i \in DOMAIN c /\ c[i] = q[i] /\ i \in Nat /\ i <= l
  <2>1. \A i \in DOMAIN c : i - l = 1 => i = l + 1
    BY <1>3
  <2>2. 1 + l = l + 1
    OBVIOUS
  <2> QED
    BY <1>1, <1>3, <1>4, <2>1, <2>2
<1>6. /\ lo \in Nat /\ lo <= hi /\ hi + 1 \in Nat /\ lo <= hi + 1
      /\ \A i \in DOMAIN q : DataOf(q[i], s) => lo < q[i].n /\ q[i].n <= hi /\ q[i].n \in Nat
  <2>1. \A i \in DOMAIN q : q[i] \in Frame
    OBVIOUS
  <2>2. \A f \in Frame : f.n \in Nat
    BY DEF Frame
  <2>3. lo \in Nat /\ lo <= hi /\ \A i \in DOMAIN q : DataOf(q[i], s) => lo < q[i].n /\ q[i].n <= hi
    BY DEF Ranked
  <2>4. hi + 1 \in Nat /\ lo <= hi + 1
    BY <2>3
  <2> QED
    BY <2>1, <2>2, <2>3, <2>4
<1>7. \A i \in DOMAIN c : DataOf(c[i], s) => lo < c[i].n /\ c[i].n <= hi + 1
  <2> SUFFICES ASSUME NEW i \in DOMAIN c, DataOf(c[i], s) PROVE lo < c[i].n /\ c[i].n <= hi + 1
    OBVIOUS
  <2>1. CASE i \in DOMAIN q /\ c[i] = q[i]
    <3>1. PICK n \in Nat : n = q[i].n /\ lo < n /\ n <= hi
      BY <1>6, <2>1
    <3> QED
      BY <2>1, <3>1
  <2>2. CASE c[i].n = hi + 1
    BY <1>6, <2>2
  <2> QED
    BY <1>5, <2>1, <2>2
<1>8. \A i, j \in DOMAIN c : i < j /\ DataOf(c[i], s) /\ DataOf(c[j], s) => c[i].n < c[j].n
  <2> SUFFICES ASSUME NEW i \in DOMAIN c, NEW j \in DOMAIN c, i < j, DataOf(c[i], s), DataOf(c[j], s)
               PROVE  c[i].n < c[j].n
    OBVIOUS
  <2>1. i \in Nat /\ j \in Nat
    BY <1>3
  <2>2. CASE j \in DOMAIN q /\ c[j] = q[j] /\ j <= l
    <3>1. i \in DOMAIN q /\ c[i] = q[i]
      BY <1>5, <2>1, <2>2
    <3> QED
      BY <2>2, <3>1 DEF Ranked
  <2>3. CASE j = l + 1 /\ c[j].n = hi + 1
    <3>1. i \in DOMAIN q /\ c[i] = q[i]
      BY <1>5, <2>1, <2>3
    <3>2. PICK n \in Nat : n = q[i].n /\ n <= hi
      BY <1>6, <3>1
    <3> QED
      BY <2>3, <3>1, <3>2
  <2> QED
    BY <1>5, <2>2, <2>3
<1>9. \A k \in Nat : lo < k /\ k <= hi + 1 => \E i \in DOMAIN c : DataOf(c[i], s) /\ c[i].n = k
  <2> SUFFICES ASSUME NEW k \in Nat, lo < k, k <= hi + 1
               PROVE  \E i \in DOMAIN c : DataOf(c[i], s) /\ c[i].n = k
    OBVIOUS
  <2>1. CASE k = hi + 1
    BY <1>5, <2>1
  <2>2. CASE k <= hi
    <3>1. PICK i \in DOMAIN q : DataOf(q[i], s) /\ q[i].n = k
      BY <2>2 DEF Ranked
    <3> QED
      BY <1>5, <3>1
  <2> QED
    BY <2>1, <2>2
<1> QED
  BY <1>0, <1>2, <1>6, <1>7, <1>8, <1>9 DEF Ranked
-----------------------------------------------------------------------------
(* Flows *)

LEMMA EndedTail ==
  ASSUME NEW q \in Seq(Frame), q # <<>>, NEW s
  PROVE  /\ Ended(Tail(q), s) => Ended(q, s)
         /\ Ended(q, s) /\ ~EndOf(Head(q), s) => Ended(Tail(q), s)
         /\ NoData(q, s) => NoData(Tail(q), s)
         /\ FinalIn(q) /\ EndOf(Head(q), s) => NoData(Tail(q), s)
<1>1. PICK t : t = Tail(q)
  OBVIOUS
<1>2. /\ \A i \in DOMAIN t : i \in Nat /\ i + 1 \in DOMAIN q /\ t[i] = q[i + 1]
      /\ \A i \in DOMAIN q : i \in Nat /\ (i = 1 \/ (i - 1 \in DOMAIN t /\ q[i] = t[i - 1]))
      /\ 1 \in DOMAIN q /\ q[1] = Head(q)
  BY <1>1, TailIs
<1>3. ASSUME FinalIn(q), EndOf(Head(q), s), NEW i \in DOMAIN t PROVE ~DataOf(t[i], s)
  <2>1. i + 1 \in DOMAIN q /\ t[i] = q[i + 1] /\ 1 < i + 1
    BY <1>2
  <2> QED
    BY <1>2, <1>3, <2>1 DEF FinalIn, EndOf, DataOf
<1>4. Ended(t, s) => Ended(q, s)
  BY <1>2 DEF Ended
<1>5. Ended(q, s) /\ ~EndOf(Head(q), s) => Ended(t, s)
  BY <1>2 DEF Ended
<1>6. NoData(q, s) => NoData(t, s)
  BY <1>2 DEF NoData
<1> QED
  BY <1>1, <1>3, <1>4, <1>5, <1>6 DEF NoData

LEMMA EndedMore ==
  ASSUME NEW q \in Seq(Frame), NEW r \in Seq(Frame), NEW s
  PROVE  /\ Ended(q \o r, s) <=> Ended(q, s) \/ Ended(r, s)
         /\ NoData(q \o r, s) <=> NoData(q, s) /\ NoData(r, s)
<1>1. PICK c : c = q \o r
  OBVIOUS
<1>2. /\ \A i \in DOMAIN c : \/ i \in DOMAIN q /\ c[i] = q[i]
                             \/ i - Len(q) \in DOMAIN r /\ c[i] = r[i - Len(q)] /\ i > Len(q)
      /\ \A i \in DOMAIN q : i \in DOMAIN c /\ c[i] = q[i]
      /\ \A i \in DOMAIN r : i \in Nat /\ i + Len(q) \in DOMAIN c /\ c[i + Len(q)] = r[i]
  BY <1>1, MoreIs
<1> QED
  BY <1>1, <1>2 DEF Ended, NoData

\* The queue was emptied by the loss of the connection.
LEMMA FlowLost ==
  ASSUME NEW s, NEW got \in Nat, NEW sent, NEW q, q = <<>>
  PROVE  Flows(q, s, got, sent, FALSE)
<1>1. NoData(q, s) /\ ~Ended(q, s)
  BY DEF NoData, Ended
<1> QED
  BY <1>1, RankedNone DEF Flows

\* Frames that are not data of s are sent, if the connection is up.
LEMMA FlowSend ==
  ASSUME NEW q \in Seq(Frame), NEW r \in Seq(Frame), NEW q2, NEW s, NEW got, NEW sent,
         NEW up \in BOOLEAN, NEW up2 \in BOOLEAN, up2 => up,
         q2 = IF up THEN q \o r ELSE q, NoData(r, s), Flows(q, s, got, sent, up)
  PROVE  Flows(q2, s, got, sent, up2)
<1>1. PICK hi \in Nat : Ranked(q, s, got, hi) /\ (up \/ Ended(q, s) => hi = sent)
  BY DEF Flows
<1>2. CASE up
  <2>1. Ranked(q \o r, s, got, hi)
    BY <1>1, RankedOther
  <2> QED
    BY <1>1, <1>2, <2>1 DEF Flows
<1>3. CASE ~up
  BY <1>1, <1>3 DEF Flows
<1> QED
  BY <1>2, <1>3

\* A data frame of s is sent; nothing is sent behind a close.
LEMMA FlowData ==
  ASSUME NEW q \in Seq(Frame), NEW q2, NEW s \in Ids, NEW got, NEW sent \in Nat,
         NEW up \in BOOLEAN, ~Ended(q, s),
         q2 = IF up THEN q \o <<StreamDataMsg(s, sent + 1)>> ELSE q, Flows(q, s, got, sent, up)
  PROVE  Flows(q2, s, got, sent + 1, up)
<1>1. PICK hi \in Nat : Ranked(q, s, got, hi) /\ (up \/ Ended(q, s) => hi = sent)
  BY DEF Flows
<1>2. CASE up
  <2>1. Ranked(q2, s, got, sent + 1)
    BY <1>1, <1>2, RankedNext
  <2> QED
    BY <2>1 DEF Flows
<1>3. CASE ~up
  BY <1>1, <1>3 DEF Flows
<1> QED
  BY <1>2, <1>3

\* The head, no data of s, is taken.
LEMMA FlowPass ==
  ASSUME NEW q \in Seq(Frame), q # <<>>, NEW s, NEW got, NEW sent, NEW up \in BOOLEAN,
         NEW up2 \in BOOLEAN, up2 => up, Flows(q, s, got, sent, up), ~DataOf(Head(q), s)
  PROVE  Flows(Tail(q), s, got, sent, up2)
<1>1. PICK hi \in Nat : Ranked(q, s, got, hi) /\ (up \/ Ended(q, s) => hi = sent)
  BY DEF Flows
<1>2. Ranked(Tail(q), s, got, hi)
  BY <1>1, RankedPass
<1>3. Ended(Tail(q), s) => Ended(q, s)
  BY EndedTail
<1> QED
  BY <1>1, <1>2, <1>3 DEF Flows

\* The next data frame of s is taken.
LEMMA FlowTake ==
  ASSUME NEW q \in Seq(Frame), q # <<>>, NEW s, NEW got, NEW sent, NEW up \in BOOLEAN,
         Flows(q, s, got, sent, up), DataOf(Head(q), s)
  PROVE  Head(q).n = got + 1 /\ Flows(Tail(q), s, got + 1, sent, up)
<1>1. PICK hi \in Nat : Ranked(q, s, got, hi) /\ (up \/ Ended(q, s) => hi = sent)
  BY DEF Flows
<1>2. Head(q).n = got + 1 /\ Ranked(Tail(q), s, got + 1, hi)
  BY <1>1, RankedTake
<1>3. Ended(Tail(q), s) => Ended(q, s)
  BY EndedTail
<1> QED
  BY <1>1, <1>2, <1>3 DEF Flows

\* A stream nobody has sent on.
LEMMA FlowFresh ==
  ASSUME NEW q, NEW s, NEW up, NoData(q, s)
  PROVE  Flows(q, s, 0, 0, up)
<1>1. Ranked(q, s, 0, 0)
  BY RankedNone
<1> QED
  BY <1>1 DEF Flows

\* Receiving the next frame keeps the order.
LEMMA CountsMore ==
  ASSUME NEW g \in Seq(Nat), NEW n \in Nat, n = Len(g) + 1, Counts(g)
  PROVE  Counts(Append(g, n)) /\ Len(Append(g, n)) = Len(g) + 1
BY DEF Counts
-----------------------------------------------------------------------------
(* What a step of one end does to the wire and to the other end *)

LEMMA CliWire ==
  ASSUME TypeOK, ClientStep
  PROVE  /\ sws' = sws /\ link' = link /\ (Up' => Up) /\ (Down' => Down)
         /\ (~Up => c2s' = c2s)
         /\ s2c' = s2c \/ (s2c' = <<>> /\ cws' = "CLOSED") \/ (s2c # <<>> /\ s2c' = Tail(s2c))
         /\ UNCHANGED serverVars
<1> USE DEF Up, Down, ToServer, wireVars, CliHangUp
<1>1. UNCHANGED serverVars
  BY DEF ClientStep
<1>2. CASE CliUser
  <2>1. CASE CliOpenStream
    BY <1>1, <2>1 DEF CliOpenStream
  <2>2. CASE CliCloseSocket
    BY <1>1, <2>2 DEF CliCloseSocket
  <2>3. CASE CliErrorSocketQuiet \/ CliErrorSocket
    BY <1>1, <2>3 DEF CliErrorSocketQuiet, CliErrorSocket
  <2>4. CASE \E s \in Ids : CliStreamClose(s) \/ CliStreamError(s) \/ CliStreamSend(s)
    BY <1>1, <2>4 DEF CliStreamClose, CliStreamError, CliStreamSend
  <2> QED
    BY <1>2, <2>1, <2>2, <2>3, <2>4 DEF CliUser
<1>3. CASE CliSystem
  <2>1. CASE AuthTimer \/ AuthSigned \/ CliReturns
    BY <1>1, <2>1 DEF AuthTimer, AuthSigned, CliReturns
  <2>2. CASE CliWsClosed
    BY <1>1, <2>2 DEF CliWsClosed
  <2>3. CASE CliLinkDown
    BY <1>1, <2>3 DEF CliLinkDown
  <2>4. CASE CliIgnores
    BY <1>1, <2>4 DEF CliIgnores
  <2>5. CASE CliRecvGoaway \/ CliRecvData \/ CliRecvClose \/ CliRecvReset
    BY <1>1, <2>5 DEF CliRecvGoaway, CliRecvData, CliRecvClose, CliRecvReset, CliTakes
  <2> QED
    BY <1>3, <2>1, <2>2, <2>3, <2>4, <2>5 DEF CliSystem
<1> QED
  BY <1>2, <1>3 DEF ClientStep

LEMMA SrvWire ==
  ASSUME TypeOK, ServerStep
  PROVE  /\ cws' = cws /\ link' = link /\ (Up' => Up) /\ (Down' => Down)
         /\ (sws = "CLOSED" => sws' = "CLOSED") /\ (~Down => s2c' = s2c)
         /\ c2s' = c2s \/ (c2s' = <<>> /\ sws' = "CLOSED") \/ (c2s # <<>> /\ c2s' = Tail(c2s))
         /\ UNCHANGED clientVars
<1> USE DEF Up, Down, ToClient, wireVars, SrvHangUp, SrvTakes
<1>1. UNCHANGED clientVars
  BY DEF ServerStep
<1>2. ASSUME NEW k, SrvErrorSocket(k)
      PROVE  /\ cws' = cws /\ link' = link /\ (Up' => Up) /\ (Down' => Down)
             /\ (sws = "CLOSED" => sws' = "CLOSED") /\ (~Down => s2c' = s2c)
             /\ c2s' = c2s \/ (c2s' = <<>> /\ sws' = "CLOSED")
  BY <1>2 DEF SrvErrorSocket
<1>3. CASE SrvUser
  <2>1. CASE SrvOpenStream \/ SrvCloseSocketIdle
    BY <1>1, <2>1 DEF SrvOpenStream, SrvCloseSocketIdle
  <2>2. CASE SrvCloseSocket
    BY <1>1, <2>2 DEF SrvCloseSocket
  <2>3. CASE SrvNoDatabase
    BY <1>1, <1>2, <2>3 DEF SrvNoDatabase
  <2>4. CASE \E s \in Ids : SrvStreamClose(s) \/ SrvStreamError(s) \/ SrvStreamSend(s)
    BY <1>1, <2>4 DEF SrvStreamClose, SrvStreamError, SrvStreamSend
  <2> QED
    BY <1>3, <2>1, <2>2, <2>3, <2>4 DEF SrvUser
<1>4. CASE SrvSystem
  <2>1. CASE SessionExpires \/ SrvChannelClosed
    BY <1>1, <2>1 DEF SessionExpires, SrvChannelClosed
  <2>2. CASE SessionTimeout
    BY <1>1, <1>2, <2>2 DEF SessionTimeout
  <2>3. CASE SrvWsClosed
    BY <1>1, <2>3 DEF SrvWsClosed
  <2>4. CASE SrvLinkDown
    BY <1>1, <2>4 DEF SrvLinkDown
  <2>5. CASE SrvIgnores \/ SrvRecvFatal
    BY <1>1, <2>5 DEF SrvIgnores, SrvRecvFatal, SrvHead
  <2>6. CASE SrvRecvAuth
    BY <1>1, <1>2, <2>6 DEF SrvRecvAuth, SrvHead
  <2>7. CASE SrvRecvData \/ SrvRecvClose \/ SrvRecvReset
    BY <1>1, <2>7 DEF SrvRecvData, SrvRecvClose, SrvRecvReset, SrvHead
  <2>8. CASE SrvRecvExpired
    BY <1>1, <2>8 DEF SrvRecvExpired
  <2> QED
    BY <1>4, <2>1, <2>2, <2>3, <2>4, <2>5, <2>6, <2>7, <2>8 DEF SrvSystem
<1> QED
  BY <1>3, <1>4 DEF ServerStep
-----------------------------------------------------------------------------
(* The two sockets *)

\* Behind a goaway there is no data.
Goodbye(q) == \A i, j \in DOMAIN q : i < j /\ q[i].type = "goaway" => q[j].type # "data"

LEMMA DrainedIs ==
  ASSUME NEW q \in Seq(Frame), NEW q2, q2 = q \/ q2 = <<>> \/ (q # <<>> /\ q2 = Tail(q))
  PROVE  /\ \A T : (\A i \in DOMAIN q : q[i].type \notin T) => \A i \in DOMAIN q2 : q2[i].type \notin T
         /\ Goodbye(q) => Goodbye(q2)
<1>1. CASE q2 = q
  BY <1>1
<1>2. CASE q2 = <<>>
  BY <1>2 DEF Goodbye
<1>3. CASE q # <<>> /\ q2 = Tail(q)
  <2>1. \A i \in DOMAIN q2 : i \in Nat /\ i + 1 \in DOMAIN q /\ q2[i] = q[i + 1]
    BY <1>3, TailIs
  <2>2. ASSUME Goodbye(q), NEW i \in DOMAIN q2, NEW j \in DOMAIN q2, i < j, q2[i].type = "goaway"
        PROVE  q2[j].type # "data"
    <3>1. i + 1 \in DOMAIN q /\ j + 1 \in DOMAIN q /\ i + 1 < j + 1 /\ q2[i] = q[i + 1] /\ q2[j] = q[j + 1]
      BY <2>1, <2>2
    <3> QED
      BY <2>2, <3>1 DEF Goodbye
  <2> QED
    BY <2>1, <2>2 DEF Goodbye
<1> QED
  BY <1>1, <1>2, <1>3

\* The frames a server sends: after a channel that works, anything, before it is
\* closed; the goaway comes after the data.
LEMMA GoodbyeMore ==
  ASSUME NEW q \in Seq(Frame), NEW r \in Seq(Frame), \A i \in DOMAIN q : q[i].type \notin {"goaway", "wsclose"}, Goodbye(r)
  PROVE  Goodbye(q \o r)
<1>1. PICK c : c = q \o r
  OBVIOUS
<1>2. /\ \A i \in DOMAIN c : \/ i \in DOMAIN q /\ c[i] = q[i]
                             \/ i - Len(q) \in DOMAIN r /\ c[i] = r[i - Len(q)] /\ i > Len(q)
      /\ \A i \in DOMAIN q : i \in Nat /\ i <= Len(q)
      /\ Len(q) \in Nat /\ DOMAIN c \subseteq Nat
  BY <1>1, MoreIs
<1>3. ASSUME NEW i \in DOMAIN c, NEW j \in DOMAIN c, i < j, c[i].type = "goaway" PROVE c[j].type # "data"
  <2>1. i \in Nat /\ j \in Nat
    BY <1>2
  <2>2. i - Len(q) \in DOMAIN r /\ c[i] = r[i - Len(q)] /\ i > Len(q)
    BY <1>2, <1>3
  <2>3. j - Len(q) \in DOMAIN r /\ c[j] = r[j - Len(q)]
    BY <1>2, <1>3, <2>1, <2>2
  <2>4. i - Len(q) < j - Len(q)
    BY <1>2, <1>3, <2>1
  <2> QED
    BY <1>3, <2>2, <2>3, <2>4 DEF Goodbye
<1> QED
  BY <1>1, <1>3 DEF Goodbye

LEMMA CliSocketSteps ==
  ASSUME TypeOK, TypeOK', StreamInv, StreamInv', CliSocketInv, SrvSocketInv, ClientStep
  PROVE  CliSocketInv' /\ SrvSocketInv'
<1>t. /\ s2c \in Seq(Frame) /\ cws \in {"OPEN", "CLOSING", "CLOSED"} /\ sws \in {"OPEN", "CLOSED"}
      /\ cstate \in ClientStates /\ cactive \in SUBSET Ids
      /\ creturn \in {NoHandler, "CLOSEWAIT", "CLOSED"} /\ NoHandler \notin {"CLOSEWAIT", "CLOSED"}
  BY DEF TypeOK, WireTypeOK, ClientTypeOK, NoHandler
<1>1. /\ sws' = sws /\ link' = link /\ (~Up => c2s' = c2s)
      /\ s2c' = s2c \/ s2c' = <<>> \/ (s2c # <<>> /\ s2c' = Tail(s2c))
      /\ UNCHANGED <<sstate, sactive, sstream>>
  BY CliWire DEF serverVars
<1>2. SrvSocketInv'
  <2>1. PICK q : q = s2c
    OBVIOUS
  <2>2. PICK q2 : q2 = s2c'
    OBVIOUS
  <2>3. /\ \A T : (\A i \in DOMAIN q : q[i].type \notin T) => \A i \in DOMAIN q2 : q2[i].type \notin T
        /\ Goodbye(q) => Goodbye(q2)
    BY <1>t, <1>1, <2>1, <2>2, DrainedIs
  <2>4. sws = "CLOSED" => c2s' = c2s
    BY <1>1 DEF Up
  <2> QED
    BY <1>1, <2>1, <2>2, <2>3, <2>4 DEF SrvSocketInv, Goodbye
<1>3. CliSocketInv'
  <2> USE DEF CliSocketInv
  <2>1. (\A i \in DOMAIN s2c : s2c[i].type # "data") => \A i \in DOMAIN s2c' : s2c'[i].type # "data"
    <3>1. PICK q : q = s2c
      OBVIOUS
    <3>2. PICK q2 : q2 = s2c'
      OBVIOUS
    <3>3. (\A i \in DOMAIN q : q[i].type \notin {"data"}) => \A i \in DOMAIN q2 : q2[i].type \notin {"data"}
      BY <1>t, <1>1, <3>1, <3>2, DrainedIs
    <3> QED
      BY <3>1, <3>2, <3>3
  <2>2. CASE AuthTimer
    BY <1>1, <2>2 DEF AuthTimer, wireVars
  <2>3. CASE AuthSigned
    BY <1>1, <2>3 DEF AuthSigned
  <2>4. CASE CliOpenStream
    BY <1>1, <2>4 DEF CliOpenStream, wireVars
  <2>5. CASE CliCloseSocket
    <3>1. /\ cws' # "OPEN" /\ cstate' \in {"CLOSING", "CLOSED"} /\ (cstate' = "CLOSED" => cactive' = {})
          /\ creturn' = creturn /\ (cws = "CLOSED" => cws' = "CLOSED")
      BY <1>t, <2>5 DEF CliCloseSocket, CliHangUp
    <3> QED
      BY <3>1
  <2>6. CASE CliErrorSocketQuiet
    BY <1>1, <2>6 DEF CliErrorSocketQuiet, wireVars
  <2>7. CASE CliErrorSocket
    <3>1. /\ cws' # "OPEN" /\ cstate' = "CLOSED" /\ cactive' = {}
          /\ creturn' = creturn /\ (cws = "CLOSED" => cws' = "CLOSED")
      BY <1>t, <2>7 DEF CliErrorSocket, CliHangUp
    <3> QED
      BY <3>1
  <2>8. ASSUME NEW s \in Ids, CliStreamClose(s) \/ CliStreamError(s) \/ CliStreamSend(s)
        PROVE  CliSocketInv'
    <3>1. /\ cstream[s] # NoStream /\ cstate' = cstate /\ cws' = cws /\ s2c' = s2c /\ cactive' \subseteq cactive
          /\ creturn' = creturn
      BY <2>8 DEF CliStreamClose, CliStreamError, CliStreamSend, NoStream
    <3> QED
      BY <1>1, <3>1
  <2>9. CASE CliWsClosed
    <3>1. cws' = "CLOSED" /\ c2s' = ToServer(<<WsClose>>) /\ cstate' = cstate /\ cactive' = cactive
      BY <2>9 DEF CliWsClosed, CliOnSocketClose
    <3>2. s2c # <<>> /\ Head(s2c).type = "wsclose" /\ 1 \in DOMAIN s2c /\ s2c[1] = Head(s2c)
      BY <1>t, <2>9 DEF CliWsClosed
    <3>3. c2s' = c2s
      BY <3>1, <3>2 DEF SrvSocketInv, ToServer
    <3>4. cstate = "IDLE" => cstream' = cstream
      BY <2>9 DEF CliWsClosed, CliOnSocketClose, CliPeerClosedAll, StreamInv, TypeOK, ClientTypeOK
    <3> QED
      BY <1>1, <3>1, <3>3, <3>4
  <2>10. CASE CliLinkDown
    <3>1. cws' = "CLOSED" /\ c2s' = c2s /\ cstate' = cstate /\ cactive' = cactive
      BY <2>10 DEF CliLinkDown, CliOnSocketClose, CliOnSocketError
    <3>2. cstate = "IDLE" => cstream' = cstream
      BY <2>10 DEF CliLinkDown, CliOnSocketClose, CliOnSocketError, CliPeerClosedAll, CliErrorAll, TypeOK, ClientTypeOK
    <3> QED
      BY <1>1, <3>1, <3>2
  <2>11. CASE CliIgnores
    BY <1>1, <2>1, <2>11 DEF CliIgnores, clientVars
  <2>12. CASE CliRecvGoaway
    <3>1. /\ cstate' = cstate /\ cstate # "IDLE" /\ cactive' = cactive /\ cws' = cws
          /\ creturn' = "CLOSED" /\ Head(s2c).type = "goaway" /\ s2c # <<>> /\ s2c' = Tail(s2c)
      BY <2>12 DEF CliRecvGoaway, CliTakes, CliHears, CliOnSocketError
    <3>2. 1 \in DOMAIN s2c /\ s2c[1] = Head(s2c)
      BY <1>t, <3>1
    <3>3. sws = "CLOSED"
      BY <1>t, <3>1, <3>2 DEF SrvSocketInv
    <3>4. \A i \in DOMAIN s2c' : s2c'[i].type # "data"
      <4>1. \A i \in DOMAIN Tail(s2c) : i \in Nat /\ i + 1 \in DOMAIN s2c /\ Tail(s2c)[i] = s2c[i + 1]
        BY <1>t, <3>1, TailIs
      <4>2. \A i \in DOMAIN Tail(s2c) : Tail(s2c)[i].type # "data"
        <5> SUFFICES ASSUME NEW i \in DOMAIN Tail(s2c) PROVE Tail(s2c)[i].type # "data"
          OBVIOUS
        <5>1. i + 1 \in DOMAIN s2c /\ Tail(s2c)[i] = s2c[i + 1] /\ 1 < i + 1
          BY <4>1
        <5> QED
          BY <3>1, <3>2, <5>1 DEF SrvSocketInv
      <4> QED
        BY <3>1, <4>2
    <3> QED
      BY <1>1, <3>1, <3>3, <3>4
  <2>13. CASE CliRecvData \/ CliRecvClose \/ CliRecvReset
    <3>1. cstate' = cstate /\ cws' = cws /\ cstate \in {"AUTH_SENT", "CLOSING"} /\ creturn' = creturn
      BY <2>13 DEF CliRecvData, CliRecvClose, CliRecvReset, CliTakes, CliHears
    <3> QED
      BY <1>1, <2>1, <3>1
  <2>14. CASE CliReturns
    BY <1>t, <1>1, <2>14 DEF CliReturns, CliAtRest, wireVars
  <2> QED
    BY <2>2, <2>3, <2>4, <2>5, <2>6, <2>7, <2>8, <2>9, <2>10, <2>11, <2>12, <2>13, <2>14
    DEF ClientStep, CliUser, CliSystem
<1> QED
  BY <1>2, <1>3
-----------------------------------------------------------------------------
\* The server hangs up: goaway and close frames come after all data.
LEMMA HangUpKeeps ==
  ASSUME TypeOK, SrvSocketInv, NEW r \in Seq(Frame), Goodbye(r), SrvHangUp(r), sstate' \in {"CLOSING", "CLOSED"}
  PROVE  SrvSocketInv'
<1>t. s2c \in Seq(Frame) /\ sws \in {"OPEN", "CLOSED"}
  BY DEF TypeOK, WireTypeOK
<1>1. Goodbye(s2c')
  <2>1. Goodbye(s2c)
    BY DEF SrvSocketInv, Goodbye
  <2>2. CASE Down
    <3>1. \A i \in DOMAIN s2c : s2c[i].type \notin {"goaway", "wsclose"}
      BY <2>2 DEF Down, SrvSocketInv
    <3>2. Goodbye(s2c \o r)
      BY <1>t, <3>1, GoodbyeMore
    <3>3. s2c' = s2c \o r
      BY <2>2 DEF Down, SrvHangUp, ToClient
    <3> QED
      BY <3>2, <3>3 DEF Goodbye
  <2>3. CASE ~Down
    <3>1. s2c' = s2c
      BY <2>3 DEF Down, SrvHangUp, ToClient
    <3> QED
      BY <2>1, <3>1 DEF Goodbye
  <2> QED
    BY <2>2, <2>3
<1>2. sws' = "CLOSED" /\ c2s' = <<>>
  BY DEF SrvHangUp
<1> QED
  BY <1>1, <1>2 DEF SrvSocketInv, Goodbye

\* A frame of a stream is sent.
LEMMA StreamFrameKeeps ==
  ASSUME TypeOK, SrvSocketInv, NEW f \in Frame, f.type \in {"data", "close", "reset"},
         s2c' = ToClient(<<f>>) \/ s2c' = s2c, UNCHANGED <<c2s, sws, sstate>>, sstate # "IDLE"
  PROVE  SrvSocketInv'
<1>t. s2c \in Seq(Frame) /\ sws \in {"OPEN", "CLOSED"}
  BY DEF TypeOK, WireTypeOK
<1>1. CASE s2c' = s2c
  BY <1>1 DEF SrvSocketInv
<1>2. CASE Down /\ s2c' = ToClient(<<f>>)
  <2>1. PICK r : r = <<f>>
    OBVIOUS
  <2>2. r \in Seq(Frame) /\ DOMAIN r = {1} /\ r[1] = f
    BY <2>1
  <2>3. Goodbye(r)
    BY <2>2 DEF Goodbye
  <2>4. \A i \in DOMAIN s2c : s2c[i].type \notin {"goaway", "wsclose"}
    BY <1>2 DEF Down, SrvSocketInv
  <2>5. s2c' = s2c \o r
    BY <1>2, <2>1 DEF Down, ToClient
  <2>6. Goodbye(s2c \o r)
    BY <1>t, <2>2, <2>3, <2>4, GoodbyeMore
  <2>7. \A i \in DOMAIN (s2c \o r) : (s2c \o r)[i].type \notin {"goaway", "wsclose"}
    <3>1. \A i \in DOMAIN (s2c \o r) : \/ i \in DOMAIN s2c /\ (s2c \o r)[i] = s2c[i]
                                       \/ i - Len(s2c) \in DOMAIN r /\ (s2c \o r)[i] = r[i - Len(s2c)]
      BY <1>t, <2>2, MoreIs
    <3> QED
      BY <2>2, <2>4, <3>1
  <2> QED
    BY <2>5, <2>6, <2>7 DEF SrvSocketInv, Goodbye
<1>3. CASE ~Down /\ s2c' = ToClient(<<f>>)
  <2>1. s2c' = s2c
    BY <1>3 DEF Down, ToClient
  <2> QED
    BY <1>1, <2>1
<1> QED
  BY <1>1, <1>2, <1>3

\* A frame is taken from an open channel, or nothing happens on the wire.
LEMMA TakingKeeps ==
  ASSUME TypeOK, SrvSocketInv, UNCHANGED <<s2c, sws>>,
         c2s' = c2s \/ sws = "OPEN", sws = "OPEN" => sstate' # "CLOSING",
         sws = "CLOSED" => sstate' \notin {"IDLE", "AUTH"},
         sstate' = "IDLE" => sstate = "IDLE" /\ UNCHANGED <<sactive, sstream>>
  PROVE  SrvSocketInv'
BY DEF SrvSocketInv

LEMMA GoodbyeShort ==
  /\ Goodbye(<<WsClose>>) /\ Goodbye(<<WsAbort>>) /\ Goodbye(<<>>)
  /\ \A k \in Nat : Goodbye(<<GoawayMsg(k), WsAbort>>)
BY DEF Goodbye, WsClose, WsAbort, GoawayMsg, F

LEMMA GoodbyeClose ==
  ASSUME NEW S \in SUBSET Ids, NEW o \in Orders(S)
  PROVE  Goodbye(Append(CloseMsgs(o), WsClose))
<1>1. PICK m : m = CloseMsgs(o)
  OBVIOUS
<1>2. m \in Seq(Frame) /\ \A i \in DOMAIN m : m[i].type = "close"
  BY <1>1, CloseMsgsShape
<1>3. \A i \in DOMAIN Append(m, WsClose) : Append(m, WsClose)[i].type # "data"
  <2>1. WsClose.type # "data"
    BY DEF WsClose, F
  <2>2. WsClose \in Frame
    BY FrameType
  <2> QED
    BY <1>2, <2>1, <2>2
<1> QED
  BY <1>1, <1>3 DEF Goodbye

LEMMA ErrorSocketKeeps ==
  ASSUME TypeOK, SrvSocketInv, NEW k \in Nat, SrvErrorSocket(k)
  PROVE  SrvSocketInv'
<1>1. sstate' = "CLOSED"
  BY DEF SrvErrorSocket
<1>2. CASE sstate \in {"IDLE", "AUTH"}
  <2>1. SrvHangUp(<<GoawayMsg(k), WsAbort>>)
    BY <1>2 DEF SrvErrorSocket
  <2> QED
    BY <1>1, <2>1, GoodbyeShort, GoodbyeType, HangUpKeeps
<1>3. CASE sstate \notin {"IDLE", "AUTH"}
  <2>1. UNCHANGED <<c2s, s2c, sws>>
    BY <1>3 DEF SrvErrorSocket
  <2> QED
    BY <1>1, <2>1, TakingKeeps
<1> QED
  BY <1>2, <1>3

LEMMA SrvSocketSteps ==
  ASSUME TypeOK, TypeOK', StreamInv, StreamInv', CliSocketInv, SrvSocketInv, ServerStep
  PROVE  SrvSocketInv'
<1>t. /\ sws \in {"OPEN", "CLOSED"} /\ sstate \in ServerStates
      /\ ssent \in [Ids -> Nat] /\ sactive \in SUBSET Ids
  BY DEF TypeOK, WireTypeOK, ServerTypeOK
<1>1. CASE SrvOpenStream
  BY <1>1, TakingKeeps DEF SrvOpenStream, wireVars, SrvSocketInv
<1>2. CASE SrvCloseSocketIdle
  <2>1. <<WsClose>> \in Seq(Frame)
    BY FrameType
  <2> QED
    BY <1>2, <2>1, GoodbyeShort, HangUpKeeps DEF SrvCloseSocketIdle
<1>3. CASE SrvCloseSocket
  <2>1. PICK o \in Orders(SrvUnclosed) : SrvHangUp(Append(CloseMsgs(o), WsClose))
    BY <1>3 DEF SrvCloseSocket
  <2>2. SrvUnclosed \in SUBSET Ids
    BY SrvUnclosedIds DEF TypeOK
  <2>3. sstate' = "CLOSING"
    BY <1>3 DEF SrvCloseSocket
  <2>4. Append(CloseMsgs(o), WsClose) \in Seq(Frame) /\ Goodbye(Append(CloseMsgs(o), WsClose))
    BY <2>2, FarewellType, GoodbyeClose
  <2> QED
    BY <2>1, <2>3, <2>4, HangUpKeeps
<1>4. CASE SrvNoDatabase \/ SessionTimeout \/ SrvErrorSocket(1002)
  BY <1>4, ErrorSocketKeeps DEF SrvNoDatabase, SessionTimeout
<1>5. ASSUME NEW s \in Ids, SrvStreamClose(s) \/ SrvStreamError(s) \/ SrvStreamSend(s)
      PROVE  SrvSocketInv'
  <2>1. sstream[s] # NoStream /\ UNCHANGED <<c2s, sws, sstate>>
    BY <1>5 DEF SrvStreamClose, SrvStreamError, SrvStreamSend, NoStream
  <2>2. sstate # "IDLE"
    BY <2>1 DEF SrvSocketInv
  <2>3. CASE SrvStreamClose(s)
    <3>1. StreamCloseMsg(s) \in Frame /\ StreamCloseMsg(s).type = "close"
      BY FrameType DEF StreamCloseMsg, F
    <3> QED
      BY <2>1, <2>2, <2>3, <3>1, StreamFrameKeeps DEF SrvStreamClose
  <2>4. CASE SrvStreamError(s)
    <3>1. StreamResetMsg(s) \in Frame /\ StreamResetMsg(s).type = "reset"
      BY FrameType DEF StreamResetMsg, F
    <3> QED
      BY <2>1, <2>2, <2>4, <3>1, StreamFrameKeeps DEF SrvStreamError
  <2>5. CASE SrvStreamSend(s)
    <3>1. ssent[s] + 1 \in Nat
      BY <1>t
    <3>2. StreamDataMsg(s, ssent[s] + 1) \in Frame /\ StreamDataMsg(s, ssent[s] + 1).type = "data"
      BY <3>1, FrameType DEF StreamDataMsg, F
    <3> QED
      BY <2>1, <2>2, <2>5, <3>2, StreamFrameKeeps DEF SrvStreamSend
  <2> QED
    BY <1>5, <2>3, <2>4, <2>5
<1>6. CASE SessionExpires
  BY <1>6 DEF SessionExpires, wireVars, SrvSocketInv
<1>7. CASE SrvWsClosed
  <2>1. ASSUME NEW q \in Orders(SrvUnclosed) \cup {<<>>}, SrvOnSocketClose(q), SrvHangUp(Append(CloseMsgs(q), WsClose))
        PROVE  SrvSocketInv'
    <3>1. sstate' = "CLOSED"
      BY <2>1 DEF SrvOnSocketClose
    <3>2. PICK S \in SUBSET Ids : q \in Orders(S)
      BY <2>1, SrvUnclosedIds DEF SrvOnSocketClose, TypeOK
    <3>3. Append(CloseMsgs(q), WsClose) \in Seq(Frame) /\ Goodbye(Append(CloseMsgs(q), WsClose))
      BY <3>2, FarewellType, GoodbyeClose
    <3> QED
      BY <2>1, <3>1, <3>3, HangUpKeeps
  <2>2. ASSUME SrvOnSocketError, SrvHangUp(<<WsAbort>>) PROVE SrvSocketInv'
    <3>1. sstate' = "CLOSED"
      BY <2>2 DEF SrvOnSocketError
    <3>2. <<WsAbort>> \in Seq(Frame)
      BY FrameType
    <3> QED
      BY <2>2, <3>1, <3>2, GoodbyeShort, HangUpKeeps
  <2> QED
    BY <1>7, <2>1, <2>2 DEF SrvWsClosed
<1>8. CASE SrvLinkDown
  <2>1. sstate' = "CLOSED" /\ SrvHangUp(<<>>) /\ <<>> \in Seq(Frame)
    BY <1>8 DEF SrvLinkDown, SrvOnSocketClose, SrvOnSocketError
  <2> QED
    BY <2>1, GoodbyeShort, HangUpKeeps
<1>9. CASE SrvChannelClosed
  <2>1. sstate' = "CLOSED" /\ UNCHANGED <<c2s, s2c, sws>>
    BY <1>9 DEF SrvChannelClosed, SrvOnSocketClose, wireVars
  <2> QED
    BY <2>1, TakingKeeps
<1>10. CASE SrvIgnores
  <2>1. UNCHANGED <<s2c, sws, sstate, sactive, sstream>> /\ sws = "OPEN" /\ sstate = "CLOSED"
    BY <1>10 DEF SrvIgnores, SrvTakes, SrvHead, serverVars
  <2> QED
    BY <2>1, TakingKeeps
<1>11. CASE SrvRecvAuth
  <2>1. CASE SrvTakes /\ sstate' = "AUTH"
    <3>1. UNCHANGED <<s2c, sws>> /\ sws = "OPEN"
      BY <1>11, <2>1 DEF SrvRecvAuth, SrvTakes, SrvHead
    <3> QED
      BY <2>1, <3>1, TakingKeeps
  <2> QED
    BY <1>4, <1>11, <2>1 DEF SrvRecvAuth
<1>12. CASE SrvRecvFatal
  <2>1. sstate' = "CLOSED" /\ UNCHANGED <<s2c, sws>> /\ sws = "OPEN"
    BY <1>12 DEF SrvRecvFatal, SrvOnSocketError, SrvTakes, SrvHead
  <2> QED
    BY <2>1, TakingKeeps
<1>13. CASE SrvRecvData \/ SrvRecvClose \/ SrvRecvReset
  <2>1. UNCHANGED <<s2c, sws, sstate>> /\ sws = "OPEN" /\ sstate = "AUTH"
    BY <1>13 DEF SrvRecvData, SrvRecvClose, SrvRecvReset, SrvTakes, SrvHead
  <2> QED
    BY <2>1, TakingKeeps
<1>14. CASE SrvRecvExpired
  <2>1. sstate' = "CLOSED" /\ SrvHangUp(<<GoawayMsg(1003), WsAbort>>)
    BY <1>14 DEF SrvRecvExpired
  <2>2. PICK k \in Nat : k = 1003
    OBVIOUS
  <2>3. SrvHangUp(<<GoawayMsg(k), WsAbort>>)
    BY <2>1, <2>2
  <2> QED
    BY <2>1, <2>3, GoodbyeShort, GoodbyeType, HangUpKeeps
<1> QED
  BY <1>1, <1>2, <1>3, <1>4, <1>5, <1>6, <1>7, <1>8, <1>9, <1>10, <1>11, <1>12, <1>13, <1>14
  DEF ServerStep, SrvUser, SrvSystem

\* What the server does cannot reach a client that has sent nothing yet.
LEMMA SrvIdleSteps ==
  ASSUME TypeOK, StreamInv, CliSocketInv, SrvSocketInv, cstate = "IDLE", ServerStep
  PROVE  (\A s \in Ids : sstream'[s] = NoStream) /\ sstate' \notin {"AUTH", "CLOSING"}
<1>1. c2s = <<>> /\ (\A s \in Ids : sstream[s] = NoStream) /\ sstate \notin {"AUTH", "CLOSING"}
  BY DEF CliSocketInv
<1>2. sactive = {}
  <2>1. sactive \subseteq Ids
    BY DEF TypeOK, ServerTypeOK
  <2> QED
    BY <1>1, <2>1 DEF StreamInv, SrvCounters
<1>3. SrvEndAll(sactive) = [s \in Ids |-> sstream[s]]
  BY <1>2 DEF SrvEndAll
<1>4. ASSUME NEW k, SrvErrorSocket(k)
      PROVE  (\A s \in Ids : sstream'[s] = NoStream) /\ sstate' \notin {"AUTH", "CLOSING"}
  BY <1>1, <1>3, <1>4 DEF SrvErrorSocket
<1>5. ASSUME SrvOnSocketError \/ \E q : SrvOnSocketClose(q)
      PROVE  (\A s \in Ids : sstream'[s] = NoStream) /\ sstate' \notin {"AUTH", "CLOSING"}
  BY <1>1, <1>3, <1>5 DEF SrvOnSocketError, SrvOnSocketClose
<1>6. CASE SrvUser
  <2>1. CASE SrvOpenStream \/ SrvCloseSocketIdle \/ SrvCloseSocket
    BY <1>1, <2>1 DEF SrvOpenStream, SrvCloseSocketIdle, SrvCloseSocket
  <2>2. CASE SrvNoDatabase
    BY <1>4, <2>2 DEF SrvNoDatabase
  <2>3. ASSUME NEW s \in Ids, SrvStreamClose(s) \/ SrvStreamError(s) \/ SrvStreamSend(s) PROVE FALSE
    BY <1>1, <2>3 DEF SrvStreamClose, SrvStreamError, SrvStreamSend, NoStream
  <2> QED
    BY <1>6, <2>1, <2>2, <2>3 DEF SrvUser
<1>7. CASE SrvSystem
  <2>1. CASE SessionExpires
    BY <1>1, <2>1 DEF SessionExpires
  <2>2. CASE SessionTimeout
    BY <1>4, <2>2 DEF SessionTimeout
  <2>3. CASE SrvLinkDown \/ SrvChannelClosed
    BY <1>5, <2>3 DEF SrvLinkDown, SrvChannelClosed
  <2>4. ASSUME SrvWsClosed \/ SrvIgnores \/ SrvRecvAuth \/ SrvRecvFatal PROVE FALSE
    BY <1>1, <2>4 DEF SrvWsClosed, SrvIgnores, SrvRecvAuth, SrvRecvFatal, SrvHead
  <2>5. ASSUME SrvRecvData \/ SrvRecvClose \/ SrvRecvReset \/ SrvRecvExpired PROVE FALSE
    BY <1>1, <2>5 DEF SrvRecvData, SrvRecvClose, SrvRecvReset, SrvRecvExpired, SrvHead
  <2> QED
    BY <1>7, <2>1, <2>2, <2>3, <2>4, <2>5 DEF SrvSystem
<1> QED
  BY <1>6, <1>7 DEF ServerStep

SocketInv == CliSocketInv /\ SrvSocketInv

LEMMA SocketInit == Init => SocketInv
BY DEF Init, WireInit, ClientInit, ServerInit, SocketInv, CliSocketInv, SrvSocketInv, NoHandler

LEMMA SocketNext ==
  TypeOK /\ TypeOK' /\ StreamInv /\ StreamInv' /\ SocketInv /\ [Next]_vars => SocketInv'
<1> SUFFICES ASSUME TypeOK, TypeOK', StreamInv, StreamInv', CliSocketInv, SrvSocketInv, [Next]_vars
             PROVE  CliSocketInv' /\ SrvSocketInv'
  BY DEF SocketInv
<1>1. CASE ClientStep
  BY <1>1, CliSocketSteps
<1>2. CASE ServerStep
  <2>1. /\ cws' = cws /\ (sws = "CLOSED" => sws' = "CLOSED") /\ (~Down => s2c' = s2c)
        /\ c2s' = c2s \/ c2s' = <<>> \/ (c2s # <<>> /\ c2s' = Tail(c2s))
        /\ UNCHANGED <<cstate, cactive, cstream, creturn>>
    BY <1>2, SrvWire DEF clientVars
  <2>2. cstate = "IDLE" => (\A s \in Ids : sstream'[s] = NoStream) /\ sstate' \notin {"AUTH", "CLOSING"}
    BY <1>2, SrvIdleSteps
  <2>3. sws = "CLOSED" => s2c' = s2c
    BY <2>1 DEF Down
  <2> QED
    BY <1>2, <2>1, <2>2, <2>3, SrvSocketSteps DEF CliSocketInv
<1>3. CASE LinkStep
  BY <1>3 DEF LinkStep, LinkLost, clientVars, serverVars, CliSocketInv, SrvSocketInv
<1>4. CASE UNCHANGED vars
  BY <1>4 DEF vars, wireVars, clientVars, serverVars, CliSocketInv, SrvSocketInv
<1> QED
  BY <1>1, <1>2, <1>3, <1>4 DEF Next

\* The states of the two sockets and of their channels go together: what an end that
\* closes, failed or has not authenticated may still have in flight (MuxedSocket).
THEOREM SocketInvariant == Spec => []SocketInv
<1>1. TypeOK /\ TypeOK' /\ StreamInv /\ StreamInv' /\ SocketInv /\ [Next]_vars => SocketInv'
  BY SocketNext
<1> QED
  BY <1>1, SocketInit, TypeCorrect, StreamInvariant, PTL DEF Spec

\* A CLOSED client socket is left only by a sendAuth that was waiting for its
\* signature and by the return of an onSocketClose whose callbacks closed it,
\* without a stream either way; a CLOSED server socket takes no data.
THEOREM ClosedStaysClosed == Spec => ClosedIsFinal
<1> DEFINE A == /\ cstate = "CLOSED" /\ cstate' # "CLOSED" =>
                     /\ cactive' = {}
                     /\ \/ csigning # "no" /\ cstate' = "AUTH_SENT"
                        \/ creturn = "CLOSEWAIT" /\ cstate' = "CLOSEWAIT" /\ cws = "CLOSED"
                /\ sgot' # sgot => sstate # "CLOSED"
<1>1. TypeOK /\ SocketInv /\ [Next]_vars => [A]_vars
  <2> SUFFICES ASSUME TypeOK, SocketInv, Next PROVE A
    OBVIOUS
  <2>1. CASE ClientStep
    <3>0. /\ sgot' = sgot /\ (cstate = "CLOSED" => cactive = {})
          /\ creturn \in {NoHandler, "CLOSEWAIT", "CLOSED"} /\ (creturn = "CLOSEWAIT" => cws = "CLOSED")
      BY <2>1 DEF ClientStep, serverVars, SocketInv, CliSocketInv, TypeOK, ClientTypeOK
    <3>1. CASE CliUser
      BY <3>0, <3>1 DEF CliUser, CliOpenStream, CliCloseSocket, CliErrorSocketQuiet, CliErrorSocket,
                        CliStreamClose, CliStreamError, CliStreamSend
    <3>2. CASE CliSystem /\ ~CliReturns
      BY <3>0, <3>2 DEF CliSystem, AuthTimer, AuthSigned, CliWsClosed, CliLinkDown, CliIgnores,
                        CliRecvGoaway, CliRecvData, CliRecvClose, CliRecvReset, CliHears,
                        CliOnSocketClose, CliOnSocketError, clientVars
    <3>3. CASE CliReturns
      BY <3>0, <3>3 DEF CliReturns, CliAtRest
    <3> QED
      BY <2>1, <3>1, <3>2, <3>3 DEF ClientStep
  <2>2. CASE ServerStep
    <3>0. cstate' = cstate
      BY <2>2 DEF ServerStep, clientVars
    <3>1. CASE SrvUser
      BY <3>0, <3>1 DEF SrvUser, SrvOpenStream, SrvCloseSocketIdle, SrvCloseSocket, SrvNoDatabase,
                        SrvErrorSocket, SrvStreamClose, SrvStreamError, SrvStreamSend
    <3>2. CASE SrvSystem
      BY <3>0, <3>2 DEF SrvSystem, SessionExpires, SessionTimeout, SrvErrorSocket, SrvWsClosed, SrvLinkDown,
                        SrvChannelClosed, SrvOnSocketClose, SrvOnSocketError, SrvIgnores, SrvRecvAuth,
                        SrvRecvFatal, SrvRecvData, SrvRecvClose, SrvRecvReset, SrvRecvExpired, serverVars
    <3> QED
      BY <2>2, <3>1, <3>2 DEF ServerStep
  <2>3. CASE LinkStep
    BY <2>3 DEF LinkStep, clientVars, serverVars
  <2> QED
    BY <2>1, <2>2, <2>3 DEF Next
<1>2. (Spec => [][A]_vars) => (Spec => ClosedIsFinal)
  BY DEF ClosedIsFinal
<1> QED
  BY <1>1, <1>2, SocketInvariant, TypeCorrect, PTL DEF Spec
-----------------------------------------------------------------------------
(* What is sent *)

\* On a connection that is up, an end that has streams may send.
LEMMA UpSends ==
  ASSUME TypeOK, SocketInv, Up
  PROVE  /\ cstate \in {"IDLE", "AUTH_SENT"} /\ sstate # "CLOSING"
         /\ \A s \in Ids : cstream[s] # NoStream => cstate = "AUTH_SENT" /\ CliSendable
         /\ \A i \in DOMAIN s2c : s2c[i].type \notin {"goaway", "wsclose"}
BY DEF SocketInv, CliSocketInv, SrvSocketInv, Up, CliSendable

LEMMA NotEnded ==
  ASSUME NEW q, NEW st, NEW s, Consistent(q, st), st[s] \in {"OPEN", "CLOSEWAIT"}
  PROVE  ~Ended(q, s)
BY DEF Consistent, Ended, EndOf, StreamFrames

LEMMA NoneInFlight ==
  ASSUME NEW q, NEW st, NEW s, Consistent(q, st), st[s] = NoStream
  PROVE  NoData(q, s) /\ ~Ended(q, s)
BY DEF Consistent, Ended, EndOf, NoData, DataOf, StreamFrames

LEMMA NoDataShort ==
  ASSUME NEW s \in Ids
  PROVE  /\ NoData(<<>>, s) /\ NoData(<<AuthMsg>>, s) /\ NoData(<<WsClose>>, s) /\ NoData(<<WsAbort>>, s)
         /\ \A k : NoData(<<GoawayMsg(k), WsAbort>>, s)
         /\ \A x : NoData(<<StreamCloseMsg(x)>>, s) /\ NoData(<<StreamResetMsg(x)>>, s)
         /\ \A x, k : x # s => NoData(<<StreamDataMsg(x, k)>>, s)
BY DEF NoData, DataOf, AuthMsg, WsClose, WsAbort, GoawayMsg, StreamCloseMsg, StreamResetMsg, StreamDataMsg, F

LEMMA NoDataFarewell ==
  ASSUME NEW S \in SUBSET Ids, NEW o \in Orders(S), NEW s
  PROVE  NoData(Append(CloseMsgs(o), WsClose), s)
<1>1. PICK m : m = CloseMsgs(o)
  OBVIOUS
<1>2. m \in Seq(Frame) /\ \A i \in DOMAIN m : m[i].type = "close"
  BY <1>1, CloseMsgsShape
<1>3. WsClose.type # "data" /\ WsClose \in Frame
  BY FrameType DEF WsClose, F
<1>4. \A i \in DOMAIN Append(m, WsClose) : Append(m, WsClose)[i].type # "data"
  BY <1>2, <1>3
<1> QED
  BY <1>1, <1>4 DEF NoData, DataOf

LEMMA FlowStill ==
  ASSUME NEW q, NEW q2, q2 = q, NEW s, NEW got, NEW sent, NEW sent2, sent2 = sent, NEW up \in BOOLEAN,
         NEW up2 \in BOOLEAN, up2 => up, Flows(q, s, got, sent, up)
  PROVE  Flows(q2, s, got, sent2, up2)
BY DEF Flows

\* Every step of the client keeps the flow towards the server.
LEMMA CliSendsFlow ==
  ASSUME TypeOK, TypeOK', StreamInv, SocketInv, ClientStep, NEW s \in Ids, NEW got,
         Flows(c2s, s, got, csent[s], Up)
  PROVE  Flows(c2s', s, got, csent'[s], Up')
<1>t. /\ c2s \in Seq(Frame) /\ csent \in [Ids -> Nat] /\ Up \in BOOLEAN /\ Up' \in BOOLEAN
      /\ cactive \in SUBSET Ids
  BY DEF TypeOK, WireTypeOK, ClientTypeOK, Up
<1>w. Up' => Up
  BY CliWire
<1>c. Consistent(c2s, cstream)
  BY DEF StreamInv
<1>s. ASSUME NEW r \in Seq(Frame), NoData(r, s), c2s' = ToServer(r), csent' = csent
      PROVE  Flows(c2s', s, got, csent'[s], Up')
  <2>1. PICK q2 : q2 = c2s'
    OBVIOUS
  <2>2. PICK up2 \in BOOLEAN : up2 = Up'
    BY <1>t
  <2>3. q2 = IF Up THEN c2s \o r ELSE c2s
    BY <1>s, <2>1 DEF ToServer, Up
  <2>4. Flows(q2, s, got, csent[s], up2)
    <3>1. up2 => Up
      BY <1>w, <2>2
    <3>2. r \in Seq(Frame) /\ NoData(r, s)
      BY <1>s
    <3>3. Flows(q2, s, got, csent[s], Up)
      <4>1. PICK q : q = c2s
        OBVIOUS
      <4>2. PICK n : n = csent[s]
        OBVIOUS
      <4>3. PICK up \in BOOLEAN : up = Up
        BY <1>t
      <4>4. q \in Seq(Frame) /\ q2 = (IF up THEN q \o r ELSE q) /\ Flows(q, s, got, n, up)
        BY <1>t, <2>3, <4>1, <4>2, <4>3
      <4>5. Flows(q2, s, got, n, up)
        BY ONLY <3>2, <4>4, up \in BOOLEAN, FlowSend, ZenonT(60)
      <4> QED
        BY <4>2, <4>3, <4>5
    <3> QED
      BY <1>t, <3>1, <3>3, FlowStill
  <2> QED
    BY <1>s, <2>1, <2>2, <2>4
<1>k. ASSUME c2s' = c2s, csent' = csent
      PROVE  Flows(c2s', s, got, csent'[s], Up')
  <2>1. PICK up2 \in BOOLEAN : up2 = Up'
    BY <1>t
  <2>2. Flows(c2s, s, got, csent[s], up2)
    BY <1>t, <1>w, <2>1, FlowStill
  <2> QED
    BY <1>k, <2>1, <2>2
<1>1. CASE AuthTimer \/ CliOpenStream \/ CliErrorSocketQuiet
  BY <1>k, <1>1 DEF AuthTimer, CliOpenStream, CliErrorSocketQuiet, wireVars
<1>2. CASE AuthSigned
  <2>1. <<AuthMsg>> \in Seq(Frame)
    BY FrameType
  <2> QED
    BY <1>s, <1>2, <2>1, NoDataShort DEF AuthSigned
<1>3. CASE CliCloseSocket
  <2> DEFINE S == {x \in cactive : cstream[x] \in {"OPEN", "CLOSEWAIT"}}
  <2>1. PICK o \in Orders(S) : CliHangUp(Append(CloseMsgs(o), WsClose))
    BY <1>3 DEF CliCloseSocket
  <2>2. S \in SUBSET Ids
    BY <1>t
  <2>3. Append(CloseMsgs(o), WsClose) \in Seq(Frame) /\ NoData(Append(CloseMsgs(o), WsClose), s)
    BY <2>2, FarewellType, NoDataFarewell
  <2> QED
    BY <1>s, <1>3, <2>1, <2>3 DEF CliCloseSocket, CliHangUp
<1>4. CASE CliErrorSocket
  <2>1. <<GoawayMsg(0), WsAbort>> \in Seq(Frame)
    BY GoodbyeType
  <2> QED
    BY <1>s, <1>4, <2>1, NoDataShort DEF CliErrorSocket, CliHangUp
<1>5. ASSUME NEW x \in Ids, CliStreamClose(x)
      PROVE  Flows(c2s', s, got, csent'[s], Up')
  <2>1. <<StreamCloseMsg(x)>> \in Seq(Frame)
    BY FrameType
  <2> QED
    BY <1>s, <1>k, <1>5, <2>1, NoDataShort DEF CliStreamClose
<1>6. ASSUME NEW x \in Ids, CliStreamError(x)
      PROVE  Flows(c2s', s, got, csent'[s], Up')
  <2>1. <<StreamResetMsg(x)>> \in Seq(Frame)
    BY FrameType
  <2> QED
    BY <1>s, <1>k, <1>6, <2>1, NoDataShort DEF CliStreamError
<1>7. ASSUME NEW x \in Ids, CliStreamSend(x)
      PROVE  Flows(c2s', s, got, csent'[s], Up')
  <2>0. /\ cstream[x] \in {"OPEN", "CLOSEWAIT"} /\ csent' = [csent EXCEPT ![x] = @ + 1]
        /\ c2s' = IF CliSendable THEN ToServer(<<StreamDataMsg(x, csent[x] + 1)>>) ELSE c2s
        /\ UNCHANGED <<cws, sws, link>>
    BY <1>7 DEF CliStreamSend
  <2>1. PICK f : f = StreamDataMsg(x, csent[x] + 1)
    OBVIOUS
  <2>2. f \in Frame
    <3>1. csent[x] + 1 \in Nat
      BY <1>t
    <3> QED
      BY <2>1, <3>1, FrameType
  <2>3. PICK q2 : q2 = c2s'
    OBVIOUS
  <2>4. q2 = IF Up THEN c2s \o <<f>> ELSE c2s
    <3>1. Up => CliSendable
      BY <2>0, UpSends DEF NoStream
    <3> QED
      BY <2>0, <2>1, <2>3, <3>1 DEF ToServer, Up
  <2>5. Up' = Up
    BY <2>0 DEF Up
  <2>6. CASE x = s
    <3>1. ~Ended(c2s, s)
      BY <1>c, <2>0, <2>6, NotEnded
    <3>2. Flows(q2, s, got, csent[s] + 1, Up)
      BY <1>t, <2>1, <2>4, <2>6, <3>1, FlowData
    <3>3. csent'[s] = csent[s] + 1
      BY <1>t, <2>0, <2>6
    <3> QED
      BY <2>3, <2>5, <3>2, <3>3
  <2>7. CASE x # s
    <3>1. NoData(<<f>>, s) /\ <<f>> \in Seq(Frame)
      BY <2>1, <2>2, <2>7, NoDataShort
    <3>2. Flows(q2, s, got, csent[s], Up)
      BY <1>t, <2>4, <3>1, FlowSend, ZenonT(60)
    <3>3. csent'[s] = csent[s]
      BY <1>t, <2>0, <2>7
    <3> QED
      BY <2>3, <2>5, <3>2, <3>3
  <2> QED
    BY <2>6, <2>7
<1>8. CASE CliWsClosed
  <2>1. <<WsClose>> \in Seq(Frame)
    BY FrameType
  <2> QED
    BY <1>s, <1>8, <2>1, NoDataShort DEF CliWsClosed, CliOnSocketClose
<1>9. CASE CliLinkDown \/ CliIgnores
  BY <1>k, <1>9 DEF CliLinkDown, CliOnSocketClose, CliOnSocketError, CliIgnores, clientVars
<1>10. CASE CliRecvGoaway \/ CliRecvData \/ CliRecvClose \/ CliRecvReset
  BY <1>k, <1>10 DEF CliRecvGoaway, CliOnSocketError, CliRecvData, CliRecvClose, CliRecvReset, CliTakes
<1>11. CASE CliReturns
  BY <1>k, <1>11 DEF CliReturns, wireVars
<1> QED
  BY <1>1, <1>2, <1>3, <1>4, <1>5, <1>6, <1>7, <1>8, <1>9, <1>10, <1>11 DEF ClientStep, CliUser, CliSystem

\* Every step of the server keeps the flow towards the client.
LEMMA SrvSendsFlow ==
  ASSUME TypeOK, TypeOK', StreamInv, SocketInv, ServerStep, NEW s \in Ids, NEW got,
         Flows(s2c, s, got, ssent[s], Down)
  PROVE  Flows(s2c', s, got, ssent'[s], Down')
<1>t. /\ s2c \in Seq(Frame) /\ ssent \in [Ids -> Nat] /\ Down \in BOOLEAN /\ Down' \in BOOLEAN
  BY DEF TypeOK, WireTypeOK, ServerTypeOK, Down
<1>w. Down' => Down
  BY SrvWire
<1>c. Consistent(s2c, sstream)
  BY DEF StreamInv
<1>s. ASSUME NEW r \in Seq(Frame), NoData(r, s), s2c' = ToClient(r), ssent' = ssent
      PROVE  Flows(s2c', s, got, ssent'[s], Down')
  <2>1. PICK q2 : q2 = s2c'
    OBVIOUS
  <2>2. PICK up2 \in BOOLEAN : up2 = Down'
    BY <1>t
  <2>3. q2 = IF Down THEN s2c \o r ELSE s2c
    BY <1>s, <2>1 DEF ToClient, Down
  <2>4. Flows(q2, s, got, ssent[s], up2)
    <3>1. up2 => Down
      BY <1>w, <2>2
    <3>2. r \in Seq(Frame) /\ NoData(r, s)
      BY <1>s
    <3>3. Flows(q2, s, got, ssent[s], Down)
      <4>1. PICK q : q = s2c
        OBVIOUS
      <4>2. PICK n : n = ssent[s]
        OBVIOUS
      <4>3. PICK up \in BOOLEAN : up = Down
        BY <1>t
      <4>4. q \in Seq(Frame) /\ q2 = (IF up THEN q \o r ELSE q) /\ Flows(q, s, got, n, up)
        BY <1>t, <2>3, <4>1, <4>2, <4>3
      <4>5. Flows(q2, s, got, n, up)
        BY ONLY <3>2, <4>4, up \in BOOLEAN, FlowSend, ZenonT(60)
      <4> QED
        BY <4>2, <4>3, <4>5
    <3> QED
      BY <1>t, <3>1, <3>3, FlowStill
  <2> QED
    BY <1>s, <2>1, <2>2, <2>4
<1>k. ASSUME s2c' = s2c, ssent' = ssent
      PROVE  Flows(s2c', s, got, ssent'[s], Down')
  <2>1. PICK up2 \in BOOLEAN : up2 = Down'
    BY <1>t
  <2>2. Flows(s2c, s, got, ssent[s], up2)
    BY <1>t, <1>w, <2>1, FlowStill
  <2> QED
    BY <1>k, <2>1, <2>2
<1>e. ASSUME NEW k \in Nat, SrvErrorSocket(k)
      PROVE  Flows(s2c', s, got, ssent'[s], Down')
  <2>1. <<GoawayMsg(k), WsAbort>> \in Seq(Frame)
    BY GoodbyeType
  <2> QED
    BY <1>s, <1>k, <1>e, <2>1, NoDataShort DEF SrvErrorSocket, SrvHangUp
<1>h. <<WsClose>> \in Seq(Frame) /\ <<WsAbort>> \in Seq(Frame) /\ <<>> \in Seq(Frame)
  BY FrameType
<1>1. CASE SrvOpenStream \/ SessionExpires
  BY <1>k, <1>1 DEF SrvOpenStream, SessionExpires, wireVars
<1>2. CASE SrvCloseSocketIdle
  BY <1>s, <1>h, <1>2, NoDataShort DEF SrvCloseSocketIdle, SrvHangUp
<1>3. CASE SrvCloseSocket
  <2>1. PICK o \in Orders(SrvUnclosed) : SrvHangUp(Append(CloseMsgs(o), WsClose))
    BY <1>3 DEF SrvCloseSocket
  <2>2. SrvUnclosed \in SUBSET Ids
    BY SrvUnclosedIds DEF TypeOK
  <2>3. Append(CloseMsgs(o), WsClose) \in Seq(Frame) /\ NoData(Append(CloseMsgs(o), WsClose), s)
    BY <2>2, FarewellType, NoDataFarewell
  <2> QED
    BY <1>s, <1>3, <2>1, <2>3 DEF SrvCloseSocket, SrvHangUp
<1>4. CASE SrvNoDatabase \/ SessionTimeout \/ SrvErrorSocket(1002)
  BY <1>e, <1>4 DEF SrvNoDatabase, SessionTimeout
<1>5. ASSUME NEW x \in Ids, SrvStreamClose(x)
      PROVE  Flows(s2c', s, got, ssent'[s], Down')
  <2>1. <<StreamCloseMsg(x)>> \in Seq(Frame)
    BY FrameType
  <2> QED
    BY <1>s, <1>k, <1>5, <2>1, NoDataShort DEF SrvStreamClose
<1>6. ASSUME NEW x \in Ids, SrvStreamError(x)
      PROVE  Flows(s2c', s, got, ssent'[s], Down')
  <2>1. <<StreamResetMsg(x)>> \in Seq(Frame)
    BY FrameType
  <2> QED
    BY <1>s, <1>k, <1>6, <2>1, NoDataShort DEF SrvStreamError
<1>7. ASSUME NEW x \in Ids, SrvStreamSend(x)
      PROVE  Flows(s2c', s, got, ssent'[s], Down')
  <2>0. /\ sstream[x] \in {"OPEN", "CLOSEWAIT"} /\ ssent' = [ssent EXCEPT ![x] = @ + 1]
        /\ s2c' = ToClient(<<StreamDataMsg(x, ssent[x] + 1)>>)
        /\ UNCHANGED <<cws, sws, link>>
    BY <1>7 DEF SrvStreamSend
  <2>1. PICK f : f = StreamDataMsg(x, ssent[x] + 1)
    OBVIOUS
  <2>2. f \in Frame
    <3>1. ssent[x] + 1 \in Nat
      BY <1>t
    <3> QED
      BY <2>1, <3>1, FrameType
  <2>3. PICK q2 : q2 = s2c'
    OBVIOUS
  <2>4. q2 = IF Down THEN s2c \o <<f>> ELSE s2c
    BY <2>0, <2>1, <2>3 DEF ToClient, Down
  <2>5. Down' = Down
    BY <2>0 DEF Down
  <2>6. CASE x = s
    <3>1. ~Ended(s2c, s)
      BY <1>c, <2>0, <2>6, NotEnded
    <3>2. Flows(q2, s, got, ssent[s] + 1, Down)
      BY <1>t, <2>1, <2>4, <2>6, <3>1, FlowData
    <3>3. ssent'[s] = ssent[s] + 1
      BY <1>t, <2>0, <2>6
    <3> QED
      BY <2>3, <2>5, <3>2, <3>3
  <2>7. CASE x # s
    <3>1. NoData(<<f>>, s) /\ <<f>> \in Seq(Frame)
      BY <2>1, <2>2, <2>7, NoDataShort
    <3>2. Flows(q2, s, got, ssent[s], Down)
      BY <1>t, <2>4, <3>1, FlowSend, ZenonT(60)
    <3>3. ssent'[s] = ssent[s]
      BY <1>t, <2>0, <2>7
    <3> QED
      BY <2>3, <2>5, <3>2, <3>3
  <2> QED
    BY <2>6, <2>7
<1>8. CASE SrvWsClosed
  <2>1. ASSUME NEW q \in Orders(SrvUnclosed) \cup {<<>>}, SrvOnSocketClose(q), SrvHangUp(Append(CloseMsgs(q), WsClose))
        PROVE  Flows(s2c', s, got, ssent'[s], Down')
    <3>1. PICK S \in SUBSET Ids : q \in Orders(S)
      BY <2>1, SrvUnclosedIds DEF SrvOnSocketClose, TypeOK
    <3>2. Append(CloseMsgs(q), WsClose) \in Seq(Frame) /\ NoData(Append(CloseMsgs(q), WsClose), s)
      BY <3>1, FarewellType, NoDataFarewell
    <3> QED
      BY <1>s, <2>1, <3>2 DEF SrvHangUp, SrvOnSocketClose
  <2>2. ASSUME SrvOnSocketError, SrvHangUp(<<WsAbort>>) PROVE Flows(s2c', s, got, ssent'[s], Down')
    BY <1>s, <1>h, <2>2, NoDataShort DEF SrvHangUp, SrvOnSocketError
  <2> QED
    BY <1>8, <2>1, <2>2 DEF SrvWsClosed
<1>9. CASE SrvLinkDown
  BY <1>s, <1>h, <1>9, NoDataShort DEF SrvLinkDown, SrvHangUp, SrvOnSocketClose, SrvOnSocketError
<1>10. CASE SrvChannelClosed \/ SrvIgnores \/ SrvRecvFatal
  BY <1>k, <1>10 DEF SrvChannelClosed, SrvIgnores, SrvRecvFatal, SrvOnSocketClose, SrvOnSocketError, SrvTakes,
                      wireVars, serverVars
<1>11. CASE SrvRecvAuth
  BY <1>k, <1>4, <1>11 DEF SrvRecvAuth, SrvTakes
<1>12. CASE SrvRecvData \/ SrvRecvClose \/ SrvRecvReset
  BY <1>k, <1>12 DEF SrvRecvData, SrvRecvClose, SrvRecvReset, SrvTakes
<1>13. CASE SrvRecvExpired
  <2>1. PICK k \in Nat : k = 1003
    OBVIOUS
  <2>2. <<GoawayMsg(k), WsAbort>> \in Seq(Frame)
    BY GoodbyeType
  <2>3. s2c' = ToClient(<<GoawayMsg(k), WsAbort>>) /\ ssent' = ssent
    BY <1>13, <2>1 DEF SrvRecvExpired, SrvHangUp
  <2> QED
    BY <1>s, <2>2, <2>3, NoDataShort
<1> QED
  BY <1>1, <1>2, <1>3, <1>4, <1>5, <1>6, <1>7, <1>8, <1>9, <1>10, <1>11, <1>12, <1>13
  DEF ServerStep, SrvUser, SrvSystem
-----------------------------------------------------------------------------
(* What is received *)

\* A data frame that the client takes: it is appended to a stream that was
\* hearing, or the stream does not hear.
LEMMA CliDataFacts ==
  ASSUME TypeOK, TypeOK', StreamInv, SocketInv, CliRecvData
  PROVE  \E s \in Ids :
         /\ s2c # <<>> /\ DataOf(Head(s2c), s) /\ s2c' = Tail(s2c) /\ Head(s2c).n \in Nat
         /\ \A x \in Ids : x # s => /\ cstream'[x] = cstream[x] /\ (x \in cactive' => x \in cactive)
                                    /\ cgot'[x] = cgot[x]
         /\ cwater' = cwater \/ (cwater' = s /\ s > cwater)
         /\ cws' = cws /\ csent' = csent /\ c2s' = c2s
         /\ \/ /\ cgot'[s] = Append(cgot[s], Head(s2c).n) /\ cstream'[s] # NoStream
               /\ s % 2 = 1 \/ ~HearsWhileClosing => CliHearsOn(s)
            \/ cgot'[s] = cgot[s] /\ ~CliHearsOn(s)' /\ cstream'[s] = cstream[s]
<1>t. /\ s2c \in Seq(Frame) /\ cactive \in SUBSET Ids /\ cstream \in [Ids -> StreamStates \cup {NoStream}]
      /\ cgot \in [Ids -> Seq(Nat)] /\ cwater \in 0..MaxId
  BY DEF TypeOK, WireTypeOK, ClientTypeOK
<1>1. /\ s2c # <<>> /\ Head(s2c).type = "data" /\ s2c' = Tail(s2c) /\ CliHears
      /\ cws = "OPEN" \/ (cws = "CLOSING" /\ HearsWhileClosing)
      /\ cws' = cws /\ csent' = csent /\ c2s' = c2s /\ cstate' = cstate
  BY DEF CliRecvData, CliTakes
<1>2. PICK s : s = Head(s2c).stream
  OBVIOUS
<1>3. s \in Ids
  BY <1>t, <1>1, <1>2, ConsistentHead DEF StreamInv, StreamFrames
<1>4. DataOf(Head(s2c), s) /\ Head(s2c).n \in Nat
  <2>1. Head(s2c) \in Frame
    BY <1>t, <1>1, HeadType
  <2> QED
    BY <1>1, <1>2, <2>1 DEF DataOf, Frame
<1>5. PICK new \in BOOLEAN : new = (s \notin cactive /\ cstate # "CLOSING" /\ s % 2 = 0 /\ s > cwater)
  OBVIOUS
<1>6. PICK state : state = IF new THEN "OPEN" ELSE cstream[s]
  OBVIOUS
<1>7. /\ IF new
         THEN /\ cwater' = s
              /\ cactive' = cactive \cup {s}
              /\ cstream' = [cstream EXCEPT ![s] = "OPEN"]
         ELSE UNCHANGED <<cwater, cactive, cstream>>
      /\ cgot' = IF s \in cactive' /\ CliHandsOver(state)
                 THEN [cgot EXCEPT ![s] = Append(@, Head(s2c).n)] ELSE cgot
  BY <1>2, <1>5, <1>6 DEF CliRecvData
<1>8. cstream'[s] = state
  BY <1>t, <1>3, <1>6, <1>7
<1>9. s % 2 \in {0, 1}
  BY <1>3 DEF Ids
<1>10. s % 2 = 0 /\ s > cwater => cstream[s] = NoStream /\ s \notin cactive
  <2>1. s \in Nat /\ cwater \in Nat
    BY <1>t, <1>3, Bounds DEF Ids
  <2> QED
    BY <1>3, <2>1 DEF StreamInv, CliCounters
<1>11. CASE s \in cactive' /\ CliHandsOver(state)
  <2>1. cgot'[s] = Append(cgot[s], Head(s2c).n)
    BY <1>t, <1>3, <1>7, <1>11
  <2>2. state \in {"OPEN", "CLOSING"} /\ cstream'[s] # NoStream
    BY <1>8, <1>11 DEF CliHandsOver, NoStream
  <2>3. ASSUME s % 2 = 1 \/ ~HearsWhileClosing PROVE CliHearsOn(s)
    <3>1. CASE new
      <4>1. s % 2 = 0 /\ s > cwater
        BY <1>5, <3>1
      <4> QED
        BY <1>1, <1>10, <2>3, <4>1 DEF CliHearsOn
    <3>2. CASE ~new
      BY <1>1, <1>6, <1>7, <1>11, <2>2, <2>3, <3>2 DEF CliHearsOn
    <3> QED
      BY <3>1, <3>2
  <2>4. \A x \in Ids : x # s => /\ cstream'[x] = cstream[x] /\ (x \in cactive' => x \in cactive)
                                /\ cgot'[x] = cgot[x]
    BY <1>t, <1>7
  <2>5. cwater' = cwater \/ (cwater' = s /\ s > cwater)
    BY <1>5, <1>7
  <2> QED
    BY <1>1, <1>3, <1>4, <2>1, <2>2, <2>3, <2>4, <2>5
<1>12. CASE ~(s \in cactive' /\ CliHandsOver(state))
  <2>1. cgot' = cgot /\ ~new
    BY <1>6, <1>7, <1>12 DEF CliHandsOver
  <2>2. UNCHANGED <<cwater, cactive, cstream>>
    BY <1>7, <2>1
  <2>3. ~CliHearsOn(s)'
    <3> SUFFICES ASSUME CliHearsOn(s)' PROVE FALSE
      OBVIOUS
    <3>1. CASE s \in cactive' /\ cstream'[s] \in {"OPEN", "CLOSING"}
      BY <1>8, <1>12, <3>1 DEF CliHandsOver
    <3>2. CASE cstream'[s] = NoStream /\ s % 2 = 0 /\ s > cwater' /\ ~HearsWhileClosing
      <4>1. cstate = "CLOSING" /\ cws = "OPEN"
        BY <1>1, <1>5, <1>10, <2>1, <2>2, <3>2
      <4> QED
        BY <4>1 DEF SocketInv, CliSocketInv
    <3> QED
      BY <3>1, <3>2 DEF CliHearsOn
  <2> QED
    BY <1>1, <1>3, <1>4, <2>1, <2>2, <2>3
<1> QED
  BY <1>11, <1>12

\* The same at the server.
LEMMA SrvDataFacts ==
  ASSUME TypeOK, TypeOK', StreamInv, SrvRecvData
  PROVE  \E s \in Ids :
         /\ c2s # <<>> /\ DataOf(Head(c2s), s) /\ c2s' = Tail(c2s) /\ Head(c2s).n \in Nat
         /\ \A x \in Ids : x # s => /\ sstream'[x] = sstream[x] /\ (x \in sactive' => x \in sactive)
                                    /\ sgot'[x] = sgot[x]
         /\ swater' = swater \/ (swater' = s /\ s > swater)
         /\ sws' = sws /\ sstate' = sstate /\ ssent' = ssent
         /\ \/ sgot'[s] = Append(sgot[s], Head(c2s).n) /\ sstream'[s] # NoStream /\ SrvHears(s)
            \/ sgot'[s] = sgot[s] /\ ~SrvHears(s)' /\ sstream'[s] = sstream[s]
<1>t. /\ c2s \in Seq(Frame) /\ sactive \in SUBSET Ids /\ sstream \in [Ids -> StreamStates \cup {NoStream}]
      /\ sgot \in [Ids -> Seq(Nat)] /\ swater \in 0..MaxId
  BY DEF TypeOK, WireTypeOK, ServerTypeOK
<1>1. /\ c2s # <<>> /\ Head(c2s).type = "data" /\ c2s' = Tail(c2s) /\ sstate = "AUTH" /\ sws = "OPEN"
      /\ sws' = sws /\ ssent' = ssent /\ sstate' = sstate
  BY DEF SrvRecvData, SrvTakes, SrvHead
<1>2. PICK s : s = Head(c2s).stream
  OBVIOUS
<1>3. s \in Ids
  BY <1>t, <1>1, <1>2, ConsistentHead DEF StreamInv, StreamFrames
<1>4. DataOf(Head(c2s), s) /\ Head(c2s).n \in Nat
  <2>1. Head(c2s) \in Frame
    BY <1>t, <1>1, HeadType
  <2> QED
    BY <1>1, <1>2, <2>1 DEF DataOf, Frame
<1>5. PICK new \in BOOLEAN : new = (s \notin sactive /\ s % 2 = 1 /\ s > swater)
  OBVIOUS
<1>6. PICK state : state = IF new THEN "OPEN" ELSE sstream[s]
  OBVIOUS
<1>7. /\ IF new
         THEN /\ swater' = s
              /\ sactive' = sactive \cup {s}
              /\ sstream' = [sstream EXCEPT ![s] = "OPEN"]
         ELSE UNCHANGED <<swater, sactive, sstream>>
      /\ sgot' = IF s \in sactive' /\ SrvHandsOver(state)
                 THEN [sgot EXCEPT ![s] = Append(@, Head(c2s).n)] ELSE sgot
  BY <1>2, <1>5, <1>6 DEF SrvRecvData
<1>8. sstream'[s] = state
  BY <1>t, <1>3, <1>6, <1>7
<1>9. s % 2 = 1 /\ s > swater => sstream[s] = NoStream /\ s \notin sactive
  <2>1. s \in Nat /\ swater \in Nat
    BY <1>t, <1>3, Bounds DEF Ids
  <2> QED
    BY <1>3, <2>1 DEF StreamInv, SrvCounters
<1>10. CASE s \in sactive' /\ SrvHandsOver(state)
  <2>1. sgot'[s] = Append(sgot[s], Head(c2s).n)
    BY <1>t, <1>3, <1>7, <1>10
  <2>2. state \in {"OPEN", "CLOSING"} /\ sstream'[s] # NoStream
    BY <1>8, <1>10 DEF SrvHandsOver, NoStream
  <2>3. SrvHears(s)
    <3>1. CASE new
      <4>1. s % 2 = 1 /\ s > swater
        BY <1>5, <3>1
      <4> QED
        BY <1>1, <1>9, <4>1 DEF SrvHears
    <3>2. CASE ~new
      BY <1>1, <1>6, <1>7, <1>10, <2>2, <3>2 DEF SrvHears
    <3> QED
      BY <3>1, <3>2
  <2>4. \A x \in Ids : x # s => /\ sstream'[x] = sstream[x] /\ (x \in sactive' => x \in sactive)
                                /\ sgot'[x] = sgot[x]
    BY <1>t, <1>7
  <2>5. swater' = swater \/ (swater' = s /\ s > swater)
    BY <1>5, <1>7
  <2> QED
    BY <1>1, <1>3, <1>4, <2>1, <2>2, <2>3, <2>4, <2>5
<1>11. CASE ~(s \in sactive' /\ SrvHandsOver(state))
  <2>1. sgot' = sgot /\ ~new
    BY <1>6, <1>7, <1>11 DEF SrvHandsOver
  <2>2. UNCHANGED <<swater, sactive, sstream>>
    BY <1>7, <2>1
  <2>3. ~SrvHears(s)'
    <3> SUFFICES ASSUME SrvHears(s)' PROVE FALSE
      OBVIOUS
    <3>1. CASE s \in sactive' /\ sstream'[s] \in {"OPEN", "CLOSING"}
      BY <1>8, <1>11, <3>1 DEF SrvHandsOver
    <3>2. CASE sstream'[s] = NoStream /\ s % 2 = 1 /\ s > swater'
      BY <1>5, <1>9, <2>1, <2>2, <3>2
    <3> QED
      BY <3>1, <3>2 DEF SrvHears
  <2> QED
    BY <1>1, <1>3, <1>4, <2>1, <2>2, <2>3
<1> QED
  BY <1>10, <1>11

\* What a stream in queue q that hears got, after the head was taken.
LEMMA FlowReceive ==
  ASSUME NEW q \in Seq(Frame), q # <<>>, NEW x, NEW s, DataOf(Head(q), x), NEW g \in Seq(Nat), NEW g2,
         NEW sent, NEW up \in BOOLEAN, Flows(q, s, Len(g), sent, up),
         s # x => g2 = g, s = x => g2 = Append(g, Head(q).n)
  PROVE  Flows(Tail(q), s, Len(g2), sent, up) /\ (s = x => Head(q).n = Len(g) + 1)
<1>1. CASE s # x
  <2>1. ~DataOf(Head(q), s)
    BY <1>1 DEF DataOf
  <2>2. PICK n : n = Len(g)
    OBVIOUS
  <2>3. Flows(Tail(q), s, n, sent, up)
    BY <2>1, <2>2, FlowPass
  <2> QED
    BY <1>1, <2>2, <2>3
<1>2. CASE s = x
  <2>1. PICK n \in Nat : n = Len(g)
    OBVIOUS
  <2>2. Head(q).n = n + 1 /\ Flows(Tail(q), s, n + 1, sent, up)
    BY <1>2, <2>1, FlowTake
  <2>3. Len(g2) = n + 1
    <3>1. PICK k \in Nat : k = Head(q).n
      BY <2>2
    <3> QED
      BY <1>2, <2>1, <3>1
  <2> QED
    BY <1>2, <2>1, <2>2, <2>3
<1> QED
  BY <1>1, <1>2

\* Every step of the client keeps the flow towards it.
LEMMA CliHearsFlow ==
  ASSUME TypeOK, TypeOK', StreamInv, SocketInv, FlowInv, ClientStep, NEW s \in Ids, CliHearsOn(s)'
  PROVE  Flows(s2c', s, Len(cgot'[s]), ssent[s], Down')
<1>t. /\ s2c \in Seq(Frame) /\ Down \in BOOLEAN /\ Down' \in BOOLEAN
      /\ cgot \in [Ids -> Seq(Nat)] /\ cstream \in [Ids -> StreamStates \cup {NoStream}]
      /\ cws \in {"OPEN", "CLOSING", "CLOSED"} /\ cstate \in ClientStates
      /\ cactive \in SUBSET Ids /\ cwater \in Nat
  BY Bounds DEF TypeOK, WireTypeOK, ClientTypeOK, Down
<1>w. Down' => Down
  BY CliWire
<1>c. Consistent(s2c, sstream)
  BY DEF StreamInv
<1>f. CliHearsOn(s) => Flows(s2c, s, Len(cgot[s]), ssent[s], Down)
  BY DEF FlowInv
<1>k. ASSUME s2c' = s2c, cgot' = cgot, CliHearsOn(s)
      PROVE  Flows(s2c', s, Len(cgot'[s]), ssent[s], Down')
  <2>1. PICK up2 \in BOOLEAN : up2 = Down'
    BY <1>t
  <2>2. PICK n : n = Len(cgot[s])
    OBVIOUS
  <2>3. Flows(s2c, s, n, ssent[s], up2)
    BY <1>t, <1>w, <1>f, <1>k, <2>1, <2>2, FlowStill
  <2> QED
    BY <1>k, <2>1, <2>2, <2>3
<1>p. ASSUME s2c # <<>>, s2c' = Tail(s2c), cgot' = cgot, CliHearsOn(s), ~DataOf(Head(s2c), s)
      PROVE  Flows(s2c', s, Len(cgot'[s]), ssent[s], Down')
  <2>1. PICK up2 \in BOOLEAN : up2 = Down'
    BY <1>t
  <2>2. PICK n : n = Len(cgot[s])
    OBVIOUS
  <2>3. Flows(Tail(s2c), s, n, ssent[s], up2)
    BY <1>t, <1>w, <1>f, <1>p, <2>1, <2>2, FlowPass
  <2> QED
    BY <1>p, <2>1, <2>2, <2>3
<1>b. ASSUME cactive' \subseteq cactive, cwater' = cwater,
             cstream'[s] \in {"OPEN", "CLOSING"} => cstream[s] \in {"OPEN", "CLOSING"},
             cstream'[s] = NoStream => cstream[s] = NoStream,
             cws' = cws \/ cws = "OPEN"
      PROVE  CliHearsOn(s)
  BY <1>t, <1>b DEF CliHearsOn
<1>1. CASE AuthTimer \/ AuthSigned \/ CliErrorSocketQuiet \/ CliReturns
  <2>1. CliHearsOn(s)
    BY <1>b, <1>1 DEF AuthTimer, AuthSigned, CliErrorSocketQuiet, CliReturns, wireVars
  <2> QED
    BY <1>k, <1>1, <2>1 DEF AuthTimer, AuthSigned, CliErrorSocketQuiet, CliReturns, wireVars
<1>2. CASE CliOpenStream
  <2>1. /\ cstream' = [cstream EXCEPT ![cnext] = "OPEN"] /\ cactive' = cactive \cup {cnext}
        /\ cwater' = cwater /\ cgot' = cgot /\ s2c' = s2c /\ cws' = cws
    BY <1>2 DEF CliOpenStream, wireVars
  <2>2. CASE s = cnext
    <3>1. s % 2 = 1 /\ cstream[s] = NoStream
      BY <2>2, Bounds DEF StreamInv, CliCounters, Ids
    <3>2. sstream[s] = NoStream
      BY <3>1 DEF StreamInv, PeerOpened, ClientIds
    <3>3. Len(cgot[s]) = 0 /\ ssent[s] = 0
      BY <3>1, <3>2 DEF FlowInv
    <3>4. NoData(s2c, s)
      BY <1>c, <3>2, NoneInFlight
    <3>5. PICK up2 \in BOOLEAN : up2 = Down'
      BY <1>t
    <3>6. Flows(s2c, s, 0, 0, up2)
      BY <3>4, FlowFresh
    <3> QED
      BY <2>1, <3>3, <3>5, <3>6
  <2>3. CASE s # cnext
    <3>1. CliHearsOn(s)
      BY <1>t, <2>1, <2>3 DEF CliHearsOn
    <3> QED
      BY <1>k, <2>1, <3>1
  <2> QED
    BY <2>2, <2>3
<1>3. CASE CliCloseSocket
  <2>1. /\ cstream' = CliCloseAll(cactive) /\ cactive' \subseteq cactive /\ s2c' = s2c /\ cgot' = cgot
        /\ cwater' = cwater /\ (cws' = cws \/ cws = "OPEN")
    BY <1>3 DEF CliCloseSocket, CliHangUp
  <2>2. CliHearsOn(s)
    BY <1>b, <2>1 DEF CliCloseAll, NoStream
  <2> QED
    BY <1>k, <2>1, <2>2
<1>4. CASE CliErrorSocket
  <2>1. /\ cstream' = CliErrorAll(cactive) /\ cactive' \subseteq cactive /\ s2c' = s2c /\ cgot' = cgot
        /\ cwater' = cwater /\ (cws' = cws \/ cws = "OPEN")
    BY <1>4 DEF CliErrorSocket, CliHangUp
  <2>2. CliHearsOn(s)
    BY <1>b, <2>1 DEF CliErrorAll, NoStream
  <2> QED
    BY <1>k, <2>1, <2>2
<1>5. ASSUME NEW x \in Ids, CliStreamClose(x) \/ CliStreamError(x) \/ CliStreamSend(x)
      PROVE  Flows(s2c', s, Len(cgot'[s]), ssent[s], Down')
  <2>1. /\ cactive' \subseteq cactive /\ s2c' = s2c /\ cgot' = cgot /\ cwater' = cwater /\ cws' = cws
        /\ cstream'[s] \in {"OPEN", "CLOSING"} => cstream[s] \in {"OPEN", "CLOSING"}
        /\ cstream'[s] = NoStream => cstream[s] = NoStream
    BY <1>t, <1>5 DEF CliStreamClose, CliStreamError, CliStreamSend, CliCloseAll, NoStream
  <2> QED
    BY <1>b, <1>k, <2>1
<1>6. CASE CliWsClosed \/ CliLinkDown
  BY <1>6 DEF CliWsClosed, CliLinkDown, CliHearsOn
<1>7. CASE CliIgnores
  <2>1. /\ s2c # <<>> /\ s2c' = Tail(s2c) /\ cws' = cws /\ UNCHANGED <<cgot, cactive, cstream, cwater>>
        /\ ~CliHears \/ (cws = "CLOSING" /\ ~HearsWhileClosing)
    BY <1>7 DEF CliIgnores, clientVars
  <2>2. CliHearsOn(s)
    BY <1>b, <2>1
  <2>3. ~CliHears
    BY <2>1, <2>2 DEF CliHearsOn
  <2>4. NoData(s2c, s)
    <3>1. CASE cws = "OPEN" /\ cstate = "CLOSED"
      BY <3>1 DEF SocketInv, CliSocketInv, NoData, DataOf
    <3>2. CASE cstate = "IDLE"
      <4>1. sstream[s] = NoStream
        BY <3>2 DEF SocketInv, CliSocketInv
      <4> QED
        BY <1>c, <4>1, NoneInFlight
    <3>3. CASE cws # "OPEN" /\ cstate = "CLOSED"
      BY <2>2, <3>3 DEF SocketInv, CliSocketInv, CliHearsOn
    <3>4. CASE cstate = "CLOSEWAIT"
      BY <2>2, <3>4 DEF SocketInv, CliSocketInv, CliHearsOn
    <3> QED
      BY <1>t, <2>3, <3>1, <3>2, <3>3, <3>4 DEF CliHears, ClientStates
  <2>5. ~DataOf(Head(s2c), s)
    BY <1>t, <2>1, <2>4, TailIs DEF NoData
  <2> QED
    BY <1>p, <2>1, <2>2, <2>5
<1>8. CASE CliRecvGoaway
  <2>1. /\ s2c # <<>> /\ s2c' = Tail(s2c) /\ Head(s2c).type = "goaway" /\ cgot' = cgot /\ cws' = cws
        /\ cactive' \subseteq cactive /\ cwater' = cwater
        /\ cstream' = CliErrorAll(cactive) \/ cstream' = cstream
    BY <1>8 DEF CliRecvGoaway, CliTakes, CliOnSocketError
  <2>2. CliHearsOn(s)
    BY <1>b, <2>1 DEF CliErrorAll, NoStream
  <2> QED
    BY <1>p, <2>1, <2>2 DEF DataOf
<1>9. CASE CliRecvClose \/ CliRecvReset
  <2>1. /\ s2c # <<>> /\ s2c' = Tail(s2c) /\ Head(s2c).type # "data" /\ cgot' = cgot /\ cws' = cws
        /\ cactive' \subseteq cactive /\ cwater' = cwater
    BY <1>9 DEF CliRecvClose, CliRecvReset, CliTakes
  <2>2. \E S : cstream' = CliErrorAll(S) \/ cstream' = CliPeerClosedAll(S)
    BY <1>9 DEF CliRecvClose, CliRecvReset
  <2>3. /\ cstream'[s] \in {"OPEN", "CLOSING"} => cstream[s] \in {"OPEN", "CLOSING"}
        /\ cstream'[s] = NoStream => cstream[s] = NoStream
    BY <2>2 DEF CliErrorAll, CliPeerClosedAll, NoStream
  <2>4. CliHearsOn(s)
    BY <1>b, <2>1, <2>3
  <2> QED
    BY <1>p, <2>1, <2>4 DEF DataOf
<1>10. CASE CliRecvData
  <2>1. PICK x \in Ids :
         /\ s2c # <<>> /\ DataOf(Head(s2c), x) /\ s2c' = Tail(s2c) /\ Head(s2c).n \in Nat
         /\ \A y \in Ids : y # x => /\ cstream'[y] = cstream[y] /\ (y \in cactive' => y \in cactive)
                                    /\ cgot'[y] = cgot[y]
         /\ cwater' = cwater \/ (cwater' = x /\ x > cwater)
         /\ cws' = cws
         /\ \/ /\ cgot'[x] = Append(cgot[x], Head(s2c).n) /\ cstream'[x] # NoStream
               /\ x % 2 = 1 \/ ~HearsWhileClosing => CliHearsOn(x)
            \/ cgot'[x] = cgot[x] /\ ~CliHearsOn(x)' /\ cstream'[x] = cstream[x]
    BY <1>10, CliDataFacts
  <2>2. CliHearsOn(s)
    <3>1. CASE s = x
      <4>1. s % 2 = 1 \/ ~HearsWhileClosing
        BY DEF CliHearsOn
      <4> QED
        BY <2>1, <3>1, <4>1
    <3>2. CASE s # x
      <4>1. s > cwater' => s > cwater
        BY <1>t, <2>1, Bounds DEF Ids
      <4> QED
        BY <2>1, <3>2, <4>1 DEF CliHearsOn
    <3> QED
      BY <3>1, <3>2
  <2>3. PICK up2 \in BOOLEAN : up2 = Down'
    BY <1>t
  <2>4. Flows(s2c, s, Len(cgot[s]), ssent[s], up2)
    <3>1. PICK n : n = Len(cgot[s])
      OBVIOUS
    <3> QED
      BY <1>t, <1>w, <1>f, <2>2, <2>3, <3>1, FlowStill
  <2>5. PICK g \in Seq(Nat) : g = cgot[s]
    BY <1>t
  <2>6. PICK g2 : g2 = cgot'[s]
    OBVIOUS
  <2>7. PICK sent : sent = ssent[s]
    OBVIOUS
  <2>8. PICK q : q = s2c
    OBVIOUS
  <2>9. /\ q \in Seq(Frame) /\ q # <<>> /\ DataOf(Head(q), x) /\ Flows(q, s, Len(g), sent, up2)
        /\ s # x => g2 = g
        /\ s = x => g2 = Append(g, Head(q).n)
    BY <1>t, <2>1, <2>4, <2>5, <2>6, <2>7, <2>8
  <2>10. Flows(Tail(q), s, Len(g2), sent, up2)
    BY ONLY <2>9, g \in Seq(Nat), up2 \in BOOLEAN, FlowReceive
  <2> QED
    BY <2>1, <2>3, <2>6, <2>7, <2>8, <2>10
<1> QED
  BY <1>1, <1>2, <1>3, <1>4, <1>5, <1>6, <1>7, <1>8, <1>9, <1>10 DEF ClientStep, CliUser, CliSystem

\* Every step of the server keeps the flow towards it.
LEMMA SrvHearsFlow ==
  ASSUME TypeOK, TypeOK', StreamInv, SocketInv, FlowInv, ServerStep, NEW s \in Ids, SrvHears(s)'
  PROVE  Flows(c2s', s, Len(sgot'[s]), csent[s], Up')
<1>t. /\ c2s \in Seq(Frame) /\ Up \in BOOLEAN /\ Up' \in BOOLEAN
      /\ sgot \in [Ids -> Seq(Nat)] /\ sstream \in [Ids -> StreamStates \cup {NoStream}]
      /\ sws \in {"OPEN", "CLOSED"} /\ sstate \in ServerStates
      /\ sactive \in SUBSET Ids /\ swater \in Nat
  BY Bounds DEF TypeOK, WireTypeOK, ServerTypeOK, Up
<1>w. Up' => Up
  BY SrvWire
<1>c. Consistent(c2s, cstream)
  BY DEF StreamInv
<1>f. SrvHears(s) => Flows(c2s, s, Len(sgot[s]), csent[s], Up)
  BY DEF FlowInv
<1>k. ASSUME c2s' = c2s, sgot' = sgot, SrvHears(s)
      PROVE  Flows(c2s', s, Len(sgot'[s]), csent[s], Up')
  <2>1. PICK up2 \in BOOLEAN : up2 = Up'
    BY <1>t
  <2>2. PICK n : n = Len(sgot[s])
    OBVIOUS
  <2>3. Flows(c2s, s, n, csent[s], up2)
    BY <1>t, <1>w, <1>f, <1>k, <2>1, <2>2, FlowStill
  <2> QED
    BY <1>k, <2>1, <2>2, <2>3
<1>p. ASSUME c2s # <<>>, c2s' = Tail(c2s), sgot' = sgot, SrvHears(s), ~DataOf(Head(c2s), s)
      PROVE  Flows(c2s', s, Len(sgot'[s]), csent[s], Up')
  <2>1. PICK up2 \in BOOLEAN : up2 = Up'
    BY <1>t
  <2>2. PICK n : n = Len(sgot[s])
    OBVIOUS
  <2>3. Flows(Tail(c2s), s, n, csent[s], up2)
    BY <1>t, <1>w, <1>f, <1>p, <2>1, <2>2, FlowPass
  <2> QED
    BY <1>p, <2>1, <2>2, <2>3
<1>b. ASSUME sactive' \subseteq sactive, swater' = swater, sws' = sws, sstate # "CLOSED",
             sstream'[s] \in {"OPEN", "CLOSING"} => sstream[s] \in {"OPEN", "CLOSING"},
             sstream'[s] = NoStream => sstream[s] = NoStream
      PROVE  SrvHears(s)
  BY <1>t, <1>b DEF SrvHears
<1>v. sws' = "OPEN" /\ sstate' # "CLOSED"
  BY DEF SrvHears
<1>1. CASE SrvOpenStream
  <2>1. /\ sstream' = [sstream EXCEPT ![snext] = "OPEN"] /\ sactive' = sactive \cup {snext}
        /\ swater' = swater /\ sgot' = sgot /\ c2s' = c2s /\ sws' = sws /\ sstate = "AUTH"
    BY <1>1 DEF SrvOpenStream, wireVars
  <2>2. CASE s = snext
    <3>1. s % 2 = 0 /\ sstream[s] = NoStream
      BY <2>2, Bounds DEF StreamInv, SrvCounters, Ids
    <3>2. cstream[s] = NoStream
      BY <3>1 DEF StreamInv, PeerOpened, ServerIds
    <3>3. Len(sgot[s]) = 0 /\ csent[s] = 0
      BY <3>1, <3>2 DEF FlowInv
    <3>4. NoData(c2s, s)
      BY <1>c, <3>2, NoneInFlight
    <3>5. PICK up2 \in BOOLEAN : up2 = Up'
      BY <1>t
    <3>6. Flows(c2s, s, 0, 0, up2)
      BY <3>4, FlowFresh
    <3> QED
      BY <2>1, <3>3, <3>5, <3>6
  <2>3. CASE s # snext
    <3>1. SrvHears(s)
      BY <1>t, <2>1, <2>3 DEF SrvHears
    <3> QED
      BY <1>k, <2>1, <3>1
  <2> QED
    BY <2>2, <2>3
<1>2. CASE SrvCloseSocketIdle \/ SrvCloseSocket \/ SrvWsClosed \/ SrvLinkDown \/ SrvRecvExpired
  BY <1>v, <1>2 DEF SrvCloseSocketIdle, SrvCloseSocket, SrvWsClosed, SrvLinkDown, SrvRecvExpired, SrvHangUp
<1>3. CASE SrvNoDatabase \/ SessionTimeout \/ SrvErrorSocket(1002)
  BY <1>v, <1>3 DEF SrvNoDatabase, SessionTimeout, SrvErrorSocket
<1>4. CASE SrvChannelClosed \/ SrvIgnores \/ SrvRecvFatal
  BY <1>v, <1>4 DEF SrvChannelClosed, SrvIgnores, SrvRecvFatal, SrvOnSocketClose, SrvOnSocketError, serverVars
<1>5. CASE SessionExpires
  <2>1. /\ UNCHANGED <<sactive, sstream, swater, sstate, sgot, c2s, sws>>
    BY <1>5 DEF SessionExpires, wireVars
  <2> QED
    BY <1>b, <1>k, <1>v, <2>1
<1>6. ASSUME NEW x \in Ids, SrvStreamClose(x) \/ SrvStreamError(x) \/ SrvStreamSend(x)
      PROVE  Flows(c2s', s, Len(sgot'[s]), csent[s], Up')
  <2>1. /\ sactive' \subseteq sactive /\ c2s' = c2s /\ sgot' = sgot /\ swater' = swater /\ sws' = sws
        /\ sstate' = sstate
        /\ sstream'[s] \in {"OPEN", "CLOSING"} => sstream[s] \in {"OPEN", "CLOSING"}
        /\ sstream'[s] = NoStream => sstream[s] = NoStream
    BY <1>t, <1>6 DEF SrvStreamClose, SrvStreamError, SrvStreamSend, SrvCloseAll, NoStream
  <2> QED
    BY <1>b, <1>k, <1>v, <2>1
<1>7. CASE SrvRecvAuth
  <2>1. CASE SrvTakes /\ UNCHANGED <<sactive, sstream, swater, sgot>>
    <3>1. /\ c2s # <<>> /\ c2s' = Tail(c2s) /\ Head(c2s).type = "auth" /\ sgot' = sgot /\ sws' = sws
          /\ sstate # "CLOSED"
      BY <1>7, <2>1 DEF SrvRecvAuth, SrvTakes, SrvHead
    <3>2. SrvHears(s)
      BY <1>b, <2>1, <3>1
    <3> QED
      BY <1>p, <3>1, <3>2 DEF DataOf
  <2> QED
    BY <1>3, <1>7, <2>1 DEF SrvRecvAuth
<1>8. CASE SrvRecvClose \/ SrvRecvReset
  <2>1. /\ c2s # <<>> /\ c2s' = Tail(c2s) /\ Head(c2s).type # "data" /\ sgot' = sgot /\ sws' = sws
        /\ sactive' \subseteq sactive /\ swater' = swater /\ sstate = "AUTH"
    BY <1>8 DEF SrvRecvClose, SrvRecvReset, SrvTakes, SrvHead
  <2>2. \E S : sstream' = SrvEndAll(S) \/ sstream' = SrvPeerClosedAll(S)
    BY <1>8 DEF SrvRecvClose, SrvRecvReset
  <2>3. /\ sstream'[s] \in {"OPEN", "CLOSING"} => sstream[s] \in {"OPEN", "CLOSING"}
        /\ sstream'[s] = NoStream => sstream[s] = NoStream
    BY <2>2 DEF SrvEndAll, SrvPeerClosedAll, NoStream
  <2>4. SrvHears(s)
    BY <1>b, <2>1, <2>3
  <2> QED
    BY <1>p, <2>1, <2>4 DEF DataOf
<1>9. CASE SrvRecvData
  <2>1. PICK x \in Ids :
         /\ c2s # <<>> /\ DataOf(Head(c2s), x) /\ c2s' = Tail(c2s) /\ Head(c2s).n \in Nat
         /\ \A y \in Ids : y # x => /\ sstream'[y] = sstream[y] /\ (y \in sactive' => y \in sactive)
                                    /\ sgot'[y] = sgot[y]
         /\ swater' = swater \/ (swater' = x /\ x > swater)
         /\ sws' = sws /\ sstate' = sstate
         /\ \/ sgot'[x] = Append(sgot[x], Head(c2s).n) /\ sstream'[x] # NoStream /\ SrvHears(x)
            \/ sgot'[x] = sgot[x] /\ ~SrvHears(x)' /\ sstream'[x] = sstream[x]
    BY <1>9, SrvDataFacts
  <2>2. SrvHears(s)
    <3>1. CASE s = x
      BY <2>1, <3>1
    <3>2. CASE s # x
      <4>1. s > swater' => s > swater
        BY <1>t, <2>1, Bounds DEF Ids
      <4> QED
        BY <2>1, <3>2, <4>1 DEF SrvHears
    <3> QED
      BY <3>1, <3>2
  <2>3. PICK up2 \in BOOLEAN : up2 = Up'
    BY <1>t
  <2>4. Flows(c2s, s, Len(sgot[s]), csent[s], up2)
    <3>1. PICK n : n = Len(sgot[s])
      OBVIOUS
    <3> QED
      BY <1>t, <1>w, <1>f, <2>2, <2>3, <3>1, FlowStill
  <2>5. PICK g \in Seq(Nat) : g = sgot[s]
    BY <1>t
  <2>6. PICK g2 : g2 = sgot'[s]
    OBVIOUS
  <2>7. PICK sent : sent = csent[s]
    OBVIOUS
  <2>8. PICK q : q = c2s
    OBVIOUS
  <2>9. /\ q \in Seq(Frame) /\ q # <<>> /\ DataOf(Head(q), x) /\ Flows(q, s, Len(g), sent, up2)
        /\ s # x => g2 = g
        /\ s = x => g2 = Append(g, Head(q).n)
    BY <1>t, <2>1, <2>4, <2>5, <2>6, <2>7, <2>8
  <2>10. Flows(Tail(q), s, Len(g2), sent, up2)
    BY ONLY <2>9, g \in Seq(Nat), up2 \in BOOLEAN, FlowReceive
  <2> QED
    BY <2>1, <2>3, <2>6, <2>7, <2>8, <2>10
<1> QED
  BY <1>1, <1>2, <1>3, <1>4, <1>5, <1>6, <1>7, <1>8, <1>9 DEF ServerStep, SrvUser, SrvSystem

\* The frame a hearing stream takes is the next one.
LEMMA NextIsNext ==
  ASSUME NEW q \in Seq(Frame), q # <<>>, NEW s, DataOf(Head(q), s), NEW g \in Seq(Nat), Counts(g),
         NEW sent, NEW up \in BOOLEAN, Flows(q, s, Len(g), sent, up)
  PROVE  Counts(Append(g, Head(q).n))
<1>1. PICK n \in Nat : n = Len(g)
  OBVIOUS
<1>2. Head(q).n = n + 1
  BY <1>1, FlowTake
<1>3. PICK k \in Nat : k = Head(q).n
  BY <1>2
<1>4. k = Len(g) + 1
  BY <1>1, <1>2, <1>3
<1>5. Counts(Append(g, k))
  BY <1>4, CountsMore
<1> QED
  BY <1>3, <1>5

LEMMA CliFlowSteps ==
  ASSUME TypeOK, TypeOK', StreamInv, StreamInv', SocketInv, FlowInv, ClientStep,
         Advance(cstream, cstream')
  PROVE  FlowInv'
<1>t. /\ s2c \in Seq(Frame) /\ Down \in BOOLEAN /\ csent \in [Ids -> Nat]
      /\ cgot \in [Ids -> Seq(Nat)] /\ cstream \in [Ids -> StreamStates \cup {NoStream}]
      /\ cstream' \in [Ids -> StreamStates \cup {NoStream}]
  BY DEF TypeOK, WireTypeOK, ClientTypeOK, Down
<1>u. UNCHANGED <<sstate, sactive, sstream, swater, ssent, sgot>> /\ sws' = sws
  BY CliWire DEF serverVars
<1>a. \A s \in Ids : cstream'[s] = NoStream => cstream[s] = NoStream
  BY <1>t, ForwardFacts DEF Advance
<1>1. \A s \in Ids : SrvHears(s)' => Flows(c2s', s, Len(sgot'[s]), csent'[s], Up')
  <2> SUFFICES ASSUME NEW s \in Ids, SrvHears(s)' PROVE Flows(c2s', s, Len(sgot'[s]), csent'[s], Up')
    OBVIOUS
  <2>1. SrvHears(s)
    BY <1>u DEF SrvHears
  <2>2. PICK n : n = Len(sgot[s])
    OBVIOUS
  <2>3. Flows(c2s, s, n, csent[s], Up)
    BY <2>1, <2>2 DEF FlowInv
  <2>4. Flows(c2s', s, n, csent'[s], Up')
    BY <2>3, CliSendsFlow
  <2> QED
    BY <1>u, <2>2, <2>4
<1>2. \A s \in Ids : CliHearsOn(s)' => Flows(s2c', s, Len(cgot'[s]), ssent'[s], Down')
  BY <1>u, CliHearsFlow
<1>3. \A s \in Ids : cstream'[s] = NoStream => csent'[s] = 0 /\ cgot'[s] = <<>>
  <2>1. CASE CliRecvData
    <3>1. PICK x \in Ids :
           /\ \A y \in Ids : y # x => cgot'[y] = cgot[y]
           /\ csent' = csent
           /\ cstream'[x] # NoStream \/ cgot'[x] = cgot[x]
      BY <2>1, CliDataFacts
    <3> QED
      BY <1>a, <3>1 DEF FlowInv
  <2>2. ASSUME NEW x \in Ids, CliStreamSend(x)
        PROVE  \A s \in Ids : cstream'[s] = NoStream => csent'[s] = 0 /\ cgot'[s] = <<>>
    <3>1. cstream[x] # NoStream /\ csent' = [csent EXCEPT ![x] = @ + 1] /\ cgot' = cgot
      BY <2>2 DEF CliStreamSend, NoStream
    <3> QED
      BY <1>t, <1>a, <3>1 DEF FlowInv
  <2>3. CASE csent' = csent /\ cgot' = cgot
    BY <1>a, <2>3 DEF FlowInv
  <2>4. CASE CliUser /\ ~\E x \in Ids : CliStreamSend(x)
    <3>1. csent' = csent /\ cgot' = cgot
      BY <2>4 DEF CliUser, CliOpenStream, CliCloseSocket, CliErrorSocketQuiet, CliErrorSocket, CliStreamClose, CliStreamError
    <3> QED
      BY <2>3, <3>1
  <2>5. CASE CliSystem /\ ~CliRecvData
    <3>1. csent' = csent /\ cgot' = cgot
      BY <2>5 DEF CliSystem, AuthTimer, AuthSigned, CliReturns, CliWsClosed, CliLinkDown, CliIgnores, CliRecvGoaway,
                  CliRecvClose, CliRecvReset, CliOnSocketClose, CliOnSocketError, clientVars
    <3> QED
      BY <2>3, <3>1
  <2> QED
    BY <2>1, <2>2, <2>4, <2>5 DEF ClientStep
<1>4. InOrder'
  <2>1. CASE CliRecvData
    <3>1. PICK x \in Ids :
           /\ s2c # <<>> /\ DataOf(Head(s2c), x)
           /\ \A y \in Ids : y # x => cgot'[y] = cgot[y]
           /\ \/ /\ cgot'[x] = Append(cgot[x], Head(s2c).n)
                 /\ x % 2 = 1 \/ ~HearsWhileClosing => CliHearsOn(x)
              \/ cgot'[x] = cgot[x]
      BY <2>1, CliDataFacts
    <3>2. ASSUME cgot'[x] = Append(cgot[x], Head(s2c).n), x \in ClientIds \/ ~HearsWhileClosing, CliHearsOn(x)
          PROVE  Counts(cgot'[x])
      <4>1. PICK g \in Seq(Nat) : g = cgot[x]
        BY <1>t
      <4>2. PICK q : q = s2c
        OBVIOUS
      <4>3. PICK sent : sent = ssent[x]
        OBVIOUS
      <4>4. PICK up \in BOOLEAN : up = Down
        BY <1>t
      <4>5. /\ q \in Seq(Frame) /\ q # <<>> /\ DataOf(Head(q), x) /\ Counts(g)
            /\ Flows(q, x, Len(g), sent, up)
        BY <1>t, <3>1, <3>2, <4>1, <4>2, <4>3, <4>4 DEF FlowInv, InOrder
      <4>6. Counts(Append(g, Head(q).n))
        BY ONLY <4>5, g \in Seq(Nat), up \in BOOLEAN, NextIsNext
      <4> QED
        BY <3>2, <4>1, <4>2, <4>6
    <3>3. \A s \in Ids : (s \in ClientIds \/ ~HearsWhileClosing) => Counts(cgot'[s])
      <4> SUFFICES ASSUME NEW s \in Ids, s \in ClientIds \/ ~HearsWhileClosing PROVE Counts(cgot'[s])
        OBVIOUS
      <4>1. CASE cgot'[s] = cgot[s]
        BY <4>1 DEF FlowInv, InOrder
      <4>2. CASE s = x /\ cgot'[x] # cgot[x]
        <5>1. x % 2 = 1 \/ ~HearsWhileClosing
          BY <4>2 DEF ClientIds
        <5> QED
          BY <3>1, <3>2, <4>2, <5>1
      <4> QED
        BY <3>1, <4>1, <4>2
    <3> QED
      BY <1>u, <3>3 DEF FlowInv, InOrder
  <2>2. CASE cgot' = cgot
    BY <1>u, <2>2 DEF FlowInv, InOrder
  <2>3. CASE ClientStep /\ ~CliRecvData
    <3>1. cgot' = cgot
      BY <2>3 DEF ClientStep, CliUser, CliOpenStream, CliCloseSocket, CliErrorSocketQuiet, CliErrorSocket, CliStreamClose,
                  CliStreamError, CliStreamSend, CliSystem, AuthTimer, AuthSigned, CliReturns, CliWsClosed, CliLinkDown, CliIgnores,
                  CliRecvGoaway, CliRecvClose, CliRecvReset, CliOnSocketClose, CliOnSocketError, clientVars
    <3> QED
      BY <2>2, <3>1
  <2> QED
    BY <2>1, <2>3
<1>5. \A s \in Ids : sstream'[s] = NoStream => ssent'[s] = 0 /\ sgot'[s] = <<>>
  BY <1>u DEF FlowInv
<1> QED
  BY <1>1, <1>2, <1>3, <1>4, <1>5 DEF FlowInv

\* A message of an expired session makes a stream at most.
LEMMA SrvExpiredFacts ==
  ASSUME TypeOK, TypeOK', StreamInv, SrvRecvExpired
  PROVE  /\ ssent' = ssent
         /\ \/ sgot' = sgot
            \/ \E x \in Ids : /\ c2s # <<>> /\ DataOf(Head(c2s), x)
                              /\ \A y \in Ids : y # x => sgot'[y] = sgot[y]
                              /\ sgot'[x] = Append(sgot[x], Head(c2s).n)
                              /\ sstream'[x] # NoStream /\ SrvHears(x)
<1>t. c2s \in Seq(Frame) /\ sgot \in [Ids -> Seq(Nat)] /\ swater \in Nat
  BY Bounds DEF TypeOK, WireTypeOK, ServerTypeOK
<1>1. c2s # <<>> /\ sws = "OPEN" /\ sstate = "AUTH" /\ ssent' = ssent
  BY DEF SrvRecvExpired, SrvHead
<1>2. PICK s : s = Head(c2s).stream
  OBVIOUS
<1>3. PICK new \in BOOLEAN : new = (Head(c2s).type = "data" /\ s % 2 = 1 /\ s > swater)
  OBVIOUS
<1>4. /\ sstream' = [x \in Ids |-> IF new /\ x = s THEN "OPEN" ELSE SrvEndAll(sactive)[x]]
      /\ sgot' = IF new THEN [sgot EXCEPT ![s] = Append(@, Head(c2s).n)] ELSE sgot
  BY <1>2, <1>3 DEF SrvRecvExpired
<1>5. CASE new
  <2>1. Head(c2s).type = "data" /\ s % 2 = 1 /\ s > swater
    BY <1>3, <1>5
  <2>2. s \in Ids
    BY <1>t, <1>1, <1>2, <2>1, ConsistentHead DEF StreamInv, StreamFrames
  <2>3. sstream[s] = NoStream
    <3>1. s \in Nat
      BY <2>2 DEF Ids
    <3> QED
      BY <1>t, <2>1, <2>2, <3>1 DEF StreamInv, SrvCounters
  <2>4. SrvHears(s)
    BY <1>1, <2>1, <2>3 DEF SrvHears
  <2>5. sgot'[s] = Append(sgot[s], Head(c2s).n) /\ \A y \in Ids : y # s => sgot'[y] = sgot[y]
    BY <1>t, <1>4, <1>5, <2>2
  <2>6. sstream'[s] # NoStream
    BY <1>4, <1>5, <2>2 DEF NoStream
  <2> QED
    BY <1>1, <1>2, <2>1, <2>2, <2>4, <2>5, <2>6 DEF DataOf
<1> QED
  BY <1>1, <1>4, <1>5

\* What every step of the server hands to its users.
LEMMA SrvGotFacts ==
  ASSUME TypeOK, TypeOK', StreamInv, ServerStep
  PROVE  \/ sgot' = sgot
         \/ \E x \in Ids : /\ c2s # <<>> /\ DataOf(Head(c2s), x)
                           /\ \A y \in Ids : y # x => sgot'[y] = sgot[y]
                           /\ \/ sgot'[x] = Append(sgot[x], Head(c2s).n) /\ sstream'[x] # NoStream /\ SrvHears(x)
                              \/ sgot'[x] = sgot[x]
<1>1. CASE SrvRecvData
  BY <1>1, SrvDataFacts
<1>2. CASE SrvRecvExpired
  BY <1>2, SrvExpiredFacts
<1>3. CASE SrvUser
  BY <1>3 DEF SrvUser, SrvOpenStream, SrvCloseSocketIdle, SrvCloseSocket, SrvNoDatabase,
              SrvErrorSocket, SrvStreamClose, SrvStreamError, SrvStreamSend
<1>4. CASE SrvSystem /\ ~SrvRecvData /\ ~SrvRecvExpired
  BY <1>4 DEF SrvSystem, SessionExpires, SessionTimeout, SrvErrorSocket, SrvWsClosed, SrvLinkDown,
              SrvChannelClosed, SrvOnSocketClose, SrvOnSocketError, SrvIgnores, SrvRecvAuth,
              SrvRecvFatal, SrvRecvClose, SrvRecvReset, serverVars
<1> QED
  BY <1>1, <1>2, <1>3, <1>4 DEF ServerStep

LEMMA SrvSentFacts ==
  ASSUME ServerStep
  PROVE  \/ ssent' = ssent
         \/ \E x \in Ids : sstream[x] # NoStream /\ ssent' = [ssent EXCEPT ![x] = @ + 1]
<1>1. CASE SrvUser
  BY <1>1 DEF SrvUser, SrvOpenStream, SrvCloseSocketIdle, SrvCloseSocket, SrvNoDatabase,
              SrvErrorSocket, SrvStreamClose, SrvStreamError, SrvStreamSend, NoStream
<1>2. CASE SrvSystem
  BY <1>2 DEF SrvSystem, SessionExpires, SessionTimeout, SrvErrorSocket, SrvWsClosed, SrvLinkDown,
              SrvChannelClosed, SrvOnSocketClose, SrvOnSocketError, SrvIgnores, SrvRecvAuth,
              SrvRecvFatal, SrvRecvData, SrvRecvClose, SrvRecvReset, SrvRecvExpired, serverVars
<1> QED
  BY <1>1, <1>2 DEF ServerStep

LEMMA SrvFlowSteps ==
  ASSUME TypeOK, TypeOK', StreamInv, StreamInv', SocketInv, FlowInv, ServerStep,
         Advance(sstream, sstream')
  PROVE  FlowInv'
<1>t. /\ c2s \in Seq(Frame) /\ Up \in BOOLEAN /\ ssent \in [Ids -> Nat]
      /\ sgot \in [Ids -> Seq(Nat)] /\ sstream \in [Ids -> StreamStates \cup {NoStream}]
      /\ sstream' \in [Ids -> StreamStates \cup {NoStream}]
  BY DEF TypeOK, WireTypeOK, ServerTypeOK, Up
<1>u. UNCHANGED <<cstate, cactive, cstream, cwater, csent, cgot>> /\ cws' = cws
  BY SrvWire DEF clientVars
<1>a. \A s \in Ids : sstream'[s] = NoStream => sstream[s] = NoStream
  BY <1>t, ForwardFacts DEF Advance
<1>1. \A s \in Ids : CliHearsOn(s)' => Flows(s2c', s, Len(cgot'[s]), ssent'[s], Down')
  <2> SUFFICES ASSUME NEW s \in Ids, CliHearsOn(s)' PROVE Flows(s2c', s, Len(cgot'[s]), ssent'[s], Down')
    OBVIOUS
  <2>1. CliHearsOn(s)
    BY <1>u DEF CliHearsOn
  <2>2. PICK n : n = Len(cgot[s])
    OBVIOUS
  <2>3. Flows(s2c, s, n, ssent[s], Down)
    BY <2>1, <2>2 DEF FlowInv
  <2>4. Flows(s2c', s, n, ssent'[s], Down')
    BY <2>3, SrvSendsFlow
  <2> QED
    BY <1>u, <2>2, <2>4
<1>2. \A s \in Ids : SrvHears(s)' => Flows(c2s', s, Len(sgot'[s]), csent'[s], Up')
  BY <1>u, SrvHearsFlow
<1>3. \A s \in Ids : sstream'[s] = NoStream => ssent'[s] = 0
  BY <1>t, <1>a, SrvSentFacts DEF FlowInv
<1>4. \A s \in Ids : sstream'[s] = NoStream => sgot'[s] = <<>>
  <2>1. CASE sgot' = sgot
    BY <1>a, <2>1 DEF FlowInv
  <2>2. CASE \E x \in Ids : /\ \A y \in Ids : y # x => sgot'[y] = sgot[y]
                            /\ sstream'[x] # NoStream \/ sgot'[x] = sgot[x]
    BY <1>a, <2>2 DEF FlowInv
  <2> QED
    BY <2>1, <2>2, SrvGotFacts
<1>5. \A s \in Ids : Counts(sgot'[s])
  <2> SUFFICES ASSUME NEW s \in Ids, sgot'[s] # sgot[s] PROVE Counts(sgot'[s])
    BY DEF FlowInv, InOrder
  <2>1. /\ c2s # <<>> /\ DataOf(Head(c2s), s) /\ SrvHears(s)
        /\ sgot'[s] = Append(sgot[s], Head(c2s).n)
    BY SrvGotFacts
  <2>2. PICK g \in Seq(Nat) : g = sgot[s]
    BY <1>t
  <2>3. PICK q : q = c2s
    OBVIOUS
  <2>4. PICK sent : sent = csent[s]
    OBVIOUS
  <2>5. PICK up \in BOOLEAN : up = Up
    BY <1>t
  <2>6. /\ q \in Seq(Frame) /\ q # <<>> /\ DataOf(Head(q), s) /\ Counts(g)
        /\ Flows(q, s, Len(g), sent, up)
    BY <1>t, <2>1, <2>2, <2>3, <2>4, <2>5 DEF FlowInv, InOrder
  <2>7. Counts(Append(g, Head(q).n))
    BY ONLY <2>6, g \in Seq(Nat), up \in BOOLEAN, NextIsNext
  <2> QED
    BY <2>1, <2>2, <2>3, <2>7
<1>6. \A s \in Ids : cstream'[s] = NoStream => csent'[s] = 0 /\ cgot'[s] = <<>>
  BY <1>u DEF FlowInv
<1>7. InOrder'
  BY <1>u, <1>5 DEF FlowInv, InOrder
<1> QED
  BY <1>1, <1>2, <1>3, <1>4, <1>6, <1>7 DEF FlowInv

LEMMA FlowInit == Init => FlowInv
<1> SUFFICES ASSUME Init PROVE FlowInv
  OBVIOUS
<1>1. /\ c2s = <<>> /\ s2c = <<>>
      /\ \A s \in Ids : csent[s] = 0 /\ ssent[s] = 0 /\ cgot[s] = <<>> /\ sgot[s] = <<>>
  BY DEF Init, WireInit, ClientInit, ServerInit
<1>2. \A s \in Ids : NoData(c2s, s) /\ NoData(s2c, s)
  BY <1>1 DEF NoData
<1>3. \A s \in Ids : Flows(c2s, s, 0, 0, Up) /\ Flows(s2c, s, 0, 0, Down)
  BY <1>2, FlowFresh
<1>4. InOrder
  BY <1>1 DEF InOrder, Counts
<1> QED
  BY <1>1, <1>3, <1>4 DEF FlowInv

LEMMA FlowNext ==
  TypeOK /\ TypeOK' /\ StreamInv /\ StreamInv' /\ SocketInv /\ FlowInv /\ [Next]_vars => FlowInv'
<1> SUFFICES ASSUME TypeOK, TypeOK', StreamInv, StreamInv', SocketInv, FlowInv, [Next]_vars
             PROVE  FlowInv'
  OBVIOUS
<1>a. Advance(cstream, cstream') /\ Advance(sstream, sstream')
  BY StreamInvNext
<1>1. CASE ClientStep
  BY <1>1, <1>a, CliFlowSteps
<1>2. CASE ServerStep
  BY <1>2, <1>a, SrvFlowSteps
<1>3. CASE LinkStep
  <2>1. /\ c2s' = <<>> /\ s2c' = <<>> /\ link' = FALSE
        /\ UNCHANGED <<cstream, sstream, csent, ssent, cgot, sgot>>
    BY <1>3 DEF LinkStep, LinkLost, clientVars, serverVars
  <2>2. \A s \in Ids : /\ Flows(c2s', s, Len(sgot[s]), csent[s], FALSE)
                       /\ Flows(s2c', s, Len(cgot[s]), ssent[s], FALSE)
    <3> SUFFICES ASSUME NEW s \in Ids
                 PROVE  /\ Flows(c2s', s, Len(sgot[s]), csent[s], FALSE)
                        /\ Flows(s2c', s, Len(cgot[s]), ssent[s], FALSE)
      OBVIOUS
    <3>1. Len(sgot[s]) \in Nat /\ Len(cgot[s]) \in Nat
      BY DEF TypeOK, ClientTypeOK, ServerTypeOK
    <3>2. Flows(<<>>, s, Len(sgot[s]), csent[s], FALSE) /\ Flows(<<>>, s, Len(cgot[s]), ssent[s], FALSE)
      BY <3>1, FlowLost
    <3> QED
      BY <2>1, <3>2
  <2>3. ~Up' /\ ~Down'
    BY <2>1 DEF Up, Down
  <2>4. Up' = FALSE /\ Down' = FALSE
    BY <2>3 DEF Up, Down
  <2> QED
    BY <2>1, <2>2, <2>4 DEF FlowInv, InOrder
<1>4. CASE UNCHANGED vars
  BY <1>4 DEF vars, wireVars, clientVars, serverVars, FlowInv, InOrder, SrvHears, CliHearsOn, Up, Down
<1> QED
  BY <1>1, <1>2, <1>3, <1>4 DEF Next

\* The data in flight on a stream that is still heard follow what was received, up
\* to what was sent (Stream.send, onStreamData, onStreamClose at both ends).
THEOREM FlowInvariant == Spec => []FlowInv
<1>1. TypeOK /\ TypeOK' /\ StreamInv /\ StreamInv' /\ SocketInv /\ FlowInv /\ [Next]_vars => FlowInv'
  BY FlowNext
<1> QED
  BY <1>1, FlowInit, TypeCorrect, StreamInvariant, SocketInvariant, PTL DEF Spec

\* Data reaches a stream's user in the order it was sent, without gap or
\* repetition, at both ends.
THEOREM DataInOrder == Spec => []InOrder
<1>1. FlowInv => InOrder
  BY DEF FlowInv
<1> QED
  BY <1>1, FlowInvariant, PTL

\* When a close frame makes onClose fire at the client, the user has all the
\* server sent on that stream.
THEOREM AnswersComplete == Spec => AnswerComplete
<1> DEFINE A == \A s \in ClientIds : TakesClose(s) => Len(cgot[s]) = ssent[s]
<1>1. TypeOK /\ StreamInv /\ FlowInv /\ [Next]_vars => [A]_vars
  <2> SUFFICES ASSUME TypeOK, StreamInv, FlowInv, Next, NEW s \in ClientIds, TakesClose(s)
               PROVE  Len(cgot[s]) = ssent[s]
    OBVIOUS
  <2>t. s2c \in Seq(Frame) /\ s \in Ids /\ s % 2 = 1 /\ Down \in BOOLEAN
    BY DEF TypeOK, WireTypeOK, ClientIds, Down
  <2>1. /\ s2c # <<>> /\ Head(s2c).type = "close" /\ Head(s2c).stream = s /\ s2c' = Tail(s2c)
        /\ "close" \in ctold'[s] /\ "close" \notin ctold[s]
    BY DEF TakesClose, StreamCloseMsg, F
  <2>2. s2c' # s2c
    BY <2>t, <2>1
  <2>3. CliRecvClose
    <3>1. CASE ClientStep
      <4>1. CASE CliUser
        BY <2>2, <4>1 DEF CliUser, CliOpenStream, CliCloseSocket, CliErrorSocketQuiet, CliErrorSocket,
                          CliStreamClose, CliStreamError, CliStreamSend, CliHangUp, wireVars
      <4>2. CASE CliSystem
        BY <2>1, <2>2, <4>2 DEF CliSystem, AuthTimer, AuthSigned, CliReturns, CliWsClosed, CliLinkDown, CliIgnores,
                          CliRecvGoaway, CliRecvData, CliRecvReset, CliTakes, clientVars, wireVars
      <4> QED
        BY <3>1, <4>1, <4>2 DEF ClientStep
    <3>2. CASE ServerStep \/ LinkStep
      BY <2>1, <3>2 DEF ServerStep, LinkStep, clientVars
    <3> QED
      BY <3>1, <3>2 DEF Next
  <2>4. s \in cactive /\ cstream[s] \in {"OPEN", "CLOSING"}
    BY <2>t, <2>1, <2>3 DEF CliRecvClose, CliToldClose, CliTold
  <2>5. CliHearsOn(s)
    BY <2>t, <2>3, <2>4 DEF CliRecvClose, CliTakes, CliHearsOn
  <2>6. PICK hi \in Nat : Ranked(s2c, s, Len(cgot[s]), hi) /\ (Ended(s2c, s) => hi = ssent[s])
    BY <2>t, <2>5 DEF FlowInv, Flows
  <2>7. EndOf(Head(s2c), s) /\ ~DataOf(Head(s2c), s)
    BY <2>1 DEF EndOf, DataOf
  <2>8. Ended(s2c, s)
    BY <2>t, <2>1, <2>7, TailIs DEF Ended
  <2>9. PICK n : n = Len(cgot[s])
    OBVIOUS
  <2>10. PICK t : t = Tail(s2c)
    OBVIOUS
  <2>11. Ranked(t, s, n, hi)
    BY <2>t, <2>1, <2>6, <2>7, <2>9, <2>10, RankedPass
  <2>12. NoData(t, s)
    BY <2>t, <2>1, <2>7, <2>10, EndedTail DEF StreamInv, Consistent
  <2>13. n = hi
    BY ONLY <2>11, <2>12, RankedStop
  <2> QED
    BY <2>6, <2>8, <2>9, <2>13
<1>2. (Spec => [][A]_vars) => (Spec => AnswerComplete)
  BY DEF AnswerComplete
<1> QED
  BY <1>1, <1>2, FlowInvariant, StreamInvariant, TypeCorrect, PTL DEF Spec
-----------------------------------------------------------------------------
(* The two ends of a stream *)

LEMMA EndsSwap ==
  ASSUME NEW q, NEW r, NEW s, NEW m, NEW o, EndsAt(q, r, s, m, o)
  PROVE  EndsAt(r, q, s, o, m)
BY DEF EndsAt

\* Frames that do not end the stream are sent; data only while the half is open.
LEMMA EndsSend ==
  ASSUME NEW q \in Seq(Frame), NEW r, NEW e \in Seq(Frame), NEW s, NEW m, NEW o, EndsAt(q, r, s, m, o),
         \A i \in DOMAIN e : ~EndOf(e[i], s), NoData(e, s) \/ m \notin {"CLOSING", "CLOSED"}
  PROVE  EndsAt(q \o e, r, s, m, o)
<1>1. PICK c : c = q \o e
  OBVIOUS
<1>2. \A i \in DOMAIN c : \/ i \in DOMAIN q /\ c[i] = q[i]
                          \/ i - Len(q) \in DOMAIN e /\ c[i] = e[i - Len(q)]
  BY <1>1, MoreIs
<1>3. (Ended(c, s) <=> Ended(q, s) \/ Ended(e, s)) /\ (NoData(c, s) <=> NoData(q, s) /\ NoData(e, s))
  BY <1>1, EndedMore
<1>4. Told(c, s, m, o)
  BY <1>3 DEF EndsAt, Told
<1>5. Heard(c, s, m, o)
  <2>1. ASSUME NEW i \in DOMAIN c, c[i].type = "reset", c[i].stream = s PROVE m = "CLOSED"
    BY <1>2, <2>1 DEF EndsAt, Heard, EndOf
  <2> QED
    BY <2>1 DEF EndsAt, Heard
<1> QED
  BY <1>1, <1>4, <1>5 DEF EndsAt

\* The end that is in state m closes its half, or fails the stream.
LEMMA EndsClose ==
  ASSUME NEW q \in Seq(Frame), NEW r, NEW s \in Ids, NEW m, NEW m2, NEW o, EndsAt(q, r, s, m, o),
         \/ m = "OPEN" /\ m2 = "CLOSING"
         \/ m = "CLOSEWAIT" /\ m2 = "CLOSED"
  PROVE  EndsAt(q \o <<StreamCloseMsg(s)>>, r, s, m2, o)
<1>0. PICK e : e = <<StreamCloseMsg(s)>>
  OBVIOUS
<1>1. e \in Seq(Frame) /\ DOMAIN e = {1} /\ e[1].type = "close" /\ e[1].stream = s
  BY <1>0, FrameType DEF StreamCloseMsg, F
<1>2. PICK c : c = q \o e
  OBVIOUS
<1>3. \A i \in DOMAIN c : \/ i \in DOMAIN q /\ c[i] = q[i]
                          \/ i - Len(q) \in DOMAIN e /\ c[i] = e[i - Len(q)]
  BY <1>1, <1>2, MoreIs
<1>4. Ended(c, s)
  <2>1. Ended(e, s)
    BY <1>1 DEF Ended, EndOf
  <2> QED
    BY <1>1, <1>2, <2>1, EndedMore
<1>5. Heard(c, s, m2, o)
  <2>1. \A i \in DOMAIN c : ~(c[i].type = "reset" /\ c[i].stream = s)
    <3>1. \A i \in DOMAIN q : ~(q[i].type = "reset" /\ q[i].stream = s)
      BY DEF EndsAt, Heard
    <3> QED
      BY <1>1, <1>3, <3>1
  <2> QED
    BY <2>1 DEF Heard
<1>6. Told(r, s, o, m2) /\ Heard(r, s, o, m2)
  BY DEF EndsAt, Told, Heard, NoStream
<1> QED
  BY <1>0, <1>2, <1>4, <1>5, <1>6 DEF EndsAt, Told

LEMMA EndsFail ==
  ASSUME NEW q \in Seq(Frame), NEW r, NEW s \in Ids, NEW m, NEW o, EndsAt(q, r, s, m, o),
         m \in {"OPEN", "CLOSEWAIT"}
  PROVE  EndsAt(q \o <<StreamResetMsg(s)>>, r, s, "CLOSED", o)
<1>0. PICK e : e = <<StreamResetMsg(s)>>
  OBVIOUS
<1>1. e \in Seq(Frame) /\ DOMAIN e = {1} /\ e[1].type = "reset" /\ e[1].stream = s
  BY <1>0, FrameType DEF StreamResetMsg, F
<1>2. PICK c : c = q \o e
  OBVIOUS
<1>4. Ended(c, s)
  <2>1. Ended(e, s)
    BY <1>1 DEF Ended, EndOf
  <2> QED
    BY <1>1, <1>2, <2>1, EndedMore
<1>5. Heard(c, s, "CLOSED", o)
  BY DEF Heard
<1>6. Told(r, s, o, "CLOSED") /\ Heard(r, s, o, "CLOSED")
  BY DEF EndsAt, Told, Heard, NoStream
<1> QED
  BY <1>0, <1>2, <1>4, <1>5, <1>6 DEF EndsAt, Told

LEMMA EndsGiveUp ==
  ASSUME NEW q, NEW r, NEW s, NEW o, EndsAt(q, r, s, "CLOSING", o)
  PROVE  EndsAt(q, r, s, "CLOSED", o)
BY DEF EndsAt, Told, Heard, NoStream

LEMMA EndsFresh ==
  ASSUME NEW q, NEW r, NEW s, NoData(q, s), ~Ended(q, s), NoData(r, s), ~Ended(r, s), NEW m, NEW o,
         m \in {NoStream, "OPEN"}, o = NoStream
  PROVE  EndsAt(q, r, s, m, o)
BY DEF EndsAt, Told, Heard, NoStream, Ended, EndOf

\* A frame of another stream, or of none, is taken.
LEMMA EndsPass ==
  ASSUME NEW q, NEW r \in Seq(Frame), r # <<>>, NEW s, NEW m, NEW o, EndsAt(q, r, s, m, o), ~EndOf(Head(r), s)
  PROVE  EndsAt(q, Tail(r), s, m, o)
<1>1. PICK t : t = Tail(r)
  OBVIOUS
<1>2. \A i \in DOMAIN t : i + 1 \in DOMAIN r /\ t[i] = r[i + 1]
  BY <1>1, TailIs
<1>3. (Ended(r, s) => Ended(t, s)) /\ (NoData(r, s) => NoData(t, s))
  BY <1>1, EndedTail
<1>4. Told(t, s, o, m)
  BY <1>3 DEF EndsAt, Told
<1>5. Heard(t, s, o, m)
  BY <1>2 DEF EndsAt, Heard
<1> QED
  BY <1>1, <1>4, <1>5 DEF EndsAt

\* A data frame makes the stream.
LEMMA EndsMake ==
  ASSUME NEW q, NEW r \in Seq(Frame), r # <<>>, NEW s, NEW o, EndsAt(q, r, s, NoStream, o), DataOf(Head(r), s),
         ~Ended(q, s)
  PROVE  EndsAt(q, Tail(r), s, "OPEN", o)
<1>1. PICK t : t = Tail(r)
  OBVIOUS
<1>2. \A i \in DOMAIN t : i + 1 \in DOMAIN r /\ t[i] = r[i + 1]
  BY <1>1, TailIs
<1>3. ~EndOf(Head(r), s) /\ ~NoData(r, s)
  BY TailIs DEF DataOf, EndOf, NoData
<1>4. Ended(r, s) => Ended(t, s)
  BY <1>1, <1>3, EndedTail
<1>5. Told(t, s, o, "OPEN")
  BY <1>3, <1>4 DEF EndsAt, Told, NoStream
<1>6. Heard(t, s, o, "OPEN")
  BY <1>2 DEF EndsAt, Heard, NoStream
<1>7. Told(q, s, "OPEN", o) /\ Heard(q, s, "OPEN", o)
  BY DEF Told, Heard, Ended, EndOf
<1> QED
  BY <1>1, <1>5, <1>6, <1>7 DEF EndsAt

\* The other end's close, or reset, is taken by a stream that is active, or by
\* nobody.
LEMMA EndsHear ==
  ASSUME NEW q, NEW r \in Seq(Frame), r # <<>>, FinalIn(r), NEW s, NEW m \in StreamStates \cup {NoStream}, NEW m2, NEW o,
         EndsAt(q, r, s, m, o), EndOf(Head(r), s), o \in {"CLOSING", "CLOSED"},
         \/ m \in {NoStream, "CLOSED"} /\ m2 = m
         \/ m2 = "CLOSED" /\ (m = "CLOSING" \/ o = "CLOSED")
         \/ m \in {"OPEN", "CLOSEWAIT"} /\ m2 = "CLOSEWAIT"
  PROVE  EndsAt(q, Tail(r), s, m2, o)
<1>1. PICK t : t = Tail(r)
  OBVIOUS
<1>2. \A i \in DOMAIN t : i + 1 \in DOMAIN r /\ t[i] = r[i + 1]
  BY <1>1, TailIs
<1>3. NoData(t, s)
  BY <1>1, EndedTail
<1>4. Told(t, s, o, m2)
  BY <1>3 DEF Told
<1>5. Heard(t, s, o, m2)
  BY <1>2 DEF EndsAt, Heard
<1>6. Told(q, s, m2, o)
  BY DEF EndsAt, Told, NoStream
<1>7. Heard(q, s, m2, o)
  BY DEF EndsAt, Heard, NoStream
<1> QED
  BY <1>1, <1>4, <1>5, <1>6, <1>7 DEF EndsAt

\* The steps of a client after which the connection is still up.
LEMMA CliUpSteps ==
  ASSUME TypeOK, SocketInv, ClientStep, Up'
  PROVE  \/ AuthTimer \/ AuthSigned \/ CliOpenStream
         \/ \E x \in Ids : CliStreamClose(x) \/ CliStreamError(x) \/ CliStreamSend(x)
         \/ CliIgnores /\ cstate = "IDLE"
         \/ CliRecvData \/ CliRecvClose \/ CliRecvReset
<1>t. cws \in {"OPEN", "CLOSING", "CLOSED"} /\ s2c \in Seq(Frame)
  BY DEF TypeOK, WireTypeOK
<1>1. Up /\ cws' = "OPEN"
  BY CliWire DEF Up
<1>2. cstate \in {"IDLE", "AUTH_SENT"} /\ \A i \in DOMAIN s2c : s2c[i].type \notin {"goaway", "wsclose"}
  BY <1>1, UpSends
<1>3. ~CliCloseSocket /\ ~CliErrorSocketQuiet /\ ~CliErrorSocket /\ ~CliWsClosed /\ ~CliLinkDown
  BY <1>1, <1>2 DEF CliCloseSocket, CliErrorSocketQuiet, CliErrorSocket, CliWsClosed, CliLinkDown, CliHangUp
<1>6. ~CliReturns
  BY <1>1 DEF CliReturns, CliAtRest, TypeOK, ClientTypeOK, SocketInv, CliSocketInv, Up
<1>4. ~CliRecvGoaway
  <2>1. ASSUME CliRecvGoaway PROVE s2c # <<>> /\ Head(s2c).type = "goaway"
    BY <2>1 DEF CliRecvGoaway, CliTakes
  <2> QED
    BY <1>t, <1>2, <2>1
<1>5. CliIgnores => cstate = "IDLE"
  BY <1>1, <1>2 DEF CliIgnores, CliHears, Up
<1> QED
  BY <1>3, <1>4, <1>5, <1>6 DEF ClientStep, CliUser, CliSystem

LEMMA CliLeftSteps ==
  ASSUME TypeOK, TypeOK', StreamInv, SocketInv, LeftInv, ClientStep
  PROVE  LeftInv'
<1>t. cstream \in [Ids -> StreamStates \cup {NoStream}] /\ cactive \in SUBSET Ids
  BY DEF TypeOK, ClientTypeOK
<1>u. UNCHANGED <<sstate, sstream, sactive>> /\ (Up' => Up)
  BY CliWire DEF serverVars
<1> SUFFICES ASSUME Up', NEW s \in Ids, cstream'[s] # NoStream, s \notin cactive' PROVE cstream'[s] = "CLOSED"
  BY <1>u DEF LeftInv
<1>l. cstream[s] # NoStream /\ s \notin cactive => cstream[s] = "CLOSED"
  BY <1>u DEF LeftInv
<1>e. \A x \in Ids : cstream[x] # NoStream => CliSendable
  BY <1>u, UpSends
<1>1. CASE AuthTimer \/ AuthSigned \/ CliIgnores
  BY <1>l, <1>1 DEF AuthTimer, AuthSigned, CliIgnores, clientVars
<1>2. CASE CliOpenStream
  BY <1>t, <1>l, <1>2 DEF CliOpenStream
<1>3. ASSUME NEW x \in Ids, CliStreamClose(x) PROVE cstream'[s] = "CLOSED"
  <2>1. CliSendable /\ cstream[x] \in {"OPEN", "CLOSEWAIT"}
    BY <1>e, <1>3 DEF CliStreamClose, NoStream
  <2>2. /\ cstream' = CliCloseAll({x})
        /\ cactive' = IF cstream[x] = "CLOSEWAIT" THEN cactive \ {x} ELSE cactive
    BY <1>3, <2>1 DEF CliStreamClose
  <2>3. CASE s = x
    <3>1. cstream'[s] = IF cstream[x] = "OPEN" THEN "CLOSING" ELSE "CLOSED"
      BY <2>1, <2>2, <2>3 DEF CliCloseAll
    <3> QED
      BY <1>l, <2>1, <2>2, <2>3, <3>1 DEF NoStream
  <2>4. CASE s # x
    <3>1. cstream'[s] = cstream[s]
      BY <2>2, <2>4 DEF CliCloseAll
    <3> QED
      BY <1>l, <2>2, <2>4, <3>1
  <2> QED
    BY <2>3, <2>4
<1>4. ASSUME NEW x \in Ids, CliStreamError(x) PROVE cstream'[s] = "CLOSED"
  <2>1. cstream' = [cstream EXCEPT ![x] = "CLOSED"] /\ (cactive' = cactive \/ cactive' = cactive \ {x})
    BY <1>4 DEF CliStreamError
  <2> QED
    BY <1>t, <1>l, <2>1
<1>5. ASSUME NEW x \in Ids, CliStreamSend(x) PROVE cstream'[s] = "CLOSED"
  BY <1>l, <1>5 DEF CliStreamSend
<1>6. CASE CliRecvData
  <2>1. PICK x : \/ cactive' = cactive \cup {x} /\ cstream' = [cstream EXCEPT ![x] = "OPEN"]
                 \/ UNCHANGED <<cactive, cstream>>
    BY <1>6 DEF CliRecvData
  <2> QED
    BY <1>t, <1>l, <2>1
<1>7. CASE CliRecvClose
  <2>1. PICK x : /\ cstream' = CliPeerClosedAll({x} \cap cactive)
                 /\ cactive' = {y \in cactive : y = x => cstream'[y] # "CLOSED"}
    BY <1>7 DEF CliRecvClose
  <2> QED
    BY <1>t, <1>l, <2>1 DEF CliPeerClosedAll
<1>8. CASE CliRecvReset
  <2>1. PICK x : cstream' = CliErrorAll({x} \cap cactive) /\ cactive' = cactive \ {x}
    BY <1>8 DEF CliRecvReset
  <2> QED
    BY <1>t, <1>l, <2>1 DEF CliErrorAll
<1> QED
  BY <1>1, <1>2, <1>3, <1>4, <1>5, <1>6, <1>7, <1>8, CliUpSteps

LEMMA CliEndsSteps ==
  ASSUME TypeOK, TypeOK', StreamInv, SocketInv, LeftInv, EndsInv, ClientStep
  PROVE  EndsInv'
<1>u. UNCHANGED <<sstate, sstream, sactive>> /\ (Up' => Up)
  BY CliWire DEF serverVars
<1> SUFFICES ASSUME Up', sstate' # "CLOSED", NEW s \in Ids
             PROVE  EndsAt(c2s', s2c', s, cstream'[s], sstream[s])
  BY <1>u DEF EndsInv
<1>t. /\ cstream \in [Ids -> StreamStates \cup {NoStream}] /\ cactive \in SUBSET Ids
      /\ c2s \in Seq(Frame) /\ s2c \in Seq(Frame) /\ csent \in [Ids -> Nat]
  BY DEF TypeOK, ClientTypeOK, WireTypeOK
<1>v. Up
  BY <1>u
<1>i. EndsAt(c2s, s2c, s, cstream[s], sstream[s])
  BY <1>u DEF EndsInv
<1>l. cstream[s] # NoStream /\ s \notin cactive => cstream[s] = "CLOSED"
  BY <1>v DEF LeftInv
<1>e. \A x \in Ids : cstream[x] # NoStream => CliSendable
  BY <1>v, UpSends
<1>c. Consistent(c2s, cstream) /\ Consistent(s2c, sstream)
  BY DEF StreamInv
<1>k. \A r : ToServer(r) = c2s \o r
  BY <1>v DEF Up, ToServer
<1>1. CASE AuthTimer
  BY <1>i, <1>1 DEF AuthTimer, wireVars
<1>2. CASE AuthSigned
  <2>1. PICK e : e = <<AuthMsg>>
    OBVIOUS
  <2>2. e \in Seq(Frame) /\ DOMAIN e = {1} /\ e[1].type = "auth"
    BY <2>1, FrameType DEF AuthMsg, F
  <2>3. NoData(e, s) /\ \A i \in DOMAIN e : ~EndOf(e[i], s)
    BY <2>2 DEF NoData, DataOf, EndOf
  <2>4. EndsAt(c2s \o e, s2c, s, cstream[s], sstream[s])
    BY <1>t, <1>i, <2>2, <2>3, EndsSend
  <2>5. c2s' = c2s \o e /\ s2c' = s2c /\ cstream' = cstream
    BY <1>2, <1>k, <2>1 DEF AuthSigned
  <2> QED
    BY <2>4, <2>5
<1>3. CASE CliOpenStream
  <2>1. cstream' = [cstream EXCEPT ![cnext] = "OPEN"] /\ UNCHANGED <<c2s, s2c>>
    BY <1>3 DEF CliOpenStream, wireVars
  <2>2. CASE s = cnext
    <3>1. s % 2 = 1 /\ cstream[s] = NoStream
      BY <2>2, Bounds DEF StreamInv, CliCounters, Ids
    <3>2. sstream[s] = NoStream
      BY <3>1 DEF StreamInv, PeerOpened, ClientIds
    <3>3. NoData(c2s, s) /\ ~Ended(c2s, s) /\ NoData(s2c, s) /\ ~Ended(s2c, s)
      BY <1>c, <3>1, <3>2, NoneInFlight
    <3>4. EndsAt(c2s, s2c, s, "OPEN", sstream[s])
      BY <3>2, <3>3, EndsFresh
    <3> QED
      BY <1>t, <2>1, <2>2, <3>4
  <2>3. CASE s # cnext
    BY <1>t, <1>i, <2>1, <2>3
  <2> QED
    BY <2>2, <2>3
<1>4. ASSUME NEW x \in Ids, CliStreamClose(x)
      PROVE  EndsAt(c2s', s2c', s, cstream'[s], sstream[s])
  <2>1. cstream[x] \in {"OPEN", "CLOSEWAIT"} /\ CliSendable
    BY <1>e, <1>4 DEF CliStreamClose, NoStream
  <2>2. cstream' = CliCloseAll({x}) /\ c2s' = c2s \o <<StreamCloseMsg(x)>> /\ s2c' = s2c
    BY <1>4, <1>k, <2>1 DEF CliStreamClose
  <2>3. CASE x = s
    <3>1. \/ cstream[s] = "OPEN" /\ cstream'[s] = "CLOSING"
          \/ cstream[s] = "CLOSEWAIT" /\ cstream'[s] = "CLOSED"
      <4>1. cstream'[s] = IF cstream[x] = "OPEN" THEN "CLOSING" ELSE "CLOSED"
        BY <2>1, <2>2, <2>3 DEF CliCloseAll
      <4> QED
        BY <2>1, <2>3, <4>1
    <3>2. PICK m2 : m2 = cstream'[s]
      OBVIOUS
    <3>3. EndsAt(c2s \o <<StreamCloseMsg(s)>>, s2c, s, m2, sstream[s])
      BY <1>t, <1>i, <3>1, <3>2, EndsClose
    <3> QED
      BY <2>2, <2>3, <3>2, <3>3
  <2>4. CASE x # s
    <3>1. PICK e : e = <<StreamCloseMsg(x)>>
      OBVIOUS
    <3>2. e \in Seq(Frame) /\ DOMAIN e = {1} /\ e[1].type = "close" /\ e[1].stream = x
      BY <3>1, FrameType DEF StreamCloseMsg, F
    <3>3. NoData(e, s) /\ \A i \in DOMAIN e : ~EndOf(e[i], s)
      BY <2>4, <3>2 DEF NoData, DataOf, EndOf
    <3>4. EndsAt(c2s \o e, s2c, s, cstream[s], sstream[s])
      BY <1>t, <1>i, <3>2, <3>3, EndsSend
    <3>5. cstream'[s] = cstream[s]
      BY <2>2, <2>4 DEF CliCloseAll
    <3> QED
      BY <2>2, <3>1, <3>4, <3>5
  <2> QED
    BY <2>3, <2>4
<1>5. ASSUME NEW x \in Ids, CliStreamError(x)
      PROVE  EndsAt(c2s', s2c', s, cstream'[s], sstream[s])
  <2>1. cstream[x] \in {"OPEN", "CLOSEWAIT", "CLOSING"} /\ CliSendable
    BY <1>e, <1>5 DEF CliStreamError, NoStream
  <2>2. /\ cstream' = [cstream EXCEPT ![x] = "CLOSED"] /\ s2c' = s2c
        /\ c2s' = IF cstream[x] # "CLOSING" THEN c2s \o <<StreamResetMsg(x)>> ELSE c2s
    BY <1>5, <1>k, <2>1 DEF CliStreamError
  <2>3. CASE x = s /\ cstream[x] # "CLOSING"
    <3>1. EndsAt(c2s \o <<StreamResetMsg(s)>>, s2c, s, "CLOSED", sstream[s])
      BY <1>t, <1>i, <2>1, <2>3, EndsFail
    <3> QED
      BY <1>t, <2>2, <2>3, <3>1
  <2>4. CASE x = s /\ cstream[x] = "CLOSING"
    <3>1. EndsAt(c2s, s2c, s, "CLOSED", sstream[s])
      BY <1>i, <2>4, EndsGiveUp
    <3> QED
      BY <1>t, <2>2, <2>4, <3>1
  <2>5. CASE x # s
    <3>1. PICK e : e = <<StreamResetMsg(x)>>
      OBVIOUS
    <3>2. e \in Seq(Frame) /\ DOMAIN e = {1} /\ e[1].type = "reset" /\ e[1].stream = x
      BY <3>1, FrameType DEF StreamResetMsg, F
    <3>3. NoData(e, s) /\ \A i \in DOMAIN e : ~EndOf(e[i], s)
      BY <2>5, <3>2 DEF NoData, DataOf, EndOf
    <3>4. EndsAt(c2s \o e, s2c, s, cstream[s], sstream[s])
      BY <1>t, <1>i, <3>2, <3>3, EndsSend
    <3>5. cstream'[s] = cstream[s]
      BY <1>t, <2>2, <2>5
    <3> QED
      BY <1>i, <2>2, <3>1, <3>4, <3>5
  <2> QED
    BY <2>3, <2>4, <2>5
<1>6. ASSUME NEW x \in Ids, CliStreamSend(x)
      PROVE  EndsAt(c2s', s2c', s, cstream'[s], sstream[s])
  <2>1. cstream[x] \in {"OPEN", "CLOSEWAIT"} /\ CliSendable
    BY <1>e, <1>6 DEF CliStreamSend, NoStream
  <2>2. PICK e : e = <<StreamDataMsg(x, csent[x] + 1)>>
    OBVIOUS
  <2>3. cstream' = cstream /\ s2c' = s2c /\ c2s' = c2s \o e
    BY <1>6, <1>k, <2>1, <2>2 DEF CliStreamSend
  <2>4. e \in Seq(Frame) /\ DOMAIN e = {1} /\ e[1].type = "data" /\ e[1].stream = x
    <3>1. csent[x] + 1 \in Nat
      BY <1>t
    <3> QED
      BY <2>2, <3>1, FrameType DEF StreamDataMsg, F
  <2>5. (NoData(e, s) \/ cstream[s] \notin {"CLOSING", "CLOSED"}) /\ \A i \in DOMAIN e : ~EndOf(e[i], s)
    BY <2>1, <2>4 DEF NoData, DataOf, EndOf
  <2>6. EndsAt(c2s \o e, s2c, s, cstream[s], sstream[s])
    BY <1>t, <1>i, <2>4, <2>5, EndsSend
  <2> QED
    BY <2>3, <2>6
<1>7. CASE CliIgnores /\ cstate = "IDLE"
  <2>1. s2c # <<>> /\ s2c' = Tail(s2c) /\ UNCHANGED <<c2s, cstream>>
    BY <1>7 DEF CliIgnores, clientVars
  <2>2. sstream[s] = NoStream
    BY <1>7 DEF SocketInv, CliSocketInv
  <2>3. ~Ended(s2c, s)
    BY <1>c, <2>2, NoneInFlight
  <2>4. ~EndOf(Head(s2c), s)
    BY <1>t, <2>1, <2>3, TailIs DEF Ended
  <2>5. EndsAt(c2s, Tail(s2c), s, cstream[s], sstream[s])
    BY <1>t, <1>i, <2>1, <2>4, EndsPass
  <2> QED
    BY <2>1, <2>5
<1>8. CASE CliRecvData
  <2>1. /\ s2c # <<>> /\ Head(s2c).type = "data" /\ s2c' = Tail(s2c) /\ c2s' = c2s
    BY <1>8 DEF CliRecvData, CliTakes
  <2>2. ~EndOf(Head(s2c), s)
    BY <2>1 DEF EndOf
  <2>3. CASE cstream'[s] = cstream[s]
    <3>1. EndsAt(c2s, Tail(s2c), s, cstream[s], sstream[s])
      BY <1>t, <1>i, <2>1, <2>2, EndsPass
    <3> QED
      BY <2>1, <2>3, <3>1
  <2>4. CASE cstream'[s] # cstream[s]
    <3>1. PICK x : x = Head(s2c).stream
      OBVIOUS
    <3>2. /\ x \notin cactive /\ x % 2 = 0 /\ x > cwater
          /\ cstream' = [cstream EXCEPT ![x] = "OPEN"]
      BY <1>8, <2>4, <3>1 DEF CliRecvData
    <3>3. x = s /\ cstream'[s] = "OPEN"
      BY <1>t, <2>4, <3>2
    <3>4. cstream[s] = NoStream
      BY <3>2, <3>3, Bounds DEF StreamInv, CliCounters, TypeOK, ClientTypeOK, Ids
    <3>5. DataOf(Head(s2c), s)
      BY <2>1, <3>1, <3>3 DEF DataOf
    <3>6. ~Ended(c2s, s)
      BY <1>c, <3>4, NoneInFlight
    <3>7. EndsAt(c2s, Tail(s2c), s, "OPEN", sstream[s])
      BY <1>t, <1>i, <2>1, <3>4, <3>5, <3>6, EndsMake
    <3> QED
      BY <2>1, <3>3, <3>7
  <2> QED
    BY <2>3, <2>4
<1>9. CASE CliRecvClose \/ CliRecvReset
  <2>1. /\ s2c # <<>> /\ Head(s2c).type \in {"close", "reset"} /\ s2c' = Tail(s2c) /\ c2s' = c2s
    BY <1>9 DEF CliRecvClose, CliRecvReset, CliTakes
  <2>2. PICK x : x = Head(s2c).stream
    OBVIOUS
  <2>3. \/ Head(s2c).type = "close" /\ cstream' = CliPeerClosedAll({x} \cap cactive)
        \/ Head(s2c).type = "reset" /\ cstream' = CliErrorAll({x} \cap cactive)
    BY <1>9, <2>2 DEF CliRecvClose, CliRecvReset, CliTakes
  <2>4. CASE x # s
    <3>1. ~EndOf(Head(s2c), s)
      BY <2>2, <2>4 DEF EndOf
    <3>2. cstream'[s] = cstream[s]
      BY <2>3, <2>4 DEF CliPeerClosedAll, CliErrorAll
    <3>3. EndsAt(c2s, Tail(s2c), s, cstream[s], sstream[s])
      BY <1>t, <1>i, <2>1, <3>1, EndsPass
    <3> QED
      BY <2>1, <3>2, <3>3
  <2>5. CASE x = s
    <3>1. 1 \in DOMAIN s2c /\ s2c[1] = Head(s2c)
      BY <1>t, <2>1, TailIs
    <3>2. sstream[s] \in {"CLOSING", "CLOSED"}
      BY <1>c, <2>1, <2>2, <2>5, <3>1 DEF Consistent, StreamFrames
    <3>3. Head(s2c).type = "reset" => sstream[s] = "CLOSED"
      BY <1>i, <2>2, <2>5, <3>1 DEF EndsAt, Heard
    <3>4. PICK m2 : m2 = cstream'[s]
      OBVIOUS
    <3>5. PICK m \in StreamStates \cup {NoStream} : m = cstream[s]
      BY <1>t
    <3>6. PICK o : o = sstream[s]
      OBVIOUS
    <3>7. \/ m \in {NoStream, "CLOSED"} /\ m2 = m
          \/ m2 = "CLOSED" /\ (m = "CLOSING" \/ o = "CLOSED")
          \/ m \in {"OPEN", "CLOSEWAIT"} /\ m2 = "CLOSEWAIT"
      <4>1. CASE s \notin cactive
        BY <1>l, <2>3, <2>5, <3>4, <3>5, <4>1 DEF CliPeerClosedAll, CliErrorAll
      <4>2. CASE s \in cactive /\ Head(s2c).type = "close"
        <5>1. cstream[s] # NoStream
          BY <4>2 DEF StreamInv, CliCounters
        <5>2. cstream' = CliPeerClosedAll({x} \cap cactive)
          BY <2>3, <4>2
        <5> QED
          BY <2>5, <3>4, <3>5, <4>2, <5>1, <5>2 DEF CliPeerClosedAll, StreamStates
      <4>3. CASE s \in cactive /\ Head(s2c).type = "reset"
        BY <2>3, <2>5, <3>3, <3>4, <3>6, <4>3 DEF CliErrorAll
      <4> QED
        BY <2>1, <4>1, <4>2, <4>3
    <3>8. EndOf(Head(s2c), s) /\ FinalIn(s2c)
      BY <1>c, <2>1, <2>2, <2>5 DEF EndOf, Consistent
    <3>9. o \in {"CLOSING", "CLOSED"} /\ EndsAt(c2s, s2c, s, m, o)
      BY <1>i, <3>2, <3>5, <3>6
    <3>10. EndsAt(c2s, Tail(s2c), s, m2, o)
      BY ONLY <1>t, <2>1, <3>7, <3>8, <3>9, m \in StreamStates \cup {NoStream}, EndsHear
    <3> QED
      BY <2>1, <3>4, <3>6, <3>10
  <2> QED
    BY <2>4, <2>5
<1> QED
  BY <1>1, <1>2, <1>3, <1>4, <1>5, <1>6, <1>7, <1>8, <1>9, CliUpSteps

\* The steps of a server after which the socket still works.
LEMMA SrvUpSteps ==
  ASSUME TypeOK, SocketInv, ServerStep, sstate' # "CLOSED", sws' = "OPEN" \/ sstate' = "AUTH"
  PROVE  /\ sstate # "CLOSED"
         /\ \/ SrvOpenStream \/ SessionExpires
            \/ \E x \in Ids : SrvStreamClose(x) \/ SrvStreamError(x) \/ SrvStreamSend(x)
            \/ SrvRecvAuth /\ SrvTakes /\ sstate' = "AUTH" /\ UNCHANGED <<sactive, sstream>>
            \/ SrvRecvData \/ SrvRecvClose \/ SrvRecvReset
<1>1. ASSUME NEW k PROVE ~SrvErrorSocket(k)
  BY DEF SrvErrorSocket
<1>2. ~SrvCloseSocketIdle /\ ~SrvCloseSocket /\ ~SrvNoDatabase /\ ~SessionTimeout
  BY <1>1 DEF SrvCloseSocketIdle, SrvCloseSocket, SrvNoDatabase, SessionTimeout, SrvHangUp
<1>3. ~SrvWsClosed /\ ~SrvLinkDown /\ ~SrvChannelClosed /\ ~SrvIgnores /\ ~SrvRecvFatal /\ ~SrvRecvExpired
  BY DEF SrvWsClosed, SrvLinkDown, SrvChannelClosed, SrvIgnores, SrvRecvFatal, SrvRecvExpired, SrvOnSocketClose,
         SrvOnSocketError, serverVars
<1>4. SrvRecvAuth => SrvTakes /\ sstate' = "AUTH" /\ UNCHANGED <<sactive, sstream>> /\ sstate # "CLOSED"
  BY <1>1 DEF SrvRecvAuth
<1>5. SrvOpenStream \/ SrvRecvData \/ SrvRecvClose \/ SrvRecvReset => sstate = "AUTH"
  BY DEF SrvOpenStream, SrvRecvData, SrvRecvClose, SrvRecvReset
<1>6. ASSUME \/ SessionExpires
             \/ \E x \in Ids : SrvStreamClose(x) \/ SrvStreamError(x) \/ SrvStreamSend(x)
      PROVE  sstate' = sstate
  BY <1>6 DEF SessionExpires, SrvStreamClose, SrvStreamError, SrvStreamSend
<1> QED
  BY <1>2, <1>3, <1>4, <1>5, <1>6 DEF ServerStep, SrvUser, SrvSystem

LEMMA SrvLeftSteps ==
  ASSUME TypeOK, TypeOK', StreamInv, SocketInv, LeftInv, ServerStep
  PROVE  LeftInv'
<1>t. sstream \in [Ids -> StreamStates \cup {NoStream}] /\ sactive \in SUBSET Ids
  BY DEF TypeOK, ServerTypeOK
<1>u. UNCHANGED <<cstream, cactive>> /\ (Up' => Up)
  BY SrvWire DEF clientVars
<1> SUFFICES ASSUME sstate' = "AUTH", NEW s \in Ids, sstream'[s] # NoStream, s \notin sactive' PROVE sstream'[s] = "CLOSED"
  BY <1>u DEF LeftInv
<1>l. sstate = "AUTH" /\ sstream[s] # NoStream /\ s \notin sactive => sstream[s] = "CLOSED"
  BY DEF LeftInv
<1>1. CASE SessionExpires
  BY <1>l, <1>1 DEF SessionExpires
<1>2. CASE SrvRecvAuth /\ UNCHANGED <<sactive, sstream>>
  <2>1. sstate \in {"IDLE", "AUTH"}
    BY <1>2 DEF SrvRecvAuth
  <2>2. sstate # "IDLE"
    BY <1>2 DEF SocketInv, SrvSocketInv
  <2> QED
    BY <1>l, <1>2, <2>1, <2>2
<1>3. CASE SrvOpenStream
  BY <1>t, <1>l, <1>3 DEF SrvOpenStream
<1>4. ASSUME NEW x \in Ids, SrvStreamClose(x) PROVE sstream'[s] = "CLOSED"
  <2>1. sstate = "AUTH" /\ sstream[x] \in {"OPEN", "CLOSEWAIT"}
    BY <1>4 DEF SrvStreamClose
  <2>2. /\ sstream' = SrvCloseAll({x})
        /\ sactive' = IF sstream[x] = "CLOSEWAIT" THEN sactive \ {x} ELSE sactive
    BY <1>4, <2>1 DEF SrvStreamClose, SrvSendable
  <2>3. CASE s = x
    <3>1. sstream'[s] = IF sstream[x] = "OPEN" THEN "CLOSING" ELSE "CLOSED"
      BY <2>1, <2>2, <2>3 DEF SrvCloseAll
    <3> QED
      BY <1>l, <2>1, <2>2, <2>3, <3>1 DEF NoStream
  <2>4. CASE s # x
    <3>1. sstream'[s] = sstream[s]
      BY <2>2, <2>4 DEF SrvCloseAll
    <3> QED
      BY <1>l, <2>1, <2>2, <2>4, <3>1
  <2> QED
    BY <2>3, <2>4
<1>5. ASSUME NEW x \in Ids, SrvStreamError(x) PROVE sstream'[s] = "CLOSED"
  <2>1. /\ sstream' = [sstream EXCEPT ![x] = "CLOSED"] /\ (sactive' = sactive \/ sactive' = sactive \ {x})
        /\ sstate = "AUTH"
    BY <1>5 DEF SrvStreamError
  <2> QED
    BY <1>t, <1>l, <2>1
<1>6. ASSUME NEW x \in Ids, SrvStreamSend(x) PROVE sstream'[s] = "CLOSED"
  BY <1>l, <1>6 DEF SrvStreamSend
<1>7. CASE SrvRecvData
  <2>1. PICK x : \/ sactive' = sactive \cup {x} /\ sstream' = [sstream EXCEPT ![x] = "OPEN"]
                 \/ UNCHANGED <<sactive, sstream>>
    BY <1>7 DEF SrvRecvData
  <2>2. sstate = "AUTH"
    BY <1>7 DEF SrvRecvData
  <2> QED
    BY <1>t, <1>l, <2>1, <2>2
<1>8. CASE SrvRecvClose
  <2>1. PICK x : /\ sstream' = SrvPeerClosedAll({x} \cap sactive)
                 /\ sactive' = {y \in sactive : y = x => sstream'[y] # "CLOSED"}
    BY <1>8 DEF SrvRecvClose
  <2>2. sstate = "AUTH"
    BY <1>8 DEF SrvRecvClose
  <2> QED
    BY <1>t, <1>l, <2>1, <2>2 DEF SrvPeerClosedAll
<1>9. CASE SrvRecvReset
  <2>1. PICK x : sstream' = SrvEndAll({x} \cap sactive) /\ sactive' = sactive
    BY <1>9 DEF SrvRecvReset
  <2>2. sstate = "AUTH"
    BY <1>9 DEF SrvRecvReset
  <2> QED
    BY <1>t, <1>l, <2>1, <2>2 DEF SrvEndAll
<1> QED
  BY <1>1, <1>2, <1>3, <1>4, <1>5, <1>6, <1>7, <1>8, <1>9, SrvUpSteps

LEMMA SrvEndsSteps ==
  ASSUME TypeOK, TypeOK', StreamInv, SocketInv, LeftInv, EndsInv, ServerStep
  PROVE  EndsInv'
<1>u. UNCHANGED <<cstate, cstream, cactive>> /\ (Up' => Up)
  BY SrvWire DEF clientVars
<1> SUFFICES ASSUME Up', sstate' # "CLOSED", NEW s \in Ids
             PROVE  EndsAt(s2c', c2s', s, sstream'[s], cstream[s])
  BY <1>u, EndsSwap DEF EndsInv
<1>t. /\ sstream \in [Ids -> StreamStates \cup {NoStream}] /\ sactive \in SUBSET Ids
      /\ c2s \in Seq(Frame) /\ s2c \in Seq(Frame) /\ ssent \in [Ids -> Nat] /\ sstate \in ServerStates
  BY DEF TypeOK, ServerTypeOK, WireTypeOK
<1>v. Up /\ sws' = "OPEN"
  BY <1>u DEF Up
<1>d. sstate # "CLOSED" /\ sstate # "CLOSING"
  BY <1>v, SrvUpSteps, UpSends
<1>i. EndsAt(s2c, c2s, s, sstream[s], cstream[s])
  BY <1>d, <1>v, EndsSwap DEF EndsInv
<1>e. \A x \in Ids : sstream[x] # NoStream => sstate = "AUTH"
  BY <1>t, <1>d DEF SocketInv, SrvSocketInv, ServerStates
<1>l. sstream[s] # NoStream /\ s \notin sactive => sstream[s] = "CLOSED"
  BY <1>e DEF LeftInv
<1>c. Consistent(c2s, cstream) /\ Consistent(s2c, sstream)
  BY DEF StreamInv
<1>k. \A r : ToClient(r) = s2c \o r
  BY <1>v DEF Up, ToClient
<1>1. CASE SessionExpires
  BY <1>i, <1>1 DEF SessionExpires, wireVars
<1>2. CASE SrvRecvAuth /\ SrvTakes /\ UNCHANGED <<sactive, sstream>>
  <2>1. c2s # <<>> /\ Head(c2s).type = "auth" /\ c2s' = Tail(c2s) /\ s2c' = s2c
    BY <1>2 DEF SrvRecvAuth, SrvHead, SrvTakes
  <2>2. ~EndOf(Head(c2s), s)
    BY <2>1 DEF EndOf
  <2>3. EndsAt(s2c, Tail(c2s), s, sstream[s], cstream[s])
    BY <1>t, <1>i, <2>1, <2>2, EndsPass
  <2> QED
    BY <1>2, <2>1, <2>3
<1>3. CASE SrvOpenStream
  <2>1. sstream' = [sstream EXCEPT ![snext] = "OPEN"] /\ UNCHANGED <<c2s, s2c>>
    BY <1>3 DEF SrvOpenStream, wireVars
  <2>2. CASE s = snext
    <3>1. s % 2 = 0 /\ sstream[s] = NoStream
      BY <2>2, Bounds DEF StreamInv, SrvCounters, Ids
    <3>2. cstream[s] = NoStream
      BY <3>1 DEF StreamInv, PeerOpened, ServerIds
    <3>3. NoData(c2s, s) /\ ~Ended(c2s, s) /\ NoData(s2c, s) /\ ~Ended(s2c, s)
      BY <1>c, <3>1, <3>2, NoneInFlight
    <3>4. EndsAt(s2c, c2s, s, "OPEN", cstream[s])
      BY <3>2, <3>3, EndsFresh
    <3> QED
      BY <1>t, <2>1, <2>2, <3>4
  <2>3. CASE s # snext
    BY <1>t, <1>i, <2>1, <2>3
  <2> QED
    BY <2>2, <2>3
<1>4. ASSUME NEW x \in Ids, SrvStreamClose(x)
      PROVE  EndsAt(s2c', c2s', s, sstream'[s], cstream[s])
  <2>1. sstream[x] \in {"OPEN", "CLOSEWAIT"} /\ SrvSendable
    BY <1>e, <1>4 DEF SrvStreamClose, SrvSendable, NoStream
  <2>2. sstream' = SrvCloseAll({x}) /\ s2c' = s2c \o <<StreamCloseMsg(x)>> /\ c2s' = c2s
    BY <1>4, <1>k, <2>1 DEF SrvStreamClose
  <2>3. CASE x = s
    <3>1. \/ sstream[s] = "OPEN" /\ sstream'[s] = "CLOSING"
          \/ sstream[s] = "CLOSEWAIT" /\ sstream'[s] = "CLOSED"
      <4>1. sstream'[s] = IF sstream[x] = "OPEN" THEN "CLOSING" ELSE "CLOSED"
        BY <2>1, <2>2, <2>3 DEF SrvCloseAll
      <4> QED
        BY <2>1, <2>3, <4>1
    <3>2. PICK m2 : m2 = sstream'[s]
      OBVIOUS
    <3>3. EndsAt(s2c \o <<StreamCloseMsg(s)>>, c2s, s, m2, cstream[s])
      BY <1>t, <1>i, <3>1, <3>2, EndsClose
    <3> QED
      BY <2>2, <2>3, <3>2, <3>3
  <2>4. CASE x # s
    <3>1. PICK e : e = <<StreamCloseMsg(x)>>
      OBVIOUS
    <3>2. e \in Seq(Frame) /\ DOMAIN e = {1} /\ e[1].type = "close" /\ e[1].stream = x
      BY <3>1, FrameType DEF StreamCloseMsg, F
    <3>3. NoData(e, s) /\ \A i \in DOMAIN e : ~EndOf(e[i], s)
      BY <2>4, <3>2 DEF NoData, DataOf, EndOf
    <3>4. EndsAt(s2c \o e, c2s, s, sstream[s], cstream[s])
      BY <1>t, <1>i, <3>2, <3>3, EndsSend
    <3>5. sstream'[s] = sstream[s]
      BY <2>2, <2>4 DEF SrvCloseAll
    <3> QED
      BY <2>2, <3>1, <3>4, <3>5
  <2> QED
    BY <2>3, <2>4
<1>5. ASSUME NEW x \in Ids, SrvStreamError(x)
      PROVE  EndsAt(s2c', c2s', s, sstream'[s], cstream[s])
  <2>1. sstream[x] \in {"OPEN", "CLOSEWAIT", "CLOSING"} /\ SrvSendable
    BY <1>e, <1>5 DEF SrvStreamError, SrvSendable, NoStream
  <2>2. /\ sstream' = [sstream EXCEPT ![x] = "CLOSED"] /\ c2s' = c2s
        /\ s2c' = IF sstream[x] # "CLOSING" THEN s2c \o <<StreamResetMsg(x)>> ELSE s2c
    BY <1>5, <1>k, <2>1 DEF SrvStreamError
  <2>3. CASE x = s /\ sstream[x] # "CLOSING"
    <3>1. EndsAt(s2c \o <<StreamResetMsg(s)>>, c2s, s, "CLOSED", cstream[s])
      BY <1>t, <1>i, <2>1, <2>3, EndsFail
    <3> QED
      BY <1>t, <2>2, <2>3, <3>1
  <2>4. CASE x = s /\ sstream[x] = "CLOSING"
    <3>1. EndsAt(s2c, c2s, s, "CLOSED", cstream[s])
      BY <1>i, <2>4, EndsGiveUp
    <3> QED
      BY <1>t, <2>2, <2>4, <3>1
  <2>5. CASE x # s
    <3>1. PICK e : e = <<StreamResetMsg(x)>>
      OBVIOUS
    <3>2. e \in Seq(Frame) /\ DOMAIN e = {1} /\ e[1].type = "reset" /\ e[1].stream = x
      BY <3>1, FrameType DEF StreamResetMsg, F
    <3>3. NoData(e, s) /\ \A i \in DOMAIN e : ~EndOf(e[i], s)
      BY <2>5, <3>2 DEF NoData, DataOf, EndOf
    <3>4. EndsAt(s2c \o e, c2s, s, sstream[s], cstream[s])
      BY <1>t, <1>i, <3>2, <3>3, EndsSend
    <3>5. sstream'[s] = sstream[s]
      BY <1>t, <2>2, <2>5
    <3> QED
      BY <1>i, <2>2, <3>1, <3>4, <3>5
  <2> QED
    BY <2>3, <2>4, <2>5
<1>6. ASSUME NEW x \in Ids, SrvStreamSend(x)
      PROVE  EndsAt(s2c', c2s', s, sstream'[s], cstream[s])
  <2>1. sstream[x] \in {"OPEN", "CLOSEWAIT"}
    BY <1>6 DEF SrvStreamSend
  <2>2. PICK e : e = <<StreamDataMsg(x, ssent[x] + 1)>>
    OBVIOUS
  <2>3. sstream' = sstream /\ c2s' = c2s /\ s2c' = s2c \o e
    BY <1>6, <1>k, <2>2 DEF SrvStreamSend
  <2>4. e \in Seq(Frame) /\ DOMAIN e = {1} /\ e[1].type = "data" /\ e[1].stream = x
    <3>1. ssent[x] + 1 \in Nat
      BY <1>t
    <3> QED
      BY <2>2, <3>1, FrameType DEF StreamDataMsg, F
  <2>5. (NoData(e, s) \/ sstream[s] \notin {"CLOSING", "CLOSED"}) /\ \A i \in DOMAIN e : ~EndOf(e[i], s)
    BY <2>1, <2>4 DEF NoData, DataOf, EndOf
  <2>6. EndsAt(s2c \o e, c2s, s, sstream[s], cstream[s])
    BY <1>t, <1>i, <2>4, <2>5, EndsSend
  <2> QED
    BY <2>3, <2>6
<1>7. CASE SrvRecvData
  <2>1. /\ c2s # <<>> /\ Head(c2s).type = "data" /\ c2s' = Tail(c2s) /\ s2c' = s2c
    BY <1>7 DEF SrvRecvData, SrvTakes, SrvHead
  <2>2. ~EndOf(Head(c2s), s)
    BY <2>1 DEF EndOf
  <2>3. CASE sstream'[s] = sstream[s]
    <3>1. EndsAt(s2c, Tail(c2s), s, sstream[s], cstream[s])
      BY <1>t, <1>i, <2>1, <2>2, EndsPass
    <3> QED
      BY <2>1, <2>3, <3>1
  <2>4. CASE sstream'[s] # sstream[s]
    <3>1. PICK x : x = Head(c2s).stream
      OBVIOUS
    <3>2. /\ x \notin sactive /\ x % 2 = 1 /\ x > swater
          /\ sstream' = [sstream EXCEPT ![x] = "OPEN"]
      BY <1>7, <2>4, <3>1 DEF SrvRecvData
    <3>3. x = s /\ sstream'[s] = "OPEN"
      BY <1>t, <2>4, <3>2
    <3>4. sstream[s] = NoStream
      <4>1. s \in Nat /\ swater \in Nat
        BY Bounds DEF TypeOK, ServerTypeOK, Ids
      <4> QED
        BY <3>2, <3>3, <4>1 DEF StreamInv, SrvCounters
    <3>5. DataOf(Head(c2s), s)
      BY <2>1, <3>1, <3>3 DEF DataOf
    <3>6. ~Ended(s2c, s)
      BY <1>c, <3>4, NoneInFlight
    <3>7. EndsAt(s2c, Tail(c2s), s, "OPEN", cstream[s])
      BY <1>t, <1>i, <2>1, <3>4, <3>5, <3>6, EndsMake
    <3> QED
      BY <2>1, <3>3, <3>7
  <2> QED
    BY <2>3, <2>4
<1>8. CASE SrvRecvClose \/ SrvRecvReset
  <2>1. /\ c2s # <<>> /\ Head(c2s).type \in {"close", "reset"} /\ c2s' = Tail(c2s) /\ s2c' = s2c
    BY <1>8 DEF SrvRecvClose, SrvRecvReset, SrvTakes, SrvHead
  <2>2. PICK x : x = Head(c2s).stream
    OBVIOUS
  <2>3. \/ Head(c2s).type = "close" /\ sstream' = SrvPeerClosedAll({x} \cap sactive)
        \/ Head(c2s).type = "reset" /\ sstream' = SrvEndAll({x} \cap sactive)
    BY <1>8, <2>2 DEF SrvRecvClose, SrvRecvReset, SrvHead
  <2>4. CASE x # s
    <3>1. ~EndOf(Head(c2s), s)
      BY <2>2, <2>4 DEF EndOf
    <3>2. sstream'[s] = sstream[s]
      BY <2>3, <2>4 DEF SrvPeerClosedAll, SrvEndAll
    <3>3. EndsAt(s2c, Tail(c2s), s, sstream[s], cstream[s])
      BY <1>t, <1>i, <2>1, <3>1, EndsPass
    <3> QED
      BY <2>1, <3>2, <3>3
  <2>5. CASE x = s
    <3>1. 1 \in DOMAIN c2s /\ c2s[1] = Head(c2s)
      BY <1>t, <2>1, TailIs
    <3>2. cstream[s] \in {"CLOSING", "CLOSED"}
      BY <1>c, <2>1, <2>2, <2>5, <3>1 DEF Consistent, StreamFrames
    <3>3. Head(c2s).type = "reset" => cstream[s] = "CLOSED"
      BY <1>i, <2>2, <2>5, <3>1 DEF EndsAt, Heard
    <3>4. PICK m2 : m2 = sstream'[s]
      OBVIOUS
    <3>5. PICK m \in StreamStates \cup {NoStream} : m = sstream[s]
      BY <1>t
    <3>6. PICK o : o = cstream[s]
      OBVIOUS
    <3>7. \/ m \in {NoStream, "CLOSED"} /\ m2 = m
          \/ m2 = "CLOSED" /\ (m = "CLOSING" \/ o = "CLOSED")
          \/ m \in {"OPEN", "CLOSEWAIT"} /\ m2 = "CLOSEWAIT"
      <4>1. CASE s \notin sactive
        BY <1>l, <2>3, <2>5, <3>4, <3>5, <4>1 DEF SrvPeerClosedAll, SrvEndAll
      <4>2. CASE s \in sactive /\ Head(c2s).type = "close"
        <5>1. sstream[s] # NoStream
          BY <4>2 DEF StreamInv, SrvCounters
        <5>2. sstream' = SrvPeerClosedAll({x} \cap sactive)
          BY <2>3, <4>2
        <5> QED
          BY <2>5, <3>4, <3>5, <4>2, <5>1, <5>2 DEF SrvPeerClosedAll, StreamStates
      <4>3. CASE s \in sactive /\ Head(c2s).type = "reset"
        BY <2>3, <2>5, <3>3, <3>4, <3>6, <4>3 DEF SrvEndAll
      <4> QED
        BY <2>1, <4>1, <4>2, <4>3
    <3>8. EndOf(Head(c2s), s) /\ FinalIn(c2s)
      BY <1>c, <2>1, <2>2, <2>5 DEF EndOf, Consistent
    <3>9. o \in {"CLOSING", "CLOSED"} /\ EndsAt(s2c, c2s, s, m, o)
      BY <1>i, <3>2, <3>5, <3>6
    <3>10. EndsAt(s2c, Tail(c2s), s, m2, o)
      BY ONLY <1>t, <2>1, <3>7, <3>8, <3>9, m \in StreamStates \cup {NoStream}, EndsHear
    <3> QED
      BY <2>1, <3>4, <3>6, <3>10
  <2> QED
    BY <2>4, <2>5
<1> QED
  BY <1>v, <1>1, <1>2, <1>3, <1>4, <1>5, <1>6, <1>7, <1>8, SrvUpSteps

EndingInv == LeftInv /\ EndsInv

LEMMA EndingInit == Init => EndingInv
<1> SUFFICES ASSUME Init PROVE EndingInv
  OBVIOUS
<1>1. c2s = <<>> /\ s2c = <<>> /\ \A s \in Ids : cstream[s] = NoStream /\ sstream[s] = NoStream
  BY DEF Init, WireInit, ClientInit, ServerInit
<1>2. \A s \in Ids : NoData(c2s, s) /\ ~Ended(c2s, s) /\ NoData(s2c, s) /\ ~Ended(s2c, s)
  BY <1>1 DEF NoData, Ended
<1>3. \A s \in Ids : EndsAt(c2s, s2c, s, cstream[s], sstream[s])
  BY <1>1, <1>2, EndsFresh
<1> QED
  BY <1>1, <1>3 DEF EndingInv, LeftInv, EndsInv

LEMMA EndingNext ==
  TypeOK /\ TypeOK' /\ StreamInv /\ SocketInv /\ EndingInv /\ [Next]_vars => EndingInv'
<1> SUFFICES ASSUME TypeOK, TypeOK', StreamInv, SocketInv, LeftInv, EndsInv, [Next]_vars
             PROVE  LeftInv' /\ EndsInv'
  BY DEF EndingInv
<1>1. CASE ClientStep
  BY <1>1, CliLeftSteps, CliEndsSteps
<1>2. CASE ServerStep
  BY <1>2, SrvLeftSteps, SrvEndsSteps
<1>3. CASE LinkStep
  BY <1>3 DEF LinkStep, LinkLost, clientVars, serverVars, LeftInv, EndsInv, Up
<1>4. CASE UNCHANGED vars
  BY <1>4 DEF vars, wireVars, clientVars, serverVars, LeftInv, EndsInv, Up
<1> QED
  BY <1>1, <1>2, <1>3, <1>4 DEF Next

\* The invariant behind EndsSettle.
THEOREM EndingInvariant == Spec => []EndingInv
<1>1. TypeOK /\ TypeOK' /\ StreamInv /\ SocketInv /\ EndingInv /\ [Next]_vars => EndingInv'
  BY EndingNext
<1> QED
  BY <1>1, EndingInit, TypeCorrect, StreamInvariant, SocketInvariant, PTL DEF Spec

\* With both sockets authenticated and nothing in flight, the two ends of a
\* stream agree on how far it is closed.
THEOREM EndsSettle == Spec => []EndsAgree
<1>1. TypeOK /\ EndingInv => EndsAgree
  <2> SUFFICES ASSUME TypeOK, EndsInv, Quiet, NEW s \in Ids, cstream[s] # NoStream, sstream[s] # NoStream
               PROVE  Settled(s)
    BY DEF EndingInv, EndsAgree
  <2>1. EndsAt(<<>>, <<>>, s, cstream[s], sstream[s])
    BY DEF EndsInv, Up, Quiet
  <2>2. ~Ended(<<>>, s)
    BY DEF Ended
  <2>3. cstream[s] \in StreamStates /\ sstream[s] \in StreamStates
    BY DEF TypeOK, ClientTypeOK, ServerTypeOK
  <2> QED
    BY <2>1, <2>2, <2>3 DEF EndsAt, Told, Heard, Settled, StreamStates
<1> QED
  BY <1>1, EndingInvariant, TypeCorrect, PTL
=============================================================================
