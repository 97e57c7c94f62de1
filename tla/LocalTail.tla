----------------------------- MODULE LocalTail ------------------------------
(***************************************************************************)
(* One mirrored table on its way from the client to the server:            *)
(* establishLocalTail (skdb_orchestration.ts) over a resilient stream and  *)
(* the write-csv process the server starts per stream (Skdb.kt, SqlCsv.sk).*)
(*                                                                         *)
(* The client's write number t touches the row written[t]; a row's value   *)
(* is the number of its last write, so a payload is a set of writes and    *)
(* the checkpoint it ends with.  The process of a stream that was given up *)
(* still reads what reached it, next to its successor's.                   *)
(***************************************************************************)
EXTENDS Integers, Sequences, FiniteSets

CONSTANTS Rows,
          Keep,         \* how many ticks of removals a client keeps (1000)
          MaxWrites,    \* bound: local writes
          MaxFailures,  \* bound: failures of the stream
          MaxRefusals,  \* bound: payloads that violate an access rule
          MaxPurges     \* bound: purges of the client's old removals

ASSUME LocalTailBounds ==
  /\ IsFiniteSet(Rows) /\ Keep \in Nat
  /\ MaxWrites \in Nat /\ MaxFailures \in Nat /\ MaxRefusals \in Nat /\ MaxPurges \in Nat

VARIABLES written,    \* the row of each local write
          acked,      \* the watermark of the table's feedback table, 0 for none
          seeded,     \* the local tick it was started at by server rows, 0 if acks started it
          tombLimit,  \* the local tick up to which removals are forgotten
          told,       \* writes the client has been told were refused
          stream,     \* the number of the stream in use, 0 while reconnecting
          rebooted,
          up,         \* per stream, what its server process has yet to read
          running,    \* streams whose process reads: the push promise came, no end yet
          down,       \* answers on their way
          server,     \* the writes the server's rows come from
          seen,       \* the server's watermark for this client, 0 for none
          refused,    \* writes the server has refused once
          rsError,    \* the server holds this client for diverged
          streams, purges, refusals

clientVars == <<written, acked, seeded, tombLimit, told, stream, rebooted, purges>>
serverVars == <<running, server, seen, refused, rsError, refusals>>
vars == <<clientVars, serverVars, up, down, streams>>

Tick == Len(written)
LastWrites(n) == {t \in 1..n : \A u \in t + 1..n : written[u] # written[t]}
Promise == [kind |-> "promise", ts |-> {}, check |-> 0]
Data(ts, check) == [kind |-> "data", ts |-> ts, check |-> check]
RebuildMsg == [kind |-> "rebuild", ts |-> {}, check |-> Tick]
Answer(kind, ts, check) == [kind |-> kind, ts |-> ts, check |-> check]

Init ==
  /\ written = <<>> /\ acked = 0 /\ seeded = 0 /\ tombLimit = 0 /\ told = {} /\ stream = 1
  /\ rebooted = FALSE /\ up = [s \in 1..MaxFailures + 1 |-> IF s = 1 THEN <<Promise>> ELSE <<>>]
  /\ running = {} /\ down = <<>> /\ server = {} /\ seen = 0 /\ refused = {} /\ rsError = FALSE
  /\ streams = 1 /\ purges = 0 /\ refusals = 0

-----------------------------------------------------------------------------
(* The client. *)

\* ResilientStream.send: a stream that is being replaced swallows what it is given.
Send(m) == up' = IF stream = 0 THEN up ELSE [up EXCEPT ![stream] = Append(@, m)]

\* A local write: the session's updates file changes and watchFile sends the change.
LocalWrite ==
  \E r \in Rows :
    /\ Tick < MaxWrites /\ ~rebooted
    /\ written' = Append(written, r)
    /\ Send(Data({Tick + 1}, Tick + 1))
    /\ UNCHANGED <<acked, seeded, tombLimit, told, stream, rebooted, purges, serverVars, down, streams>>

\* checkpointAndAck on the first rows the server's tail brings: the feedback
\* watermark starts at the local tick of now.
SeedAck ==
  /\ acked = 0 /\ Tick > 0 /\ ~rebooted
  /\ acked' = Tick /\ seeded' = Tick
  /\ UNCHANGED <<written, tombLimit, told, stream, rebooted, purges, serverVars, up, down, streams>>

\* sqlPurgeFrom: removals are kept for the acknowledgements that are missing.
PurgeLimit == IF acked > 0 /\ acked < Tick - Keep THEN acked - 1 ELSE Tick - Keep
ClientPurges ==
  /\ purges < MaxPurges /\ purges' = purges + 1
  /\ PurgeLimit > tombLimit /\ tombLimit' = PurgeLimit
  /\ UNCHANGED <<written, acked, seeded, told, stream, rebooted, serverVars, up, down, streams>>

\* stream.onData: an answer is written to the feedback table, refused writes and
\* checkpoint; ":reboot" closes the connection.
HearsAnswer ==
  /\ stream # 0 /\ down # <<>> /\ down' = Tail(down)
  /\ LET a == Head(down) IN
     IF a.kind = "reboot"
     THEN rebooted' = TRUE /\ stream' = 0 /\ UNCHANGED <<acked, told>>
     ELSE /\ acked' = IF a.check > acked THEN a.check ELSE acked
          /\ told' = told \cup a.ts
          /\ UNCHANGED <<rebooted, stream>>
  /\ UNCHANGED <<written, seeded, tombLimit, purges, serverVars, up, streams>>

\* The tail of the same mirror hears ":reboot" too.
TailSaysReboot ==
  /\ rsError /\ ~rebooted
  /\ rebooted' = TRUE /\ stream' = 0
  /\ UNCHANGED <<written, acked, seeded, tombLimit, told, purges, serverVars, up, down, streams>>

\* The stream fails: some of what was sent reaches its process, no more answers
\* are heard.
StreamFails ==
  /\ stream # 0 /\ streams <= MaxFailures
  /\ \E n \in 0..Len(up[stream]) : up' = [up EXCEPT ![stream] = SubSeq(@, 1, n)]
  /\ stream' = 0 /\ down' = <<>>
  /\ UNCHANGED <<written, acked, seeded, tombLimit, told, rebooted, purges, serverVars, streams>>

\* client.diff since the feedback watermark, or nothing.
Diff ==
  IF tombLimit > 0 /\ acked <= tombLimit THEN <<RebuildMsg>>
  ELSE IF acked < Tick THEN <<Data({t \in LastWrites(Tick) : t > acked}, Tick)>>
  ELSE <<>>
OnReconnectNoDiff ==
  /\ stream = 0 /\ ~rebooted
  /\ streams' = streams + 1 /\ stream' = streams + 1
  /\ up' = [up EXCEPT ![streams + 1] = <<Promise>>]
  /\ UNCHANGED <<written, acked, seeded, tombLimit, told, rebooted, purges, serverVars, down>>

\* onReconnect on the next stream: the promise again, then the diff.
OnReconnect ==
  /\ stream = 0 /\ ~rebooted
  /\ streams' = streams + 1 /\ stream' = streams + 1
  /\ up' = [up EXCEPT ![streams + 1] = <<Promise>> \o Diff]
  /\ UNCHANGED <<written, acked, seeded, tombLimit, told, rebooted, purges, serverVars, down>>
-----------------------------------------------------------------------------
(* The server's processes. *)

Read(s) == up' = [up EXCEPT ![s] = Tail(@)]
NextIs(s, kind) == up[s] # <<>> /\ Head(up[s]).kind = kind

\* What a round of write-csv says is heard on the stream in use; the next round
\* begins by asking for a cold start if the client is held for diverged, and ends
\* the process.
Answers(s, said) ==
  LET all == IF rsError THEN Append(said, Answer("reboot", {}, 0)) ELSE said IN
  /\ down' = IF s = stream THEN down \o all ELSE down
  /\ running' = IF rsError THEN running \ {s} ELSE running \cup {s}

\* The handler of a push promise starts write-csv.
ReadsPromise(s) ==
  /\ NextIs(s, "promise") /\ Read(s) /\ Answers(s, <<>>)
  /\ UNCHANGED <<clientVars, server, seen, refused, rsError, refusals, streams>>

Merged(ts) == {t \in server : \A u \in ts : written[u] # written[t]} \cup ts

AcceptsAll(s) ==
  LET m == Head(up[s]) IN
  /\ NextIs(s, "data") /\ s \in running /\ Read(s)
  /\ server' = Merged(m.ts) /\ seen' = m.check
  /\ Answers(s, <<Answer("ack", {}, m.check)>>)
  /\ UNCHANGED <<clientVars, refused, rsError, refusals, streams>>

\* write-csv on a payload: what was seen is acknowledged without a look, the rest
\* is applied in one transaction and acknowledged.
Accepts(s) ==
  LET m == Head(up[s]) IN
  /\ NextIs(s, "data") /\ s \in running /\ Read(s)
  /\ IF m.check <= seen THEN UNCHANGED <<server, seen>>
     ELSE server' = Merged(m.ts) /\ seen' = m.check
  /\ Answers(s, <<Answer("ack", {}, m.check)>>)
  /\ UNCHANGED <<clientVars, refused, rsError, refusals, streams>>

\* A row that breaks an access rule: the transaction is undone and every row of
\* the payload is sent back.
Refuses(s) ==
  LET m == Head(up[s]) IN
  /\ NextIs(s, "data") /\ s \in running /\ m.check > seen
  /\ refusals < MaxRefusals /\ refusals' = refusals + 1 /\ Read(s)
  /\ refused' = refused \cup m.ts
  /\ Answers(s, <<Answer("nack", m.ts, m.check)>>)
  /\ UNCHANGED <<clientVars, server, seen, rsError, streams>>

\* A rebuild is not accepted from a client: it is held for diverged and the
\* process ends.
ReadsRebuild(s) ==
  /\ NextIs(s, "rebuild") /\ s \in running /\ Read(s)
  /\ rsError' = TRUE /\ running' = running \ {s}
  /\ UNCHANGED <<clientVars, server, seen, refused, refusals, down, streams>>

Process(s) ==
  ReadsPromise(s) \/ Accepts(s) \/ Refuses(s) \/ ReadsRebuild(s)
-----------------------------------------------------------------------------
Next ==
  \/ LocalWrite \/ SeedAck \/ ClientPurges \/ HearsAnswer \/ TailSaysReboot
  \/ StreamFails \/ OnReconnect
  \/ \E s \in 1..MaxFailures + 1 : Process(s)
Spec == Init /\ [][Next]_vars

\* Streams deliver, processes run and a failed stream is replaced.
LiveSpec ==
  /\ Spec /\ WF_vars(HearsAnswer) /\ WF_vars(TailSaysReboot) /\ WF_vars(OnReconnect)
  /\ \A s \in 1..MaxFailures + 1 : WF_vars(Process(s))
-----------------------------------------------------------------------------
TypeOK ==
  /\ written \in Seq(Rows) /\ acked \in 0..Tick /\ tombLimit \in 0..Tick
  /\ told \subseteq refused /\ refused \subseteq 1..Tick /\ server \subseteq 1..Tick
  /\ stream \in {0, streams} /\ streams \in 1..MaxFailures + 1 /\ seen \in 0..Tick
  /\ rebooted \in BOOLEAN /\ rsError \in BOOLEAN

OnServer(t) == \E u \in server : u >= t /\ written[u] = written[t]

\* What the client counts as acknowledged has reached the server or was refused by
\* it, whichever messages and answers were lost with their streams
\* (establishLocalTail's diff since the feedback watermark).  Writes made before
\* the table's first rows came from the server have no such promise: the watermark
\* was started past them.
AckedIsApplied == \A t \in LastWrites(acked) : t > seeded => OnServer(t) \/ t \in refused

\* A step leaves every row the server has at the same write or at a later one.
RowsForward == \A t \in server : \E u \in server' : u >= t /\ written'[u] = written[t]

\* No row of the server goes back to an older write, although the process of an
\* abandoned stream runs next to its successor's (shouldShortCircuitUpdate).
ServerForward == [][RowsForward]_vars

\* The inductive invariant behind ServerForward: a payload in flight has of each row
\* only the last write up to its checkpoint, and the server's rows come from writes
\* up to its watermark.
Message == [kind : {"promise", "data", "rebuild"}, ts : SUBSET Nat, check : Nat]
Sound == {m \in Message : m.kind = "data" => m.check \in 0..Tick /\ m.ts \subseteq LastWrites(m.check)}
PushInv ==
  /\ written \in Seq(Rows) /\ up \in [1..MaxFailures + 1 -> Seq(Sound)]
  /\ seen \in 0..Tick /\ server \subseteq 1..seen

\* The inductive invariant behind AckedIsApplied.  A row's last write up to n is
\* settled, or a payload that its stream's process has yet to read has it.
Settled(t) == t > seeded => OnServer(t) \/ t \in refused
Covered(n) == \A t \in LastWrites(n) : Settled(t)

\* The process of a stream reads, or will when the promise reaches it, but nothing
\* behind a rebuild.
Reads(s, i) ==
  /\ s \in running \/ NextIs(s, "promise")
  /\ \A j \in 1..i : up[s][j].kind # "rebuild"
InFlight(s, i, t) == \E j \in 1..i : t \in up[s][j].ts

StreamsOpen ==
  /\ stream \in {0, streams} /\ streams \in 1..MaxFailures + 1 /\ acked \in 0..Tick /\ seeded \in 0..Tick
  /\ stream = 0 /\ ~rebooted => streams <= MaxFailures
  /\ \A s \in 1..MaxFailures + 1 :
       /\ s > streams => up[s] = <<>> /\ s \notin running
       /\ \A i \in DOMAIN up[s] :
            /\ up[s][i].kind = "promise" => i = 1 /\ s \notin running
            /\ up[s][i].kind # "data" => up[s][i].ts = {}
\* No payload ahead of the server's watermark skips a write.
PayloadsCover ==
  \A s \in 1..MaxFailures + 1 : \A i \in DOMAIN up[s] :
    Reads(s, i) /\ up[s][i].kind = "data" /\ seen <= up[s][i].check =>
      \A t \in LastWrites(up[s][i].check) : Settled(t) \/ InFlight(s, i, t)
CurrentCovers ==
  stream # 0 /\ Reads(stream, Len(up[stream])) =>
    \A t \in LastWrites(Tick) : Settled(t) \/ InFlight(stream, Len(up[stream]), t)
\* Nothing that other streams carry is ahead of the stream in use.
CurrentIsLast ==
  stream # 0 => \A j \in DOMAIN up[stream] : up[stream][j].kind = "data" =>
    /\ seen <= up[stream][j].check
    /\ \A s \in 1..MaxFailures + 1 : \A i \in DOMAIN up[s] :
         up[s][i].kind = "data" /\ (s # stream \/ i <= j) => up[s][i].check <= up[stream][j].check
AnswersCovered ==
  /\ down \in Seq([kind : {"ack", "nack", "reboot"}, ts : SUBSET Nat, check : 0..Tick])
  /\ \A a \in {down[i] : i \in DOMAIN down} : Covered(a.check)
AckInv ==
  /\ PushInv /\ StreamsOpen /\ PayloadsCover /\ CurrentCovers /\ CurrentIsLast /\ AnswersCovered
  /\ Covered(acked) /\ Covered(seen)

\* Every write is acknowledged or refused in the end, or the client is told to
\* start from scratch.
EverythingAcked == <>[](rebooted \/ acked = Tick)
=============================================================================
