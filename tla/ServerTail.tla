----------------------------- MODULE ServerTail -----------------------------
(***************************************************************************)
(* One mirrored table on its way from the server to the client:            *)
(* establishServerTail (skdb_orchestration.ts) over a resilient stream,    *)
(* the tail process that feeds the stream (Skdb.tail, tailSub in           *)
(* SqlTailer.sk) and the write-csv that applies what arrives (SqlCsv.sk).  *)
(*                                                                         *)
(* The server's table is a set of rows with one version per tick.  A chunk *)
(* carries diffs (rows present and rows gone under a table header, or the  *)
(* rebuild mark) and possibly a checkpoint, which is where the fin flag    *)
(* is.  NoCheck marks a chunk that was cut before its checkpoint.          *)
(***************************************************************************)
EXTENDS Integers, Sequences, SequencesExt, FiniteSets

CONSTANTS Rows,
          Interval,    \* checkpointInterval: rows per chunk of a first transfer
          MaxTick,     \* bound: versions of the server's table
          MaxFailures, \* bound: failures of the stream
          MaxPurges    \* bound: purges of old tombstones

ASSUME TailBounds ==
  /\ IsFiniteSet(Rows) /\ Interval \in Nat \ {0}
  /\ MaxTick \in Nat /\ MaxFailures \in Nat /\ MaxPurges \in Nat

VARIABLES hist,      \* the server's table after each tick
          tombLimit, \* the tick up to which removals are forgotten
          rsError,   \* the server holds this client for diverged
          asked,     \* the since of the request a tail process has yet to read, or None
          tailMark,  \* tailWatermark: the tick the process has told of, or None
          wire,      \* chunks in flight
          attached,  \* the resilient stream has a stream
          table, watermark, \* the client's copy and its checkpoint, 0 for none
          bufs,      \* the decoder's unfinished message
          resolved,  \* the mirror's promise
          rebooted,  \* :reboot was seen: closed, and onReboot was called
          partial,   \* rows left by a first transfer that was cut short
          failures, purges

serverVars == <<hist, tombLimit, rsError, purges>>
streamVars == <<asked, tailMark, wire, attached, failures>>
clientVars == <<table, watermark, bufs, resolved, rebooted, partial>>
vars == <<serverVars, streamVars, clientVars>>

None == -1
NoCheck == -1
Tick == Len(hist)
Server == hist[Tick]
Between(h, a, b) == {r \in Rows : \E t \in a + 1..b : (r \in h[t]) # (t > 1 /\ r \in h[t - 1])}
Changed(since) == Between(hist, since, Tick)
Present(rows) == [rebuild |-> FALSE, add |-> rows, del |-> {}]
Diff(rows) == [rebuild |-> FALSE, add |-> rows \cap Server, del |-> rows \ Server]
Rebuild == [rebuild |-> TRUE, add |-> {}, del |-> {}]
Chunk(diffs, check) == [diffs |-> diffs, check |-> check, signal |-> "none"]
Signal(s) == [diffs |-> <<>>, check |-> 0, signal |-> s]

Init ==
  /\ hist \in {<<rows>> : rows \in SUBSET Rows} /\ tombLimit = 0 /\ rsError = FALSE /\ purges = 0
  /\ asked = 0 /\ tailMark = None /\ wire = <<>> /\ attached = TRUE /\ failures = 0
  /\ table = {} /\ watermark = 0 /\ bufs = <<>> /\ resolved = FALSE /\ rebooted = FALSE
  /\ partial = {}
-----------------------------------------------------------------------------
(* The server. *)

Write ==
  \E r \in Rows :
    /\ Tick < MaxTick
    /\ hist' = Append(hist, IF r \in Server THEN Server \ {r} ELSE Server \cup {r})
    /\ UNCHANGED <<tombLimit, rsError, purges, streamVars, clientVars>>

\* Removals older than some earlier tick are forgotten (sqlPurgeFrom stays behind
\* the current tick).
Purge ==
  /\ purges < MaxPurges /\ purges' = purges + 1
  /\ tombLimit' \in tombLimit + 1..Tick - 1
  /\ UNCHANGED <<hist, rsError, streamVars, clientVars>>

\* The client's own tail needed a rebuild, which the server does not accept.
Condemn ==
  /\ ~rsError /\ rsError' = TRUE
  /\ UNCHANGED <<hist, tombLimit, purges, streamVars, clientVars>>

FirstTransferOnlyFull(order) ==
  [i \in 1..(Len(order) \div Interval) |->
     Chunk(<<Present({order[k] : k \in {k \in 1..Len(order) : (k - 1) \div Interval = i - 1}})>>, 0)]

\* The chunks of a first transfer: Interval rows and a zero checkpoint at a time,
\* then what is left, with the tick.  A table whose size is a multiple of Interval
\* leaves a checkpoint without a header.
Piece(order, i) == {order[k] : k \in {k \in 1..Len(order) : (k - 1) \div Interval = i}}
FirstTransfer(order) ==
  LET n == Len(order) \div Interval
      rest == Piece(order, n)
  IN Append([i \in 1..n |-> Chunk(<<Present(Piece(order, i - 1))>>, 0)],
            Chunk(IF rest = {} THEN <<>> ELSE <<Present(rest)>>, Tick))

\* The chunks of an update, which Skdb.tail cuts when it is long.
Update(rows) ==
  IF rows = {} THEN {<<Chunk(<<>>, Tick)>>}
  ELSE {<<Chunk(<<Diff(rows)>>, Tick)>>,
        <<Chunk(<<Diff(rows)>>, NoCheck), Chunk(<<>>, Tick)>>}

\* One round of tailSub.  After a rebuild it cannot follow and exits, and the
\* server fails the stream.
Tails ==
  LET since == IF tailMark = None THEN asked ELSE tailMark
      rebuilds == since > 0 /\ since <= tombLimit
  IN
  /\ attached /\ asked # None
  /\ tailMark = None \/ rsError \/ rebuilds \/ Changed(since) # {}
  /\ \E out \in
       IF rsError THEN {<<Signal("reboot"), Signal("eof")>>}
       ELSE IF rebuilds THEN {<<Chunk(<<Rebuild>>, Tick), Signal("eof")>>}
       ELSE IF since = 0 THEN {FirstTransfer(order) : order \in SetToSeqs(Server)}
       ELSE Update(Changed(since)) :
       wire' = wire \o out
  /\ tailMark' = Tick
  /\ asked' = IF rsError \/ rebuilds THEN None ELSE asked
  /\ UNCHANGED <<serverVars, attached, failures, clientVars>>
-----------------------------------------------------------------------------
(* The client. *)

Later(check, mark) == IF check > mark THEN check ELSE mark
AppliedKeepsTable(state, d, check, passed) ==
  IF d.rebuild THEN [table |-> state.table, watermark |-> 0]
  ELSE [table |-> (state.table \ d.del) \cup d.add, watermark |-> Later(check, state.watermark)]
AppliedFirst(state, d, check, passed) ==
  IF d.rebuild THEN [table |-> {}, watermark |-> 0]
  ELSE [table |-> state.table \cup d.add, watermark |-> Later(check, state.watermark)]
\* write-csv: the diffs of one message, in order, under one checkpoint.  Rows are
\* skipped if the checkpoint was passed already; a zero checkpoint is not kept.
Applied(state, d, check, passed) ==
  IF d.rebuild THEN [table |-> {}, watermark |-> 0]
  ELSE [table |-> IF passed THEN state.table ELSE (state.table \ d.del) \cup d.add,
        watermark |-> Later(check, state.watermark)]
writeCsv(state, diffs, check) ==
  LET passed == state.watermark > 0 /\ check <= state.watermark
      after[n \in 0..Len(diffs)] ==
        IF n = 0 THEN state ELSE Applied(after[n - 1], diffs[n], check, passed)
  IN after[Len(diffs)]

HasRebuild(diffs) == \E i \in DOMAIN diffs : diffs[i].rebuild

\* A chunk without a checkpoint waits in the decoder; a complete message is applied.
Client == [table |-> table, watermark |-> watermark, bufs |-> bufs, partial |-> partial]
Received(s, c) ==
  LET diffs == s.bufs \o c.diffs
      after == writeCsv([table |-> s.table, watermark |-> s.watermark], diffs, c.check)
  IN IF c.check = NoCheck THEN [s EXCEPT !.bufs = diffs]
     ELSE [table |-> after.table, watermark |-> after.watermark, bufs |-> <<>>,
           partial |-> IF HasRebuild(diffs) THEN {} ELSE s.partial]

\* stream.onData: what was received may keep the promise.
OnData ==
  /\ ~rebooted /\ wire # <<>> /\ Head(wire).signal = "none" /\ wire' = Tail(wire)
  /\ LET c == Head(wire)
         s == Received(Client, c)
     IN /\ table' = s.table /\ watermark' = s.watermark /\ bufs' = s.bufs /\ partial' = s.partial
        /\ resolved' = (resolved \/ (c.check > 0 /\ ~HasRebuild(bufs \o c.diffs)))
  /\ UNCHANGED <<serverVars, asked, tailMark, attached, failures, rebooted>>

\* deliverDataTransferProtoMsg on ":reboot": the connection is closed, nothing is
\* applied any more.
OnReboot ==
  /\ ~rebooted /\ wire # <<>> /\ Head(wire).signal = "reboot"
  /\ rebooted' = TRUE /\ wire' = <<>> /\ attached' = FALSE
  /\ UNCHANGED <<serverVars, asked, tailMark, failures, table, watermark, bufs, resolved, partial>>

\* The stream is failed by the server or lost with its socket: what is in flight
\* is gone and the tail process ends.
Loses ==
  /\ attached' = FALSE /\ wire' = <<>> /\ asked' = None /\ tailMark' = None
  /\ partial' = IF watermark > 0 THEN partial
                ELSE partial \cup table \cup UNION {bufs[i].add : i \in DOMAIN bufs}
  /\ UNCHANGED <<serverVars, table, watermark, bufs, resolved, rebooted>>
OnEof == wire # <<>> /\ Head(wire).signal = "eof" /\ Loses /\ UNCHANGED failures
StreamFails == attached /\ failures < MaxFailures /\ failures' = failures + 1 /\ Loses

OnReconnectSameRequest ==
  /\ ~attached /\ ~rebooted
  /\ attached' = TRUE /\ asked' = Tick
  /\ UNCHANGED <<serverVars, tailMark, wire, failures, clientVars>>
\* onReconnect: the request is built anew, since the watermark of now.
OnReconnect ==
  /\ ~attached /\ ~rebooted
  /\ attached' = TRUE /\ asked' = watermark
  /\ UNCHANGED <<serverVars, tailMark, wire, failures, clientVars>>
-----------------------------------------------------------------------------
Next ==
  \/ Write \/ Purge \/ Condemn \/ Tails
  \/ OnData \/ OnReboot \/ OnEof \/ StreamFails \/ OnReconnect
Spec == Init /\ [][Next]_vars

\* The processes run, the stream delivers and is replaced when it fails.
LiveSpec ==
  Spec /\ WF_vars(Tails) /\ WF_vars(OnData \/ OnReboot \/ OnEof) /\ WF_vars(OnReconnect)
-----------------------------------------------------------------------------
TypeOK ==
  /\ hist \in Seq(SUBSET Rows) /\ tombLimit \in 0..Tick /\ rsError \in BOOLEAN
  /\ asked \in {None} \cup 0..Tick /\ tailMark \in {None} \cup 1..Tick
  /\ wire # <<>> => tailMark # None
  /\ attached \in BOOLEAN /\ table \subseteq Rows /\ watermark \in 0..Tick
  /\ resolved \in BOOLEAN /\ rebooted \in BOOLEAN /\ partial \subseteq Rows

\* A non-zero watermark names a version of the server's table, and the client's
\* copy is that version, whatever was cut, repeated or left in the decoder by the
\* streams before (establishServerTail, write-csv).  The exception is rows of a
\* first transfer that did not come to its end.
SnapshotUpToPartial ==
  watermark > 0 =>
    hist[watermark] \subseteq table /\ table \subseteq hist[watermark] \cup partial

\* The same without the exception.
SnapshotExact == watermark > 0 => table = hist[watermark]

\* The copy only ever moves to later versions: the watermark goes back only to
\* nothing, with an empty table, when the server says rebuild.
WatermarkForward ==
  [][watermark' < watermark => watermark' = 0 /\ table' = {}]_vars

\* When the server is left alone and the stream holds, the copy becomes the
\* server's table, up to the rows of cut transfers.
Converges == <>[](rebooted \/ (Server \subseteq table /\ table \subseteq Server \cup partial))

\* The promise of mirror is kept in the end, or the client is told to reboot.
MirrorResolves == <>(resolved \/ rebooted)
=============================================================================
