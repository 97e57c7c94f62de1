-------------------------- MODULE LocalTailProofs --------------------------
(***************************************************************************)
(* Proofs about module LocalTail, for any rows and any number of writes,   *)
(* failures, refusals and purges: the server's rows never go back, and what *)
(* the client counts as acknowledged is on the server or was refused.       *)
(***************************************************************************)
EXTENDS LocalTail, SequenceTheorems, TLAPS

\* A sequence over a set is one over every larger set.
LEMMA SeqGrows ==
  ASSUME NEW S, NEW T, S \subseteq T, NEW q \in Seq(S)
  PROVE  q \in Seq(T)
  OBVIOUS

\* A further write leaves the last writes up to an earlier tick as they were.
LEMMA Growth ==
  ASSUME written \in Seq(Rows), NEW r \in Rows, written' = Append(written, r)
  PROVE  /\ written' \in Seq(Rows) /\ Tick' = Tick + 1 /\ Tick \in Nat
         /\ \A t \in 1..Tick : written'[t] = written[t]
         /\ \A n \in 0..Tick : LastWrites(n)' = LastWrites(n)
         /\ Sound \subseteq Sound'
  <1>1. written' \in Seq(Rows) /\ Tick' = Tick + 1 /\ Tick \in Nat
    BY DEF Tick
  <1>2. \A t \in 1..Tick : written'[t] = written[t]
    BY DEF Tick
  <1>3. ASSUME NEW n \in 0..Tick
        PROVE  LastWrites(n)' = LastWrites(n)
    <2>1. n \in Nat /\ 1..n \subseteq 1..Tick
      BY <1>1
    <2>2. ASSUME NEW t \in 1..n
          PROVE  (\A u \in t + 1..n : written'[u] # written'[t])
                   <=> (\A u \in t + 1..n : written[u] # written[t])
      <3>1. t \in 1..Tick /\ \A u \in t + 1..n : u \in 1..Tick
        BY <1>1, <2>1
      <3>. QED  BY <3>1, <1>2
    <2>. QED  BY <2>2 DEF LastWrites
  <1>4. Sound \subseteq Sound'
    BY <1>1, <1>3 DEF Sound
  <1>. QED  BY <1>1, <1>2, <1>3, <1>4

\* The invariant holds at the start, with one empty promise in flight.
LEMMA InitInv == Init => PushInv
  <1> SUFFICES ASSUME Init PROVE PushInv
    OBVIOUS
  <1>1. Promise \in Sound
    BY DEF Promise, Sound, Message
  <1>2. up \in [1..MaxFailures + 1 -> Seq(Sound)]
    BY <1>1 DEF Init
  <1>. QED  BY <1>2 DEF Init, PushInv, Tick

\* A local write: its payload is the last write of its row.
LEMMA LocalWriteInv ==
  ASSUME PushInv, LocalWrite
  PROVE  PushInv' /\ RowsForward
  <1>1. PICK r \in Rows : written' = Append(written, r) /\ Send(Data({Tick + 1}, Tick + 1))
    BY DEF LocalWrite
  <1>2. /\ written' \in Seq(Rows) /\ Tick' = Tick + 1 /\ Tick \in Nat
        /\ \A t \in 1..Tick : written'[t] = written[t]
        /\ Sound \subseteq Sound'
    BY <1>1, Growth DEF PushInv
  <1>3. Data({Tick + 1}, Tick + 1) \in Sound'
    BY <1>2 DEF Data, Sound, Message, LastWrites
  <1>4. up' \in [1..MaxFailures + 1 -> Seq(Sound')]
    <2>1. \A s \in 1..MaxFailures + 1 : up[s] \in Seq(Sound')
      BY <1>2, SeqGrows DEF PushInv
    <2>2. CASE stream \in 1..MaxFailures + 1
      <3>1. Append(up[stream], Data({Tick + 1}, Tick + 1)) \in Seq(Sound')
        BY <1>3, <2>1, <2>2
      <3>. QED  BY <1>1, <2>1, <2>2, <3>1 DEF PushInv, Send
    <2>3. CASE stream \notin 1..MaxFailures + 1
      BY <1>1, <2>1, <2>3 DEF PushInv, Send
    <2>. QED  BY <2>2, <2>3
  <1>5. seen' = seen /\ server' = server
    BY DEF LocalWrite, serverVars
  <1>. QED  BY <1>2, <1>4, <1>5 DEF PushInv, RowsForward

\* Steps that leave the writes and the server alone only have to keep the payloads.
LEMMA QuietStep ==
  ASSUME PushInv, UNCHANGED <<written, seen, server>>,
         up' \in [1..MaxFailures + 1 -> Seq(Sound)]
  PROVE  PushInv' /\ RowsForward
  <1>1. Sound' = Sound /\ Tick' = Tick
    BY DEF Sound, LastWrites, Tick
  <1>2. Tick \in Nat
    BY DEF PushInv, Tick
  <1>. QED  BY <1>1, <1>2 DEF PushInv, RowsForward

\* A failed stream keeps a part of what was in flight on it.
LEMMA StreamFailsInv ==
  ASSUME PushInv, StreamFails
  PROVE  PushInv' /\ RowsForward
  <1>1. PICK n \in 0..Len(up[stream]) : up' = [up EXCEPT ![stream] = SubSeq(@, 1, n)]
    BY DEF StreamFails
  <1>2. up' \in [1..MaxFailures + 1 -> Seq(Sound)]
    <2>1. CASE stream \in 1..MaxFailures + 1
      <3>1. SubSeq(up[stream], 1, n) \in Seq(Sound)
        BY <2>1 DEF PushInv
      <3>. QED  BY <1>1, <3>1 DEF PushInv
    <2>2. CASE stream \notin 1..MaxFailures + 1
      BY <1>1, <2>2 DEF PushInv
    <2>. QED  BY <2>1, <2>2
  <1>. QED  BY <1>2, QuietStep DEF StreamFails, serverVars

\* The diff has the last writes of now.
LEMMA OnReconnectInv ==
  ASSUME PushInv, OnReconnect
  PROVE  PushInv' /\ RowsForward
  <1>1. Tick \in Nat
    BY DEF PushInv, Tick
  <1>2. Promise \in Sound /\ RebuildMsg \in Sound
    BY <1>1 DEF Promise, RebuildMsg, Sound, Message
  <1>3. Diff \in Seq(Sound)
    <2>1. <<>> \in Seq(Sound) /\ <<RebuildMsg>> \in Seq(Sound)
      BY <1>2
    <2>2. <<Data({t \in LastWrites(Tick) : t > acked}, Tick)>> \in Seq(Sound)
      <3>1. {t \in LastWrites(Tick) : t > acked} \subseteq Nat
        BY <1>1 DEF LastWrites
      <3>2. Data({t \in LastWrites(Tick) : t > acked}, Tick) \in Sound
        BY <1>1, <3>1 DEF Data, Sound, Message
      <3>. QED  BY <3>2
    <2>. QED  BY <2>1, <2>2 DEF Diff
  <1>4. <<Promise>> \o Diff \in Seq(Sound)
    BY <1>2, <1>3
  <1>5. up' \in [1..MaxFailures + 1 -> Seq(Sound)]
    BY <1>4 DEF OnReconnect, PushInv
  <1>. QED  BY <1>5, QuietStep DEF OnReconnect, serverVars

\* A process reads the next message.
LEMMA ReadKeeps ==
  ASSUME PushInv, NEW s \in 1..MaxFailures + 1, up[s] # <<>>, Read(s)
  PROVE  up' \in [1..MaxFailures + 1 -> Seq(Sound)] /\ Head(up[s]) \in Sound
  <1>1. Tail(up[s]) \in Seq(Sound) /\ Head(up[s]) \in Sound
    BY DEF PushInv
  <1>. QED  BY <1>1 DEF PushInv, Read

\* A payload behind the watermark changes nothing; one ahead of it has, of the rows
\* it replaces, writes that are no older.
LEMMA AcceptsInv ==
  ASSUME PushInv, NEW s \in 1..MaxFailures + 1, Accepts(s)
  PROVE  PushInv' /\ RowsForward
  <1>. DEFINE m == Head(up[s])
  <1>1. up' \in [1..MaxFailures + 1 -> Seq(Sound)] /\ m \in Sound /\ written' = written
    BY ReadKeeps DEF Accepts, NextIs, clientVars
  <1>2. CASE m.check <= seen
    BY <1>1, <1>2, QuietStep DEF Accepts
  <1>3. CASE ~(m.check <= seen)
    <2>1. server' = Merged(m.ts) /\ seen' = m.check /\ m.kind = "data"
      BY <1>3 DEF Accepts, NextIs
    <2>2. m.check \in 0..Tick /\ m.ts \subseteq LastWrites(m.check)
      BY <1>1, <2>1 DEF Sound
    <2>3. Tick \in Nat /\ seen \in Nat /\ m.check > seen /\ Tick' = Tick /\ Sound' = Sound
      BY <1>1, <1>3, <2>2 DEF PushInv, Tick, Sound, LastWrites
    <2>4. m.ts \subseteq 1..m.check /\ server \subseteq 1..m.check
      BY <2>2, <2>3 DEF LastWrites, PushInv
    <2>5. PushInv'
      BY <1>1, <2>1, <2>2, <2>3, <2>4 DEF PushInv, Merged
    <2>6. ASSUME NEW t \in server
          PROVE  \E u \in server' : u >= t /\ written'[u] = written[t]
      <3>1. CASE \A u \in m.ts : written[u] # written[t]
        <4>1. t \in server' /\ t \in Nat
          BY <2>1, <2>4, <3>1 DEF Merged
        <4>. QED  BY <1>1, <4>1
      <3>2. CASE \E u \in m.ts : written[u] = written[t]
        <4>1. PICK u \in m.ts : written[u] = written[t]
          BY <3>2
        <4>2. u \in server'
          BY <2>1 DEF Merged
        <4>3. u \in LastWrites(m.check) /\ u \in 1..m.check /\ t \in 1..m.check
          BY <2>2, <2>4
        <4>4. u >= t
          BY <2>2, <2>3, <4>1, <4>3 DEF LastWrites
        <4>. QED  BY <1>1, <4>1, <4>2, <4>4
      <3>. QED  BY <3>1, <3>2
    <2>. QED  BY <2>5, <2>6 DEF RowsForward
  <1>. QED  BY <1>2, <1>3

\* Every step keeps the invariant and takes no row of the server back.
LEMMA StepInv ==
  ASSUME PushInv, [Next]_vars
  PROVE  PushInv' /\ (UNCHANGED vars \/ RowsForward)
  <1>1. CASE LocalWrite
    BY <1>1, LocalWriteInv
  <1>2. CASE SeedAck \/ ClientPurges \/ HearsAnswer \/ TailSaysReboot
    <2>1. UNCHANGED <<written, seen, server, up>>
      BY <1>2 DEF SeedAck, ClientPurges, HearsAnswer, TailSaysReboot, serverVars
    <2>2. up' \in [1..MaxFailures + 1 -> Seq(Sound)]
      BY <2>1 DEF PushInv
    <2>. QED  BY <2>1, <2>2, QuietStep
  <1>3. CASE StreamFails
    BY <1>3, StreamFailsInv
  <1>4. CASE OnReconnect
    BY <1>4, OnReconnectInv
  <1>5. ASSUME NEW s \in 1..MaxFailures + 1, Process(s)
        PROVE  PushInv' /\ RowsForward
    <2>1. CASE Accepts(s)
      BY <2>1, AcceptsInv
    <2>2. CASE ReadsPromise(s) \/ Refuses(s) \/ ReadsRebuild(s)
      <3>1. up[s] # <<>> /\ Read(s) /\ UNCHANGED <<written, seen, server>>
        BY <2>2 DEF ReadsPromise, Refuses, ReadsRebuild, NextIs, clientVars
      <3>. QED  BY <3>1, ReadKeeps, QuietStep
    <2>. QED  BY <1>5, <2>1, <2>2 DEF Process
  <1>6. CASE UNCHANGED vars
    <2>1. UNCHANGED <<written, seen, server, up>>
      BY <1>6 DEF vars, clientVars, serverVars
    <2>2. up' \in [1..MaxFailures + 1 -> Seq(Sound)]
      BY <2>1 DEF PushInv
    <2>. QED  BY <1>6, <2>1, <2>2, QuietStep
  <1>. QED  BY <1>1, <1>2, <1>3, <1>4, <1>5, <1>6 DEF Next

\* The payloads in flight and the server's watermark are as PushInv says
\* (establishLocalTail's diff, write-csv's watermark).
THEOREM PushInvariant == Spec => []PushInv
  <1>1. Init => PushInv
    BY InitInv
  <1>2. PushInv /\ [Next]_vars => PushInv'
    BY StepInv
  <1>. QED  BY <1>1, <1>2, PTL DEF Spec

\* However many streams fail, and although their processes read on next to their
\* successors, no row of the server goes back to an older write
\* (shouldShortCircuitUpdate in SqlCsv.sk).
THEOREM ServerNeverBack == Spec => ServerForward
  <1>1. PushInv /\ [Next]_vars => [RowsForward]_vars
    BY StepInv
  <1>. QED  BY <1>1, PushInvariant, PTL DEF Spec, ServerForward
-----------------------------------------------------------------------------
(* AckedIsApplied. *)

Streams == 1..MaxFailures + 1

\* A last write up to n is one up to anything in between.
LEMMA LastBetween ==
  ASSUME NEW n \in Nat, NEW k \in Nat, NEW t \in LastWrites(n), t <= k, k <= n
  PROVE  t \in LastWrites(k)
  BY DEF LastWrites

\* What is settled stays settled, for the server's rows only move forward.
LEMMA SettledStays ==
  ASSUME PushInv, PushInv', RowsForward, refused \subseteq refused',
         seeded \in Nat, seeded' \in Nat, seeded <= seeded',
         \A u \in 1..Tick : written'[u] = written[u]
  PROVE  \A t \in 1..Tick : Settled(t) => Settled(t)'
  <1>1. /\ Tick \in Nat /\ seen \in 0..Tick /\ server \subseteq 1..seen
        /\ Tick' \in Nat /\ seen' \in 0..Tick' /\ server' \subseteq 1..seen'
    BY DEF PushInv, Tick
  <1>2. ASSUME NEW t \in 1..Tick, OnServer(t)
        PROVE  OnServer(t)'
    <2>1. PICK u \in server : u >= t /\ written[u] = written[t]
      BY <1>2 DEF OnServer
    <2>2. PICK v \in server' : v >= u /\ written'[v] = written[u]
      BY <2>1 DEF RowsForward
    <2>3. u \in Nat /\ v \in Nat /\ v >= t
      BY <1>1, <2>1, <2>2
    <2>. QED  BY <2>1, <2>2, <2>3 DEF OnServer
  <1>. QED  BY <1>1, <1>2 DEF Settled

\* What every step but a write leaves of the last writes.
LEMMA SameWrites ==
  ASSUME UNCHANGED written
  PROVE  Tick' = Tick /\ \A n : LastWrites(n)' = LastWrites(n)
  BY DEF Tick, LastWrites

\* A last write up to n is a write up to n.
LEMMA LastWritesIn ==
  ASSUME NEW n \in Nat, NEW t \in LastWrites(n)
  PROVE  t \in 1..n
  BY DEF LastWrites

\* What is in flight, as AckInv needs it.
LEMMA InFlightTypes ==
  ASSUME AckInv
  PROVE  /\ MaxFailures \in Nat /\ Tick \in Nat /\ seen \in 0..Tick /\ acked \in 0..Tick
         /\ seeded \in 0..Tick /\ written \in Seq(Rows)
         /\ \A s \in Streams : up[s] \in Seq(Sound) /\ Len(up[s]) \in Nat
         /\ \A s \in Streams : \A i \in DOMAIN up[s] :
              /\ i \in 1..Len(up[s]) /\ up[s][i] \in Sound
              /\ up[s][i].kind = "data" => /\ up[s][i].check \in 0..Tick
                                           /\ up[s][i].ts \subseteq LastWrites(up[s][i].check)
              /\ up[s][i].kind \in {"promise", "data", "rebuild"}
  <1>1. Tick \in Nat /\ seen \in 0..Tick /\ acked \in 0..Tick /\ seeded \in 0..Tick
    BY DEF AckInv, PushInv, StreamsOpen, Tick
  <1>2. \A s \in Streams : up[s] \in Seq(Sound)
    BY DEF AckInv, PushInv, Streams
  <1>3. \A s \in Streams : \A i \in DOMAIN up[s] : up[s][i] \in Sound
    BY <1>2
  <1>4. \A m \in Sound : /\ m.kind \in {"promise", "data", "rebuild"}
                         /\ m.kind = "data" => m.check \in 0..Tick /\ m.ts \subseteq LastWrites(m.check)
    BY DEF Sound, Message
  <1>5. MaxFailures \in Nat /\ written \in Seq(Rows)
    BY LocalTailBounds DEF AckInv, PushInv
  <1>6. \A s \in Streams : Len(up[s]) \in Nat /\ DOMAIN up[s] = 1..Len(up[s])
    BY <1>2
  <1>. QED  BY <1>1, <1>2, <1>3, <1>4, <1>5, <1>6

\* Covered survives every step, at a bound that does not move.
LEMMA CoveredStays ==
  ASSUME PushInv, \A t \in 1..Tick : Settled(t) => Settled(t)', NEW n \in 0..Tick,
         LastWrites(n)' = LastWrites(n), Covered(n)
  PROVE  \A t \in LastWrites(n)' : Settled(t)'
  <1>1. Tick \in Nat
    BY DEF PushInv, Tick
  <1>2. \A t \in LastWrites(n) : t \in 1..Tick
    BY <1>1, LastWritesIn
  <1>. QED  BY <1>2 DEF Covered

\* A process reads a message: what it settles is no longer in flight, and what it
\* skips was settled before.
LEMMA ReadStep ==
  ASSUME AckInv, PushInv', RowsForward, refused \subseteq refused',
         UNCHANGED <<written, acked, seeded, stream, streams, rebooted>>,
         NEW s \in Streams, up[s] # <<>>, Read(s), NEW m, m = Head(up[s]),
         running' \subseteq running \cup {s}, s \in running' => m.kind # "rebuild",
         m.kind = "promise" \/ s \in running,
         seen' = seen \/ (seen' = m.check /\ m.kind = "data" /\ m.check > seen),
         \A t \in m.ts : Settled(t)' \/ (m.check <= seen /\ seen' = seen)
  PROVE  StreamsOpen' /\ PayloadsCover' /\ CurrentCovers' /\ CurrentIsLast'
  <1>1. /\ Tick \in Nat /\ seen \in 0..Tick /\ seeded \in 0..Tick
        /\ \A r \in Streams : up[r] \in Seq(Sound) /\ Len(up[r]) \in Nat
        /\ \A r \in Streams : \A i \in DOMAIN up[r] :
             /\ i \in 1..Len(up[r])
             /\ up[r][i].kind = "data" => /\ up[r][i].check \in 0..Tick
                                          /\ up[r][i].ts \subseteq LastWrites(up[r][i].check)
    BY InFlightTypes
  <1>2. /\ \A r \in Streams : r # s => up'[r] = up[r]
        /\ up'[s] = Tail(up[s]) /\ up[s] \in Seq(Sound)
    BY <1>1 DEF Read, AckInv, PushInv, Streams
  <1>3. /\ Len(up[s]) \in Nat \ {0} /\ m = up[s][1] /\ 1 \in DOMAIN up[s]
        /\ DOMAIN up[s] = 1..Len(up[s]) /\ Len(up'[s]) = Len(up[s]) - 1
        /\ DOMAIN up'[s] = 1..Len(up[s]) - 1
        /\ \A i \in DOMAIN up'[s] : i \in Nat /\ i + 1 \in DOMAIN up[s] /\ up'[s][i] = up[s][i + 1]
        /\ \A i \in DOMAIN up[s] : i = 1 \/ (i - 1 \in DOMAIN up'[s] /\ up[s][i] = up'[s][i - 1])
    BY <1>2
  <1>4. Tick' = Tick /\ \A n : LastWrites(n)' = LastWrites(n)
    BY SameWrites
  <1>5. \A t \in 1..Tick : Settled(t) => Settled(t)'
    BY <1>1, SettledStays DEF AckInv
  <1>6. seen' \in 0..Tick /\ seen <= seen'
    BY <1>1, <1>3
  <1>7. /\ \A i \in DOMAIN up'[s] : up'[s][i].kind # "promise"
        /\ \A i \in DOMAIN up'[s] : up'[s][i].kind # "data" => up'[s][i].ts = {}
    <2>1. \A i \in DOMAIN up[s] : up[s][i].kind = "promise" => i = 1
      BY DEF AckInv, StreamsOpen, Streams
    <2>2. \A i \in DOMAIN up[s] : up[s][i].kind # "data" => up[s][i].ts = {}
      BY DEF AckInv, StreamsOpen, Streams
    <2>3. \A i \in DOMAIN up'[s] : i + 1 # 1 /\ i + 1 \in DOMAIN up[s] /\ up'[s][i] = up[s][i + 1]
      BY <1>3
    <2>. QED  BY <2>1, <2>2, <2>3
  <1>8. StreamsOpen'
    <2>1. ~(s > streams)
      BY <1>3 DEF AckInv, StreamsOpen, Streams
    <2>2. ASSUME NEW r \in Streams
          PROVE  /\ r > streams => up'[r] = <<>> /\ r \notin running'
                 /\ \A i \in DOMAIN up'[r] :
                      /\ up'[r][i].kind = "promise" => i = 1 /\ r \notin running'
                      /\ up'[r][i].kind # "data" => up'[r][i].ts = {}
      <3>1. CASE r = s
        BY <1>7, <2>1, <3>1
      <3>2. CASE r # s
        BY <1>2, <3>2 DEF AckInv, StreamsOpen, Streams
      <3>. QED  BY <3>1, <3>2
    <2>. QED  BY <1>4, <2>2 DEF AckInv, StreamsOpen, Streams
  <1>9. ASSUME NEW r \in Streams, r # s, NEW i \in 1..Len(up[r]), Reads(r, i)'
        PROVE  Reads(r, i)
    BY <1>2, <1>9 DEF Reads, NextIs
  <1>10. ASSUME NEW i \in 0..Len(up'[s]), Reads(s, i)'
         PROVE  Reads(s, i + 1) /\ s \in running'
    <2>1. ~NextIs(s, "promise")'
      <3>1. up'[s] # <<>> => 1 \in DOMAIN up'[s] /\ Head(up'[s]) = up'[s][1]
        BY <1>2, <1>3
      <3>. QED  BY <1>7, <3>1 DEF NextIs
    <2>2. s \in running' /\ m.kind # "rebuild" /\ \A j \in 1..i : up'[s][j].kind # "rebuild"
      BY <1>10, <2>1 DEF Reads
    <2>3. s \in running \/ NextIs(s, "promise")
      BY DEF NextIs
    <2>4. \A j \in 1..(i + 1) : up[s][j].kind # "rebuild"
      <3>1. \A j \in 1..(i + 1) : j = 1 \/ (j - 1 \in 1..i /\ up[s][j] = up'[s][j - 1])
        BY <1>3
      <3>. QED  BY <1>3, <2>2, <3>1
    <2>. QED  BY <2>2, <2>3, <2>4 DEF Reads
  <1>11. ASSUME NEW k \in 0..Tick, seen' <= k, NEW t \in LastWrites(k), NEW i \in 0..Len(up'[s]),
                Settled(t) \/ InFlight(s, i + 1, t)
         PROVE  Settled(t)' \/ InFlight(s, i, t)'
    <2>1. t \in 1..k /\ t \in 1..Tick
      BY <1>1, LastWritesIn
    <2>2. CASE Settled(t)
      BY <1>5, <2>1, <2>2
    <2>3. CASE InFlight(s, i + 1, t)
      <3>1. PICK j \in 1..(i + 1) : t \in up[s][j].ts
        BY <2>3 DEF InFlight
      <3>2. CASE j # 1
        <4>1. j - 1 \in 1..i /\ j \in 1..Len(up[s])
          <5>1. i \in Nat /\ i <= Len(up[s]) - 1
            BY <1>3
          <5>. QED  BY <1>3, <3>2, <5>1
        <4>2. up[s][j] = up'[s][j - 1]
          BY <1>3, <3>2, <4>1
        <4>. QED  BY <3>1, <4>1, <4>2 DEF InFlight
      <3>3. CASE j = 1
        <4>1. t \in m.ts
          BY <1>3, <3>1, <3>3
        <4>2. CASE m.check <= seen /\ seen' = seen
          <5>1. m.kind = "data"
            BY <1>3, <4>1 DEF AckInv, StreamsOpen, Streams
          <5>2. t \in LastWrites(m.check) /\ m.check \in 0..Tick
            BY <1>1, <1>3, <4>1, <5>1
          <5>3. t \in 1..m.check
            BY <5>2, LastWritesIn
          <5>4. t \in LastWrites(seen)
            BY <1>1, <1>11, <4>2, <5>2, <5>3, LastBetween
          <5>. QED  BY <1>5, <2>1, <5>4 DEF AckInv, Covered
        <4>. QED  BY <4>1, <4>2
      <3>. QED  BY <3>2, <3>3
    <2>. QED  BY <1>11, <2>2, <2>3
  <1>12. PayloadsCover'
    <2>1. ASSUME NEW r \in Streams, NEW i \in DOMAIN up'[r], Reads(r, i)', up'[r][i].kind = "data",
                 seen' <= up'[r][i].check, NEW t \in LastWrites(up'[r][i].check)
          PROVE  Settled(t)' \/ InFlight(r, i, t)'
      <3>1. CASE r # s
        <4>1. up'[r] = up[r] /\ i \in DOMAIN up[r] /\ i \in 1..Len(up[r]) /\ up[r][i].check \in 0..Tick
          BY <1>1, <1>2, <2>1, <3>1
        <4>2. Reads(r, i) /\ seen <= up[r][i].check
          BY <1>1, <1>6, <1>9, <2>1, <3>1, <4>1
        <4>3. Settled(t) \/ InFlight(r, i, t)
          BY <2>1, <4>1, <4>2 DEF AckInv, PayloadsCover, Streams
        <4>4. t \in 1..Tick
          BY <1>1, <2>1, <4>1, LastWritesIn
        <4>. QED  BY <1>5, <4>1, <4>3, <4>4 DEF InFlight
      <3>2. CASE r = s
        <4>1. /\ i \in 0..Len(up'[s]) /\ i + 1 \in DOMAIN up[s] /\ up'[s][i] = up[s][i + 1]
              /\ up[s][i + 1].check \in 0..Tick
          BY <1>1, <1>3, <2>1, <3>2
        <4>2. Reads(s, i + 1) /\ seen <= up[s][i + 1].check
          BY <1>1, <1>6, <1>10, <2>1, <3>2, <4>1
        <4>3. Settled(t) \/ InFlight(s, i + 1, t)
          BY <2>1, <3>2, <4>1, <4>2 DEF AckInv, PayloadsCover, Streams
        <4>. QED  BY <1>11, <2>1, <3>2, <4>1, <4>3
      <3>. QED  BY <3>1, <3>2
    <2>. QED  BY <1>4, <2>1 DEF PayloadsCover, Streams
  <1>13. CurrentCovers'
    <2> SUFFICES ASSUME stream # 0, Reads(stream, Len(up[stream]))', NEW t \in LastWrites(Tick)
                 PROVE  Settled(t)' \/ InFlight(stream, Len(up[stream]), t)'
      BY <1>4 DEF CurrentCovers
    <2>1. stream \in Streams
      BY DEF AckInv, StreamsOpen, Streams
    <2>2. PICK n : n = Len(up'[stream])
      OBVIOUS
    <2>3. Reads(stream, n)' /\ (InFlight(stream, n, t)' => InFlight(stream, Len(up[stream]), t)')
      BY <2>2 DEF Reads, InFlight, NextIs
    <2>4. CASE stream # s
      <3>1. up'[stream] = up[stream] /\ n = Len(up[stream]) /\ n \in Nat
        BY <1>1, <1>2, <2>1, <2>2, <2>4
      <3>2. Reads(stream, n)
        BY <2>3, <2>4, <3>1 DEF Reads, NextIs
      <3>3. Settled(t) \/ InFlight(stream, n, t)
        BY <3>1, <3>2 DEF AckInv, CurrentCovers
      <3>4. t \in 1..Tick
        BY <1>1, LastWritesIn
      <3>5. InFlight(stream, n, t) => InFlight(stream, n, t)'
        BY <3>1 DEF InFlight
      <3>. QED  BY <1>5, <2>3, <3>3, <3>4, <3>5
    <2>5. CASE stream = s
      <3>1. n \in 0..Len(up'[s]) /\ n + 1 = Len(up[s])
        BY <1>3, <2>2, <2>5
      <3>2. Reads(s, n)'
        BY <2>3, <2>5 DEF Reads, NextIs
      <3>3. Reads(s, n + 1)
        BY <1>10, <3>1, <3>2
      <3>4. Settled(t) \/ InFlight(s, n + 1, t)
        BY <2>5, <3>1, <3>3 DEF AckInv, CurrentCovers
      <3>5. Settled(t)' \/ InFlight(s, n, t)'
        BY <1>1, <1>6, <1>11, <3>1, <3>4
      <3>6. InFlight(s, n, t)' => InFlight(stream, n, t)'
        BY <2>5 DEF InFlight
      <3>. QED  BY <2>3, <3>5, <3>6
    <2>. QED  BY <2>4, <2>5
  <1>14. CurrentIsLast'
    <2>1. ASSUME stream # 0, NEW j \in DOMAIN up'[stream], up'[stream][j].kind = "data"
          PROVE  /\ seen' <= up'[stream][j].check
                 /\ \A r \in Streams : \A i \in DOMAIN up'[r] :
                      up'[r][i].kind = "data" /\ (r # stream \/ i <= j)
                        => up'[r][i].check <= up'[stream][j].check
      <3>1. stream \in Streams
        BY <2>1 DEF AckInv, StreamsOpen, Streams
      <3>2. PICK k \in DOMAIN up[stream] :
              /\ k = (IF stream = s THEN j + 1 ELSE j) /\ up[stream][k] = up'[stream][j]
        <4>1. CASE stream = s
          BY <1>3, <2>1, <4>1
        <4>2. CASE stream # s
          BY <1>2, <2>1, <3>1, <4>2
        <4>. QED  BY <4>1, <4>2
      <3>3. /\ seen <= up[stream][k].check
            /\ \A r \in Streams : \A i \in DOMAIN up[r] :
                 up[r][i].kind = "data" /\ (r # stream \/ i <= k)
                   => up[r][i].check <= up[stream][k].check
        BY <2>1, <3>2 DEF AckInv, CurrentIsLast, Streams
      <3>4. seen' <= up'[stream][j].check
        <4>1. CASE seen' = seen
          BY <3>2, <3>3, <4>1
        <4>2. CASE seen' = m.check /\ m.kind = "data"
          <5>1. s # stream \/ 1 <= k
            BY <1>1, <3>1, <3>2
          <5>. QED  BY <1>3, <3>2, <3>3, <4>2, <5>1
        <4>. QED  BY <4>1, <4>2
      <3>5. ASSUME NEW r \in Streams, NEW i \in DOMAIN up'[r], up'[r][i].kind = "data",
                   r # stream \/ i <= j
            PROVE  up'[r][i].check <= up'[stream][j].check
        <4>1. PICK h \in DOMAIN up[r] : h = (IF r = s THEN i + 1 ELSE i) /\ up[r][h] = up'[r][i]
          <5>1. CASE r = s
            BY <1>3, <3>5, <5>1
          <5>2. CASE r # s
            BY <1>2, <3>5, <5>2
          <5>. QED  BY <5>1, <5>2
        <4>2. r # stream \/ h <= k
          <5>1. h \in Nat /\ k \in Nat
            BY <1>1, <3>1, <3>2, <4>1
          <5>2. CASE r = stream /\ r = s
            <6>1. j \in Nat /\ i \in Nat
              BY <1>3, <2>1, <3>5, <5>2
            <6>. QED  BY <3>2, <3>5, <4>1, <5>2, <6>1
          <5>. QED  BY <3>2, <3>5, <4>1, <5>1, <5>2
        <4>. QED  BY <3>2, <3>3, <3>5, <4>1, <4>2
      <3>. QED  BY <3>4, <3>5
    <2>. QED  BY <2>1 DEF CurrentIsLast, Streams
  <1>. QED  BY <1>8, <1>12, <1>13, <1>14

\* An answer of the server.
AnswerSet == [kind : {"ack", "nack", "reboot"}, ts : SUBSET Nat, check : 0..Tick]

\* The answers on their way.
LEMMA AnswerTypes ==
  ASSUME AckInv
  PROVE  down \in Seq(AnswerSet) /\ \A a \in {down[i] : i \in DOMAIN down} : a.check \in 0..Tick
  <1>1. down \in Seq(AnswerSet)
    BY DEF AckInv, AnswersCovered, AnswerSet
  <1>2. \A i \in DOMAIN down : down[i] \in AnswerSet
    BY <1>1
  <1>. QED  BY <1>1, <1>2 DEF AnswerSet

\* What is covered stays covered.
LEMMA CoversStay ==
  ASSUME AckInv, PushInv', RowsForward, refused \subseteq refused',
         UNCHANGED <<written, seeded>>
  PROVE  \A n \in 0..Tick : Covered(n) => Covered(n)'
  <1>1. Tick \in Nat /\ seeded \in 0..Tick
    BY InFlightTypes
  <1>2. \A t \in 1..Tick : Settled(t) => Settled(t)'
    BY <1>1, SettledStays DEF AckInv
  <1>3. \A n : LastWrites(n)' = LastWrites(n)
    BY SameWrites
  <1>4. \A n \in 0..Tick : \A t \in LastWrites(n) : t \in 1..Tick
    BY <1>1, LastWritesIn
  <1>. QED  BY <1>2, <1>3, <1>4 DEF Covered

\* What a process says is true, or is heard by nobody.
LEMMA AnswersInv ==
  ASSUME AckInv, PushInv', RowsForward, refused \subseteq refused',
         UNCHANGED <<written, seeded, stream>>, NEW s, NEW said \in Seq(AnswerSet), Answers(s, said),
         s = stream => \A i \in DOMAIN said : Covered(said[i].check)'
  PROVE  AnswersCovered'
  <1>1. Tick \in Nat /\ Tick' = Tick
    BY InFlightTypes, SameWrites
  <1>2. \A n \in 0..Tick : Covered(n) => Covered(n)'
    BY CoversStay
  <1>3. down \in Seq(AnswerSet) /\ AnswerSet' = AnswerSet
    BY <1>1 DEF AckInv, AnswersCovered, AnswerSet
  <1>4. \A i \in DOMAIN down : Covered(down[i].check) /\ down[i].check \in 0..Tick
    <2>1. \A i \in DOMAIN down : down[i] \in AnswerSet
      BY <1>3
    <2>. QED  BY <2>1 DEF AckInv, AnswersCovered, AnswerSet
  <1>5. Answer("reboot", {}, 0) \in AnswerSet /\ Answer("reboot", {}, 0).check = 0
    BY <1>1 DEF Answer, AnswerSet
  <1>6. Covered(0) /\ 0 \in 0..Tick
    BY <1>1 DEF Covered, LastWrites
  <1>7. PICK all \in Seq(AnswerSet) :
          /\ down' = IF s = stream THEN down \o all ELSE down
          /\ s = stream => \A i \in DOMAIN all : Covered(all[i].check)'
    <2>1. CASE rsError
      <3>1. Append(said, Answer("reboot", {}, 0)) \in Seq(AnswerSet)
        BY <1>5
      <3>2. \A i \in DOMAIN Append(said, Answer("reboot", {}, 0)) :
              \/ Append(said, Answer("reboot", {}, 0))[i].check = 0
              \/ i \in DOMAIN said /\ Append(said, Answer("reboot", {}, 0))[i] = said[i]
        BY <1>5
      <3>3. Covered(0)'
        BY <1>2, <1>6
      <3>4. s = stream => \A i \in DOMAIN Append(said, Answer("reboot", {}, 0)) :
                            Covered(Append(said, Answer("reboot", {}, 0))[i].check)'
        BY <3>2, <3>3 DEF Covered
      <3>. QED  BY <2>1, <3>1, <3>4 DEF Answers
    <2>2. CASE ~rsError
      BY <2>2 DEF Answers
    <2>. QED  BY <2>1, <2>2
  <1>8. down' \in Seq(AnswerSet)
    BY <1>3, <1>7
  <1>9. ASSUME NEW a \in {down'[i] : i \in DOMAIN down'}
        PROVE  Covered(a.check)'
    <2>1. PICK i \in DOMAIN down' : a = down'[i]
      OBVIOUS
    <2>2. CASE i \in DOMAIN down /\ a = down[i]
      BY <1>2, <1>4, <2>2
    <2>3. CASE s = stream /\ ~(i \in DOMAIN down /\ a = down[i])
      <3>1. PICK k \in DOMAIN all : a = all[k]
        <4>1. down' = down \o all /\ Len(down) \in Nat /\ Len(all) \in Nat
          BY <1>3, <1>7, <2>3
        <4>2. i \in 1..Len(down) + Len(all) /\ DOMAIN down = 1..Len(down) /\ DOMAIN all = 1..Len(all)
          BY <1>3, <2>1, <4>1
        <4>3. i > Len(down)
          BY <1>3, <2>1, <2>3, <4>1, <4>2
        <4>4. i - Len(down) \in DOMAIN all /\ a = all[i - Len(down)]
          BY <1>3, <2>1, <4>1, <4>2, <4>3
        <4>. QED  BY <4>4
      <3>. QED  BY <1>7, <2>3, <3>1
    <2>. QED  BY <1>7, <2>1, <2>2, <2>3
  <1>. QED  BY <1>1, <1>3, <1>8, <1>9 DEF AnswersCovered, AnswerSet

\* Accepts: the first payload of the stream covers its checkpoint, or was seen.
LEMMA AcceptsAck ==
  ASSUME AckInv, PushInv', RowsForward, NEW s \in Streams, Accepts(s)
  PROVE  AckInv'
  <1>0. PICK m : m = Head(up[s])
    OBVIOUS
  <1>1. /\ up[s] # <<>> /\ m.kind = "data" /\ s \in running /\ Read(s)
        /\ Answers(s, <<Answer("ack", {}, m.check)>>)
        /\ UNCHANGED <<written, acked, seeded, stream, streams, rebooted, refused>>
    BY <1>0 DEF Accepts, NextIs, clientVars
  <1>2. \/ m.check <= seen /\ UNCHANGED <<server, seen>>
        \/ ~(m.check <= seen) /\ server' = Merged(m.ts) /\ seen' = m.check
    BY <1>0 DEF Accepts
  <1>3. Tick \in Nat /\ seen \in 0..Tick /\ acked \in 0..Tick /\ Tick' = Tick
    BY <1>1, InFlightTypes, SameWrites
  <1>4. m = up[s][1] /\ 1 \in DOMAIN up[s]
    BY <1>0, <1>1, InFlightTypes
  <1>5. m.check \in 0..Tick /\ m.ts \subseteq LastWrites(m.check)
    BY <1>1, <1>4, InFlightTypes
  <1>6. running' \subseteq running \cup {s}
    BY <1>1 DEF Answers
  <1>7. \A t \in m.ts : Settled(t)' \/ (m.check <= seen /\ seen' = seen)
    <2>1. ASSUME NEW t \in m.ts, server' = Merged(m.ts)
          PROVE  Settled(t)'
      <3>1. t \in server' /\ t \in Nat
        BY <1>5, <2>1, LastWritesIn DEF Merged
      <3>. QED  BY <1>1, <3>1 DEF Settled, OnServer
    <2>. QED  BY <1>2, <2>1
  <1>8. StreamsOpen' /\ PayloadsCover' /\ CurrentCovers' /\ CurrentIsLast'
    <2>1. seen' = seen \/ (seen' = m.check /\ m.kind = "data" /\ m.check > seen)
      BY <1>1, <1>2, <1>3, <1>5
    <2>. QED  BY <1>0, <1>1, <1>6, <1>7, <2>1, ReadStep
  <1>9. \A n \in 0..Tick : Covered(n) => Covered(n)'
    BY <1>1, CoversStay
  <1>10. seen <= m.check => Covered(m.check)'
    <2>1. CASE seen = m.check /\ seen' = seen
      BY <1>9, <1>3, <2>1 DEF AckInv
    <2>2. CASE ~(m.check <= seen)
      <3>1. Reads(s, 1)
        BY <1>1, <1>4 DEF Reads
      <3>2. \A t \in LastWrites(m.check) : Settled(t) \/ InFlight(s, 1, t)
        BY <1>1, <1>3, <1>4, <1>5, <2>2, <3>1 DEF AckInv, PayloadsCover, Streams
      <3>3. \A t \in LastWrites(m.check) : Settled(t) \/ t \in m.ts
        BY <1>4, <3>2 DEF InFlight
      <3>4. \A t \in LastWrites(m.check) : t \in 1..Tick
        BY <1>3, <1>5, LastWritesIn
      <3>5. seeded \in Nat
        BY InFlightTypes
      <3>6. \A t \in 1..Tick : Settled(t) => Settled(t)'
        BY <1>1, <3>5, SettledStays DEF AckInv
      <3>7. \A t \in m.ts : Settled(t)'
        BY <1>2, <1>7, <2>2
      <3>8. \A n : LastWrites(n)' = LastWrites(n)
        BY <1>1, SameWrites
      <3>. QED  BY <3>3, <3>4, <3>6, <3>7, <3>8 DEF Covered
    <2>. QED  BY <1>2, <1>3, <1>5, <2>1, <2>2
  <1>11. Covered(seen)'
    <2>1. CASE seen' = seen
      BY <1>9, <1>3, <2>1 DEF AckInv, Covered, LastWrites
    <2>2. CASE ~(m.check <= seen) /\ seen' = m.check
      BY <1>3, <1>5, <1>10, <2>2 DEF Covered, LastWrites
    <2>. QED  BY <1>2, <2>1, <2>2
  <1>12. Covered(acked)'
    BY <1>1, <1>3, <1>9 DEF AckInv, Covered, LastWrites
  <1>13. AnswersCovered'
    <2> DEFINE said == <<Answer("ack", {}, m.check)>>
    <2>1. said \in Seq(AnswerSet) /\ DOMAIN said = {1} /\ said[1].check = m.check
      BY <1>5 DEF Answer, AnswerSet
    <2>2. s = stream => seen <= m.check
      BY <1>1, <1>4 DEF AckInv, CurrentIsLast, StreamsOpen, Streams
    <2>3. s = stream => \A i \in DOMAIN said : Covered(said[i].check)'
      BY <1>10, <2>1, <2>2
    <2>. QED  BY <1>1, <2>1, <2>3, AnswersInv
  <1>. QED  BY <1>8, <1>11, <1>12, <1>13 DEF AckInv

\* Refuses: the payload's writes are refused, the others it covers were settled.
LEMMA RefusesAck ==
  ASSUME AckInv, PushInv', RowsForward, NEW s \in Streams, Refuses(s)
  PROVE  AckInv'
  <1>0. PICK m : m = Head(up[s])
    OBVIOUS
  <1>1. /\ up[s] # <<>> /\ m.kind = "data" /\ s \in running /\ Read(s) /\ m.check > seen
        /\ Answers(s, <<Answer("nack", m.ts, m.check)>>) /\ refused' = refused \cup m.ts
        /\ UNCHANGED <<written, acked, seeded, stream, streams, rebooted, seen>>
    BY <1>0 DEF Refuses, NextIs, clientVars
  <1>2. Tick \in Nat /\ seen \in 0..Tick /\ acked \in 0..Tick /\ Tick' = Tick
    BY <1>1, InFlightTypes, SameWrites
  <1>3. m = up[s][1] /\ 1 \in DOMAIN up[s]
    BY <1>0, <1>1, InFlightTypes
  <1>4. m.check \in 0..Tick /\ m.ts \subseteq LastWrites(m.check)
    BY <1>1, <1>3, InFlightTypes
  <1>5. running' \subseteq running \cup {s}
    BY <1>1 DEF Answers
  <1>6. \A t \in m.ts : Settled(t)'
    BY <1>1 DEF Settled
  <1>7. StreamsOpen' /\ PayloadsCover' /\ CurrentCovers' /\ CurrentIsLast'
    BY <1>0, <1>1, <1>5, <1>6, ReadStep
  <1>8. \A n \in 0..Tick : Covered(n) => Covered(n)'
    BY <1>1, CoversStay
  <1>9. Covered(m.check)'
    <2>1. Reads(s, 1)
      BY <1>1, <1>3 DEF Reads
    <2>2. \A t \in LastWrites(m.check) : Settled(t) \/ InFlight(s, 1, t)
      BY <1>1, <1>2, <1>3, <1>4, <2>1 DEF AckInv, PayloadsCover, Streams
    <2>3. \A t \in LastWrites(m.check) : Settled(t) \/ t \in m.ts
      BY <1>3, <2>2 DEF InFlight
    <2>4. \A t \in LastWrites(m.check) : t \in 1..Tick
      BY <1>2, <1>4, LastWritesIn
    <2>5. seeded \in Nat
      BY InFlightTypes
    <2>6. \A t \in 1..Tick : Settled(t) => Settled(t)'
      BY <1>1, <2>5, SettledStays DEF AckInv
    <2>7. \A n : LastWrites(n)' = LastWrites(n)
      BY <1>1, SameWrites
    <2>. QED  BY <1>6, <2>3, <2>4, <2>6, <2>7 DEF Covered
  <1>10. Covered(acked)' /\ Covered(seen)'
    BY <1>1, <1>2, <1>8 DEF AckInv, Covered, LastWrites
  <1>11. AnswersCovered'
    <2> DEFINE said == <<Answer("nack", m.ts, m.check)>>
    <2>1. m.ts \subseteq Nat
      BY <1>4, LastWritesIn
    <2>2. said \in Seq(AnswerSet) /\ DOMAIN said = {1} /\ said[1].check = m.check
      BY <1>4, <2>1 DEF Answer, AnswerSet
    <2>3. s = stream => \A i \in DOMAIN said : Covered(said[i].check)'
      BY <1>9, <2>2
    <2>. QED  BY <1>1, <2>2, <2>3, AnswersInv
  <1>. QED  BY <1>7, <1>10, <1>11 DEF AckInv

\* A promise or a rebuild is read: no write is in it.
LEMMA ReadsOtherAck ==
  ASSUME AckInv, PushInv', RowsForward, NEW s \in Streams, ReadsPromise(s) \/ ReadsRebuild(s)
  PROVE  AckInv'
  <1>0. PICK m : m = Head(up[s])
    OBVIOUS
  <1>1. /\ up[s] # <<>> /\ m.kind # "data" /\ Read(s)
        /\ UNCHANGED <<written, acked, seeded, stream, streams, rebooted, seen, refused>>
    BY <1>0 DEF ReadsPromise, ReadsRebuild, NextIs, clientVars
  <1>2. running' \subseteq running \cup {s} /\ (s \in running' => m.kind # "rebuild")
        /\ (m.kind = "promise" \/ s \in running)
    BY <1>0 DEF ReadsPromise, ReadsRebuild, Answers, NextIs
  <1>3. Tick \in Nat /\ seen \in 0..Tick /\ acked \in 0..Tick
    BY InFlightTypes
  <1>4. m.ts = {}
    <2>1. m = up[s][1] /\ 1 \in DOMAIN up[s]
      BY <1>0, <1>1, InFlightTypes
    <2>. QED  BY <1>1, <2>1 DEF AckInv, StreamsOpen, Streams
  <1>5. StreamsOpen' /\ PayloadsCover' /\ CurrentCovers' /\ CurrentIsLast'
    <2>1. \A t \in m.ts : Settled(t)'
      BY <1>4
    <2>. QED  BY <1>0, <1>1, <1>2, <2>1, ReadStep
  <1>6. \A n \in 0..Tick : Covered(n) => Covered(n)'
    BY <1>1, CoversStay
  <1>7. Covered(acked)' /\ Covered(seen)'
    BY <1>1, <1>3, <1>6 DEF AckInv, Covered, LastWrites
  <1>8. AnswersCovered'
    <2>1. CASE ReadsPromise(s)
      <3>1. Answers(s, <<>>) /\ <<>> \in Seq(AnswerSet) /\ DOMAIN <<>> = {}
        BY <2>1 DEF ReadsPromise
      <3>. QED  BY <1>1, <3>1, AnswersInv
    <2>2. CASE ReadsRebuild(s)
      <3>1. down' = down /\ Tick' = Tick
        BY <1>1, <2>2, SameWrites DEF ReadsRebuild
      <3>. QED  BY <1>6, <3>1, AnswerTypes DEF AckInv, AnswersCovered
    <2>. QED  BY <2>1, <2>2
  <1>. QED  BY <1>5, <1>7, <1>8 DEF AckInv

\* A client's step that sends nothing: what is in flight still covers.
LEMMA QuietAck ==
  ASSUME AckInv, PushInv', RowsForward,
         UNCHANGED <<written, up, running, seen, refused, streams>>,
         seeded' \in 0..Tick, seeded <= seeded', stream' \in {0, stream}, acked' \in 0..Tick,
         stream' = 0 /\ ~rebooted' => stream = 0 /\ ~rebooted
  PROVE  /\ StreamsOpen' /\ PayloadsCover' /\ CurrentCovers' /\ CurrentIsLast' /\ Covered(seen)'
         /\ \A n \in 0..Tick : Covered(n) => Covered(n)'
         /\ Tick' = Tick /\ Tick \in Nat /\ acked \in 0..Tick
  <1>1. /\ Tick \in Nat /\ seen \in 0..Tick /\ seeded \in 0..Tick /\ acked \in 0..Tick
        /\ \A r \in Streams : \A i \in DOMAIN up[r] : up[r][i].kind = "data" => up[r][i].check \in 0..Tick
    BY InFlightTypes
  <1>2. Tick' = Tick /\ \A n : LastWrites(n)' = LastWrites(n)
    BY SameWrites
  <1>3. \A t \in 1..Tick : Settled(t) => Settled(t)'
    BY <1>1, SettledStays DEF AckInv
  <1>4. \A n \in 0..Tick : \A t \in LastWrites(n) : t \in 1..Tick
    BY <1>1, LastWritesIn
  <1>5. \A n \in 0..Tick : Covered(n) => Covered(n)'
    BY <1>2, <1>3, <1>4 DEF Covered
  <1>6. Covered(seen)'
    BY <1>1, <1>5 DEF AckInv, Covered, LastWrites
  <1>7. StreamsOpen'
    BY <1>1, <1>2 DEF AckInv, StreamsOpen
  <1>8. \A s, i : Reads(s, i)' = Reads(s, i)
    BY DEF Reads, NextIs
  <1>9. \A s, i, t : InFlight(s, i, t)' = InFlight(s, i, t)
    BY DEF InFlight
  <1>10. PayloadsCover'
    BY <1>1, <1>2, <1>3, <1>4, <1>8, <1>9 DEF AckInv, PayloadsCover, Streams
  <1>11. CurrentCovers'
    <2>1. CASE stream' = 0
      BY <2>1 DEF CurrentCovers
    <2>2. CASE stream' = stream
      <3>1. Len(up[stream])' = Len(up[stream])
        BY <2>2
      <3>2. Reads(stream, Len(up[stream]))' => Reads(stream, Len(up[stream]))
        BY <2>2 DEF Reads, NextIs
      <3>3. \A t : InFlight(stream, Len(up[stream]), t) => InFlight(stream, Len(up[stream]), t)'
        BY <2>2 DEF InFlight
      <3>. QED  BY <1>1, <1>2, <1>3, <1>4, <2>2, <3>2, <3>3 DEF AckInv, CurrentCovers
    <2>. QED  BY <2>1, <2>2
  <1>12. CurrentIsLast'
    BY DEF AckInv, CurrentIsLast
  <1>. QED  BY <1>1, <1>2, <1>5, <1>6, <1>7, <1>10, <1>11, <1>12

\* SeedAck, ClientPurges, HearsAnswer and TailSaysReboot: the watermark moves to the
\* checkpoint of an answer, or past writes it promises nothing about.
LEMMA ClientQuietAck ==
  ASSUME AckInv, PushInv', RowsForward, SeedAck \/ ClientPurges \/ HearsAnswer \/ TailSaysReboot
  PROVE  AckInv'
  <1>1. UNCHANGED <<written, up, running, seen, refused, streams>>
    BY DEF SeedAck, ClientPurges, HearsAnswer, TailSaysReboot, serverVars
  <1>2. Tick \in Nat /\ seeded \in 0..Tick /\ acked \in 0..Tick
    BY InFlightTypes
  <1>3. /\ down \in Seq(AnswerSet)
        /\ \A a \in {down[i] : i \in DOMAIN down} : a.check \in 0..Tick /\ Covered(a.check)
    BY AnswerTypes DEF AckInv, AnswersCovered
  <1>4. /\ down' \in Seq(AnswerSet)
        /\ \A a \in {down'[i] : i \in DOMAIN down'} : a.check \in 0..Tick /\ Covered(a.check)
    <2>1. CASE HearsAnswer
      <3>1. down # <<>> /\ down' = Tail(down)
        BY <2>1 DEF HearsAnswer
      <3>2. down' \in Seq(AnswerSet) /\ \A i \in DOMAIN down' : i + 1 \in DOMAIN down /\ down'[i] = down[i + 1]
        BY <1>3, <3>1
      <3>. QED  BY <1>3, <3>2
    <2>2. CASE down' = down
      BY <1>3, <2>2
    <2>. QED  BY <2>1, <2>2 DEF SeedAck, ClientPurges, TailSaysReboot
  <1>5. /\ seeded' \in 0..Tick /\ seeded <= seeded'
    BY <1>2 DEF SeedAck, ClientPurges, HearsAnswer, TailSaysReboot
  <1>6. stream' \in {0, stream} /\ (stream' = 0 /\ ~rebooted' => stream = 0 /\ ~rebooted)
    BY DEF SeedAck, ClientPurges, HearsAnswer, TailSaysReboot
  <1>7. \/ acked' \in 0..Tick /\ Covered(acked')
        \/ acked' = Tick /\ seeded' = Tick
    <2>1. CASE SeedAck
      BY <2>1 DEF SeedAck
    <2>2. CASE HearsAnswer
      <3>1. Head(down) \in {down[i] : i \in DOMAIN down}
        BY <1>3, <2>2 DEF HearsAnswer
      <3>2. Head(down).check \in 0..Tick /\ Covered(Head(down).check)
        BY <1>3, <3>1
      <3>3. acked' = Head(down).check \/ acked' = acked
        BY <2>2 DEF HearsAnswer
      <3>4. Covered(acked) /\ acked \in 0..Tick
        BY <1>2 DEF AckInv
      <3>. QED  BY <3>2, <3>3, <3>4
    <2>3. CASE ClientPurges \/ TailSaysReboot
      BY <1>2, <2>3 DEF ClientPurges, TailSaysReboot, AckInv
    <2>. QED  BY <2>1, <2>2, <2>3
  <1>8. /\ StreamsOpen' /\ PayloadsCover' /\ CurrentCovers' /\ CurrentIsLast' /\ Covered(seen)'
        /\ \A n \in 0..Tick : Covered(n) => Covered(n)'
        /\ Tick' = Tick
    <2>1. acked' \in 0..Tick
      BY <1>2, <1>7
    <2>. QED  BY <1>1, <1>5, <1>6, <2>1, QuietAck
  <1>9. Covered(acked)'
    <2>1. PICK n : n = acked'
      OBVIOUS
    <2>2. Covered(n)'
      <3>1. CASE n \in 0..Tick /\ Covered(n)
        BY <1>8, <3>1
      <3>2. CASE n = Tick /\ seeded' = Tick
        <4>1. \A t \in LastWrites(n)' : t \in 1..Tick
          BY <1>1, <1>2, <3>2, SameWrites, LastWritesIn
        <4>2. \A t \in 1..Tick : Settled(t)'
          BY <1>2, <3>2 DEF Settled
        <4>. QED  BY <4>1, <4>2 DEF Covered
      <3>. QED  BY <1>7, <2>1, <3>1, <3>2
    <2>. QED  BY <2>1, <2>2 DEF Covered, LastWrites
  <1>10. AnswersCovered'
    BY <1>4, <1>8 DEF AnswersCovered, AnswerSet
  <1>. QED  BY <1>8, <1>9, <1>10 DEF AckInv

\* A failed stream's process covers what it still has; its answers are gone.
LEMMA StreamFailsAck ==
  ASSUME AckInv, PushInv', RowsForward, StreamFails
  PROVE  AckInv'
  <1>1. PICK n \in 0..Len(up[stream]) : up' = [up EXCEPT ![stream] = SubSeq(@, 1, n)]
    BY DEF StreamFails
  <1>2. /\ stream # 0 /\ streams <= MaxFailures /\ stream' = 0 /\ down' = <<>>
        /\ UNCHANGED <<written, acked, seeded, rebooted, seen, refused, running, streams>>
    BY DEF StreamFails, serverVars
  <1>3. /\ Tick \in Nat /\ seen \in 0..Tick /\ seeded \in 0..Tick /\ acked \in 0..Tick
        /\ \A r \in Streams : up[r] \in Seq(Sound) /\ Len(up[r]) \in Nat
        /\ \A r \in Streams : \A i \in DOMAIN up[r] : up[r][i].kind = "data" => up[r][i].check \in 0..Tick
    BY InFlightTypes
  <1>4. stream \in Streams
    BY <1>2 DEF AckInv, StreamsOpen, Streams
  <1>5. \A r \in Streams : \A i \in DOMAIN up'[r] :
          i \in DOMAIN up[r] /\ \A j \in 1..i : up'[r][j] = up[r][j]
    <2>1. ASSUME NEW i \in DOMAIN up'[stream]
          PROVE  i \in DOMAIN up[stream] /\ \A j \in 1..i : up'[stream][j] = up[stream][j]
      <3>1. up'[stream] = SubSeq(up[stream], 1, n)
        BY <1>1, <1>4 DEF AckInv, PushInv, Streams
      <3>2. DOMAIN up'[stream] = 1..n /\ \A j \in 1..n : up'[stream][j] = up[stream][j]
        BY <1>3, <1>4, <3>1
      <3>. QED  BY <1>3, <1>4, <3>2
    <2>2. ASSUME NEW r \in Streams, r # stream
          PROVE  up'[r] = up[r]
      BY <1>1, <2>2 DEF AckInv, PushInv, Streams
    <2>3. ASSUME NEW r \in Streams, r # stream, NEW i \in DOMAIN up'[r]
          PROVE  i \in DOMAIN up[r] /\ \A j \in 1..i : up'[r][j] = up[r][j]
      BY <2>2, <2>3
    <2>. QED  BY <2>1, <2>3
  <1>6. Tick' = Tick /\ \A k : LastWrites(k)' = LastWrites(k)
    BY <1>2, SameWrites
  <1>7. \A t \in 1..Tick : Settled(t) => Settled(t)'
    BY <1>2, <1>3, SettledStays DEF AckInv
  <1>8. \A k \in 0..Tick : Covered(k) => Covered(k)'
    BY <1>2, CoversStay
  <1>9. StreamsOpen'
    <2>1. ASSUME NEW r \in Streams
          PROVE  /\ r > streams => up'[r] = <<>> /\ r \notin running'
                 /\ \A i \in DOMAIN up'[r] :
                      /\ up'[r][i].kind = "promise" => i = 1 /\ r \notin running'
                      /\ up'[r][i].kind # "data" => up'[r][i].ts = {}
      <3>1. r > streams => r # stream
        BY <1>2 DEF AckInv, StreamsOpen
      <3>2. r > streams => up'[r] = <<>> /\ r \notin running'
        BY <1>1, <1>2, <3>1 DEF AckInv, StreamsOpen, PushInv, Streams
      <3>3. ASSUME NEW i \in DOMAIN up'[r]
            PROVE  i \in DOMAIN up[r] /\ up'[r][i] = up[r][i]
        <4>1. i \in DOMAIN up[r] /\ \A j \in 1..i : up'[r][j] = up[r][j]
          BY <1>5
        <4>2. i \in 1..i
          BY <1>3, <4>1
        <4>. QED  BY <4>1, <4>2
      <3>. QED  BY <1>2, <3>2, <3>3 DEF AckInv, StreamsOpen, Streams
    <2>. QED  BY <1>2, <1>6, <2>1 DEF AckInv, StreamsOpen, Streams
  <1>10. PayloadsCover'
    <2>1. ASSUME NEW r \in Streams, NEW i \in DOMAIN up'[r], Reads(r, i)', up'[r][i].kind = "data",
                 seen' <= up'[r][i].check, NEW t \in LastWrites(up'[r][i].check)
          PROVE  Settled(t)' \/ InFlight(r, i, t)'
      <3>1. i \in DOMAIN up[r] /\ \A j \in 1..i : up'[r][j] = up[r][j]
        BY <1>5
      <3>2. i \in 1..i /\ 1 \in 1..i /\ up'[r][i] = up[r][i] /\ up'[r][1] = up[r][1]
        BY <1>3, <3>1
      <3>3. Reads(r, i)
        <4>1. up[r] # <<>> /\ Head(up[r]) = up[r][1]
          BY <1>3, <3>1
        <4>2. up'[r] # <<>> => Head(up'[r]) = up'[r][1]
          OBVIOUS
        <4>. QED  BY <1>2, <2>1, <3>1, <3>2, <4>1, <4>2 DEF Reads, NextIs
      <3>4. Settled(t) \/ InFlight(r, i, t)
        BY <1>2, <2>1, <3>1, <3>2, <3>3 DEF AckInv, PayloadsCover, Streams
      <3>5. t \in 1..Tick
        <4>1. up'[r][i].check \in 0..Tick
          BY <1>3, <2>1, <3>1, <3>2
        <4>. QED  BY <1>3, <2>1, <4>1, LastWritesIn
      <3>6. InFlight(r, i, t) => InFlight(r, i, t)'
        BY <3>1 DEF InFlight
      <3>. QED  BY <1>7, <3>4, <3>5, <3>6
    <2>. QED  BY <1>6, <2>1 DEF PayloadsCover, Streams
  <1>11. CurrentCovers' /\ CurrentIsLast'
    BY <1>2 DEF CurrentCovers, CurrentIsLast
  <1>12. AnswersCovered'
    BY <1>2 DEF AnswersCovered
  <1>13. Covered(acked)' /\ Covered(seen)'
    BY <1>2, <1>3, <1>8 DEF AckInv, Covered, LastWrites
  <1>. QED  BY <1>9, <1>10, <1>11, <1>12, <1>13 DEF AckInv

\* A local write: the stream in use carries it behind everything it already has.
LEMMA LocalWriteAck ==
  ASSUME AckInv, PushInv', RowsForward, LocalWrite
  PROVE  AckInv'
  <1>1. PICK r \in Rows : written' = Append(written, r) /\ Send(Data({Tick + 1}, Tick + 1))
    BY DEF LocalWrite
  <1>2. UNCHANGED <<acked, seeded, stream, rebooted, seen, refused, running, streams, down>>
    BY DEF LocalWrite, serverVars
  <1>3. /\ Tick \in Nat /\ seen \in 0..Tick /\ seeded \in 0..Tick /\ acked \in 0..Tick
        /\ \A s \in Streams : up[s] \in Seq(Sound) /\ Len(up[s]) \in Nat
        /\ \A s \in Streams : \A i \in DOMAIN up[s] :
             i \in 1..Len(up[s]) /\ (up[s][i].kind = "data" => up[s][i].check \in 0..Tick)
    BY InFlightTypes
  <1>4. /\ Tick' = Tick + 1 /\ \A t \in 1..Tick : written'[t] = written[t]
        /\ \A n \in 0..Tick : LastWrites(n)' = LastWrites(n)
    BY <1>1, Growth DEF AckInv, PushInv
  <1>5. \A t \in 1..Tick : Settled(t) => Settled(t)'
    BY <1>2, <1>3, <1>4, SettledStays DEF AckInv
  <1>6. \A n \in 0..Tick : \A t \in LastWrites(n) : t \in 1..Tick
    BY <1>3, LastWritesIn
  <1>7. \A n \in 0..Tick : Covered(n) => Covered(n)'
    BY <1>4, <1>5, <1>6 DEF Covered
  <1>8. Covered(acked)' /\ Covered(seen)'
    <2>1. Covered(acked) /\ Covered(seen)
      BY DEF AckInv
    <2>2. LastWrites(acked)' = LastWrites(acked) /\ LastWrites(seen)' = LastWrites(seen)
      BY <1>2, <1>3, <1>4 DEF LastWrites
    <2>. QED  BY <1>3, <1>5, <1>6, <2>1, <2>2 DEF Covered
  <1>9. AnswersCovered'
    <2>1. down \in Seq(AnswerSet) /\ \A a \in {down[i] : i \in DOMAIN down} : a.check \in 0..Tick /\ Covered(a.check)
      BY AnswerTypes DEF AckInv, AnswersCovered
    <2>2. AnswerSet \subseteq AnswerSet'
      BY <1>3, <1>4 DEF AnswerSet
    <2>3. down \in Seq(AnswerSet')
      BY <2>1, <2>2, SeqGrows
    <2>. QED  BY <1>2, <1>7, <2>1, <2>3 DEF AnswersCovered, AnswerSet
  <1>w. PICK w : w = Tick + 1
    OBVIOUS
  <1>n. PICK n : n = Len(up[stream]) + 1
    OBVIOUS
  <1>10. ASSUME NEW t \in LastWrites(w)'
         PROVE  t = w \/ t \in LastWrites(Tick)
    <2>1. t \in 1..w /\ \A u \in t + 1..w : written'[u] # written'[t]
      BY <1>10 DEF LastWrites
    <2>2. ASSUME t # w
          PROVE  t \in 1..Tick /\ \A u \in t + 1..Tick : written[u] # written[t]
      <3>1. t \in 1..Tick /\ \A u \in t + 1..Tick : u \in 1..Tick /\ u \in t + 1..w
        BY <1>w, <1>3, <2>1, <2>2
      <3>. QED  BY <1>4, <2>1, <3>1
    <2>. QED  BY <2>2 DEF LastWrites
  <1>11. CASE stream = 0
    <2>1. up' = up
      BY <1>1, <1>11 DEF Send
    <2>2. StreamsOpen'
      BY <1>2, <1>3, <1>4, <2>1 DEF AckInv, StreamsOpen
    <2>3. \A s, i : Reads(s, i)' = Reads(s, i)
      BY <1>2, <2>1 DEF Reads, NextIs
    <2>4. \A s, i, t : InFlight(s, i, t)' = InFlight(s, i, t)
      BY <2>1 DEF InFlight
    <2>5. PayloadsCover'
      BY <1>2, <1>3, <1>4, <1>5, <1>6, <2>1, <2>3, <2>4 DEF AckInv, PayloadsCover, Streams
    <2>6. CurrentCovers' /\ CurrentIsLast'
      BY <1>2, <1>11 DEF CurrentCovers, CurrentIsLast
    <2>. QED  BY <1>8, <1>9, <2>2, <2>5, <2>6 DEF AckInv
  <1>12. CASE stream # 0
    <2>1. stream \in Streams
      BY <1>12 DEF AckInv, StreamsOpen, Streams
    <2>2. PICK m : m = Data({w}, w) /\ m.kind = "data" /\ m.ts = {w} /\ m.check = w
      <3>1. Data({w}, w).kind = "data" /\ Data({w}, w).ts = {w} /\ Data({w}, w).check = w
        BY DEF Data
      <3>. QED  BY <3>1
    <2>3. /\ up'[stream] = Append(up[stream], m)
          /\ \A s \in Streams : s # stream => up'[s] = up[s]
      BY <1>w, <1>1, <1>12, <2>1, <2>2 DEF Send, AckInv, PushInv, Streams
    <2>4. /\ DOMAIN up'[stream] = DOMAIN up[stream] \cup {n} /\ n \notin DOMAIN up[stream]
          /\ up'[stream][n] = m /\ Len(up'[stream]) = n /\ n \in Nat
          /\ DOMAIN up[stream] = 1..Len(up[stream])
          /\ \A i \in DOMAIN up[stream] : up'[stream][i] = up[stream][i]
      BY <1>n, <1>3, <2>1, <2>3
    <2>5. ASSUME NEW s \in Streams, NEW i \in DOMAIN up[s]
          PROVE  i \in DOMAIN up'[s] /\ up'[s][i] = up[s][i]
      BY <2>3, <2>4
    <2>6. ASSUME NEW s \in Streams, NEW i \in DOMAIN up'[s]
          PROVE  i \in DOMAIN up[s] \/ (s = stream /\ i = n)
      BY <2>3, <2>4
    <2>7. StreamsOpen'
      <3>1. ASSUME NEW s \in Streams
            PROVE  /\ s > streams => up'[s] = <<>> /\ s \notin running'
                   /\ \A i \in DOMAIN up'[s] :
                        /\ up'[s][i].kind = "promise" => i = 1 /\ s \notin running'
                        /\ up'[s][i].kind # "data" => up'[s][i].ts = {}
        <4>1. s > streams => s # stream
          BY <1>12 DEF AckInv, StreamsOpen
        <4>2. s > streams => up'[s] = <<>> /\ s \notin running'
          BY <1>2, <2>3, <4>1 DEF AckInv, StreamsOpen, Streams
        <4>3. ASSUME NEW i \in DOMAIN up'[s], i \in DOMAIN up[s]
              PROVE  /\ up'[s][i].kind = "promise" => i = 1 /\ s \notin running'
                     /\ up'[s][i].kind # "data" => up'[s][i].ts = {}
          BY <1>2, <2>5, <4>3 DEF AckInv, StreamsOpen, Streams
        <4>. QED  BY <2>2, <2>4, <2>6, <4>2, <4>3
      <3>. QED  BY <1>2, <1>3, <1>4, <3>1 DEF AckInv, StreamsOpen, Streams
    <2>8. \A s \in Streams : NextIs(s, "promise")' => NextIs(s, "promise")
      <3>1. CASE up[stream] = <<>>
        <4>1. Head(up'[stream]) = m
          BY <2>3, <3>1
        <4>. QED  BY <2>2, <2>3, <4>1 DEF NextIs
      <3>2. CASE up[stream] # <<>>
        <4>1. Head(up'[stream]) = Head(up[stream])
          BY <1>3, <2>1, <2>3, <3>2
        <4>. QED  BY <2>3, <3>2, <4>1 DEF NextIs
      <3>. QED  BY <3>1, <3>2
    <2>9. ASSUME NEW s \in Streams, NEW i \in 0..Len(up[s]), Reads(s, i)'
          PROVE  Reads(s, i)
      <3>1. \A j \in 1..i : j \in DOMAIN up[s]
        BY <1>3
      <3>. QED  BY <1>2, <2>5, <2>8, <2>9, <3>1 DEF Reads
    <2>10. ASSUME NEW t \in LastWrites(w)', Reads(stream, n)'
           PROVE  Settled(t)' \/ InFlight(stream, n, t)'
      <3>1. CASE t = w
        <4>1. n \in 1..n /\ w \in up'[stream][n].ts
          <5>1. n \in 1..n
            BY <1>n, <1>3, <2>1
          <5>2. w \in up'[stream][n].ts
            BY <2>2, <2>4
          <5>. QED  BY <5>1, <5>2
        <4>. QED  BY <1>2, <3>1, <4>1 DEF InFlight
      <3>2. CASE t \in LastWrites(Tick)
        <4>1. PICK k : k = Len(up[stream]) /\ k \in Nat /\ n = k + 1
          BY <1>n, <1>3, <2>1
        <4>2. k \in 0..Len(up[stream]) /\ \A j \in 1..k : j \in 1..n
          BY <4>1
        <4>3. \A s \in Streams : s = stream => Reads(s, k)'
          BY <1>2, <2>10, <4>2 DEF Reads, NextIs
        <4>6. Reads(stream, Len(up[stream]))
          BY <2>1, <2>9, <4>1, <4>2, <4>3
        <4>4. Settled(t) \/ InFlight(stream, k, t)
          BY <1>12, <3>2, <4>1, <4>6 DEF AckInv, CurrentCovers
        <4>5. InFlight(stream, k, t) => InFlight(stream, n, t)'
          <5>1. \A j \in 1..k : j \in 1..n /\ up'[stream][j] = up[stream][j]
            BY <2>4, <4>1
          <5>. QED  BY <1>2, <5>1 DEF InFlight
        <4>. QED  BY <1>3, <1>5, <1>6, <3>2, <4>4, <4>5
      <3>. QED  BY <1>10, <2>10, <3>1, <3>2
    <2>11. PayloadsCover'
      <3>1. ASSUME NEW s \in Streams, NEW i \in DOMAIN up'[s], Reads(s, i)', up'[s][i].kind = "data",
                   seen' <= up'[s][i].check, NEW t \in LastWrites(up[s][i].check)'
            PROVE  Settled(t)' \/ InFlight(s, i, t)'
        <4>1. CASE i \in DOMAIN up[s]
          <5>1. up'[s][i] = up[s][i] /\ i \in 0..Len(up[s]) /\ up[s][i].check \in 0..Tick
            BY <1>3, <2>5, <3>1, <4>1
          <5>2. t \in LastWrites(up[s][i].check)
            BY <1>4, <3>1, <5>1 DEF LastWrites
          <5>3. Reads(s, i)
            BY <2>9, <3>1, <5>1
          <5>4. Settled(t) \/ InFlight(s, i, t)
            BY <1>2, <3>1, <4>1, <5>1, <5>2, <5>3 DEF AckInv, PayloadsCover, Streams
          <5>5. InFlight(s, i, t) => InFlight(s, i, t)'
            <6>1. \A j \in 1..i : j \in DOMAIN up[s]
              BY <1>3, <4>1
            <6>. QED  BY <2>5, <6>1 DEF InFlight
          <5>. QED  BY <1>5, <1>6, <5>1, <5>2, <5>4, <5>5
        <4>2. CASE s = stream /\ i = n
          <5>1. up'[s][i].check = w
            BY <2>2, <2>4, <4>2
          <5>2. t \in LastWrites(w)'
            BY <3>1, <5>1 DEF LastWrites
          <5>3. Reads(stream, n)'
            BY <1>2, <3>1, <4>2 DEF Reads, NextIs
          <5>4. Settled(t)' \/ InFlight(stream, n, t)'
            BY <2>10, <5>2, <5>3
          <5>. QED  BY <1>2, <4>2, <5>4 DEF InFlight
        <4>. QED  BY <2>6, <3>1, <4>1, <4>2
      <3>. QED  BY <3>1 DEF PayloadsCover, Streams
    <2>12. CurrentCovers'
      <3> SUFFICES ASSUME Reads(stream, Len(up[stream]))', NEW t \in LastWrites(Tick)'
                   PROVE  Settled(t)' \/ InFlight(stream, Len(up[stream]), t)'
        BY DEF CurrentCovers
      <3>1. t \in LastWrites(w)'
        BY <1>w, <1>4 DEF LastWrites
      <3>2. Reads(stream, n)'
        BY <1>2, <2>4 DEF Reads, NextIs
      <3>3. Settled(t)' \/ InFlight(stream, n, t)'
        BY <2>10, <3>1, <3>2
      <3>. QED  BY <1>2, <2>4, <3>3 DEF InFlight
    <2>13. CurrentIsLast'
      <3>1. ASSUME NEW j \in DOMAIN up'[stream], up'[stream][j].kind = "data"
            PROVE  /\ seen' <= up'[stream][j].check
                   /\ \A s \in Streams : \A i \in DOMAIN up'[s] :
                        up'[s][i].kind = "data" /\ (s # stream \/ i <= j)
                          => up'[s][i].check <= up'[stream][j].check
        <4>1. CASE j = n
          <5>1. up'[stream][j].check = w
            BY <2>2, <2>4, <4>1
          <5>2. ASSUME NEW s \in Streams, NEW i \in DOMAIN up'[s], up'[s][i].kind = "data"
                PROVE  up'[s][i].check <= w
            <6>1. CASE i \in DOMAIN up[s]
              BY <1>w, <1>3, <2>5, <5>2, <6>1
            <6>2. CASE s = stream /\ i = n
              BY <1>w, <1>3, <2>2, <2>4, <6>2
            <6>. QED  BY <2>6, <6>1, <6>2
          <5>. QED  BY <1>w, <1>2, <1>3, <5>1, <5>2
        <4>2. CASE j \in DOMAIN up[stream]
          <5>1. up'[stream][j] = up[stream][j] /\ ~(n <= j)
            BY <1>n, <1>3, <2>1, <2>5, <4>2
          <5>2. /\ seen <= up[stream][j].check
                /\ \A s \in Streams : \A i \in DOMAIN up[s] :
                     up[s][i].kind = "data" /\ (s # stream \/ i <= j)
                       => up[s][i].check <= up[stream][j].check
            BY <1>12, <3>1, <4>2, <5>1 DEF AckInv, CurrentIsLast, Streams
          <5>3. ASSUME NEW s \in Streams, NEW i \in DOMAIN up'[s], up'[s][i].kind = "data",
                       s # stream \/ i <= j
                PROVE  up'[s][i].check <= up'[stream][j].check
            <6>1. i \in DOMAIN up[s]
              BY <2>6, <5>1, <5>3
            <6>2. up'[s][i] = up[s][i]
              BY <2>5, <6>1
            <6>. QED  BY <5>1, <5>2, <5>3, <6>1, <6>2
          <5>. QED  BY <1>2, <5>1, <5>2, <5>3
        <4>. QED  BY <2>4, <3>1, <4>1, <4>2
      <3>. QED  BY <1>2, <3>1 DEF CurrentIsLast, Streams
    <2>. QED  BY <1>8, <1>9, <2>7, <2>11, <2>12, <2>13 DEF AckInv
  <1>. QED  BY <1>11, <1>12

\* The queue of a new stream has one message or two.
LEMMA Pair ==
  ASSUME NEW a, NEW b
  PROVE  <<a>> \o <<>> = <<a>> /\ <<a>> \o <<b>> = <<a, b>>
  <1>1. <<a>> \o <<>> = <<a>>
    OBVIOUS
  <1>2. <<a>> \in Seq({a, b}) /\ <<b>> \in Seq({a, b}) /\ <<a, b>> \in Seq({a, b})
    OBVIOUS
  <1>3. Len(<<a>>) = 1 /\ Len(<<b>>) = 1 /\ Len(<<a, b>>) = 2 /\ <<a, b>>[1] = a /\ <<a, b>>[2] = b
    OBVIOUS
  <1>4. <<a>> \o <<b>> \in Seq({a, b}) /\ Len(<<a>> \o <<b>>) = 2
    BY <1>2, <1>3
  <1>5. (<<a>> \o <<b>>)[1] = a /\ (<<a>> \o <<b>>)[2] = b
    BY <1>2, <1>3
  <1>6. \A i \in 1..2 : (<<a>> \o <<b>>)[i] = <<a, b>>[i]
    <2>1. \A i \in 1..2 : i = 1 \/ i = 2
      OBVIOUS
    <2>. QED  BY <1>3, <1>5, <2>1
  <1>7. <<a>> \o <<b>> = <<a, b>>
    BY <1>2, <1>3, <1>4, <1>6, SeqEqual
  <1>. QED  BY <1>1, <1>7

\* The next stream: its promise, and a diff that brings what the watermark of the
\* feedback table leaves out.
LEMMA OnReconnectAck ==
  ASSUME AckInv, PushInv', RowsForward, OnReconnect
  PROVE  AckInv'
  <1>1. PICK c : c = streams + 1
    OBVIOUS
  <1>2. /\ stream = 0 /\ ~rebooted /\ stream' = c /\ streams' = c
        /\ up' = [up EXCEPT ![c] = <<Promise>> \o Diff]
        /\ UNCHANGED <<written, acked, seeded, rebooted, seen, refused, running, down>>
    BY <1>1 DEF OnReconnect, serverVars
  <1>3. /\ Tick \in Nat /\ seen \in 0..Tick /\ seeded \in 0..Tick /\ acked \in 0..Tick
        /\ MaxFailures \in Nat
        /\ \A s \in Streams : \A i \in DOMAIN up[s] : up[s][i].kind = "data" => up[s][i].check \in 0..Tick
    BY InFlightTypes
  <1>4. /\ streams \in 1..MaxFailures + 1 /\ streams <= MaxFailures /\ c \in Streams /\ c # 0
        /\ c > streams /\ c \notin running
    <2>1. streams \in 1..MaxFailures + 1 /\ streams <= MaxFailures
      BY <1>2 DEF AckInv, StreamsOpen
    <2>2. c \in Streams /\ c # 0 /\ c > streams
      BY <1>1, <1>3, <2>1 DEF Streams
    <2>. QED  BY <2>1, <2>2 DEF AckInv, StreamsOpen, Streams
  <1>5. up'[c] = <<Promise>> \o Diff /\ \A s \in Streams : s # c => up'[s] = up[s]
    BY <1>2, <1>4 DEF AckInv, PushInv, Streams
  <1>6. Tick' = Tick /\ \A n : LastWrites(n)' = LastWrites(n)
    BY <1>2, SameWrites
  <1>7. \A t \in 1..Tick : Settled(t) => Settled(t)'
    BY <1>2, <1>3, SettledStays DEF AckInv
  <1>8. \A n \in 0..Tick : Covered(n) => Covered(n)'
    BY <1>2, CoversStay
  <1>9. \A n \in 0..Tick : \A t \in LastWrites(n) : t \in 1..Tick
    BY <1>3, LastWritesIn
  <1>10. PICK m : \/ Diff = <<>> /\ acked = Tick
                  \/ Diff = <<m>> /\ m.kind = "rebuild" /\ m.ts = {}
                  \/ /\ Diff = <<m>> /\ m.kind = "data" /\ m.check = Tick
                     /\ m.ts = {t \in LastWrites(Tick) : t > acked}
    <2>1. RebuildMsg.kind = "rebuild" /\ RebuildMsg.ts = {}
      BY DEF RebuildMsg
    <2>2. \A ts : /\ Data(ts, Tick).kind = "data" /\ Data(ts, Tick).check = Tick
                  /\ Data(ts, Tick).ts = ts
      BY DEF Data
    <2>3. CASE tombLimit > 0 /\ acked <= tombLimit
      BY <2>1, <2>3 DEF Diff
    <2>4. CASE ~(tombLimit > 0 /\ acked <= tombLimit) /\ acked < Tick
      BY <2>2, <2>4 DEF Diff
    <2>5. CASE ~(tombLimit > 0 /\ acked <= tombLimit) /\ ~(acked < Tick)
      BY <1>3, <2>5 DEF Diff
    <2>. QED  BY <2>3, <2>4, <2>5
  <1>11. PICK p : p = Promise /\ p.kind = "promise" /\ p.ts = {}
    <2>1. Promise.kind = "promise" /\ Promise.ts = {}
      BY DEF Promise
    <2>. QED  BY <2>1
  <1>12. \/ up'[c] = <<p>> /\ acked = Tick
         \/ /\ up'[c] = <<p, m>>
            /\ \/ m.kind = "rebuild" /\ m.ts = {}
               \/ /\ m.kind = "data" /\ m.check = Tick
                  /\ m.ts = {t \in LastWrites(Tick) : t > acked}
    <2>1. <<p>> \o <<>> = <<p>> /\ <<p>> \o <<m>> = <<p, m>>
      BY Pair
    <2>2. CASE Diff = <<>> /\ acked = Tick
      BY <1>5, <1>11, <2>1, <2>2
    <2>3. CASE Diff = <<m>>
      <3>1. up'[c] = <<p, m>>
        BY <1>5, <1>11, <2>1, <2>3
      <3>2. <<m>> # <<>>
        OBVIOUS
      <3>. QED  BY <1>10, <2>3, <3>1, <3>2
    <2>. QED  BY <1>10, <2>2, <2>3
  <1>13. /\ \A i \in DOMAIN up'[c] : \/ i = 1 /\ up'[c][i] = p
                                     \/ i = 2 /\ up'[c][i] = m /\ up'[c] = <<p, m>>
         /\ Len(up'[c]) \in {1, 2}
    <2>1. CASE up'[c] = <<p>>
      <3>1. DOMAIN up'[c] = {1} /\ up'[c][1] = p /\ Len(up'[c]) = 1
        BY <2>1
      <3>. QED  BY <3>1
    <2>2. CASE up'[c] = <<p, m>>
      <3>1. DOMAIN up'[c] = 1..2 /\ up'[c][1] = p /\ up'[c][2] = m /\ Len(up'[c]) = 2
        BY <2>2
      <3>. QED  BY <2>2, <3>1
    <2>. QED  BY <1>12, <2>1, <2>2
  <1>14. StreamsOpen'
    <2>1. ASSUME NEW s \in Streams
          PROVE  /\ s > streams' => up'[s] = <<>> /\ s \notin running'
                 /\ \A i \in DOMAIN up'[s] :
                      /\ up'[s][i].kind = "promise" => i = 1 /\ s \notin running'
                      /\ up'[s][i].kind # "data" => up'[s][i].ts = {}
      <3>1. CASE s = c
        BY <1>1, <1>2, <1>4, <1>11, <1>12, <1>13, <3>1, SMTT(30)
      <3>2. CASE s # c
        <4>1. up'[s] = up[s] /\ (s > c => s > streams)
          BY <1>1, <1>4, <1>5, <3>2 DEF Streams
        <4>2. /\ s > streams => up[s] = <<>> /\ s \notin running
              /\ \A i \in DOMAIN up[s] :
                   /\ up[s][i].kind = "promise" => i = 1 /\ s \notin running
                   /\ up[s][i].kind # "data" => up[s][i].ts = {}
          BY DEF AckInv, StreamsOpen, Streams
        <4>3. streams' = c /\ running' = running
          BY <1>2
        <4>. QED  BY <4>1, <4>2, <4>3
      <3>. QED  BY <3>1, <3>2
    <2>. QED  BY <1>2, <1>3, <1>4, <1>6, <2>1 DEF StreamsOpen, Streams
  <1>15. ASSUME NEW t \in LastWrites(Tick), up'[c] = <<p>> \/ m.kind = "data"
         PROVE  Settled(t)' \/ (up'[c] = <<p, m>> /\ t \in m.ts)
    <2>1. t \in 1..Tick
      BY <1>3, <1>9
    <2>2. CASE t <= acked
      <3>1. t \in LastWrites(acked)
        BY <1>3, <2>1, <2>2, LastBetween
      <3>. QED  BY <1>7, <2>1, <3>1 DEF AckInv, Covered
    <2>3. CASE ~(t <= acked)
      <3>1. t > acked /\ acked # Tick
        BY <1>3, <2>1, <2>3
      <3>2. up'[c] = <<p, m>> /\ m.kind = "data"
        BY <1>12, <1>15, <3>1
      <3>. QED  BY <1>12, <1>15, <3>1, <3>2
    <2>. QED  BY <2>2, <2>3
  <1>16. PayloadsCover'
    <2>1. ASSUME NEW s \in Streams, NEW i \in DOMAIN up'[s], Reads(s, i)', up'[s][i].kind = "data",
                 seen' <= up'[s][i].check, NEW t \in LastWrites(up'[s][i].check)
          PROVE  Settled(t)' \/ InFlight(s, i, t)'
      <3>1. CASE s # c
        <4>1. up'[s] = up[s] /\ up[s][i].check \in 0..Tick
          BY <1>3, <1>5, <2>1, <3>1
        <4>2. Reads(s, i)
          BY <1>2, <2>1, <4>1 DEF Reads, NextIs
        <4>3. Settled(t) \/ InFlight(s, i, t)
          BY <1>2, <2>1, <4>1, <4>2 DEF AckInv, PayloadsCover, Streams
        <4>4. InFlight(s, i, t) => InFlight(s, i, t)'
          BY <4>1 DEF InFlight
        <4>. QED  BY <1>7, <1>9, <2>1, <4>1, <4>3, <4>4
      <3>2. CASE s = c
        <4>1. i = 2 /\ up'[c] = <<p, m>> /\ up'[c][i] = m /\ m.kind = "data" /\ m.check = Tick
          BY <1>11, <1>12, <1>13, <2>1, <3>2
        <4>2. Settled(t)' \/ t \in m.ts
          BY <1>15, <2>1, <3>2, <4>1
        <4>. QED  BY <3>2, <4>1, <4>2 DEF InFlight
      <3>. QED  BY <3>1, <3>2
    <2>. QED  BY <1>6, <2>1 DEF PayloadsCover, Streams
  <1>17. CurrentCovers'
    <2> SUFFICES ASSUME Reads(stream, Len(up[stream]))', NEW t \in LastWrites(Tick)
                 PROVE  Settled(t)' \/ InFlight(stream, Len(up[stream]), t)'
      BY <1>6 DEF CurrentCovers
    <2>1. up'[c] = <<p>> \/ m.kind = "data"
      <3>1. up'[c] = <<p, m>> => Len(up'[c]) = 2 /\ up'[c][2] = m
        OBVIOUS
      <3>2. up'[c] = <<p, m>> => m.kind # "rebuild"
        BY <1>2, <3>1 DEF Reads
      <3>. QED  BY <1>12, <3>2
    <2>2. Settled(t)' \/ (up'[c] = <<p, m>> /\ t \in m.ts)
      BY <1>15, <2>1
    <2>3. up'[c] = <<p, m>> => Len(up'[c]) = 2 /\ up'[c][2] = m /\ 2 \in 1..2
      OBVIOUS
    <2>. QED  BY <1>2, <2>2, <2>3 DEF InFlight
  <1>18. CurrentIsLast'
    <2>1. ASSUME NEW j \in DOMAIN up'[c], up'[c][j].kind = "data"
          PROVE  up'[c][j].check = Tick
      BY <1>11, <1>12, <1>13, <2>1
    <2>2. ASSUME NEW s \in Streams, NEW i \in DOMAIN up'[s], up'[s][i].kind = "data"
          PROVE  up'[s][i].check <= Tick
      <3>1. CASE s = c
        BY <1>3, <2>1, <2>2, <3>1
      <3>2. CASE s # c
        BY <1>3, <1>5, <2>2, <3>2
      <3>. QED  BY <3>1, <3>2
    <2>. QED  BY <1>2, <1>3, <2>1, <2>2 DEF CurrentIsLast, Streams
  <1>19. AnswersCovered'
    BY <1>2, <1>6, <1>8, AnswerTypes DEF AckInv, AnswersCovered
  <1>20. Covered(acked)' /\ Covered(seen)'
    BY <1>2, <1>3, <1>8 DEF AckInv, Covered, LastWrites
  <1>. QED  BY <1>14, <1>16, <1>17, <1>18, <1>19, <1>20 DEF AckInv

\* The first stream carries its promise.
LEMMA InitAck == Init => AckInv
  <1> SUFFICES ASSUME Init PROVE AckInv
    OBVIOUS
  <1>1. PushInv
    BY InitInv
  <1>2. Tick = 0 /\ MaxFailures \in Nat
    BY LocalTailBounds DEF Init, Tick
  <1>3. /\ 1 \in Streams /\ up[1] = <<Promise>> /\ \A s \in Streams : s # 1 => up[s] = <<>>
        /\ running = {} /\ stream = 1 /\ streams = 1 /\ acked = 0 /\ seeded = 0 /\ seen = 0
        /\ down = <<>>
    BY <1>2 DEF Init, Streams
  <1>4. Promise.kind = "promise" /\ Promise.ts = {}
    BY DEF Promise
  <1>5. \A s \in Streams : \A i \in DOMAIN up[s] : s = 1 /\ i = 1 /\ up[s][i] = Promise
    BY <1>3
  <1>6. StreamsOpen
    <2>1. \A s \in Streams : s > 1 => s # 1
      BY <1>2 DEF Streams
    <2>2. \A s \in Streams : s > streams => up[s] = <<>> /\ s \notin running
      BY <1>3, <2>1
    <2>. QED  BY <1>2, <1>3, <1>4, <1>5, <2>2 DEF StreamsOpen, Streams
  <1>7. \A n \in {0} : LastWrites(n) = {}
    BY DEF LastWrites
  <1>8. PayloadsCover /\ CurrentIsLast
    BY <1>3, <1>4, <1>5 DEF PayloadsCover, CurrentIsLast, Streams
  <1>9. CurrentCovers /\ Covered(acked) /\ Covered(seen)
    BY <1>2, <1>3, <1>7 DEF CurrentCovers, Covered
  <1>10. AnswersCovered
    BY <1>3 DEF AnswersCovered
  <1>. QED  BY <1>1, <1>6, <1>8, <1>9, <1>10 DEF AckInv

\* Every step keeps AckInv.
LEMMA StepAck ==
  ASSUME AckInv, [Next]_vars
  PROVE  AckInv'
  <1>1. CASE UNCHANGED vars
    <2>1. UNCHANGED <<written, acked, seeded, stream, rebooted, up, running, down, server, seen,
                      refused, streams>>
      BY <1>1 DEF vars, clientVars, serverVars
    <2>2. PushInv'
      BY StepInv DEF AckInv
    <2>3. StreamsOpen' /\ PayloadsCover' /\ CurrentIsLast'
      BY <2>1 DEF AckInv, StreamsOpen, PayloadsCover, CurrentIsLast, Tick, Reads, NextIs, InFlight,
                  Settled, OnServer, LastWrites
    <2>4. CurrentCovers'
      BY <2>1 DEF AckInv, CurrentCovers, Tick, Reads, NextIs, InFlight, Settled, OnServer, LastWrites
    <2>5. AnswersCovered' /\ Covered(acked)' /\ Covered(seen)'
      BY <2>1 DEF AckInv, AnswersCovered, Covered, Settled, OnServer, LastWrites, Tick
    <2>. QED  BY <2>2, <2>3, <2>4, <2>5 DEF AckInv
  <1>2. CASE Next /\ ~UNCHANGED vars
    <2>1. PushInv' /\ RowsForward
      BY <1>2, StepInv DEF AckInv
    <2>. QED  BY <1>2, <2>1, LocalWriteAck, ClientQuietAck, StreamFailsAck, OnReconnectAck,
                 AcceptsAck, RefusesAck, ReadsOtherAck DEF Next, Process, Streams
  <1>. QED  BY <1>1, <1>2

\* What is in flight and what was answered cover the writes as AckInv says, for any
\* number of writes and failures (establishLocalTail, write-csv).
THEOREM AckInvariant == Spec => []AckInv
  <1>. QED  BY InitAck, StepAck, PTL DEF Spec

\* No write that the feedback watermark counts as acknowledged is missing on the
\* server, unless it was refused there: whatever streams failed with, and however
\* late the processes of old streams read (establishLocalTail's diff and
\* write-csv's short cut for what was seen).
THEOREM AcksAreTrue == Spec => []AckedIsApplied
  <1>1. AckInv => AckedIsApplied
    BY DEF AckInv, AckedIsApplied, Covered, Settled
  <1>. QED  BY <1>1, AckInvariant, PTL
=============================================================================
