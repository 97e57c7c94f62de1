------------------------------ MODULE External ------------------------------
(***************************************************************************)
(* The external services a Skip service may use: GenericExternalService    *)
(* with Polled and TimerResource (helpers/src/external.ts), another Skip   *)
(* service (helpers/src/remote.ts) and a PostgreSQL database               *)
(* (adapters/postgres/src/index.ts), and the sources they follow.  The     *)
(* runtime subscribes an instance and unsubscribes it once; its writer     *)
(* ignores what comes for an instance that is gone.                        *)
(***************************************************************************)
EXTENDS Integers, Sequences, SequencesExt, FiniteSets

CONSTANTS Kinds,     \* of external service: a subset of the four below
          Instances, \* subscriptions the runtime makes
          Keys,      \* of the source
          TextKeys,  \* those of a table with keys of type TEXT; the others are of one of integers
          OnText,    \* instances that are subscribed to the first
          KeyTypes,  \* the types the integer keys may have, "INTEGER" or "BIGINT"
          MaxWrites, \* bound: writes to the source
          MaxFails,  \* bound: failures of the network
          InFlight   \* bound: requests of one instance at a time

ASSUME ExternalConstants ==
  /\ Kinds \subseteq {"polled", "timer", "remote", "postgres"}
  /\ IsFiniteSet(Instances) /\ IsFiniteSet(Keys) /\ TextKeys \subseteq Keys /\ OnText \subseteq Instances
  /\ KeyTypes \subseteq {"INTEGER", "BIGINT"}
  /\ {MaxWrites, MaxFails, InFlight} \subseteq Nat

VARIABLES kind,
          keyType,   \* of the table with integer keys
          phase,     \* of each instance: "new", "opening", "open" or "closed"
          early,     \* instances closed, or services shut down, before the instance was open;
                     \* a shutdown lets go of the former
          source,    \* the version of each key
          copy,      \* what the collection of each instance has
          byText,    \* what it has besides, under the texts of integer keys
          timers,    \* instances with an interval
          fetches,   \* requests under way: their instance, and the data once read
          posts,     \* instances whose resource is being made by the other service
          streams,   \* instances with an EventSource
          events,    \* on the way to each instance's EventSource
          opened,    \* open_instances
          triggers,  \* instances with a trigger in the database
          listeners, \* instances whose listener hears notifications
          queries,   \* sent to the database
          notices,   \* keys the database has notified
          missed,    \* keys of an instance whose last write went unnoticed
          moved,     \* and those a row had until it was given another
          alive,     \* the process runs
          down,      \* shutdown was called
          writes, fails

pollVars == <<timers, fetches>>
remoteVars == <<posts, streams, events>>
pgVars == <<byText, opened, triggers, listeners, queries, notices>>
lossVars == <<missed, moved>>
boundVars == <<alive, writes, fails>>
vars == <<kind, keyType, phase, early, source, copy, pollVars, remoteVars, pgVars, lossVars, down, boundVars>>

NoRow == -1
Unread == [k \in Keys |-> -2]
Empty == [k \in Keys |-> NoRow]
TextTable(i) == kind = "postgres" /\ i \in OnText
Watched(i) ==
  IF kind # "postgres" THEN Keys ELSE IF i \in OnText THEN TextKeys ELSE Keys \ TextKeys

\* The database takes queries in order; LISTEN is the first.
Init ==
  /\ kind \in Kinds /\ keyType \in IF kind = "postgres" THEN KeyTypes ELSE {"none"}
  /\ phase = [i \in Instances |-> "new"] /\ early = {}
  /\ missed = [i \in Instances |-> {}] /\ moved = [i \in Instances |-> {}]
  /\ source = [k \in Keys |-> 0] /\ copy = [i \in Instances |-> Unread] /\ byText = copy
  /\ timers = {} /\ fetches = {} /\ posts = {} /\ streams = {}
  /\ events = [i \in Instances |-> <<>>]
  /\ opened = {} /\ triggers = {} /\ listeners = {} /\ notices = <<>>
  /\ queries = IF kind = "postgres" THEN <<[op |-> "listen"]>> ELSE <<>>
  /\ alive = TRUE /\ down = FALSE /\ writes = 0 /\ fails = 0
-----------------------------------------------------------------------------
\* callbacks.update: with isInit the data replaces what there was.
Update(i, data) == copy' = [copy EXCEPT ![i] = IF phase[i] = "closed" THEN @ ELSE data]

\* The runtime subscribes.
SubscribePolled(i) ==
  /\ kind = "polled" /\ phase' = [phase EXCEPT ![i] = "open"]
  /\ fetches' = fetches \cup {[i |-> i, data |-> Unread]} /\ timers' = timers \cup {i}
  /\ UNCHANGED <<copy, remoteVars, pgVars>>

SubscribeTimer(i) ==
  /\ kind = "timer" /\ phase' = [phase EXCEPT ![i] = "open"]
  /\ Update(i, source) /\ timers' = timers \cup {i}
  /\ UNCHANGED <<fetches, remoteVars, pgVars>>

SubscribeRemote(i) ==
  /\ kind = "remote" /\ phase' = [phase EXCEPT ![i] = "opening"]
  /\ posts' = posts \cup {i}
  /\ UNCHANGED <<copy, pollVars, streams, events, pgVars>>

SubscribePostgres(i) ==
  /\ kind = "postgres" /\ phase' = [phase EXCEPT ![i] = "opening"]
  /\ queries' = Append(queries, [op |-> "select", i |-> i])
  /\ UNCHANGED <<copy, pollVars, remoteVars, byText, opened, triggers, listeners, notices>>

Subscribe(i) ==
  /\ alive /\ ~down /\ phase[i] = "new"
  /\ SubscribePolled(i) \/ SubscribeTimer(i) \/ SubscribeRemote(i) \/ SubscribePostgres(i)
  /\ UNCHANGED <<kind, keyType, early, source, lossVars, down, boundVars>>

\* The connection to the database has ended; a query fails then, which nobody
\* catches: the process exits.
Disconnected == kind = "postgres" /\ down /\ \A n \in DOMAIN queries : queries[n].op # "end"

\* The runtime unsubscribes: what is not open yet is not there to be closed.
ClosePolledKeepsTimer(i) == kind = "polled" /\ UNCHANGED <<timers, remoteVars, opened, triggers, listeners, queries, notices>>
ClosePolled(i) ==
  kind = "polled" /\ timers' = timers \ {i} /\ UNCHANGED <<remoteVars, opened, triggers, listeners, queries, notices>>
CloseTimer(i) ==
  kind = "timer" /\ timers' = timers \ {i} /\ UNCHANGED <<remoteVars, opened, triggers, listeners, queries, notices>>
CloseRemote(i) ==
  /\ kind = "remote" /\ streams' = streams \ {i} /\ events' = [events EXCEPT ![i] = <<>>]
  /\ UNCHANGED <<posts, timers, opened, triggers, listeners, queries, notices>>
ClosePostgres(i) ==
  /\ kind = "postgres"
  /\ queries' = IF i \in opened THEN Append(queries, [op |-> "drop", is |-> {i}]) ELSE queries
  /\ UNCHANGED <<timers, remoteVars, opened, triggers, listeners, notices>>

Unsubscribe(i) ==
  /\ alive /\ phase[i] \in {"opening", "open"}
  /\ phase' = [phase EXCEPT ![i] = "closed"]
  /\ copy' = [copy EXCEPT ![i] = Unread] /\ byText' = [byText EXCEPT ![i] = Unread]
  /\ early' = IF phase[i] = "opening" THEN early \cup {i} ELSE early
  /\ missed' = [missed EXCEPT ![i] = {}] /\ moved' = [moved EXCEPT ![i] = {}]
  /\ ClosePolled(i) \/ CloseTimer(i) \/ CloseRemote(i) \/ ClosePostgres(i)
  /\ alive' = ~(Disconnected /\ i \in opened)
  /\ UNCHANGED <<kind, keyType, source, fetches, down, writes, fails>>

\* The service closes: every external service is shut down, and the instances are
\* unsubscribed afterwards.  GenericExternalService leaves everything to that.
ShutdownGeneric == kind \in {"polled", "timer"} /\ UNCHANGED <<streams, events, opened, queries, notices, alive>>
ShutdownRemote ==
  /\ kind = "remote" /\ streams' = {} /\ events' = [i \in Instances |-> <<>>]
  /\ UNCHANGED <<opened, queries, notices, alive>>

\* The connection ends; a query that had not been answered fails, which nobody
\* catches: the process exits.
Disconnects(pending) == queries' = <<>> /\ notices' = <<>> /\ alive' = (pending = <<>>)

ShutdownPostgres ==
  /\ kind = "postgres" /\ opened' = {}
  /\ IF opened = {} THEN Disconnects(queries)
     ELSE /\ queries' = queries \o <<[op |-> "drop", is |-> opened], [op |-> "end"]>>
          /\ UNCHANGED <<notices, alive>>
  /\ UNCHANGED <<streams, events>>

Shutdown ==
  /\ alive /\ ~down /\ down' = TRUE
  /\ early' = (early \ (streams \cup opened)) \cup {i \in Instances : phase[i] = "opening"}
  /\ ShutdownGeneric \/ ShutdownRemote \/ ShutdownPostgres
  /\ UNCHANGED <<kind, keyType, phase, source, copy, pollVars, posts, byText, triggers, listeners, lossVars, writes, fails>>
-----------------------------------------------------------------------------
\* Polled: the interval asks again, whether or not the last answer is there.
Tick(i) ==
  /\ alive /\ kind = "polled" /\ i \in timers
  /\ Cardinality({f \in fetches : f.i = i}) < InFlight
  /\ fetches' = fetches \cup {[i |-> i, data |-> Unread]}
  /\ UNCHANGED <<kind, keyType, phase, early, source, copy, timers, remoteVars, pgVars, lossVars, down, boundVars>>

\* The source reads its data for a request.
Serves(f) ==
  /\ alive /\ f \in fetches /\ f.data = Unread
  /\ fetches' = (fetches \ {f}) \cup {[f EXCEPT !.data = source]}
  /\ UNCHANGED <<kind, keyType, phase, early, source, copy, timers, remoteVars, pgVars, lossVars, down, boundVars>>

\* The answer replaces the data, in the order the answers come.
Answers(f) ==
  /\ alive /\ f \in fetches /\ f.data # Unread
  /\ fetches' = fetches \ {f} /\ Update(f.i, f.data)
  /\ UNCHANGED <<kind, keyType, phase, early, source, timers, remoteVars, pgVars, lossVars, down, boundVars>>

\* fetchJSON throws: a timeout, a status that is not ok, a text that is not JSON.
FetchFails(f) ==
  /\ alive /\ f \in fetches /\ fails < MaxFails /\ fails' = fails + 1
  /\ fetches' = fetches \ {f}
  /\ UNCHANGED <<kind, keyType, phase, early, source, copy, timers, remoteVars, pgVars, lossVars, down, alive, writes>>

\* TimerResource: the interval of one name replaces the data of all.
TimerTick(i, k) ==
  /\ alive /\ kind = "timer" /\ i \in timers
  /\ Update(i, [Empty EXCEPT ![k] = source[k]])
  /\ UNCHANGED <<kind, keyType, phase, early, source, pollVars, remoteVars, pgVars, lossVars, down, boundVars>>
-----------------------------------------------------------------------------
\* SkipExternalService: the other service has made the resource, and the
\* EventSource is opened, wanted or not.
PostAnswers(i) ==
  /\ alive /\ i \in posts /\ posts' = posts \ {i}
  /\ streams' = streams \cup {i} /\ events' = [events EXCEPT ![i] = <<source>>]
  /\ phase' = [phase EXCEPT ![i] = IF @ = "opening" THEN "open" ELSE @]
  /\ UNCHANGED <<kind, keyType, early, source, copy, pollVars, pgVars, lossVars, down, boundVars>>
PostFails(i) ==
  /\ alive /\ i \in posts /\ fails < MaxFails /\ fails' = fails + 1 /\ posts' = posts \ {i}
  /\ UNCHANGED <<kind, keyType, phase, early, source, copy, pollVars, streams, events, pgVars, lossVars, down, alive, writes>>

HearsEventBehind(i) ==
  /\ alive /\ events[i] # <<>> /\ Update(i, Head(events[i]))
  /\ events' = [events EXCEPT ![i] = IF Len(@) > 1 THEN <<>> ELSE Tail(@)]
  /\ UNCHANGED <<kind, keyType, phase, early, source, pollVars, posts, streams, pgVars, lossVars, down, boundVars>>
\* An init or update event is heard, in order; both leave the data as it was when
\* the event was sent.
HearsEvent(i) ==
  /\ alive /\ events[i] # <<>> /\ Update(i, Head(events[i]))
  /\ events' = [events EXCEPT ![i] = Tail(@)]
  /\ UNCHANGED <<kind, keyType, phase, early, source, pollVars, posts, streams, pgVars, lossVars, down, boundVars>>

\* The connection breaks.  The EventSource makes another, which starts with all
\* data; if the other service has destroyed the instance meanwhile it gives up.
StreamBreaks(i) ==
  /\ alive /\ i \in streams /\ fails < MaxFails /\ fails' = fails + 1
  /\ \/ events' = [events EXCEPT ![i] = <<source>>] /\ UNCHANGED <<streams, missed>>
     \/ /\ streams' = streams \ {i} /\ events' = [events EXCEPT ![i] = <<>>]
        /\ missed' = [missed EXCEPT ![i] = Keys]
  /\ UNCHANGED <<kind, keyType, phase, early, source, copy, pollVars, posts, pgVars, moved, down, alive, writes>>
-----------------------------------------------------------------------------
\* Somebody writes to the source: rows get the values v.  Other Skip services tell
\* their streams; the triggers of the database notify, once for each, the key the row
\* has after the write, or had before its removal.
Notified(k) == {i \in triggers : k \in Watched(i)}
SettingUp(i) == kind = "postgres" /\ phase[i] = "opening" /\ copy[i] # Unread
Writes(v, k) ==
  /\ alive /\ writes < MaxWrites /\ writes' = writes + 1
  /\ source' = v
  /\ events' = [i \in Instances |-> IF i \in streams THEN Append(events[i], source') ELSE events[i]]
  /\ notices' = notices \o [n \in 1..Cardinality(Notified(k)) |-> k]
  /\ missed' = [i \in Instances |->
       IF SettingUp(i) /\ i \notin triggers
       THEN missed[i] \cup {l \in Watched(i) : v[l] # source[l]} ELSE missed[i]]
  /\ UNCHANGED <<kind, keyType, phase, early, copy, pollVars, posts, streams,
                 byText, opened, triggers, listeners, queries, down, alive, fails>>

\* INSERT or UPDATE, and DELETE.
Write(k) == Writes([source EXCEPT ![k] = writes + 1], k) /\ UNCHANGED moved
Delete(k) == source[k] # NoRow /\ Writes([source EXCEPT ![k] = NoRow], k) /\ UNCHANGED moved

\* UPDATE of the key itself.
SameTable(k, l) == kind = "postgres" => (k \in TextKeys <=> l \in TextKeys)
Move(k, l) ==
  /\ k # l /\ SameTable(k, l) /\ source[k] # NoRow /\ source[l] = NoRow
  /\ Writes([source EXCEPT ![k] = NoRow, ![l] = writes + 1], l)
  /\ moved' = [i \in Instances |->
       IF kind = "postgres" /\ k \in Watched(i) THEN moved[i] \cup {k} ELSE moved[i]]

\* setup goes on where its last query ended: SELECT, CREATE FUNCTION, CREATE TRIGGER.
\* The driver gives a BIGINT as a text, and the row stands under that text.
Restricted(i) == [k \in Keys |-> IF k \in Watched(i) THEN source[k] ELSE NoRow]
KeysAsText(i) == keyType = "BIGINT" /\ ~TextTable(i)
SelectDone(q) ==
  /\ q.op = "select"
  /\ IF KeysAsText(q.i)
     THEN /\ Update(q.i, Empty)
          /\ byText' = [byText EXCEPT ![q.i] = IF phase[q.i] = "closed" THEN @ ELSE Restricted(q.i)]
     ELSE Update(q.i, Restricted(q.i)) /\ UNCHANGED byText
  /\ queries' = Append(Tail(queries), [op |-> "function", i |-> q.i])
  /\ UNCHANGED <<phase, opened, triggers, listeners, lossVars>>
FunctionDone(q) ==
  /\ q.op = "function" /\ queries' = Append(Tail(queries), [op |-> "trigger", i |-> q.i])
  /\ UNCHANGED <<phase, copy, byText, opened, triggers, listeners, lossVars>>
TriggerDone(q) ==
  /\ q.op = "trigger" /\ triggers' = triggers \cup {q.i} /\ listeners' = listeners \cup {q.i}
  /\ phase' = [phase EXCEPT ![q.i] = IF @ = "opening" THEN "open" ELSE @]
  /\ opened' = opened \cup {q.i}
  /\ queries' = Tail(queries) /\ UNCHANGED <<copy, byText, lossVars>>

\* The rows of the notified key replace what there was under its number.
RowDone(q) ==
  /\ q.op = "row" /\ queries' = Tail(queries)
  /\ Update(q.i, [copy[q.i] EXCEPT ![q.k] = IF q.k \in Watched(q.i) THEN source[q.k] ELSE NoRow])
  /\ missed' = [missed EXCEPT ![q.i] = @ \ {q.k}] /\ moved' = [moved EXCEPT ![q.i] = @ \ {q.k}]
  /\ UNCHANGED <<phase, byText, opened, triggers, listeners>>
DropDone(q) ==
  /\ q.op = "drop" /\ triggers' = triggers \ q.is /\ opened' = opened \ q.is
  /\ queries' = Tail(queries)
  /\ UNCHANGED <<phase, copy, byText, listeners, lossVars>>
EndDone(q) ==
  /\ q.op = "end" /\ Disconnects(Tail(queries))
  /\ UNCHANGED <<phase, copy, byText, opened, triggers, listeners, lossVars>>
ListenDone(q) ==
  /\ q.op = "listen" /\ queries' = Tail(queries)
  /\ UNCHANGED <<phase, copy, byText, opened, triggers, listeners, lossVars>>
QueryDone ==
  /\ alive /\ queries # <<>>
  /\ LET q == Head(queries)
     IN \/ EndDone(q)
        \/ /\ SelectDone(q) \/ FunctionDone(q) \/ TriggerDone(q) \/ RowDone(q) \/ DropDone(q) \/ ListenDone(q)
           /\ UNCHANGED <<notices, alive>>
  /\ UNCHANGED <<kind, keyType, early, source, pollVars, remoteVars, down, writes, fails>>

\* Every listener hears every notification, whichever instance it is for, and reads
\* the row; one with integer keys throws at a key that is a text, which nobody
\* catches: the process shuts down and exits.
Hears(k) == {i \in listeners : TextTable(i) \/ k \notin TextKeys}
HearsNotice ==
  /\ alive /\ notices # <<>> /\ notices' = Tail(notices)
  /\ alive' = (Hears(Head(notices)) = listeners)
  /\ queries' = queries \o SetToSeq({[op |-> "row", i |-> i, k |-> Head(notices)] : i \in Hears(Head(notices))})
  /\ UNCHANGED <<kind, keyType, phase, early, source, copy, pollVars, remoteVars, byText, opened, triggers, listeners, lossVars, down, writes, fails>>

Next ==
  \/ \E i \in Instances :
       \/ Subscribe(i) \/ Unsubscribe(i) \/ Tick(i) \/ PostAnswers(i) \/ PostFails(i)
       \/ HearsEvent(i) \/ StreamBreaks(i) \/ \E k \in Keys : TimerTick(i, k)
  \/ \E f \in fetches : Serves(f) \/ Answers(f) \/ FetchFails(f)
  \/ \E k \in Keys : Write(k) \/ Delete(k) \/ \E l \in Keys : Move(k, l)
  \/ Shutdown \/ QueryDone \/ HearsNotice

Spec == Init /\ [][Next]_vars

\* Timers fire, requests and queries are answered, events and notifications come.
LiveSpec ==
  /\ Spec /\ WF_vars(QueryDone) /\ WF_vars(HearsNotice)
  /\ \A i \in Instances :
       /\ WF_vars(Tick(i)) /\ WF_vars(PostAnswers(i)) /\ WF_vars(HearsEvent(i))
       /\ WF_vars(\E f \in fetches : f.i = i /\ Serves(f))
       /\ WF_vars(\E f \in fetches : f.i = i /\ Answers(f))
-----------------------------------------------------------------------------
\* An instance that was open when it was unsubscribed leaves no interval, no
\* EventSource and, once the queries under way are done, no trigger (unsubscribe
\* and shutdown of the three services).  One that was not open yet does, until the
\* service it is of is shut down.
Released ==
  \A i \in Instances : phase[i] = "closed" /\ i \notin early =>
    /\ i \notin timers \cup streams
    /\ i \in triggers => \E n \in DOMAIN queries : queries[n].op = "drop" /\ i \in queries[n].is

\* What the collection has of a key's row: under the key, or under its text.
RowsOf(i, k) == {copy[i][k], byText[i][k]} \ {NoRow, Unread[k]}
Copied(i, k) == RowsOf(i, k) = {source[k]} \ {NoRow}

\* When the source is left alone, the collection of an open instance becomes the
\* source's data, although answers overtake each other and connections break: not the
\* rows whose last write came between setup's SELECT and its trigger, nor the keys
\* that rows have left, nor once the other service has given the instance up.  A
\* BIGINT's row is there under its number, with what it was before left beside it
\* under its text, or under its text alone.
Follows ==
  kind # "timer" => \A i \in Instances :
    <>[](alive /\ ~down /\ phase[i] = "open" =>
           \A k \in Watched(i) \ (missed[i] \cup moved[i]) :
             copy[i][k] = source[k] \/ (copy[i][k] = NoRow /\ Copied(i, k)))
-----------------------------------------------------------------------------
\* What Released rests on: each service has its own kind of resource, an instance is
\* set up once, by what is under way for it while it opens, and a shutdown's drops
\* are done before its end.
QuerySet ==
  [op : {"listen", "end"}] \cup [op : {"select", "function", "trigger"}, i : Instances]
    \cup [op : {"row"}, i : Instances, k : Keys] \cup [op : {"drop"}, is : SUBSET Instances]
ExternalTypes ==
  /\ kind \in Kinds /\ down \in BOOLEAN
  /\ phase \in [Instances -> {"new", "opening", "open", "closed"}] /\ queries \in Seq(QuerySet)
  /\ UNION {early, timers, posts, streams, opened, triggers, listeners} \subseteq Instances /\ notices \in Seq(Keys)
Apart ==
  /\ timers # {} => kind \in {"polled", "timer"}
  /\ posts \cup streams # {} => kind = "remote"
  /\ opened # {} \/ triggers # {} \/ listeners # {} \/ queries # <<>> => kind = "postgres"
IsSetup(q) == q.op \in {"select", "function", "trigger"}
Unready(ph, un, i) == ph[i] = "opening" \/ (ph[i] = "closed" /\ i \in un)
HasDrop(q, i) == \E n \in DOMAIN q : q[n].op = "drop" /\ i \in q[n].is
Queued(q, ph, un, ea, d) ==
  /\ \A n \in DOMAIN q : IsSetup(q[n]) => Unready(ph, un, q[n].i)
  /\ \A n, m \in DOMAIN q : IsSetup(q[n]) /\ IsSetup(q[m]) /\ q[n].i = q[m].i => n = m
  /\ \A n, m \in DOMAIN q : q[n].op = "end" => d /\ (q[m].op = "drop" /\ ~(q[m].is \subseteq ea) => m < n)
Owned ==
  /\ \A i \in timers : phase[i] = "open"
  /\ \A i \in posts : Unready(phase, early, i) /\ i \notin streams
  /\ \A i \in streams : phase[i] = "open" \/ (phase[i] = "closed" /\ i \in early)
  /\ \A i \in Instances : down /\ phase[i] = "opening" => i \in early
  /\ \A i \in opened : phase[i] \in {"open", "closed"} /\ (down => i \in early)
  /\ ~down => triggers \subseteq opened
DroppedLater ==
  \A i \in triggers \ early : phase[i] = "closed" \/ (down /\ phase[i] = "open") => HasDrop(queries, i)
ReleaseInv ==
  /\ ExternalTypes /\ Apart /\ Owned /\ DroppedLater
  /\ Queued(queries, phase, early \ opened, early, down)
=============================================================================
