------------------------------- MODULE Mirror -------------------------------
(***************************************************************************)
(* SKDBServer.mirror and the calls around it (skdb_orchestration.ts,       *)
(* skdb_database.ts): tearing down the current mirror, asking the server   *)
(* for the schemas of all tables at once, establishing the local tail and  *)
(* the server tail.  Call 1 is the one connect makes for the tables of     *)
(* permissions; calls may overlap, for mirror awaits the network.          *)
(***************************************************************************)
EXTENDS Integers, Sequences, SequencesExt, FiniteSets, FiniteSetsExt

CONSTANTS Plans,    \* the tables the application's calls may name, in their order
          Views,    \* tables that are views on the server
          Legacy,   \* tables only whose legacy schema fits
          Missing,  \* tables the server does not have
          NbrCalls, \* bound: calls of mirror
          MaxFails, \* bound: requests that are refused
          MaxLost   \* bound: streams that fail

Meta == <<"user_permissions", "group_permissions", "groups">>
AllTables == Range(Meta) \cup UNION {UNION {Range(p[i]) : i \in DOMAIN p} : p \in Plans}

ASSUME MirrorConstants ==
  /\ MaxFails \in Nat /\ MaxLost \in Nat /\ NbrCalls \in Nat
  /\ \A p \in Plans : p \in Seq(Seq(STRING)) /\ Len(p) < NbrCalls
  /\ Views \cap Range(Meta) = {} \* privacy/init.sql creates tables
  /\ Views \cap Legacy = {} /\ Missing \cap (Views \cup Legacy) = {}

VARIABLES calls,            \* what the application's calls name
          made,             \* calls of mirror so far
          stage,            \* where each call is
          setup,            \* where each call is with each table
          mirroredTables,   \* in the order they were entered
          tailTables,       \* the tables a call's local tail is being set up for
          localTailSession, \* the call whose session it is, 0 for none
          sessions,         \* the sessions the local database serves, and their tables
          mirrorStreams,    \* streams the next call will close
          openStreams,      \* resilient streams that are attached to a stream
          replacing,        \* resilient streams whose stream has failed
          revenants,        \* those that a call closed then
          localTables,      \* tables created here
          connected,        \* connect has ended
          quiet,            \* no call has been made while another had tables to set up
          fails, lost

progressVars == <<calls, made, stage, setup, tailTables, connected, quiet, fails, lost>>
fieldVars == <<mirroredTables, localTailSession, mirrorStreams>>
streamVars == <<openStreams, replacing, revenants>>
servedVars == <<sessions, streamVars, localTables>>
mirrorVars == <<progressVars, fieldVars, servedVars>>

\* SKDBSyncImpl.mirror: the tables of permissions come with every mirror, next to what
\* the caller named.  All are asked for at once: their order is the answers'.
Named(c) == IF c = 1 THEN <<>> ELSE calls[c - 1]
Asked(c) == Range(Named(c)) \cup Range(Meta)
Ended(c) == stage[c] \in {"resolved", "rejected"}
Idle(c) == \A t \in AllTables : setup[c][t] \in {"none", "done", "failed"}

MirrorInit ==
  /\ calls \in Plans /\ made = 0 /\ connected = FALSE /\ quiet = TRUE /\ fails = 0 /\ lost = 0
  /\ stage = [c \in 1..NbrCalls |-> "none"]
  /\ setup = [c \in 1..NbrCalls |-> [t \in AllTables |-> "none"]]
  /\ tailTables = [c \in 1..NbrCalls |-> <<>>]
  /\ mirroredTables = <<>> /\ localTailSession = 0 /\ mirrorStreams = {}
  /\ sessions = {} /\ localTables = {}
  /\ openStreams = {} /\ replacing = {} /\ revenants = {}
-----------------------------------------------------------------------------
\* ResilientStream.close of the streams of the current mirror: one that is being
\* replaced has no stream to close, and nothing keeps it from coming back.
CloseStreams ==
  /\ openStreams' = openStreams \ mirrorStreams
  /\ revenants' = revenants \cup (mirrorStreams \cap replacing)
  /\ mirrorStreams' = {} /\ UNCHANGED replacing

StartSetup(c) ==
  /\ made' = c /\ quiet' = (quiet /\ \A d \in 1..made : Ended(d) /\ Idle(d))
  /\ stage' = [stage EXCEPT ![c] = "setup"]
  /\ setup' = [setup EXCEPT ![c] = [t \in AllTables |-> IF t \in Asked(c) THEN "view" ELSE "none"]]
  /\ UNCHANGED <<calls, tailTables, connected, fails, lost, localTables>>

CallsKeepingSession ==
  /\ made <= Len(calls)
  /\ CloseStreams /\ mirroredTables' = <<>> /\ localTailSession' = 0
  /\ StartSetup(made + 1) /\ UNCHANGED sessions

\* mirror, up to its first await: the current session is unsubscribed, its streams
\* are closed, the schemas are asked for.
CallMirror ==
  /\ made <= Len(calls)
  /\ sessions' = {s \in sessions : s.call # localTailSession} /\ localTailSession' = 0
  /\ CloseStreams /\ mirroredTables' = <<>>
  /\ StartSetup(made + 1)

\* setupTable after viewSchema: two more requests.
SetupHearsView(c, t) ==
  /\ setup[c][t] = "view" /\ setup' = [setup EXCEPT ![c][t] = "schema"]
  /\ UNCHANGED <<calls, made, stage, tailTables, connected, quiet, fails, lost, fieldVars, servedVars>>

TableReady(c, t) ==
  LET names == IF t \in Views \/ t \in Range(mirroredTables) THEN mirroredTables
               ELSE Append(mirroredTables, t)
      last == stage[c] = "setup" /\ \A u \in Asked(c) \ {t} : setup[c][u] = "done"
  IN
  /\ setup' = [setup EXCEPT ![c][t] = "done"] /\ mirroredTables' = names
  /\ stage' = IF ~last THEN stage
              ELSE [stage EXCEPT ![c] = IF names = <<>> THEN "server tail" ELSE "local tail"]
  /\ tailTables' = IF last THEN [tailTables EXCEPT ![c] = names] ELSE tailTables

Rejected(c) == [stage EXCEPT ![c] = IF @ = "resolved" THEN @ ELSE "rejected"]

\* setupTable with the schemas: a table the server lacks rejects the call; the
\* other tables go on.  The table is created here; a table whose schema does not
\* fit is asked for once more.
SetupHearsSchema(c, t) ==
  /\ setup[c][t] = "schema"
  /\ \/ /\ t \in Missing
        /\ setup' = [setup EXCEPT ![c][t] = "failed"] /\ stage' = Rejected(c)
        /\ UNCHANGED <<mirroredTables, tailTables, localTables>>
     \/ /\ t \in Legacy /\ localTables' = localTables \cup {t}
        /\ setup' = [setup EXCEPT ![c][t] = "legacy"]
        /\ UNCHANGED <<stage, mirroredTables, tailTables>>
     \/ t \notin Missing \cup Legacy /\ localTables' = localTables \cup {t} /\ TableReady(c, t)
  /\ UNCHANGED <<calls, made, connected, quiet, fails, lost, localTailSession, mirrorStreams, sessions, streamVars>>

SetupHearsLegacy(c, t) ==
  /\ setup[c][t] = "legacy" /\ TableReady(c, t)
  /\ UNCHANGED <<calls, made, connected, quiet, fails, lost, localTailSession, mirrorStreams, servedVars>>

\* A request or the opening of a stream is refused: the connection has failed for
\* good.
RequestFails(c, t) ==
  /\ fails < MaxFails /\ fails' = fails + 1 /\ setup[c][t] \in {"view", "schema", "legacy"}
  /\ setup' = [setup EXCEPT ![c][t] = "failed"] /\ stage' = Rejected(c)
  /\ UNCHANGED <<calls, made, tailTables, connected, quiet, lost, fieldVars, servedVars>>
OpenFails(c) ==
  /\ fails < MaxFails /\ fails' = fails + 1
  /\ stage[c] \in {"local tail", "server tail"} /\ stage' = Rejected(c)
  /\ UNCHANGED <<calls, made, setup, tailTables, connected, quiet, lost, fieldVars, servedVars>>

\* establishLocalTail once its stream is open.
LocalTailOpens(c) ==
  /\ stage[c] = "local tail" /\ stage' = [stage EXCEPT ![c] = "server tail"]
  /\ openStreams' = openStreams \cup {<<c, "up">>}
  /\ mirrorStreams' = mirrorStreams \cup {<<c, "up">>}
  /\ sessions' = sessions \cup {[call |-> c, tables |-> tailTables[c]]}
  /\ localTailSession' = c
  /\ UNCHANGED <<calls, made, setup, tailTables, connected, quiet, fails, lost, mirroredTables, replacing, revenants, localTables>>

\* establishServerTail once its stream is open.
ServerTailOpens(c) ==
  /\ stage[c] = "server tail" /\ stage' = [stage EXCEPT ![c] = "tailing"]
  /\ openStreams' = openStreams \cup {<<c, "down">>}
  /\ mirrorStreams' = mirrorStreams \cup {<<c, "down">>}
  /\ UNCHANGED <<calls, made, setup, tailTables, connected, quiet, fails, lost, mirroredTables, localTailSession, sessions, replacing,
                 revenants, localTables>>

\* The snapshot is there, unless the stream was closed by a later call; connect
\* goes on to its end.
Resolves(c) ==
  /\ stage[c] = "tailing" /\ <<c, "down">> \in openStreams
  /\ stage' = [stage EXCEPT ![c] = "resolved"]
  /\ connected' = (connected \/ c = 1)
  /\ UNCHANGED <<calls, made, setup, tailTables, quiet, fails, lost, fieldVars, servedVars>>

\* ResilientStream.replaceFailedStream up to its await, and after it: the new stream
\* is attached and onReconnect sends the request of the stream's own call again.
MirrorStreamFails(s) ==
  /\ lost < MaxLost /\ lost' = lost + 1 /\ s \in openStreams
  /\ openStreams' = openStreams \ {s} /\ replacing' = replacing \cup {s}
  /\ UNCHANGED <<calls, made, stage, setup, tailTables, connected, quiet, fails, fieldVars,
                 sessions, revenants, localTables>>
MirrorStreamReturns(s) ==
  /\ s \in replacing
  /\ openStreams' = openStreams \cup {s} /\ replacing' = replacing \ {s}
  /\ UNCHANGED <<progressVars, fieldVars, sessions, revenants, localTables>>

\* The tables whose unacknowledged writes are looked for.
tablesAwaitingSync == IF localTailSession = 0 THEN {} ELSE Range(mirroredTables)
-----------------------------------------------------------------------------
Progress(c) ==
  \/ \E t \in AllTables : SetupHearsView(c, t) \/ SetupHearsSchema(c, t) \/ SetupHearsLegacy(c, t)
                          \/ RequestFails(c, t)
  \/ LocalTailOpens(c) \/ ServerTailOpens(c) \/ OpenFails(c) \/ Resolves(c)
AllStreams == (1..NbrCalls) \X {"up", "down"}
MirrorNext ==
  \/ CallMirror \/ \E c \in 1..NbrCalls : Progress(c)
  \/ \E s \in AllStreams : MirrorStreamFails(s) \/ MirrorStreamReturns(s)
MirrorSpec == MirrorInit /\ [][MirrorNext]_mirrorVars
-----------------------------------------------------------------------------
\* The streams of a call, and those that are open or will be.
StreamsOf(c) == {<<c, "up">>, <<c, "down">>}
Held == openStreams \cup replacing

\* mirror replaces the current mirror: every stream is one that the next call will
\* close, but for those a call closed while they were being replaced.  Once the
\* latest call is through, and no call was made while an earlier one, rejected or
\* not, still set up tables, the two others are its own, the local database serves
\* one session, for the tables of that call that can be written, and
\* tablesAwaitingSync looks at the same tables.
ReplaceSemantics ==
  /\ Held \subseteq mirrorStreams \cup revenants
  /\ quiet /\ made > 0 /\ stage[made] = "resolved" =>
       /\ Held \ revenants = StreamsOf(made)
       /\ \E tables \in {s.tables : s \in sessions} :
            /\ sessions = {[call |-> made, tables |-> tables]}
            /\ Range(tables) = Asked(made) \ Views
            /\ tablesAwaitingSync = Range(tables)
-----------------------------------------------------------------------------
\* What ReplaceSemantics rests on: as long as calls do not overlap, all that is open,
\* served or mirrored is of the latest call, and as far along as that call is.
MirrorTypeOK ==
  /\ calls \in Plans /\ made \in 0..(Len(calls) + 1) /\ quiet \in BOOLEAN
  /\ stage \in [1..NbrCalls -> {"none", "setup", "local tail", "server tail", "tailing", "resolved", "rejected"}]
  /\ setup \in [1..NbrCalls -> [AllTables -> {"none", "view", "schema", "legacy", "done", "failed"}]]
  /\ tailTables \in [1..NbrCalls -> Seq(AllTables)] /\ mirroredTables \in Seq(AllTables)
NotYetMade ==
  \A c \in 1..NbrCalls : c > made => stage[c] = "none" /\ \A t \in AllTables : setup[c][t] = "none"
EarlierOver == \A c \in 1..(made - 1) : Ended(c) /\ Idle(c)
LatestServed ==
  /\ mirrorStreams \subseteq Held /\ mirrorStreams \subseteq StreamsOf(made)
  /\ \A s \in revenants : s[1] \in 0..(made - 1)
  /\ localTailSession \in {0, made}
  /\ sessions = IF localTailSession = 0 THEN {} ELSE {[call |-> made, tables |-> tailTables[made]]}
LatestTables(c) ==
  /\ \A t \in AllTables : t \notin Asked(c) => setup[c][t] = "none"
  /\ Range(mirroredTables) = {t \in Asked(c) : setup[c][t] = "done"} \ Views
LatestStage(c) ==
  /\ stage[c] \in {"setup", "local tail"} => localTailSession = 0 /\ mirrorStreams = {}
  /\ stage[c] \in {"local tail", "server tail", "tailing", "resolved"} =>
       tailTables[c] = mirroredTables /\ \A t \in Asked(c) : setup[c][t] = "done"
  /\ stage[c] \in {"server tail", "tailing", "resolved"} => localTailSession = c
  /\ stage[c] = "server tail" => mirrorStreams = {<<c, "up">>}
  /\ stage[c] \in {"tailing", "resolved"} => mirrorStreams = StreamsOf(c)
MirrorInv ==
  /\ MirrorTypeOK /\ NotYetMade /\ Held \subseteq mirrorStreams \cup revenants
  /\ quiet => EarlierOver /\ LatestServed /\ (made > 0 => LatestTables(made) /\ LatestStage(made))
=============================================================================
