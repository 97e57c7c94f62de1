------------------------------ MODULE LocalDb -------------------------------
(***************************************************************************)
(* The local database's JavaScript side (skdb_skdb.ts, skdb_database.ts):  *)
(* exec and insert, watched queries and the notifications that tell their  *)
(* owners of changes, subscriptions through files, storage.  All but the   *)
(* storage is synchronous, but the owners' callbacks call back into it;    *)
(* the stack holds what waits for a callback to return.  Every query and   *)
(* every subscription is about the whole of one table, and the owner of a  *)
(* subscription only notes what it hears.                                  *)
(***************************************************************************)
EXTENDS Integers, Sequences, SequencesExt, FiniteSets

CONSTANTS Rows,
          Batch,    \* rows per statement of insertMany (1000)
          MaxOps,   \* bound: operations of the application
          MaxDepth, \* bound: nesting of callbacks
          MaxWatch, \* bound: watches ever made
          MaxSubs   \* bound: subscriptions

Selected == "selected"  \* a row of some other table
NoOp == 0
NoTick == -1

ASSUME LocalDbConstants ==
  /\ IsFiniteSet(Rows) /\ Selected \notin Rows /\ Batch \in Nat \ {0}
  /\ MaxOps \in Nat /\ MaxDepth \in Nat /\ MaxWatch \in Nat /\ MaxSubs \in Nat

VARIABLES hist,         \* the table after each transaction
          fs,           \* the file system, with a file per subscription
          subs,         \* per subscription: the rows its owner knows of
          active,       \* the kind of the engine's query under each id, or "none"
          marked,       \* queriesToNotify
          torn,         \* main has failed after it wrote, and was not called since
          notifications, notifying,
          userFuns,     \* whose callback each id has, NoOp after close
          funLastTick, freeQueryIDs,
          queryID,      \* ids handed out so far
          out,          \* stdout_objects
          stack,        \* callbacks and calls that have not returned
          handle,       \* per watch: its id, its kind, whether it is open
          robbed,       \* watches whose id was closed through the handle of an earlier owner
          seen,         \* per watch: the rows its owner knows of
          disturbed,    \* a callback has thrown, or what a call selected was left for a watcher
          ops

Ids == 1..MaxWatch
Watches == 1..MaxWatch
subVars == <<fs, subs>>
engineVars == <<hist, active, subVars>>
notifyVars == <<marked, torn, notifications, notifying>>
queryVars == <<userFuns, funLastTick, freeQueryIDs, queryID>>
ownerVars == <<handle, robbed, seen, disturbed, ops>>
dbVars == <<engineVars, notifyVars, queryVars, out, stack, ownerVars>>

Files == INSTANCE MemFS

\* What the first start puts in IndexedDB.  No save replaces it: see save.
Image == {}
Restored == <<Image>>

Nothing == [rows |-> {}, added |-> {}, removed |-> {}, tick |-> NoTick]
Table == Last(hist)
Tick == Len(hist)
Diff(a, b) == (a \ b) \cup (b \ a)
Changed(since) == {r \in Rows : \E t \in since + 1..Tick : t > 1 /\ r \in Diff(hist[t], hist[t - 1])}

NoHandle == [id |-> 0, kind |-> "none", open |-> FALSE]

DbInit ==
  /\ hist = <<Image>> /\ fs = Files!Empty /\ subs = <<>> /\ active = [i \in Ids |-> "none"]
  /\ marked = {} /\ torn = FALSE /\ notifications = <<>> /\ notifying = FALSE
  /\ userFuns = [i \in Ids |-> NoOp] /\ funLastTick = [i \in Ids |-> 0]
  /\ freeQueryIDs = <<>> /\ queryID = 0 /\ out = Nothing /\ stack = <<>>
  /\ handle = [w \in Watches |-> NoHandle] /\ robbed = {}
  /\ seen = [w \in Watches |-> {}] /\ disturbed = FALSE /\ ops = 0

Top == IF stack = <<>> THEN [f |-> "user"] ELSE Last(stack)
\* The application runs: outside of any call, or in a callback.
AppRuns == Top.f \in {"user", "callback"} /\ ops < MaxOps /\ Len(stack) < MaxDepth
Pop == Front(stack)
-----------------------------------------------------------------------------
notifyAllJSUnlessBusy(touched, frames) ==
  LET starts == marked \cup touched # {} /\ ~notifying IN
  /\ marked' = {} /\ torn' = FALSE
  /\ notifications' = IF starts THEN Append(notifications, marked \cup touched) ELSE notifications
  /\ notifying' = (notifying \/ starts)
  /\ stack' = frames \o (IF starts THEN <<[f |-> "loop", todo |-> {}]>> ELSE <<>>)

\* main after the statement has run: the queries it touched are queued, and unless
\* a loop further down is at it, a loop starts.
notifyAllJS(touched, frames) ==
  LET toNotify == marked \cup touched
      starts == toNotify # {} /\ ~notifying
  IN
  /\ marked' = {} /\ torn' = FALSE
  /\ notifications' = IF toNotify = {} THEN notifications ELSE Append(notifications, toNotify)
  /\ notifying' = (notifying \/ starts)
  /\ stack' = frames \o (IF starts THEN <<[f |-> "loop", todo |-> {}]>> ELSE <<>>)
Touched(next) == IF next = Table THEN {} ELSE {i \in Ids : active[i] # "none"}

\* What is written to a subscription's file, and what its owner makes of it.
RowsOf(next) == SetToSeq({[row |-> r, in |-> r \in next] : r \in Diff(next, Table)})
Checkpoint == <<[row |-> Selected, in |-> FALSE]>>
Heard(known, text) ==
  LET changes == Range(text) \* a row is in the text once
  IN (known \ {c.row : c \in changes}) \cup {c.row : c \in {d \in changes : d.in}}

\* A statement that changes the table is a transaction; the engine writes the change
\* to the files before main returns, and a file that is closed tells its owner.
NotifySub(files, n, rows) == Files!Written(files, n, rows, Checkpoint)
FilesAfter(rows) ==
  LET files[n \in 0..Len(subs)] ==
        IF n = 0 THEN fs ELSE Files!closeFile(NotifySub(files[n - 1], n, rows), n)
  IN files
NotifySubs(next) ==
  IF subs = <<>> THEN UNCHANGED subVars
  ELSE LET rows == RowsOf(next)
           files == FilesAfter(rows)
       IN /\ fs' = files[Len(subs)]
          /\ subs' = [n \in DOMAIN subs |-> Heard(subs[n], Files!Tells(NotifySub(files[n - 1], n, rows), n))]
Writes(next) ==
  IF next = Table THEN UNCHANGED <<hist, subVars>>
  ELSE hist' = Append(hist, next) /\ NotifySubs(next)

\* exec through runner: the output is cleared, the statements run and print, main
\* notifies, and only then is the output taken as the result.
Nexts == {Table} \cup {Table \cup {r} : r \in Rows} \cup {Table \ {r} : r \in Rows}
Output(selects) == [Nothing EXCEPT !.rows = IF selects THEN {Selected} ELSE {}]
exec ==
  \E next \in Nexts, selects \in BOOLEAN :
    /\ AppRuns /\ ops' = ops + 1
    /\ disturbed' = (disturbed \/ (selects /\ marked \cup Touched(next) # {}))
    /\ Writes(next) /\ out' = Output(selects)
    /\ notifyAllJS(Touched(next), Append(stack, [f |-> "exec"]))
    /\ UNCHANGED <<active, queryVars, handle, robbed, seen>>

RunnerReturns ==
  /\ Top.f = "exec" /\ stack' = Pop /\ out' = Nothing
  /\ UNCHANGED <<engineVars, notifyVars, queryVars, ownerVars>>

\* tableSchema, viewSchema, schema and notifyConnectedAs print text or write to
\* tables nobody watches here; main looks for queries to notify all the same.
schema ==
  /\ AppRuns /\ ops' = ops + 1 /\ notifyAllJS({}, stack)
  /\ UNCHANGED <<engineVars, queryVars, out, handle, robbed, seen, disturbed>>

\* insert goes to main without the runner.
insert ==
  \E r \in Rows :
    /\ AppRuns /\ ops' = ops + 1
    /\ Writes(Table \cup {r}) /\ notifyAllJS(Touched(Table \cup {r}), stack)
    /\ UNCHANGED <<active, queryVars, out, handle, robbed, seen, disturbed>>

\* insertMany: main is asked for the schema, then one statement per Batch rows, each
\* with its notifications.
insertMany ==
  \E left \in SUBSET Rows :
    /\ AppRuns /\ ops' = ops + 1
    /\ notifyAllJS({}, Append(stack, [f |-> "many", left |-> left]))
    /\ UNCHANGED <<engineVars, queryVars, out, handle, robbed, seen, disturbed>>
InsertsBatch ==
  /\ Top.f = "many" /\ Top.left # {}
  /\ \E rows \in SUBSET Top.left :
       /\ rows # {} /\ (Cardinality(rows) = Batch \/ (rows = Top.left /\ Cardinality(rows) < Batch))
       /\ Writes(Table \cup rows)
       /\ notifyAllJS(Touched(Table \cup rows), Append(Pop, [f |-> "many", left |-> Top.left \ rows]))
  /\ UNCHANGED <<active, queryVars, out, ownerVars>>
InsertManyReturns ==
  /\ Top.f = "many" /\ Top.left = {} /\ stack' = Pop
  /\ UNCHANGED <<engineVars, notifyVars, queryVars, out, ownerVars>>

\* main throws: a statement has printed an error, and nothing is notified.  The
\* statements of an exec are transactions of their own: those before the failure
\* have written, marked queries and printed.
ExecFails ==
  \E next \in Nexts, selects \in BOOLEAN :
    /\ AppRuns /\ ops' = ops + 1
    /\ disturbed' = (disturbed \/ selects)
    /\ Writes(next) /\ out' = Output(selects)
    /\ marked' = marked \cup Touched(next) /\ torn' = (torn \/ Touched(next) # {})
    /\ UNCHANGED <<active, notifications, notifying, queryVars, stack, handle, robbed, seen>>

\* The one statement of the other calls has changed nothing.
MainFails ==
  \/ /\ AppRuns /\ ops' = ops + 1
     /\ UNCHANGED <<engineVars, notifyVars, queryVars, out, stack, handle, robbed, seen, disturbed>>
  \/ /\ Top.f = "many" /\ Top.left # {} /\ stack' = Pop
     /\ UNCHANGED <<engineVars, notifyVars, queryVars, out, ownerVars>>

\* subscribe: a new file is watched and the engine told to write to it.
subscribe ==
  /\ AppRuns /\ ops' = ops + 1 /\ Len(subs) < MaxSubs
  /\ fs' = Files!watchFile(fs, Len(subs) + 1, Len(subs) + 1) /\ subs' = Append(subs, Table)
  /\ notifyAllJS({}, stack)
  /\ UNCHANGED <<hist, active, queryVars, out, handle, robbed, seen, disturbed>>

\* save rejects: SKDBMemory.update reads dirtyPagesMap, which has no value before
\* clear, and only a save that completed calls clear.
save ==
  /\ AppRuns /\ ops' = ops + 1
  /\ UNCHANGED <<engineVars, notifyVars, queryVars, out, stack, handle, robbed, seen, disturbed>>

\* The page is closed at any time and opened again: createSync restores the stored
\* pages, all else is lost.
Reload ==
  /\ ops < MaxOps /\ ops' = ops + 1
  /\ hist' = Restored /\ fs' = Files!Empty /\ subs' = <<>> /\ active' = [i \in Ids |-> "none"]
  /\ marked' = {} /\ torn' = FALSE /\ notifications' = <<>> /\ notifying' = FALSE
  /\ userFuns' = [i \in Ids |-> NoOp] /\ funLastTick' = [i \in Ids |-> 0]
  /\ freeQueryIDs' = <<>> /\ queryID' = 0 /\ out' = Nothing /\ stack' = <<>>
  /\ handle' = [w \in Watches |-> NoHandle] /\ robbed' = {} /\ seen' = [w \in Watches |-> {}] /\ disturbed' = FALSE
-----------------------------------------------------------------------------
(* Watched queries. *)

\* What an owner knows after its callback was called with an output: all rows, or
\* for watchChanges the changes if there are any.
Told(known, kind, first, o) ==
  CASE kind = "rows" -> o.rows
    [] kind = "changes" /\ o.added \cup o.removed # {} -> (known \ o.removed) \cup o.added
    [] OTHER -> IF o.rows # {} \/ first THEN o.rows ELSE known
Callback(id, kind, o) == [f |-> "callback", id |-> id, changes |-> kind = "changes", tick |-> o.tick]

NewWatch == CHOOSE v \in Watches : handle[v].kind = "none"
NewId == IF freeQueryIDs = <<>> THEN queryID + 1 ELSE Last(freeQueryIDs)
TakesId ==
  /\ \E v \in Watches : handle[v].kind = "none"
  /\ IF freeQueryIDs = <<>>
     THEN queryID < MaxWatch /\ queryID' = queryID + 1 /\ UNCHANGED freeQueryIDs
     ELSE freeQueryIDs' = Front(freeQueryIDs) /\ UNCHANGED queryID

\* watch and watchChanges: an id is taken, the query is made and prints its rows,
\* and the owner hears them at once.
manageWatch ==
  \E kind \in {"rows", "changes"} :
    LET w == NewWatch
        id == NewId
        o == [Nothing EXCEPT !.rows = Table, !.tick = IF kind = "changes" THEN Tick ELSE NoTick]
    IN
    /\ AppRuns /\ ops' = ops + 1 /\ TakesId
    /\ userFuns' = [userFuns EXCEPT ![id] = w] /\ funLastTick' = [funLastTick EXCEPT ![id] = 0]
    /\ active' = [active EXCEPT ![id] = kind]
    /\ handle' = [handle EXCEPT ![w] = [id |-> id, kind |-> kind, open |-> TRUE]]
    /\ out' = o /\ seen' = [seen EXCEPT ![w] = Told(@, kind, TRUE, o)]
    /\ stack' = Append(stack, Callback(id, kind, o))
    /\ UNCHANGED <<hist, subVars, notifyVars, robbed, disturbed>>

\* A query that does not parse: runCheckError throws, the id stays taken and has
\* the callback of a watch that nobody can close.
WatchFails ==
  /\ AppRuns /\ ops' = ops + 1 /\ TakesId
  /\ userFuns' = [userFuns EXCEPT ![NewId] = NewWatch]
  /\ funLastTick' = [funLastTick EXCEPT ![NewId] = 0]
  /\ handle' = [handle EXCEPT ![NewWatch] = [id |-> NewId, kind |-> "failed", open |-> FALSE]]
  /\ out' = Nothing
  /\ UNCHANGED <<engineVars, notifyVars, stack, robbed, seen, disturbed>>

DeletesTwice(id) ==
  /\ active' = [active EXCEPT ![id] = "none"]
  /\ funLastTick' = [funLastTick EXCEPT ![id] = 0] /\ freeQueryIDs' = Append(freeQueryIDs, id)

\* The end of close in the engine: the query under the id is deleted, whereupon the
\* id is given back.  Where there is none, nothing happens.
DeleteQuery(id) ==
  IF active[id] = "none" THEN UNCHANGED <<active, funLastTick, freeQueryIDs>>
  ELSE /\ active' = [active EXCEPT ![id] = "none"]
       /\ funLastTick' = [funLastTick EXCEPT ![id] = 0] /\ freeQueryIDs' = Append(freeQueryIDs, id)

\* close, as often as the application calls it: whatever callback the id has becomes
\* a no-op and whatever query it has is deleted.
CloseWatch ==
  \E w \in Watches :
    LET id == handle[w].id IN
    /\ AppRuns /\ ops' = ops + 1 /\ handle[w].kind \in {"rows", "changes"}
    /\ handle' = [handle EXCEPT ![w].open = FALSE]
    /\ robbed' = IF handle[w].open /\ w \notin robbed THEN robbed ELSE robbed \cup ({userFuns[id]} \ {NoOp})
    /\ userFuns' = [userFuns EXCEPT ![id] = NoOp] /\ DeleteQuery(id)
    /\ UNCHANGED <<hist, subVars, notifyVars, queryID, out, stack, seen, disturbed>>
-----------------------------------------------------------------------------
(* Notifications. *)

\* SKIP_reactive_print_result adds to the output.
Printed(id) ==
  CASE active[id] = "rows" -> [out EXCEPT !.rows = @ \cup Table]
    [] active[id] = "changes" ->
         LET c == Changed(funLastTick[id]) IN
         [rows |-> out.rows, added |-> out.added \cup (c \cap Table), removed |-> out.removed \cup (c \ Table),
          tick |-> IF out.tick = NoTick THEN Tick ELSE out.tick]
    [] OTHER -> out

Notifies ==
  /\ Top.f = "loop" /\ Top.todo # {}
  /\ \E id \in Top.todo :
       LET rest == Append(Pop, [f |-> "loop", todo |-> Top.todo \ {id}])
           w == userFuns[id]
           kind == handle[w].kind
       IN
       /\ out' = Printed(id)
       /\ IF w = NoOp THEN stack' = rest /\ UNCHANGED seen
          ELSE /\ seen' = [seen EXCEPT ![w] = Told(@, kind, FALSE, Printed(id))]
               /\ stack' = Append(rest, Callback(id, kind, Printed(id)))
  /\ UNCHANGED <<engineVars, notifyVars, queryVars, handle, robbed, disturbed, ops>>
NextBatch ==
  /\ Top.f = "loop" /\ Top.todo = {} /\ notifications # <<>>
  /\ notifications' = Tail(notifications)
  /\ stack' = Append(Pop, [f |-> "loop", todo |-> Head(notifications)])
  /\ UNCHANGED <<engineVars, marked, torn, notifying, queryVars, out, ownerVars>>
LoopEnds ==
  /\ Top.f = "loop" /\ Top.todo = {} /\ notifications = <<>>
  /\ notifying' = FALSE /\ stack' = Pop
  /\ UNCHANGED <<engineVars, marked, torn, notifications, queryVars, out, ownerVars>>

\* The rest of queryFun once the owner's callback is back: watchChanges notes the
\* tick it printed for, the output is cleared.
CallbackReturns ==
  /\ Top.f = "callback" /\ stack' = Pop /\ out' = Nothing
  /\ funLastTick' = [funLastTick EXCEPT ![Top.id] = IF ~Top.changes THEN @ ELSE IF Top.tick = NoTick THEN 0 ELSE Top.tick]
  /\ UNCHANGED <<engineVars, notifyVars, userFuns, freeQueryIDs, queryID, ownerVars>>

\* A callback throws: everything up to the caller that may catch it is left, with
\* nothing done but the loop's finally.
Catchers == {0} \cup {n \in 1..Len(stack) - 1 : stack[n].f = "callback"}
CallbackThrows ==
  /\ Top.f = "callback" /\ disturbed' = TRUE
  /\ \E n \in Catchers :
       /\ stack' = SubSeq(stack, 1, n)
       /\ notifying' = (\E i \in 1..n : stack[i].f = "loop")
  /\ UNCHANGED <<engineVars, marked, torn, notifications, queryVars, out, handle, robbed, seen, ops>>
-----------------------------------------------------------------------------
Step ==
  \/ RunnerReturns \/ InsertsBatch \/ InsertManyReturns
  \/ Notifies \/ NextBatch \/ LoopEnds \/ CallbackReturns
DbNext ==
  \/ exec \/ schema \/ insert \/ insertMany \/ ExecFails \/ MainFails \/ subscribe \/ save \/ Reload
  \/ manageWatch \/ WatchFails \/ CloseWatch \/ CallbackThrows \/ Step
DbSpec == DbInit /\ [][DbNext]_dbVars
-----------------------------------------------------------------------------
Frames ==
  [f : {"exec"}] \cup [f : {"many"}, left : SUBSET Rows] \cup [f : {"loop"}, todo : SUBSET Ids]
  \cup [f : {"callback"}, id : Ids, changes : BOOLEAN, tick : {NoTick} \cup Nat]
Outputs ==
  [rows : SUBSET (Rows \cup {Selected}), added : SUBSET Rows, removed : SUBSET Rows, tick : {NoTick} \cup Nat]
DbTypeOK ==
  /\ hist \in Seq(SUBSET Rows) /\ hist # <<>>
  /\ active \in [Ids -> {"none", "rows", "changes"}]
  /\ marked \in SUBSET Ids /\ torn \in BOOLEAN /\ notifications \in Seq(SUBSET Ids) /\ notifying \in BOOLEAN
  /\ userFuns \in [Ids -> {NoOp} \cup Watches] /\ funLastTick \in [Ids -> Nat]
  /\ freeQueryIDs \in Seq(Ids) /\ queryID \in 0..MaxWatch
  /\ out \in Outputs
  /\ stack \in Seq(Frames)
  /\ handle \in [Watches -> [id : 0..MaxWatch, kind : {"none", "failed", "rows", "changes"}, open : BOOLEAN]]
  /\ robbed \in SUBSET Watches
  /\ seen \in [Watches -> SUBSET (Rows \cup {Selected})] /\ disturbed \in BOOLEAN

\* The open watches that nobody closed through another's handle.
Owners == {w \in Watches : handle[w].open} \ robbed

\* When nothing runs, every owner of a watch has been told the table as it is,
\* however callbacks wrote, watched and closed while others were being told
\* (checkNotifications, manageWatch), or, if the last call has failed after it wrote,
\* is marked to be told by the next one.  A callback that throws leaves the rest of
\* its batch untold, and what a statement selects while there are watchers to tell,
\* or before another one fails, goes to a watcher; but even then the loop's flag is
\* not left set, which would keep all later changes from all watchers.  Owners of
\* subscriptions know the table at all times (File.close).
WatchersRight ==
  /\ stack = <<>> => ~notifying
  /\ stack = <<>> /\ ~disturbed =>
       \A w \in Owners : seen[w] = Table \/ (torn /\ handle[w].id \in marked)
  /\ \A s \in DOMAIN subs : subs[s] = Table

\* An id belongs to one open watch, whose callback and query it has, or is free once.
\* Only the handle of a watch that is closed, or was itself robbed, takes it away.
IdsDisjoint ==
  /\ IsInjective(freeQueryIDs)
  /\ \A w \in Owners :
       /\ handle[w].id \notin Range(freeQueryIDs)
       /\ userFuns[handle[w].id] = w /\ active[handle[w].id] = handle[w].kind
       /\ \A v \in Owners \ {w} : handle[v].id # handle[w].id
-----------------------------------------------------------------------------
(* What the invariants above rest on. *)

\* An id with a callback is that of the owner it calls, and the engine has a query
\* under it, or that of a watch that failed; the other ids have none.
IdsOwned ==
  /\ IsInjective(freeQueryIDs)
  /\ \A i \in Range(freeQueryIDs) : i <= queryID /\ userFuns[i] = NoOp
  /\ \A i \in Ids : i > queryID => userFuns[i] = NoOp
  /\ \A i \in Ids : active[i] # "none" => userFuns[i] \in Owners
  /\ \A i \in Ids : userFuns[i] # NoOp =>
       handle[userFuns[i]].id = i /\ (userFuns[i] \in Owners \/ handle[userFuns[i]].kind = "failed")
  /\ \A w \in Watches : handle[w].open => handle[w].kind \in {"rows", "changes"}
  /\ \A w \in Watches : handle[w].kind # "none" => handle[w].id \in Ids
  /\ \A w \in robbed : handle[w].kind # "none"
  /\ \A w \in Owners : userFuns[handle[w].id] = w /\ active[handle[w].id] = handle[w].kind

\* At most one loop runs, and no statement straight from it.
HasLoop(s) == \E n \in 1..Len(s) : s[n].f = "loop"
WellStacked(s) ==
  /\ \A m, n \in 1..Len(s) : s[m].f = "loop" /\ s[n].f = "loop" => m = n
  /\ \A n \in 2..Len(s) : s[n].f \in {"exec", "many"} => s[n - 1].f # "loop"
StackShape == WellStacked(stack) /\ (notifying <=> HasLoop(stack))

\* The files of the subscriptions, in their order, closed.
ClosedFiles == [changes : {<<>>}, options : {{}}, withChange : BOOLEAN, onChange : Nat]
FilesRight(files, k) ==
  /\ files = [fileDescrs |-> [n \in 1..k |-> n], files |-> files.files]
  /\ files.files \in Seq(ClosedFiles)
  /\ Len(files.files) = k /\ \A n \in 1..k : files.files[n].onChange = n
SubsRight ==
  subs \in Seq(SUBSET Rows) /\ FilesRight(fs, Len(subs)) /\ \A n \in 1..Len(subs) : subs[n] = Table

Todo(s) == UNION {s[n].todo : n \in {m \in 1..Len(s) : s[m].f = "loop"}}
Calls(s) == {s[n] : n \in {m \in 1..Len(s) : s[m].f = "callback"}}
Queued == (UNION Range(notifications)) \cup Todo(stack)
\* An owner that does not know the table is going to be told.
Pending ==
  /\ \A w \in Owners : seen[w] = Table \/ handle[w].id \in Queued \cup marked
  /\ marked # {} => torn

\* What the owner of watchChanges does not know has changed since the tick it will
\* be told from, also when the callback that runs has set that tick.
Missed(w) == Diff(seen[w], Table)
Since(tick) == IF tick = NoTick THEN 0 ELSE tick
MissedChanges ==
  \A w \in Owners : handle[w].kind = "changes" =>
    /\ Missed(w) \subseteq Changed(funLastTick[handle[w].id])
    /\ \A c \in Calls(stack) :
         c.changes /\ c.id = handle[w].id => Missed(w) \subseteq Changed(Since(c.tick))
TicksPast ==
  /\ \A i \in Ids : funLastTick[i] <= Tick
  /\ out.tick <= Tick /\ \A c \in Calls(stack) : c.tick <= Tick

\* Nothing in the output spoils what the next owner is told: rows are rows of the
\* table, all of them if queries are marked, and where some are missing every queued
\* query prints changes.
OutputClean ==
  (Top.f = "loop" \/ (~notifying /\ Top.f \in {"user", "callback", "many"})) =>
    /\ out.rows \subseteq Table /\ out.added = {} /\ out.removed = {}
    /\ marked # {} => out.rows \in {{}, Table}
    /\ Top.f = "loop" /\ out.rows \notin {{}, Table} =>
         \A i \in Queued : active[i] = "changes" => Changed(funLastTick[i]) # {}
NothingQueued == ~notifying => notifications = <<>>

DbInv ==
  /\ DbTypeOK /\ IdsOwned /\ StackShape /\ SubsRight /\ TicksPast
  /\ ~disturbed => Pending /\ MissedChanges /\ OutputClean /\ NothingQueued
=============================================================================
