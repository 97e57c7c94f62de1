----------------------------- MODULE WorkerRpc -----------------------------
(***************************************************************************)
(* The database in a worker: SKDBWorker and WrappedRemote on the page's    *)
(* side (skdb_wdatabase.ts), PromiseWorker and onWorkerMessage underneath  *)
(* (worker.ts).  The page and the worker are two event loops joined by two *)
(* FIFO message channels.                                                  *)
(*                                                                         *)
(* A call is known by its message identifier, 1, 2, ...; the subscription  *)
(* identifiers that post gives to a call's function parameters are pairs   *)
(* of the call and the parameter's position.  Arguments and results are    *)
(* left out, except the identifier of a wrapped object.                    *)
(***************************************************************************)
EXTENDS Naturals, Sequences, SequencesExt, FiniteSets

CONSTANTS Methods,  \* the methods of the interface the page uses
          MaxCalls, \* bound: calls the page makes
          MaxNotes  \* bound: callbacks the database runs

\* What a method is to the two ends: "local" is run by the database alone,
\* "net" waits for the server, "missing" is a method of SKDBWorker that SKDBImpl
\* does not have.  The callers are sent to a wrapped object.
WatchMethods == {"watch", "watchChanges"}
Functions == WatchMethods \cup {"create", "local", "net", "missing", "connect", "connectedRemote"}
RemoteMethods == {"remote", "onReboot", "closeRemote"}
Callers == RemoteMethods \cup {"closeWatch", "remoteMissing"}

ASSUME WorkerBounds ==
  /\ Methods \subseteq Functions \cup Callers
  /\ MaxCalls \in Nat /\ MaxNotes \in Nat

VARIABLES calls,    \* every call posted: its method and the call whose result it is sent to
          callbacks, subscriptions, \* the maps of PromiseWorker
          outcome,  \* how each call's promise was settled
          handle,   \* the wrapped identifier a call was answered with
          heard,    \* how often each call's function parameters were called
          threw,    \* onMessage threw
          toWorker, toPage, \* messages in flight
          runner,   \* the call that created runner, 0 when undefined
          wrappedId, wrapped, \* the table of wrapped objects
          running,  \* promises apply waits for, with the value they will give
          connected,\* the database's connectedRemote is set
          live,     \* watches the database serves
          rebootFn, \* the call whose function onReboot registered, or 0
          notes     \* callbacks run so far

pageVars == <<calls, callbacks, subscriptions, outcome, handle, heard, threw>>
workerVars == <<runner, wrappedId, wrapped, running, connected, live, rebootFn, notes>>
vars == <<pageVars, toWorker, toPage, workerVars>>

Ids == 1..MaxCalls
Method(c) == calls[c].method
Target(c) == calls[c].on

\* The subscriptions of a call: one for each parameter that is a function.
FunctionParams(method) ==
  CASE method = "watchChanges" -> {1, 2}
    [] method \in {"watch", "onReboot"} -> {1}
    [] OTHER -> {}
Subscribed(c) == {c} \X FunctionParams(Method(c))

Return(c, success, wid) == [id |-> c, arg |-> 0, success |-> success, wid |-> wid]
Note(c, k) == [id |-> c, arg |-> k, success |-> TRUE, wid |-> 0]

Init ==
  /\ calls = <<>> /\ callbacks = {} /\ subscriptions = {}
  /\ outcome = [c \in Ids |-> "none"] /\ handle = [c \in Ids |-> 0]
  /\ heard = [c \in Ids |-> 0] /\ threw = FALSE
  /\ toWorker = <<>> /\ toPage = <<>>
  /\ runner = 0 /\ wrappedId = 0 /\ wrapped = [w \in {} |-> 0]
  /\ running = [c \in {} |-> 0] /\ connected = FALSE /\ live = {} /\ rebootFn = 0
  /\ notes = 0
-----------------------------------------------------------------------------
(* The page. *)

\* WrkImpl: messages go to the worker and come from it in the order they were posted.
PostMessage(c) == toWorker' = Append(toWorker, c)
OnMessage(m) == toPage # <<>> /\ m = Head(toPage) /\ toPage' = Tail(toPage)

\* A Sender that forgets its subscriptions as soon as the close is sent.
PostCloseEarly(method, on) ==
  LET c == Len(calls) + 1 IN
  /\ method \in Methods /\ c <= MaxCalls
  /\ calls' = Append(calls, [method |-> method, on |-> on])
  /\ subscriptions' = IF method = "closeWatch" THEN subscriptions \ Subscribed(on)
                      ELSE subscriptions \cup ({c} \X FunctionParams(method))
  /\ callbacks' = callbacks \cup {c}
  /\ PostMessage(c)
  /\ UNCHANGED <<outcome, handle, heard, threw, toPage, workerVars>>

\* PromiseWorker.post and Sender.send: identifiers are handed out, the functions
\* among the parameters registered, then the callback, then the message leaves.
Post(method, on) ==
  LET c == Len(calls) + 1 IN
  /\ method \in Methods /\ c <= MaxCalls
  /\ calls' = Append(calls, [method |-> method, on |-> on])
  /\ subscriptions' = subscriptions \cup ({c} \X FunctionParams(method))
  /\ callbacks' = callbacks \cup {c}
  /\ PostMessage(c)
  /\ UNCHANGED <<outcome, handle, heard, threw, toPage, workerVars>>

\* The Wrapped of these calls is in the hands of the page.
Holds(methods) == {c \in 1..Len(calls) : Method(c) \in methods /\ outcome[c] = "ok"}

Create == Post("create", 0)
Exec == Post("local", 0)
Watch == Post("watch", 0)
WatchChanges == Post("watchChanges", 0)
LocalMethod == \E m \in {"local", "missing"} : Post(m, 0)
ServerMethod == \E m \in {"net", "missing"} : Post(m, 0)
Connect == Post("connect", 0)
ConnectedRemote == Post("connectedRemote", 0)
GetUser == Post("missing", 0)

CloseWatch == \E w \in Holds({"watch"}) : Post("closeWatch", w)
CloseWatchChanges == \E w \in Holds({"watchChanges"}) : Post("closeWatch", w)
RemoteMethod == \E w \in Holds({"connectedRemote"}) : Post("remote", w)
RemoteNotify == \E w \in Holds({"connectedRemote"}) : Post("remoteMissing", w)
RemoteClose == \E w \in Holds({"connectedRemote"}) : Post("closeRemote", w)
RemoteOnReboot == \E w \in Holds({"connectedRemote"}) : Post("onReboot", w)

\* PromiseWorker.onMessage for a call's answer.  The continuations of the promise
\* run before the next message: that of a close is provider.close, which drops
\* the subscriptions of the watch.
OnReturn ==
  /\ \E m \in Range(toPage) :
       /\ OnMessage(m) /\ m.arg = 0 /\ m.id \in callbacks
       /\ callbacks' = callbacks \ {m.id}
       /\ outcome' = [outcome EXCEPT ![m.id] = IF m.success THEN "ok" ELSE "failed"]
       /\ handle' = [handle EXCEPT ![m.id] = m.wid]
       /\ subscriptions' =
            IF Method(m.id) = "closeWatch" /\ m.success
            THEN subscriptions \ Subscribed(Target(m.id))
            ELSE subscriptions
  /\ UNCHANGED <<calls, heard, threw, toWorker, workerVars>>

\* onMessage for anything else: the callback of a subscription is called, or
\* there is none and "Return with no callback" is thrown.
OnNotification ==
  /\ \E m \in Range(toPage) :
       /\ OnMessage(m) /\ (m.arg # 0 \/ m.id \notin callbacks)
       /\ IF <<m.id, m.arg>> \in subscriptions
          THEN heard' = [heard EXCEPT ![m.id] = @ + 1] /\ UNCHANGED threw
          ELSE threw' = TRUE /\ UNCHANGED heard
  /\ UNCHANGED <<calls, callbacks, subscriptions, outcome, handle, toWorker, workerVars>>
-----------------------------------------------------------------------------
(* The worker: onWorkerMessage takes one message, and posts an answer at once, *)
(* or leaves a promise behind.                                             *)

\* Map.set.
Put(map, key, value) == [k \in DOMAIN map \cup {key} |-> IF k = key THEN value ELSE map[k]]

\* Methods that return a promise already kept: it is answered in the same turn of
\* the worker's event loop, before anything else happens there.
Prompt == WatchMethods \cup {"closeWatch", "connectedRemote", "onReboot"}
TurnOver == \A d \in DOMAIN running : Method(d) \notin Prompt

Takes(c) ==
  /\ TurnOver
  /\ toWorker # <<>> /\ c = Head(toWorker) /\ toWorker' = Tail(toWorker)
Refuses(c) == toPage' = Append(toPage, Return(c, FALSE, 0))
Starts(c, value) == running' = Put(running, c, value)

\* The Creator's function.  runner is only set when the promise is kept.
RecvCreate ==
  \E c \in Ids :
    /\ Takes(c) /\ Method(c) = "create"
    /\ IF runner # 0
       THEN Refuses(c) /\ UNCHANGED running
       ELSE Starts(c, "database") /\ UNCHANGED toPage
    /\ UNCHANGED <<pageVars, runner, wrappedId, wrapped, connected, live, rebootFn, notes>>

\* An early return that forgets to answer.
RecvRefusedQuietly ==
  \E c \in Ids :
    /\ Takes(c) /\ Method(c) \in Functions \ {"create"}
    /\ runner = 0 \/ Method(c) = "missing"
    /\ UNCHANGED <<pageVars, toPage, workerVars>>

\* There is no runner yet, or it has no such function.
RecvRefused ==
  \E c \in Ids :
    /\ Takes(c) /\ Method(c) \in Functions \ {"create"}
    /\ runner = 0 \/ Method(c) = "missing"
    /\ Refuses(c)
    /\ UNCHANGED <<pageVars, workerVars>>

\* SKDBImpl.watch and watchChanges run to their end: the query is installed and
\* its first rows go to the first callback, or the query is bad and they throw.
RecvWatch ==
  \E c \in Ids :
    /\ Takes(c) /\ Method(c) \in WatchMethods /\ runner # 0
    /\ \/ /\ live' = live \cup {c} /\ Starts(c, "watch")
          /\ toPage' = Append(toPage, Note(c, 1))
       \/ Refuses(c) /\ UNCHANGED <<live, running>>
    /\ UNCHANGED <<pageVars, runner, wrappedId, wrapped, connected, rebootFn, notes>>

\* A method that SKDBImpl leaves to SKDBSync: it returns a promise, or throws before
\* there is one, and apply's other catch answers.
RecvLocal ==
  \E c \in Ids :
    /\ Takes(c) /\ Method(c) = "local" /\ runner # 0
    /\ \/ Starts(c, "undefined") /\ UNCHANGED toPage
       \/ Refuses(c) /\ UNCHANGED running
    /\ UNCHANGED <<pageVars, runner, wrappedId, wrapped, connected, live, rebootFn, notes>>

\* Every other function of the database.  connectedRemote answers with what the
\* field holds now.
RecvFunction ==
  \E c \in Ids :
    /\ Takes(c) /\ runner # 0
    /\ Method(c) \in {"net", "connect", "connectedRemote"}
    /\ Starts(c, IF Method(c) = "connectedRemote" /\ connected THEN "remote" ELSE "undefined")
    /\ UNCHANGED <<pageVars, toPage, runner, wrappedId, wrapped, connected, live, rebootFn, notes>>

\* A Caller message finds its object, runs the function and forgets the object if
\* it was wrapped with autoremove or the caller says remove.
Entry(c) == wrapped[handle[Target(c)]]
Known(c) == handle[Target(c)] \in DOMAIN wrapped
ForgetsOnRemoveOnly(c) ==
  wrapped' = IF Known(c) /\ Method(c) = "closeRemote"
             THEN [w \in DOMAIN wrapped \ {handle[Target(c)]} |-> wrapped[w]]
             ELSE wrapped
ForgetsAlways(c) ==
  wrapped' = [w \in DOMAIN wrapped \ {handle[Target(c)]} |-> wrapped[w]]
ForgetsEntry(c) ==
  wrapped' = IF Known(c) /\ (Entry(c).autoremove \/ Method(c) = "closeRemote")
             THEN [w \in DOMAIN wrapped \ {handle[Target(c)]} |-> wrapped[w]]
             ELSE wrapped

\* "Invalid function": the object is gone, or SKDBServer has no such method.
RecvUnknown ==
  \E c \in Ids :
    /\ Takes(c) /\ Method(c) \in Callers
    /\ Known(c) => Method(c) = "remoteMissing" /\ Entry(c).value = "remote"
    /\ Refuses(c)
    /\ UNCHANGED <<pageVars, workerVars>>

\* The object is undefined: obj?.value[fn] throws, onWorkerMessage is over before
\* it answers or forgets.
RecvThrows ==
  \E c \in Ids :
    /\ Takes(c) /\ Method(c) \in Callers /\ Known(c) /\ Entry(c).value = "undefined"
    /\ UNCHANGED <<pageVars, toPage, workerVars>>

\* The close of a watch: its user function is replaced and the query deleted
\* before the promise exists.
RecvCloseWatchForgets ==
  \E c \in Ids :
    /\ Takes(c) /\ Method(c) = "closeWatch" /\ Known(c)
    /\ Starts(c, "undefined") /\ ForgetsEntry(c)
    /\ UNCHANGED <<pageVars, toPage, runner, wrappedId, connected, live, rebootFn, notes>>

RecvCloseWatch ==
  \E c \in Ids :
    /\ Takes(c) /\ Method(c) = "closeWatch" /\ Known(c)
    /\ live' = live \ {Target(c)}
    /\ Starts(c, "undefined") /\ ForgetsEntry(c)
    /\ UNCHANGED <<pageVars, toPage, runner, wrappedId, connected, rebootFn, notes>>

\* A method of the wrapped SKDBServer.
RecvRemote ==
  \E c \in Ids :
    /\ Takes(c) /\ Method(c) \in RemoteMethods /\ Known(c) /\ Entry(c).value = "remote"
    /\ Starts(c, "undefined") /\ ForgetsEntry(c)
    /\ rebootFn' = IF Method(c) = "onReboot" THEN c ELSE rebootFn
    /\ UNCHANGED <<pageVars, toPage, runner, wrappedId, connected, live, notes>>

\* connect sets connectedRemote before it mirrors the metadata tables, and its
\* promise is kept after.
Connects ==
  /\ TurnOver
  /\ \E c \in DOMAIN running : Method(c) = "connect"
  /\ ~connected /\ connected' = TRUE
  /\ UNCHANGED <<pageVars, toWorker, toPage, runner, wrappedId, wrapped, running, live, rebootFn, notes>>

Finishes(c) == running' = [d \in DOMAIN running \ {c} |-> running[d]]

\* apply's then: conv sets the runner or wraps the result, and the answer leaves.
Fulfils(c) ==
  LET wraps == Method(c) \in WatchMethods \cup {"connectedRemote"} IN
  /\ c \in DOMAIN running /\ (TurnOver \/ Method(c) \in Prompt)
  /\ Method(c) = "connect" => connected
  /\ runner' = IF Method(c) = "create" THEN c ELSE runner
  /\ IF wraps
     THEN /\ wrapped' = Put(wrapped, wrappedId, [value |-> running[c], of |-> c,
                                                 autoremove |-> Method(c) \in WatchMethods])
          /\ wrappedId' = wrappedId + 1
     ELSE UNCHANGED <<wrapped, wrappedId>>
  /\ toPage' = Append(toPage, Return(c, TRUE, IF wraps THEN wrappedId ELSE 0))
  /\ Finishes(c)
  /\ UNCHANGED <<pageVars, toWorker, connected, live, rebootFn, notes>>

\* apply's catch.  The methods that return a promise already kept never get here.
Rejects(c) ==
  /\ c \in DOMAIN running /\ TurnOver
  /\ Refuses(c) /\ Finishes(c)
  /\ UNCHANGED <<pageVars, toWorker, runner, wrappedId, wrapped, connected, live, rebootFn, notes>>

\* The database runs the callback of a watch or of onReboot, which posts.
Notifies ==
  /\ TurnOver
  /\ notes < MaxNotes /\ notes' = notes + 1
  /\ \E c \in live \cup ({rebootFn} \ {0}) : \E s \in Subscribed(c) :
       toPage' = Append(toPage, Note(s[1], s[2]))
  /\ UNCHANGED <<pageVars, toWorker, runner, wrappedId, wrapped, running, connected, live, rebootFn>>
-----------------------------------------------------------------------------
PageCalls ==
  \/ Create \/ Exec \/ Watch \/ WatchChanges \/ LocalMethod \/ ServerMethod
  \/ Connect \/ ConnectedRemote \/ GetUser \/ CloseWatch \/ CloseWatchChanges
  \/ RemoteMethod \/ RemoteNotify \/ RemoteClose \/ RemoteOnReboot
PageHears == OnReturn \/ OnNotification
WorkerTakes ==
  \/ RecvCreate \/ RecvRefused \/ RecvWatch \/ RecvLocal \/ RecvFunction
  \/ RecvUnknown \/ RecvThrows \/ RecvCloseWatch \/ RecvRemote
WorkerRuns == Connects \/ Notifies \/ \E c \in Ids : Fulfils(c) \/ Rejects(c)

Next == PageCalls \/ PageHears \/ WorkerTakes \/ WorkerRuns
Spec == Init /\ [][Next]_vars

\* Both event loops deliver the messages they are sent, and a promise of the
\* database that waits for nobody is settled.
Settles(c) ==
  /\ c \in DOMAIN running /\ Method(c) \notin {"net", "connect"} \cup RemoteMethods
  /\ Fulfils(c) \/ Rejects(c)
LiveSpec ==
  /\ Spec /\ WF_vars(PageHears) /\ WF_vars(WorkerTakes)
  /\ \A c \in Ids : WF_vars(Settles(c))
-----------------------------------------------------------------------------
Posted == 1..Len(calls)
Message == [id : Posted, arg : 0..2, success : BOOLEAN, wid : Nat]
Wraps == WatchMethods \cup {"connectedRemote"}

TypeOK ==
  /\ calls \in Seq([method : Methods, on : {0} \cup Ids]) /\ Len(calls) <= MaxCalls
  /\ outcome \in [Ids -> {"none", "ok", "failed"}]
  /\ \A c \in Ids \ Posted : outcome[c] = "none"
  /\ callbacks = {c \in Posted : outcome[c] = "none"}
  /\ handle \in [Ids -> Nat] /\ heard \in [Ids -> Nat]
  /\ toWorker \in Seq(Posted) /\ toPage \in Seq(Message)
  /\ live \subseteq Posted /\ rebootFn \in {0} \cup Posted
  /\ wrappedId \in Nat /\ DOMAIN wrapped \subseteq 0..wrappedId - 1
  /\ DOMAIN running \subseteq Posted

\* A message the worker posts always finds its callback or its subscription:
\* onMessage (worker.ts) never throws "Return with no callback", although the
\* notifications of a watch and the answer to its close cross on the way.
NoOrphanReturn == ~threw

\* The identifier a watch or connectedRemote was answered with names the object
\* of that very call for as long as the page has not asked to close it
\* (the wrapped table of onWorkerMessage and its autoremove and remove flags).
HandleValid ==
  \A c \in Holds(WatchMethods \cup {"connectedRemote"}) :
    (\A d \in 1..Len(calls) : Target(d) = c => Method(d) \notin {"closeWatch", "closeRemote"})
      => handle[c] \in DOMAIN wrapped /\ wrapped[handle[c]].of = c

Closed == {w \in Ids : \E d \in Holds({"closeWatch"}) : Target(d) = w}

\* Once the close of a watch is answered nothing of it is left on either side:
\* no query, no entry in the wrapped table, no subscription (skdb_wdatabase.ts
\* close, and autoremove in onWorkerMessage).
ClosedIsReleased ==
  \A w \in Closed :
    /\ w \notin live
    /\ \A i \in DOMAIN wrapped : wrapped[i].of # w
    /\ subscriptions \cap Subscribed(w) = {}

-----------------------------------------------------------------------------
(* The inductive invariant behind the properties above and the refinement. *)

\* A call without an outcome is in one place at most: on its way to the worker,
\* running there, or answered by one message on its way back.
Returned == {toPage[i].id : i \in {j \in DOMAIN toPage : toPage[j].arg = 0}}
OnePlace ==
  /\ Range(toWorker) \cup DOMAIN running \cup Returned \subseteq callbacks
  /\ Range(toWorker) \cap DOMAIN running = {} /\ Range(toWorker) \cap Returned = {}
  /\ DOMAIN running \cap Returned = {}
  /\ \A i, j \in DOMAIN toWorker : toWorker[i] = toWorker[j] => i = j
  /\ \A i, j \in DOMAIN toPage :
       toPage[i].arg = 0 /\ toPage[j].arg = 0 /\ toPage[i].id = toPage[j].id => i = j

\* The object a Caller is sent to came with the answer of an earlier call.
CallersKnow ==
  \A c \in Posted : Method(c) \in Callers =>
    /\ Target(c) \in Posted /\ outcome[Target(c)] = "ok"
    /\ Method(Target(c)) \in IF Method(c) = "closeWatch" THEN WatchMethods ELSE {"connectedRemote"}

\* The page has the subscriptions of the watches that are not closed.
SubscriptionsRight ==
  /\ \A s \in subscriptions : s \in Ids \X {1, 2} /\ s[1] \in Posted \ Closed /\ s \in Subscribed(s[1])
  /\ \A c \in Posted \ Closed : Subscribed(c) \subseteq subscriptions

\* A close that has run in the worker has left nothing of the watch there, and no
\* notification is behind its answer.
CloseAnswer(m, w) == m.arg = 0 /\ m.success /\ Method(m.id) = "closeWatch" /\ Target(m.id) = w
ClosedInWorker(w) ==
  \/ w \in Closed
  \/ \E d \in DOMAIN running : Method(d) = "closeWatch" /\ Target(d) = w
  \/ \E i \in DOMAIN toPage : CloseAnswer(toPage[i], w)
ClosesDone ==
  \A w \in Ids : ClosedInWorker(w) => w \notin live /\ \A i \in DOMAIN wrapped : wrapped[i].of # w
NotesInTime ==
  \A i \in DOMAIN toPage : toPage[i].arg # 0 =>
    /\ toPage[i].arg \in FunctionParams(Method(toPage[i].id)) /\ toPage[i].id \notin Closed
    /\ \A j \in 1..(i - 1) : ~CloseAnswer(toPage[j], toPage[i].id)

\* The database runs callbacks of watches it serves and of onReboot only.
CallbacksOwned ==
  /\ \A c \in live : Method(c) \in WatchMethods /\ c \notin Range(toWorker)
  /\ rebootFn # 0 => Method(rebootFn) = "onReboot"

\* Entries of the wrapped table: one per call, kept until a close is posted.
Unclosed(c) == \A d \in Posted : Target(d) = c => Method(d) \notin {"closeWatch", "closeRemote"}
EntriesRight ==
  /\ \A i \in DOMAIN wrapped :
       /\ wrapped[i].of \in Posted /\ wrapped[i].autoremove = (Method(wrapped[i].of) \in WatchMethods)
       /\ wrapped[i].of \notin Range(toWorker) \cup DOMAIN running
  /\ \A i, j \in DOMAIN wrapped : wrapped[i].of = wrapped[j].of => i = j
  /\ \A i \in DOMAIN toPage :
       toPage[i].arg = 0 /\ toPage[i].success /\ Method(toPage[i].id) \in Wraps =>
         toPage[i].wid \in DOMAIN wrapped /\ wrapped[toPage[i].wid].of = toPage[i].id
  /\ \A c \in Posted : outcome[c] = "ok" /\ Method(c) \in Wraps =>
       /\ handle[c] < wrappedId
       /\ handle[c] \in DOMAIN wrapped => wrapped[handle[c]].of = c
       /\ Unclosed(c) => handle[c] \in DOMAIN wrapped

WorkerInv ==
  /\ TypeOK /\ OnePlace /\ CallersKnow /\ SubscriptionsRight /\ ClosesDone /\ NotesInTime
  /\ CallbacksOwned /\ EntriesRight /\ NoOrphanReturn
-----------------------------------------------------------------------------
Api == INSTANCE WorkerApi WITH
  Ids <- Ids,
  pending <- {c \in 1..Len(calls) : outcome[c] = "none"},
  done <- {c \in 1..Len(calls) : outcome[c] # "none"},
  open <- live, closed <- Closed, heard <- heard

\* The worker keeps the promises of the interface in WorkerApi: one answer per
\* call, and no callback of a watch after its close was answered.
ApiRefined == Api!ApiSpec

\* Every call of the database that does not wait for the network, and every close
\* of a watch, is answered in the end, also those made before the database exists
\* or for methods it does not have (onWorkerMessage and apply).  Calls on a remote
\* are left out, all of them: most wait for the server, and one on the undefined that
\* connectedRemote gives before connect is never answered.
Answered ==
  \A c \in Ids :
    (c <= Len(calls) /\ Method(c) \in (Functions \ {"net", "connect"}) \cup {"closeWatch"})
      ~> outcome[c] # "none"
=============================================================================
