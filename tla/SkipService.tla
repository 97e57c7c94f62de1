----------------------------- MODULE SkipService -----------------------------
(***************************************************************************)
(* A running Skip service (skipruntime-ts): ServiceInstance and the table  *)
(* of handles between it and the native runtime (core/src/index.ts), the   *)
(* requests the REST server makes of it (server/src/rest.ts, server.ts)    *)
(* and what the native runtime (native/src/Runtime.sk) does for each of    *)
(* them.  A call into the runtime does not yield, so a handler is one step.*)
(***************************************************************************)
EXTENDS Integers, Sequences, SequencesExt, FiniteSets

CONSTANTS Recipes,      \* for each resource, the calls its instantiate makes
          NbrExternals, \* external services the service declares
          MaxInstances, \* bound: resource instances made
          MaxRequests,  \* bound: requests for streams and snapshots
          MaxUpdates    \* bound: changes of the inputs and of external data

Defs == DOMAIN Recipes
Instances == 1..MaxInstances
Requests == 1..MaxRequests
Calls == {"map", "mapReduce", "nativeMapReduce", "reduce", "nativeReduce", "slice",
          "lazy", "external", "anonymous"}

ASSUME ServiceConstants ==
  /\ Recipes \in Seq(Seq(Calls)) /\ NbrExternals \in Nat
  /\ {MaxInstances, MaxRequests, MaxUpdates} \subseteq Nat

VARIABLES handles,      \* Handles: the objects by id, and freeIDs
          held,         \* the native objects in use: their handle and the object it stands for
          dropped,      \* handles of native objects that are no longer in use
          instances,    \* the resource of each instance, 0 for none
          made,         \* instances made
          uuids,        \* those of them clients may name: not the ones of snapshots
          garbage,      \* "no", "marked" or "old" (marked kGarbageMillis ago)
          subscription, \* the request subscribed to an instance, 0 for none
          status,       \* of the external data of each resource
          version,      \* of the data of each resource
          resp,         \* the response to each request for a stream or a snapshot
          server,       \* "up" or "closed"
          updates

tableVars == <<handles, held, dropped>>
graphVars == <<instances, made, uuids, garbage, status, version>>
vars == <<tableVars, graphVars, subscription, resp, server, updates>>
-----------------------------------------------------------------------------
Null == <<"null">>

\* Handles: an id that was freed last is taken first.
FreshHandle(h) == IF h.free = <<>> THEN Len(h.objects) + 1 ELSE Last(h.free)

RegisterTop(h, obj) ==
  IF h.free = <<>> THEN [h EXCEPT !.objects = Append(@, obj)]
  ELSE [objects |-> [h.objects EXCEPT ![Last(h.free)] = obj], free |-> h.free]
Register(h, obj) ==
  IF h.free = <<>> THEN [h EXCEPT !.objects = Append(@, obj)]
  ELSE [objects |-> [h.objects EXCEPT ![Last(h.free)] = obj], free |-> Front(h.free)]

DeleteHandle(h, id) == [objects |-> [h.objects EXCEPT ![id] = Null], free |-> Append(h.free, id)]

Native(h, obj) == [hdl |-> FreshHandle(h), obj |-> obj]
Registered(h, held0, obj) == [h |-> Register(h, obj), held |-> held0 \cup {Native(h, obj)}]
RegisterAll(h, objs) ==
  LET acc[k \in 0..Len(objs)] ==
        IF k = 0 THEN [h |-> h, held |-> {}] ELSE Registered(acc[k - 1].h, acc[k - 1].held, objs[k])
  IN acc[Len(objs)]

\* Handles are deleted one after the other, the lowest first.
Rank(ids, x) == Cardinality({y \in ids : y <= x})
Ascending(ids) == [k \in 1..Cardinality(ids) |-> CHOOSE x \in ids : Rank(ids, x) = k]
DeleteAll(h, ids) ==
  [objects |-> [i \in DOMAIN h.objects |-> IF i \in ids THEN Null ELSE h.objects[i]],
   free |-> h.free \o Ascending(ids)]

\* What an exception costs: its handle is deleted by the caller that throws it.
ErrorRaised(h) == DeleteHandle(Register(h, <<"error">>), FreshHandle(h))

\* Objects are named by what they are, the resource or the request they belong to,
\* and the place of the call that made them.
GraphKinds == {"resource", "mapper", "reducer", "compute"}
KindsOf(call) ==
  CASE call \in {"map", "nativeMapReduce"} -> <<"mapper">>
    [] call = "mapReduce" -> <<"mapper", "reducer">>
    [] call = "reduce" -> <<"reducer">>
    [] OTHER -> <<>>
LazyKinds(call) == IF call = "lazy" THEN <<"compute">> ELSE <<>>

\* Resource.instantiate makes its calls in order; one with an anonymous class
\* throws, and what was registered before is left to be collected.
CallsMade(d) ==
  IF "anonymous" \in Range(Recipes[d])
  THEN SubSeq(Recipes[d], 1, (CHOOSE i \in DOMAIN Recipes[d] : Recipes[d][i] = "anonymous") - 1)
  ELSE Recipes[d]
GraphObjects(d) ==
  <<<<"resource", d, 0>>>> \o
  FlattenSeq([i \in DOMAIN CallsMade(d) |->
    [j \in DOMAIN (KindsOf(CallsMade(d)[i]) \o LazyKinds(CallsMade(d)[i])) |->
      <<(KindsOf(CallsMade(d)[i]) \o LazyKinds(CallsMade(d)[i]))[j], d, 2 * i + j>>]])

ServiceObjects ==
  [i \in 1..NbrExternals |-> <<"externalService", i, 0>>]
    \o [d \in Defs |-> <<"builder", d, 0>>] \o <<<<"service", 0, 0>>>>
InitService == RegisterAll([objects |-> <<>>, free |-> <<>>], ServiceObjects)

NoResp == [st |-> "free", on |-> 0, code |-> 0, cause |-> "none", told |-> 0, left |-> FALSE]
Over == [NoResp EXCEPT !.st = "gone"]

Init ==
  /\ handles = InitService.h /\ held = InitService.held /\ dropped = {}
  /\ instances = [i \in Instances |-> 0] /\ made = 0 /\ uuids = {}
  /\ garbage = [i \in Instances |-> "no"] /\ subscription = [i \in Instances |-> 0]
  /\ status = [d \in Defs |-> "none"] /\ version = [d \in Defs |-> 0]
  /\ resp = [r \in Requests |-> NoResp] /\ server = "up" /\ updates = 0
-----------------------------------------------------------------------------
\* The graph of a resource lives as long as it has an instance.
Graphs(I) == {I[i] : i \in Instances} \ {0}

\* An external service is unsubscribed from when the graph that uses it goes.
Unsubscribed(I, s) == [d \in Defs |-> IF d \in Graphs(I) THEN s[d] ELSE "none"]

\* What a call leaves in the runtime: the handle table h, native objects that came
\* into use and went out of use, the instances and the marks of garbage (a mark of
\* an instance that is gone has no effect and is left out).
Runtime(h, new, lost, I, g, s) ==
  LET used == (held \cup new) \ lost
      orphans == {n \in used : n.obj[1] \in GraphKinds /\ n.obj[2] \notin Graphs(I)}
  IN /\ handles' = h
     /\ held' = used \ orphans /\ dropped' = dropped \cup {n.hdl : n \in lost \cup orphans}
     /\ instances' = I /\ garbage' = [i \in Instances |-> IF I[i] = 0 THEN "no" ELSE g[i]]
     /\ status' = Unsubscribed(I, s)

\* checkGarbage: instances marked long enough ago are destroyed.
Swept(I, g) == [i \in Instances |-> IF g[i] = "old" THEN 0 ELSE I[i]]
SweptMarks(g) == [i \in Instances |-> IF g[i] = "old" THEN "no" ELSE g[i]]

Of(kind, rs) == {n \in held : n.obj[1] = kind /\ n.obj[2] \in rs}
\* The object a call of the runtime reaches through the handle of a native object.
Reached(n) == handles.objects[n.hdl]
Mark(g, is) == [i \in Instances |-> IF i \in is /\ g[i] = "no" THEN "marked" ELSE g[i]]

\* Subscribers are told of a change of resources ds before the call returns.
Told(ds, ver, R) ==
  [r \in Requests |->
    IF R[r].st = "streaming" /\ instances[R[r].on] \in ds
    THEN [R[r] EXCEPT !.told = ver[instances[R[r].on]]] ELSE R[r]]

Ended(rs, R) == [r \in Requests |-> IF r \in rs THEN [R[r] EXCEPT !.st = "ended"] ELSE R[r]]
Subscribed(is) == {subscription[i] : i \in is} \ {0}

\* The graph of d is computed when d gets its first instance.  An external service
\* is subscribed to, and may have data or report an error at once.
Builds(d) == d \notin Graphs(instances)
Fails(d) == "anonymous" \in Range(Recipes[d])
Built(h, d) == RegisterAll(h, IF Builds(d) THEN GraphObjects(d) ELSE <<>>)
UsesExternal(d) == "external" \in Range(Recipes[d])
StartStatus(d) ==
  IF ~Builds(d) THEN {status[d]}
  ELSE IF UsesExternal(d) THEN {"loading", "ok", "error"} ELSE {"ok"}
-----------------------------------------------------------------------------
InstantiateResource(i, d) ==
  LET b == Built(handles, d)
  IN IF Fails(d)
     THEN Runtime(ErrorRaised(b.h), b.held, b.held, instances, garbage, status)
     ELSE \E s \in StartStatus(d) :
            Runtime(b.h, b.held, {}, [instances EXCEPT ![i] = d], garbage, [status EXCEPT ![d] = s])

\* SkipServiceBroker.getStreamUUID: the text of the answer is taken for a uuid, also
\* when it tells of an error; a client that has given up never learns it.
BrokerGetsUUID(i) == uuids' \in {uuids \cup {i}, uuids}

\* POST /v1/streams/:resource.
PostStream(d) ==
  /\ server = "up" /\ made < MaxInstances /\ made' = made + 1 /\ BrokerGetsUUID(made + 1)
  /\ InstantiateResource(made + 1, d)
  /\ UNCHANGED <<subscription, version, resp, server, updates>>

\* Runtime.unsubscribe of the sessions of instances is: their responses end, the
\* notifiers go out of use, the instances are marked and old ones destroyed.
Unsubscribe(is, R) ==
  LET g == Mark(garbage, is)
  IN /\ Runtime(handles, {}, Of("notifier", Subscribed(is)), Swept(instances, g), SweptMarks(g), status)
     /\ subscription' = [i \in Instances |-> IF i \in is THEN 0 ELSE subscription[i]]
     /\ resp' = R

\* The subscriber of the instance is unsubscribed; the instance itself is only
\* marked, now or already.
CloseResourceInstance(i) ==
  \/ subscription[i] # 0 /\ Unsubscribe({i}, Ended(Subscribed({i}), resp))
  \/ subscription[i] = 0 /\ garbage[i] = "no" /\ Unsubscribe({i}, resp)

\* DELETE /v1/streams/:uuid.
BrokerDeletes(i) == i \in uuids
DeleteStream(i) ==
  /\ server = "up" /\ BrokerDeletes(i) /\ CloseResourceInstance(i)
  /\ UNCHANGED <<made, uuids, version, server, updates>>

\* What ServiceInstance.subscribe makes of the number the runtime returns.
SubscribeCode(session) == IF session = -1 THEN 404 ELSE IF session = -2 THEN 409 ELSE 500

Refuse(r, h, notifier, session, cause) ==
  /\ Runtime(IF SubscribeCode(session) = 500 THEN DeleteHandle(h, -session) ELSE h,
             {notifier}, {notifier}, instances, garbage, status)
  /\ resp' = [resp EXCEPT ![r] = [Over EXCEPT !.cause = cause, !.code = SubscribeCode(session)]]
  /\ UNCHANGED subscription

SubscribeKeepsMark(r, i, h, notifier) ==
  /\ Runtime(h, {notifier}, {}, Swept(instances, garbage), SweptMarks(garbage), status)
  /\ subscription' = [subscription EXCEPT ![i] = r]
  /\ resp' = [resp EXCEPT ![r] = [NoResp EXCEPT !.st = "streaming", !.on = i,
                                                !.told = version[instances[i]]]]
\* The first notification is made in the call; the mark of the instance is taken
\* away before the garbage is looked at.
Subscribe(r, i, h, notifier) ==
  LET g == [garbage EXCEPT ![i] = "no"]
  IN /\ Runtime(h, {notifier}, {}, Swept(instances, g), SweptMarks(g), status)
     /\ subscription' = [subscription EXCEPT ![i] = r]
     /\ resp' = [resp EXCEPT ![r] = [NoResp EXCEPT !.st = "streaming", !.on = i,
                                                   !.told = version[instances[i]]]]

NextRequest(r) == resp[r].st = "free" /\ \A q \in 1..(r - 1) : resp[q].st # "free"

\* subscribe registers the notifier, then the runtime says in use (-2), unknown
\* (-1), the handle of an error negated, or a session.
ServiceSubscribe(r, i) ==
  LET obj == <<"notifier", r, 0>>
      n == Native(handles, obj)
      h == Register(handles, obj)
  IN \/ subscription[i] # 0 /\ Refuse(r, h, n, -2, "in use")
     \/ subscription[i] = 0 /\ instances[i] = 0 /\ Refuse(r, h, n, -1, "unknown")
     \/ /\ subscription[i] = 0 /\ instances[i] # 0
        /\ \/ Subscribe(r, i, h, n)
           \/ Refuse(r, Register(h, <<"error">>), n, -FreshHandle(h), "failed")

\* GET /v1/streams/:uuid.
GetStream(r, i) ==
  /\ NextRequest(r) /\ i \in uuids /\ ServiceSubscribe(r, i)
  /\ UNCHANGED <<made, uuids, version, server, updates>>

\* The close event of a streaming request, when its client leaves or after the
\* response has ended; unsubscribe of a session that is over does nothing.
ReqClose(r) ==
  /\ resp[r].st \in {"streaming", "ended"}
  /\ LET R == [resp EXCEPT ![r] = Over]
     IN IF subscription[resp[r].on] = r THEN Unsubscribe({resp[r].on}, R)
        ELSE resp' = R /\ UNCHANGED <<tableVars, instances, garbage, status, subscription>>
  /\ UNCHANGED <<made, uuids, version, server, updates>>
-----------------------------------------------------------------------------
\* What a checker sends: the data, or the errors of the external data.
Answer(s) ==
  [Over EXCEPT !.code = IF s = "error" THEN 500 ELSE 200,
               !.cause = IF s = "error" THEN "failed" ELSE "none"]
Check(r, R, s) == [R EXCEPT ![r] = Answer(s)]

\* A read of the broker; after its timeout it throws, and the service goes on.
BrokerAsks(i) == [NoResp EXCEPT !.st = "waiting", !.on = i]
BrokerGivesUp(r) ==
  /\ resp[r].st = "waiting" /\ ~resp[r].left /\ resp' = [resp EXCEPT ![r].left = TRUE]
  /\ UNCHANGED <<tableVars, graphVars, subscription, server, updates>>

\* getAll and getArray with a checker: an instance is made for the request and
\* closed (marked) with its answer, which is given at once unless external data is
\* loading.
Get(r, i, d) ==
  LET obj == <<"checker", r, 0>>
      n == Native(handles, obj)
      b == Built(Register(handles, obj), d)
      I == [instances EXCEPT ![i] = d]
      asked == [resp EXCEPT ![r] = BrokerAsks(i)]
  IN IF Fails(d)
     THEN /\ Runtime(ErrorRaised(b.h), b.held \cup {n}, b.held \cup {n}, instances, garbage, status)
          /\ resp' = Check(r, asked, "error")
     ELSE \E s \in StartStatus(d) :
            LET S == [status EXCEPT ![d] = s]
            IN IF s = "loading"
               THEN Runtime(b.h, b.held \cup {n}, {}, I, garbage, S) /\ resp' = asked
               ELSE /\ Runtime(b.h, b.held \cup {n}, {n}, I, Mark(garbage, {i}), S)
                    /\ resp' = Check(r, asked, s)

\* POST /v1/snapshot/:resource and its lookup.
GetSnapshot(r, d) ==
  /\ server = "up" /\ NextRequest(r) /\ made < MaxInstances /\ made' = made + 1
  /\ Get(r, made + 1, d)
  /\ UNCHANGED <<uuids, subscription, version, server, updates>>

Waiting(d) == {r \in Requests : resp[r].st = "waiting" /\ instances[resp[r].on] = d}

UpdateInput ==
  /\ version' = [d \in Defs |-> version[d] + 1]
  /\ Runtime(handles, {}, {}, Swept(instances, garbage), SweptMarks(garbage), status)
  /\ resp' = Told(Defs, version', resp)

\* PATCH /v1/inputs/:collection.
BrokerUpdates == updates < MaxUpdates /\ updates' = updates + 1
Patch ==
  /\ server = "up" /\ BrokerUpdates
  /\ UpdateInput
  /\ UNCHANGED <<made, uuids, subscription, server>>

\* The external service reports on the data of d: requests that wait for it are
\* answered by their checkers, in the call, and old garbage is destroyed.
Report(d, s, answered) ==
  LET g == Mark(garbage, {resp[r].on : r \in answered})
  IN /\ status[d] # "none" /\ UsesExternal(d)
     /\ resp' = Told({d}, version',
          [r \in Requests |-> IF r \in answered THEN Check(r, resp, s)[r] ELSE resp[r]])
     /\ Runtime(handles, {}, Of("checker", answered), Swept(instances, g), SweptMarks(g),
                [status EXCEPT ![d] = s])
     /\ UNCHANGED <<made, uuids, subscription, server>>

\* CollectionWriter.update, error and loading.  A request waits for data that began
\* to load no later than it came itself: when the data loads anew those that wait are
\* answered, except the youngest of them, of the same millisecond.
OlderThan(k, rs) == {r \in rs : r < k}
WriterUpdate(d) ==
  /\ updates < MaxUpdates /\ updates' = updates + 1
  /\ version' = [version EXCEPT ![d] = @ + 1]
  /\ Report(d, "ok", Waiting(d))
WriterErrorTellsNobody(d) ==
  UNCHANGED <<version, updates>> /\ Report(d, "error", {})
WriterError(d) ==
  UNCHANGED <<version, updates>> /\ Report(d, "error", Waiting(d))
WriterLoading(d) ==
  /\ UNCHANGED <<version, updates>>
  /\ \E k \in 1..(MaxRequests + 1) : Report(d, "loading", OlderThan(k, Waiting(d)))
-----------------------------------------------------------------------------
\* Time passes.
Ages(i) ==
  /\ garbage[i] = "marked" /\ garbage' = [garbage EXCEPT ![i] = "old"]
  /\ UNCHANGED <<tableVars, instances, made, uuids, status, version, subscription, resp, server, updates>>

\* The collector finalizes the native objects that went out of use:
\* SkipRuntime_deleteMapper and the like.
Finalize ==
  /\ dropped # {} /\ dropped' = {}
  /\ handles' = DeleteAll(handles, dropped)
  /\ UNCHANGED <<held, graphVars, subscription, resp, server, updates>>

Shutdowns(h) ==
  LET p == RegisterAll(h, [i \in 1..NbrExternals |-> <<"promise", i, 0>>])
  IN DeleteAll(p.h, {n.hdl : n \in p.held})

\* Every stream ends and every instance is destroyed, with the requests that wait
\* on it; the promises of the external services' shutdowns pass through the table.
Close ==
  LET open == Subscribed(Instances)
      lost == Of("notifier", open) \cup Of("checker", Requests)
  IN /\ Runtime(Shutdowns(handles), {}, lost, [i \in Instances |-> 0], garbage, status)
     /\ resp' = Ended(open, resp)
     /\ subscription' = [i \in Instances |-> 0]

\* SkipServer.close: the control server stops listening and the service closes;
\* streams are asked for until the shutdowns are done.
CloseService ==
  /\ server = "up" /\ server' = "closed" /\ Close
  /\ UNCHANGED <<made, uuids, version, updates>>

Next ==
  \/ \E d \in Defs : PostStream(d) \/ WriterUpdate(d) \/ WriterError(d) \/ WriterLoading(d)
  \/ \E i \in Instances : DeleteStream(i) \/ Ages(i)
  \/ \E r \in Requests, i \in Instances : GetStream(r, i)
  \/ \E r \in Requests, d \in Defs : GetSnapshot(r, d)
  \/ \E r \in Requests : ReqClose(r) \/ BrokerGivesUp(r)
  \/ Patch \/ CloseService \/ Finalize

Spec == Init /\ [][Next]_vars
-----------------------------------------------------------------------------
\* An open stream is the one subscription of an instance that lives, is not about
\* to be destroyed, and whose client has been told the data as it is, through any
\* order of DELETE, disconnection, reconnection and collection of garbage (rest.ts
\* streamingService, subscribe, unsubscribe, checkGarbage).
StreamsRight ==
  /\ \A r \in Requests : resp[r].st = "streaming" =>
       LET i == resp[r].on
       IN /\ subscription[i] = r /\ instances[i] # 0 /\ garbage[i] = "no"
          /\ resp[r].told = version[instances[i]]
  /\ \A i \in Instances : subscription[i] # 0 => resp[subscription[i]].st = "streaming"

\* A native object in use finds its own object behind its handle, although ids are
\* given again (Handles), and a refused subscriber is told the reason of the
\* refusal: the handle of an error is never taken for -1 or -2 (subscribe).
HandlesRight ==
  /\ \A n \in held : Reached(n) = n.obj
  /\ \A r \in Requests :
       resp[r].code # 0 =>
         resp[r].cause = CASE resp[r].code = 404 -> "unknown" [] resp[r].code = 409 -> "in use"
                           [] resp[r].code = 500 -> "failed" [] OTHER -> "none"

\* A snapshot waits only for external data that is loading, with its instance alive
\* and its checker in use: whatever is reported or collected meanwhile, the one report
\* that ends the loading answers it, and no request is left behind (AllChecker,
\* OneChecker, buildResourcesGraph, CollectionWriter).
SnapshotsWait ==
  server = "up" =>
    \A r \in Requests : resp[r].st = "waiting" =>
      /\ instances[resp[r].on] # 0 /\ garbage[resp[r].on] = "no"
      /\ status[instances[resp[r].on]] = "loading" /\ Of("checker", {r}) # {}
-----------------------------------------------------------------------------
\* What the two invariants rest on.  A stream is open on an instance a client may
\* name, a snapshot waits on one that none may: answering it marks no streamed one.
ServiceTypes ==
  /\ instances \in [Instances -> {0} \cup Defs] /\ made \in 0..MaxInstances /\ uuids \subseteq 1..made
  /\ garbage \in [Instances -> {"no", "marked", "old"}]
  /\ subscription \in [Instances -> {0} \cup Requests] /\ version \in [Defs -> Nat]
  /\ resp \in [Requests -> [st : {"free", "streaming", "ended", "waiting", "gone"},
                            on : {0} \cup Instances, code : Nat,
                            cause : {"none", "in use", "unknown", "failed"}, told : Nat, left : BOOLEAN]]
OpenedOn ==
  /\ \A r \in Requests : resp[r].st \in {"streaming", "ended"} => resp[r].on \in uuids
  /\ \A r \in Requests : resp[r].st = "waiting" => resp[r].on \in 1..made \ uuids
  /\ \A i \in Instances : subscription[i] # 0 => resp[subscription[i]].on = i
StreamInv == ServiceTypes /\ OpenedOn /\ StreamsRight

\* Each snapshot waits on an instance of its own: answering one marks no other's.
OwnInstance ==
  \A r, q \in Requests :
    resp[r].st = "waiting" /\ resp[q].st = "waiting" /\ resp[r].on = resp[q].on => r = q
Unmade ==
  \A i \in Instances : (i > made => instances[i] = 0) /\ (instances[i] = 0 => garbage[i] = "no")
WaitInv == status \in [Defs -> {"none", "loading", "ok", "error"}] /\ OwnInstance /\ SnapshotsWait

\* Every id is of a free slot, of a native object in use or of one to be collected,
\* and of one of them only; the objects of the service itself keep the first ids, so
\* that none of these is ever the handle of an error.
Hdls(ns) == {n.hdl : n \in ns}
Slots(h) ==
  /\ DOMAIN h = {"objects", "free"}
  /\ h.objects \in Seq(Range(h.objects)) /\ h.free \in Seq(DOMAIN h.objects)
  /\ \A j, k \in DOMAIN h.free : h.free[j] = h.free[k] => j = k
Partition(h, H, D) ==
  /\ Slots(h)
  /\ \A n \in H : n.hdl \in DOMAIN h.objects \ Range(h.free) /\ h.objects[n.hdl] = n.obj
  /\ \A n, m \in H : n.hdl = m.hdl => n = m
  /\ D \subseteq DOMAIN h.objects \ (Range(h.free) \cup Hdls(H))
ServiceHeld == \A k \in DOMAIN ServiceObjects : [hdl |-> k, obj |-> ServiceObjects[k]] \in held
TableInv == ServiceTypes /\ Partition(handles, held, dropped) /\ ServiceHeld /\ HandlesRight
=============================================================================
