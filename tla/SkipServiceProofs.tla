-------------------------- MODULE SkipServiceProofs --------------------------
(***************************************************************************)
(* Proofs about the running service (SkipService): open streams are the    *)
(* subscriptions of instances that live and are up to date (StreamsRight), *)
(* and the table of handles (HandlesRight).                                *)
(***************************************************************************)
EXTENDS SkipService, FiniteSetTheorems, SequenceTheorems, WellFoundedInduction, TLAPS

\* The bounds are numbers; 0 is no resource.
LEMMA Bounds ==
  /\ MaxInstances \in Nat /\ MaxRequests \in Nat
  /\ Defs = 1..Len(Recipes) /\ Len(Recipes) \in Nat /\ 0 \notin Defs
  BY ServiceConstants DEF Defs

LEMMA Codes == 404 \in Nat /\ 409 \in Nat /\ 500 \in Nat
  OBVIOUS

\* The fields of a response.
LEMMA RespType ==
  ASSUME ServiceTypes, NEW r \in Requests
  PROVE  /\ resp[r] \in [st : {"free", "streaming", "ended", "waiting", "gone"},
                         on : {0} \cup Instances, code : Nat,
                         cause : {"none", "in use", "unknown", "failed"}, told : Nat, left : BOOLEAN]
         /\ resp[r].st \in {"free", "streaming", "ended", "waiting", "gone"}
         /\ resp[r].on \in {0} \cup Instances
  BY DEF ServiceTypes

LEMMA GraphTypes ==
  ASSUME ServiceTypes
  PROVE  /\ made \in Nat /\ made <= MaxInstances /\ \A i \in uuids : i \in Int /\ 1 <= i /\ i <= made
         /\ uuids \subseteq Instances /\ 1..made \subseteq Instances
         /\ \A i \in Instances : i \in Nat /\ i <= MaxInstances /\ i >= 1
  <1>1. made \in 0..MaxInstances /\ uuids \subseteq 1..made BY DEF ServiceTypes
  <1>2. made \in Nat /\ made <= MaxInstances BY <1>1, Bounds
  <1> HIDE DEF Instances
  <1>3. \A i : i \in 1..made => i \in Int /\ 1 <= i /\ i <= made BY <1>2
  <1>4. \A i : i \in Instances <=> i \in Int /\ 1 <= i /\ i <= MaxInstances BY Bounds DEF Instances
  <1>5. 1..made \subseteq Instances BY <1>2, <1>3, <1>4, Bounds
  <1> QED BY <1>1, <1>2, <1>3, <1>4, <1>5

LEMMA InitStreams == Init => StreamInv
  BY ServiceConstants DEF Init, StreamInv, ServiceTypes, OpenedOn, StreamsRight, NoResp, Instances, Requests

LEMMA PostStreamKeeps ==
  ASSUME StreamInv, NEW d \in Defs, PostStream(d)
  PROVE  StreamInv'
  <1> USE DEF StreamInv
  <1>1. /\ made \in Nat /\ made + 1 \in Instances /\ made' = made + 1
        /\ uuids' \in {uuids \cup {made + 1}, uuids}
        /\ UNCHANGED <<subscription, version, resp>>
    <2>1. made < MaxInstances /\ made' = made + 1 /\ BrokerGetsUUID(made + 1)
      BY DEF PostStream
    <2>2. UNCHANGED <<subscription, version, resp>>
      BY DEF PostStream
    <2> QED BY <2>1, <2>2, GraphTypes, Bounds DEF Instances, BrokerGetsUUID
  <1>2. \/ instances' = instances
        \/ instances' = [instances EXCEPT ![made + 1] = d]
    BY DEF PostStream, InstantiateResource, Runtime
  <1>3. garbage' = [i \in Instances |-> IF instances'[i] = 0 THEN "no" ELSE garbage[i]]
    BY DEF PostStream, InstantiateResource, Runtime
  <1>4. ServiceTypes'
    <2>1. instances' \in [Instances -> {0} \cup Defs] BY <1>1, <1>2 DEF ServiceTypes
    <2>2. garbage' \in [Instances -> {"no", "marked", "old"}] BY <1>3 DEF ServiceTypes
    <2>3. made' \in 0..MaxInstances BY <1>1, GraphTypes
    <2>4. uuids' \subseteq 1..made' BY <1>1, GraphTypes
    <2> QED BY <1>1, <2>1, <2>2, <2>3, <2>4 DEF ServiceTypes
  <1>5. OpenedOn'
    <2>1. \A r \in Requests : resp[r].st \in {"streaming", "ended"} => resp[r].on \in uuids'
      BY <1>1 DEF OpenedOn
    <2>2. \A r \in Requests : resp[r].st = "waiting" => resp[r].on \in 1..made' \ uuids'
      BY <1>1, GraphTypes DEF OpenedOn
    <2> QED BY <1>1, <2>1, <2>2 DEF OpenedOn
  <1>6. StreamsRight'
    <2>1. \A r \in Requests : resp[r].st = "streaming" =>
             resp[r].on \in Instances /\ resp[r].on # made + 1
      BY <1>1, GraphTypes DEF OpenedOn
    <2>2. \A i \in Instances : i # made + 1 => instances'[i] = instances[i]
      BY <1>1, <1>2 DEF ServiceTypes
    <2> QED BY <1>1, <1>3, <2>1, <2>2 DEF StreamsRight
  <1> QED BY <1>4, <1>5, <1>6

Marks == {"no", "marked", "old"}
RespSet ==
  [st : {"free", "streaming", "ended", "waiting", "gone"}, on : {0} \cup Instances, code : Nat,
   cause : {"none", "in use", "unknown", "failed"}, told : Nat, left : BOOLEAN]

LEMMA OverType == Over \in RespSet /\ Over.st = "gone"
  BY DEF Over, NoResp, RespSet

LEMMA OverWith ==
  ASSUME NEW c \in Nat, NEW t \in {"none", "in use", "unknown", "failed"}
  PROVE  /\ [Over EXCEPT !.code = c, !.cause = t] \in RespSet
         /\ [Over EXCEPT !.code = c, !.cause = t].st = "gone"
         /\ [Over EXCEPT !.code = c, !.cause = t].code = c
         /\ [Over EXCEPT !.code = c, !.cause = t].cause = t
  BY OverType DEF RespSet

\* What a checker sends.
LEMMA AnswerType ==
  ASSUME NEW s
  PROVE  /\ Answer(s) \in RespSet /\ Answer(s).st = "gone"
         /\ \/ Answer(s).code = 500 /\ Answer(s).cause = "failed"
            \/ Answer(s).code = 200 /\ Answer(s).cause = "none"
  <1>1. CASE s = "error"
    <2>1. PICK c \in Nat : c = 500 OBVIOUS
    <2>2. PICK x : x = [Over EXCEPT !.code = c, !.cause = "failed"] OBVIOUS
    <2>3. Answer(s) = x BY <1>1, <2>1, <2>2 DEF Answer
    <2>4. x \in RespSet /\ x.st = "gone" /\ x.code = c /\ x.cause = "failed" BY <2>2, OverWith
    <2> QED BY <2>1, <2>3, <2>4
  <1>2. CASE s # "error"
    <2>1. PICK c \in Nat : c = 200 OBVIOUS
    <2>2. PICK x : x = [Over EXCEPT !.code = c, !.cause = "none"] OBVIOUS
    <2>3. Answer(s) = x BY <1>2, <2>1, <2>2 DEF Answer
    <2>4. x \in RespSet /\ x.st = "gone" /\ x.code = c /\ x.cause = "none" BY <2>2, OverWith, ZenonT(60)
    <2> QED BY <2>1, <2>3, <2>4
  <1> QED BY <1>1, <1>2

\* The types that are left once the instances and their marks are right.
LEMMA TypesKept ==
  ASSUME ServiceTypes, UNCHANGED <<made, uuids>>,
         instances' \in [Instances -> {0} \cup Defs], garbage' \in [Instances -> Marks],
         subscription' \in [Instances -> {0} \cup Requests], version' \in [Defs -> Nat],
         resp' \in [Requests -> RespSet]
  PROVE  ServiceTypes'
  BY DEF ServiceTypes, Marks, RespSet

\* checkGarbage leaves an instance without a mark as it is.
LEMMA SweepKeeps ==
  ASSUME ServiceTypes, NEW g \in [Instances -> Marks], NEW h, NEW new, NEW lost, NEW s,
         Runtime(h, new, lost, Swept(instances, g), SweptMarks(g), s)
  PROVE  /\ instances' \in [Instances -> {0} \cup Defs] /\ garbage' \in [Instances -> Marks]
         /\ \A i \in Instances : g[i] = "no" => instances'[i] = instances[i] /\ garbage'[i] = "no"
  <1>1. instances' = Swept(instances, g)
        /\ garbage' = [i \in Instances |-> IF Swept(instances, g)[i] = 0 THEN "no" ELSE SweptMarks(g)[i]]
    BY DEF Runtime
  <1>2. \A i \in Instances : instances[i] \in {0} \cup Defs /\ g[i] \in Marks
    BY DEF ServiceTypes
  <1>3. Swept(instances, g) \in [Instances -> {0} \cup Defs]
    BY <1>2 DEF Swept
  <1>4. SweptMarks(g) \in [Instances -> Marks]
    BY <1>2 DEF SweptMarks, Marks
  <1>5. \A i \in Instances : g[i] = "no" => Swept(instances, g)[i] = instances[i] /\ SweptMarks(g)[i] = "no"
    BY DEF Swept, SweptMarks
  <1> QED BY <1>1, <1>3, <1>4, <1>5 DEF Marks

LEMMA UnsubscribeKeeps ==
  ASSUME StreamInv, NEW i \in Instances, NEW R \in [Requests -> RespSet], Unsubscribe({i}, R),
         UNCHANGED <<made, uuids, version>>,
         \A r \in Requests : r # subscription[i] => R[r] = resp[r],
         \A r \in Requests : r = subscription[i] =>
           R[r].st \in {"ended", "gone"} /\ (R[r].st = "ended" => R[r].on \in uuids)
  PROVE  StreamInv'
  <1> USE DEF StreamInv
  <1> DEFINE g == Mark(garbage, {i})
  <1>1. g \in [Instances -> Marks] /\ \A j \in Instances : j # i => g[j] = garbage[j]
    BY DEF Mark, Marks, ServiceTypes
  <1>2. /\ subscription' = [j \in Instances |-> IF j \in {i} THEN 0 ELSE subscription[j]] /\ resp' = R
        /\ Runtime(handles, {}, Of("notifier", Subscribed({i})), Swept(instances, g), SweptMarks(g), status)
    BY DEF Unsubscribe
  <1> HIDE DEF g
  <1>3. /\ instances' \in [Instances -> {0} \cup Defs] /\ garbage' \in [Instances -> Marks]
        /\ \A j \in Instances : g[j] = "no" => instances'[j] = instances[j] /\ garbage'[j] = "no"
    BY <1>1, <1>2, SweepKeeps
  <1>4. subscription' \in [Instances -> {0} \cup Requests] /\ version' \in [Defs -> Nat]
    BY <1>2 DEF ServiceTypes
  <1>5. ServiceTypes' BY <1>2, <1>3, <1>4, TypesKept
  <1>6. \A j \in Instances : subscription'[j] # 0 =>
          /\ j # i /\ subscription'[j] = subscription[j]
          /\ subscription[j] \in Requests /\ subscription[j] # subscription[i]
          /\ resp'[subscription[j]] = resp[subscription[j]]
    <2> SUFFICES ASSUME NEW j \in Instances, subscription'[j] # 0
                 PROVE  /\ j # i /\ subscription'[j] = subscription[j]
                        /\ subscription[j] \in Requests /\ subscription[j] # subscription[i]
                        /\ resp'[subscription[j]] = resp[subscription[j]]
      OBVIOUS
    <2>1. j # i /\ subscription'[j] = subscription[j] /\ subscription[j] \in Requests
      BY <1>2 DEF ServiceTypes
    <2>2. subscription[j] # subscription[i]
      BY <2>1 DEF OpenedOn
    <2> QED BY <1>2, <2>1, <2>2
  <1>7. \A r \in Requests : R[r].st \in {"streaming", "waiting"} => r # subscription[i] /\ R[r] = resp[r]
    OBVIOUS
  <1>8. OpenedOn'
    <2>1. \A r \in Requests : R[r].st \in {"streaming", "ended"} => R[r].on \in uuids
      BY <1>7 DEF OpenedOn
    <2>2. \A r \in Requests : R[r].st = "waiting" => R[r].on \in 1..made \ uuids
      BY <1>7 DEF OpenedOn
    <2> QED BY <1>2, <1>6, <2>1, <2>2 DEF OpenedOn
  <1>9. StreamsRight'
    <2>1. ASSUME NEW r \in Requests, R[r].st = "streaming"
          PROVE  LET j == R[r].on
                 IN /\ subscription'[j] = r /\ instances'[j] # 0 /\ garbage'[j] = "no"
                    /\ R[r].told = version[instances'[j]]
      <3>1. R[r] = resp[r] /\ r # subscription[i] /\ resp[r].on \in Instances
        BY <1>7, <2>1, GraphTypes DEF OpenedOn
      <3>2. subscription[resp[r].on] = r /\ resp[r].on # i /\ garbage[resp[r].on] = "no"
        BY <2>1, <3>1 DEF StreamsRight
      <3>3. instances'[resp[r].on] = instances[resp[r].on] /\ garbage'[resp[r].on] = "no"
        BY <1>1, <1>3, <3>1, <3>2
      <3> QED BY <1>2, <2>1, <3>1, <3>2, <3>3 DEF StreamsRight
    <2> QED BY <1>2, <1>6, <2>1 DEF StreamsRight
  <1> QED BY <1>5, <1>8, <1>9

LEMMA DeleteStreamKeeps ==
  ASSUME StreamInv, NEW i \in Instances, DeleteStream(i)
  PROVE  StreamInv'
  <1> USE DEF StreamInv
  <1>1. UNCHANGED <<made, uuids, version>> BY DEF DeleteStream
  <1>2. resp \in [Requests -> RespSet] BY DEF ServiceTypes, RespSet
  <1>3. CASE subscription[i] # 0 /\ Unsubscribe({i}, Ended(Subscribed({i}), resp))
    <2>1. subscription[i] \in Requests /\ Subscribed({i}) = {subscription[i]}
      BY <1>3 DEF ServiceTypes, Subscribed
    <2>2. PICK R : R = Ended(Subscribed({i}), resp) OBVIOUS
    <2>3. R = [r \in Requests |-> IF r = subscription[i] THEN [resp[r] EXCEPT !.st = "ended"] ELSE resp[r]]
      BY <2>1, <2>2 DEF Ended
    <2>4. R \in [Requests -> RespSet]
      BY <1>2, <2>3, ZenonT(60) DEF RespSet
    <2>5. resp[subscription[i]].st = "streaming" /\ resp[subscription[i]].on \in uuids
      BY <1>3, <2>1 DEF StreamsRight, OpenedOn
    <2>6. \A r \in Requests : r = subscription[i] => R[r].st = "ended" /\ R[r].on \in uuids
      BY <1>2, <2>3, <2>5 DEF RespSet
    <2>7. \A r \in Requests : r # subscription[i] => R[r] = resp[r]
      BY <2>3
    <2> QED BY <1>1, <1>3, <2>2, <2>4, <2>6, <2>7, UnsubscribeKeeps
  <1>4. CASE subscription[i] = 0 /\ Unsubscribe({i}, resp)
    <2>1. 0 \notin Requests BY DEF Requests
    <2> QED BY <1>1, <1>2, <1>4, <2>1, UnsubscribeKeeps
  <1> QED BY <1>3, <1>4 DEF DeleteStream, CloseResourceInstance

LEMMA ReqCloseKeeps ==
  ASSUME StreamInv, NEW r \in Requests, ReqClose(r)
  PROVE  StreamInv'
  <1> USE DEF StreamInv
  <1>1. UNCHANGED <<made, uuids, version>> /\ resp[r].st \in {"streaming", "ended"} BY DEF ReqClose
  <1>2. PICK i \in Instances : i = resp[r].on /\ i \in uuids
    BY <1>1, GraphTypes DEF OpenedOn
  <1>3. PICK R : R = [resp EXCEPT ![r] = Over] OBVIOUS
  <1>4. R \in [Requests -> RespSet] /\ R[r].st = "gone" /\ \A q \in Requests : q # r => R[q] = resp[q]
    BY <1>3, Bounds DEF RespSet, Over, NoResp, ServiceTypes
  <1>5. CASE subscription[i] = r /\ Unsubscribe({i}, R)
    <2>1. \A q \in Requests : q # subscription[i] => R[q] = resp[q] BY <1>4, <1>5
    <2>2. \A q \in Requests : q = subscription[i] => R[q].st = "gone" BY <1>4, <1>5
    <2> QED BY <1>1, <1>4, <1>5, <2>1, <2>2, UnsubscribeKeeps
  <1>6. CASE subscription[i] # r /\ resp' = R /\ UNCHANGED <<instances, garbage, subscription>>
    <2>1. ServiceTypes' BY <1>1, <1>4, <1>6, TypesKept DEF ServiceTypes, Marks
    <2>2. \A j \in Instances : subscription[j] # r
      <3>1. r # 0 BY DEF Requests
      <3> QED BY <1>2, <1>6, <3>1 DEF OpenedOn
    <2>3. OpenedOn' BY <1>1, <1>4, <1>6, <2>2, ZenonT(60) DEF OpenedOn, ServiceTypes
    <2>4. StreamsRight'
      <3>1. \A q \in Requests : resp'[q].st = "streaming" => resp'[q] = resp[q]
        BY <1>4, <1>6
      <3>2. \A j \in Instances : subscription[j] # 0 => resp'[subscription[j]] = resp[subscription[j]]
        BY <1>4, <1>6, <2>2 DEF ServiceTypes
      <3> QED BY <1>1, <1>6, <3>1, <3>2 DEF StreamsRight
    <2> QED BY <2>1, <2>3, <2>4
  <1> QED BY <1>2, <1>3, <1>5, <1>6 DEF ReqClose

\* A response of a refused or answered request is no stream and waits for nothing.
LEMMA AnsweredKeeps ==
  ASSUME StreamInv, NEW r \in Requests, resp[r].st # "streaming", NEW x \in RespSet, x.st = "gone",
         UNCHANGED <<uuids, subscription, version>>, resp' = [resp EXCEPT ![r] = x],
         made' \in {made, made + 1}, made' \in 0..MaxInstances,
         instances' \in [Instances -> {0} \cup Defs], garbage' \in [Instances -> Marks],
         \A i \in uuids : garbage[i] = "no" => instances'[i] = instances[i] /\
                                                (instances[i] # 0 => garbage'[i] = "no")
  PROVE  StreamInv'
  <1> USE DEF StreamInv
  <1>1. resp'[r] = x /\ (\A q \in Requests : q # r => resp'[q] = resp[q]) /\ resp' \in [Requests -> RespSet]
    BY DEF ServiceTypes, RespSet
  <1>2. ServiceTypes'
    <2>1. uuids' \subseteq 1..made' BY GraphTypes
    <2> QED BY <1>1, <2>1 DEF ServiceTypes, Marks, RespSet
  <1>3. \A j \in Instances : subscription[j] # 0 =>
          subscription[j] # r /\ resp'[subscription[j]] = resp[subscription[j]]
    <2>1. \A j \in Instances : subscription[j] # 0 => subscription[j] \in Requests BY DEF ServiceTypes
    <2> QED BY <1>1, <2>1 DEF StreamsRight
  <1>4. \A q \in Requests : resp'[q].st \in {"streaming", "waiting", "ended"} => resp'[q] = resp[q]
    BY <1>1
  <1>5. OpenedOn'
    <2>1. \A q \in Requests : resp'[q].st = "waiting" => resp'[q].on \in 1..made' \ uuids'
      BY <1>4, GraphTypes DEF OpenedOn
    <2> QED BY <1>3, <1>4, <2>1 DEF OpenedOn
  <1>6. StreamsRight'
    <2>1. ASSUME NEW q \in Requests, resp'[q].st = "streaming"
          PROVE  LET j == resp'[q].on
                 IN /\ subscription[j] = q /\ instances'[j] # 0 /\ garbage'[j] = "no"
                    /\ resp'[q].told = version[instances'[j]]
      <3>1. resp'[q] = resp[q] /\ resp[q].on \in uuids
        BY <1>4, <2>1 DEF OpenedOn
      <3> QED BY <2>1, <3>1 DEF StreamsRight
    <2> QED BY <1>3, <2>1 DEF StreamsRight
  <1> QED BY <1>2, <1>5, <1>6

LEMMA RefuseKeeps ==
  ASSUME StreamInv, NEW r \in Requests, resp[r].st = "free", NEW h, NEW n, NEW session,
         NEW cause \in {"none", "in use", "unknown", "failed"},
         Refuse(r, h, n, session, cause), UNCHANGED <<made, uuids, version>>
  PROVE  StreamInv'
  <1> USE DEF StreamInv
  <1>1. PICK x : x = [Over EXCEPT !.cause = cause, !.code = SubscribeCode(session)] OBVIOUS
  <1>2. x \in RespSet /\ x.st = "gone"
    <2>1. SubscribeCode(session) \in Nat
      BY Codes, Zenon DEF SubscribeCode
    <2>2. x = [st |-> "gone", on |-> 0, code |-> SubscribeCode(session), cause |-> cause, told |-> 0, left |-> FALSE]
      BY <1>1 DEF Over, NoResp
    <2> QED BY <2>1, <2>2 DEF RespSet
  <1>3. resp' = [resp EXCEPT ![r] = x] /\ UNCHANGED subscription /\ instances' = instances
        /\ garbage' = [i \in Instances |-> IF instances[i] = 0 THEN "no" ELSE garbage[i]]
    BY <1>1 DEF Refuse, Runtime
  <1>4. garbage' \in [Instances -> Marks] /\ instances' \in [Instances -> {0} \cup Defs]
    BY <1>3 DEF ServiceTypes, Marks
  <1>5. \A i \in uuids : instances[i] # 0 => garbage'[i] = garbage[i]
    BY <1>3, GraphTypes
  <1>6. made' = made /\ made \in 0..MaxInstances BY DEF ServiceTypes
  <1> QED BY <1>2, <1>3, <1>4, <1>5, <1>6, AnsweredKeeps

LEMMA SubscribeKeeps ==
  ASSUME StreamInv, NEW r \in Requests, resp[r].st = "free", NEW i \in uuids, NEW h, NEW n,
         subscription[i] = 0, instances[i] # 0,
         Subscribe(r, i, h, n), UNCHANGED <<made, uuids, version>>
  PROVE  StreamInv'
  <1> USE DEF StreamInv
  <1>0. i \in Instances /\ r # 0 BY GraphTypes DEF Requests
  <1>1. PICK g : g = [garbage EXCEPT ![i] = "no"] OBVIOUS
  <1>2. PICK x : x = [NoResp EXCEPT !.st = "streaming", !.on = i, !.told = version[instances[i]]] OBVIOUS
  <1>3. /\ subscription' = [subscription EXCEPT ![i] = r] /\ resp' = [resp EXCEPT ![r] = x]
        /\ Runtime(h, {n}, {}, Swept(instances, g), SweptMarks(g), status)
    BY <1>1, <1>2 DEF Subscribe
  <1>4. x \in RespSet /\ x.st = "streaming" /\ x.on = i /\ x.told = version[instances[i]]
    BY <1>0, <1>2 DEF RespSet, NoResp, ServiceTypes
  <1>5. g \in [Instances -> Marks] /\ g[i] = "no" /\ \A j \in Instances : garbage[j] = "no" => g[j] = "no"
    BY <1>0, <1>1 DEF ServiceTypes, Marks
  <1>6. /\ instances' \in [Instances -> {0} \cup Defs] /\ garbage' \in [Instances -> Marks]
        /\ \A j \in Instances : g[j] = "no" => instances'[j] = instances[j] /\ garbage'[j] = "no"
    BY <1>3, <1>5, SweepKeeps
  <1>7. resp'[r] = x /\ (\A q \in Requests : q # r => resp'[q] = resp[q]) /\ resp' \in [Requests -> RespSet]
    BY <1>3, <1>4 DEF ServiceTypes, RespSet
  <1>8. /\ subscription'[i] = r /\ subscription' \in [Instances -> {0} \cup Requests]
        /\ \A j \in Instances : j # i => subscription'[j] = subscription[j]
    BY <1>0, <1>3 DEF ServiceTypes
  <1>9. ServiceTypes'
    <2>1. version' \in [Defs -> Nat] BY DEF ServiceTypes
    <2> QED BY <1>6, <1>7, <1>8, <2>1, TypesKept
  <1>10. \A j \in Instances : j # i /\ subscription[j] # 0 =>
           subscription[j] \in Requests /\ subscription[j] # r /\ resp'[subscription[j]] = resp[subscription[j]]
    BY <1>7 DEF StreamsRight, ServiceTypes
  <1>11. OpenedOn'
    <2>1. \A q \in Requests : resp'[q].st \in {"streaming", "ended"} => resp'[q].on \in uuids'
      BY <1>4, <1>7 DEF OpenedOn
    <2>2. \A q \in Requests : resp'[q].st = "waiting" => resp'[q].on \in 1..made' \ uuids'
      BY <1>4, <1>7 DEF OpenedOn
    <2>3. \A j \in Instances : subscription'[j] # 0 => resp'[subscription'[j]].on = j
      BY <1>4, <1>7, <1>8, <1>10 DEF OpenedOn
    <2> QED BY <2>1, <2>2, <2>3 DEF OpenedOn
  <1>12. StreamsRight'
    <2>1. ASSUME NEW q \in Requests, resp'[q].st = "streaming"
          PROVE  LET j == resp'[q].on
                 IN /\ subscription'[j] = q /\ instances'[j] # 0 /\ garbage'[j] = "no"
                    /\ resp'[q].told = version[instances'[j]]
      <3>1. CASE q = r
        BY <1>0, <1>4, <1>5, <1>6, <1>7, <1>8, <3>1
      <3>2. CASE q # r
        <4>1. resp'[q] = resp[q] /\ resp[q].on \in Instances
          BY <1>7, <2>1, <3>2, GraphTypes DEF OpenedOn
        <4>2. subscription[resp[q].on] = q /\ instances[resp[q].on] # 0 /\ garbage[resp[q].on] = "no"
              /\ resp[q].told = version[instances[resp[q].on]]
          BY <2>1, <4>1 DEF StreamsRight
        <4>3. resp[q].on # i BY <4>2 DEF Requests
        <4> QED BY <1>5, <1>6, <1>8, <4>1, <4>2, <4>3
      <3> QED BY <3>1, <3>2
    <2>2. \A j \in Instances : subscription'[j] # 0 => resp'[subscription'[j]].st = "streaming"
      BY <1>4, <1>7, <1>8, <1>10 DEF StreamsRight
    <2> QED BY <2>1, <2>2 DEF StreamsRight
  <1> QED BY <1>9, <1>11, <1>12

LEMMA GetStreamKeeps ==
  ASSUME StreamInv, NEW r \in Requests, NEW i \in Instances, GetStream(r, i)
  PROVE  StreamInv'
  <1>1. resp[r].st = "free" /\ i \in uuids /\ ServiceSubscribe(r, i) /\ UNCHANGED <<made, uuids, version>>
    BY DEF GetStream, NextRequest
  <1>2. PICK n : n = Native(handles, <<"notifier", r, 0>>) OBVIOUS
  <1>3. PICK h : h = Register(handles, <<"notifier", r, 0>>) OBVIOUS
  <1>4. \/ Refuse(r, h, n, -2, "in use")
        \/ Refuse(r, h, n, -1, "unknown")
        \/ subscription[i] = 0 /\ instances[i] # 0 /\ Subscribe(r, i, h, n)
        \/ Refuse(r, Register(h, <<"error">>), n, -FreshHandle(h), "failed")
    BY <1>1, <1>2, <1>3 DEF ServiceSubscribe
  <1>5. CASE Refuse(r, h, n, -2, "in use") BY <1>1, <1>5, RefuseKeeps
  <1>6. CASE Refuse(r, h, n, -1, "unknown") BY <1>1, <1>6, RefuseKeeps
  <1>7. CASE subscription[i] = 0 /\ instances[i] # 0 /\ Subscribe(r, i, h, n) BY <1>1, <1>7, SubscribeKeeps
  <1>8. CASE Refuse(r, Register(h, <<"error">>), n, -FreshHandle(h), "failed") BY <1>1, <1>8, RefuseKeeps
  <1> QED BY <1>4, <1>5, <1>6, <1>7, <1>8

LEMMA GetSnapshotKeeps ==
  ASSUME StreamInv, NEW r \in Requests, NEW d \in Defs, GetSnapshot(r, d)
  PROVE  StreamInv'
  <1> USE DEF StreamInv
  <1>1. resp[r].st = "free" /\ made < MaxInstances /\ made' = made + 1 /\ Get(r, made + 1, d)
        /\ UNCHANGED <<uuids, subscription, version>>
    BY DEF GetSnapshot, NextRequest
  <1>2. made + 1 \in Instances /\ made + 1 \notin uuids /\ made' \in 0..MaxInstances
        /\ 1..made \subseteq 1..made' /\ made + 1 \in 1..made'
    BY <1>1, GraphTypes, Bounds DEF Instances
  <1>3. PICK asked : asked = [resp EXCEPT ![r] = BrokerAsks(made + 1)] OBVIOUS
  <1>4. /\ \/ instances' = instances
           \/ instances' = [instances EXCEPT ![made + 1] = d]
        /\ \/ garbage' = [i \in Instances |-> IF instances'[i] = 0 THEN "no" ELSE garbage[i]]
           \/ garbage' = [i \in Instances |-> IF instances'[i] = 0 THEN "no" ELSE Mark(garbage, {made + 1})[i]]
        /\ \/ resp' = asked
           \/ \E s \in {"loading", "error", "ok"} \cup {status[d]} : resp' = Check(r, asked, s)
    <2>1. StartStatus(d) \subseteq {"loading", "error", "ok"} \cup {status[d]}
      BY DEF StartStatus
    <2> QED BY <1>1, <1>3, <2>1 DEF Get, Runtime
  <1>5. instances' \in [Instances -> {0} \cup Defs] /\ \A i \in uuids : instances'[i] = instances[i]
    <2>1. instances' \in [Instances -> {0} \cup Defs] BY <1>4 DEF ServiceTypes
    <2>2. \A i \in Instances : i # made + 1 => instances'[i] = instances[i] BY <1>4 DEF ServiceTypes
    <2> QED BY <1>2, <2>1, <2>2, GraphTypes
  <1>6. garbage' \in [Instances -> Marks]
    BY <1>4 DEF Mark, Marks, ServiceTypes
  <1>7. \A i \in uuids : instances'[i] # 0 => garbage'[i] = garbage[i]
    BY <1>2, <1>4, GraphTypes DEF Mark
  <1>8. CASE \E s \in {"loading", "error", "ok"} \cup {status[d]} : resp' = Check(r, asked, s)
    <2>1. PICK s : resp' = Check(r, asked, s) BY <1>8
    <2>2. PICK x : x = Answer(s) OBVIOUS
    <2>3. resp' = [resp EXCEPT ![r] = x]
      BY <1>3, <2>1, <2>2 DEF Check, ServiceTypes
    <2>4. x \in RespSet /\ x.st = "gone"
      BY <2>2, AnswerType
    <2> QED BY <1>1, <1>2, <1>5, <1>6, <1>7, <2>3, <2>4, AnsweredKeeps
  <1>9. CASE resp' = asked
    <2>1. PICK x : x = BrokerAsks(made + 1) OBVIOUS
    <2>2. x \in RespSet /\ x.st = "waiting" /\ x.on = made + 1
      BY <1>2, <2>1 DEF RespSet, BrokerAsks, NoResp
    <2>3. resp'[r] = x /\ (\A q \in Requests : q # r => resp'[q] = resp[q]) /\ resp' \in [Requests -> RespSet]
      BY <1>3, <1>9, <2>1, <2>2 DEF ServiceTypes, RespSet
    <2>4. ServiceTypes'
      <3>1. uuids' \subseteq 1..made' BY <1>1, <1>2 DEF ServiceTypes
      <3> QED BY <1>1, <1>2, <1>5, <1>6, <2>3, <3>1 DEF ServiceTypes, RespSet, Marks
    <2>5. \A j \in Instances : subscription[j] # 0 =>
            subscription[j] # r /\ resp'[subscription[j]] = resp[subscription[j]]
      BY <1>1, <2>3 DEF StreamsRight, ServiceTypes
    <2>6. \A q \in Requests : resp'[q].st \in {"streaming", "ended"} => resp'[q] = resp[q]
      BY <2>2, <2>3
    <2>7. OpenedOn'
      <3>1. \A q \in Requests : resp'[q].st = "waiting" => resp'[q].on \in 1..made' \ uuids'
        BY <1>1, <1>2, <2>2, <2>3 DEF OpenedOn
      <3> QED BY <1>1, <2>5, <2>6, <3>1 DEF OpenedOn
    <2>8. StreamsRight'
      <3>1. ASSUME NEW q \in Requests, resp'[q].st = "streaming"
            PROVE  LET j == resp'[q].on
                   IN /\ subscription[j] = q /\ instances'[j] # 0 /\ garbage'[j] = "no"
                      /\ resp'[q].told = version[instances'[j]]
        <4>1. resp'[q] = resp[q] /\ resp[q].on \in uuids
          BY <2>6, <3>1 DEF OpenedOn
        <4> QED BY <1>5, <1>7, <3>1, <4>1 DEF StreamsRight
      <3> QED BY <1>1, <2>5, <3>1 DEF StreamsRight
    <2> QED BY <2>4, <2>7, <2>8
  <1> QED BY <1>4, <1>8, <1>9

\* A notification changes what a subscriber has been told, and no more.
LEMMA ToldChanges ==
  ASSUME NEW R \in [Requests -> RespSet], NEW ds \in SUBSET Defs, NEW ver \in [Defs -> Nat]
  PROVE  /\ Told(ds, ver, R) \in [Requests -> RespSet]
         /\ \A r \in Requests :
              /\ Told(ds, ver, R)[r].st = R[r].st /\ Told(ds, ver, R)[r].on = R[r].on
              /\ Told(ds, ver, R)[r].code = R[r].code /\ Told(ds, ver, R)[r].cause = R[r].cause
              /\ R[r].st = "streaming" =>
                   Told(ds, ver, R)[r].told =
                     IF instances[R[r].on] \in ds THEN ver[instances[R[r].on]] ELSE R[r].told
  <1>1. \A r \in Requests : instances[R[r].on] \in ds => ver[instances[R[r].on]] \in Nat
    OBVIOUS
  <1>2. ASSUME NEW r \in Requests
        PROVE  /\ Told(ds, ver, R)[r] \in RespSet
               /\ Told(ds, ver, R)[r].st = R[r].st /\ Told(ds, ver, R)[r].on = R[r].on
               /\ Told(ds, ver, R)[r].code = R[r].code /\ Told(ds, ver, R)[r].cause = R[r].cause
               /\ R[r].st = "streaming" =>
                    Told(ds, ver, R)[r].told =
                      IF instances[R[r].on] \in ds THEN ver[instances[R[r].on]] ELSE R[r].told
    <2>1. PICK v : v = ver[instances[R[r].on]] OBVIOUS
    <2>2. R[r] \in RespSet OBVIOUS
    <2>3. CASE R[r].st = "streaming" /\ instances[R[r].on] \in ds
      <3>1. v \in Nat BY <1>1, <2>1, <2>3
      <3>2. Told(ds, ver, R)[r] = [R[r] EXCEPT !.told = v] BY <2>1, <2>3 DEF Told
      <3> QED BY <2>1, <2>2, <2>3, <3>1, <3>2 DEF RespSet
    <2>4. CASE ~(R[r].st = "streaming" /\ instances[R[r].on] \in ds)
      <3>1. Told(ds, ver, R)[r] = R[r] BY <2>4 DEF Told
      <3> QED BY <2>2, <2>4, <3>1
    <2> QED BY <2>3, <2>4
  <1>3. Told(ds, ver, R) \in [Requests -> RespSet]
    <2>1. Told(ds, ver, R) = [r \in Requests |-> Told(ds, ver, R)[r]] BY DEF Told
    <2> QED BY <1>2, <2>1
  <1> QED BY <1>2, <1>3

\* A step that answers some of the waiting requests, tells the streams of ds and
\* destroys garbage, with the instances of the answered ones marked at most.
LEMMA NotifyKeeps ==
  ASSUME StreamInv, NEW ds \in SUBSET Defs, NEW R \in [Requests -> RespSet],
         \A r \in Requests : R[r] = resp[r] \/ (resp[r].st = "waiting" /\ R[r].st = "gone"),
         version' \in [Defs -> Nat], \A e \in Defs : e \notin ds => version'[e] = version[e],
         resp' = Told(ds, version', R), UNCHANGED <<made, uuids, subscription>>,
         instances' \in [Instances -> {0} \cup Defs], garbage' \in [Instances -> Marks],
         \A i \in uuids : garbage[i] = "no" => instances'[i] = instances[i] /\ garbage'[i] = "no"
  PROVE  StreamInv'
  <1> USE DEF StreamInv
  <1>1. PICK ver : ver = version' OBVIOUS
  <1>2. PICK Q : Q = Told(ds, ver, R) OBVIOUS
  <1>3. /\ resp' = Q /\ Q \in [Requests -> RespSet]
        /\ \A r \in Requests :
             /\ Q[r].st = R[r].st /\ Q[r].on = R[r].on
             /\ R[r].st = "streaming" =>
                  Q[r].told = IF instances[R[r].on] \in ds THEN ver[instances[R[r].on]] ELSE R[r].told
    <2>1. ver \in [Defs -> Nat] BY <1>1
    <2>2. resp' = Q BY <1>1, <1>2
    <2> QED BY <1>2, <2>1, <2>2, ToldChanges, SMTT(30)
  <1>4. \A r \in Requests : Q[r].st \in {"streaming", "ended", "waiting"} => R[r] = resp[r]
    BY <1>3
  <1>5. \A j \in Instances : subscription[j] # 0 =>
          /\ subscription[j] \in Requests /\ resp[subscription[j]].st = "streaming"
          /\ R[subscription[j]] = resp[subscription[j]]
    BY DEF StreamsRight, ServiceTypes
  <1>6. ServiceTypes'
    <2>1. subscription' \in [Instances -> {0} \cup Requests] BY DEF ServiceTypes
    <2> QED BY <1>3, <2>1, TypesKept
  <1>7. OpenedOn'
    <2>1. \A r \in Requests : Q[r].st \in {"streaming", "ended"} => Q[r].on \in uuids
      BY <1>3, <1>4 DEF OpenedOn
    <2>2. \A r \in Requests : Q[r].st = "waiting" => Q[r].on \in 1..made \ uuids
      BY <1>3, <1>4 DEF OpenedOn
    <2>3. \A j \in Instances : subscription[j] # 0 => Q[subscription[j]].on = j
      BY <1>3, <1>5 DEF OpenedOn
    <2> QED BY <1>3, <2>1, <2>2, <2>3 DEF OpenedOn
  <1>8. StreamsRight'
    <2>1. ASSUME NEW r \in Requests, Q[r].st = "streaming"
          PROVE  LET j == Q[r].on
                 IN /\ subscription[j] = r /\ instances'[j] # 0 /\ garbage'[j] = "no"
                    /\ Q[r].told = ver[instances'[j]]
      <3>1. R[r] = resp[r] /\ resp[r].st = "streaming" /\ Q[r].on = resp[r].on /\ resp[r].on \in uuids
        BY <1>3, <1>4, <2>1 DEF OpenedOn
      <3>2. /\ subscription[resp[r].on] = r /\ instances[resp[r].on] # 0 /\ garbage[resp[r].on] = "no"
            /\ resp[r].told = version[instances[resp[r].on]]
        BY <3>1 DEF StreamsRight
      <3>3. instances'[resp[r].on] = instances[resp[r].on] /\ garbage'[resp[r].on] = "no"
        BY <3>1, <3>2
      <3>4. instances[resp[r].on] \in Defs
        BY <3>1, <3>2, GraphTypes DEF ServiceTypes
      <3>5. Q[r].told = ver[instances[resp[r].on]]
        BY <1>1, <1>3, <3>1, <3>2, <3>4
      <3> QED BY <3>1, <3>2, <3>3, <3>5
    <2>2. \A j \in Instances : subscription[j] # 0 => Q[subscription[j]].st = "streaming"
      BY <1>3, <1>5
    <2> QED BY <1>1, <1>3, <2>1, <2>2 DEF StreamsRight
  <1> QED BY <1>6, <1>7, <1>8

LEMMA PatchKeeps ==
  ASSUME StreamInv, Patch
  PROVE  StreamInv'
  <1> USE DEF StreamInv
  <1>1. /\ version' = [d \in Defs |-> version[d] + 1] /\ resp' = Told(Defs, version', resp)
        /\ Runtime(handles, {}, {}, Swept(instances, garbage), SweptMarks(garbage), status)
        /\ UNCHANGED <<made, uuids, subscription>>
    BY DEF Patch, UpdateInput
  <1>2. garbage \in [Instances -> Marks] /\ resp \in [Requests -> RespSet] /\ version' \in [Defs -> Nat]
    <2>1. garbage \in [Instances -> Marks] /\ resp \in [Requests -> RespSet]
      BY DEF ServiceTypes, Marks, RespSet
    <2>2. version \in [Defs -> Nat] BY DEF ServiceTypes
    <2>3. version' \in [Defs -> Nat] BY <1>1, <2>2
    <2> QED BY <2>1, <2>3
  <1>3. /\ instances' \in [Instances -> {0} \cup Defs] /\ garbage' \in [Instances -> Marks]
        /\ \A i \in Instances : garbage[i] = "no" => instances'[i] = instances[i] /\ garbage'[i] = "no"
    BY <1>1, <1>2, SweepKeeps
  <1>4. Defs \in SUBSET Defs OBVIOUS
  <1> QED BY <1>1, <1>2, <1>3, <1>4, GraphTypes, NotifyKeeps

LEMMA ReportKeeps ==
  ASSUME StreamInv, NEW d \in Defs, NEW s, NEW answered \in SUBSET Waiting(d), Report(d, s, answered),
         version' \in [Defs -> Nat], \A e \in Defs : e # d => version'[e] = version[e]
  PROVE  StreamInv'
  <1> USE DEF StreamInv
  <1>1. PICK R : R = [r \in Requests |-> IF r \in answered THEN Check(r, resp, s)[r] ELSE resp[r]] OBVIOUS
  <1>2. PICK g : g = Mark(garbage, {resp[r].on : r \in answered}) OBVIOUS
  <1>3. /\ resp' = Told({d}, version', R) /\ UNCHANGED <<made, uuids, subscription>>
        /\ Runtime(handles, {}, Of("checker", answered), Swept(instances, g), SweptMarks(g),
                   [status EXCEPT ![d] = s])
    BY <1>1, <1>2 DEF Report
  <1>4. \A r \in answered : r \in Requests /\ resp[r].st = "waiting" /\ resp[r].on \notin uuids
    BY DEF Waiting, OpenedOn
  <1>5. \A r \in Requests : R[r] = IF r \in answered THEN Answer(s) ELSE resp[r]
    BY <1>1 DEF Check, ServiceTypes
  <1>6. R \in [Requests -> RespSet]
    <2>1. resp \in [Requests -> RespSet] BY DEF ServiceTypes, RespSet
    <2>2. R = [r \in Requests |-> R[r]] BY <1>1
    <2> QED BY <1>5, <2>1, <2>2, AnswerType
  <1>7. \A r \in Requests : R[r] = resp[r] \/ (resp[r].st = "waiting" /\ R[r].st = "gone")
    BY <1>4, <1>5, AnswerType
  <1>8. /\ g \in [Instances -> Marks]
        /\ \A i \in Instances : i \in uuids /\ garbage[i] = "no" => g[i] = "no"
    <2>1. garbage \in [Instances -> Marks] BY DEF ServiceTypes, Marks
    <2>2. g \in [Instances -> Marks] BY <1>2, <2>1 DEF Mark, Marks
    <2>3. \A i \in uuids : i \notin {resp[r].on : r \in answered} BY <1>4
    <2>4. \A i \in Instances : i \notin {resp[r].on : r \in answered} => g[i] = garbage[i]
      BY <1>2 DEF Mark
    <2> QED BY <2>2, <2>3, <2>4
  <1>9. /\ instances' \in [Instances -> {0} \cup Defs] /\ garbage' \in [Instances -> Marks]
        /\ \A i \in Instances : g[i] = "no" => instances'[i] = instances[i] /\ garbage'[i] = "no"
    BY <1>3, <1>8, SweepKeeps
  <1>10. \A i \in uuids : garbage[i] = "no" => instances'[i] = instances[i] /\ garbage'[i] = "no"
    BY <1>8, <1>9, GraphTypes
  <1>11. {d} \in SUBSET Defs /\ \A e \in Defs : e \notin {d} => version'[e] = version[e] OBVIOUS
  <1> QED BY <1>3, <1>6, <1>7, <1>9, <1>10, <1>11, NotifyKeeps

LEMMA WriterKeeps ==
  ASSUME StreamInv, NEW d \in Defs, WriterUpdate(d) \/ WriterError(d) \/ WriterLoading(d)
  PROVE  StreamInv'
  <1>1. version \in [Defs -> Nat] BY DEF StreamInv, ServiceTypes
  <1>2. CASE WriterUpdate(d)
    <2>1. version' \in [Defs -> Nat] /\ \A e \in Defs : e # d => version'[e] = version[e]
      BY <1>1, <1>2 DEF WriterUpdate
    <2>2. Waiting(d) \in SUBSET Waiting(d) OBVIOUS
    <2> QED BY <1>2, <2>1, <2>2, ReportKeeps DEF WriterUpdate
  <1>3. CASE WriterError(d)
    <2>1. Waiting(d) \in SUBSET Waiting(d) OBVIOUS
    <2> QED BY <1>1, <1>3, <2>1, ReportKeeps DEF WriterError
  <1>4. CASE WriterLoading(d)
    <2>1. \A k : OlderThan(k, Waiting(d)) \in SUBSET Waiting(d) BY DEF OlderThan
    <2> QED BY <1>1, <1>4, <2>1, ReportKeeps DEF WriterLoading
  <1> QED BY <1>2, <1>3, <1>4

LEMMA CloseServiceKeeps ==
  ASSUME StreamInv, CloseService
  PROVE  StreamInv'
  <1> USE DEF StreamInv
  <1>1. PICK R : R = Ended(Subscribed(Instances), resp) OBVIOUS
  <1>2. /\ resp' = R /\ subscription' = [i \in Instances |-> 0] /\ instances' = [i \in Instances |-> 0]
        /\ garbage' = [i \in Instances |-> "no"] /\ UNCHANGED <<made, uuids, version>>
    BY <1>1 DEF CloseService, Close, Runtime
  <1>3. R = [r \in Requests |-> IF r \in Subscribed(Instances) THEN [resp[r] EXCEPT !.st = "ended"] ELSE resp[r]]
    BY <1>1 DEF Ended
  <1>4. resp \in [Requests -> RespSet] /\ R \in [Requests -> RespSet]
    BY <1>3, ZenonT(60) DEF RespSet, ServiceTypes
  <1>5. \A r \in Requests : r \in Subscribed(Instances) <=> resp[r].st = "streaming"
    <2>1. \A r \in Requests : r # 0 BY DEF Requests
    <2> QED BY <2>1, GraphTypes DEF StreamsRight, OpenedOn, Subscribed
  <1>6. \A r \in Requests : /\ R[r].st # "streaming" /\ R[r].on = resp[r].on
                            /\ R[r].st = "waiting" => resp[r].st = "waiting"
                            /\ R[r].st = "ended" => resp[r].st \in {"streaming", "ended"}
    <2> SUFFICES ASSUME NEW r \in Requests
                 PROVE  /\ R[r].st # "streaming" /\ R[r].on = resp[r].on
                        /\ R[r].st = "waiting" => resp[r].st = "waiting"
                        /\ R[r].st = "ended" => resp[r].st \in {"streaming", "ended"}
      OBVIOUS
    <2>1. CASE resp[r].st = "streaming"
      <3>1. R[r] = [resp[r] EXCEPT !.st = "ended"] BY <1>3, <1>5, <2>1
      <3> QED BY <1>4, <2>1, <3>1 DEF RespSet
    <2>2. CASE resp[r].st # "streaming"
      <3>1. R[r] = resp[r] BY <1>3, <1>5, <2>2
      <3> QED BY <2>2, <3>1
    <2> QED BY <2>1, <2>2
  <1>7. ServiceTypes'
    <2>1. instances' \in [Instances -> {0} \cup Defs] /\ garbage' \in [Instances -> Marks]
          /\ subscription' \in [Instances -> {0} \cup Requests]
      BY <1>2 DEF Marks
    <2>2. version' \in [Defs -> Nat] BY <1>2 DEF ServiceTypes
    <2> QED BY <1>2, <1>4, <2>1, <2>2, TypesKept
  <1>8. OpenedOn' BY <1>2, <1>6 DEF OpenedOn
  <1>9. StreamsRight' BY <1>2, <1>6 DEF StreamsRight
  <1> QED BY <1>7, <1>8, <1>9

LEMMA GivesUpKeeps ==
  ASSUME StreamInv, NEW r \in Requests, BrokerGivesUp(r)
  PROVE  StreamInv'
  <1> USE DEF StreamInv
  <1>1. resp' = [resp EXCEPT ![r].left = TRUE] /\ UNCHANGED <<graphVars, subscription>>
    BY DEF BrokerGivesUp
  <1>2. resp \in [Requests -> RespSet] BY DEF ServiceTypes, RespSet
  <1>3. resp' \in [Requests -> RespSet]
        /\ \A q \in Requests : /\ resp'[q].st = resp[q].st /\ resp'[q].on = resp[q].on
                               /\ resp'[q].told = resp[q].told
    BY <1>1, <1>2 DEF RespSet
  <1>4. ServiceTypes' BY <1>1, <1>3, TypesKept DEF graphVars, ServiceTypes, Marks
  <1>5. \A j \in Instances : subscription[j] # 0 => subscription[j] \in Requests BY DEF ServiceTypes
  <1>6. OpenedOn' BY <1>1, <1>3, <1>5 DEF OpenedOn, graphVars
  <1>7. StreamsRight' BY <1>1, <1>3, <1>5 DEF StreamsRight, graphVars
  <1> QED BY <1>4, <1>6, <1>7

LEMMA AgesKeeps ==
  ASSUME StreamInv, NEW i \in Instances, Ages(i)
  PROVE  StreamInv'
  <1> USE DEF StreamInv
  <1>1. garbage[i] = "marked" /\ garbage' = [garbage EXCEPT ![i] = "old"]
        /\ UNCHANGED <<instances, made, uuids, version, subscription, resp>>
    BY DEF Ages
  <1>2. ServiceTypes' BY <1>1 DEF ServiceTypes
  <1>3. OpenedOn' BY <1>1 DEF OpenedOn
  <1>4. \A j \in Instances : garbage[j] = "no" => garbage'[j] = "no" BY <1>1 DEF ServiceTypes
  <1>5. StreamsRight' BY <1>1, <1>4, GraphTypes DEF StreamsRight, OpenedOn
  <1> QED BY <1>2, <1>3, <1>5

LEMMA StreamsUnchanged ==
  ASSUME StreamInv, UNCHANGED <<graphVars, subscription, resp>>
  PROVE  StreamInv'
  BY DEF StreamInv, ServiceTypes, OpenedOn, StreamsRight, graphVars

LEMMA StreamStep == StreamInv /\ [Next]_vars => StreamInv'
  <1> SUFFICES ASSUME StreamInv, [Next]_vars PROVE StreamInv'
    OBVIOUS
  <1>1. ASSUME NEW d \in Defs, PostStream(d) PROVE StreamInv' BY <1>1, PostStreamKeeps
  <1>2. ASSUME NEW d \in Defs, WriterUpdate(d) \/ WriterError(d) \/ WriterLoading(d) PROVE StreamInv'
    BY <1>2, WriterKeeps
  <1>3. ASSUME NEW i \in Instances, DeleteStream(i) PROVE StreamInv' BY <1>3, DeleteStreamKeeps
  <1>4. ASSUME NEW i \in Instances, Ages(i) PROVE StreamInv' BY <1>4, AgesKeeps
  <1>5. ASSUME NEW r \in Requests, NEW i \in Instances, GetStream(r, i) PROVE StreamInv'
    BY <1>5, GetStreamKeeps
  <1>6. ASSUME NEW r \in Requests, NEW d \in Defs, GetSnapshot(r, d) PROVE StreamInv'
    BY <1>6, GetSnapshotKeeps
  <1>7. ASSUME NEW r \in Requests, ReqClose(r) PROVE StreamInv' BY <1>7, ReqCloseKeeps
  <1>8. ASSUME NEW r \in Requests, BrokerGivesUp(r) PROVE StreamInv' BY <1>8, GivesUpKeeps
  <1>9. CASE Patch BY <1>9, PatchKeeps
  <1>10. CASE CloseService BY <1>10, CloseServiceKeeps
  <1>11. CASE Finalize BY <1>11, StreamsUnchanged DEF Finalize
  <1>12. CASE UNCHANGED vars BY <1>12, StreamsUnchanged DEF vars
  <1> QED BY <1>1, <1>2, <1>3, <1>4, <1>5, <1>6, <1>7, <1>8, <1>9, <1>10, <1>11, <1>12 DEF Next

\* An open stream is the one subscription of an instance that lives, is not about to
\* be destroyed, and whose client has been told the data as it is, for any number of
\* resources, instances and requests (rest.ts streamingService, subscribe,
\* unsubscribe, checkGarbage).
THEOREM StreamsStayRight == Spec => []StreamsRight
  <1>1. StreamInv => StreamsRight BY DEF StreamInv
  <1> QED BY <1>1, InitStreams, StreamStep, PTL DEF Spec

-----------------------------------------------------------------------------
\* Registering takes a slot that is free or new, and leaves the others alone.
LEMMA Registering ==
  ASSUME NEW h, Slots(h), NEW obj, NEW g, g = Register(h, obj), NEW id, id = FreshHandle(h)
  PROVE  /\ Slots(g) /\ id \in Nat \ {0} /\ id \in DOMAIN g.objects /\ g.objects[id] = obj
         /\ DOMAIN h.objects \subseteq DOMAIN g.objects
         /\ \A i \in DOMAIN h.objects : i # id => g.objects[i] = h.objects[i]
         /\ Range(g.free) \subseteq Range(h.free) \ {id}
         /\ id \in Range(h.free) \/ id \notin DOMAIN h.objects
  <1>1. PICK o : o = h.objects OBVIOUS
  <1>2. PICK f : f = h.free OBVIOUS
  <1>3. PICK S : S = Range(o) \cup {obj} OBVIOUS
  <1>4. /\ o \in Seq(S) /\ Len(o) \in Nat /\ DOMAIN o = 1..Len(o)
        /\ f \in Seq(1..Len(o)) /\ Len(f) \in Nat /\ DOMAIN f = 1..Len(f)
        /\ \A j, k \in 1..Len(f) : f[j] = f[k] => j = k
    <2>1. o \in Seq(Range(o)) BY <1>1 DEF Slots
    <2>2. o \in Seq(S) BY <1>3, <2>1, SeqMonotonic
    <2>3. f \in Seq(DOMAIN o) /\ \A j, k \in DOMAIN f : f[j] = f[k] => j = k BY <1>1, <1>2 DEF Slots
    <2> QED BY <2>2, <2>3
  <1>5. CASE f = <<>>
    <2>1. g.objects = Append(o, obj) /\ g.free = f /\ DOMAIN g = {"objects", "free"} /\ id = Len(o) + 1
      BY <1>1, <1>2, <1>5 DEF Register, Slots, FreshHandle
    <2>2. PICK p : p = Append(o, obj) OBVIOUS
    <2>3. /\ p \in Seq(S) /\ Len(p) = Len(o) + 1 /\ p[id] = obj /\ DOMAIN p = 1..(Len(o) + 1)
          /\ \A i \in 1..Len(o) : p[i] = o[i]
      BY <1>3, <1>4, <2>1, <2>2
    <2>4. p \in Seq(Range(p)) BY <2>3, SeqOfRange
    <2>5. f \in Seq(DOMAIN p) BY <1>5
    <2>6. Slots(g) BY <1>5, <2>1, <2>2, <2>4, <2>5 DEF Slots
    <2>7. Range(f) = {} BY <1>5 DEF Range
    <2> QED BY <1>1, <1>2, <1>4, <2>1, <2>2, <2>3, <2>6, <2>7
  <1>6. CASE f # <<>>
    <2>1. Len(f) > 0 /\ f[Len(f)] \in 1..Len(o) /\ id = f[Len(f)] BY <1>2, <1>4, <1>6 DEF FreshHandle, Last
    <2>2. g.objects = [o EXCEPT ![id] = obj] /\ g.free = Front(f) /\ DOMAIN g = {"objects", "free"}
      BY <1>1, <1>2, <1>6, <2>1 DEF Register, FreshHandle, Last
    <2>3. PICK p : p = [o EXCEPT ![id] = obj] OBVIOUS
    <2>4. PICK e : e = Front(f) OBVIOUS
    <2>5. /\ p \in Seq(S) /\ DOMAIN p = 1..Len(o) /\ p[id] = obj
          /\ \A i \in 1..Len(o) : i # id => p[i] = o[i]
      BY <1>3, <1>4, <2>1, <2>3
    <2>6. p \in Seq(Range(p)) BY <2>5, SeqOfRange
    <2>7. e \in Seq(1..Len(o)) /\ DOMAIN e = 1..(Len(f) - 1) /\ \A k \in 1..(Len(f) - 1) : e[k] = f[k]
      BY <1>4, <2>1, <2>4, SubSeqProperties DEF Front
    <2>8. \A j, k \in DOMAIN e : e[j] = e[k] => j = k
      <3>1. \A j \in DOMAIN e : j \in 1..Len(f) /\ e[j] = f[j]
        <4>1. 1..(Len(f) - 1) \subseteq 1..Len(f) BY <1>4
        <4> QED BY <2>7, <4>1
      <3> QED BY <1>4, <3>1
    <2>9. Slots(g) BY <2>2, <2>3, <2>4, <2>5, <2>6, <2>7, <2>8 DEF Slots
    <2>10. Range(e) \subseteq Range(f) \ {id}
      <3>1. \A j \in DOMAIN e : j \in 1..Len(f) /\ e[j] = f[j] /\ j # Len(f)
        <4>1. PICK m \in Nat : m = Len(f) BY <1>4
        <4>2. \A j \in 1..(m - 1) : j \in 1..m /\ j # m OBVIOUS
        <4> QED BY <2>7, <4>1, <4>2
      <3>2. Len(f) \in 1..Len(f) BY <1>4, <2>1
      <3>3. \A j \in DOMAIN e : e[j] # id BY <1>4, <2>1, <3>1, <3>2
      <3> QED BY <1>4, <3>1, <3>3 DEF Range
    <2>11. id \in Range(f) BY <1>4, <2>1 DEF Range
    <2> QED BY <1>1, <1>2, <1>4, <2>1, <2>2, <2>3, <2>4, <2>5, <2>9, <2>10, <2>11
  <1> QED BY <1>5, <1>6

LEMMA RegisterPartition ==
  ASSUME NEW h, NEW H, NEW D, Partition(h, H, D), NEW obj, NEW n, n = Native(h, obj)
  PROVE  /\ Partition(Register(h, obj), H \cup {n}, D)
         /\ n.hdl \in Nat \ {0} /\ n.hdl \notin Hdls(H)
         /\ n.hdl \notin D /\ n.obj = obj
  <1>1. PICK id : id = FreshHandle(h) OBVIOUS
  <1>2. PICK g : g = Register(h, obj) OBVIOUS
  <1>3. n.hdl = id /\ n.obj = obj BY <1>1 DEF Native
  <1>4. /\ Slots(g) /\ id \in Nat \ {0} /\ id \in DOMAIN g.objects /\ g.objects[id] = obj
        /\ DOMAIN h.objects \subseteq DOMAIN g.objects
        /\ \A i \in DOMAIN h.objects : i # id => g.objects[i] = h.objects[i]
        /\ Range(g.free) \subseteq Range(h.free) \ {id}
        /\ id \in Range(h.free) \/ id \notin DOMAIN h.objects
    <2>1. Slots(h) BY DEF Partition
    <2> QED BY <1>1, <1>2, <2>1, Registering
  <1>5. \A m \in H : m.hdl # id BY <1>4 DEF Partition
  <1>6. id \notin D BY <1>4 DEF Partition
  <1>7. \A m \in H \cup {n} : m.hdl \in DOMAIN g.objects \ Range(g.free) /\ g.objects[m.hdl] = m.obj
    BY <1>3, <1>4, <1>5 DEF Partition
  <1>8. \A m, k \in H \cup {n} : m.hdl = k.hdl => m = k
    BY <1>3, <1>5 DEF Partition
  <1>9. D \subseteq DOMAIN g.objects \ (Range(g.free) \cup Hdls(H \cup {n}))
    BY <1>3, <1>4, <1>6 DEF Partition, Hdls
  <1>10. id \notin Hdls(H) BY <1>5 DEF Hdls
  <1> QED BY <1>2, <1>3, <1>4, <1>6, <1>7, <1>8, <1>9, <1>10 DEF Partition

\* Native objects that go out of use are left to be collected.
LEMMA DropPartition ==
  ASSUME NEW h, NEW H, NEW D, Partition(h, H, D), NEW L \in SUBSET H
  PROVE  Partition(h, H \ L, D \cup Hdls(L))
  <1>1. \A m \in H \ L, k \in L : m.hdl # k.hdl BY DEF Partition
  <1>2. D \cup Hdls(L) \subseteq DOMAIN h.objects \ (Range(h.free) \cup Hdls(H \ L))
    BY <1>1 DEF Partition, Hdls
  <1> QED BY <1>2 DEF Partition

LEMMA ForgetPartition ==
  ASSUME NEW h, NEW H, NEW D, Partition(h, H, D), NEW E \in SUBSET D
  PROVE  Partition(h, H, E)
  BY DEF Partition

\* Induction over the natural numbers, for a set.
LEMMA Least ==
  ASSUME NEW T \in SUBSET Nat, T # {}
  PROVE  \E x \in T : \A y \in T : ~(y < x)
  <1> DEFINE R == {ss \in Nat \X Nat : ss[1] < ss[2]}
  <1>1. IsWellFoundedOn(R, Nat)
    BY NatLessThanWellFounded DEF OpToRel
  <1>2. \E x \in T : \A y \in T : ~ (<<y, x>> \in R)
    <2> HIDE DEF R
    <2> QED BY <1>1, WFMin
  <1> QED BY <1>2

LEMMA SetInduction ==
  ASSUME NEW S, 0 \in S, \A n \in Nat : n \in S => n + 1 \in S
  PROVE  Nat \subseteq S
  <1> SUFFICES ASSUME NEW k \in Nat, k \notin S PROVE FALSE
    OBVIOUS
  <1> DEFINE T == {n \in Nat : n \notin S}
  <1>1. PICK x \in T : \A y \in T : ~(y < x)
    <2>1. T \in SUBSET Nat /\ T # {} OBVIOUS
    <2> HIDE DEF T
    <2> QED BY <2>1, Least
  <1>2. x # 0 /\ x - 1 \in Nat /\ x - 1 < x BY <1>1
  <1>3. x - 1 \in S BY <1>1, <1>2
  <1> QED BY <1>1, <1>2, <1>3

\* The recursion of RegisterAll has a value after each object.
IsRegistering(acc, h, objs, k) ==
  /\ acc = [j \in 0..k |-> acc[j]] /\ acc[0] = [h |-> h, held |-> {}]
  /\ \A j \in 1..k : acc[j] = Registered(acc[j - 1].h, acc[j - 1].held, objs[j])

LEMMA RegisteringExists ==
  ASSUME NEW h, NEW objs, NEW n \in Nat
  PROVE  \E acc : IsRegistering(acc, h, objs, n)
  <1> DEFINE S == {k \in Nat : \E acc : IsRegistering(acc, h, objs, k)}
  <1>1. 0 \in S
    <2>1. PICK acc : acc = [k \in 0..0 |-> [h |-> h, held |-> {}]] OBVIOUS
    <2>2. IsRegistering(acc, h, objs, 0) BY <2>1 DEF IsRegistering
    <2> QED BY <2>2
  <1>2. ASSUME NEW k \in Nat, k \in S PROVE k + 1 \in S
    <2>1. PICK a : IsRegistering(a, h, objs, k) BY <1>2
    <2>2. PICK x : x = Registered(a[k].h, a[k].held, objs[k + 1]) OBVIOUS
    <2>3. PICK b : b = [j \in 0..(k + 1) |-> IF j = k + 1 THEN x ELSE a[j]] OBVIOUS
    <2>4. b[0] = [h |-> h, held |-> {}] /\ b = [j \in 0..(k + 1) |-> b[j]]
      <3>1. 0 \in 0..(k + 1) /\ 0 # k + 1 OBVIOUS
      <3>2. b[0] = a[0] BY <2>3, <3>1
      <3> QED BY <2>1, <2>3, <3>2 DEF IsRegistering
    <2>5. ASSUME NEW j \in 1..(k + 1)
          PROVE  b[j] = Registered(b[j - 1].h, b[j - 1].held, objs[j])
      <3>1. CASE j = k + 1
        <4>1. b[j] = x /\ b[j - 1] = a[k] BY <2>3, <3>1
        <4> QED BY <2>2, <3>1, <4>1
      <3>2. CASE j # k + 1
        <4>1. j \in 1..k /\ b[j] = a[j] /\ b[j - 1] = a[j - 1] BY <2>3, <3>2
        <4> QED BY <2>1, <4>1 DEF IsRegistering
      <3> QED BY <3>1, <3>2
    <2>6. IsRegistering(b, h, objs, k + 1) BY <2>4, <2>5 DEF IsRegistering
    <2> QED BY <2>6
  <1> HIDE DEF S
  <1>3. Nat \subseteq S BY <1>1, <1>2, SetInduction
  <1> QED BY <1>3 DEF S

LEMMA RegisterAllIs ==
  ASSUME NEW h, NEW objs, Len(objs) \in Nat
  PROVE  \E acc : IsRegistering(acc, h, objs, Len(objs)) /\ RegisterAll(h, objs) = acc[Len(objs)]
  <1> DEFINE F(a) == [k \in 0..Len(objs) |-> IF k = 0 THEN [h |-> h, held |-> {}]
                                     ELSE Registered(a[k - 1].h, a[k - 1].held, objs[k])]
  <1> DEFINE acc == CHOOSE a : a = F(a)
  <1>1. PICK b : IsRegistering(b, h, objs, Len(objs)) BY RegisteringExists
  <1>2. b = F(b)
    <2>1. ASSUME NEW k \in 0..Len(objs) PROVE b[k] = F(b)[k]
      <3>1. k = 0 \/ k \in 1..Len(objs) OBVIOUS
      <3> QED BY <1>1, <3>1 DEF IsRegistering
    <2>2. b = [k \in 0..Len(objs) |-> b[k]] BY <1>1 DEF IsRegistering
    <2>3. F(b) = [k \in 0..Len(objs) |-> F(b)[k]] OBVIOUS
    <2> HIDE DEF F
    <2> QED BY <2>1, <2>2, <2>3
  <1>3. acc = F(acc) BY <1>2
  <1>4. IsRegistering(acc, h, objs, Len(objs))
    <2> HIDE DEF acc
    <2>1. acc = [k \in 0..Len(objs) |-> acc[k]] BY <1>3
    <2>2. acc[0] = [h |-> h, held |-> {}]
      <3>1. 0 \in 0..Len(objs) OBVIOUS
      <3> QED BY <1>3, <3>1
    <2>3. \A j \in 1..Len(objs) : acc[j] = Registered(acc[j - 1].h, acc[j - 1].held, objs[j])
      <3>1. \A j \in 1..Len(objs) : j \in 0..Len(objs) /\ j # 0 OBVIOUS
      <3> QED BY <1>3, <3>1
    <2> QED BY <2>1, <2>2, <2>3 DEF IsRegistering
  <1>5. RegisterAll(h, objs) = acc[Len(objs)] BY DEF RegisterAll
  <1> QED BY <1>4, <1>5

\* Registering objects one after the other keeps the table, and gives handles that
\* no native object has.
LEMMA RegisterAllPartition ==
  ASSUME NEW h, NEW H, NEW D, Partition(h, H, D), NEW objs, Len(objs) \in Nat
  PROVE  /\ Partition(RegisterAll(h, objs).h, H \cup RegisterAll(h, objs).held, D)
         /\ \A n \in RegisterAll(h, objs).held : n.hdl \notin Hdls(H)
  <1>1. PICK acc : IsRegistering(acc, h, objs, Len(objs)) /\ RegisterAll(h, objs) = acc[Len(objs)]
    BY RegisterAllIs
  <1> DEFINE P(k) == /\ Partition(acc[k].h, H \cup acc[k].held, D)
                     /\ \A n \in acc[k].held : n.hdl \notin Hdls(H)
  <1> DEFINE S == {k \in Nat : k <= Len(objs) => P(k)}
  <1>2. 0 \in S
    <2>1. acc[0].h = h /\ acc[0].held = {} BY <1>1 DEF IsRegistering
    <2>2. H \cup {} = H OBVIOUS
    <2> QED BY <2>1, <2>2
  <1>3. ASSUME NEW k \in Nat, k \in S PROVE k + 1 \in S
    <2> SUFFICES ASSUME k + 1 <= Len(objs) PROVE P(k + 1)
      OBVIOUS
    <2>1. P(k) BY <1>3
    <2>2. k + 1 \in 1..Len(objs) /\ (k + 1) - 1 = k OBVIOUS
    <2>3. acc[k + 1] = Registered(acc[k].h, acc[k].held, objs[k + 1])
      BY <1>1, <2>2 DEF IsRegistering
    <2>4. PICK n : n = Native(acc[k].h, objs[k + 1]) OBVIOUS
    <2>5. acc[k + 1].h = Register(acc[k].h, objs[k + 1]) /\ acc[k + 1].held = acc[k].held \cup {n}
      BY <2>3, <2>4 DEF Registered
    <2>6. Partition(Register(acc[k].h, objs[k + 1]), (H \cup acc[k].held) \cup {n}, D)
          /\ n.hdl \notin Hdls(H)
      <3>1. PICK G : G = H \cup acc[k].held OBVIOUS
      <3>2. PICK t : t = acc[k].h OBVIOUS
      <3>3. PICK obj : obj = objs[k + 1] OBVIOUS
      <3>4. Partition(t, G, D) /\ n = Native(t, obj) BY <2>1, <2>4, <3>1, <3>2, <3>3
      <3> HIDE DEF P, S
      <3>5. Partition(Register(t, obj), G \cup {n}, D) BY <3>4, RegisterPartition
      <3>6. n.hdl \notin Hdls(G) BY <3>4, RegisterPartition
      <3>7. Hdls(H) \subseteq Hdls(G) BY <3>1 DEF Hdls
      <3> QED BY <3>1, <3>2, <3>3, <3>5, <3>6, <3>7
    <2>7. (H \cup acc[k].held) \cup {n} = H \cup acc[k + 1].held BY <2>5
    <2> QED BY <2>1, <2>5, <2>6, <2>7
  <1> HIDE DEF S
  <1>4. Nat \subseteq S BY <1>2, <1>3, SetInduction
  <1>5. Len(objs) \in S BY <1>4
  <1> QED BY <1>1, <1>5 DEF S

LEMMA EmptyTable ==
  ASSUME NEW h, h = [objects |-> <<>>, free |-> <<>>]
  PROVE  Partition(h, {}, {})
  <1>1. h.objects = <<>> /\ h.free = <<>> /\ DOMAIN h = {"objects", "free"} OBVIOUS
  <1>2. Slots(h) BY <1>1 DEF Slots
  <1> QED BY <1>2 DEF Partition

\* initService takes the handles in order.
LEMMA InOrderHandles ==
  ASSUME NEW objs, Len(objs) \in Nat, NEW h, h = [objects |-> <<>>, free |-> <<>>]
  PROVE  /\ Partition(RegisterAll(h, objs).h, RegisterAll(h, objs).held, {})
         /\ \A j \in 1..Len(objs) : [hdl |-> j, obj |-> objs[j]] \in RegisterAll(h, objs).held
  <1>1. PICK acc : IsRegistering(acc, h, objs, Len(objs)) /\ RegisterAll(h, objs) = acc[Len(objs)]
    BY RegisterAllIs
  <1> DEFINE P(k) == /\ Partition(acc[k].h, acc[k].held, {}) /\ acc[k].h.free = <<>> /\ Len(acc[k].h.objects) = k
                     /\ \A j \in 1..k : [hdl |-> j, obj |-> objs[j]] \in acc[k].held
  <1> DEFINE S == {k \in Nat : k <= Len(objs) => P(k)}
  <1>2. 0 \in S
    <2>1. acc[0].h = h /\ acc[0].held = {} BY <1>1 DEF IsRegistering
    <2>2. h.free = <<>> /\ h.objects = <<>> /\ Len(<<>>) = 0 OBVIOUS
    <2>3. Partition(h, {}, {}) BY EmptyTable
    <2>4. \A j \in 1..0 : FALSE OBVIOUS
    <2> QED BY <2>1, <2>2, <2>3, <2>4
  <1>3. ASSUME NEW k \in Nat, k \in S PROVE k + 1 \in S
    <2> SUFFICES ASSUME k + 1 <= Len(objs) PROVE P(k + 1)
      OBVIOUS
    <2>1. P(k) BY <1>3
    <2>2. k + 1 \in 1..Len(objs) /\ (k + 1) - 1 = k OBVIOUS
    <2>3. acc[k + 1] = Registered(acc[k].h, acc[k].held, objs[k + 1])
      BY <1>1, <2>2 DEF IsRegistering
    <2>4. PICK n : n = Native(acc[k].h, objs[k + 1]) OBVIOUS
    <2>5. acc[k + 1].h = Register(acc[k].h, objs[k + 1]) /\ acc[k + 1].held = acc[k].held \cup {n}
      BY <2>3, <2>4 DEF Registered
    <2>6. Partition(Register(acc[k].h, objs[k + 1]), acc[k].held \cup {n}, {})
      BY <2>1, <2>4, RegisterPartition
    <2>7. n = [hdl |-> k + 1, obj |-> objs[k + 1]]
      BY <2>1, <2>4 DEF Native, FreshHandle
    <2>8. acc[k + 1].h.free = <<>> /\ acc[k + 1].h.objects = Append(acc[k].h.objects, objs[k + 1])
      <3>1. Slots(acc[k].h) BY <2>1 DEF Partition
      <3> QED BY <2>1, <2>5, <3>1 DEF Register, Slots
    <2>9. Len(acc[k + 1].h.objects) = k + 1
      <3>1. PICK o : o = acc[k].h.objects OBVIOUS
      <3>2. o \in Seq(Range(o)) /\ Len(o) = k BY <2>1, <3>1 DEF Partition, Slots
      <3>3. o \in Seq(Range(o) \cup {objs[k + 1]}) BY <3>2, SeqMonotonic
      <3> QED BY <2>8, <3>1, <3>2, <3>3, AppendProperties
    <2>10. \A j \in 1..(k + 1) : [hdl |-> j, obj |-> objs[j]] \in acc[k + 1].held
      <3>1. \A j \in 1..(k + 1) : j \in 1..k \/ j = k + 1 OBVIOUS
      <3> QED BY <2>1, <2>5, <2>7, <3>1
    <2> QED BY <2>5, <2>6, <2>8, <2>9, <2>10
  <1> HIDE DEF S
  <1>4. Nat \subseteq S BY <1>2, <1>3, SetInduction
  <1>5. Len(objs) \in S BY <1>4
  <1> QED BY <1>1, <1>5 DEF S

LEMMA ServiceObjectsSeq ==
  /\ Len(ServiceObjects) = NbrExternals + Len(Recipes) + 1 /\ DOMAIN ServiceObjects = 1..Len(ServiceObjects)
  /\ \A k \in DOMAIN ServiceObjects : ServiceObjects[k][1] \in {"externalService", "builder", "service"}
  <1>1. PICK a : a = [i \in 1..NbrExternals |-> <<"externalService", i, 0>>] OBVIOUS
  <1>2. PICK b : b = [d \in Defs |-> <<"builder", d, 0>>] OBVIOUS
  <1>3. PICK c : c = <<<<"service", 0, 0>>>> OBVIOUS
  <1>4. PICK S : S = {"externalService", "builder", "service"} \X Int \X Int OBVIOUS
  <1>5. NbrExternals \in Nat BY ServiceConstants
  <1>6. a \in Seq(S) /\ Len(a) = NbrExternals BY <1>1, <1>4, <1>5
  <1>7. b \in Seq(S) /\ Len(b) = Len(Recipes)
    <2>1. b = [d \in 1..Len(Recipes) |-> <<"builder", d, 0>>] BY <1>2, Bounds
    <2> QED BY <1>4, <2>1, Bounds
  <1>8. c \in Seq(S) /\ Len(c) = 1 BY <1>3, <1>4
  <1>9. PICK ab : ab = a \o b OBVIOUS
  <1>10. ab \in Seq(S) /\ Len(ab) = NbrExternals + Len(Recipes)
    <2>1. ab \in Seq(S) /\ Len(ab) = Len(a) + Len(b) BY <1>6, <1>7, <1>9, ConcatProperties
    <2> QED BY <1>6, <1>7, <2>1
  <1>11. PICK abc : abc = ab \o c OBVIOUS
  <1>12. abc \in Seq(S) /\ Len(abc) = NbrExternals + Len(Recipes) + 1
    <2>1. abc \in Seq(S) /\ Len(abc) = Len(ab) + Len(c) BY <1>8, <1>10, <1>11, ConcatProperties
    <2> QED BY <1>8, <1>10, <2>1
  <1>13. ServiceObjects = abc BY <1>1, <1>2, <1>3, <1>9, <1>11 DEF ServiceObjects
  <1>14. DOMAIN abc = 1..Len(abc) /\ \A k \in 1..Len(abc) : abc[k] \in S BY <1>12
  <1>15. \A x \in S : x[1] \in {"externalService", "builder", "service"} BY <1>4
  <1> QED BY <1>12, <1>13, <1>14, <1>15

\* Resource.instantiate makes a list of objects.
IsFlattening(f, seqs, k) ==
  f = [j \in 1..k |-> IF j = 1 THEN seqs[j] ELSE f[j - 1] \o seqs[j]]

LEMMA FlatteningExists ==
  ASSUME NEW S, NEW seqs \in Seq(Seq(S)), NEW n \in Nat, n + 1 <= Len(seqs)
  PROVE  \E f \in [1..(n + 1) -> Seq(S)] : IsFlattening(f, seqs, n + 1)
  <1> DEFINE N == {k \in Nat : k + 1 <= Len(seqs) =>
                     \E f \in [1..(k + 1) -> Seq(S)] : IsFlattening(f, seqs, k + 1)}
  <1>0. Len(seqs) \in Nat /\ \A j \in 1..Len(seqs) : seqs[j] \in Seq(S) OBVIOUS
  <1>1. 0 \in N
    <2> SUFFICES ASSUME 1 <= Len(seqs)
                 PROVE  \E f \in [1..1 -> Seq(S)] : IsFlattening(f, seqs, 1)
      OBVIOUS
    <2>1. PICK f : f = [j \in 1..1 |-> seqs[j]] OBVIOUS
    <2>2. f \in [1..1 -> Seq(S)] BY <1>0, <2>1
    <2>3. IsFlattening(f, seqs, 1)
      <3>1. \A j \in 1..1 : j = 1 OBVIOUS
      <3> QED BY <2>1, <3>1 DEF IsFlattening
    <2> QED BY <2>2, <2>3
  <1>2. ASSUME NEW k \in Nat, k \in N PROVE k + 1 \in N
    <2> SUFFICES ASSUME k + 2 <= Len(seqs)
                 PROVE  \E f \in [1..(k + 2) -> Seq(S)] : IsFlattening(f, seqs, k + 2)
      BY (k + 1) + 1 = k + 2
    <2>1. PICK f \in [1..(k + 1) -> Seq(S)] : IsFlattening(f, seqs, k + 1)
      BY <1>0, <1>2
    <2>2. PICK x : x = f[k + 1] \o seqs[k + 2] OBVIOUS
    <2>3. PICK g : g = [j \in 1..(k + 2) |-> IF j = k + 2 THEN x ELSE f[j]] OBVIOUS
    <2>4. x \in Seq(S)
      <3>1. f[k + 1] \in Seq(S) /\ seqs[k + 2] \in Seq(S) BY <1>0, <2>1
      <3> QED BY <2>2, <3>1
    <2>5. \A j \in 1..(k + 2) : j \in 1..(k + 1) \/ j = k + 2 OBVIOUS
    <2>6. g \in [1..(k + 2) -> Seq(S)] BY <2>1, <2>3, <2>4, <2>5
    <2>7. \A j \in 1..(k + 2) : g[j] = IF j = 1 THEN seqs[j] ELSE g[j - 1] \o seqs[j]
      <3> SUFFICES ASSUME NEW j \in 1..(k + 2)
                   PROVE  g[j] = IF j = 1 THEN seqs[j] ELSE g[j - 1] \o seqs[j]
        OBVIOUS
      <3>1. CASE j = k + 2
        <4>1. j - 1 = k + 1 /\ k + 1 \in 1..(k + 2) /\ k + 1 # k + 2 /\ j # 1 BY <3>1
        <4>2. g[j] = x /\ g[j - 1] = f[k + 1] BY <2>3, <3>1, <4>1
        <4> QED BY <2>2, <3>1, <4>1, <4>2
      <3>2. CASE j # k + 2
        <4>1. j \in 1..(k + 1) /\ g[j] = f[j] BY <2>3, <3>2
        <4>2. f[j] = IF j = 1 THEN seqs[j] ELSE f[j - 1] \o seqs[j] BY <2>1, <4>1 DEF IsFlattening
        <4>3. j # 1 => j - 1 \in 1..(k + 2) /\ j - 1 # k + 2 BY <4>1
        <4>4. j # 1 => g[j - 1] = f[j - 1] BY <2>3, <4>3
        <4> QED BY <4>1, <4>2, <4>4
      <3> QED BY <3>1, <3>2
    <2>8. IsFlattening(g, seqs, k + 2)
      <3>1. g = [j \in 1..(k + 2) |-> g[j]] BY <2>6
      <3> QED BY <2>7, <3>1 DEF IsFlattening
    <2> QED BY <2>6, <2>8
  <1> HIDE DEF N
  <1>3. Nat \subseteq N BY <1>1, <1>2, SetInduction
  <1> QED BY <1>3 DEF N

\* The two solutions of the recursion are the same, so that the one chosen is of sequences.
LEMMA FlatteningUnique ==
  ASSUME NEW f, NEW g, NEW seqs, NEW m \in Nat, IsFlattening(f, seqs, m), IsFlattening(g, seqs, m)
  PROVE  \A j \in 1..m : f[j] = g[j]
  <1> DEFINE N == {k \in Nat : k + 1 <= m => f[k + 1] = g[k + 1]}
  <1>1. 0 \in N
    <2> SUFFICES ASSUME 1 <= m PROVE f[1] = g[1]
      BY 0 + 1 = 1
    <2>1. 1 \in 1..m OBVIOUS
    <2>2. f[1] = seqs[1] BY <2>1 DEF IsFlattening
    <2>3. g[1] = seqs[1] BY <2>1 DEF IsFlattening
    <2> QED BY <2>2, <2>3
  <1>2. ASSUME NEW k \in Nat, k \in N PROVE k + 1 \in N
    <2> SUFFICES ASSUME k + 2 <= m PROVE f[k + 2] = g[k + 2]
      BY (k + 1) + 1 = k + 2
    <2>1. k + 2 \in 1..m /\ k + 2 # 1 /\ (k + 2) - 1 = k + 1 /\ k + 1 <= m OBVIOUS
    <2>2. f[k + 1] = g[k + 1] BY <1>2, <2>1
    <2>3. f[k + 2] = f[k + 1] \o seqs[k + 2] BY <2>1 DEF IsFlattening
    <2>4. g[k + 2] = g[k + 1] \o seqs[k + 2] BY <2>1 DEF IsFlattening
    <2> QED BY <2>2, <2>3, <2>4
  <1> HIDE DEF N
  <1>3. Nat \subseteq N BY <1>1, <1>2, SetInduction
  <1>4. ASSUME NEW j \in 1..m PROVE f[j] = g[j]
    <2>1. j - 1 \in Nat /\ (j - 1) + 1 = j /\ j <= m OBVIOUS
    <2> QED BY <1>3, <2>1 DEF N
  <1> QED BY <1>4

LEMMA FlattenIsSeq ==
  ASSUME NEW S, NEW seqs \in Seq(Seq(S))
  PROVE  FlattenSeq(seqs) \in Seq(S)
  <1>0. Len(seqs) \in Nat OBVIOUS
  <1>1. CASE Len(seqs) = 0
    <2>1. seqs = <<>> BY <1>1
    <2> QED BY <1>1, <2>1 DEF FlattenSeq
  <1>2. CASE Len(seqs) # 0
    <2>1. PICK l \in Nat : l = Len(seqs) BY <1>0
    <2>2. PICK f \in [1..Len(seqs) -> Seq(S)] : IsFlattening(f, seqs, Len(seqs))
      <3>1. l - 1 \in Nat /\ (l - 1) + 1 = l BY <1>2, <2>1
      <3>2. PICK m \in Nat : m + 1 = l BY <3>1
      <3>3. m + 1 <= Len(seqs) BY <2>1, <3>2
      <3>4. \E f \in [1..(m + 1) -> Seq(S)] : IsFlattening(f, seqs, m + 1) BY <3>3, FlatteningExists
      <3> QED BY <2>1, <3>2, <3>4
    <2> DEFINE ch == CHOOSE x : x = [i \in 1..Len(seqs) |-> IF i = 1 THEN seqs[i] ELSE x[i - 1] \o seqs[i]]
    <2>3. ch = [i \in 1..Len(seqs) |-> IF i = 1 THEN seqs[i] ELSE ch[i - 1] \o seqs[i]]
      BY <2>2 DEF IsFlattening
    <2>4. FlattenSeq(seqs) = ch[Len(seqs)] BY <1>2 DEF FlattenSeq
    <2> HIDE DEF ch
    <2>5. IsFlattening(ch, seqs, Len(seqs)) BY <2>3 DEF IsFlattening
    <2>6. Len(seqs) \in 1..Len(seqs) BY <1>0, <1>2
    <2>7. ch[Len(seqs)] = f[Len(seqs)] BY <1>0, <2>2, <2>5, <2>6, FlatteningUnique
    <2> QED BY <2>2, <2>4, <2>6, <2>7
  <1> QED BY <1>1, <1>2

LEMMA GraphObjectsSeq ==
  ASSUME NEW d \in Defs
  PROVE  Len(GraphObjects(d)) \in Nat
  <1>1. PICK S : S = GraphKinds \X {d} \X Int OBVIOUS
  <1>2. PICK c : c = CallsMade(d) OBVIOUS
  <1>3. c \in Seq(Calls)
    <2>1. PICK q : q = Recipes[d] OBVIOUS
    <2>2. q \in Seq(Calls) BY <2>1, ServiceConstants DEF Defs
    <2>3. CASE "anonymous" \in Range(q)
      <3>1. PICK i : i = CHOOSE k \in DOMAIN q : q[k] = "anonymous" OBVIOUS
      <3>2. i \in DOMAIN q BY <2>3, <3>1 DEF Range
      <3>3. i \in 1..Len(q) /\ Len(q) \in Nat BY <2>2, <3>2
      <3>4. c = SubSeq(q, 1, i - 1) BY <1>2, <2>1, <2>3, <3>1 DEF CallsMade
      <3> QED BY <2>2, <3>3, <3>4, SubSeqProperties
    <2>4. CASE "anonymous" \notin Range(q) BY <1>2, <2>1, <2>2, <2>4 DEF CallsMade
    <2> QED BY <2>3, <2>4
  <1>4. ASSUME NEW call
        PROVE  KindsOf(call) \o LazyKinds(call) \in Seq(GraphKinds)
    <2>1. <<>> \in Seq(GraphKinds) /\ <<"mapper">> \in Seq(GraphKinds) /\ <<"reducer">> \in Seq(GraphKinds)
          /\ <<"mapper", "reducer">> \in Seq(GraphKinds) /\ <<"compute">> \in Seq(GraphKinds)
      BY DEF GraphKinds
    <2>2. KindsOf(call) \in Seq(GraphKinds)
      <3>1. CASE call \in {"map", "nativeMapReduce"} BY <2>1, <3>1 DEF KindsOf
      <3>2. CASE call = "mapReduce" BY <2>1, <3>2 DEF KindsOf
      <3>3. CASE call = "reduce" BY <2>1, <3>3 DEF KindsOf
      <3>4. CASE call \notin {"map", "nativeMapReduce", "mapReduce", "reduce"} BY <2>1, <3>4 DEF KindsOf
      <3> QED BY <3>1, <3>2, <3>3, <3>4
    <2>3. LazyKinds(call) \in Seq(GraphKinds) BY <2>1 DEF LazyKinds
    <2> QED BY <2>2, <2>3
  <1> DEFINE K(i) == KindsOf(c[i]) \o LazyKinds(c[i])
  <1> DEFINE el(i) == [j \in DOMAIN K(i) |-> <<K(i)[j], d, 2 * i + j>>]
  <1>5. ASSUME NEW i \in 1..Len(c) PROVE el(i) \in Seq(S)
    <2>1. PICK k : k = K(i) OBVIOUS
    <2>2. k \in Seq(GraphKinds) BY <1>4, <2>1
    <2>3. DOMAIN k = 1..Len(k) /\ Len(k) \in Nat /\ \A j \in 1..Len(k) : k[j] \in GraphKinds BY <2>2
    <2>4. el(i) = [j \in 1..Len(k) |-> <<k[j], d, 2 * i + j>>] BY <2>1, <2>3
    <2>5. \A j \in 1..Len(k) : 2 * i + j \in Int BY <1>3, <2>3
    <2>6. \A j \in 1..Len(k) : <<k[j], d, 2 * i + j>> \in S BY <1>1, <2>3, <2>5
    <2> HIDE DEF el
    <2> QED BY <2>3, <2>4, <2>6
  <1>6. PICK s : s = [i \in DOMAIN c |-> el(i)] OBVIOUS
  <1>7. s \in Seq(Seq(S))
    <2>1. DOMAIN c = 1..Len(c) /\ Len(c) \in Nat BY <1>3
    <2> HIDE DEF el
    <2> QED BY <1>5, <1>6, <2>1
  <1>8. GraphObjects(d) = <<<<"resource", d, 0>>>> \o FlattenSeq(s)
    BY <1>2, <1>6 DEF GraphObjects
  <1>9. <<<<"resource", d, 0>>>> \in Seq(S) BY <1>1 DEF GraphKinds
  <1>10. FlattenSeq(s) \in Seq(S) BY <1>7, FlattenIsSeq
  <1> QED BY <1>8, <1>9, <1>10, ConcatProperties, LenProperties

\* The rank of an id among ids is its place in their order: each place is taken once.
LEMMA RankPlaces ==
  ASSUME NEW ids, IsFiniteSet(ids), ids \subseteq Nat
  PROVE  /\ Cardinality(ids) \in Nat
         /\ \A k \in 1..Cardinality(ids) : \E x \in ids : Rank(ids, x) = k
  <1>1. Cardinality(ids) \in Nat BY FS_CardinalityType
  <1>2. PICK c \in Nat : c = Cardinality(ids) BY <1>1
  <1>3. \A x \in ids : IsFiniteSet({y \in ids : y <= x}) /\ Rank(ids, x) \in Nat /\ Rank(ids, x) <= c
    <2> SUFFICES ASSUME NEW x \in ids
                 PROVE  IsFiniteSet({y \in ids : y <= x}) /\ Rank(ids, x) \in Nat /\ Rank(ids, x) <= c
      OBVIOUS
    <2>1. PICK T \in SUBSET ids : T = {y \in ids : y <= x} OBVIOUS
    <2>2. IsFiniteSet(T) /\ Cardinality(T) <= c BY <1>2, FS_Subset
    <2>3. Cardinality(T) \in Nat BY <2>2, FS_CardinalityType
    <2> QED BY <2>1, <2>2, <2>3 DEF Rank
  <1>4. \A x \in ids : Rank(ids, x) # 0
    <2> SUFFICES ASSUME NEW x \in ids, Rank(ids, x) = 0 PROVE FALSE
      OBVIOUS
    <2>1. PICK T : T = {y \in ids : y <= x} OBVIOUS
    <2>2. IsFiniteSet(T) /\ Cardinality(T) = 0 BY <1>3, <2>1 DEF Rank
    <2>3. T = {} BY <2>2, FS_EmptySet
    <2>4. x \in T BY <2>1
    <2> QED BY <2>3, <2>4
  <1>5. ASSUME NEW x \in ids, NEW z \in ids, x < z PROVE Rank(ids, x) # Rank(ids, z)
    <2>1. PICK T : T = {y \in ids : y <= x} OBVIOUS
    <2>2. PICK U : U = {y \in ids : y <= z} OBVIOUS
    <2>3. T \in SUBSET U /\ z \in U /\ z \notin T
      <3>1. x \in Nat /\ z \in Nat /\ \A y \in ids : y \in Nat OBVIOUS
      <3>2. \A y \in ids : y <= x => y <= z BY <1>5, <3>1
      <3>3. z <= z /\ ~(z <= x) BY <1>5, <3>1
      <3> QED BY <2>1, <2>2, <3>2, <3>3
    <2>4. IsFiniteSet(U) BY <1>3, <2>2
    <2>5. Cardinality(U) # Cardinality(T) BY <2>3, <2>4, FS_Subset
    <2> QED BY <2>1, <2>2, <2>5 DEF Rank
  <1>6. \A x, z \in ids : Rank(ids, x) = Rank(ids, z) => x = z
    <2>1. \A x, z \in ids : x = z \/ x < z \/ z < x OBVIOUS
    <2> QED BY <1>5, <2>1
  <1>7. PICK f : f = [x \in ids |-> Rank(ids, x)] OBVIOUS
  <1>8. f \in [ids -> 1..c]
    <2>1. ASSUME NEW x \in ids PROVE Rank(ids, x) \in 1..c
      <3>1. PICK k : k = Rank(ids, x) OBVIOUS
      <3>2. k \in Nat /\ k <= c /\ k # 0 BY <1>3, <1>4, <3>1
      <3>3. k \in 1..c BY <3>2
      <3> QED BY <3>1, <3>3
    <2> QED BY <1>7, <2>1
  <1>9. f \in Injection(ids, 1..c) BY <1>6, <1>7, <1>8 DEF Injection, IsInjective
  <1>10. IsFiniteSet(1..c) /\ Cardinality(1..c) = c BY FS_Interval
  <1>11. f \in Surjection(ids, 1..c) BY <1>2, <1>9, <1>10, FS_Injection
  <1>12. \A k \in 1..c : \E x \in ids : f[x] = k BY <1>11 DEF Surjection
  <1> QED BY <1>1, <1>2, <1>7, <1>12

LEMMA AscendingSeq ==
  ASSUME NEW ids, IsFiniteSet(ids), ids \subseteq Nat
  PROVE  /\ Ascending(ids) \in Seq(ids)
         /\ \A j, k \in DOMAIN Ascending(ids) : Ascending(ids)[j] = Ascending(ids)[k] => j = k
  <1>1. PICK c : c = Cardinality(ids) OBVIOUS
  <1>2. PICK a : a = Ascending(ids) OBVIOUS
  <1>3. c \in Nat /\ \A k \in 1..c : \E x \in ids : Rank(ids, x) = k BY <1>1, RankPlaces
  <1>4. a = [k \in 1..c |-> CHOOSE x \in ids : Rank(ids, x) = k] BY <1>1, <1>2 DEF Ascending
  <1>5. \A k \in 1..c : a[k] \in ids /\ Rank(ids, a[k]) = k
    BY <1>3, <1>4
  <1>6. a \in Seq(ids)
    <2>1. a \in [1..c -> ids] BY <1>4, <1>5
    <2> QED BY <1>3, <2>1
  <1>7. DOMAIN a = 1..c BY <1>4
  <1> QED BY <1>2, <1>5, <1>6, <1>7

\* Deleting the handles of objects that were dropped frees them and no other.
LEMMA DeleteAllPartition ==
  ASSUME NEW h, NEW H, NEW D, Partition(h, H, D), NEW ids \in SUBSET D
  PROVE  Partition(DeleteAll(h, ids), H, D \ ids)
  <1>1. PICK o : o = h.objects OBVIOUS
  <1>2. PICK f : f = h.free OBVIOUS
  <1>3. PICK n : n = Len(o) OBVIOUS
  <1>4. /\ n \in Nat /\ o \in Seq(Range(o)) /\ DOMAIN o = 1..n
        /\ f \in Seq(1..n) /\ Len(f) \in Nat /\ DOMAIN f = 1..Len(f)
        /\ \A j, k \in DOMAIN f : f[j] = f[k] => j = k
    <2>1. o \in Seq(Range(o)) /\ f \in Seq(DOMAIN o) /\ \A j, k \in DOMAIN f : f[j] = f[k] => j = k
      BY <1>1, <1>2 DEF Partition, Slots
    <2> QED BY <1>3, <2>1
  <1>5. ids \subseteq 1..n /\ \A x \in ids : x \notin Range(f) /\ x \notin Hdls(H)
    BY <1>1, <1>2, <1>4 DEF Partition
  <1>6. IsFiniteSet(ids) /\ ids \subseteq Nat
    <2>1. IsFiniteSet(1..n) BY <1>4, FS_Interval
    <2>2. 1..n \subseteq Nat BY <1>4
    <2> QED BY <1>5, <2>1, <2>2, FS_Subset
  <1>7. PICK a : a = Ascending(ids) OBVIOUS
  <1>8. a \in Seq(ids) /\ \A j, k \in DOMAIN a : a[j] = a[k] => j = k BY <1>6, <1>7, AscendingSeq
  <1>9. PICK p : p = [i \in DOMAIN o |-> IF i \in ids THEN Null ELSE o[i]] OBVIOUS
  <1>10. PICK e : e = f \o a OBVIOUS
  <1>11. PICK g : g = DeleteAll(h, ids) OBVIOUS
  <1>12. g.objects = p /\ g.free = e /\ DOMAIN g = {"objects", "free"}
    BY <1>1, <1>2, <1>7, <1>9, <1>10, <1>11 DEF DeleteAll
  <1>13. p \in Seq(Range(p)) /\ DOMAIN p = 1..n /\ \A i \in 1..n : i \notin ids => p[i] = o[i]
    <2>1. p = [i \in 1..n |-> p[i]] /\ DOMAIN p = 1..n BY <1>4, <1>9
    <2>2. \A i \in 1..n : p[i] \in Range(p) BY <2>1 DEF Range
    <2>3. p \in [1..n -> Range(p)] BY <2>1, <2>2
    <2> QED BY <1>4, <1>9, <2>1, <2>3
  <1>14. /\ a \in Seq(1..n) /\ Len(a) \in Nat /\ DOMAIN a = 1..Len(a)
         /\ \A k \in 1..Len(a) : a[k] \in ids
    <2>1. a \in Seq(1..n) BY <1>5, <1>8, SeqMonotonic
    <2> QED BY <1>8, <2>1, LenProperties, ElementOfSeq
  <1>15. /\ e \in Seq(1..n) /\ DOMAIN e = 1..(Len(f) + Len(a))
         /\ \A k \in 1..(Len(f) + Len(a)) :
              e[k] = IF k <= Len(f) THEN f[k] ELSE a[k - Len(f)]
    BY <1>4, <1>10, <1>14
  <1>16. \A j, k \in DOMAIN e : e[j] = e[k] => j = k
    <2>1. PICK u \in Nat : u = Len(f) BY <1>4
    <2>2. PICK v \in Nat : v = Len(a) BY <1>14
    <2> SUFFICES ASSUME NEW j \in 1..(u + v), NEW k \in 1..(u + v), e[j] = e[k] PROVE j = k
      BY <1>15, <2>1, <2>2
    <2>3. \A i \in 1..u : f[i] \notin ids BY <1>4, <1>5, <2>1 DEF Range
    <2>4. CASE j <= u /\ k <= u
      <3>1. j \in 1..u /\ k \in 1..u BY <2>4
      <3> QED BY <1>4, <1>15, <2>1, <2>2, <2>4, <3>1
    <2>5. CASE j <= u /\ ~(k <= u)
      <3>1. j \in 1..u /\ k - u \in 1..v BY <2>5
      <3> QED BY <1>14, <1>15, <2>1, <2>2, <2>3, <2>5, <3>1
    <2>6. CASE ~(j <= u) /\ k <= u
      <3>1. k \in 1..u /\ j - u \in 1..v BY <2>6
      <3> QED BY <1>14, <1>15, <2>1, <2>2, <2>3, <2>6, <3>1
    <2>7. CASE ~(j <= u) /\ ~(k <= u)
      <3>1. j - u \in 1..v /\ k - u \in 1..v BY <2>7
      <3>2. a[j - u] = a[k - u] BY <1>15, <2>1, <2>2, <2>7
      <3>3. j - u = k - u BY <1>8, <1>14, <2>2, <3>1, <3>2
      <3> QED BY <3>3
    <2> QED BY <2>4, <2>5, <2>6, <2>7
  <1>17. Range(e) \subseteq Range(f) \cup ids
    <2>1. \A k \in DOMAIN e : (k \in 1..Len(f) /\ e[k] = f[k]) \/ e[k] \in ids
      <3> SUFFICES ASSUME NEW k \in DOMAIN e PROVE (k \in 1..Len(f) /\ e[k] = f[k]) \/ e[k] \in ids
        OBVIOUS
      <3>1. CASE k <= Len(f) BY <1>4, <1>15, <3>1
      <3>2. CASE ~(k <= Len(f))
        <4>1. k - Len(f) \in 1..Len(a) BY <1>4, <1>14, <1>15, <3>2
        <4> QED BY <1>14, <1>15, <3>2, <4>1
      <3> QED BY <3>1, <3>2
    <2> QED BY <1>4, <2>1 DEF Range
  <1>18. Slots(g) BY <1>12, <1>13, <1>15, <1>16 DEF Slots
  <1>19. \A m \in H : m.hdl \in 1..n \ (Range(f) \cup ids) /\ o[m.hdl] = m.obj
    BY <1>1, <1>2, <1>4, <1>5 DEF Partition, Hdls
  <1>20. D \ ids \subseteq 1..n \ (Range(e) \cup Hdls(H))
    BY <1>1, <1>2, <1>4, <1>17 DEF Partition
  <1>21. Partition(g, H, D \ ids)
    BY <1>12, <1>13, <1>17, <1>18, <1>19, <1>20 DEF Partition
  <1> QED BY <1>11, <1>21

LEMMA DeletePartition ==
  ASSUME NEW h, NEW H, NEW D, Partition(h, H, D), NEW id \in D
  PROVE  Partition(DeleteHandle(h, id), H, D \ {id})
  <1>1. PICK o : o = h.objects OBVIOUS
  <1>2. PICK f : f = h.free OBVIOUS
  <1>3. PICK n : n = Len(o) OBVIOUS
  <1>4. /\ n \in Nat /\ o \in Seq(Range(o)) /\ DOMAIN o = 1..n
        /\ f \in Seq(1..n) /\ Len(f) \in Nat /\ DOMAIN f = 1..Len(f)
        /\ \A j, k \in DOMAIN f : f[j] = f[k] => j = k
    <2>1. o \in Seq(Range(o)) /\ f \in Seq(DOMAIN o) /\ \A j, k \in DOMAIN f : f[j] = f[k] => j = k
      BY <1>1, <1>2 DEF Partition, Slots
    <2> QED BY <1>3, <2>1
  <1>5. id \in 1..n /\ id \notin Range(f) /\ id \notin Hdls(H)
    BY <1>1, <1>2, <1>4 DEF Partition
  <1>6. PICK p : p = [o EXCEPT ![id] = Null] OBVIOUS
  <1>7. PICK e : e = Append(f, id) OBVIOUS
  <1>8. PICK g : g = DeleteHandle(h, id) OBVIOUS
  <1>9. g.objects = p /\ g.free = e /\ DOMAIN g = {"objects", "free"}
    BY <1>1, <1>2, <1>6, <1>7, <1>8 DEF DeleteHandle
  <1>10. p \in Seq(Range(p)) /\ DOMAIN p = 1..n /\ \A i \in 1..n : i # id => p[i] = o[i]
    <2>1. p \in Seq(Range(o) \cup {Null}) /\ DOMAIN p = 1..n /\ \A i \in 1..n : i # id => p[i] = o[i]
      <3>1. o \in Seq(Range(o) \cup {Null}) BY <1>4, SeqMonotonic
      <3> QED BY <1>4, <1>5, <1>6, <3>1
    <2> QED BY <2>1, SeqOfRange
  <1>11. /\ e \in Seq(1..n) /\ DOMAIN e = 1..(Len(f) + 1) /\ e[Len(f) + 1] = id
         /\ \A k \in 1..Len(f) : e[k] = f[k]
    BY <1>4, <1>5, <1>7
  <1>12. \A j, k \in DOMAIN e : e[j] = e[k] => j = k
    <2>1. PICK u \in Nat : u = Len(f) BY <1>4
    <2>2. \A j \in DOMAIN e : j \in 1..u \/ j = u + 1 BY <1>11, <2>1
    <2>3. \A j \in 1..u : f[j] # id BY <1>4, <1>5, <2>1 DEF Range
    <2>4. \A j, k \in 1..u : f[j] = f[k] => j = k BY <1>4, <2>1
    <2>5. e[u + 1] = id /\ \A k \in 1..u : e[k] = f[k] BY <1>11, <2>1
    <2> QED BY <2>2, <2>3, <2>4, <2>5
  <1>13. Range(e) \subseteq Range(f) \cup {id}
    <2>1. PICK u \in Nat : u = Len(f) BY <1>4
    <2>2. \A j \in DOMAIN e : j \in 1..u \/ j = u + 1 BY <1>11, <2>1
    <2> QED BY <1>4, <1>11, <2>1, <2>2 DEF Range
  <1>14. Slots(g) BY <1>9, <1>10, <1>11, <1>12 DEF Slots
  <1>15. \A m \in H : m.hdl \in 1..n \ (Range(f) \cup {id}) /\ o[m.hdl] = m.obj
    BY <1>1, <1>2, <1>4, <1>5 DEF Partition, Hdls
  <1>16. D \ {id} \subseteq 1..n \ (Range(e) \cup Hdls(H))
    BY <1>1, <1>2, <1>4, <1>13 DEF Partition
  <1>17. Partition(g, H, D \ {id})
    BY <1>9, <1>10, <1>13, <1>14, <1>15, <1>16 DEF Partition
  <1> QED BY <1>8, <1>17

\* The handle of an exception passes through the table.
LEMMA ErrorPartition ==
  ASSUME NEW h, NEW H, NEW D, Partition(h, H, D)
  PROVE  /\ Partition(ErrorRaised(h), H, D)
         /\ FreshHandle(h) \in Nat \ {0} /\ FreshHandle(h) \notin Hdls(H)
  <1>1. PICK n : n = Native(h, <<"error">>) OBVIOUS
  <1>2. PICK g : g = Register(h, <<"error">>) OBVIOUS
  <1>3. PICK id : id = FreshHandle(h) OBVIOUS
  <1>4. n.hdl = id BY <1>1, <1>3 DEF Native
  <1>5. Partition(g, H \cup {n}, D) BY <1>1, <1>2, RegisterPartition
  <1>6. id \in Nat \ {0} /\ id \notin Hdls(H) /\ id \notin D BY <1>1, <1>4, RegisterPartition
  <1>7. n \notin H BY <1>4, <1>6 DEF Hdls
  <1>8. PICK G : G = H \cup {n} OBVIOUS
  <1>9. {n} \in SUBSET G /\ G \ {n} = H /\ Hdls({n}) = {id} BY <1>4, <1>7, <1>8 DEF Hdls
  <1>10. Partition(g, G \ {n}, D \cup Hdls({n})) BY <1>5, <1>8, <1>9, DropPartition
  <1>11. Partition(g, H, D \cup {id}) BY <1>9, <1>10
  <1>12. PICK E : E = D \cup {id} OBVIOUS
  <1>13. Partition(DeleteHandle(g, id), H, E \ {id}) BY <1>11, <1>12, DeletePartition
  <1>14. E \ {id} = D BY <1>6, <1>12
  <1> QED BY <1>2, <1>3, <1>6, <1>13, <1>14 DEF ErrorRaised

\* The objects of the service are not among the native objects that go.
Kept(lost) == \A k \in DOMAIN ServiceObjects : [hdl |-> k, obj |-> ServiceObjects[k]] \notin lost

TableRight == Partition(handles, held, dropped) /\ ServiceHeld

LEMMA RuntimeTable ==
  ASSUME ServiceHeld, NEW h, NEW new, NEW lost, NEW I, NEW g, NEW s, Runtime(h, new, lost, I, g, s),
         Partition(h, held \cup new, dropped), lost \subseteq held \cup new, Kept(lost)
  PROVE  TableRight'
  <1>1. PICK used : used = (held \cup new) \ lost OBVIOUS
  <1>2. PICK orphans : orphans = {n \in used : n.obj[1] \in GraphKinds /\ n.obj[2] \notin Graphs(I)} OBVIOUS
  <1>3. handles' = h /\ held' = used \ orphans /\ dropped' = dropped \cup {n.hdl : n \in lost \cup orphans}
    BY <1>1, <1>2 DEF Runtime
  <1>4. PICK U : U = held \cup new OBVIOUS
  <1>5. PICK L : L = lost \cup orphans OBVIOUS
  <1>6. L \in SUBSET U /\ U \ L = used \ orphans BY <1>1, <1>2, <1>4, <1>5
  <1>7. Partition(h, U, dropped) BY <1>4
  <1>8. PICK D : D = dropped OBVIOUS
  <1>9. Partition(h, U \ L, D \cup Hdls(L)) BY <1>6, <1>7, <1>8, DropPartition
  <1>10. held' = U \ L /\ dropped' = D \cup Hdls(L) BY <1>3, <1>5, <1>6, <1>8 DEF Hdls
  <1>11. Partition(handles', held', dropped') BY <1>3, <1>9, <1>10
  <1>12. ServiceHeld'
    <2> SUFFICES ASSUME NEW k \in DOMAIN ServiceObjects
                 PROVE  [hdl |-> k, obj |-> ServiceObjects[k]] \in held'
      BY DEF ServiceHeld
    <2>1. PICK n : n = [hdl |-> k, obj |-> ServiceObjects[k]] OBVIOUS
    <2>2. n \in held /\ n \notin lost BY <2>1 DEF ServiceHeld, Kept
    <2>3. n.obj[1] \in {"externalService", "builder", "service"} BY <2>1, ServiceObjectsSeq
    <2>4. n \notin orphans BY <1>2, <2>3 DEF GraphKinds
    <2> QED BY <1>1, <1>3, <2>1, <2>2, <2>4
  <1> QED BY <1>11, <1>12 DEF TableRight

LEMMA KeptEmpty == Kept({})
  BY DEF Kept

LEMMA KeptOf ==
  ASSUME NEW kind \in {"notifier", "checker"}, NEW rs
  PROVE  Kept(Of(kind, rs)) /\ Of(kind, rs) \subseteq held
  <1>1. ASSUME NEW k \in DOMAIN ServiceObjects
        PROVE  [hdl |-> k, obj |-> ServiceObjects[k]] \notin Of(kind, rs)
    <2>1. PICK n : n = [hdl |-> k, obj |-> ServiceObjects[k]] OBVIOUS
    <2>2. n.obj[1] \in {"externalService", "builder", "service"} BY <2>1, ServiceObjectsSeq
    <2> QED BY <2>1, <2>2 DEF Of
  <1> QED BY <1>1 DEF Kept, Of

LEMMA KeptNew ==
  ASSUME ServiceHeld, NEW new, \A n \in new : n.hdl \notin Hdls(held)
  PROVE  Kept(new)
  BY DEF ServiceHeld, Kept, Hdls

\* The graph of a resource takes new handles, and passing a table through an error
\* leaves it as it is.
LEMMA BuiltPartition ==
  ASSUME NEW h, NEW H, NEW D, Partition(h, H, D), NEW d \in Defs
  PROVE  /\ Partition(Built(h, d).h, H \cup Built(h, d).held, D)
         /\ Partition(ErrorRaised(Built(h, d).h), H \cup Built(h, d).held, D)
         /\ \A n \in Built(h, d).held : n.hdl \notin Hdls(H)
  <1>1. PICK objs : objs = IF Builds(d) THEN GraphObjects(d) ELSE <<>> OBVIOUS
  <1>2. Len(objs) \in Nat
    <2>1. CASE Builds(d) BY <1>1, <2>1, GraphObjectsSeq
    <2>2. CASE ~Builds(d) BY <1>1, <2>2
    <2> QED BY <2>1, <2>2
  <1>3. Built(h, d) = RegisterAll(h, objs) BY <1>1 DEF Built
  <1>4. PICK b : b = RegisterAll(h, objs) OBVIOUS
  <1>5. Partition(b.h, H \cup b.held, D) /\ \A n \in b.held : n.hdl \notin Hdls(H)
    BY <1>2, <1>4, RegisterAllPartition
  <1>6. Partition(ErrorRaised(b.h), H \cup b.held, D)
    <2>1. PICK G : G = H \cup b.held OBVIOUS
    <2>2. Partition(b.h, G, D) BY <1>5, <2>1
    <2>3. Partition(ErrorRaised(b.h), G, D) BY <2>2, ErrorPartition
    <2> QED BY <2>1, <2>3
  <1> QED BY <1>3, <1>4, <1>5, <1>6

LEMMA PostStreamTable ==
  ASSUME TableRight, NEW d \in Defs, PostStream(d)
  PROVE  TableRight'
  <1>1. PICK b : b = Built(handles, d) OBVIOUS
  <1>2. /\ Partition(b.h, held \cup b.held, dropped) /\ Partition(ErrorRaised(b.h), held \cup b.held, dropped)
        /\ \A n \in b.held : n.hdl \notin Hdls(held)
    <2>1. PICK h : h = handles OBVIOUS
    <2>2. PICK H : H = held OBVIOUS
    <2>3. PICK D : D = dropped OBVIOUS
    <2>4. Partition(h, H, D) /\ b = Built(h, d) BY <1>1, <2>1, <2>2, <2>3 DEF TableRight
    <2>5. /\ Partition(b.h, H \cup b.held, D) /\ Partition(ErrorRaised(b.h), H \cup b.held, D)
          /\ \A n \in b.held : n.hdl \notin Hdls(H)
      BY <2>4, BuiltPartition
    <2> QED BY <2>2, <2>3, <2>5
  <1>3. ServiceHeld /\ Kept(b.held) /\ Kept({}) BY <1>2, KeptNew, KeptEmpty DEF TableRight
  <1>4. b.held \subseteq held \cup b.held /\ {} \subseteq held \cup b.held OBVIOUS
  <1>5. InstantiateResource(made + 1, d) BY DEF PostStream
  <1>6. CASE Fails(d)
    <2>1. Runtime(ErrorRaised(b.h), b.held, b.held, instances, garbage, status)
      BY <1>1, <1>5, <1>6 DEF InstantiateResource
    <2> QED BY <1>2, <1>3, <1>4, <2>1, RuntimeTable
  <1>7. CASE ~Fails(d)
    <2>1. PICK s : Runtime(b.h, b.held, {}, [instances EXCEPT ![made + 1] = d], garbage, [status EXCEPT ![d] = s])
      BY <1>1, <1>5, <1>7 DEF InstantiateResource
    <2> QED BY <1>2, <1>3, <1>4, <2>1, RuntimeTable
  <1> QED BY <1>6, <1>7

\* A call that makes no native object.
LEMMA NoneMade ==
  ASSUME TableRight, NEW lost, Kept(lost), lost \subseteq held, NEW I, NEW g, NEW s,
         Runtime(handles, {}, lost, I, g, s)
  PROVE  TableRight'
  <1>1. held \cup {} = held OBVIOUS
  <1>2. Partition(handles, held \cup {}, dropped) /\ ServiceHeld /\ lost \subseteq held \cup {}
    BY <1>1 DEF TableRight
  <1> QED BY <1>2, RuntimeTable

LEMMA UnsubscribeTable ==
  ASSUME TableRight, NEW is, NEW R, Unsubscribe(is, R)
  PROVE  TableRight'
  <1>1. PICK L : L = Of("notifier", Subscribed(is)) OBVIOUS
  <1>2. PICK g : g = Mark(garbage, is) OBVIOUS
  <1>3. Runtime(handles, {}, L, Swept(instances, g), SweptMarks(g), status)
    BY <1>1, <1>2 DEF Unsubscribe
  <1>4. Kept(L) /\ L \subseteq held BY <1>1, KeptOf
  <1> QED BY <1>3, <1>4, NoneMade

\* The native object of a notifier or a checker.
LEMMA OneMade ==
  ASSUME TableRight, NEW obj, NEW n, n = Native(handles, obj), NEW h, h = Register(handles, obj)
  PROVE  /\ Partition(h, held \cup {n}, dropped) /\ Partition(ErrorRaised(h), held \cup {n}, dropped)
         /\ n.hdl \notin Hdls(held) /\ Kept({n})
         /\ FreshHandle(h) \in Nat \ {0} /\ FreshHandle(h) \notin Hdls(held)
  <1>1. PICK t : t = handles OBVIOUS
  <1>2. PICK H : H = held OBVIOUS
  <1>3. PICK D : D = dropped OBVIOUS
  <1>4. Partition(t, H, D) /\ n = Native(t, obj) /\ h = Register(t, obj)
    BY <1>1, <1>2, <1>3 DEF TableRight
  <1>5. Partition(h, H \cup {n}, D) /\ n.hdl \notin Hdls(H) BY <1>4, RegisterPartition
  <1>6. PICK G : G = H \cup {n} OBVIOUS
  <1>7. Partition(h, G, D) BY <1>5, <1>6
  <1>8. Partition(ErrorRaised(h), G, D) /\ FreshHandle(h) \in Nat \ {0} /\ FreshHandle(h) \notin Hdls(G)
    BY <1>7, ErrorPartition
  <1>9. Hdls(H) \subseteq Hdls(G) BY <1>6 DEF Hdls
  <1>10. n.hdl \notin Hdls(held) BY <1>2, <1>5
  <1>11. Kept({n})
    <2>1. \A m \in {n} : m.hdl \notin Hdls(held) BY <1>10
    <2>2. ServiceHeld BY DEF TableRight
    <2> QED BY <2>1, <2>2, KeptNew
  <1> QED BY <1>2, <1>3, <1>5, <1>6, <1>8, <1>9, <1>10, <1>11

LEMMA RefuseTable ==
  ASSUME TableRight, NEW r \in Requests, NEW i \in Instances, NEW n, n = Native(handles, <<"notifier", r, 0>>),
         NEW h, h = Register(handles, <<"notifier", r, 0>>), NEW cause,
         NEW t, NEW session, Refuse(r, t, n, session, cause),
         IF SubscribeCode(session) = 500 THEN DeleteHandle(t, -session) = ErrorRaised(h) ELSE t = h
  PROVE  TableRight'
  <1>1. PICK u : u = IF SubscribeCode(session) = 500 THEN DeleteHandle(t, -session) ELSE t OBVIOUS
  <1>2. Runtime(u, {n}, {n}, instances, garbage, status) BY <1>1 DEF Refuse
  <1>3. u \in {h, ErrorRaised(h)} BY <1>1
  <1>4. Partition(h, held \cup {n}, dropped) /\ Partition(ErrorRaised(h), held \cup {n}, dropped) /\ Kept({n})
    BY OneMade
  <1>5. Partition(u, held \cup {n}, dropped) BY <1>3, <1>4
  <1>6. ServiceHeld /\ {n} \subseteq held \cup {n} BY DEF TableRight
  <1> QED BY <1>2, <1>4, <1>5, <1>6, RuntimeTable

\* The handles 1 and 2 are of the service itself, as soon as there is a resource: the
\* handle of an error, negated, is not one of the two numbers with a meaning.
LEMMA FreshIsError ==
  ASSUME TableRight, NEW d \in Defs, NEW x \in Nat \ {0}, x \notin Hdls(held)
  PROVE  SubscribeCode(-x) = 500 /\ -(-x) = x
  <1>1. Len(ServiceObjects) >= 2 BY ServiceObjectsSeq, Bounds, ServiceConstants
  <1>2. \A k \in {1, 2} : k \in DOMAIN ServiceObjects BY <1>1, ServiceObjectsSeq, Bounds, ServiceConstants
  <1>3. \A k \in {1, 2} : [hdl |-> k, obj |-> ServiceObjects[k]] \in held
    BY <1>2 DEF TableRight, ServiceHeld
  <1>4. 1 \in Hdls(held) /\ 2 \in Hdls(held) BY <1>3 DEF Hdls
  <1>5. -x # -1 /\ -x # -2 BY <1>4
  <1> QED BY <1>5 DEF SubscribeCode

LEMMA GetStreamTable ==
  ASSUME TableRight, ServiceTypes, NEW r \in Requests, NEW i \in Instances, GetStream(r, i)
  PROVE  TableRight'
  <1>1. PICK n : n = Native(handles, <<"notifier", r, 0>>) OBVIOUS
  <1>2. PICK h : h = Register(handles, <<"notifier", r, 0>>) OBVIOUS
  <1>3. \/ Refuse(r, h, n, -2, "in use")
        \/ Refuse(r, h, n, -1, "unknown")
        \/ Subscribe(r, i, h, n)
        \/ instances[i] # 0 /\ Refuse(r, Register(h, <<"error">>), n, -FreshHandle(h), "failed")
    BY <1>1, <1>2 DEF GetStream, ServiceSubscribe
  <1>4. CASE Refuse(r, h, n, -2, "in use")
    <2>1. PICK session : session = -2 OBVIOUS
    <2>2. SubscribeCode(session) # 500 BY <2>1 DEF SubscribeCode
    <2>3. Refuse(r, h, n, session, "in use") BY <1>4, <2>1
    <2>4. IF SubscribeCode(session) = 500 THEN DeleteHandle(h, -session) = ErrorRaised(h) ELSE h = h
      BY <2>2
    <2> QED BY <1>1, <1>2, <2>3, <2>4, RefuseTable
  <1>5. CASE Refuse(r, h, n, -1, "unknown")
    <2>1. PICK session : session = -1 OBVIOUS
    <2>2. SubscribeCode(session) = 404 /\ 404 # 500 BY <2>1 DEF SubscribeCode
    <2>3. Refuse(r, h, n, session, "unknown") BY <1>5, <2>1
    <2> QED BY <1>1, <1>2, <2>2, <2>3, RefuseTable
  <1>6. CASE Subscribe(r, i, h, n)
    <2>1. PICK g : g = [garbage EXCEPT ![i] = "no"] OBVIOUS
    <2>2. Runtime(h, {n}, {}, Swept(instances, g), SweptMarks(g), status) BY <1>6, <2>1 DEF Subscribe
    <2>3. Partition(h, held \cup {n}, dropped) BY <1>1, <1>2, OneMade
    <2>4. ServiceHeld /\ {} \subseteq held \cup {n} BY DEF TableRight
    <2> QED BY <2>2, <2>3, <2>4, KeptEmpty, RuntimeTable
  <1>7. CASE instances[i] # 0 /\ Refuse(r, Register(h, <<"error">>), n, -FreshHandle(h), "failed")
    <2>1. PICK d \in Defs : d = instances[i] BY <1>7 DEF ServiceTypes
    <2>2. PICK x : x = FreshHandle(h) OBVIOUS
    <2>3. x \in Nat \ {0} /\ x \notin Hdls(held) BY <1>1, <1>2, <2>2, OneMade
    <2>4. SubscribeCode(-x) = 500 /\ -(-x) = x BY <2>3, FreshIsError
    <2>5. PICK t : t = Register(h, <<"error">>) OBVIOUS
    <2>6. DeleteHandle(t, -(-x)) = ErrorRaised(h) BY <2>2, <2>4, <2>5 DEF ErrorRaised
    <2>7. PICK session : session = -x OBVIOUS
    <2>8. Refuse(r, t, n, session, "failed") BY <1>7, <2>2, <2>5, <2>7
    <2>9. SubscribeCode(session) = 500 /\ DeleteHandle(t, -session) = ErrorRaised(h) BY <2>4, <2>6, <2>7
    <2> QED BY <1>1, <1>2, <2>8, <2>9, RefuseTable
  <1> QED BY <1>3, <1>4, <1>5, <1>6, <1>7

LEMMA GetSnapshotTable ==
  ASSUME TableRight, NEW r \in Requests, NEW d \in Defs, GetSnapshot(r, d)
  PROVE  TableRight'
  <1>1. PICK n : n = Native(handles, <<"checker", r, 0>>) OBVIOUS
  <1>2. PICK h : h = Register(handles, <<"checker", r, 0>>) OBVIOUS
  <1>3. PICK b : b = Built(h, d) OBVIOUS
  <1>4. PICK new : new = b.held \cup {n} OBVIOUS
  <1>5. /\ Partition(b.h, held \cup new, dropped) /\ Partition(ErrorRaised(b.h), held \cup new, dropped)
        /\ \A m \in new : m.hdl \notin Hdls(held)
    <2>1. Partition(h, held \cup {n}, dropped) /\ n.hdl \notin Hdls(held) BY <1>1, <1>2, OneMade
    <2>2. PICK G : G = held \cup {n} OBVIOUS
    <2>3. PICK D : D = dropped OBVIOUS
    <2>4. Partition(h, G, D) BY <2>1, <2>2, <2>3
    <2>5. /\ Partition(b.h, G \cup b.held, D) /\ Partition(ErrorRaised(b.h), G \cup b.held, D)
          /\ \A m \in b.held : m.hdl \notin Hdls(G)
      BY <1>3, <2>4, BuiltPartition
    <2>6. G \cup b.held = held \cup new BY <1>4, <2>2
    <2>7. Hdls(held) \subseteq Hdls(G) BY <2>2 DEF Hdls
    <2> QED BY <1>4, <2>1, <2>3, <2>5, <2>6, <2>7
  <1>6. ServiceHeld /\ Kept(new) /\ Kept({}) /\ Kept({n})
    <2>1. ServiceHeld BY DEF TableRight
    <2>2. \A m \in {n} : m.hdl \notin Hdls(held) BY <1>4, <1>5
    <2> QED BY <1>5, <2>1, <2>2, KeptNew, KeptEmpty
  <1>7. \/ \E I, g, s : Runtime(ErrorRaised(b.h), new, new, I, g, s)
        \/ \E I, g, s : Runtime(b.h, new, {}, I, g, s)
        \/ \E I, g, s : Runtime(b.h, new, {n}, I, g, s)
    <2>1. Get(r, made + 1, d) BY DEF GetSnapshot
    <2> QED BY <1>1, <1>2, <1>3, <1>4, <2>1 DEF Get
  <1>8. new \subseteq held \cup new /\ {} \subseteq held \cup new /\ {n} \subseteq held \cup new BY <1>4
  <1> QED BY <1>5, <1>6, <1>7, <1>8, RuntimeTable

LEMMA ReportTable ==
  ASSUME TableRight, NEW d, NEW s, NEW answered, Report(d, s, answered)
  PROVE  TableRight'
  <1>1. PICK L : L = Of("checker", answered) OBVIOUS
  <1>2. PICK g : g = Mark(garbage, {resp[r].on : r \in answered}) OBVIOUS
  <1>3. Runtime(handles, {}, L, Swept(instances, g), SweptMarks(g), [status EXCEPT ![d] = s])
    BY <1>1, <1>2 DEF Report
  <1>4. Kept(L) /\ L \subseteq held BY <1>1, KeptOf
  <1> QED BY <1>3, <1>4, NoneMade

LEMMA FinalizeTable ==
  ASSUME TableRight, Finalize
  PROVE  TableRight'
  <1>1. PICK h : h = handles OBVIOUS
  <1>2. PICK H : H = held OBVIOUS
  <1>3. PICK D : D = dropped OBVIOUS
  <1>4. Partition(h, H, D) /\ D \in SUBSET D BY <1>1, <1>2, <1>3 DEF TableRight
  <1>5. Partition(DeleteAll(h, D), H, D \ D) BY <1>4, DeleteAllPartition
  <1>6. handles' = DeleteAll(h, D) /\ held' = H /\ dropped' = D \ D BY <1>1, <1>2, <1>3 DEF Finalize
  <1>7. Partition(handles', held', dropped') BY <1>5, <1>6
  <1>8. ServiceHeld' BY DEF TableRight, ServiceHeld, Finalize
  <1> QED BY <1>7, <1>8 DEF TableRight

LEMMA ShutdownsPartition ==
  ASSUME NEW h, NEW H, NEW D, Partition(h, H, D)
  PROVE  Partition(Shutdowns(h), H, D)
  <1>1. PICK objs : objs = [i \in 1..NbrExternals |-> <<"promise", i, 0>>] OBVIOUS
  <1>2. Len(objs) \in Nat
    <2>1. NbrExternals \in Nat BY ServiceConstants
    <2>2. objs \in Seq({<<"promise", i, 0>> : i \in 1..NbrExternals}) BY <1>1, <2>1
    <2> QED BY <2>2
  <1>3. PICK p : p = RegisterAll(h, objs) OBVIOUS
  <1>4. Partition(p.h, H \cup p.held, D) /\ \A n \in p.held : n.hdl \notin Hdls(H)
    BY <1>2, <1>3, RegisterAllPartition
  <1>5. PICK L : L = p.held OBVIOUS
  <1>6. PICK G : G = H \cup L OBVIOUS
  <1>7. PICK ids : ids = Hdls(L) OBVIOUS
  <1>8. G \ L = H /\ L \in SUBSET G
    <2>1. \A n \in L : n \notin H BY <1>4, <1>5 DEF Hdls
    <2> QED BY <1>6, <2>1
  <1>9. Partition(p.h, G \ L, D \cup Hdls(L)) BY <1>4, <1>5, <1>6, <1>8, DropPartition
  <1>10. PICK E : E = D \cup ids OBVIOUS
  <1>11. Partition(p.h, H, E) /\ ids \in SUBSET E BY <1>7, <1>8, <1>9, <1>10
  <1>12. Partition(DeleteAll(p.h, ids), H, E \ ids) BY <1>11, DeleteAllPartition
  <1>13. E \ ids = D
    <2>1. \A x \in D : x \notin Hdls(G) BY <1>4, <1>5, <1>6 DEF Partition
    <2>2. Hdls(L) \subseteq Hdls(G) BY <1>6 DEF Hdls
    <2> QED BY <1>7, <1>10, <2>1, <2>2
  <1>14. Shutdowns(h) = DeleteAll(p.h, ids) BY <1>1, <1>3, <1>5, <1>7 DEF Shutdowns, Hdls
  <1> QED BY <1>12, <1>13, <1>14

LEMMA CloseServiceTable ==
  ASSUME TableRight, CloseService
  PROVE  TableRight'
  <1>1. PICK L : L = Of("notifier", Subscribed(Instances)) \cup Of("checker", Requests) OBVIOUS
  <1>2. PICK u : u = Shutdowns(handles) OBVIOUS
  <1>3. Runtime(u, {}, L, [i \in Instances |-> 0], garbage, status) BY <1>1, <1>2 DEF CloseService, Close
  <1>4. Kept(L) /\ L \subseteq held BY <1>1, KeptOf DEF Kept
  <1>5. Partition(u, held \cup {}, dropped)
    <2>1. PICK h : h = handles OBVIOUS
    <2>2. PICK H : H = held OBVIOUS
    <2>3. PICK D : D = dropped OBVIOUS
    <2>4. Partition(h, H, D) BY <2>1, <2>2, <2>3 DEF TableRight
    <2>5. Partition(Shutdowns(h), H, D) BY <2>4, ShutdownsPartition
    <2>6. held \cup {} = H BY <2>2
    <2> QED BY <1>2, <2>1, <2>3, <2>5, <2>6
  <1>6. ServiceHeld /\ L \subseteq held \cup {} BY <1>4 DEF TableRight
  <1> QED BY <1>3, <1>4, <1>5, <1>6, RuntimeTable

LEMMA TableUnchanged ==
  ASSUME TableRight, UNCHANGED tableVars
  PROVE  TableRight'
  BY DEF TableRight, ServiceHeld, tableVars

LEMMA TableStep == ServiceTypes /\ TableRight /\ [Next]_vars => TableRight'
  <1> SUFFICES ASSUME ServiceTypes, TableRight, [Next]_vars PROVE TableRight'
    OBVIOUS
  <1>1. ASSUME NEW d \in Defs, PostStream(d) PROVE TableRight' BY <1>1, PostStreamTable
  <1>2. ASSUME NEW d \in Defs, WriterUpdate(d) \/ WriterError(d) \/ WriterLoading(d) PROVE TableRight'
    BY <1>2, ReportTable DEF WriterUpdate, WriterError, WriterLoading
  <1>3. ASSUME NEW i \in Instances, DeleteStream(i) PROVE TableRight'
    BY <1>3, UnsubscribeTable DEF DeleteStream, CloseResourceInstance
  <1>4. ASSUME NEW i \in Instances, Ages(i) PROVE TableRight' BY <1>4, TableUnchanged DEF Ages
  <1>5. ASSUME NEW r \in Requests, NEW i \in Instances, GetStream(r, i) PROVE TableRight'
    BY <1>5, GetStreamTable
  <1>6. ASSUME NEW r \in Requests, NEW d \in Defs, GetSnapshot(r, d) PROVE TableRight'
    BY <1>6, GetSnapshotTable
  <1>7. ASSUME NEW r \in Requests, ReqClose(r) PROVE TableRight'
    BY <1>7, UnsubscribeTable, TableUnchanged DEF ReqClose
  <1>8. ASSUME NEW r \in Requests, BrokerGivesUp(r) PROVE TableRight'
    BY <1>8, TableUnchanged DEF BrokerGivesUp
  <1>9. CASE Patch
    <2>1. Runtime(handles, {}, {}, Swept(instances, garbage), SweptMarks(garbage), status)
      BY <1>9 DEF Patch, UpdateInput
    <2> QED BY <2>1, KeptEmpty, NoneMade
  <1>10. CASE CloseService BY <1>10, CloseServiceTable
  <1>11. CASE Finalize BY <1>11, FinalizeTable
  <1>12. CASE UNCHANGED vars BY <1>12, TableUnchanged DEF vars
  <1> QED BY <1>1, <1>2, <1>3, <1>4, <1>5, <1>6, <1>7, <1>8, <1>9, <1>10, <1>11, <1>12 DEF Next

LEMMA TableInit == Init => TableRight
  <1> SUFFICES ASSUME Init PROVE TableRight
    OBVIOUS
  <1>1. PICK h : h = [objects |-> <<>>, free |-> <<>>] OBVIOUS
  <1>2. PICK b : b = RegisterAll(h, ServiceObjects) OBVIOUS
  <1>3. Len(ServiceObjects) \in Nat /\ DOMAIN ServiceObjects = 1..Len(ServiceObjects)
    BY ServiceObjectsSeq, Bounds, ServiceConstants
  <1>4. Partition(b.h, b.held, {}) /\ \A j \in 1..Len(ServiceObjects) : [hdl |-> j, obj |-> ServiceObjects[j]] \in b.held
    BY <1>1, <1>2, <1>3, InOrderHandles
  <1>5. handles = b.h /\ held = b.held /\ dropped = {} BY <1>1, <1>2 DEF Init, InitService
  <1> QED BY <1>3, <1>4, <1>5 DEF TableRight, ServiceHeld

\* The reason goes with the code.
Reason(code) ==
  CASE code = 404 -> "unknown" [] code = 409 -> "in use" [] code = 500 -> "failed" [] OTHER -> "none"
ToldWhy(x) == x.code # 0 => x.cause = Reason(x.code)
CausesRight == \A r \in Requests : ToldWhy(resp[r])

LEMMA Reason404 ==
  ASSUME NEW c \in Nat, c = 404
  PROVE  Reason(c) = "unknown"
  <1>1. c # 409 /\ c # 500 /\ c # 200 OBVIOUS
  <1> QED BY <1>1 DEF Reason

LEMMA Reason409 ==
  ASSUME NEW c \in Nat, c = 409
  PROVE  Reason(c) = "in use"
  <1>1. c # 404 /\ c # 500 /\ c # 200 OBVIOUS
  <1> QED BY <1>1 DEF Reason

LEMMA Reason500 ==
  ASSUME NEW c \in Nat, c = 500
  PROVE  Reason(c) = "failed"
  <1>1. c # 404 /\ c # 409 /\ c # 200 OBVIOUS
  <1> QED BY <1>1 DEF Reason

LEMMA Reason200 ==
  ASSUME NEW c \in Nat, c = 200
  PROVE  Reason(c) = "none"
  <1>1. c # 404 /\ c # 409 /\ c # 500 OBVIOUS
  <1> QED BY <1>1 DEF Reason

LEMMA SameCauses ==
  ASSUME CausesRight,
         \A r \in Requests : resp'[r].code = resp[r].code /\ resp'[r].cause = resp[r].cause
  PROVE  CausesRight'
  BY DEF CausesRight, ToldWhy

LEMMA OneCause ==
  ASSUME CausesRight, NEW r \in Requests, NEW x, ToldWhy(x), resp' = [resp EXCEPT ![r] = x],
         ServiceTypes
  PROVE  CausesRight'
  <1>1. \A q \in Requests : resp'[q] = IF q = r THEN x ELSE resp[q] BY DEF ServiceTypes
  <1>2. \A q \in Requests : ToldWhy(resp'[q]) BY <1>1 DEF CausesRight
  <1> QED BY <1>2 DEF CausesRight

LEMMA BlankTold ==
  /\ ToldWhy(Over) /\ \A i : ToldWhy(BrokerAsks(i))
  /\ \A i, v : ToldWhy([NoResp EXCEPT !.st = "streaming", !.on = i, !.told = v])
  BY DEF ToldWhy, Over, NoResp, BrokerAsks

LEMMA AnswerTold == ASSUME NEW s PROVE ToldWhy(Answer(s))
  <1>1. PICK c : c = Answer(s).code OBVIOUS
  <1>2. PICK t : t = Answer(s).cause OBVIOUS
  <1>3. (c = 500 /\ t = "failed") \/ (c = 200 /\ t = "none") BY <1>1, <1>2, AnswerType
  <1>4. c \in Nat BY <1>3
  <1>5. t = Reason(c)
    <2>1. CASE c = 500 /\ t = "failed" BY <1>4, <2>1, Reason500
    <2>2. CASE c = 200 /\ t = "none" BY <1>4, <2>2, Reason200
    <2> QED BY <1>3, <2>1, <2>2
  <1> QED BY <1>1, <1>2, <1>5 DEF ToldWhy

LEMMA RefusalTold ==
  ASSUME NEW c \in Nat, NEW t \in {"none", "in use", "unknown", "failed"}, t = Reason(c), NEW x, x = [Over EXCEPT !.cause = t, !.code = c]
  PROVE  ToldWhy(x)
  <1>1. x.code = c /\ x.cause = t BY OverType DEF RespSet
  <1> QED BY <1>1 DEF ToldWhy

LEMMA CausesStep == StreamInv /\ TableRight /\ CausesRight /\ [Next]_vars => CausesRight'
  <1> SUFFICES ASSUME StreamInv, TableRight, CausesRight, [Next]_vars PROVE CausesRight'
    OBVIOUS
  <1>0. ServiceTypes /\ resp \in [Requests -> RespSet] BY DEF StreamInv, ServiceTypes, RespSet
  <1>1. ASSUME UNCHANGED resp PROVE CausesRight' BY <1>1, SameCauses
  <1>2. ASSUME NEW rs, resp' = Ended(rs, resp) PROVE CausesRight'
    <2>1. ASSUME NEW r \in Requests PROVE resp'[r].code = resp[r].code /\ resp'[r].cause = resp[r].cause
      BY <1>0, <1>2 DEF Ended, RespSet
    <2> QED BY <2>1, SameCauses
  <1>3. ASSUME NEW d \in Defs, PostStream(d) PROVE CausesRight' BY <1>1, <1>3 DEF PostStream
  <1>4. ASSUME NEW d \in Defs, NEW s, NEW answered, Report(d, s, answered), version' \in [Defs -> Nat]
        PROVE  CausesRight'
    <2>1. PICK R : R = [r \in Requests |-> IF r \in answered THEN Check(r, resp, s)[r] ELSE resp[r]] OBVIOUS
    <2>2. PICK ver : ver = version' OBVIOUS
    <2>3. resp' = Told({d}, ver, R) BY <1>4, <2>1, <2>2 DEF Report
    <2>4. \A r \in Requests : R[r] = IF r \in answered THEN Answer(s) ELSE resp[r]
      BY <1>0, <2>1 DEF Check
    <2>5. R \in [Requests -> RespSet]
      <3>1. R = [r \in Requests |-> R[r]] BY <2>1
      <3> QED BY <1>0, <2>4, <3>1, AnswerType
    <2>6. \A r \in Requests : Told({d}, ver, R)[r].code = R[r].code /\ Told({d}, ver, R)[r].cause = R[r].cause
      <3>1. {d} \in SUBSET Defs /\ ver \in [Defs -> Nat] BY <1>4, <2>2
      <3> QED BY <2>5, <3>1, ToldChanges
    <2>7. \A r \in Requests : ToldWhy(R[r]) BY <2>4, AnswerTold DEF CausesRight
    <2>8. \A r \in Requests : ToldWhy(resp'[r]) BY <2>3, <2>6, <2>7 DEF ToldWhy
    <2> QED BY <2>8 DEF CausesRight
  <1>5. ASSUME NEW d \in Defs, WriterUpdate(d) \/ WriterError(d) \/ WriterLoading(d) PROVE CausesRight'
    <2>1. version' \in [Defs -> Nat]
      <3>1. version \in [Defs -> Nat] BY <1>0 DEF ServiceTypes
      <3> QED BY <1>5, <3>1 DEF WriterUpdate, WriterError, WriterLoading
    <2> QED BY <1>4, <1>5, <2>1 DEF WriterUpdate, WriterError, WriterLoading
  <1>6. ASSUME NEW i \in Instances, DeleteStream(i) PROVE CausesRight'
    <2>1. resp' = Ended(Subscribed({i}), resp) \/ resp' = resp
      BY <1>6 DEF DeleteStream, CloseResourceInstance, Unsubscribe
    <2> QED BY <1>1, <1>2, <2>1
  <1>7. ASSUME NEW i \in Instances, Ages(i) PROVE CausesRight' BY <1>1, <1>7 DEF Ages
  <1>8. ASSUME NEW r \in Requests, NEW i \in Instances, GetStream(r, i) PROVE CausesRight'
    <2>1. PICK n : n = Native(handles, <<"notifier", r, 0>>) OBVIOUS
    <2>2. PICK h : h = Register(handles, <<"notifier", r, 0>>) OBVIOUS
    <2>3. \/ Refuse(r, h, n, -2, "in use")
          \/ Refuse(r, h, n, -1, "unknown")
          \/ Subscribe(r, i, h, n)
          \/ instances[i] # 0 /\ Refuse(r, Register(h, <<"error">>), n, -FreshHandle(h), "failed")
      BY <1>8, <2>1, <2>2 DEF GetStream, ServiceSubscribe
    <2>4. ASSUME NEW t, NEW session, NEW cause \in {"in use", "unknown", "failed"}, Refuse(r, t, n, session, cause),
                 NEW c \in Nat, c = SubscribeCode(session), cause = Reason(c)
          PROVE  CausesRight'
      <3>1. PICK x : x = [Over EXCEPT !.cause = cause, !.code = c] OBVIOUS
      <3>2. ToldWhy(x) BY <2>4, <3>1, RefusalTold
      <3>3. resp' = [resp EXCEPT ![r] = x] BY <2>4, <3>1 DEF Refuse
      <3> QED BY <1>0, <3>2, <3>3, OneCause
    <2>5. CASE Refuse(r, h, n, -2, "in use")
      <3>1. PICK c \in Nat : c = 409 OBVIOUS
      <3>2. PICK session : session = -2 OBVIOUS
      <3>3. c = SubscribeCode(session) BY <3>1, <3>2 DEF SubscribeCode
      <3>4. Refuse(r, h, n, session, "in use") BY <2>5, <3>2
      <3>5. "in use" = Reason(c) BY <3>1, Reason409
      <3> QED BY <2>4, <3>3, <3>4, <3>5
    <2>6. CASE Refuse(r, h, n, -1, "unknown")
      <3>1. PICK c \in Nat : c = 404 OBVIOUS
      <3>2. PICK session : session = -1 OBVIOUS
      <3>3. c = SubscribeCode(session) BY <3>1, <3>2 DEF SubscribeCode
      <3>4. Refuse(r, h, n, session, "unknown") BY <2>6, <3>2
      <3>5. "unknown" = Reason(c) BY <3>1, Reason404
      <3> QED BY <2>4, <3>3, <3>4, <3>5
    <2>7. CASE Subscribe(r, i, h, n)
      <3>1. PICK x : x = [NoResp EXCEPT !.st = "streaming", !.on = i, !.told = version[instances[i]]] OBVIOUS
      <3>2. ToldWhy(x) BY <3>1, BlankTold
      <3>3. resp' = [resp EXCEPT ![r] = x] BY <2>7, <3>1 DEF Subscribe
      <3> QED BY <1>0, <3>2, <3>3, OneCause
    <2>8. CASE instances[i] # 0 /\ Refuse(r, Register(h, <<"error">>), n, -FreshHandle(h), "failed")
      <3>1. PICK d \in Defs : d = instances[i] BY <1>0, <2>8 DEF ServiceTypes
      <3>2. PICK x : x = FreshHandle(h) OBVIOUS
      <3>3. x \in Nat \ {0} /\ x \notin Hdls(held) BY <2>1, <2>2, <3>2, OneMade
      <3>4. SubscribeCode(-x) = 500 BY <3>3, FreshIsError
      <3>5. PICK c \in Nat : c = 500 OBVIOUS
      <3>6. PICK session : session = -x OBVIOUS
      <3>7. PICK t : t = Register(h, <<"error">>) OBVIOUS
      <3>8. c = SubscribeCode(session) /\ Refuse(r, t, n, session, "failed") BY <2>8, <3>2, <3>4, <3>5, <3>6, <3>7
      <3>9. "failed" = Reason(c) BY <3>5, Reason500
      <3> QED BY <2>4, <3>8, <3>9
    <2> QED BY <2>3, <2>5, <2>6, <2>7, <2>8
  <1>9. ASSUME NEW r \in Requests, NEW d \in Defs, GetSnapshot(r, d) PROVE CausesRight'
    <2>1. PICK asked : asked = [resp EXCEPT ![r] = BrokerAsks(made + 1)] OBVIOUS
    <2>2. resp' = asked \/ \E s : resp' = Check(r, asked, s)
      <3>1. Get(r, made + 1, d) BY <1>9 DEF GetSnapshot
      <3> QED BY <2>1, <3>1 DEF Get
    <2>3. CASE resp' = asked BY <1>0, <2>1, <2>3, BlankTold, OneCause
    <2>4. CASE \E s : resp' = Check(r, asked, s)
      <3>1. PICK s : resp' = Check(r, asked, s) BY <2>4
      <3>2. resp' = [resp EXCEPT ![r] = Answer(s)] BY <1>0, <2>1, <3>1 DEF Check
      <3> QED BY <1>0, <3>2, AnswerTold, OneCause
    <2> QED BY <2>2, <2>3, <2>4
  <1>10. ASSUME NEW r \in Requests, ReqClose(r) PROVE CausesRight'
    <2>1. resp' = [resp EXCEPT ![r] = Over] BY <1>10 DEF ReqClose, Unsubscribe
    <2> QED BY <1>0, <2>1, BlankTold, OneCause
  <1>11. ASSUME NEW r \in Requests, BrokerGivesUp(r) PROVE CausesRight'
    <2>1. resp' = [resp EXCEPT ![r].left = TRUE] BY <1>11 DEF BrokerGivesUp
    <2>2. ASSUME NEW q \in Requests PROVE resp'[q].code = resp[q].code /\ resp'[q].cause = resp[q].cause
      BY <1>0, <2>1 DEF RespSet
    <2> QED BY <2>2, SameCauses
  <1>12. CASE Patch
    <2>1. PICK ver : ver = version' OBVIOUS
    <2>2. resp' = Told(Defs, ver, resp) /\ ver = [d \in Defs |-> version[d] + 1] BY <1>12, <2>1 DEF Patch, UpdateInput
    <2>3. version \in [Defs -> Nat] BY <1>0 DEF ServiceTypes
    <2>4. ver \in [Defs -> Nat] BY <2>2, <2>3
    <2>5. \A r \in Requests : resp'[r].code = resp[r].code /\ resp'[r].cause = resp[r].cause
      <3>1. Defs \in SUBSET Defs OBVIOUS
      <3> QED BY <1>0, <2>2, <2>4, <3>1, ToldChanges
    <2> QED BY <2>5, SameCauses
  <1>13. CASE CloseService BY <1>2, <1>13 DEF CloseService, Close
  <1>14. CASE Finalize BY <1>1, <1>14 DEF Finalize
  <1>15. CASE UNCHANGED vars BY <1>1, <1>15 DEF vars
  <1> QED BY <1>3, <1>5, <1>6, <1>7, <1>8, <1>9, <1>10, <1>11, <1>12, <1>13, <1>14, <1>15 DEF Next

-----------------------------------------------------------------------------
Statuses == {"none", "loading", "ok", "error"}

\* What a call of the runtime leaves of the status of external data.
LEMMA StatusKept ==
  ASSUME NEW h, NEW new, NEW lost, NEW I, NEW g, NEW s, Runtime(h, new, lost, I, g, s),
         s \in [Defs -> Statuses]
  PROVE  status' \in [Defs -> Statuses]
  BY DEF Runtime, Unsubscribed, Statuses

\* A step leaves a snapshot waiting for what it waited for; a call does not take its
\* checker away.
StillServed(r) ==
  /\ instances'[resp[r].on] = instances[resp[r].on] /\ garbage'[resp[r].on] = "no"
  /\ status'[instances[resp[r].on]] = "loading" /\ Of("checker", {r})' # {}
KeepsChecker(r, lost) == \A n \in lost : n \in held => n.obj[1] # "checker" \/ n.obj[2] # r

\* A call that leaves the instance of a snapshot, its mark, its data and its checker
\* alone leaves it waiting for what it waited for.
LEMMA StillWaits ==
  ASSUME NEW r \in Requests, NEW i \in Instances, NEW d \in Defs, i = resp[r].on, instances[i] = d,
         NEW h, NEW new, NEW lost, NEW I, NEW g, NEW s, Runtime(h, new, lost, I, g, s),
         I[i] = d, g[i] = "no", s[d] = "loading", Of("checker", {r}) # {}, KeepsChecker(r, lost)
  PROVE  StillServed(r)
  <1>1. 0 \notin Defs BY Bounds
  <1>2. instances'[i] = d /\ garbage'[i] = "no" BY DEF Runtime
  <1>3. d \in Graphs(I) BY <1>1 DEF Graphs
  <1>4. status'[d] = "loading" BY <1>3 DEF Runtime, Unsubscribed
  <1>5. PICK n \in held : n.obj[1] = "checker" /\ n.obj[2] \in {r} BY DEF Of
  <1>6. n \notin lost BY <1>5 DEF KeepsChecker
  <1>7. n.obj[1] \notin GraphKinds BY <1>5 DEF GraphKinds
  <1>8. n \in held' BY <1>5, <1>6, <1>7 DEF Runtime
  <1>9. Of("checker", {r})' # {} BY <1>5, <1>8 DEF Of
  <1> QED BY <1>2, <1>4, <1>9 DEF StillServed

\* What is known of a snapshot that waits.
LEMMA WaitingHas ==
  ASSUME StreamInv, WaitInv, server = "up", NEW r \in Requests, resp[r].st = "waiting"
  PROVE  \E i \in Instances, d \in Defs :
           /\ i = resp[r].on /\ i \in 1..made /\ i \notin uuids /\ d = instances[i] /\ garbage[i] = "no"
           /\ status[d] = "loading" /\ Of("checker", {r}) # {} /\ d \in Graphs(instances)
  <1>1. resp[r].on \in 1..made /\ resp[r].on \notin uuids BY DEF StreamInv, OpenedOn
  <1>2. resp[r].on \in Instances BY <1>1, GraphTypes DEF StreamInv
  <1>3. instances \in [Instances -> {0} \cup Defs] BY DEF StreamInv, ServiceTypes
  <1>4. instances[resp[r].on] \in Defs BY <1>2, <1>3 DEF WaitInv, SnapshotsWait
  <1> QED BY <1>1, <1>2, <1>4, Bounds DEF WaitInv, SnapshotsWait, Graphs

\* A step after which nobody waits who did not, and those who still do wait for what
\* they waited for.
LEMMA NobodyNewWaits ==
  ASSUME StreamInv, WaitInv, status' \in [Defs -> Statuses],
         \A r \in Requests : resp'[r].st = "waiting" => resp[r].st = "waiting" /\ resp'[r].on = resp[r].on,
         server' = "up" => server = "up",
         server' = "up" => \A r \in Requests : resp'[r].st = "waiting" => StillServed(r)
  PROVE  WaitInv'
  <1>1. OwnInstance' BY DEF WaitInv, OwnInstance
  <1>2. ASSUME server' = "up", NEW r \in Requests, resp'[r].st = "waiting"
        PROVE  /\ instances'[resp'[r].on] # 0 /\ garbage'[resp'[r].on] = "no"
               /\ status'[instances'[resp'[r].on]] = "loading" /\ Of("checker", {r})' # {}
    <2>1. server = "up" /\ resp[r].st = "waiting" /\ resp'[r].on = resp[r].on /\ StillServed(r) BY <1>2
    <2>2. instances[resp[r].on] # 0 BY <2>1 DEF WaitInv, SnapshotsWait
    <2> QED BY <2>1, <2>2 DEF StillServed
  <1>3. SnapshotsWait' BY <1>2 DEF SnapshotsWait, Of
  <1> QED BY <1>1, <1>3 DEF WaitInv, Statuses

\* A step that leaves all of it alone.
LEMMA WaitUnchanged ==
  ASSUME WaitInv, UNCHANGED <<instances, status, held>>, server' = server,
         \A i \in Instances : garbage[i] = "no" => garbage'[i] = "no",
         StreamInv,
         \A r \in Requests : resp'[r].st = "waiting" => resp[r].st = "waiting" /\ resp'[r].on = resp[r].on
  PROVE  WaitInv'
  <1>1. ASSUME server' = "up", NEW r \in Requests, resp'[r].st = "waiting" PROVE StillServed(r)
    <2>1. PICK i \in Instances, d \in Defs :
            /\ i = resp[r].on /\ d = instances[i] /\ garbage[i] = "no"
            /\ status[d] = "loading" /\ Of("checker", {r}) # {}
      BY <1>1, WaitingHas
    <2>2. Of("checker", {r})' = Of("checker", {r}) BY DEF Of
    <2> QED BY <2>1, <2>2 DEF StillServed
  <1>2. status' \in [Defs -> Statuses] BY DEF WaitInv, Statuses
  <1> QED BY <1>1, <1>2, NobodyNewWaits

LEMMA PostStreamWaits ==
  ASSUME StreamInv, TableRight, WaitInv, NEW d \in Defs, PostStream(d)
  PROVE  WaitInv'
  <1>1. PICK b : b = Built(handles, d) OBVIOUS
  <1>2. \A n \in b.held : n.hdl \notin Hdls(held)
    <2>1. PICK h : h = handles OBVIOUS
    <2>2. PICK H : H = held OBVIOUS
    <2>3. PICK D : D = dropped OBVIOUS
    <2>4. Partition(h, H, D) /\ b = Built(h, d) BY <1>1, <2>1, <2>2, <2>3 DEF TableRight
    <2>5. \A n \in b.held : n.hdl \notin Hdls(H) BY <2>4, BuiltPartition
    <2> QED BY <2>2, <2>5
  <1>3. \A n \in b.held : n \notin held BY <1>2 DEF Hdls
  <1>4. UNCHANGED <<resp, server>> /\ InstantiateResource(made + 1, d) BY DEF PostStream
  <1>5. status \in [Defs -> Statuses] BY DEF WaitInv, Statuses
  <1>6. instances \in [Instances -> {0} \cup Defs] /\ ServiceTypes BY DEF StreamInv, ServiceTypes
  <1>7. PICK h, lost, I, s :
          /\ Runtime(h, b.held, lost, I, garbage, s) /\ \A n \in lost : n \notin held
          /\ \A i \in Instances : i # made + 1 => I[i] = instances[i]
          /\ s \in [Defs -> Statuses] /\ \A e \in Defs : e \in Graphs(instances) => s[e] = status[e]
    <2>1. CASE Fails(d)
      <3>1. Runtime(ErrorRaised(b.h), b.held, b.held, instances, garbage, status)
        BY <1>1, <1>4, <2>1 DEF InstantiateResource
      <3> QED BY <1>3, <1>5, <3>1
    <2>2. CASE ~Fails(d)
      <3>1. PICK x \in StartStatus(d) :
              Runtime(b.h, b.held, {}, [instances EXCEPT ![made + 1] = d], garbage, [status EXCEPT ![d] = x])
        BY <1>1, <1>4, <2>2 DEF InstantiateResource
      <3>2. x \in Statuses /\ (d \in Graphs(instances) => x = status[d])
        BY <1>5 DEF StartStatus, Builds, Statuses
      <3>3. PICK S : S = [status EXCEPT ![d] = x] OBVIOUS
      <3>4. S \in [Defs -> Statuses] /\ \A e \in Defs : e \in Graphs(instances) => S[e] = status[e]
        BY <1>5, <3>2, <3>3
      <3>5. PICK J : J = [instances EXCEPT ![made + 1] = d] OBVIOUS
      <3>6. \A i \in Instances : i # made + 1 => J[i] = instances[i] BY <1>6, <3>5
      <3>7. Runtime(b.h, b.held, {}, J, garbage, S) BY <3>1, <3>3, <3>5
      <3> QED BY <3>4, <3>6, <3>7
    <2> QED BY <2>1, <2>2
  <1>8. ASSUME server' = "up", NEW r \in Requests, resp'[r].st = "waiting" PROVE StillServed(r)
    <2>1. PICK i \in Instances, e \in Defs :
            /\ i = resp[r].on /\ i \in 1..made /\ e = instances[i] /\ garbage[i] = "no"
            /\ status[e] = "loading" /\ Of("checker", {r}) # {} /\ e \in Graphs(instances)
      BY <1>4, <1>8, WaitingHas
    <2>2. i # made + 1 BY <1>6, <2>1, GraphTypes
    <2>3. I[i] = e /\ s[e] = "loading" BY <1>7, <2>1, <2>2
    <2>4. KeepsChecker(r, lost) BY <1>7 DEF KeepsChecker
    <2> QED BY <1>7, <2>1, <2>3, <2>4, StillWaits
  <1>9. status' \in [Defs -> Statuses] BY <1>7, StatusKept
  <1> QED BY <1>4, <1>8, <1>9, NobodyNewWaits

\* A call that sweeps garbage, with other instances marked at most.
LEMMA SweepWaits ==
  ASSUME StreamInv, WaitInv, NEW g \in [Instances -> Marks], NEW h, NEW new, NEW lost, NEW s,
         Runtime(h, new, lost, Swept(instances, g), SweptMarks(g), s), server' = server,
         s \in [Defs -> Statuses],
         \A r \in Requests : resp'[r].st = "waiting" => resp[r].st = "waiting" /\ resp'[r].on = resp[r].on,
         \A r \in Requests : server = "up" /\ resp'[r].st = "waiting" =>
           /\ g[resp[r].on] = "no" /\ s[instances[resp[r].on]] = "loading"
           /\ KeepsChecker(r, lost)
  PROVE  WaitInv'
  <1>1. ASSUME server' = "up", NEW r \in Requests, resp'[r].st = "waiting" PROVE StillServed(r)
    <2>1. PICK i \in Instances, e \in Defs :
            /\ i = resp[r].on /\ e = instances[i] /\ Of("checker", {r}) # {}
      BY <1>1, WaitingHas
    <2>2. g[i] = "no" /\ s[e] = "loading" /\ KeepsChecker(r, lost) BY <1>1, <2>1
    <2>3. PICK I : I = Swept(instances, g) OBVIOUS
    <2>4. PICK m : m = SweptMarks(g) OBVIOUS
    <2>5. I[i] = e /\ m[i] = "no" BY <2>1, <2>2, <2>3, <2>4 DEF Swept, SweptMarks
    <2>6. Runtime(h, new, lost, I, m, s) BY <2>3, <2>4
    <2> QED BY <2>1, <2>2, <2>5, <2>6, StillWaits
  <1>2. status' \in [Defs -> Statuses] BY StatusKept
  <1> QED BY <1>1, <1>2, NobodyNewWaits

LEMMA UnsubscribeWaits ==
  ASSUME StreamInv, WaitInv, NEW i \in uuids, NEW R, Unsubscribe({i}, R), server' = server,
         \A r \in Requests : R[r].st = "waiting" => resp[r].st = "waiting" /\ R[r].on = resp[r].on
  PROVE  WaitInv'
  <1>1. PICK g : g = Mark(garbage, {i}) OBVIOUS
  <1>2. PICK L : L = Of("notifier", Subscribed({i})) OBVIOUS
  <1>3. Runtime(handles, {}, L, Swept(instances, g), SweptMarks(g), status) /\ resp' = R
    BY <1>1, <1>2 DEF Unsubscribe
  <1>4. garbage \in [Instances -> Marks] BY DEF StreamInv, ServiceTypes, Marks
  <1>5. g \in [Instances -> Marks] /\ \A j \in Instances : j # i => g[j] = garbage[j]
    BY <1>1, <1>4 DEF Mark, Marks
  <1>6. \A r \in Requests : KeepsChecker(r, L) BY <1>2 DEF Of, KeepsChecker
  <1>7. ASSUME NEW r \in Requests, server = "up", resp'[r].st = "waiting"
        PROVE  g[resp[r].on] = "no" /\ status[instances[resp[r].on]] = "loading"
    <2>1. resp[r].st = "waiting" BY <1>3, <1>7
    <2>2. PICK j \in Instances, e \in Defs :
            /\ j = resp[r].on /\ j \notin uuids /\ e = instances[j] /\ garbage[j] = "no" /\ status[e] = "loading"
      BY <1>7, <2>1, WaitingHas
    <2>3. j # i BY <2>2
    <2>4. g[j] = "no" BY <1>5, <2>2, <2>3
    <2> QED BY <2>2, <2>4
  <1>8. status \in [Defs -> Statuses] BY DEF WaitInv, Statuses
  <1> QED BY <1>3, <1>5, <1>6, <1>7, <1>8, SweepWaits

LEMMA DeleteStreamWaits ==
  ASSUME StreamInv, WaitInv, NEW i \in Instances, DeleteStream(i)
  PROVE  WaitInv'
  <1>1. i \in uuids /\ server' = server /\ CloseResourceInstance(i) BY DEF DeleteStream, BrokerDeletes
  <1>2. resp \in [Requests -> RespSet] BY DEF StreamInv, ServiceTypes, RespSet
  <1>3. PICK R : R = Ended(Subscribed({i}), resp) OBVIOUS
  <1>4. \A r \in Requests : R[r].st = "waiting" => resp[r].st = "waiting" /\ R[r].on = resp[r].on
    BY <1>2, <1>3 DEF Ended, RespSet
  <1>5. Unsubscribe({i}, R) \/ Unsubscribe({i}, resp) BY <1>1, <1>3 DEF CloseResourceInstance
  <1> QED BY <1>1, <1>4, <1>5, UnsubscribeWaits

LEMMA ReqCloseWaits ==
  ASSUME StreamInv, WaitInv, NEW r \in Requests, ReqClose(r)
  PROVE  WaitInv'
  <1>1. server' = server /\ resp[r].st \in {"streaming", "ended"} BY DEF ReqClose
  <1>2. resp \in [Requests -> RespSet] BY DEF StreamInv, ServiceTypes, RespSet
  <1>3. PICK i \in uuids : i = resp[r].on BY <1>1 DEF StreamInv, OpenedOn
  <1>4. PICK R : R = [resp EXCEPT ![r] = Over] OBVIOUS
  <1>5. \A q \in Requests : R[q].st = "waiting" => resp[q].st = "waiting" /\ R[q].on = resp[q].on
    BY <1>2, <1>4, OverType
  <1>6. CASE Unsubscribe({i}, R) BY <1>1, <1>5, <1>6, UnsubscribeWaits
  <1>7. CASE resp' = R /\ UNCHANGED <<tableVars, instances, garbage, status, subscription>>
    BY <1>1, <1>5, <1>7, WaitUnchanged DEF tableVars
  <1> QED BY <1>3, <1>4, <1>6, <1>7 DEF ReqClose

LEMMA RefuseWaits ==
  ASSUME StreamInv, TableRight, WaitInv, NEW r \in Requests, NEW h, NEW n, n.hdl \notin Hdls(held),
         NEW session, NEW cause, Refuse(r, h, n, session, cause), server' = server
  PROVE  WaitInv'
  <1>1. PICK x : x = [Over EXCEPT !.cause = cause, !.code = SubscribeCode(session)] OBVIOUS
  <1>2. PICK t : Runtime(t, {n}, {n}, instances, garbage, status) BY DEF Refuse
  <1>3. resp' = [resp EXCEPT ![r] = x] /\ x.st = "gone"
    BY <1>1 DEF Refuse, Over, NoResp
  <1>4. resp \in [Requests -> RespSet] BY DEF StreamInv, ServiceTypes, RespSet
  <1>5. \A q \in Requests : resp'[q].st = "waiting" => resp'[q] = resp[q] BY <1>3, <1>4
  <1>6. n \notin held BY DEF Hdls
  <1>7. ASSUME server' = "up", NEW q \in Requests, resp'[q].st = "waiting" PROVE StillServed(q)
    <2>1. PICK i \in Instances, e \in Defs :
            /\ i = resp[q].on /\ e = instances[i] /\ garbage[i] = "no"
            /\ status[e] = "loading" /\ Of("checker", {q}) # {}
      BY <1>5, <1>7, WaitingHas
    <2>2. KeepsChecker(q, {n}) BY <1>6 DEF KeepsChecker
    <2> QED BY <1>2, <2>1, <2>2, StillWaits
  <1>8. status \in [Defs -> Statuses] BY DEF WaitInv, Statuses
  <1>9. status' \in [Defs -> Statuses] BY <1>2, <1>8, StatusKept
  <1> QED BY <1>5, <1>7, <1>9, NobodyNewWaits

LEMMA GetStreamWaits ==
  ASSUME StreamInv, TableRight, WaitInv, NEW r \in Requests, NEW i \in Instances, GetStream(r, i)
  PROVE  WaitInv'
  <1>1. i \in uuids /\ server' = server BY DEF GetStream
  <1>2. PICK n : n = Native(handles, <<"notifier", r, 0>>) OBVIOUS
  <1>3. PICK h : h = Register(handles, <<"notifier", r, 0>>) OBVIOUS
  <1>4. n.hdl \notin Hdls(held) BY <1>2, <1>3, OneMade
  <1>5. \/ \E t, session, cause : Refuse(r, t, n, session, cause)
        \/ Subscribe(r, i, h, n)
    BY <1>2, <1>3 DEF GetStream, ServiceSubscribe
  <1>6. CASE \E t, session, cause : Refuse(r, t, n, session, cause) BY <1>1, <1>4, <1>6, RefuseWaits
  <1>7. CASE Subscribe(r, i, h, n)
    <2>1. PICK g : g = [garbage EXCEPT ![i] = "no"] OBVIOUS
    <2>2. PICK x : x = [NoResp EXCEPT !.st = "streaming", !.on = i, !.told = version[instances[i]]] OBVIOUS
    <2>3. /\ resp' = [resp EXCEPT ![r] = x] /\ x.st = "streaming"
          /\ Runtime(h, {n}, {}, Swept(instances, g), SweptMarks(g), status)
      BY <1>7, <2>1, <2>2 DEF Subscribe, NoResp
    <2>4. resp \in [Requests -> RespSet] BY DEF StreamInv, ServiceTypes, RespSet
    <2>5. \A q \in Requests : resp'[q].st = "waiting" => resp'[q] = resp[q] BY <2>3, <2>4
    <2>6. garbage \in [Instances -> Marks] BY DEF StreamInv, ServiceTypes, Marks
    <2>7. g \in [Instances -> Marks] /\ \A j \in Instances : garbage[j] = "no" => g[j] = "no"
      BY <2>1, <2>6 DEF Marks
    <2>8. ASSUME NEW q \in Requests, server = "up", resp'[q].st = "waiting"
          PROVE  g[resp[q].on] = "no" /\ status[instances[resp[q].on]] = "loading"
      <3>1. resp[q].st = "waiting" BY <2>5, <2>8
      <3>2. PICK j \in Instances, e \in Defs :
              /\ j = resp[q].on /\ e = instances[j] /\ garbage[j] = "no" /\ status[e] = "loading"
        BY <2>8, <3>1, WaitingHas
      <3>3. g[j] = "no" BY <2>7, <3>2
      <3> QED BY <3>2, <3>3
    <2>9. status \in [Defs -> Statuses] BY DEF WaitInv, Statuses
    <2>10. \A q \in Requests : KeepsChecker(q, {}) BY DEF KeepsChecker
    <2> QED BY <1>1, <2>3, <2>5, <2>7, <2>8, <2>9, <2>10, SweepWaits
  <1> QED BY <1>5, <1>6, <1>7

\* Instances that are not made yet, and those that are gone, have no mark.
LEMMA UnmadeStep == StreamInv /\ Unmade /\ [Next]_vars => Unmade'
  <1> SUFFICES ASSUME StreamInv, Unmade, [Next]_vars PROVE Unmade'
    OBVIOUS
  <1>0. /\ instances \in [Instances -> {0} \cup Defs] /\ ServiceTypes
        /\ made \in Nat /\ \A i \in Instances : i \in Nat
    <2>1. ServiceTypes BY DEF StreamInv
    <2>2. instances \in [Instances -> {0} \cup Defs] BY <2>1 DEF ServiceTypes
    <2> QED BY <2>1, <2>2, GraphTypes
  <1>1. ASSUME NEW h, NEW new, NEW lost, NEW I, NEW g, NEW s, Runtime(h, new, lost, I, g, s),
               made' \in {made, made + 1}, \A i \in Instances : i > made' => I[i] = 0
        PROVE  Unmade'
    <2>1. /\ instances' = I /\ garbage' = [i \in Instances |-> IF I[i] = 0 THEN "no" ELSE g[i]]
      BY <1>1 DEF Runtime
    <2> QED BY <1>1, <2>1 DEF Unmade
  <1>2. \A g : \A i \in Instances : i > made => Swept(instances, g)[i] = 0
    BY DEF Swept, Unmade
  <1>3. \A d : \A i \in Instances : i > made + 1 => /\ [instances EXCEPT ![made + 1] = d][i] = 0
                                                    /\ instances[i] = 0
    BY <1>0 DEF Unmade
  <1>4. ASSUME NEW d \in Defs, PostStream(d) PROVE Unmade'
    <2>1. made' = made + 1 /\ InstantiateResource(made + 1, d) BY <1>4 DEF PostStream
    <2>2. \E h, new, lost, g, s : \/ Runtime(h, new, lost, instances, g, s)
                                  \/ Runtime(h, new, lost, [instances EXCEPT ![made + 1] = d], g, s)
      BY <2>1 DEF InstantiateResource
    <2> QED BY <1>1, <1>3, <2>1, <2>2
  <1>5. ASSUME NEW r \in Requests, NEW d \in Defs, GetSnapshot(r, d) PROVE Unmade'
    <2>1. made' = made + 1 /\ Get(r, made + 1, d) BY <1>5 DEF GetSnapshot
    <2>2. \E h, new, lost, g, s : \/ Runtime(h, new, lost, instances, g, s)
                                  \/ Runtime(h, new, lost, [instances EXCEPT ![made + 1] = d], g, s)
      BY <2>1 DEF Get
    <2> QED BY <1>1, <1>3, <2>1, <2>2
  <1>6. ASSUME made' = made, NEW h, NEW new, NEW lost, NEW g, NEW m, NEW s,
               Runtime(h, new, lost, Swept(instances, g), m, s)
        PROVE  Unmade'
    BY <1>1, <1>2, <1>6
  <1>7. ASSUME NEW d \in Defs, WriterUpdate(d) \/ WriterError(d) \/ WriterLoading(d) PROVE Unmade'
    <2>1. \E s, answered : Report(d, s, answered) BY <1>7 DEF WriterUpdate, WriterError, WriterLoading
    <2> QED BY <1>6, <2>1 DEF Report
  <1>8. ASSUME NEW i \in Instances, DeleteStream(i) PROVE Unmade'
    BY <1>6, <1>8 DEF DeleteStream, CloseResourceInstance, Unsubscribe
  <1>9. ASSUME NEW i \in Instances, Ages(i) PROVE Unmade'
    BY <1>9 DEF Ages, Unmade
  <1>10. ASSUME NEW r \in Requests, NEW i \in Instances, GetStream(r, i) PROVE Unmade'
    <2>1. made' = made BY <1>10 DEF GetStream
    <2>2. \E h, new, lost, g, m, s : \/ Runtime(h, new, lost, instances, m, s)
                                     \/ Runtime(h, new, lost, Swept(instances, g), m, s)
      BY <1>10 DEF GetStream, ServiceSubscribe, Refuse, Subscribe
    <2>3. \A j \in Instances : j > made => instances[j] = 0 BY DEF Unmade
    <2> QED BY <1>1, <1>6, <2>1, <2>2, <2>3
  <1>11. ASSUME NEW r \in Requests, ReqClose(r) PROVE Unmade'
    <2>1. CASE UNCHANGED <<instances, garbage, made>> BY <2>1 DEF Unmade
    <2>2. CASE \E is, R : Unsubscribe(is, R) /\ made' = made BY <1>6, <2>2 DEF Unsubscribe
    <2> QED BY <1>11, <2>1, <2>2 DEF ReqClose
  <1>12. ASSUME NEW r \in Requests, BrokerGivesUp(r) PROVE Unmade'
    BY <1>12 DEF BrokerGivesUp, graphVars, Unmade
  <1>13. CASE Patch BY <1>6, <1>13 DEF Patch, UpdateInput
  <1>14. CASE CloseService
    <2>1. PICK I : I = [i \in Instances |-> 0] OBVIOUS
    <2>2. made' = made /\ \E h, new, lost, g, s : Runtime(h, new, lost, I, g, s)
      BY <1>14, <2>1 DEF CloseService, Close
    <2> QED BY <1>1, <2>1, <2>2
  <1>15. CASE Finalize BY <1>15 DEF Finalize, graphVars, Unmade
  <1>16. CASE UNCHANGED vars BY <1>16 DEF vars, graphVars, Unmade
  <1> QED BY <1>4, <1>5, <1>7, <1>8, <1>9, <1>10, <1>11, <1>12, <1>13, <1>14, <1>15, <1>16 DEF Next

LEMMA GetSnapshotWaits ==
  ASSUME StreamInv, TableRight, WaitInv, Unmade, NEW r \in Requests, NEW d \in Defs, GetSnapshot(r, d)
  PROVE  WaitInv'
  <1>1. /\ resp[r].st = "free" /\ made < MaxInstances /\ server = "up" /\ server' = server
        /\ Get(r, made + 1, d)
    BY DEF GetSnapshot, NextRequest
  <1>2. PICK n : n = Native(handles, <<"checker", r, 0>>) OBVIOUS
  <1>3. PICK h : h = Register(handles, <<"checker", r, 0>>) OBVIOUS
  <1>4. PICK b : b = Built(h, d) OBVIOUS
  <1>5. PICK new : new = b.held \cup {n} OBVIOUS
  <1>6. \A m \in new : m.hdl \notin Hdls(held)
    <2>1. Partition(h, held \cup {n}, dropped) /\ n.hdl \notin Hdls(held) BY <1>2, <1>3, OneMade
    <2>2. PICK G : G = held \cup {n} OBVIOUS
    <2>3. PICK D : D = dropped OBVIOUS
    <2>4. Partition(h, G, D) BY <2>1, <2>2, <2>3
    <2>5. \A m \in b.held : m.hdl \notin Hdls(G) BY <1>4, <2>4, BuiltPartition
    <2>6. Hdls(held) \subseteq Hdls(G) BY <2>2 DEF Hdls
    <2> QED BY <1>5, <2>1, <2>5, <2>6
  <1>7. \A m \in new : m \notin held BY <1>6 DEF Hdls
  <1>8. status \in [Defs -> Statuses] BY DEF WaitInv, Statuses
  <1>9. instances \in [Instances -> {0} \cup Defs] /\ ServiceTypes /\ garbage \in [Instances -> Marks]
    BY DEF StreamInv, ServiceTypes, Marks
  <1>10. resp \in [Requests -> RespSet] BY DEF StreamInv, ServiceTypes, RespSet
  <1>11. made + 1 \in Instances /\ \A i \in 1..made : i # made + 1
    BY <1>1, <1>9, GraphTypes, Bounds DEF Instances
  <1>12. PICK asked : asked = [resp EXCEPT ![r] = BrokerAsks(made + 1)] OBVIOUS
  <1>13. PICK u, lost, I, g, s :
           /\ Runtime(u, new, lost, I, g, s) /\ \A m \in lost : m \in new
           /\ \A i \in Instances : i # made + 1 => I[i] = instances[i] /\ g[i] = garbage[i]
           /\ s \in [Defs -> Statuses] /\ \A e \in Defs : e \in Graphs(instances) => s[e] = status[e]
           /\ \/ \E x : resp' = Check(r, asked, x)
              \/ /\ resp' = asked /\ lost = {} /\ s[d] = "loading"
                 /\ I[made + 1] = d /\ g[made + 1] = garbage[made + 1]
    <2>1. CASE Fails(d)
      <3>1. /\ Runtime(ErrorRaised(b.h), new, new, instances, garbage, status)
            /\ resp' = Check(r, asked, "error")
        BY <1>1, <1>2, <1>3, <1>4, <1>5, <1>12, <2>1 DEF Get
      <3> QED BY <1>8, <3>1
    <2>2. CASE ~Fails(d)
      <3>1. PICK J : J = [instances EXCEPT ![made + 1] = d] OBVIOUS
      <3>2. PICK x \in StartStatus(d) :
              IF x = "loading"
              THEN Runtime(b.h, new, {}, J, garbage, [status EXCEPT ![d] = x]) /\ resp' = asked
              ELSE /\ Runtime(b.h, new, {n}, J, Mark(garbage, {made + 1}), [status EXCEPT ![d] = x])
                   /\ resp' = Check(r, asked, x)
        BY <1>1, <1>2, <1>3, <1>4, <1>5, <1>12, <2>2, <3>1 DEF Get
      <3>3. x \in Statuses /\ (d \in Graphs(instances) => x = status[d])
        BY <1>8 DEF StartStatus, Builds, Statuses
      <3>4. PICK S : S = [status EXCEPT ![d] = x] OBVIOUS
      <3>5. /\ S \in [Defs -> Statuses] /\ \A e \in Defs : e \in Graphs(instances) => S[e] = status[e]
            /\ S[d] = x
        BY <1>8, <3>3, <3>4
      <3>6. J[made + 1] = d /\ \A i \in Instances : i # made + 1 => J[i] = instances[i]
        BY <1>9, <1>11, <3>1
      <3>7. PICK k : k = Mark(garbage, {made + 1}) OBVIOUS
      <3>8. \A i \in Instances : i # made + 1 => k[i] = garbage[i] BY <3>7 DEF Mark
      <3>9. CASE x = "loading"
        <4>1. Runtime(b.h, new, {}, J, garbage, S) /\ resp' = asked BY <3>2, <3>4, <3>9
        <4> QED BY <3>5, <3>6, <3>9, <4>1
      <3>10. CASE x # "loading"
        <4>1. Runtime(b.h, new, {n}, J, k, S) /\ resp' = Check(r, asked, x) BY <3>2, <3>4, <3>7, <3>10
        <4>2. \A m \in {n} : m \in new BY <1>5
        <4> QED BY <3>5, <3>6, <3>8, <4>1, <4>2
      <3> QED BY <3>9, <3>10
    <2> QED BY <2>1, <2>2
  <1>14. status' \in [Defs -> Statuses] BY <1>13, StatusKept
  <1>15. ASSUME NEW q \in Requests, q # r, resp[q].st = "waiting" PROVE StillServed(q) /\ resp[q].on \in 1..made
    <2>1. PICK i \in Instances, e \in Defs :
            /\ i = resp[q].on /\ i \in 1..made /\ e = instances[i] /\ garbage[i] = "no"
            /\ status[e] = "loading" /\ Of("checker", {q}) # {} /\ e \in Graphs(instances)
      BY <1>1, <1>15, WaitingHas
    <2>2. i # made + 1 BY <1>11, <2>1
    <2>3. I[i] = e /\ g[i] = "no" /\ s[e] = "loading" BY <1>13, <2>1, <2>2
    <2>4. KeepsChecker(q, lost) BY <1>7, <1>13 DEF KeepsChecker
    <2> QED BY <1>13, <2>1, <2>3, <2>4, StillWaits
  <1>16. CASE \E x : resp' = Check(r, asked, x)
    <2>1. PICK x : resp' = Check(r, asked, x) BY <1>16
    <2>2. resp' = [resp EXCEPT ![r] = Answer(x)] BY <1>10, <1>12, <2>1 DEF Check
    <2>3. Answer(x).st = "gone" BY AnswerType
    <2>4. \A q \in Requests : resp'[q].st = "waiting" => q # r /\ resp'[q] = resp[q] BY <1>10, <2>2, <2>3
    <2> QED BY <1>1, <1>14, <1>15, <2>4, NobodyNewWaits
  <1>17. CASE /\ resp' = asked /\ lost = {} /\ s[d] = "loading"
              /\ I[made + 1] = d /\ g[made + 1] = garbage[made + 1]
    <2>1. BrokerAsks(made + 1).st = "waiting" /\ BrokerAsks(made + 1).on = made + 1
      BY DEF BrokerAsks, NoResp
    <2>2. resp'[r].on = made + 1 /\ \A q \in Requests : q # r => resp'[q] = resp[q]
      BY <1>10, <1>12, <1>17, <2>1
    <2>3. OwnInstance'
      <3>1. ASSUME NEW q \in Requests, q # r, resp'[q].st = "waiting" PROVE resp'[q].on # made + 1
        BY <1>11, <1>15, <2>2, <3>1
      <3>2. ASSUME NEW p \in Requests, NEW q \in Requests, resp'[p].st = "waiting", resp'[q].st = "waiting",
                   resp'[p].on = resp'[q].on
            PROVE  p = q
        <4>1. CASE p = r BY <2>2, <3>1, <3>2, <4>1
        <4>2. CASE q = r BY <2>2, <3>1, <3>2, <4>2
        <4>3. CASE p # r /\ q # r BY <2>2, <3>2, <4>3 DEF WaitInv, OwnInstance
        <4> QED BY <4>1, <4>2, <4>3
      <3> QED BY <3>2 DEF OwnInstance
    <2>4. instances'[made + 1] = d BY <1>13, <1>17 DEF Runtime
    <2>5. d \in Graphs(I) BY <1>11, <1>17, Bounds DEF Graphs
    <2>6. status'[d] = "loading" BY <1>13, <1>17, <2>5 DEF Runtime, Unsubscribed
    <2>7. garbage'[made + 1] = "no"
      <3>1. made \in Nat BY <1>9, GraphTypes
      <3>2. garbage[made + 1] = "no" BY <1>11, <3>1 DEF Unmade
      <3> QED BY <1>11, <1>13, <1>17, <3>2 DEF Runtime
    <2>8. n \in held' /\ n.obj[1] = "checker" /\ n.obj[2] = r
      <3>1. n.obj = <<"checker", r, 0>> BY <1>2 DEF Native
      <3>2. n \in new BY <1>5
      <3>3. n.obj[1] \notin GraphKinds BY <3>1 DEF GraphKinds
      <3>4. n \in held' BY <1>13, <1>17, <3>2, <3>3 DEF Runtime
      <3> QED BY <3>1, <3>4
    <2>9. Of("checker", {r})' # {} BY <2>8 DEF Of
    <2>10. ASSUME NEW q \in Requests, resp'[q].st = "waiting"
           PROVE  /\ instances'[resp'[q].on] # 0 /\ garbage'[resp'[q].on] = "no"
                  /\ status'[instances'[resp'[q].on]] = "loading" /\ Of("checker", {q})' # {}
      <3>1. CASE q = r BY <1>11, <2>2, <2>4, <2>6, <2>7, <2>9, <3>1, Bounds
      <3>2. CASE q # r
        <4>1. resp[q].st = "waiting" /\ resp'[q].on = resp[q].on BY <2>2, <2>10, <3>2
        <4>2. StillServed(q) BY <1>15, <3>2, <4>1
        <4>3. instances[resp[q].on] # 0 BY <1>1, <4>1 DEF WaitInv, SnapshotsWait
        <4> QED BY <4>1, <4>2, <4>3 DEF StillServed
      <3> QED BY <3>1, <3>2
    <2>11. SnapshotsWait' BY <2>10 DEF SnapshotsWait, Of
    <2> QED BY <1>14, <2>3, <2>11 DEF WaitInv, Statuses
  <1> QED BY <1>13, <1>16, <1>17

LEMMA ReportWaits ==
  ASSUME StreamInv, WaitInv, NEW d \in Defs, NEW s \in Statuses, NEW answered \in SUBSET Waiting(d),
         s = "loading" \/ answered = Waiting(d), Report(d, s, answered), version' \in [Defs -> Nat]
  PROVE  WaitInv'
  <1>0. PICK L : L = Of("checker", answered) OBVIOUS
  <1>1. PICK R : R = [r \in Requests |-> IF r \in answered THEN Check(r, resp, s)[r] ELSE resp[r]] OBVIOUS
  <1>2. PICK g : g = Mark(garbage, {resp[r].on : r \in answered}) OBVIOUS
  <1>3. PICK S : S = [status EXCEPT ![d] = s] OBVIOUS
  <1>4. PICK ver : ver = version' OBVIOUS
  <1>5. /\ resp' = Told({d}, ver, R) /\ server' = server
        /\ Runtime(handles, {}, L, Swept(instances, g), SweptMarks(g), S)
    BY <1>0, <1>1, <1>2, <1>3, <1>4 DEF Report
  <1>6. resp \in [Requests -> RespSet] /\ garbage \in [Instances -> Marks]
    BY DEF StreamInv, ServiceTypes, RespSet, Marks
  <1>7. \A r \in Requests : R[r] = IF r \in answered THEN Answer(s) ELSE resp[r]
    BY <1>1, <1>6 DEF Check
  <1>8. R \in [Requests -> RespSet]
    <2>1. R = [r \in Requests |-> R[r]] BY <1>1
    <2> QED BY <1>6, <1>7, <2>1, AnswerType
  <1>9. \A r \in Requests : resp'[r].st = R[r].st /\ resp'[r].on = R[r].on
    <2>1. {d} \in SUBSET Defs /\ ver \in [Defs -> Nat] BY <1>4
    <2> QED BY <1>5, <1>8, <2>1, ToldChanges
  <1>10. \A r \in Requests : resp'[r].st = "waiting" =>
           r \notin answered /\ resp[r].st = "waiting" /\ resp'[r].on = resp[r].on
    BY <1>7, <1>9, AnswerType
  <1>11. status \in [Defs -> Statuses] BY DEF WaitInv, Statuses
  <1>12. S \in [Defs -> Statuses] /\ S[d] = s /\ \A e \in Defs : e # d => S[e] = status[e] BY <1>3, <1>11
  <1>13. g \in [Instances -> Marks]
         /\ \A i \in Instances : i \notin {resp[r].on : r \in answered} => g[i] = garbage[i]
    BY <1>2, <1>6 DEF Mark, Marks
  <1>14. ASSUME NEW r \in Requests, server = "up", resp'[r].st = "waiting"
         PROVE  /\ g[resp[r].on] = "no" /\ S[instances[resp[r].on]] = "loading"
                /\ KeepsChecker(r, L)
    <2>1. r \notin answered /\ resp[r].st = "waiting" BY <1>10, <1>14
    <2>2. PICK i \in Instances, e \in Defs :
            /\ i = resp[r].on /\ e = instances[i] /\ garbage[i] = "no" /\ status[e] = "loading"
      BY <1>14, <2>1, WaitingHas
    <2>3. i \notin {resp[q].on : q \in answered}
      BY <2>1, <2>2 DEF WaitInv, OwnInstance, Waiting
    <2>4. S[e] = "loading"
      <3>1. CASE s = "loading" BY <1>12, <2>2, <3>1
      <3>2. CASE answered = Waiting(d)
        <4>1. e # d BY <2>1, <2>2, <3>2 DEF Waiting
        <4> QED BY <1>12, <2>2, <4>1
      <3> QED BY <3>1, <3>2
    <2>5. KeepsChecker(r, L) BY <1>0, <2>1 DEF Of, KeepsChecker
    <2>6. g[i] = "no" BY <1>13, <2>2, <2>3
    <2> QED BY <2>2, <2>4, <2>5, <2>6
  <1>15. \A r \in Requests : resp'[r].st = "waiting" => resp[r].st = "waiting" /\ resp'[r].on = resp[r].on
    BY <1>10
  <1>16. S \in [Defs -> Statuses] /\ g \in [Instances -> Marks] BY <1>12, <1>13
  <1> QED BY <1>5, <1>14, <1>15, <1>16, SweepWaits

LEMMA WriterWaits ==
  ASSUME StreamInv, WaitInv, NEW d \in Defs, WriterUpdate(d) \/ WriterError(d) \/ WriterLoading(d)
  PROVE  WaitInv'
  <1>1. version \in [Defs -> Nat] BY DEF StreamInv, ServiceTypes
  <1>2. version' \in [Defs -> Nat] BY <1>1 DEF WriterUpdate, WriterError, WriterLoading
  <1>3. PICK W : W = Waiting(d) OBVIOUS
  <1>4. \A k : OlderThan(k, W) \in SUBSET W BY DEF OlderThan
  <1>5. \E s \in Statuses, answered \in SUBSET W :
          (s = "loading" \/ answered = W) /\ Report(d, s, answered)
    <2>1. CASE WriterUpdate(d) BY <1>3, <2>1 DEF WriterUpdate, Statuses
    <2>2. CASE WriterError(d) BY <1>3, <2>2 DEF WriterError, Statuses
    <2>3. CASE WriterLoading(d) BY <1>3, <1>4, <2>3 DEF WriterLoading, Statuses
    <2> QED BY <2>1, <2>2, <2>3
  <1> QED BY <1>2, <1>3, <1>5, ReportWaits

LEMMA PatchWaits ==
  ASSUME StreamInv, WaitInv, Patch
  PROVE  WaitInv'
  <1>1. PICK ver : ver = version' OBVIOUS
  <1>2. /\ ver = [d \in Defs |-> version[d] + 1] /\ resp' = Told(Defs, ver, resp) /\ server' = server
        /\ Runtime(handles, {}, {}, Swept(instances, garbage), SweptMarks(garbage), status)
    BY <1>1 DEF Patch, UpdateInput
  <1>3. resp \in [Requests -> RespSet] /\ garbage \in [Instances -> Marks] /\ version \in [Defs -> Nat]
    BY DEF StreamInv, ServiceTypes, RespSet, Marks
  <1>4. \A r \in Requests : resp'[r].st = resp[r].st /\ resp'[r].on = resp[r].on
    <2>1. Defs \in SUBSET Defs /\ ver \in [Defs -> Nat] BY <1>2, <1>3
    <2> QED BY <1>2, <1>3, <2>1, ToldChanges
  <1>5. ASSUME NEW r \in Requests, server = "up", resp'[r].st = "waiting"
        PROVE  garbage[resp[r].on] = "no" /\ status[instances[resp[r].on]] = "loading"
    BY <1>4, <1>5, WaitingHas
  <1>6. status \in [Defs -> Statuses] BY DEF WaitInv, Statuses
  <1>7. \A r \in Requests : KeepsChecker(r, {}) BY DEF KeepsChecker
  <1> QED BY <1>2, <1>3, <1>4, <1>5, <1>6, <1>7, SweepWaits

LEMMA CloseServiceWaits ==
  ASSUME StreamInv, WaitInv, CloseService
  PROVE  WaitInv'
  <1>1. server' # "up" /\ resp' = Ended(Subscribed(Instances), resp)
    BY DEF CloseService, Close
  <1>2. \E h, new, lost, I, g : Runtime(h, new, lost, I, g, status) BY DEF CloseService, Close
  <1>3. resp \in [Requests -> RespSet] BY DEF StreamInv, ServiceTypes, RespSet
  <1>4. \A r \in Requests : resp'[r].st = "waiting" => resp[r].st = "waiting" /\ resp'[r].on = resp[r].on
    BY <1>1, <1>3 DEF Ended, RespSet
  <1>5. status \in [Defs -> Statuses] BY DEF WaitInv, Statuses
  <1>6. status' \in [Defs -> Statuses] BY <1>2, <1>5, StatusKept
  <1> QED BY <1>1, <1>4, <1>6, NobodyNewWaits

LEMMA WaitStep == StreamInv /\ TableRight /\ Unmade /\ WaitInv /\ [Next]_vars => WaitInv'
  <1> SUFFICES ASSUME StreamInv, TableRight, Unmade, WaitInv, [Next]_vars PROVE WaitInv'
    OBVIOUS
  <1>1. ASSUME NEW d \in Defs, PostStream(d) PROVE WaitInv' BY <1>1, PostStreamWaits
  <1>2. ASSUME NEW d \in Defs, WriterUpdate(d) \/ WriterError(d) \/ WriterLoading(d) PROVE WaitInv'
    BY <1>2, WriterWaits
  <1>3. ASSUME NEW i \in Instances, DeleteStream(i) PROVE WaitInv' BY <1>3, DeleteStreamWaits
  <1>4. ASSUME NEW i \in Instances, Ages(i) PROVE WaitInv'
    <2>1. garbage[i] = "marked" /\ garbage' = [garbage EXCEPT ![i] = "old"]
          /\ UNCHANGED <<tableVars, instances, status, resp, server>>
      BY <1>4 DEF Ages
    <2>2. garbage \in [Instances -> Marks] BY DEF StreamInv, ServiceTypes, Marks
    <2>3. \A j \in Instances : garbage[j] = "no" => garbage'[j] = "no" BY <2>1, <2>2
    <2> QED BY <2>1, <2>3, WaitUnchanged DEF tableVars
  <1>5. ASSUME NEW r \in Requests, NEW i \in Instances, GetStream(r, i) PROVE WaitInv'
    BY <1>5, GetStreamWaits
  <1>6. ASSUME NEW r \in Requests, NEW d \in Defs, GetSnapshot(r, d) PROVE WaitInv'
    BY <1>6, GetSnapshotWaits
  <1>7. ASSUME NEW r \in Requests, ReqClose(r) PROVE WaitInv' BY <1>7, ReqCloseWaits
  <1>8. ASSUME NEW r \in Requests, BrokerGivesUp(r) PROVE WaitInv'
    <2>1. resp' = [resp EXCEPT ![r].left = TRUE] /\ UNCHANGED <<tableVars, graphVars, server>>
      BY <1>8 DEF BrokerGivesUp
    <2>2. resp \in [Requests -> RespSet] BY DEF StreamInv, ServiceTypes, RespSet
    <2>3. \A q \in Requests : resp'[q].st = resp[q].st /\ resp'[q].on = resp[q].on
      BY <2>1, <2>2 DEF RespSet
    <2> QED BY <2>1, <2>3, WaitUnchanged DEF tableVars, graphVars
  <1>9. CASE Patch BY <1>9, PatchWaits
  <1>10. CASE CloseService BY <1>10, CloseServiceWaits
  <1>11. CASE Finalize BY <1>11, WaitUnchanged DEF Finalize, graphVars
  <1>12. CASE UNCHANGED vars BY <1>12, WaitUnchanged DEF vars, tableVars, graphVars
  <1> QED BY <1>1, <1>2, <1>3, <1>4, <1>5, <1>6, <1>7, <1>8, <1>9, <1>10, <1>11, <1>12 DEF Next

ServiceInv == StreamInv /\ TableInv /\ Unmade /\ WaitInv

LEMMA TableInvIs == ServiceTypes => (TableInv <=> TableRight /\ CausesRight)
  BY DEF TableInv, TableRight, CausesRight, ToldWhy, Reason, HandlesRight, Reached, Partition

\* Open streams, the table of handles and the snapshots that wait, together.
THEOREM ServiceInvariant == Spec => []ServiceInv
  <1>1. Init => ServiceInv
    <2> SUFFICES ASSUME Init PROVE ServiceInv
      OBVIOUS
    <2>1. StreamInv BY InitStreams
    <2>2. CausesRight BY DEF Init, CausesRight, ToldWhy, NoResp
    <2>3. TableRight BY TableInit
    <2>4. ServiceTypes BY <2>1 DEF StreamInv
    <2>5. Unmade BY DEF Init, Unmade
    <2>6. WaitInv BY DEF Init, WaitInv, OwnInstance, SnapshotsWait, NoResp
    <2> QED BY <2>1, <2>2, <2>3, <2>4, <2>5, <2>6, TableInvIs DEF ServiceInv
  <1>2. ServiceInv /\ [Next]_vars => ServiceInv'
    <2> SUFFICES ASSUME ServiceInv, [Next]_vars PROVE ServiceInv'
      OBVIOUS
    <2>1. StreamInv /\ ServiceTypes /\ TableRight /\ CausesRight BY TableInvIs DEF ServiceInv, StreamInv
    <2>2. StreamInv' BY <2>1, StreamStep
    <2>3. TableRight' BY <2>1, TableStep
    <2>4. CausesRight' BY <2>1, CausesStep
    <2>5. (ServiceTypes => (TableInv <=> TableRight /\ CausesRight))' BY TableInvIs, PTL
    <2>6. ServiceTypes' BY <2>2 DEF StreamInv
    <2>7. Unmade' BY <2>1, UnmadeStep DEF ServiceInv
    <2>8. WaitInv' BY <2>1, WaitStep DEF ServiceInv
    <2> QED BY <2>2, <2>3, <2>4, <2>5, <2>6, <2>7, <2>8 DEF ServiceInv
  <1> QED BY <1>1, <1>2, PTL DEF Spec

\* A native object in use finds its own object behind its handle, although ids are
\* given again, and a refused subscriber is told the reason of the refusal, for any
\* resources, external services, instances and requests (Handles, subscribe).
THEOREM HandlesStayRight == Spec => []HandlesRight
  <1>1. ServiceInv => HandlesRight BY DEF ServiceInv, TableInv
  <1> QED BY <1>1, ServiceInvariant, PTL

\* A snapshot waits only for external data that is loading, with its instance alive
\* and its checker in use, whatever the external services report, whatever is
\* collected and whoever else asks, for any number of resources and requests
\* (AllChecker, OneChecker, CollectionWriter, checkGarbage).
THEOREM SnapshotsWaitForData == Spec => []SnapshotsWait
  <1>1. ServiceInv => SnapshotsWait BY DEF ServiceInv, WaitInv
  <1> QED BY <1>1, ServiceInvariant, PTL
=============================================================================
