-------------------------- MODULE WorkerRpcProofs --------------------------
(***************************************************************************)
(* Proofs about module WorkerRpc, for any methods and any number of calls  *)
(* and callbacks: its invariants, and that it implements WorkerApi.        *)
(***************************************************************************)
EXTENDS WorkerRpc, SequenceTheorems, TLAPS

\* What is appended is in the range, and what is taken from the front leaves it if
\* nothing is there twice.
LEMMA RangeAppend ==
  ASSUME NEW S, NEW q \in Seq(S), NEW x
  PROVE  Range(Append(q, x)) = Range(q) \cup {x}
  <1>1. DOMAIN Append(q, x) = DOMAIN q \cup {Len(q) + 1} /\ Append(q, x)[Len(q) + 1] = x
        /\ \A i \in DOMAIN q : Append(q, x)[i] = q[i]
    OBVIOUS
  <1>. QED  BY <1>1 DEF Range

\* A sequence without repetitions loses exactly its head.
LEMMA RangeTail ==
  ASSUME NEW S, NEW q \in Seq(S), q # <<>>, \A i, j \in DOMAIN q : q[i] = q[j] => i = j
  PROVE  /\ Range(Tail(q)) = Range(q) \ {Head(q)} /\ Head(q) \in Range(q)
         /\ \A i, j \in DOMAIN Tail(q) : Tail(q)[i] = Tail(q)[j] => i = j
  <1>1. Len(q) \in Nat \ {0} /\ DOMAIN q = 1..Len(q) /\ DOMAIN Tail(q) = 1..Len(q) - 1
        /\ Head(q) = q[1] /\ \A i \in DOMAIN Tail(q) : Tail(q)[i] = q[i + 1]
    OBVIOUS
  <1>2. \A i, j \in DOMAIN Tail(q) : Tail(q)[i] = Tail(q)[j] => i = j
    BY <1>1
  <1>3. \A i \in DOMAIN q : i # 1 => i - 1 \in DOMAIN Tail(q) /\ q[i] = Tail(q)[i - 1]
    BY <1>1
  <1>4. Range(Tail(q)) \subseteq Range(q) \ {Head(q)}
    BY <1>1 DEF Range
  <1>5. Range(q) \ {Head(q)} \subseteq Range(Tail(q))
    BY <1>1, <1>3 DEF Range
  <1>. QED  BY <1>1, <1>2, <1>4, <1>5 DEF Range

\* The messages on their way to the page.
LEMMA PageMessages ==
  ASSUME TypeOK
  PROVE  \A i \in DOMAIN toPage :
           /\ toPage[i] \in Message /\ toPage[i].id \in Posted /\ toPage[i].wid \in Nat
           /\ toPage[i].arg \in 0..2 /\ toPage[i].success \in BOOLEAN
  <1>1. toPage \in Seq(Message)
    BY DEF TypeOK
  <1>2. \A i \in DOMAIN toPage : toPage[i] \in Message
    BY <1>1
  <1>. QED  BY <1>2 DEF Message

\* Before the first call there is nothing on either side.
LEMMA InitInv == Init => WorkerInv
  <1> SUFFICES ASSUME Init PROVE WorkerInv
    OBVIOUS
  <1> USE DEF Init
  <1>1. Len(calls) = 0 /\ Posted = {} /\ MaxCalls \in Nat
    BY WorkerBounds DEF Posted
  <1>2. TypeOK
    <2>1. calls \in Seq([method : Methods, on : {0} \cup Ids]) /\ toWorker \in Seq(Posted)
          /\ toPage \in Seq(Message)
      OBVIOUS
    <2>2. DOMAIN wrapped = {} /\ DOMAIN running = {}
      OBVIOUS
    <2>. QED  BY <1>1, <2>1, <2>2 DEF TypeOK
  <1>3. OnePlace
    BY <1>1 DEF OnePlace, Returned, Range
  <1>4. CallersKnow /\ SubscriptionsRight
    BY <1>1 DEF CallersKnow, SubscriptionsRight
  <1>5. Closed = {}
    BY <1>1 DEF Closed, Holds
  <1>6. ClosesDone
    BY <1>1, <1>5 DEF ClosesDone, ClosedInWorker
  <1>7. NotesInTime /\ CallbacksOwned
    BY <1>1 DEF NotesInTime, CallbacksOwned
  <1>8. EntriesRight
    BY <1>1 DEF EntriesRight
  <1>9. NoOrphanReturn
    BY DEF NoOrphanReturn
  <1>. QED  BY <1>2, <1>3, <1>4, <1>6, <1>7, <1>8, <1>9 DEF WorkerInv

-----------------------------------------------------------------------------
(* The page. *)

\* What the page checks before it posts: a Caller goes to an object the page holds.
Legit(method, on) ==
  /\ on \in {0} \cup Ids
  /\ method \in Callers =>
       /\ on \in Posted /\ outcome[on] = "ok"
       /\ Method(on) \in IF method = "closeWatch" THEN WatchMethods ELSE {"connectedRemote"}

\* Every method of SKDBWorker and WrappedRemote posts one call, and a Caller only to an
\* object the page was answered with.
LEMMA PageCallsPost ==
  ASSUME TypeOK, PageCalls
  PROVE  \E method \in Methods, on \in {0} \cup Ids : Post(method, on) /\ Legit(method, on)
  <1>1. \A method, on : Post(method, on) => method \in Methods
    BY DEF Post
  <1>2. Posted \subseteq Ids
    BY WorkerBounds DEF TypeOK, Posted, Ids
  <1>3. ASSUME NEW method \in {"create", "local", "watch", "watchChanges", "missing", "net",
                               "connect", "connectedRemote"},
               Post(method, 0)
        PROVE  method \in Methods /\ Legit(method, 0)
    BY <1>1, <1>3 DEF Legit, Callers, RemoteMethods
  <1>4. ASSUME NEW w \in Holds({"watch"}) \cup Holds({"watchChanges"}), Post("closeWatch", w)
        PROVE  "closeWatch" \in Methods /\ w \in Ids /\ Legit("closeWatch", w)
    BY <1>1, <1>2, <1>4 DEF Legit, Holds, WatchMethods, Posted
  <1>5. ASSUME NEW w \in Holds({"connectedRemote"}),
               NEW method \in RemoteMethods \cup {"remoteMissing"}, Post(method, w)
        PROVE  method \in Methods /\ w \in Ids /\ Legit(method, w)
    BY <1>1, <1>2, <1>5 DEF Legit, Holds, Posted, RemoteMethods
  <1>6. CASE \/ Create \/ Exec \/ Watch \/ WatchChanges \/ LocalMethod \/ ServerMethod
             \/ Connect \/ ConnectedRemote \/ GetUser
    BY <1>3, <1>6 DEF Create, Exec, Watch, WatchChanges, LocalMethod, ServerMethod, Connect,
                      ConnectedRemote, GetUser
  <1>7. CASE CloseWatch \/ CloseWatchChanges
    BY <1>4, <1>7 DEF CloseWatch, CloseWatchChanges
  <1>8. CASE RemoteMethod \/ RemoteNotify \/ RemoteClose \/ RemoteOnReboot
    BY <1>5, <1>8 DEF RemoteMethod, RemoteNotify, RemoteClose, RemoteOnReboot, RemoteMethods
  <1>. QED  BY <1>6, <1>7, <1>8 DEF PageCalls

\* A new call changes nothing of the calls there are.
LEMMA PostFrame ==
  ASSUME WorkerInv, NEW method \in Methods, NEW on \in {0} \cup Ids,
         NEW c, c = Len(calls) + 1, Post(method, on), Legit(method, on)
  PROVE  /\ c \in Ids /\ c \notin Posted /\ Posted' = Posted \cup {c} /\ Posted \subseteq Ids
         /\ outcome[c] = "none"
         /\ Method(c)' = method /\ Target(c)' = on
         /\ \A d \in Posted : Method(d)' = Method(d) /\ Target(d)' = Target(d)
         /\ Closed' = Closed /\ Closed \subseteq Posted
  <1>1. Len(calls) \in Nat /\ c <= MaxCalls /\ MaxCalls \in Nat
    BY WorkerBounds DEF WorkerInv, TypeOK, Post
  <1>2. calls' = Append(calls, [method |-> method, on |-> on]) /\ UNCHANGED outcome
    BY DEF Post
  <1>3. Len(calls') = c /\ calls'[c] = [method |-> method, on |-> on]
        /\ \A d \in 1..Len(calls) : calls'[d] = calls[d]
    BY <1>1, <1>2 DEF WorkerInv, TypeOK
  <1>4. c \in Ids /\ c \notin Posted /\ Posted' = Posted \cup {c} /\ Posted \subseteq Ids
    BY <1>1, <1>3 DEF Posted, Ids
  <1>5. outcome[c] = "none"
    BY <1>4 DEF WorkerInv, TypeOK
  <1>6. Method(c)' = method /\ Target(c)' = on
    BY <1>2, <1>3 DEF Method, Target
  <1>7. \A d \in Posted : Method(d)' = Method(d) /\ Target(d)' = Target(d)
    BY <1>3 DEF Method, Target, Posted
  <1>8. Holds({"closeWatch"})' = Holds({"closeWatch"})
    BY <1>2, <1>4, <1>5, <1>7 DEF Holds, Posted
  <1>9. \A d \in Holds({"closeWatch"}) : d \in Posted /\ Target(d) \in Posted
    BY DEF Holds, WorkerInv, CallersKnow, Callers, Posted
  <1>10. Closed' = Closed /\ Closed \subseteq Posted
    BY <1>7, <1>8, <1>9 DEF Closed, Ids
  <1>. QED  BY <1>4, <1>5, <1>6, <1>7, <1>10

\* PromiseWorker.post.
LEMMA PostInv ==
  ASSUME WorkerInv, NEW method \in Methods, NEW on \in {0} \cup Ids,
         Post(method, on), Legit(method, on)
  PROVE  WorkerInv'
  <1>1. PICK c : c = Len(calls) + 1
    OBVIOUS
  <1>2. /\ c \in Ids /\ c \notin Posted /\ Posted' = Posted \cup {c} /\ Posted \subseteq Ids
        /\ outcome[c] = "none"
        /\ Method(c)' = method /\ Target(c)' = on
        /\ \A d \in Posted : Method(d)' = Method(d) /\ Target(d)' = Target(d)
        /\ Closed' = Closed /\ Closed \subseteq Posted
    BY <1>1, PostFrame
  <1>3. /\ toWorker' = Append(toWorker, c) /\ callbacks' = callbacks \cup {c}
        /\ subscriptions' = subscriptions \cup ({c} \X FunctionParams(method))
        /\ calls' = Append(calls, [method |-> method, on |-> on])
        /\ UNCHANGED <<outcome, handle, heard, threw, toPage, workerVars>>
    BY <1>1 DEF Post, PostMessage
  <1>4. toPage \in Seq(Message) /\ toWorker \in Seq(Posted) /\ Message \subseteq Message'
    BY <1>2 DEF WorkerInv, TypeOK, Message
  <1>5. Range(toWorker)' = Range(toWorker) \cup {c} /\ Returned' = Returned
    <2>1. Range(toWorker)' = Range(toWorker) \cup {c}
      BY <1>3, <1>4, RangeAppend
    <2>. QED  BY <1>3, <2>1 DEF Returned
  <1>6. TypeOK'
    <2>1. calls' \in Seq([method : Methods, on : {0} \cup Ids]) /\ Len(calls') = c
      BY <1>1, <1>3 DEF WorkerInv, TypeOK
    <2>2. toWorker' \in Seq(Posted')
      BY <1>2, <1>3, <1>4
    <2>3. toPage' \in Seq(Message')
      BY <1>3, <1>4
    <2>. QED  BY <1>2, <1>3, <2>1, <2>2, <2>3 DEF WorkerInv, TypeOK, workerVars, Ids
  <1>7. OnePlace'
    <2>1. callbacks \subseteq Posted /\ Range(toWorker) \subseteq Posted /\ Returned \subseteq Posted
          /\ DOMAIN running \subseteq Posted
      BY DEF WorkerInv, TypeOK, OnePlace
    <2>2. \A i, j \in DOMAIN toWorker' : toWorker'[i] = toWorker'[j] => i = j
      <3>1. \A i \in DOMAIN toWorker : toWorker[i] \in Posted
        BY <1>4
      <3>. QED  BY <1>2, <1>3, <1>4, <3>1 DEF WorkerInv, OnePlace
    <2>. QED  BY <1>2, <1>3, <1>5, <2>1, <2>2 DEF WorkerInv, OnePlace, workerVars
  <1>8. CallersKnow'
    BY <1>2, <1>3 DEF WorkerInv, CallersKnow, Legit
  <1>9. SubscriptionsRight'
    <2>1. \A d \in Posted : Subscribed(d)' = Subscribed(d)
      BY <1>2 DEF Subscribed
    <2>2. Subscribed(c)' = {c} \X FunctionParams(method)
      BY <1>2 DEF Subscribed
    <2>3. FunctionParams(method) \subseteq {1, 2}
      BY DEF FunctionParams
    <2>. QED  BY <1>2, <1>3, <2>1, <2>2, <2>3 DEF WorkerInv, SubscriptionsRight
  <1>10. \A i \in DOMAIN toPage : toPage[i].id \in Posted
    BY PageMessages DEF WorkerInv
  <1>11. \A i \in DOMAIN toPage : \A w : CloseAnswer(toPage[i], w)' <=> CloseAnswer(toPage[i], w)
    BY <1>2, <1>3, <1>10 DEF CloseAnswer
  <1>12. ClosesDone'
    <2>1. \A w \in Ids : ClosedInWorker(w)' => ClosedInWorker(w)
      BY <1>2, <1>3, <1>11 DEF WorkerInv, TypeOK, ClosedInWorker, workerVars
    <2>. QED  BY <1>3, <2>1 DEF WorkerInv, ClosesDone, workerVars
  <1>13. NotesInTime' /\ CallbacksOwned'
    <2>1. live \subseteq Posted /\ rebootFn \in {0} \cup Posted
      BY DEF WorkerInv, TypeOK
    <2>2. \A i \in DOMAIN toPage : \A j \in 1..(i - 1) : j \in DOMAIN toPage
      BY <1>4
    <2>. QED  BY <1>2, <1>3, <1>5, <1>10, <1>11, <2>1, <2>2 DEF WorkerInv, NotesInTime, CallbacksOwned, workerVars
  <1>14. EntriesRight'
    <2>1. \A d \in Posted : Unclosed(d)' => Unclosed(d)
      BY <1>2 DEF Unclosed
    <2>2. DOMAIN running \subseteq Posted
      BY DEF WorkerInv, TypeOK
    <2>. QED  BY <1>2, <1>3, <1>5, <1>10, <2>1, <2>2 DEF WorkerInv, EntriesRight, workerVars
  <1>15. NoOrphanReturn'
    BY <1>3 DEF WorkerInv, NoOrphanReturn
  <1>. QED  BY <1>6, <1>7, <1>8, <1>9, <1>12, <1>13, <1>14, <1>15 DEF WorkerInv

\* The next message leaves its channel; those behind it move up.
LEMMA PageTakes ==
  ASSUME WorkerInv, NEW m, OnMessage(m)
  PROVE  /\ toPage' \in Seq(Message) /\ Len(toPage) \in Nat \ {0} /\ m = toPage[1]
         /\ 1 \in DOMAIN toPage
         /\ \A i \in DOMAIN toPage' :
              i \in Nat \ {0} /\ i + 1 \in DOMAIN toPage /\ toPage'[i] = toPage[i + 1]
         /\ \A i \in DOMAIN toPage : i # 1 => i - 1 \in DOMAIN toPage' /\ toPage[i] = toPage'[i - 1]
  <1>1. toPage \in Seq(Message) /\ toPage # <<>> /\ m = Head(toPage) /\ toPage' = Tail(toPage)
    BY DEF WorkerInv, TypeOK, OnMessage
  <1>2. Len(toPage) \in Nat \ {0} /\ DOMAIN toPage = 1..Len(toPage)
        /\ DOMAIN toPage' = 1..Len(toPage) - 1 /\ toPage' \in Seq(Message)
    BY <1>1
  <1>3. \A i \in DOMAIN toPage' : toPage'[i] = toPage[i + 1]
    BY <1>1, <1>2
  <1>. QED  BY <1>1, <1>2, <1>3

\* PromiseWorker.onMessage for an answer: with the answer of a close the watch is closed, and
\* by NotesInTime no notification of it is behind that answer.
LEMMA OnReturnInv ==
  ASSUME WorkerInv, OnReturn
  PROVE  WorkerInv'
  <1>1. PICK m : /\ OnMessage(m) /\ m.arg = 0 /\ m.id \in callbacks
                 /\ callbacks' = callbacks \ {m.id}
                 /\ outcome' = [outcome EXCEPT ![m.id] = IF m.success THEN "ok" ELSE "failed"]
                 /\ handle' = [handle EXCEPT ![m.id] = m.wid]
                 /\ subscriptions' =
                      IF Method(m.id) = "closeWatch" /\ m.success
                      THEN subscriptions \ Subscribed(Target(m.id))
                      ELSE subscriptions
    BY DEF OnReturn
  <1>2. UNCHANGED <<calls, heard, threw, toWorker, workerVars>>
    BY DEF OnReturn
  <1>3. /\ toPage' \in Seq(Message) /\ m = toPage[1] /\ 1 \in DOMAIN toPage
        /\ \A i \in DOMAIN toPage' :
             i \in Nat \ {0} /\ i + 1 \in DOMAIN toPage /\ toPage'[i] = toPage[i + 1]
        /\ \A i \in DOMAIN toPage : i # 1 => i - 1 \in DOMAIN toPage' /\ toPage[i] = toPage'[i - 1]
    BY <1>1, PageTakes
  <1>4. PICK k \in Posted : k = m.id
    BY <1>3, PageMessages DEF WorkerInv
  <1>5. /\ Posted' = Posted /\ Posted \subseteq Ids /\ Message' = Message
        /\ \A c : Method(c)' = Method(c) /\ Target(c)' = Target(c) /\ Subscribed(c)' = Subscribed(c)
    <2>1. Posted' = Posted /\ \A c : Method(c)' = Method(c) /\ Target(c)' = Target(c)
      BY <1>2 DEF Posted, Method, Target
    <2>2. Posted \subseteq Ids
      BY WorkerBounds DEF WorkerInv, TypeOK, Posted, Ids
    <2>. QED  BY <2>1, <2>2 DEF Subscribed, Message
  <1>6. /\ outcome[k] = "none" /\ outcome'[k] = (IF m.success THEN "ok" ELSE "failed")
        /\ \A c \in Ids : c # k => outcome'[c] = outcome[c]
        /\ outcome' \in [Ids -> {"none", "ok", "failed"}]
    BY <1>1, <1>4, <1>5 DEF WorkerInv, TypeOK
  <1>7. Closed' = IF Method(k) = "closeWatch" /\ m.success THEN Closed \cup {Target(k)} ELSE Closed
    <2>1. Holds({"closeWatch"})' = IF Method(k) = "closeWatch" /\ m.success
                                   THEN Holds({"closeWatch"}) \cup {k} ELSE Holds({"closeWatch"})
      <3>1. \A c \in Posted : outcome'[c] = "ok" <=> outcome[c] = "ok" \/ (c = k /\ m.success)
        BY <1>4, <1>5, <1>6
      <3>2. Holds({"closeWatch"})' = {c \in Posted : Method(c) = "closeWatch" /\ outcome'[c] = "ok"}
        BY <1>5 DEF Holds, Posted
      <3>3. Holds({"closeWatch"}) = {c \in Posted : Method(c) = "closeWatch" /\ outcome[c] = "ok"}
        BY DEF Holds, Posted
      <3>. QED  BY <1>4, <3>1, <3>2, <3>3
    <2>2. Method(k) = "closeWatch" => Target(k) \in Ids
      BY <1>4, <1>5 DEF WorkerInv, CallersKnow, Callers
    <2>. QED  BY <1>5, <2>1, <2>2 DEF Closed, Ids
  <1>8. TypeOK'
    <2>1. handle' \in [Ids -> Nat]
      BY <1>1, <1>3, PageMessages DEF WorkerInv, TypeOK
    <2>2. callbacks' = {c \in Posted : outcome'[c] = "none"}
      BY <1>1, <1>4, <1>5, <1>6 DEF WorkerInv, TypeOK
    <2>. QED  BY <1>2, <1>3, <1>4, <1>5, <1>6, <2>1, <2>2 DEF WorkerInv, TypeOK, workerVars, Ids
  <1>9. OnePlace'
    <2>1. Returned' = Returned \ {k} /\ k \in Returned
      <3>1. \A i \in DOMAIN toPage : toPage[i].arg = 0 /\ toPage[i].id = k => i = 1
        BY <1>1, <1>3, <1>4 DEF WorkerInv, OnePlace
      <3>2. Returned' \subseteq Returned \ {k}
        BY <1>3, <3>1 DEF Returned
      <3>3. Returned \ {k} \subseteq Returned' /\ k \in Returned
        BY <1>1, <1>3, <1>4 DEF Returned
      <3>. QED  BY <3>2, <3>3
    <2>2. \A i, j \in DOMAIN toPage' :
            toPage'[i].arg = 0 /\ toPage'[j].arg = 0 /\ toPage'[i].id = toPage'[j].id => i = j
      <3>1. \A i, j \in DOMAIN toPage' :
              toPage'[i].arg = 0 /\ toPage'[j].arg = 0 /\ toPage'[i].id = toPage'[j].id
                => i + 1 = j + 1
        BY <1>3 DEF WorkerInv, OnePlace
      <3>. QED  BY <1>3, <3>1
    <2>. QED  BY <1>1, <1>2, <1>4, <2>1, <2>2 DEF WorkerInv, OnePlace, workerVars
  <1>10. CallersKnow'
    BY <1>5, <1>6 DEF WorkerInv, CallersKnow
  <1>11. SubscriptionsRight'
    <2>1. \A c, d : c # d => Subscribed(c) \cap Subscribed(d) = {}
      BY DEF Subscribed
    <2>2. \A s \in subscriptions : s \in Subscribed(s[1])
      BY DEF WorkerInv, SubscriptionsRight
    <2>3. subscriptions' = IF Method(k) = "closeWatch" /\ m.success
                           THEN subscriptions \ Subscribed(Target(k)) ELSE subscriptions
      BY <1>1, <1>4
    <2>. QED  BY <1>5, <1>7, <2>1, <2>2, <2>3 DEF WorkerInv, SubscriptionsRight
  <1>12. ClosesDone'
    <2>1. \A w \in Ids : ClosedInWorker(w)' => ClosedInWorker(w)
      <3>1. Method(k) = "closeWatch" /\ m.success => CloseAnswer(toPage[1], Target(k))
        BY <1>1, <1>3, <1>4 DEF CloseAnswer
      <3>2. \A w : (\E i \in DOMAIN toPage' : CloseAnswer(toPage'[i], w))
                     => \E i \in DOMAIN toPage : CloseAnswer(toPage[i], w)
        BY <1>3
      <3>3. \A w : (\E i \in DOMAIN toPage : CloseAnswer(toPage[i], w))'
                     => \E i \in DOMAIN toPage' : CloseAnswer(toPage'[i], w)
        BY <1>5 DEF CloseAnswer
      <3>. QED  BY <1>2, <1>3, <1>5, <1>7, <3>1, <3>2, <3>3 DEF ClosedInWorker, workerVars
    <2>. QED  BY <1>2, <2>1 DEF WorkerInv, ClosesDone, workerVars
  <1>13. NotesInTime' /\ CallbacksOwned'
    <2>1. ASSUME NEW i \in DOMAIN toPage', toPage'[i].arg # 0
          PROVE  /\ toPage'[i].arg \in FunctionParams(Method(toPage'[i].id))
                 /\ toPage'[i].id \notin Closed'
                 /\ \A j \in 1..(i - 1) : ~CloseAnswer(toPage'[j], toPage'[i].id)
      <3>1. /\ toPage[i + 1].arg \in FunctionParams(Method(toPage[i + 1].id))
            /\ toPage[i + 1].id \notin Closed
            /\ \A j \in 1..i : ~CloseAnswer(toPage[j], toPage[i + 1].id)
        BY <1>3, <2>1 DEF WorkerInv, NotesInTime
      <3>2. Method(k) = "closeWatch" /\ m.success => toPage[i + 1].id # Target(k)
        <4>1. 1 \in 1..i
          BY <1>3
        <4>. QED  BY <1>1, <1>3, <1>4, <3>1, <4>1, SMTT(30) DEF CloseAnswer
      <3>3. \A j \in 1..(i - 1) : j \in DOMAIN toPage' /\ j + 1 \in 1..i
        BY <1>3
      <3>. QED  BY <1>3, <1>7, <3>1, <3>2, <3>3
    <2>2. \A x \in DOMAIN toPage' : \A w : CloseAnswer(toPage[x], w)' <=> CloseAnswer(toPage'[x], w)
      BY <1>5 DEF CloseAnswer
    <2>3. \A i \in DOMAIN toPage' : \A j \in 1..(i - 1) : j \in DOMAIN toPage'
      BY <1>3
    <2>. QED  BY <1>2, <1>5, <2>1, <2>2, <2>3 DEF WorkerInv, NotesInTime, CallbacksOwned, workerVars
  <1>14. EntriesRight'
    <2>1. \A d : Unclosed(d)' <=> Unclosed(d)
      BY <1>5 DEF Unclosed
    <2>2. handle'[k] = m.wid /\ \A c \in Ids : c # k => handle'[c] = handle[c]
      BY <1>1, <1>4, <1>5 DEF WorkerInv, TypeOK
    <2>3. m.success /\ Method(k) \in Wraps => m.wid \in DOMAIN wrapped /\ wrapped[m.wid].of = k
      BY <1>1, <1>3, <1>4 DEF WorkerInv, EntriesRight
    <2>4. \A i \in DOMAIN wrapped : i < wrappedId
      BY DEF WorkerInv, TypeOK
    <2>5. \A c \in Posted : outcome'[c] = "ok" /\ Method(c) \in Wraps =>
            /\ handle'[c] < wrappedId
            /\ handle'[c] \in DOMAIN wrapped => wrapped[handle'[c]].of = c
            /\ Unclosed(c) => handle'[c] \in DOMAIN wrapped
      BY <1>5, <1>6, <2>2, <2>3, <2>4 DEF WorkerInv, EntriesRight
    <2>6. \A i \in DOMAIN toPage' :
            toPage'[i].arg = 0 /\ toPage'[i].success /\ Method(toPage'[i].id) \in Wraps =>
              toPage'[i].wid \in DOMAIN wrapped /\ wrapped[toPage'[i].wid].of = toPage'[i].id
      BY <1>3 DEF WorkerInv, EntriesRight
    <2>. QED  BY <1>2, <1>5, <2>1, <2>5, <2>6 DEF WorkerInv, EntriesRight, workerVars
  <1>15. NoOrphanReturn'
    BY <1>2 DEF WorkerInv, NoOrphanReturn
  <1>. QED  BY <1>8, <1>9, <1>10, <1>11, <1>12, <1>13, <1>14, <1>15 DEF WorkerInv

\* No message is unexpected: the page forgets neither a callback before its answer
\* nor a subscription before its notifications.
LEMMA OnNotificationInv ==
  ASSUME WorkerInv, OnNotification
  PROVE  /\ WorkerInv'
         /\ \E c \in Posted \ Closed : heard' = [heard EXCEPT ![c] = @ + 1]
  <1>1. PICK m : /\ OnMessage(m) /\ (m.arg # 0 \/ m.id \notin callbacks)
                 /\ IF <<m.id, m.arg>> \in subscriptions
                    THEN heard' = [heard EXCEPT ![m.id] = @ + 1] /\ UNCHANGED threw
                    ELSE threw' = TRUE /\ UNCHANGED heard
    BY DEF OnNotification
  <1>2. UNCHANGED <<calls, callbacks, subscriptions, outcome, handle, toWorker, workerVars>>
    BY DEF OnNotification
  <1>3. /\ toPage' \in Seq(Message) /\ m = toPage[1] /\ 1 \in DOMAIN toPage
        /\ \A i \in DOMAIN toPage' :
             i \in Nat \ {0} /\ i + 1 \in DOMAIN toPage /\ toPage'[i] = toPage[i + 1]
        /\ \A i \in DOMAIN toPage : i # 1 => i - 1 \in DOMAIN toPage' /\ toPage[i] = toPage'[i - 1]
    BY <1>1, PageTakes
  <1>4. m.id \in Posted /\ Posted \subseteq Ids
    <2>1. m.id \in Posted
      BY <1>3, PageMessages DEF WorkerInv
    <2>. QED  BY <2>1, WorkerBounds DEF WorkerInv, TypeOK, Posted, Ids
  <1>5. m.arg # 0
    <2>1. m.arg = 0 => m.id \in Returned
      BY <1>3 DEF Returned
    <2>. QED  BY <1>1, <2>1 DEF WorkerInv, OnePlace
  <1>6. m.id \notin Closed /\ <<m.id, m.arg>> \in subscriptions
    <2>1. m.id \notin Closed /\ m.arg \in FunctionParams(Method(m.id))
      BY <1>3, <1>5 DEF WorkerInv, NotesInTime
    <2>. QED  BY <1>4, <2>1 DEF WorkerInv, SubscriptionsRight, Subscribed
  <1>7. heard' = [heard EXCEPT ![m.id] = @ + 1] /\ UNCHANGED threw
    BY <1>1, <1>6
  <1>8. /\ Posted' = Posted /\ Message' = Message /\ Closed' = Closed
        /\ \A c : Method(c)' = Method(c) /\ Target(c)' = Target(c) /\ Subscribed(c)' = Subscribed(c)
    BY <1>2 DEF Posted, Method, Target, Subscribed, Message, Closed, Holds
  <1>9. TypeOK'
    <2>1. heard' \in [Ids -> Nat]
      BY <1>4, <1>7 DEF WorkerInv, TypeOK
    <2>. QED  BY <1>2, <1>3, <1>8, <2>1 DEF WorkerInv, TypeOK, workerVars, Ids
  <1>10. OnePlace'
    <2>1. Returned' = Returned
      <3>1. Returned' \subseteq Returned
        BY <1>3 DEF Returned
      <3>2. Returned \subseteq Returned'
        BY <1>3, <1>5 DEF Returned
      <3>. QED  BY <3>1, <3>2
    <2>2. \A i, j \in DOMAIN toPage' :
            toPage'[i].arg = 0 /\ toPage'[j].arg = 0 /\ toPage'[i].id = toPage'[j].id => i = j
      <3>1. \A i, j \in DOMAIN toPage' :
              toPage'[i].arg = 0 /\ toPage'[j].arg = 0 /\ toPage'[i].id = toPage'[j].id
                => i + 1 = j + 1
        BY <1>3 DEF WorkerInv, OnePlace
      <3>. QED  BY <1>3, <3>1
    <2>. QED  BY <1>2, <2>1, <2>2 DEF WorkerInv, OnePlace, workerVars
  <1>11. CallersKnow' /\ SubscriptionsRight'
    BY <1>2, <1>8 DEF WorkerInv, CallersKnow, SubscriptionsRight
  <1>12. \A i \in DOMAIN toPage' : \A w : CloseAnswer(toPage[i], w)' <=> CloseAnswer(toPage[i + 1], w)
    BY <1>3, <1>8 DEF CloseAnswer
  <1>13. ClosesDone'
    <2>1. \A w \in Ids : ClosedInWorker(w)' => ClosedInWorker(w)
      BY <1>2, <1>3, <1>8, <1>12 DEF ClosedInWorker, workerVars
    <2>. QED  BY <1>2, <2>1 DEF WorkerInv, ClosesDone, workerVars
  <1>14. NotesInTime' /\ CallbacksOwned'
    <2>1. ASSUME NEW i \in DOMAIN toPage', toPage'[i].arg # 0
          PROVE  /\ toPage'[i].arg \in FunctionParams(Method(toPage'[i].id))
                 /\ toPage'[i].id \notin Closed
                 /\ \A j \in 1..(i - 1) : ~CloseAnswer(toPage[j + 1], toPage'[i].id)
      <3>1. /\ toPage[i + 1].arg \in FunctionParams(Method(toPage[i + 1].id))
            /\ toPage[i + 1].id \notin Closed
            /\ \A j \in 1..i : ~CloseAnswer(toPage[j], toPage[i + 1].id)
        BY <1>3, <2>1 DEF WorkerInv, NotesInTime
      <3>2. \A j \in 1..(i - 1) : j + 1 \in 1..i
        BY <1>3
      <3>. QED  BY <1>3, <3>1, <3>2
    <2>2. \A i \in DOMAIN toPage' : \A j \in 1..(i - 1) : j \in DOMAIN toPage'
      BY <1>3
    <2>. QED  BY <1>2, <1>8, <1>12, <2>1, <2>2 DEF WorkerInv, NotesInTime, CallbacksOwned, workerVars
  <1>15. EntriesRight'
    <2>1. \A d : Unclosed(d)' <=> Unclosed(d)
      BY <1>8 DEF Unclosed
    <2>2. \A i \in DOMAIN toPage' :
            toPage'[i].arg = 0 /\ toPage'[i].success /\ Method(toPage'[i].id) \in Wraps =>
              toPage'[i].wid \in DOMAIN wrapped /\ wrapped[toPage'[i].wid].of = toPage'[i].id
      BY <1>3 DEF WorkerInv, EntriesRight
    <2>. QED  BY <1>2, <1>8, <2>1, <2>2 DEF WorkerInv, EntriesRight, workerVars
  <1>16. NoOrphanReturn'
    BY <1>7 DEF WorkerInv, NoOrphanReturn
  <1>17. WorkerInv'
    BY <1>9, <1>10, <1>11, <1>13, <1>14, <1>15, <1>16 DEF WorkerInv
  <1>. QED  BY <1>4, <1>6, <1>7, <1>17
-----------------------------------------------------------------------------
(* The worker. *)

\* A step of the worker leaves the page's state alone.
LEMMA PageFrame ==
  ASSUME WorkerInv, UNCHANGED pageVars
  PROVE  /\ Posted' = Posted /\ Posted \subseteq Ids /\ Message' = Message /\ Closed' = Closed
         /\ callbacks' = callbacks /\ outcome' = outcome /\ handle' = handle
         /\ \A c : /\ Method(c)' = Method(c) /\ Target(c)' = Target(c)
                   /\ Subscribed(c)' = Subscribed(c) /\ Unclosed(c)' = Unclosed(c)
         /\ CallersKnow' /\ SubscriptionsRight' /\ NoOrphanReturn'
  <1>1. UNCHANGED <<calls, callbacks, subscriptions, outcome, handle, heard, threw>>
    BY DEF pageVars
  <1>2. /\ Posted' = Posted /\ Message' = Message /\ Closed' = Closed
        /\ \A c : /\ Method(c)' = Method(c) /\ Target(c)' = Target(c)
                  /\ Subscribed(c)' = Subscribed(c)
    BY <1>1 DEF Posted, Message, Closed, Holds, Method, Target, Subscribed
  <1>3. \A c : Unclosed(c)' = Unclosed(c)
    BY <1>2 DEF Unclosed
  <1>4. CallersKnow' /\ SubscriptionsRight'
    BY <1>1, <1>2 DEF WorkerInv, CallersKnow, SubscriptionsRight
  <1>5. NoOrphanReturn'
    BY <1>1 DEF WorkerInv, NoOrphanReturn
  <1>6. Posted \subseteq Ids
    BY WorkerBounds DEF WorkerInv, TypeOK, Posted, Ids
  <1>. QED  BY <1>1, <1>2, <1>3, <1>4, <1>5, <1>6

\* The call the worker takes is nowhere else.
LEMMA WorkerTakesCall ==
  ASSUME WorkerInv, NEW c \in Ids, Takes(c)
  PROVE  /\ toWorker' \in Seq(Posted) /\ Range(toWorker') = Range(toWorker) \ {c}
         /\ c \in Range(toWorker) /\ c \in Posted /\ c \in callbacks /\ outcome[c] = "none"
         /\ c \notin DOMAIN running /\ c \notin Returned
         /\ \A i, j \in DOMAIN toWorker' : toWorker'[i] = toWorker'[j] => i = j
  <1>1. toWorker \in Seq(Posted) /\ toWorker # <<>> /\ c = Head(toWorker) /\ toWorker' = Tail(toWorker)
    BY DEF WorkerInv, TypeOK, Takes
  <1>2. \A i, j \in DOMAIN toWorker : toWorker[i] = toWorker[j] => i = j
    BY DEF WorkerInv, OnePlace
  <1>3. /\ Range(toWorker') = Range(toWorker) \ {c} /\ c \in Range(toWorker)
        /\ \A i, j \in DOMAIN toWorker' : toWorker'[i] = toWorker'[j] => i = j
    BY <1>1, <1>2, RangeTail
  <1>4. c \in callbacks /\ c \notin DOMAIN running /\ c \notin Returned
    BY <1>3 DEF WorkerInv, OnePlace
  <1>5. c \in Posted /\ outcome[c] = "none"
    BY <1>4 DEF WorkerInv, TypeOK
  <1>. QED  BY <1>1, <1>3, <1>4, <1>5

\* A message posted to the page is the last one there.
LEMMA PageAppend ==
  ASSUME TypeOK, NEW m \in Message, toPage' = Append(toPage, m)
  PROVE  /\ toPage' \in Seq(Message) /\ Len(toPage) + 1 \notin DOMAIN toPage
         /\ DOMAIN toPage' = DOMAIN toPage \cup {Len(toPage) + 1}
         /\ toPage'[Len(toPage) + 1] = m /\ \A i \in DOMAIN toPage : toPage'[i] = toPage[i]
         /\ \A i \in DOMAIN toPage' : \A j \in 1..(i - 1) : j \in DOMAIN toPage
  <1>1. toPage \in Seq(Message)
    BY DEF TypeOK
  <1>. QED  BY <1>1

\* The answer of a call that has none on its way.
LEMMA AnswerOnce ==
  ASSUME WorkerInv, UNCHANGED pageVars, NEW c \in Posted, c \notin Returned,
         NEW success \in BOOLEAN, NEW wid \in Nat,
         toPage' = Append(toPage, Return(c, success, wid))
  PROVE  /\ Returned' = Returned \cup {c}
         /\ \A i, j \in DOMAIN toPage' :
              toPage'[i].arg = 0 /\ toPage'[j].arg = 0 /\ toPage'[i].id = toPage'[j].id => i = j
  <1> DEFINE m == Return(c, success, wid)
             n == Len(toPage) + 1
  <1>1. m \in Message /\ m.arg = 0 /\ m.id = c
    BY DEF Return, Message
  <1>2. /\ DOMAIN toPage' = DOMAIN toPage \cup {n} /\ n \notin DOMAIN toPage
        /\ toPage'[n] = m /\ \A i \in DOMAIN toPage : toPage'[i] = toPage[i]
    BY <1>1, PageAppend DEF WorkerInv
  <1> HIDE DEF m, n
  <1>3. Returned' \subseteq Returned \cup {c}
    BY <1>1, <1>2 DEF Returned
  <1>4. Returned \cup {c} \subseteq Returned'
    BY <1>1, <1>2 DEF Returned
  <1>5. \A i \in DOMAIN toPage : toPage[i].arg = 0 => toPage[i].id # c
    BY DEF Returned
  <1>6. \A i, j \in DOMAIN toPage' :
          toPage'[i].arg = 0 /\ toPage'[j].arg = 0 /\ toPage'[i].id = toPage'[j].id => i = j
    BY <1>1, <1>2, <1>5 DEF WorkerInv, OnePlace
  <1>. QED  BY <1>3, <1>4, <1>6

\* A notification answers no call.
LEMMA NoteKeepsReturned ==
  ASSUME WorkerInv, UNCHANGED pageVars, NEW m \in Message, m.arg # 0,
         toPage' = Append(toPage, m)
  PROVE  /\ Returned' = Returned
         /\ \A i, j \in DOMAIN toPage' :
              toPage'[i].arg = 0 /\ toPage'[j].arg = 0 /\ toPage'[i].id = toPage'[j].id => i = j
  <1> DEFINE n == Len(toPage) + 1
  <1>1. /\ DOMAIN toPage' = DOMAIN toPage \cup {n} /\ n \notin DOMAIN toPage
        /\ toPage'[n] = m /\ \A i \in DOMAIN toPage : toPage'[i] = toPage[i]
    BY PageAppend DEF WorkerInv
  <1> HIDE DEF n
  <1>2. Returned' \subseteq Returned /\ Returned \subseteq Returned'
    BY <1>1 DEF Returned
  <1>3. \A i, j \in DOMAIN toPage' :
          toPage'[i].arg = 0 /\ toPage'[j].arg = 0 /\ toPage'[i].id = toPage'[j].id => i = j
    BY <1>1 DEF WorkerInv, OnePlace
  <1>. QED  BY <1>2, <1>3

\* A notification of a watch that is not closed comes in time.
LEMMA NotesAppend ==
  ASSUME WorkerInv, UNCHANGED pageVars, NEW m \in Message, toPage' = Append(toPage, m),
         m.arg # 0 => m.arg \in FunctionParams(Method(m.id)) /\ ~ClosedInWorker(m.id)
  PROVE  NotesInTime'
  <1> DEFINE n == Len(toPage) + 1
  <1>1. /\ DOMAIN toPage' = DOMAIN toPage \cup {n} /\ n \notin DOMAIN toPage
        /\ toPage'[n] = m /\ \A i \in DOMAIN toPage : toPage'[i] = toPage[i]
        /\ \A i \in DOMAIN toPage' : \A j \in 1..(i - 1) : j \in DOMAIN toPage
    BY PageAppend DEF WorkerInv
  <1> HIDE DEF n
  <1>2. \A i \in DOMAIN toPage : \A w : CloseAnswer(toPage[i], w)' <=> CloseAnswer(toPage[i], w)
    BY <1>1, PageFrame DEF CloseAnswer
  <1>3. m.arg # 0 => m.id \notin Closed /\ \A j \in DOMAIN toPage : ~CloseAnswer(toPage[j], m.id)
    BY DEF ClosedInWorker
  <1>4. ASSUME NEW i \in DOMAIN toPage', toPage'[i].arg # 0
        PROVE  /\ toPage'[i].arg \in FunctionParams(Method(toPage'[i].id))
               /\ toPage'[i].id \notin Closed
               /\ \A j \in 1..(i - 1) : ~CloseAnswer(toPage[j], toPage'[i].id)
    <2>1. CASE i = n
      BY <1>1, <1>3, <1>4, <2>1
    <2>2. CASE i \in DOMAIN toPage
      BY <1>1, <1>4, <2>2 DEF WorkerInv, NotesInTime
    <2>. QED  BY <1>1, <2>1, <2>2
  <1>. QED  BY <1>1, <1>2, <1>4, PageFrame DEF NotesInTime

\* Only a watch the page holds can be closed.
LEMMA ClosedAnswered ==
  ASSUME WorkerInv, NEW w, ClosedInWorker(w)
  PROVE  w \in Posted /\ outcome[w] = "ok" /\ Method(w) \in WatchMethods
  <1>1. PICK d \in Posted : Method(d) = "closeWatch" /\ Target(d) = w
    <2>1. CASE w \in Closed
      BY <2>1 DEF Closed, Holds, Posted
    <2>2. CASE \E d \in DOMAIN running : Method(d) = "closeWatch" /\ Target(d) = w
      BY <2>2 DEF WorkerInv, TypeOK
    <2>3. CASE \E i \in DOMAIN toPage : CloseAnswer(toPage[i], w)
      BY <2>3, PageMessages DEF WorkerInv, CloseAnswer
    <2>. QED  BY <2>1, <2>2, <2>3 DEF ClosedInWorker
  <1>. QED  BY <1>1 DEF WorkerInv, CallersKnow, Callers

\* A call is refused, when it is taken or by the promise it left behind.
LEMMA RefusedInv ==
  ASSUME WorkerInv, UNCHANGED <<pageVars, wrappedId, wrapped, live, rebootFn>>,
         NEW c \in Posted, c \in callbacks, c \notin Returned, Refuses(c),
         toWorker' \in Seq(Posted), Range(toWorker') \subseteq Range(toWorker),
         \A i, j \in DOMAIN toWorker' : toWorker'[i] = toWorker'[j] => i = j,
         DOMAIN running' \subseteq DOMAIN running,
         c \notin Range(toWorker') \cup DOMAIN running'
  PROVE  WorkerInv'
  <1> DEFINE m == Return(c, FALSE, 0)
             n == Len(toPage) + 1
  <1>1. m \in Message /\ m.arg = 0 /\ m.id = c /\ m.success = FALSE
    BY DEF Return, Message
  <1>2. toPage' = Append(toPage, m)
    BY DEF Refuses
  <1>3. /\ Posted' = Posted /\ Posted \subseteq Ids /\ Message' = Message /\ Closed' = Closed
        /\ callbacks' = callbacks /\ outcome' = outcome /\ handle' = handle
        /\ \A d : Method(d)' = Method(d) /\ Target(d)' = Target(d) /\ Unclosed(d)' = Unclosed(d)
        /\ CallersKnow' /\ SubscriptionsRight' /\ NoOrphanReturn'
    BY PageFrame
  <1>4. /\ toPage' \in Seq(Message) /\ DOMAIN toPage' = DOMAIN toPage \cup {n} /\ toPage'[n] = m
        /\ \A i \in DOMAIN toPage : toPage'[i] = toPage[i]
    BY <1>1, <1>2, PageAppend DEF WorkerInv
  <1>5. /\ Returned' = Returned \cup {c}
        /\ \A i, j \in DOMAIN toPage' :
             toPage'[i].arg = 0 /\ toPage'[j].arg = 0 /\ toPage'[i].id = toPage'[j].id => i = j
    BY AnswerOnce DEF Refuses
  <1>6. NotesInTime'
    BY <1>1, <1>2, NotesAppend
  <1> HIDE DEF m, n
  <1>7. TypeOK'
    BY <1>3, <1>4 DEF WorkerInv, TypeOK, pageVars, Ids
  <1>8. OnePlace'
    BY <1>3, <1>5 DEF WorkerInv, OnePlace
  <1>9. ClosesDone'
    <2>1. \A i \in DOMAIN toPage' : \A w : CloseAnswer(toPage[i], w)' =>
            i \in DOMAIN toPage /\ CloseAnswer(toPage[i], w)
      BY <1>1, <1>3, <1>4 DEF CloseAnswer
    <2>2. \A w \in Ids : ClosedInWorker(w)' => ClosedInWorker(w)
      BY <1>3, <2>1 DEF ClosedInWorker
    <2>. QED  BY <1>3, <2>2 DEF WorkerInv, ClosesDone
  <1>10. CallbacksOwned'
    BY <1>3 DEF WorkerInv, CallbacksOwned
  <1>11. EntriesRight'
    BY <1>1, <1>3, <1>4 DEF WorkerInv, EntriesRight
  <1>. QED  BY <1>3, <1>6, <1>7, <1>8, <1>9, <1>10, <1>11 DEF WorkerInv

\* A call is taken without an answer: its promise is left behind, or it is lost.
LEMMA TakenInv ==
  ASSUME WorkerInv, UNCHANGED <<pageVars, toPage, wrappedId, wrapped, live>>,
         NEW c \in Ids, Takes(c), Method(c) # "closeWatch" \/ UNCHANGED running,
         DOMAIN running' \subseteq DOMAIN running \cup {c},
         rebootFn' = rebootFn \/ (rebootFn' = c /\ Method(c) = "onReboot")
  PROVE  WorkerInv'
  <1>1. /\ Posted' = Posted /\ Posted \subseteq Ids /\ Message' = Message /\ Closed' = Closed
        /\ callbacks' = callbacks /\ outcome' = outcome /\ handle' = handle
        /\ \A d : Method(d)' = Method(d) /\ Target(d)' = Target(d) /\ Unclosed(d)' = Unclosed(d)
        /\ CallersKnow' /\ SubscriptionsRight' /\ NoOrphanReturn'
    BY PageFrame
  <1>2. /\ toWorker' \in Seq(Posted) /\ Range(toWorker') = Range(toWorker) \ {c}
        /\ c \in Range(toWorker) /\ c \in Posted /\ c \in callbacks
        /\ c \notin DOMAIN running /\ c \notin Returned
        /\ \A i, j \in DOMAIN toWorker' : toWorker'[i] = toWorker'[j] => i = j
    BY WorkerTakesCall
  <1>3. Returned' = Returned /\ \A x, w : CloseAnswer(toPage[x], w)' <=> CloseAnswer(toPage[x], w)
    BY <1>1 DEF Returned, CloseAnswer
  <1>4. TypeOK'
    BY <1>1, <1>2 DEF WorkerInv, TypeOK, pageVars, Ids
  <1>5. OnePlace'
    BY <1>1, <1>2, <1>3 DEF WorkerInv, OnePlace
  <1>6. ClosesDone'
    <2>1. \A w \in Ids : ClosedInWorker(w)' => ClosedInWorker(w)
      BY <1>1, <1>3 DEF ClosedInWorker
    <2>. QED  BY <1>1, <2>1 DEF WorkerInv, ClosesDone
  <1>7. NotesInTime' /\ CallbacksOwned'
    BY <1>1, <1>2, <1>3 DEF WorkerInv, NotesInTime, CallbacksOwned
  <1>8. EntriesRight'
    BY <1>1, <1>2 DEF WorkerInv, EntriesRight
  <1>. QED  BY <1>1, <1>4, <1>5, <1>6, <1>7, <1>8 DEF WorkerInv

\* A watch is served, and its first rows are on their way.
LEMMA WatchServedInv ==
  ASSUME WorkerInv, UNCHANGED <<pageVars, wrappedId, wrapped, rebootFn>>,
         NEW c \in Ids, Takes(c), Method(c) \in WatchMethods, live' = live \cup {c},
         Starts(c, "watch"), toPage' = Append(toPage, Note(c, 1))
  PROVE  WorkerInv'
  <1> DEFINE m == Note(c, 1)
             n == Len(toPage) + 1
  <1>1. /\ Posted' = Posted /\ Posted \subseteq Ids /\ Message' = Message /\ Closed' = Closed
        /\ callbacks' = callbacks /\ outcome' = outcome /\ handle' = handle
        /\ \A d : Method(d)' = Method(d) /\ Target(d)' = Target(d) /\ Unclosed(d)' = Unclosed(d)
        /\ CallersKnow' /\ SubscriptionsRight' /\ NoOrphanReturn'
    BY PageFrame
  <1>2. /\ toWorker' \in Seq(Posted) /\ Range(toWorker') = Range(toWorker) \ {c}
        /\ c \in Range(toWorker) /\ c \in Posted /\ c \in callbacks /\ outcome[c] = "none"
        /\ c \notin DOMAIN running /\ c \notin Returned
        /\ \A i, j \in DOMAIN toWorker' : toWorker'[i] = toWorker'[j] => i = j
    BY WorkerTakesCall
  <1>3. m \in Message /\ m.arg = 1 /\ m.id = c
    BY <1>2 DEF Note, Message
  <1>4. DOMAIN running' = DOMAIN running \cup {c}
    BY DEF Starts, Put
  <1>5. ~ClosedInWorker(c)
    BY <1>2, ClosedAnswered
  <1>6. /\ toPage' \in Seq(Message) /\ DOMAIN toPage' = DOMAIN toPage \cup {n} /\ toPage'[n] = m
        /\ \A i \in DOMAIN toPage : toPage'[i] = toPage[i]
    BY <1>3, PageAppend DEF WorkerInv
  <1>7. /\ Returned' = Returned
        /\ \A i, j \in DOMAIN toPage' :
             toPage'[i].arg = 0 /\ toPage'[j].arg = 0 /\ toPage'[i].id = toPage'[j].id => i = j
    BY <1>3, NoteKeepsReturned
  <1>8. NotesInTime'
    <2>1. 1 \in FunctionParams(Method(c))
      BY DEF FunctionParams, WatchMethods
    <2>. QED  BY <1>3, <1>5, <2>1, NotesAppend
  <1> HIDE DEF m, n
  <1>9. TypeOK'
    BY <1>1, <1>2, <1>4, <1>6 DEF WorkerInv, TypeOK, pageVars, Ids
  <1>10. OnePlace'
    BY <1>1, <1>2, <1>4, <1>7 DEF WorkerInv, OnePlace
  <1>11. ClosesDone'
    <2>1. \A i \in DOMAIN toPage' : \A w : CloseAnswer(toPage[i], w)' =>
            i \in DOMAIN toPage /\ CloseAnswer(toPage[i], w)
      BY <1>1, <1>3, <1>6 DEF CloseAnswer
    <2>2. \A w \in Ids : ClosedInWorker(w)' => ClosedInWorker(w)
      BY <1>1, <1>4, <2>1 DEF ClosedInWorker, WatchMethods
    <2>. QED  BY <1>1, <1>5, <2>2 DEF WorkerInv, ClosesDone
  <1>12. CallbacksOwned'
    BY <1>1, <1>2 DEF WorkerInv, CallbacksOwned
  <1>13. EntriesRight'
    BY <1>1, <1>2, <1>3, <1>4, <1>6 DEF WorkerInv, EntriesRight
  <1>. QED  BY <1>1, <1>8, <1>9, <1>10, <1>11, <1>12, <1>13 DEF WorkerInv

\* The object of a Caller is the one its target was answered with.
LEMMA EntryOfTarget ==
  ASSUME WorkerInv, NEW c \in Posted, Method(c) \in Callers, Known(c)
  PROVE  /\ Target(c) \in Posted /\ outcome[Target(c)] = "ok" /\ Method(Target(c)) \in Wraps
         /\ Entry(c).of = Target(c)
         /\ Entry(c).autoremove = (Method(Target(c)) \in WatchMethods)
         /\ \A i \in DOMAIN wrapped : wrapped[i].of = Target(c) => i = handle[Target(c)]
  <1>1. Target(c) \in Posted /\ outcome[Target(c)] = "ok" /\ Method(Target(c)) \in Wraps
    BY DEF WorkerInv, CallersKnow, Wraps
  <1>2. Entry(c).of = Target(c)
    BY <1>1 DEF WorkerInv, EntriesRight, Entry, Known
  <1>. QED  BY <1>1, <1>2 DEF WorkerInv, EntriesRight, Entry, Known

\* An entry of the wrapped table that a posted close names is forgotten.
LEMMA ForgottenEntries ==
  ASSUME WorkerInv, UNCHANGED <<pageVars, toPage, wrappedId>>,
         NEW c \in Posted, Method(c) \in {"closeWatch", "closeRemote"}, Known(c),
         wrapped' = [w \in DOMAIN wrapped \ {handle[Target(c)]} |-> wrapped[w]],
         Range(toWorker') \subseteq Range(toWorker), c \in Range(toWorker),
         DOMAIN running' \subseteq DOMAIN running \cup {c}
  PROVE  EntriesRight'
  <1> DEFINE t == Target(c)
             h == handle[Target(c)]
  <1>1. /\ t \in Posted /\ outcome[t] = "ok" /\ wrapped[h].of = t
        /\ \A i \in DOMAIN wrapped : wrapped[i].of = t => i = h
    BY EntryOfTarget DEF Callers, RemoteMethods, Entry
  <1>2. /\ Posted' = Posted /\ callbacks' = callbacks /\ outcome' = outcome /\ handle' = handle
        /\ \A d : Method(d)' = Method(d) /\ Target(d)' = Target(d) /\ Unclosed(d)' = Unclosed(d)
    BY PageFrame
  <1>3. ~Unclosed(t)
    BY DEF Unclosed
  <1>4. DOMAIN wrapped' = DOMAIN wrapped \ {h} /\ \A i \in DOMAIN wrapped' : wrapped'[i] = wrapped[i]
    OBVIOUS
  <1> HIDE DEF t, h
  <1>5. \A i \in DOMAIN wrapped' :
          /\ wrapped'[i].of \in Posted
          /\ wrapped'[i].autoremove = (Method(wrapped'[i].of) \in WatchMethods)
          /\ wrapped'[i].of \notin Range(toWorker') \cup DOMAIN running'
    BY <1>4 DEF WorkerInv, EntriesRight
  <1>6. \A i, j \in DOMAIN wrapped' : wrapped'[i].of = wrapped'[j].of => i = j
    BY <1>4 DEF WorkerInv, EntriesRight
  <1>7. \A i \in DOMAIN toPage :
          toPage[i].arg = 0 /\ toPage[i].success /\ Method(toPage[i].id) \in Wraps =>
            toPage[i].wid \in DOMAIN wrapped' /\ wrapped'[toPage[i].wid].of = toPage[i].id
    <2>1. \A i \in DOMAIN toPage : toPage[i].arg = 0 => toPage[i].id # t
      <3>1. \A i \in DOMAIN toPage : toPage[i].arg = 0 => toPage[i].id \in callbacks
        BY DEF WorkerInv, OnePlace, Returned
      <3>. QED  BY <1>1, <3>1 DEF WorkerInv, TypeOK
    <2>. QED  BY <1>1, <1>4, <2>1 DEF WorkerInv, EntriesRight
  <1>8. \A d \in Posted : outcome[d] = "ok" /\ Method(d) \in Wraps =>
          /\ handle[d] < wrappedId
          /\ handle[d] \in DOMAIN wrapped' => wrapped'[handle[d]].of = d
          /\ Unclosed(d) => handle[d] \in DOMAIN wrapped'
    BY <1>1, <1>3, <1>4 DEF WorkerInv, EntriesRight
  <1>. QED  BY <1>2, <1>5, <1>6, <1>7, <1>8 DEF EntriesRight

\* The close of a watch runs in the worker.
LEMMA RecvCloseWatchInv ==
  ASSUME WorkerInv, NEW c \in Ids, Takes(c), Method(c) = "closeWatch", Known(c),
         live' = live \ {Target(c)}, Starts(c, "undefined"), ForgetsEntry(c),
         UNCHANGED <<pageVars, toPage, wrappedId, rebootFn>>
  PROVE  WorkerInv' /\ Target(c) \in Ids
  <1>1. /\ Posted' = Posted /\ Posted \subseteq Ids /\ Message' = Message /\ Closed' = Closed
        /\ callbacks' = callbacks /\ outcome' = outcome /\ handle' = handle
        /\ \A d : Method(d)' = Method(d) /\ Target(d)' = Target(d) /\ Unclosed(d)' = Unclosed(d)
        /\ CallersKnow' /\ SubscriptionsRight' /\ NoOrphanReturn'
    BY PageFrame
  <1>2. /\ toWorker' \in Seq(Posted) /\ Range(toWorker') = Range(toWorker) \ {c}
        /\ c \in Range(toWorker) /\ c \in Posted /\ c \in callbacks
        /\ c \notin DOMAIN running /\ c \notin Returned
        /\ \A i, j \in DOMAIN toWorker' : toWorker'[i] = toWorker'[j] => i = j
    BY WorkerTakesCall
  <1>3. DOMAIN running' = DOMAIN running \cup {c}
    BY DEF Starts, Put
  <1>4. Returned' = Returned /\ \A x, w : CloseAnswer(toPage[x], w)' <=> CloseAnswer(toPage[x], w)
    BY <1>1 DEF Returned, CloseAnswer
  <1>5. /\ Target(c) \in Posted /\ Method(Target(c)) \in WatchMethods /\ Entry(c).autoremove = TRUE
        /\ \A i \in DOMAIN wrapped : wrapped[i].of = Target(c) => i = handle[Target(c)]
    <2>1. Method(Target(c)) \in WatchMethods
      BY <1>2 DEF WorkerInv, CallersKnow, Callers
    <2>. QED  BY <1>2, <2>1, EntryOfTarget DEF Callers
  <1>6. wrapped' = [w \in DOMAIN wrapped \ {handle[Target(c)]} |-> wrapped[w]]
    BY <1>5 DEF ForgetsEntry
  <1>7. TypeOK'
    BY <1>1, <1>2, <1>3, <1>6 DEF WorkerInv, TypeOK, pageVars, Ids
  <1>8. OnePlace'
    BY <1>1, <1>2, <1>3, <1>4 DEF WorkerInv, OnePlace
  <1>9. ClosesDone'
    <2>1. \A w \in Ids : ClosedInWorker(w)' => ClosedInWorker(w) \/ w = Target(c)
      BY <1>1, <1>3, <1>4 DEF ClosedInWorker
    <2>2. \A i \in DOMAIN wrapped' :
            /\ i \in DOMAIN wrapped /\ wrapped'[i] = wrapped[i] /\ wrapped'[i].of # Target(c)
      BY <1>5, <1>6
    <2>. QED  BY <1>1, <2>1, <2>2 DEF WorkerInv, ClosesDone
  <1>10. NotesInTime' /\ CallbacksOwned'
    BY <1>1, <1>2, <1>4 DEF WorkerInv, NotesInTime, CallbacksOwned
  <1>11. EntriesRight'
    BY <1>2, <1>3, <1>6, ForgottenEntries
  <1>. QED  BY <1>1, <1>5, <1>7, <1>8, <1>9, <1>10, <1>11 DEF WorkerInv

\* A method of the wrapped server runs in the worker.
LEMMA RecvRemoteInv ==
  ASSUME WorkerInv, NEW c \in Ids, Takes(c), Method(c) \in RemoteMethods, Known(c),
         Starts(c, "undefined"), ForgetsEntry(c),
         rebootFn' = IF Method(c) = "onReboot" THEN c ELSE rebootFn,
         UNCHANGED <<pageVars, toPage, wrappedId, live>>
  PROVE  WorkerInv'
  <1>1. /\ Posted' = Posted /\ Posted \subseteq Ids /\ Message' = Message /\ Closed' = Closed
        /\ callbacks' = callbacks /\ outcome' = outcome /\ handle' = handle
        /\ \A d : Method(d)' = Method(d) /\ Target(d)' = Target(d) /\ Unclosed(d)' = Unclosed(d)
        /\ CallersKnow' /\ SubscriptionsRight' /\ NoOrphanReturn'
    BY PageFrame
  <1>2. /\ toWorker' \in Seq(Posted) /\ Range(toWorker') = Range(toWorker) \ {c}
        /\ c \in Range(toWorker) /\ c \in Posted /\ c \in callbacks
        /\ c \notin DOMAIN running /\ c \notin Returned
        /\ \A i, j \in DOMAIN toWorker' : toWorker'[i] = toWorker'[j] => i = j
    BY WorkerTakesCall
  <1>3. DOMAIN running' = DOMAIN running \cup {c}
    BY DEF Starts, Put
  <1>4. Method(c) \in Callers /\ Method(c) # "closeWatch"
    BY DEF Callers, RemoteMethods
  <1>5. Entry(c).autoremove = FALSE
    <2>1. Method(Target(c)) = "connectedRemote"
      BY <1>2, <1>4 DEF WorkerInv, CallersKnow
    <2>2. (Method(Target(c)) \in WatchMethods) = FALSE
      BY <2>1 DEF WatchMethods
    <2>. QED  BY <1>2, <1>4, <2>2, EntryOfTarget
  <1>6. CASE Method(c) # "closeRemote"
    <2>1. wrapped' = wrapped
      BY <1>5, <1>6 DEF ForgetsEntry
    <2>. QED  BY <1>3, <1>4, <2>1, TakenInv
  <1>7. CASE Method(c) = "closeRemote"
    <2>1. wrapped' = [w \in DOMAIN wrapped \ {handle[Target(c)]} |-> wrapped[w]]
      BY <1>7 DEF ForgetsEntry
    <2>2. Returned' = Returned /\ \A x, w : CloseAnswer(toPage[x], w)' <=> CloseAnswer(toPage[x], w)
      BY <1>1 DEF Returned, CloseAnswer
    <2>3. rebootFn' = rebootFn
      BY <1>7
    <2>4. TypeOK'
      BY <1>1, <1>2, <1>3, <2>1, <2>3 DEF WorkerInv, TypeOK, pageVars, Ids
    <2>5. OnePlace'
      BY <1>1, <1>2, <1>3, <2>2 DEF WorkerInv, OnePlace
    <2>6. ClosesDone'
      <3>1. \A w \in Ids : ClosedInWorker(w)' => ClosedInWorker(w)
        BY <1>1, <1>3, <1>4, <2>2 DEF ClosedInWorker
      <3>. QED  BY <1>1, <2>1, <3>1 DEF WorkerInv, ClosesDone
    <2>7. NotesInTime' /\ CallbacksOwned'
      BY <1>1, <1>2, <2>2, <2>3 DEF WorkerInv, NotesInTime, CallbacksOwned
    <2>8. EntriesRight'
      BY <1>2, <1>3, <1>7, <2>1, ForgottenEntries
    <2>. QED  BY <1>1, <2>4, <2>5, <2>6, <2>7, <2>8 DEF WorkerInv
  <1>. QED  BY <1>6, <1>7

\* apply's then.
LEMMA FulfilsInv ==
  ASSUME WorkerInv, NEW c \in Ids, Fulfils(c)
  PROVE  WorkerInv'
  <1> DEFINE wraps == Method(c) \in WatchMethods \cup {"connectedRemote"}
             wid == IF wraps THEN wrappedId ELSE 0
             m == Return(c, TRUE, wid)
             n == Len(toPage) + 1
  <1>1. /\ c \in DOMAIN running /\ toPage' = Append(toPage, m)
        /\ running' = [d \in DOMAIN running \ {c} |-> running[d]]
        /\ UNCHANGED <<pageVars, toWorker, live, rebootFn>>
    BY DEF Fulfils, Finishes
  <1>2. /\ Posted' = Posted /\ Posted \subseteq Ids /\ Message' = Message /\ Closed' = Closed
        /\ callbacks' = callbacks /\ outcome' = outcome /\ handle' = handle
        /\ \A d : Method(d)' = Method(d) /\ Target(d)' = Target(d) /\ Unclosed(d)' = Unclosed(d)
        /\ CallersKnow' /\ SubscriptionsRight' /\ NoOrphanReturn'
    BY <1>1, PageFrame
  <1>3. /\ c \in Posted /\ c \in callbacks /\ outcome[c] = "none"
        /\ c \notin Returned /\ c \notin Range(toWorker)
    BY <1>1 DEF WorkerInv, OnePlace, TypeOK
  <1>4. wrappedId \in Nat /\ wid \in Nat
    BY DEF WorkerInv, TypeOK
  <1>5. m \in Message /\ m.arg = 0 /\ m.id = c /\ m.wid = wid /\ m.success = TRUE
    BY <1>3, <1>4 DEF Return, Message
  <1>6. /\ toPage' \in Seq(Message) /\ DOMAIN toPage' = DOMAIN toPage \cup {n} /\ toPage'[n] = m
        /\ \A i \in DOMAIN toPage : toPage'[i] = toPage[i]
    BY <1>1, <1>5, PageAppend DEF WorkerInv
  <1>7. /\ Returned' = Returned \cup {c}
        /\ \A i, j \in DOMAIN toPage' :
             toPage'[i].arg = 0 /\ toPage'[j].arg = 0 /\ toPage'[i].id = toPage'[j].id => i = j
    BY <1>1, <1>3, <1>4, AnswerOnce
  <1>8. NotesInTime'
    BY <1>1, <1>5, NotesAppend
  <1>9. /\ wrappedId \notin DOMAIN wrapped
        /\ wraps => /\ wrappedId' = wrappedId + 1 /\ DOMAIN wrapped' = DOMAIN wrapped \cup {wrappedId}
                    /\ wrapped'[wrappedId].of = c
                    /\ wrapped'[wrappedId].autoremove = (Method(c) \in WatchMethods)
                    /\ \A i \in DOMAIN wrapped : wrapped'[i] = wrapped[i]
        /\ ~wraps => UNCHANGED <<wrapped, wrappedId>>
    <2>1. wrappedId \notin DOMAIN wrapped
      BY DEF WorkerInv, TypeOK
    <2>2. wraps => /\ wrappedId' = wrappedId + 1
                   /\ wrapped' = Put(wrapped, wrappedId, [value |-> running[c], of |-> c,
                                                 autoremove |-> Method(c) \in WatchMethods])
      BY DEF Fulfils
    <2>3. ~wraps => UNCHANGED <<wrapped, wrappedId>>
      BY DEF Fulfils
    <2>. QED  BY <2>1, <2>2, <2>3 DEF Put
  <1>10. wraps <=> Method(c) \in Wraps
    BY DEF Wraps
  <1>11. wraps => wid = wrappedId
    OBVIOUS
  <1>12. DOMAIN running' = DOMAIN running \ {c}
    BY <1>1
  <1> HIDE DEF wraps, wid, m, n
  <1>13. TypeOK'
    <2>1. wrappedId' \in Nat /\ DOMAIN wrapped' \subseteq 0..wrappedId' - 1
      BY <1>4, <1>9, SMTT(30) DEF WorkerInv, TypeOK
    <2>. QED  BY <1>1, <1>2, <1>6, <1>12, <2>1 DEF WorkerInv, TypeOK, pageVars, Ids
  <1>14. OnePlace'
    BY <1>1, <1>2, <1>3, <1>7, <1>12 DEF WorkerInv, OnePlace
  <1>15. ClosesDone'
    <2>1. \A i \in DOMAIN toPage' : \A w : CloseAnswer(toPage[i], w)' =>
            \/ i \in DOMAIN toPage /\ CloseAnswer(toPage[i], w)
            \/ Method(c) = "closeWatch" /\ Target(c) = w
      BY <1>2, <1>5, <1>6 DEF CloseAnswer
    <2>2. \A w \in Ids : ClosedInWorker(w)' => ClosedInWorker(w)
      BY <1>1, <1>2, <1>12, <2>1 DEF ClosedInWorker
    <2>3. \A w \in Ids : ClosedInWorker(w) => w # c
      BY <1>3, ClosedAnswered
    <2>. QED  BY <1>1, <1>9, <2>2, <2>3 DEF WorkerInv, ClosesDone
  <1>16. CallbacksOwned'
    BY <1>1, <1>2 DEF WorkerInv, CallbacksOwned
  <1>17. EntriesRight'
    <2>1. \A i \in DOMAIN wrapped :
            wrapped[i].of \in Posted /\ wrapped[i].of # c /\ i < wrappedId
      BY <1>1, <1>4 DEF WorkerInv, EntriesRight, TypeOK
    <2>2. \A i \in DOMAIN wrapped' :
            /\ wrapped'[i].of \in Posted
            /\ wrapped'[i].autoremove = (Method(wrapped'[i].of) \in WatchMethods)
            /\ wrapped'[i].of \notin Range(toWorker) \cup DOMAIN running'
      BY <1>3, <1>9, <1>12, <2>1 DEF WorkerInv, EntriesRight
    <2>3. \A i, j \in DOMAIN wrapped' : wrapped'[i].of = wrapped'[j].of => i = j
      BY <1>9, <2>1 DEF WorkerInv, EntriesRight
    <2>4. \A i \in DOMAIN toPage' :
            toPage'[i].arg = 0 /\ toPage'[i].success /\ Method(toPage'[i].id) \in Wraps =>
              toPage'[i].wid \in DOMAIN wrapped' /\ wrapped'[toPage'[i].wid].of = toPage'[i].id
      BY <1>5, <1>6, <1>9, <1>10, <1>11 DEF WorkerInv, EntriesRight
    <2>5. \A d \in Posted : outcome[d] = "ok" /\ Method(d) \in Wraps =>
            /\ handle[d] < wrappedId'
            /\ handle[d] \in DOMAIN wrapped' => wrapped'[handle[d]].of = d
            /\ Unclosed(d) => handle[d] \in DOMAIN wrapped'
      <3>1. \A d \in Posted : handle[d] \in Nat
        BY <1>2 DEF WorkerInv, TypeOK
      <3>. QED  BY <1>4, <1>9, <3>1 DEF WorkerInv, EntriesRight
    <2>. QED  BY <1>1, <1>2, <2>2, <2>3, <2>4, <2>5 DEF EntriesRight
  <1>. QED  BY <1>2, <1>8, <1>13, <1>14, <1>15, <1>16, <1>17 DEF WorkerInv

\* apply's catch.
LEMMA RejectsInv ==
  ASSUME WorkerInv, NEW c \in Ids, Rejects(c)
  PROVE  WorkerInv'
  <1>1. /\ c \in DOMAIN running /\ Refuses(c)
        /\ running' = [d \in DOMAIN running \ {c} |-> running[d]]
        /\ UNCHANGED <<pageVars, toWorker, wrappedId, wrapped, live, rebootFn>>
    BY DEF Rejects, Finishes
  <1>2. /\ c \in Posted /\ c \in callbacks /\ c \notin Returned /\ c \notin Range(toWorker)
        /\ toWorker' \in Seq(Posted)
        /\ \A i, j \in DOMAIN toWorker' : toWorker'[i] = toWorker'[j] => i = j
    BY <1>1 DEF WorkerInv, OnePlace, TypeOK
  <1>. QED  BY <1>1, <1>2, RefusedInv

\* A callback of the database: its watch is served, so no close of it has run.
LEMMA NotifiesInv ==
  ASSUME WorkerInv, Notifies
  PROVE  WorkerInv'
  <1>1. PICK c \in live \cup ({rebootFn} \ {0}) : \E s \in Subscribed(c) :
               toPage' = Append(toPage, Note(s[1], s[2]))
    BY DEF Notifies
  <1>2. UNCHANGED <<pageVars, toWorker, wrappedId, wrapped, running, live, rebootFn>>
    BY DEF Notifies
  <1>3. PICK k \in FunctionParams(Method(c)) : toPage' = Append(toPage, Note(c, k))
    BY <1>1 DEF Subscribed
  <1> DEFINE m == Note(c, k)
             n == Len(toPage) + 1
  <1>4. /\ Posted' = Posted /\ Posted \subseteq Ids /\ Message' = Message /\ Closed' = Closed
        /\ callbacks' = callbacks /\ outcome' = outcome /\ handle' = handle
        /\ \A d : Method(d)' = Method(d) /\ Target(d)' = Target(d) /\ Unclosed(d)' = Unclosed(d)
        /\ CallersKnow' /\ SubscriptionsRight' /\ NoOrphanReturn'
    BY <1>2, PageFrame
  <1>5. c \in Posted /\ k \in {1, 2}
    BY <1>1 DEF WorkerInv, TypeOK, FunctionParams
  <1>6. m \in Message /\ m.arg = k /\ m.arg # 0 /\ m.id = c
    BY <1>5 DEF Note, Message
  <1>7. ~ClosedInWorker(c)
    <2>1. CASE c \in live
      BY <1>4, <1>5, <2>1 DEF WorkerInv, ClosesDone
    <2>2. CASE c = rebootFn /\ c # 0
      BY <2>2, ClosedAnswered DEF WorkerInv, CallbacksOwned, WatchMethods
    <2>. QED  BY <1>1, <2>1, <2>2
  <1>8. /\ toPage' \in Seq(Message) /\ DOMAIN toPage' = DOMAIN toPage \cup {n} /\ toPage'[n] = m
        /\ \A i \in DOMAIN toPage : toPage'[i] = toPage[i]
    BY <1>3, <1>6, PageAppend DEF WorkerInv
  <1>9. /\ Returned' = Returned
        /\ \A i, j \in DOMAIN toPage' :
             toPage'[i].arg = 0 /\ toPage'[j].arg = 0 /\ toPage'[i].id = toPage'[j].id => i = j
    BY <1>2, <1>3, <1>6, NoteKeepsReturned
  <1>10. NotesInTime'
    BY <1>2, <1>3, <1>6, <1>7, NotesAppend
  <1> HIDE DEF m, n
  <1>11. TypeOK'
    BY <1>2, <1>4, <1>8 DEF WorkerInv, TypeOK, pageVars, Ids
  <1>12. OnePlace'
    BY <1>2, <1>4, <1>9 DEF WorkerInv, OnePlace
  <1>13. ClosesDone'
    <2>1. \A i \in DOMAIN toPage' : \A w : CloseAnswer(toPage[i], w)' =>
            i \in DOMAIN toPage /\ CloseAnswer(toPage[i], w)
      BY <1>4, <1>6, <1>8 DEF CloseAnswer
    <2>2. \A w \in Ids : ClosedInWorker(w)' => ClosedInWorker(w)
      BY <1>2, <1>4, <2>1 DEF ClosedInWorker
    <2>. QED  BY <1>2, <2>2 DEF WorkerInv, ClosesDone
  <1>14. CallbacksOwned'
    BY <1>2, <1>4 DEF WorkerInv, CallbacksOwned
  <1>15. EntriesRight'
    BY <1>2, <1>4, <1>6, <1>8 DEF WorkerInv, EntriesRight
  <1>. QED  BY <1>4, <1>10, <1>11, <1>12, <1>13, <1>14, <1>15 DEF WorkerInv

\* A call that is answered as soon as it is taken, always with a refusal.
LEMMA TakenRefused ==
  ASSUME WorkerInv, NEW c \in Ids, Takes(c), Refuses(c),
         UNCHANGED <<pageVars, wrappedId, wrapped, running, live, rebootFn>>
  PROVE  WorkerInv'
  <1>1. /\ toWorker' \in Seq(Posted) /\ Range(toWorker') = Range(toWorker) \ {c}
        /\ c \in Posted /\ c \in callbacks /\ c \notin DOMAIN running /\ c \notin Returned
        /\ \A i, j \in DOMAIN toWorker' : toWorker'[i] = toWorker'[j] => i = j
    BY WorkerTakesCall
  <1>2. running' = running
    OBVIOUS
  <1>. QED  BY <1>1, <1>2, RefusedInv

\* A call that leaves a promise behind and nothing else.
LEMMA TakenStarts ==
  ASSUME WorkerInv, NEW c \in Ids, Takes(c), NEW value, Starts(c, value),
         Method(c) # "closeWatch", UNCHANGED <<pageVars, toPage, wrappedId, wrapped, live, rebootFn>>
  PROVE  WorkerInv'
  <1>1. DOMAIN running' \subseteq DOMAIN running \cup {c}
    BY DEF Starts, Put
  <1>. QED  BY <1>1, TakenInv

\* One case for each way onWorkerMessage takes a message.
LEMMA WorkerTakesInv ==
  ASSUME WorkerInv, WorkerTakes
  PROVE  WorkerInv'
  <1> USE DEF workerVars
  <1>1. CASE RecvCreate
    <2>1. PICK c \in Ids :
            /\ Takes(c) /\ Method(c) = "create"
            /\ \/ Refuses(c) /\ UNCHANGED running
               \/ Starts(c, "database") /\ UNCHANGED toPage
      BY <1>1 DEF RecvCreate
    <2>2. UNCHANGED <<pageVars, wrappedId, wrapped, live, rebootFn>>
      BY <1>1 DEF RecvCreate
    <2>3. CASE Refuses(c) /\ UNCHANGED running
      BY <2>1, <2>2, <2>3, TakenRefused
    <2>4. CASE Starts(c, "database") /\ UNCHANGED toPage
      BY <2>1, <2>2, <2>4, TakenStarts
    <2>. QED  BY <2>1, <2>3, <2>4
  <1>2. CASE RecvRefused
    BY <1>2, TakenRefused DEF RecvRefused
  <1>3. CASE RecvWatch
    <2>1. PICK c \in Ids :
            /\ Takes(c) /\ Method(c) \in WatchMethods
            /\ \/ /\ live' = live \cup {c} /\ Starts(c, "watch")
                  /\ toPage' = Append(toPage, Note(c, 1))
               \/ Refuses(c) /\ UNCHANGED <<live, running>>
      BY <1>3 DEF RecvWatch
    <2>2. UNCHANGED <<pageVars, wrappedId, wrapped, rebootFn>>
      BY <1>3 DEF RecvWatch
    <2>3. CASE live' = live \cup {c} /\ Starts(c, "watch") /\ toPage' = Append(toPage, Note(c, 1))
      BY <2>1, <2>2, <2>3, WatchServedInv
    <2>4. CASE Refuses(c) /\ UNCHANGED <<live, running>>
      BY <2>1, <2>2, <2>4, TakenRefused
    <2>. QED  BY <2>1, <2>3, <2>4
  <1>4. CASE RecvLocal
    <2>1. PICK c \in Ids :
            /\ Takes(c) /\ Method(c) = "local"
            /\ \/ Starts(c, "undefined") /\ UNCHANGED toPage
               \/ Refuses(c) /\ UNCHANGED running
      BY <1>4 DEF RecvLocal
    <2>2. UNCHANGED <<pageVars, wrappedId, wrapped, live, rebootFn>>
      BY <1>4 DEF RecvLocal
    <2>3. CASE Starts(c, "undefined") /\ UNCHANGED toPage
      BY <2>1, <2>2, <2>3, TakenStarts
    <2>4. CASE Refuses(c) /\ UNCHANGED running
      BY <2>1, <2>2, <2>4, TakenRefused
    <2>. QED  BY <2>1, <2>3, <2>4
  <1>5. CASE RecvFunction
    <2>1. PICK c \in Ids :
            /\ Takes(c) /\ Method(c) \in {"net", "connect", "connectedRemote"}
            /\ Starts(c, IF Method(c) = "connectedRemote" /\ connected THEN "remote" ELSE "undefined")
      BY <1>5 DEF RecvFunction
    <2>2. UNCHANGED <<pageVars, toPage, wrappedId, wrapped, live, rebootFn>>
      BY <1>5 DEF RecvFunction
    <2>. QED  BY <2>1, <2>2, TakenStarts
  <1>6. CASE RecvUnknown
    BY <1>6, TakenRefused DEF RecvUnknown
  <1>7. CASE RecvThrows
    BY <1>7, TakenInv DEF RecvThrows
  <1>8. CASE RecvCloseWatch
    BY <1>8, RecvCloseWatchInv DEF RecvCloseWatch
  <1>9. CASE RecvRemote
    BY <1>9, RecvRemoteInv DEF RecvRemote
  <1>. QED  BY <1>1, <1>2, <1>3, <1>4, <1>5, <1>6, <1>7, <1>8, <1>9 DEF WorkerTakes

\* A step that leaves alone everything the invariant speaks of.
LEMMA StutterInv ==
  ASSUME WorkerInv,
         UNCHANGED <<pageVars, toWorker, toPage, wrappedId, wrapped, running, live, rebootFn>>
  PROVE  WorkerInv'
  <1> USE DEF pageVars
  <1>1. TypeOK'
    BY DEF WorkerInv, TypeOK, Posted, Message, Ids
  <1>2. OnePlace'
    BY DEF WorkerInv, OnePlace, Returned
  <1>3. CallersKnow' /\ SubscriptionsRight' /\ NoOrphanReturn'
    BY PageFrame
  <1>4. ClosesDone' /\ NotesInTime'
    BY DEF WorkerInv, ClosesDone, ClosedInWorker, NotesInTime, CloseAnswer, Closed, Holds, Method,
           Target, Ids
  <1>5. CallbacksOwned'
    BY DEF WorkerInv, CallbacksOwned, Method
  <1>6. EntriesRight'
    BY DEF WorkerInv, EntriesRight, Posted, Unclosed, Method, Target
  <1>. QED  BY <1>1, <1>2, <1>3, <1>4, <1>5, <1>6 DEF WorkerInv

\* Every step of the page and of the worker keeps the invariant.
LEMMA StepInv ==
  ASSUME WorkerInv, [Next]_vars
  PROVE  WorkerInv'
  <1>1. CASE PageCalls
    BY <1>1, PageCallsPost, PostInv DEF WorkerInv
  <1>2. CASE PageHears
    BY <1>2, OnReturnInv, OnNotificationInv DEF PageHears
  <1>3. CASE WorkerTakes
    BY <1>3, WorkerTakesInv
  <1>4. CASE WorkerRuns
    <2>1. CASE Connects
      BY <2>1, StutterInv DEF Connects
    <2>. QED  BY <1>4, <2>1, NotifiesInv, FulfilsInv, RejectsInv DEF WorkerRuns
  <1>5. CASE UNCHANGED vars
    BY <1>5, StutterInv DEF vars, workerVars
  <1>. QED  BY <1>1, <1>2, <1>3, <1>4, <1>5 DEF Next
-----------------------------------------------------------------------------
\* The invariant of the page, the worker and the two channels between them, for
\* every set of methods and any number of calls and callbacks.
THEOREM WorkerInvariant == Spec => []WorkerInv
  <1>. QED  BY InitInv, StepInv, PTL DEF Spec

\* onMessage (worker.ts) never throws "Return with no callback": whatever the page
\* calls and whatever crosses on the way, each message the worker posts finds the
\* callback of its call or the subscription of its function parameter.
THEOREM NoMessageOrphaned == Spec => []NoOrphanReturn
  <1>1. WorkerInv => NoOrphanReturn
    BY DEF WorkerInv
  <1>. QED  BY <1>1, WorkerInvariant, PTL

\* The identifier of a wrapped object that the page holds names the object of the
\* call it was answered to, until the page posts a close (onWorkerMessage, worker.ts).
THEOREM HandlesStayValid == Spec => []HandleValid
  <1>1. WorkerInv => HandleValid
    BY DEF WorkerInv, EntriesRight, HandleValid, Holds, Posted, Wraps, Unclosed
  <1>. QED  BY <1>1, WorkerInvariant, PTL

\* An answered close leaves no query, no wrapped object and no subscription of the
\* watch behind (close of skdb_wdatabase.ts, autoremove of worker.ts).
THEOREM ClosedReleased == Spec => []ClosedIsReleased
  <1>1. ASSUME WorkerInv, NEW w \in Closed
        PROVE  /\ w \notin live /\ \A i \in DOMAIN wrapped : wrapped[i].of # w
               /\ subscriptions \cap Subscribed(w) = {}
    <2>1. w \in Ids /\ ClosedInWorker(w)
      BY <1>1 DEF Closed, ClosedInWorker
    <2>2. \A s \in Subscribed(w) : s[1] = w
      BY DEF Subscribed
    <2>3. \A s \in subscriptions : s[1] \notin Closed
      BY <1>1 DEF WorkerInv, SubscriptionsRight
    <2>. QED  BY <1>1, <2>1, <2>2, <2>3 DEF WorkerInv, ClosesDone
  <1>2. WorkerInv => ClosedIsReleased
    BY <1>1 DEF ClosedIsReleased
  <1>. QED  BY <1>2, WorkerInvariant, PTL
-----------------------------------------------------------------------------
(* The worker implements WorkerApi. *)

\* A step that moves messages or promises about is not seen through the interface.
LEMMA StepUnseen ==
  ASSUME UNCHANGED <<pageVars, live>>
  PROVE  UNCHANGED Api!apiVars
  BY DEF Api!apiVars, pageVars, Closed, Holds, Method, Target

\* post is a Call of the interface.
LEMMA PostIsCall ==
  ASSUME WorkerInv, NEW method \in Methods, NEW on \in {0} \cup Ids,
         Post(method, on), Legit(method, on)
  PROVE  \E c \in Ids : Api!Call(c)
  <1>1. PICK c : c = Len(calls) + 1
    OBVIOUS
  <1>2. /\ c \in Ids /\ c \notin Posted /\ Posted' = Posted \cup {c}
        /\ outcome[c] = "none" /\ Closed' = Closed
    BY <1>1, PostFrame
  <1>3. UNCHANGED <<outcome, heard, live>>
    BY DEF Post, workerVars
  <1>4. Api!Call(c)
    BY <1>2, <1>3 DEF Api!Call, Posted
  <1>. QED  BY <1>2, <1>4

\* An answer that reaches the page is an Answer; that of a close closes a watch that is not
\* served any more.
LEMMA OnReturnIsAnswer ==
  ASSUME WorkerInv, OnReturn
  PROVE  \E c \in Ids : Api!Answer(c)
  <1>1. PICK m : /\ OnMessage(m) /\ m.arg = 0 /\ m.id \in callbacks
                 /\ outcome' = [outcome EXCEPT ![m.id] = IF m.success THEN "ok" ELSE "failed"]
    BY DEF OnReturn
  <1>2. UNCHANGED <<calls, heard, live>>
    BY DEF OnReturn, workerVars
  <1>3. m = toPage[1] /\ 1 \in DOMAIN toPage
    BY <1>1, PageTakes
  <1> DEFINE c == m.id
             w == Target(m.id)
  <1>4. /\ c \in Posted /\ Posted \subseteq Ids /\ Posted' = Posted /\ outcome[c] = "none"
        /\ \A d \in Posted : outcome'[d] = IF d = c THEN IF m.success THEN "ok" ELSE "failed"
                                           ELSE outcome[d]
        /\ \A d : Method(d)' = Method(d) /\ Target(d)' = Target(d)
    BY <1>1, <1>2, WorkerBounds DEF WorkerInv, TypeOK, Posted, Ids, Method, Target
  <1>5. {d \in Posted : outcome[d] = "none"}' = {d \in Posted : outcome[d] = "none"} \ {c}
        /\ {d \in Posted : outcome[d] # "none"}' = {d \in Posted : outcome[d] # "none"} \cup {c}
    BY <1>4
  <1>6. CASE m.success /\ Method(c) = "closeWatch"
    <2>1. CloseAnswer(toPage[1], w)
      BY <1>1, <1>3, <1>6 DEF CloseAnswer
    <2>2. ClosedInWorker(w)
      BY <1>3, <2>1 DEF ClosedInWorker
    <2>3. w \in Posted /\ outcome[w] = "ok"
      BY <2>2, ClosedAnswered
    <2>4. w \notin live
      BY <1>4, <2>2, <2>3 DEF WorkerInv, ClosesDone
    <2>5. Closed' = Closed \cup {w}
      BY <1>4, <1>6, <2>3 DEF Closed, Holds, Posted
    <2>. QED  BY <1>2, <1>4, <1>5, <2>3, <2>4, <2>5 DEF Api!Answer, Posted
  <1>7. CASE ~(m.success /\ Method(c) = "closeWatch")
    <2>1. Holds({"closeWatch"})' = Holds({"closeWatch"})
      BY <1>4, <1>7 DEF Holds, Posted
    <2>2. Closed' = Closed
      BY <1>4, <2>1 DEF Closed, Holds, Posted, Ids
    <2>. QED  BY <1>2, <1>4, <1>5, <2>2 DEF Api!Answer, Posted
  <1>. QED  BY <1>6, <1>7

\* A notification that reaches the page is a Hear of a watch that is not closed.
LEMMA OnNotificationIsHear ==
  ASSUME WorkerInv, OnNotification
  PROVE  \E c \in Ids : Api!Hear(c)
  <1>1. PICK c \in Posted \ Closed : heard' = [heard EXCEPT ![c] = @ + 1]
    BY OnNotificationInv
  <1>2. UNCHANGED <<calls, outcome, live>>
    BY DEF OnNotification, workerVars
  <1>3. c \in Ids
    BY <1>1, WorkerBounds DEF WorkerInv, TypeOK, Posted, Ids
  <1>4. Closed' = Closed
    BY <1>2 DEF Closed, Holds, Method, Target
  <1>. QED  BY <1>1, <1>2, <1>3, <1>4 DEF Api!Hear, Posted

\* A watch that the database accepts is served.
LEMMA RecvWatchIsServe ==
  ASSUME WorkerInv, RecvWatch
  PROVE  (\E c \in Ids : Api!Serve(c)) \/ UNCHANGED Api!apiVars
  <1>1. PICK c \in Ids : Takes(c) /\ (live' = live \cup {c} \/ live' = live)
    BY DEF RecvWatch
  <1>2. UNCHANGED pageVars
    BY DEF RecvWatch
  <1>3. CASE live' = live
    BY <1>2, <1>3, StepUnseen
  <1>4. CASE live' = live \cup {c}
    <2>1. c \in Posted /\ outcome[c] = "none"
      BY <1>1, WorkerTakesCall
    <2>2. Closed' = Closed
      BY <1>2, PageFrame
    <2>. QED  BY <1>2, <1>4, <2>1, <2>2 DEF Api!Serve, Posted, pageVars
  <1>. QED  BY <1>1, <1>3, <1>4

\* A close that runs in the worker drops the query.
LEMMA RecvCloseWatchIsDrop ==
  ASSUME WorkerInv, RecvCloseWatch
  PROVE  \E w \in Ids : Api!Drop(w)
  <1>1. PICK c \in Ids : /\ Takes(c) /\ Method(c) = "closeWatch" /\ Known(c)
                         /\ live' = live \ {Target(c)} /\ Starts(c, "undefined") /\ ForgetsEntry(c)
    BY DEF RecvCloseWatch
  <1>2. UNCHANGED <<pageVars, toPage, wrappedId, rebootFn>>
    BY DEF RecvCloseWatch
  <1>3. Target(c) \in Ids
    BY <1>1, <1>2, RecvCloseWatchInv
  <1>4. Closed' = Closed
    BY <1>2, PageFrame
  <1>. QED  BY <1>1, <1>2, <1>3, <1>4 DEF Api!Drop, pageVars

\* Every step is a step of the interface or none.
LEMMA StepRefines ==
  ASSUME WorkerInv, [Next]_vars
  PROVE  [Api!ApiNext]_Api!apiVars
  <1>1. CASE PageCalls
    BY <1>1, PageCallsPost, PostIsCall DEF WorkerInv, Api!ApiNext
  <1>2. CASE PageHears
    BY <1>2, OnReturnIsAnswer, OnNotificationIsHear DEF PageHears, Api!ApiNext
  <1>3. CASE WorkerTakes
    <2>1. CASE RecvWatch
      BY <2>1, RecvWatchIsServe DEF Api!ApiNext
    <2>2. CASE RecvCloseWatch
      BY <2>2, RecvCloseWatchIsDrop DEF Api!ApiNext
    <2>3. CASE RecvCreate \/ RecvRefused \/ RecvLocal \/ RecvFunction \/ RecvUnknown \/ RecvThrows
               \/ RecvRemote
      <3>1. UNCHANGED <<pageVars, live>>
        BY <2>3 DEF RecvCreate, RecvRefused, RecvLocal, RecvFunction, RecvUnknown, RecvThrows,
                    RecvRemote, workerVars
      <3>. QED  BY <3>1, StepUnseen
    <2>. QED  BY <1>3, <2>1, <2>2, <2>3 DEF WorkerTakes
  <1>4. CASE WorkerRuns
    <2>1. UNCHANGED <<pageVars, live>>
      BY <1>4 DEF WorkerRuns, Connects, Notifies, Fulfils, Rejects
    <2>. QED  BY <2>1, StepUnseen
  <1>5. CASE UNCHANGED vars
    BY <1>5, StepUnseen DEF vars, workerVars
  <1>. QED  BY <1>1, <1>2, <1>3, <1>4, <1>5 DEF Next

\* A database in a worker keeps the promises of the interface for every set of
\* methods and any number of calls: a call is answered once, a callback is called
\* for a watch that was asked for and whose close was not answered, and a close
\* is answered when the query is gone (skdb_wdatabase.ts over worker.ts).
THEOREM ImplementsApi == Spec => ApiRefined
  <1>1. Init => Api!ApiInit
    BY DEF Init, Api!ApiInit, Closed, Holds
  <1>. QED  BY <1>1, StepRefines, WorkerInvariant, PTL DEF Spec, ApiRefined, Api!ApiSpec
=============================================================================
