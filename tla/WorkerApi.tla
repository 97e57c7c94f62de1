----------------------------- MODULE WorkerApi -----------------------------
(***************************************************************************)
(* What the SKDB interface promises the page whether the database runs on  *)
(* its thread or in a worker: every call is answered at most once, the     *)
(* callback of a watch is called only after the watch was asked for and    *)
(* before its close was answered, and once a close is answered the         *)
(* database no longer serves the query.                                    *)
(***************************************************************************)
EXTENDS Naturals

CONSTANT Ids

VARIABLES pending, \* calls made and not answered
          done,    \* calls answered
          open,    \* watches the database serves
          closed,  \* watches whose close was answered with success
          heard    \* how often the callbacks of each watch were called

apiVars == <<pending, done, open, closed, heard>>

ApiInit ==
  /\ pending = {} /\ done = {} /\ open = {} /\ closed = {}
  /\ heard = [c \in Ids |-> 0]

Call(c) ==
  /\ c \notin pending \cup done
  /\ pending' = pending \cup {c}
  /\ UNCHANGED <<done, open, closed, heard>>

Serve(c) ==
  /\ c \in pending
  /\ open' = open \cup {c}
  /\ UNCHANGED <<pending, done, closed, heard>>

Drop(w) ==
  /\ open' = open \ {w}
  /\ UNCHANGED <<pending, done, closed, heard>>

Answer(c) ==
  /\ c \in pending
  /\ pending' = pending \ {c} /\ done' = done \cup {c}
  /\ UNCHANGED <<open, heard>>
  /\ \/ UNCHANGED closed
     \/ \E w \in done : w \notin open /\ closed' = closed \cup {w}

Hear(w) ==
  /\ w \in (pending \cup done) \ closed
  /\ heard' = [heard EXCEPT ![w] = @ + 1]
  /\ UNCHANGED <<pending, done, open, closed>>

ApiNext == \E c \in Ids : Call(c) \/ Serve(c) \/ Drop(c) \/ Answer(c) \/ Hear(c)

ApiSpec == ApiInit /\ [][ApiNext]_apiVars
=============================================================================
