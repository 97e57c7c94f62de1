----------------------------- MODULE Exceptions -----------------------------
(***************************************************************************)
(* Errors that cross between Skip and JavaScript in the WebAssembly build  *)
(* (Utils.etry, ethrow and getErrorObject of sk_types.ts, SKIP_throw of    *)
(* runtime32_specific.c, Exception.sk).  A Skip try is a JavaScript try: a *)
(* throw makes an Error of the exception's message, and a catch finds the  *)
(* exception in the variable exn, where an error of JavaScript is saved as *)
(* an exception that names it.  A throw of the exception in exn is taken   *)
(* for a rethrow, and throws the Error that is being handled; addresses    *)
(* are used again, so the two may have nothing to do with each other.      *)
(*                                                                         *)
(* An error is told from others by its origin, the throw it began with.    *)
(* JavaScript code that Skip calls may catch the error of a service call,  *)
(* as the checkers of core/src/index.ts do, and lets all others pass.      *)
(* Causes of errors and console output are left out.                       *)
(***************************************************************************)
EXTENDS Integers, Sequences, FiniteSets, TLC

CONSTANTS Ptrs,      \* addresses exceptions can have
          MaxDepth,  \* bound: frames of the call stack
          MaxThrows  \* bound: throws

ASSUME ExceptionConstants == IsFiniteSet(Ptrs) /\ {MaxDepth, MaxThrows} \subseteq Nat

VARIABLES stack,   \* the frames: "skip" and "js" code, and "try", "region" and "handler" of etry
          utils,   \* the state of the runtime, below
          flying,  \* the Error that is being thrown
          kept,    \* the exceptions the store has
          throws,  \* so far
          thrown,  \* the origin of what flies
          lost     \* whether an external exception was deleted under a handler
vars == <<stack, utils, flying, kept, throws, thrown, lost>>

\* An Error is an SkError or one of JavaScript; undefined stands for none.
Unknown == 0
Undefined == [sk |-> FALSE, origin |-> Unknown]
SkError(origin) == [sk |-> TRUE, origin |-> origin]
JsError(origin) == [sk |-> FALSE, origin |-> origin]

\* A Skip exception: its address, its id if it is an ExternalException, its origin.
NotExternal == 0
Exception(p, id, origin) == [ptr |-> p, id |-> id, origin |-> origin]
NoException == Exception(0, NotExternal, Unknown)

Frame(kind) == [kind |-> kind, err |-> Undefined, caught |-> NoException]
Running == stack[Len(stack)]
Below == SubSeq(stack, 1, Len(stack) - 1)
Handlers == {stack[i] : i \in {j \in DOMAIN stack : stack[j].kind = "handler"}}
InSkip == stack # <<>> /\ Running.kind # "js" /\ flying = Undefined
InJs == (stack # <<>> => Running.kind = "js") /\ flying = Undefined

\* The exceptions Skip can still reach, besides one that flies, and the addresses where
\* a new one can be.
Held == kept \cup {f.caught : f \in Handlers}
HeldAt == {x.ptr : x \in Held}
Free == Ptrs \ (HeldAt \cup (IF flying.sk THEN {utils.exn.ptr} ELSE {}))

Init ==
  /\ stack = <<>> /\ flying = Undefined /\ kept = {} /\ throws = 0 /\ thrown = Unknown /\ lost = FALSE
  /\ utils = [exn |-> NoException, exception |-> Undefined,
              exceptionId |-> 0, exceptions |-> <<>>, stacks |-> <<>>]
-----------------------------------------------------------------------------
(* What the runtime does to its state u with an exception x. *)

\* The message of an external exception is that of its Error, as long as it has one.
getExceptionMessage(u, x) ==
  IF x.id = NotExternal THEN x.origin
  ELSE IF x.id \in DOMAIN u.exceptions THEN u.exceptions[x.id].origin ELSE Unknown

isRethrow(u, x) == u.exn.ptr = x.ptr
ThrowsHandled(u, x, rethrow) ==
  IF u.exception # Undefined THEN u.exception
  ELSE IF x.id \in DOMAIN u.exceptions THEN u.exceptions[x.id]
  ELSE SkError(getExceptionMessage(u, x))
ethrow(u, x, rethrow) ==
  IF rethrow /\ u.exception # Undefined THEN u.exception
  ELSE IF x.id \in DOMAIN u.exceptions THEN u.exceptions[x.id]
  ELSE SkError(getExceptionMessage(u, x))

\* The stack of an SkError is noted when it is made.
SKIP_throw(u, x) ==
  LET err == ethrow(u, x, isRethrow(u, x))
      made == err.sk /\ ~(isRethrow(u, x) /\ u.exception # Undefined)
  IN [u EXCEPT !.exn = x, !.stacks = IF made THEN (x.ptr :> err.origin) @@ @ ELSE @]

replace_exn(u, x) ==
  [u EXCEPT !.exn = x,
            !.stacks = IF u.exn.ptr \in DOMAIN @
                       THEN (x.ptr :> @[u.exn.ptr]) @@ [p \in DOMAIN @ \ {u.exn.ptr} |-> @[p]]
                       ELSE @]

\* etry, when f throws err: an error of JavaScript gets an id, and the exception that
\* names it is made at p.
newException(u, err) ==
  [u EXCEPT !.exceptionId = @ + 1, !.exceptions = @ @@ (u.exceptionId + 1 :> err)]
callWithException(u, err, p) ==
  IF err.sk THEN u ELSE [u EXCEPT !.exn = Exception(p, u.exceptionId, err.origin)]
Catches(u, err, p) ==
  LET v == [u EXCEPT !.exception = err]
  IN callWithException(IF err.sk THEN v ELSE newException(v, err), err, p)
KeepsException(u, err) == u
Finally(u, err) == IF u.exception = err THEN [u EXCEPT !.exception = Undefined] ELSE u

\* main and runCheckError.
clearMainEnvironment(u) == [u EXCEPT !.exception = Undefined, !.stacks = <<>>]

\* The Error a service call that failed ends with.
getErrorObject(u, x) == JsError(getExceptionMessage(u, x))

deleteException(u, ids) == [u EXCEPT !.exceptions = [id \in DOMAIN @ \ ids |-> @[id]]]
-----------------------------------------------------------------------------
(* Calls. *)

\* Nothing is nested any more once nothing can be thrown.
Pushes(kind) ==
  /\ Len(stack) < MaxDepth /\ (throws < MaxThrows \/ stack = <<>>)
  /\ stack' = Append(stack, Frame(kind))

\* The program calls Skip, through main or with runWithGc.
Main == InJs /\ Pushes("skip") /\ utils' = clearMainEnvironment(utils) /\ UNCHANGED <<flying, kept, throws, thrown, lost>>
RunWithGc == InJs /\ Pushes("skip") /\ UNCHANGED <<utils, flying, kept, throws, thrown, lost>>

\* Skip calls JavaScript, or enters a try, its own or that of a region of memory.
CallJs == InSkip /\ Pushes("js") /\ UNCHANGED <<utils, flying, kept, throws, thrown, lost>>
Try == InSkip /\ Pushes("try") /\ UNCHANGED <<utils, flying, kept, throws, thrown, lost>>
Region == InSkip /\ Pushes("region") /\ UNCHANGED <<utils, flying, kept, throws, thrown, lost>>

Return ==
  /\ stack # <<>> /\ flying = Undefined
  /\ stack' = Below
  /\ utils' = IF Running.kind = "handler" THEN Finally(utils, Running.err) ELSE utils
  /\ UNCHANGED <<flying, kept, throws, thrown, lost>>
-----------------------------------------------------------------------------
(* Throws. *)

Throws(x) ==
  /\ throws < MaxThrows /\ throws' = throws + 1
  /\ flying' = ethrow(utils, x, isRethrow(utils, x))
  /\ utils' = SKIP_throw(utils, x)
  /\ thrown' = x.origin
  /\ UNCHANGED <<stack, kept, lost>>
SkipThrowsNew == InSkip /\ \E p \in Free : Throws(Exception(p, NotExternal, throws + 1))

\* One that a handler has, or one from the store.
SkipThrowsAgain == InSkip /\ \E x \in Held : Throws(x)

JsThrows ==
  /\ InJs /\ stack # <<>>
  /\ throws < MaxThrows /\ throws' = throws + 1
  /\ flying' = JsError(throws + 1) /\ thrown' = throws + 1
  /\ UNCHANGED <<stack, utils, kept, lost>>
-----------------------------------------------------------------------------
(* What becomes of an Error. *)

\* It leaves a frame, and in the end reaches the program.
Unwind ==
  /\ flying # Undefined /\ stack # <<>> /\ Running.kind \in {"skip", "js", "handler"}
  /\ stack' = Below
  /\ utils' = IF Running.kind = "handler" THEN Finally(utils, Running.err) ELSE utils
  /\ UNCHANGED <<flying, kept, throws, thrown, lost>>
Surfaces ==
  /\ flying # Undefined /\ stack = <<>>
  /\ flying' = Undefined /\ thrown' = Unknown
  /\ UNCHANGED <<stack, utils, kept, throws, lost>>

Allocated == IF flying.sk THEN {utils.exn.ptr} ELSE Free
Handle ==
  /\ flying # Undefined /\ stack # <<>> /\ Running.kind = "try"
  /\ \E p \in Allocated : utils' = Catches(utils, flying, p)
  /\ stack' = Append(Below, [kind |-> "handler", err |-> flying, caught |-> utils'.exn])
  /\ flying' = Undefined /\ thrown' = Unknown
  /\ UNCHANGED <<kept, throws, lost>>

\* The handler of a region destroys it, copies the exception out if it was made there,
\* and throws the copy.
LeaveRegion ==
  /\ flying # Undefined /\ stack # <<>> /\ Running.kind = "region"
  /\ \E p \in Allocated :
       LET caught == Catches(utils, flying, p)
       IN \E q \in IF caught.exn.ptr \in HeldAt THEN {caught.exn.ptr} ELSE Ptrs \ HeldAt :
            LET cexn == [caught.exn EXCEPT !.ptr = q]
                copied == replace_exn(caught, cexn)
            IN /\ flying' = ethrow(copied, cexn, isRethrow(copied, cexn))
               /\ utils' = Finally(SKIP_throw(copied, cexn), flying)
  /\ stack' = Below
  /\ UNCHANGED <<kept, throws, thrown, lost>>

\* The outermost handler of a service call returns the failure, of which JavaScript
\* makes an Error and throws it; a checker catches it.
Fails ==
  /\ InSkip /\ Running.kind = "handler" /\ Len(stack) > 1 /\ stack[Len(stack) - 1].kind = "skip"
  /\ LET u == Finally(utils, Running.err)
     IN /\ utils' = u
        /\ \/ flying' = getErrorObject(u, Running.caught) /\ thrown' = Running.err.origin
           \/ Len(stack) > 2 /\ UNCHANGED <<flying, thrown>>
  /\ stack' = SubSeq(stack, 1, Len(stack) - 2)
  /\ UNCHANGED <<kept, throws, lost>>
-----------------------------------------------------------------------------
(* The store. *)

\* The failure of a computation is copied into the store.
Store ==
  /\ InSkip /\ Running.kind = "handler"
  /\ \E p \in Free : kept' = {[Running.caught EXCEPT !.ptr = p]}
  /\ UNCHANGED <<stack, utils, flying, throws, thrown, lost>>

\* A commit, which may replace the failure, frees the external exceptions that are not
\* in the store.
Commit ==
  /\ InSkip
  /\ kept' \in {kept, {}}
  /\ LET gone == DOMAIN utils.exceptions \ {x.id : x \in kept'}
     IN /\ utils' = deleteException(utils, gone)
        /\ lost' = (lost \/ \E f \in Handlers : f.caught.id \in gone)
  /\ UNCHANGED <<stack, flying, throws, thrown>>
-----------------------------------------------------------------------------
Next ==
  \/ Main \/ RunWithGc \/ CallJs \/ Try \/ Region \/ Return
  \/ SkipThrowsNew \/ SkipThrowsAgain \/ JsThrows
  \/ Unwind \/ Surfaces \/ Handle \/ LeaveRegion \/ Fails
  \/ Store \/ Commit
Spec == Init /\ [][Next]_vars

\* The stack getErrorObject puts on an error is that of its own exception, whatever
\* else was thrown from the same address before, and wherever a region moved it.
StacksOwn ==
  \A f \in Handlers :
    (f.caught.id = NotExternal /\ f.caught.ptr \in DOMAIN utils.stacks)
      => utils.stacks[f.caught.ptr] = f.caught.origin

\* The Error that flies is that of the exception thrown last, never one made for
\* another throw, although exn may hold an address that is used again and the exception
\* being handled belongs to an outer try (ethrow's rethrow test); and each handler finds
\* its own exception in exn, and its own stack.  An external exception that a commit deleted under its
\* handler is Unknown from then on.
ErrorsArrive ==
  /\ flying # Undefined => flying.origin = thrown \/ (flying.origin = Unknown /\ lost)
  /\ \A f \in Handlers : f.caught.origin = f.err.origin \/ (f.err.origin = Unknown /\ lost)
  /\ StacksOwn

\* The Error a rethrow throws, Utils.exception, is that of a handler that is running:
\* none survives its etry, and with no call under way there is none.
ExceptionIsHandled == utils.exception # Undefined => \E f \in Handlers : f.err = utils.exception
=============================================================================
