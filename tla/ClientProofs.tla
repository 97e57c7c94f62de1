--------------------------- MODULE ClientProofs ---------------------------
(***************************************************************************)
(* Proofs about the three parts of a page's database that share no state   *)
(* here: mirroring (Mirror), the local database (LocalDb) and the          *)
(* resilient streams (Resilient), for every value of their constants.      *)
(*                                                                         *)
(* Of each, every action preserves one inductive invariant: MirrorInv,     *)
(* DbInv and ResilientInv.  There is a lemma per action, and in it a step  *)
(* for each part of the invariant the action can disturb.                  *)
(***************************************************************************)
EXTENDS Mirror, LocalDb, Resilient,
        FiniteSetTheorems, SequenceTheorems, WellFoundedInduction, TLAPS

(***************************************************************************)
(* Mirror: any tables, any number of calls and failures.                   *)
(***************************************************************************)

\* What a sequence holds once an element is appended.
LEMMA AppendRange ==
  ASSUME NEW S, NEW s \in Seq(S), NEW e \in S
  PROVE  Append(s, e) \in Seq(S) /\ Range(Append(s, e)) = Range(s) \cup {e}
  <1>. DEFINE a == Append(s, e)
  <1>1. a \in Seq(S) /\ Len(a) = Len(s) + 1 /\ a[Len(s) + 1] = e
        /\ \A i \in 1..Len(s) : a[i] = s[i]
    OBVIOUS
  <1>2. Range(a) = {a[i] : i \in 1..Len(a)} /\ Range(s) = {s[i] : i \in 1..Len(s)}
    BY <1>1 DEF Range
  <1>3. 1..Len(a) = 1..Len(s) \cup {Len(s) + 1}
    BY <1>1
  <1>. QED  BY <1>1, <1>2, <1>3

\* How many calls there are and can be.
LEMMA CallBounds ==
  ASSUME MirrorTypeOK
  PROVE  /\ NbrCalls \in Nat /\ made \in Nat /\ Len(calls) \in Nat
         /\ made <= Len(calls) + 1 /\ Len(calls) < NbrCalls
         /\ DOMAIN calls = 1..Len(calls)
  <1>1. calls \in Seq(Seq(STRING)) /\ Len(calls) < NbrCalls
    BY MirrorConstants DEF MirrorTypeOK
  <1>2. Len(calls) \in Nat /\ DOMAIN calls = 1..Len(calls) /\ NbrCalls \in Nat
    BY <1>1, MirrorConstants
  <1>3. made \in 0..(Len(calls) + 1)
    BY DEF MirrorTypeOK
  <1>. QED  BY <1>1, <1>2, <1>3

\* 0 is no call.
LEMMA CallsFromOne == \A c \in 1..NbrCalls : c # 0
  BY MirrorConstants

\* The tables of a call are among those the instance has, and the tables of
\* permissions are among them, which are no views.
LEMMA AskedTables ==
  ASSUME MirrorTypeOK, NEW c \in 1..(Len(calls) + 1)
  PROVE  Asked(c) \subseteq AllTables /\ "groups" \in Asked(c) \ Views
  <1>1. "groups" \in Range(Meta)
    <2>1. Meta[3] = "groups" /\ 3 \in DOMAIN Meta
      BY DEF Meta
    <2>. QED  BY <2>1 DEF Range
  <1>2. "groups" \in Asked(c) \ Views
    BY <1>1, MirrorConstants DEF Asked
  <1>3. Range(Named(c)) \subseteq AllTables
    <2>1. CASE c = 1
      BY <2>1 DEF Named, Range
    <2>2. CASE c # 1
      <3>1. calls \in Plans /\ c - 1 \in DOMAIN calls
        <4>1. Len(calls) \in Nat /\ DOMAIN calls = 1..Len(calls)
          BY CallBounds
        <4>2. c - 1 \in DOMAIN calls
          BY <2>2, <4>1
        <4>. QED  BY <4>2 DEF MirrorTypeOK
      <3>. QED  BY <2>2, <3>1 DEF Named, AllTables
    <2>. QED  BY <2>1, <2>2
  <1>. QED  BY <1>2, <1>3 DEF Asked, AllTables

\* Nothing runs and nothing is asked for before the first call.
LEMMA MirrorInitInv == MirrorInit => MirrorInv
  <1> SUFFICES ASSUME MirrorInit PROVE MirrorInv
    OBVIOUS
  <1>1. MirrorTypeOK
    <2>1. Len(calls) \in Nat /\ <<>> \in Seq(AllTables)
      BY MirrorConstants DEF MirrorInit
    <2>. QED  BY <2>1, MirrorConstants DEF MirrorInit, MirrorTypeOK
  <1>2. NotYetMade /\ EarlierOver /\ LatestServed
    BY MirrorConstants DEF MirrorInit, NotYetMade, EarlierOver, LatestServed
  <1>. QED  BY <1>1, <1>2 DEF MirrorInit, MirrorInv, Held

\* As long as calls do not overlap, only the latest has anything to go on with.
LEMMA OnlyLatest ==
  ASSUME MirrorTypeOK, NotYetMade, EarlierOver, NEW c \in 1..NbrCalls
  PROVE  /\ stage[c] \in {"local tail", "server tail", "tailing"} => c = made
         /\ \A t \in AllTables : setup[c][t] \in {"view", "schema", "legacy"} => c = made
         /\ c = made => c \in 1..(Len(calls) + 1)
  <1>0. Len(calls) \in Nat /\ NbrCalls \in Nat /\ made \in Nat /\ made <= Len(calls) + 1
    BY CallBounds
  <1>1. c > made => stage[c] = "none" /\ \A t \in AllTables : setup[c][t] = "none"
    BY DEF NotYetMade
  <1>2. c < made => Ended(c) /\ Idle(c)
    <2>1. c < made => c \in 1..(made - 1)
      BY <1>0
    <2>. QED  BY <2>1 DEF EarlierOver
  <1>3. c > made \/ c < made \/ c = made
    BY <1>0
  <1>4. stage[c] \in {"local tail", "server tail", "tailing"} => c = made
    BY <1>1, <1>2, <1>3 DEF Ended
  <1>5. \A t \in AllTables : setup[c][t] \in {"view", "schema", "legacy"} => c = made
    BY <1>1, <1>2, <1>3 DEF Idle
  <1>6. c = made => c \in 1..(Len(calls) + 1)
    BY <1>0
  <1>. QED  BY <1>4, <1>5, <1>6

\* mirror itself: what was open or served was of the call before, and is gone, or will
\* come back.
LEMMA CallMirrorInv ==
  ASSUME MirrorInv, CallMirror
  PROVE  MirrorInv'
  <1>. USE DEF CallMirror, CloseStreams, StartSetup
  <1>0. Len(calls) \in Nat /\ NbrCalls \in Nat /\ made \in Nat /\ made + 1 \in 1..NbrCalls
        /\ made + 1 \in 1..(Len(calls) + 1) /\ calls' = calls /\ made' = made + 1
    BY CallBounds DEF MirrorInv
  <1>00. /\ stage \in [1..NbrCalls -> {"none", "setup", "local tail", "server tail", "tailing", "resolved", "rejected"}]
         /\ setup \in [1..NbrCalls -> [AllTables -> {"none", "view", "schema", "legacy", "done", "failed"}]]
    BY DEF MirrorInv, MirrorTypeOK
  <1>s. \A c \in 1..NbrCalls : c # made + 1 => stage'[c] = stage[c] /\ setup'[c] = setup[c]
    BY <1>0, <1>00
  <1>1. MirrorTypeOK'
    <2>1. stage' \in [1..NbrCalls -> {"none", "setup", "local tail", "server tail", "tailing", "resolved", "rejected"}]
      BY <1>0, <1>00
    <2>2. setup' \in [1..NbrCalls -> [AllTables -> {"none", "view", "schema", "legacy", "done", "failed"}]]
      BY <1>0, <1>00
    <2>3. made' \in 0..(Len(calls') + 1)
      BY <1>0
    <2>4. mirroredTables' \in Seq(AllTables)
      OBVIOUS
    <2>5. quiet' \in BOOLEAN
      BY DEF MirrorInv, MirrorTypeOK
    <2>6. calls' \in Plans /\ tailTables' \in [1..NbrCalls -> Seq(AllTables)]
      BY DEF MirrorInv, MirrorTypeOK
    <2>. QED  BY <2>1, <2>2, <2>3, <2>4, <2>5, <2>6 DEF MirrorTypeOK
  <1>2. NotYetMade'
    <2>1. \A c \in 1..NbrCalls : c > made => stage[c] = "none" /\ \A t \in AllTables : setup[c][t] = "none"
      BY DEF MirrorInv, NotYetMade
    <2>. QED  BY <1>0, <1>s, <2>1 DEF NotYetMade
  <1>3. ASSUME quiet'
        PROVE  EarlierOver' /\ LatestServed' /\ (made' > 0 => LatestTables(made)' /\ LatestStage(made)')
    <2>1. quiet /\ \A c \in 1..made : Ended(c) /\ Idle(c)
      BY <1>3
    <2>2. EarlierOver'
      BY <1>0, <1>s, <2>1 DEF EarlierOver, Ended, Idle
    <2>3. mirrorStreams' = {} /\ sessions' = {} /\ localTailSession' = 0
      <3>2. CASE localTailSession = 0
        BY <2>1, <3>2 DEF MirrorInv, LatestServed
      <3>3. CASE localTailSession # 0
        BY <2>1, <3>3 DEF MirrorInv, LatestServed
      <3>. QED  BY <3>2, <3>3
    <2>4. LatestServed'
      <3>1. ASSUME NEW s \in revenants' PROVE s[1] \in 0..(made' - 1)
        <4>1. CASE s \in revenants
          <5>1. s[1] \in 0..(made - 1)
            BY <2>1, <4>1 DEF MirrorInv, LatestServed
          <5>. QED  BY <1>0, <5>1
        <4>2. CASE s \in mirrorStreams
          <5>1. s[1] = made
            BY <2>1, <4>2 DEF MirrorInv, LatestServed, StreamsOf
          <5>. QED  BY <1>0, <5>1
        <4>. QED  BY <3>1, <4>1, <4>2
      <3>. QED  BY <2>3, <3>1 DEF LatestServed, Held
    <2>5. LatestTables(made)'
      <3>1. \A t \in AllTables : setup'[made'][t] = IF t \in Asked(made') THEN "view" ELSE "none"
        BY <1>0, <1>00
      <3>2. Asked(made)' = Asked(made')
        BY <1>0 DEF Asked, Named
      <3>3. Asked(made') \subseteq AllTables
        BY <1>0, AskedTables DEF MirrorInv
      <3>4. Range(mirroredTables') = {}
        BY DEF Range
      <3>. QED  BY <3>1, <3>2, <3>3, <3>4 DEF LatestTables
    <2>6. LatestStage(made)'
      <3>1. stage'[made'] = "setup"
        BY <1>0, <1>00
      <3>. QED  BY <2>3, <3>1 DEF LatestStage
    <2>. QED  BY <2>2, <2>4, <2>5, <2>6
  <1>4. (Held \subseteq mirrorStreams \cup revenants)'
    BY DEF MirrorInv, Held
  <1>. QED  BY <1>1, <1>2, <1>3, <1>4 DEF MirrorInv

\* A step of one call leaves the others as they are; what remains to be shown of it
\* is about the latest call.
LEMMA StepOfCall ==
  ASSUME MirrorInv, MirrorTypeOK', NEW c \in 1..NbrCalls, c <= made,
         calls' = calls, made' = made, quiet' = quiet,
         (Held \subseteq mirrorStreams \cup revenants)',
         \A d \in 1..NbrCalls : d # c => stage'[d] = stage[d] /\ setup'[d] = setup[d],
         EarlierOver /\ LatestServed /\ LatestTables(made) /\ LatestStage(made) =>
           c = made /\ LatestServed' /\ LatestTables(made)' /\ LatestStage(made)'
  PROVE  MirrorInv'
  <1>0. made \in Nat /\ NbrCalls \in Nat /\ made <= NbrCalls
    <2>1. NbrCalls \in Nat /\ made \in Nat /\ Len(calls) \in Nat
          /\ made <= Len(calls) + 1 /\ Len(calls) < NbrCalls
      BY CallBounds DEF MirrorInv
    <2>. QED  BY <2>1
  <1>1. NotYetMade'
    <2>1. \A d \in 1..NbrCalls : d > made => stage[d] = "none" /\ \A t \in AllTables : setup[d][t] = "none"
      BY DEF MirrorInv, NotYetMade
    <2>2. \A d \in 1..NbrCalls : d > made => d # c
      BY <1>0
    <2>. QED  BY <2>1, <2>2 DEF NotYetMade
  <1>2. EarlierOver /\ c = made => EarlierOver'
    <2>1. \A d \in 1..(made - 1) : d \in 1..NbrCalls /\ (c = made => d # c)
      BY <1>0
    <2>. QED  BY <2>1 DEF EarlierOver, Ended, Idle
  <1>3. made > 0
    BY <1>0
  <1>. QED  BY <1>1, <1>2, <1>3 DEF MirrorInv

\* A call that is anywhere has been made.
LEMMA HasBeenMade ==
  ASSUME MirrorInv, NEW c \in 1..NbrCalls
  PROVE  /\ stage[c] # "none" => c <= made
         /\ \A t \in AllTables : setup[c][t] # "none" => c <= made
  <1>1. c > made => stage[c] = "none" /\ \A t \in AllTables : setup[c][t] = "none"
    BY DEF MirrorInv, NotYetMade
  <1>2. c > made \/ c <= made
    <2>1. made \in Nat /\ NbrCalls \in Nat
      BY CallBounds DEF MirrorInv
    <2>. QED  BY <2>1
  <1>. QED  BY <1>1, <1>2

\* An answer after which a table is asked for once more.
LEMMA SetupGoesOnInv ==
  ASSUME MirrorInv, NEW c \in 1..NbrCalls, NEW t \in AllTables, NEW next \in {"schema", "legacy"},
         setup[c][t] \in {"view", "schema"}, setup' = [setup EXCEPT ![c][t] = next],
         UNCHANGED <<calls, made, stage, tailTables, quiet, fieldVars, sessions, streamVars>>
  PROVE  MirrorInv'
  <1>. USE DEF fieldVars, streamVars
  <1>0. setup \in [1..NbrCalls -> [AllTables -> {"none", "view", "schema", "legacy", "done", "failed"}]]
    BY DEF MirrorInv, MirrorTypeOK
  <1>1. MirrorTypeOK'
    <2>1. setup' \in [1..NbrCalls -> [AllTables -> {"none", "view", "schema", "legacy", "done", "failed"}]]
      BY <1>0
    <2>. QED  BY <2>1 DEF MirrorInv, MirrorTypeOK
  <1>2. /\ \A d \in 1..NbrCalls : d # c => setup'[d] = setup[d]
        /\ \A u \in AllTables : setup'[c][u] = IF u = t THEN next ELSE setup[c][u]
    BY <1>0
  <1>3. ASSUME EarlierOver, LatestServed, LatestTables(made), LatestStage(made)
        PROVE  c = made /\ LatestServed' /\ LatestTables(made)' /\ LatestStage(made)'
    <2>1. c = made /\ c \in 1..(Len(calls) + 1)
      BY <1>3, OnlyLatest DEF MirrorInv
    <2>2. Asked(c) \subseteq AllTables /\ Asked(c)' = Asked(c)
      BY <2>1, AskedTables DEF MirrorInv, Asked, Named
    <2>3. LatestServed'
      BY <1>3 DEF LatestServed, Held
    <2>4. LatestTables(c)'
      BY <1>2, <1>3, <2>1, <2>2 DEF LatestTables
    <2>5. t \in Asked(c)
      BY <1>3, <2>1 DEF LatestTables
    <2>6. stage[c] \notin {"local tail", "server tail", "tailing", "resolved"}
      BY <1>3, <2>1, <2>5 DEF LatestStage
    <2>7. LatestStage(c)'
      BY <1>3, <2>1, <2>6 DEF LatestStage
    <2>. QED  BY <2>1, <2>3, <2>4, <2>7
  <1>4. c <= made
    BY HasBeenMade
  <1>5. (Held \subseteq mirrorStreams \cup revenants)'
    BY DEF MirrorInv, Held
  <1>. QED  BY <1>1, <1>2, <1>3, <1>4, <1>5, StepOfCall

\* An answer for a table, or its absence, that rejects the call.
LEMMA SetupFailsInv ==
  ASSUME MirrorInv, NEW c \in 1..NbrCalls, NEW t \in AllTables,
         setup[c][t] \in {"view", "schema", "legacy"},
         setup' = [setup EXCEPT ![c][t] = "failed"], stage' = Rejected(c),
         UNCHANGED <<calls, made, tailTables, quiet, fieldVars, sessions, streamVars>>
  PROVE  MirrorInv'
  <1>. USE DEF fieldVars, streamVars, Rejected
  <1>0. /\ setup \in [1..NbrCalls -> [AllTables -> {"none", "view", "schema", "legacy", "done", "failed"}]]
        /\ stage \in [1..NbrCalls -> {"none", "setup", "local tail", "server tail", "tailing", "resolved", "rejected"}]
    BY DEF MirrorInv, MirrorTypeOK
  <1>1. MirrorTypeOK'
    <2>1. setup' \in [1..NbrCalls -> [AllTables -> {"none", "view", "schema", "legacy", "done", "failed"}]]
      BY <1>0
    <2>2. stage' \in [1..NbrCalls -> {"none", "setup", "local tail", "server tail", "tailing", "resolved", "rejected"}]
      BY <1>0
    <2>. QED  BY <2>1, <2>2 DEF MirrorInv, MirrorTypeOK
  <1>2. /\ \A d \in 1..NbrCalls : d # c => setup'[d] = setup[d] /\ stage'[d] = stage[d]
        /\ \A u \in AllTables : setup'[c][u] = IF u = t THEN "failed" ELSE setup[c][u]
        /\ stage'[c] \in {"resolved", "rejected"} /\ (stage'[c] = "resolved" => stage[c] = "resolved")
    BY <1>0
  <1>3. ASSUME EarlierOver, LatestServed, LatestTables(made), LatestStage(made)
        PROVE  c = made /\ LatestServed' /\ LatestTables(made)' /\ LatestStage(made)'
    <2>1. c = made /\ c \in 1..(Len(calls) + 1)
      BY <1>3, OnlyLatest DEF MirrorInv
    <2>2. Asked(c) \subseteq AllTables /\ Asked(c)' = Asked(c)
      BY <2>1, AskedTables DEF MirrorInv, Asked, Named
    <2>3. LatestServed'
      BY <1>3 DEF LatestServed, Held
    <2>4. LatestTables(c)'
      BY <1>2, <1>3, <2>1, <2>2 DEF LatestTables
    <2>5. t \in Asked(c)
      BY <1>3, <2>1 DEF LatestTables
    <2>6. stage'[c] = "rejected"
      BY <1>2, <1>3, <2>1, <2>5 DEF LatestStage
    <2>7. LatestStage(c)'
      BY <2>6 DEF LatestStage
    <2>. QED  BY <2>1, <2>3, <2>4, <2>7
  <1>4. c <= made
    BY HasBeenMade
  <1>5. (Held \subseteq mirrorStreams \cup revenants)'
    BY DEF MirrorInv, Held
  <1>. QED  BY <1>1, <1>2, <1>3, <1>4, <1>5, StepOfCall

\* The last answer for a table: it is mirrored unless it is a view, and the local
\* tail is of all that are.
LEMMA TableReadyInv ==
  ASSUME MirrorInv, NEW c \in 1..NbrCalls, NEW t \in AllTables,
         setup[c][t] \in {"schema", "legacy"}, TableReady(c, t),
         UNCHANGED <<calls, made, quiet, localTailSession, mirrorStreams, sessions, streamVars>>
  PROVE  MirrorInv'
  <1>. USE DEF streamVars
  <1>. DEFINE names == IF t \in Views \/ t \in Range(mirroredTables) THEN mirroredTables
                       ELSE Append(mirroredTables, t)
              lastOne == stage[c] = "setup" /\ \A u \in Asked(c) \ {t} : setup[c][u] = "done"
  <1>r. /\ setup' = [setup EXCEPT ![c][t] = "done"] /\ mirroredTables' = names
        /\ stage' = IF ~lastOne THEN stage
                    ELSE [stage EXCEPT ![c] = IF names = <<>> THEN "server tail" ELSE "local tail"]
        /\ tailTables' = IF lastOne THEN [tailTables EXCEPT ![c] = names] ELSE tailTables
    BY DEF TableReady
  <1>t. /\ setup \in [1..NbrCalls -> [AllTables -> {"none", "view", "schema", "legacy", "done", "failed"}]]
        /\ stage \in [1..NbrCalls -> {"none", "setup", "local tail", "server tail", "tailing", "resolved", "rejected"}]
        /\ tailTables \in [1..NbrCalls -> Seq(AllTables)] /\ mirroredTables \in Seq(AllTables)
    BY DEF MirrorInv, MirrorTypeOK
  <1>n. /\ names \in Seq(AllTables) /\ Range(names) = Range(mirroredTables) \cup ({t} \ Views)
    <2>1. Append(mirroredTables, t) \in Seq(AllTables)
          /\ Range(Append(mirroredTables, t)) = Range(mirroredTables) \cup {t}
      <3>1. mirroredTables \in Seq(AllTables) /\ t \in AllTables
        BY <1>t
      <3>. QED  BY <3>1, AppendRange
    <2>. QED  BY <1>t, <2>1
  <1>. HIDE DEF names, lastOne
  <1>1. MirrorTypeOK'
    <2>1. setup' \in [1..NbrCalls -> [AllTables -> {"none", "view", "schema", "legacy", "done", "failed"}]]
      BY <1>r, <1>t
    <2>2. stage' \in [1..NbrCalls -> {"none", "setup", "local tail", "server tail", "tailing", "resolved", "rejected"}]
      BY <1>r, <1>t
    <2>3. tailTables' \in [1..NbrCalls -> Seq(AllTables)] /\ mirroredTables' \in Seq(AllTables)
      BY <1>r, <1>t, <1>n
    <2>. QED  BY <2>1, <2>2, <2>3 DEF MirrorInv, MirrorTypeOK
  <1>2. /\ \A d \in 1..NbrCalls : d # c => setup'[d] = setup[d] /\ stage'[d] = stage[d]
        /\ \A u \in AllTables : setup'[c][u] = IF u = t THEN "done" ELSE setup[c][u]
        /\ ~lastOne => stage'[c] = stage[c] /\ tailTables' = tailTables
        /\ lastOne => stage'[c] = (IF names = <<>> THEN "server tail" ELSE "local tail") /\ tailTables'[c] = names
    BY <1>r, <1>t
  <1>3. ASSUME EarlierOver, LatestServed, LatestTables(made), LatestStage(made)
        PROVE  c = made /\ LatestServed' /\ LatestTables(made)' /\ LatestStage(made)'
    <2>1. c = made /\ c \in 1..(Len(calls) + 1)
      BY <1>3, OnlyLatest DEF MirrorInv
    <2>2. Asked(c) \subseteq AllTables /\ Asked(c)' = Asked(c) /\ "groups" \in Asked(c) \ Views
      BY <2>1, AskedTables DEF MirrorInv, Asked, Named
    <2>3. t \in Asked(c)
      BY <1>3, <2>1 DEF LatestTables
    <2>4. stage[c] \in {"none", "setup", "rejected"}
      BY <1>t, <1>3, <2>1, <2>3 DEF LatestStage
    <2>5. lastOne => localTailSession = 0 /\ mirrorStreams = {}
      BY <1>3, <2>1 DEF LatestStage, lastOne
    <2>6. LatestServed'
      <3>1. localTailSession = 0 \/ tailTables'[made] = tailTables[made]
        BY <1>2, <2>5
      <3>. QED  BY <1>3, <3>1 DEF LatestServed, Held
    <2>7. Range(mirroredTables') = {u \in Asked(c) : setup'[c][u] = "done"} \ Views
      <3>1. Range(mirroredTables) = {u \in Asked(c) : setup[c][u] = "done"} \ Views
        BY <1>3, <2>1 DEF LatestTables
      <3>2. \A u \in Asked(c) : setup'[c][u] = "done" <=> u = t \/ setup[c][u] = "done"
        BY <1>2, <2>2
      <3>. QED  BY <1>r, <1>n, <2>3, <3>1, <3>2
    <2>8. LatestTables(c)'
      BY <1>2, <1>3, <2>1, <2>2, <2>3, <2>7 DEF LatestTables
    <2>9. CASE ~lastOne
      <3>1. LatestStage(c)'
        BY <1>2, <1>3, <2>1, <2>4, <2>9 DEF LatestStage
      <3>. QED  BY <2>1, <2>6, <2>8, <3>1
    <2>10. CASE lastOne
      <3>1. \A u \in Asked(c) : setup'[c][u] = "done"
        <4>1. \A u \in Asked(c) \ {t} : setup[c][u] = "done"
          BY <2>10 DEF lastOne
        <4>. QED  BY <1>2, <2>2, <4>1
      <3>2. names # <<>>
        <4>1. "groups" \in Range(names)
          BY <1>r, <2>2, <2>7, <3>1
        <4>. QED  BY <4>1 DEF Range
      <3>3. stage'[c] = "local tail" /\ tailTables'[c] = mirroredTables'
        BY <1>2, <1>r, <2>10, <3>2
      <3>4. LatestStage(c)'
        BY <2>2, <2>5, <2>10, <3>1, <3>3 DEF LatestStage
      <3>. QED  BY <2>1, <2>6, <2>8, <3>4
    <2>. QED  BY <2>9, <2>10
  <1>4. c <= made
    BY HasBeenMade
  <1>5. (Held \subseteq mirrorStreams \cup revenants)'
    BY DEF MirrorInv, Held
  <1>. QED  BY <1>1, <1>2, <1>3, <1>4, <1>5, StepOfCall

\* An opening that fails rejects the call.
LEMMA OpenFailsInv ==
  ASSUME MirrorInv, NEW c \in 1..NbrCalls, OpenFails(c)
  PROVE  MirrorInv'
  <1>. USE DEF OpenFails, fieldVars, servedVars, streamVars, Rejected
  <1>0. stage \in [1..NbrCalls -> {"none", "setup", "local tail", "server tail", "tailing", "resolved", "rejected"}]
    BY DEF MirrorInv, MirrorTypeOK
  <1>1. MirrorTypeOK'
    <2>1. stage' \in [1..NbrCalls -> {"none", "setup", "local tail", "server tail", "tailing", "resolved", "rejected"}]
      BY <1>0
    <2>. QED  BY <2>1 DEF MirrorInv, MirrorTypeOK
  <1>2. (\A d \in 1..NbrCalls : d # c => stage'[d] = stage[d]) /\ stage'[c] = "rejected"
    BY <1>0
  <1>3. ASSUME EarlierOver, LatestServed, LatestTables(made), LatestStage(made)
        PROVE  c = made /\ LatestServed' /\ LatestTables(made)' /\ LatestStage(made)'
    <2>1. c = made
      BY <1>3, OnlyLatest DEF MirrorInv
    <2>2. LatestServed' /\ LatestTables(c)'
      BY <1>3, <2>1 DEF LatestServed, Held, LatestTables, Asked, Named
    <2>3. LatestStage(c)'
      BY <1>2 DEF LatestStage
    <2>. QED  BY <2>1, <2>2, <2>3
  <1>4. c <= made
    BY HasBeenMade
  <1>5. (Held \subseteq mirrorStreams \cup revenants)'
    BY DEF MirrorInv, Held
  <1>. QED  BY <1>1, <1>2, <1>3, <1>4, <1>5, StepOfCall

\* The local database serves the session of the latest call and no other.
LEMMA LocalTailOpensInv ==
  ASSUME MirrorInv, NEW c \in 1..NbrCalls, LocalTailOpens(c)
  PROVE  MirrorInv'
  <1>. USE DEF LocalTailOpens
  <1>0. stage \in [1..NbrCalls -> {"none", "setup", "local tail", "server tail", "tailing", "resolved", "rejected"}]
    BY DEF MirrorInv, MirrorTypeOK
  <1>1. MirrorTypeOK'
    <2>1. stage' \in [1..NbrCalls -> {"none", "setup", "local tail", "server tail", "tailing", "resolved", "rejected"}]
      BY <1>0
    <2>. QED  BY <2>1 DEF MirrorInv, MirrorTypeOK
  <1>2. (\A d \in 1..NbrCalls : d # c => stage'[d] = stage[d]) /\ stage'[c] = "server tail"
    BY <1>0
  <1>3. ASSUME EarlierOver, LatestServed, LatestTables(made), LatestStage(made)
        PROVE  c = made /\ LatestServed' /\ LatestTables(made)' /\ LatestStage(made)'
    <2>1. c = made
      BY <1>3, OnlyLatest DEF MirrorInv
    <2>2. localTailSession = 0 /\ sessions = {} /\ mirrorStreams = {}
      BY <1>3, <2>1 DEF LatestServed, LatestStage
    <2>3. LatestServed'
      <3>1. c # 0
        BY CallsFromOne
      <3>. QED  BY <1>3, <2>1, <2>2, <3>1 DEF LatestServed, Held, StreamsOf
    <2>4. LatestTables(c)'
      BY <1>3, <2>1 DEF LatestTables, Asked, Named
    <2>5. LatestStage(c)'
      <3>1. tailTables[c] = mirroredTables /\ \A t \in Asked(c) : setup[c][t] = "done"
        BY <1>3, <2>1 DEF LatestStage
      <3>2. Asked(c)' = Asked(c)
        BY DEF Asked, Named
      <3>. QED  BY <1>2, <2>2, <3>1, <3>2 DEF LatestStage
    <2>. QED  BY <2>1, <2>3, <2>4, <2>5
  <1>4. c <= made
    BY HasBeenMade
  <1>5. (Held \subseteq mirrorStreams \cup revenants)'
    BY DEF MirrorInv, Held
  <1>. QED  BY <1>1, <1>2, <1>3, <1>4, <1>5, StepOfCall

\* The second stream of the latest call.
LEMMA ServerTailOpensInv ==
  ASSUME MirrorInv, NEW c \in 1..NbrCalls, ServerTailOpens(c)
  PROVE  MirrorInv'
  <1>. USE DEF ServerTailOpens
  <1>0. stage \in [1..NbrCalls -> {"none", "setup", "local tail", "server tail", "tailing", "resolved", "rejected"}]
    BY DEF MirrorInv, MirrorTypeOK
  <1>1. MirrorTypeOK'
    <2>1. stage' \in [1..NbrCalls -> {"none", "setup", "local tail", "server tail", "tailing", "resolved", "rejected"}]
      BY <1>0
    <2>. QED  BY <2>1 DEF MirrorInv, MirrorTypeOK
  <1>2. (\A d \in 1..NbrCalls : d # c => stage'[d] = stage[d]) /\ stage'[c] = "tailing"
    BY <1>0
  <1>3. ASSUME EarlierOver, LatestServed, LatestTables(made), LatestStage(made)
        PROVE  c = made /\ LatestServed' /\ LatestTables(made)' /\ LatestStage(made)'
    <2>1. c = made
      BY <1>3, OnlyLatest DEF MirrorInv
    <2>2. LatestServed' /\ LatestTables(c)'
      BY <1>3, <2>1 DEF LatestServed, Held, StreamsOf, LatestTables, Asked, Named
    <2>3. LatestStage(c)'
      <3>1. /\ tailTables[c] = mirroredTables /\ \A t \in Asked(c) : setup[c][t] = "done"
            /\ localTailSession = c /\ mirrorStreams = {<<c, "up">>}
        BY <1>3, <2>1 DEF LatestStage
      <3>2. Asked(c)' = Asked(c)
        BY DEF Asked, Named
      <3>3. mirrorStreams' = StreamsOf(c)
        BY <3>1 DEF StreamsOf
      <3>. QED  BY <1>2, <3>1, <3>2, <3>3 DEF LatestStage, StreamsOf
    <2>. QED  BY <2>1, <2>2, <2>3
  <1>4. c <= made
    BY HasBeenMade
  <1>5. (Held \subseteq mirrorStreams \cup revenants)'
    BY DEF MirrorInv, Held
  <1>. QED  BY <1>1, <1>2, <1>3, <1>4, <1>5, StepOfCall

\* The promise of mirror resolves.
LEMMA ResolvesInv ==
  ASSUME MirrorInv, NEW c \in 1..NbrCalls, Resolves(c)
  PROVE  MirrorInv'
  <1>. USE DEF Resolves, fieldVars, servedVars, streamVars
  <1>0. stage \in [1..NbrCalls -> {"none", "setup", "local tail", "server tail", "tailing", "resolved", "rejected"}]
    BY DEF MirrorInv, MirrorTypeOK
  <1>1. MirrorTypeOK'
    <2>1. stage' \in [1..NbrCalls -> {"none", "setup", "local tail", "server tail", "tailing", "resolved", "rejected"}]
      BY <1>0
    <2>. QED  BY <2>1 DEF MirrorInv, MirrorTypeOK
  <1>2. (\A d \in 1..NbrCalls : d # c => stage'[d] = stage[d]) /\ stage'[c] = "resolved"
    BY <1>0
  <1>3. ASSUME EarlierOver, LatestServed, LatestTables(made), LatestStage(made)
        PROVE  c = made /\ LatestServed' /\ LatestTables(made)' /\ LatestStage(made)'
    <2>1. c = made
      BY <1>3, OnlyLatest DEF MirrorInv
    <2>2. LatestServed' /\ LatestTables(c)'
      BY <1>3, <2>1 DEF LatestServed, Held, LatestTables, Asked, Named
    <2>3. LatestStage(c)'
      <3>1. /\ tailTables[c] = mirroredTables /\ \A t \in Asked(c) : setup[c][t] = "done"
            /\ localTailSession = c /\ mirrorStreams = StreamsOf(c)
        BY <1>3, <2>1 DEF LatestStage, StreamsOf
      <3>2. Asked(c)' = Asked(c)
        BY DEF Asked, Named
      <3>. QED  BY <1>2, <3>1, <3>2 DEF LatestStage, StreamsOf
    <2>. QED  BY <2>1, <2>2, <2>3
  <1>4. c <= made
    BY HasBeenMade
  <1>5. (Held \subseteq mirrorStreams \cup revenants)'
    BY DEF MirrorInv, Held
  <1>. QED  BY <1>1, <1>2, <1>3, <1>4, <1>5, StepOfCall

\* A stream that fails or comes back stays one of the streams the client holds.
LEMMA MirrorStays ==
  ASSUME MirrorInv, Held' = Held,
         UNCHANGED <<calls, made, quiet, stage, setup, tailTables, mirroredTables, localTailSession, mirrorStreams,
                     sessions, revenants>>
  PROVE  MirrorInv'
  <1>1. MirrorTypeOK' /\ NotYetMade'
    BY DEF MirrorInv, MirrorTypeOK, NotYetMade
  <1>2. quiet => EarlierOver' /\ LatestServed'
    BY DEF MirrorInv, EarlierOver, Ended, Idle, LatestServed, StreamsOf
  <1>3. quiet /\ made > 0 => LatestTables(made)' /\ LatestStage(made)'
    BY DEF MirrorInv, LatestTables, LatestStage, Asked, Named, StreamsOf
  <1>. QED  BY <1>1, <1>2, <1>3 DEF MirrorInv

\* Every step of SKDBServer.mirror keeps MirrorInv.
LEMMA MirrorNextInv ==
  ASSUME MirrorInv, [MirrorNext]_mirrorVars
  PROVE  MirrorInv'
  <1>1. CASE CallMirror
    BY <1>1, CallMirrorInv
  <1>2. ASSUME NEW c \in 1..NbrCalls, NEW t \in AllTables, SetupHearsView(c, t)
        PROVE  MirrorInv'
    BY <1>2, SetupGoesOnInv DEF SetupHearsView, servedVars
  <1>3. ASSUME NEW c \in 1..NbrCalls, NEW t \in AllTables, SetupHearsSchema(c, t)
        PROVE  MirrorInv'
    <2>. USE DEF SetupHearsSchema
    <2>0. /\ setup[c][t] = "schema"
          /\ UNCHANGED <<calls, made, quiet, localTailSession, mirrorStreams, sessions, streamVars>>
      BY <1>3
    <2>1. CASE setup' = [setup EXCEPT ![c][t] = "failed"] /\ stage' = Rejected(c)
               /\ UNCHANGED <<mirroredTables, tailTables>>
      BY <2>0, <2>1, SetupFailsInv DEF fieldVars
    <2>2. CASE setup' = [setup EXCEPT ![c][t] = "legacy"] /\ UNCHANGED <<stage, mirroredTables, tailTables>>
      BY <2>0, <2>2, SetupGoesOnInv DEF fieldVars
    <2>3. CASE TableReady(c, t)
      BY <2>0, <2>3, TableReadyInv
    <2>. QED  BY <1>3, <2>1, <2>2, <2>3
  <1>4. ASSUME NEW c \in 1..NbrCalls, NEW t \in AllTables, SetupHearsLegacy(c, t)
        PROVE  MirrorInv'
    <2>1. /\ setup[c][t] = "legacy" /\ TableReady(c, t)
          /\ UNCHANGED <<calls, made, quiet, localTailSession, mirrorStreams, sessions, streamVars>>
      BY <1>4 DEF SetupHearsLegacy, servedVars
    <2>. QED  BY <2>1, TableReadyInv
  <1>5. ASSUME NEW c \in 1..NbrCalls, NEW t \in AllTables, RequestFails(c, t)
        PROVE  MirrorInv'
    BY <1>5, SetupFailsInv DEF RequestFails, servedVars
  <1>6. ASSUME NEW c \in 1..NbrCalls, LocalTailOpens(c) \/ ServerTailOpens(c) \/ OpenFails(c) \/ Resolves(c)
        PROVE  MirrorInv'
    BY <1>6, LocalTailOpensInv, ServerTailOpensInv, OpenFailsInv, ResolvesInv
  <1>7. ASSUME NEW s \in AllStreams, MirrorStreamFails(s) \/ MirrorStreamReturns(s)
        PROVE  MirrorInv'
    <2>1. /\ UNCHANGED <<calls, made, quiet, stage, setup, tailTables, mirroredTables, localTailSession, mirrorStreams,
                         sessions, revenants>>
          /\ Held' = Held
      BY <1>7 DEF MirrorStreamFails, MirrorStreamReturns, progressVars, fieldVars, Held
    <2>. QED  BY <2>1, MirrorStays
  <1>8. CASE UNCHANGED mirrorVars
    <2>1. /\ UNCHANGED <<calls, made, quiet, stage, setup, tailTables, mirroredTables, localTailSession, mirrorStreams,
                         sessions, revenants>>
          /\ Held' = Held
      BY <1>8 DEF mirrorVars, progressVars, fieldVars, servedVars, streamVars, Held
    <2>. QED  BY <2>1, MirrorStays
  <1>. QED  BY <1>1, <1>2, <1>3, <1>4, <1>5, <1>6, <1>7, <1>8 DEF MirrorNext, Progress

\* What MirrorInv says of a call that is through.
LEMMA InvGivesReplace == MirrorInv => ReplaceSemantics
  <1> SUFFICES ASSUME MirrorInv, quiet, made > 0, stage[made] = "resolved"
               PROVE  /\ Held \ revenants = StreamsOf(made)
                      /\ \E tables \in {s.tables : s \in sessions} :
                           /\ sessions = {[call |-> made, tables |-> tables]}
                           /\ Range(tables) = Asked(made) \ Views
                           /\ tablesAwaitingSync = Range(tables)
    BY DEF ReplaceSemantics, MirrorInv
  <1>1. LatestServed /\ LatestTables(made) /\ LatestStage(made) /\ made # 0
    BY DEF MirrorInv
  <1>. DEFINE tables == tailTables[made]
  <1>2. /\ tables = mirroredTables /\ localTailSession = made
        /\ mirrorStreams = StreamsOf(made)
        /\ \A t \in Asked(made) : setup[made][t] = "done"
    BY <1>1 DEF LatestStage
  <1>3. sessions = {[call |-> made, tables |-> tables]}
    BY <1>1, <1>2 DEF LatestServed
  <1>4. Range(tables) = Asked(made) \ Views
    BY <1>1, <1>2 DEF LatestTables
  <1>5. tablesAwaitingSync = Range(tables)
    BY <1>1, <1>2 DEF tablesAwaitingSync
  <1>6. tables \in {s.tables : s \in sessions}
    BY <1>3
  <1>7. StreamsOf(made) \cap revenants = {}
    <2>1. made \in Nat
      BY CallBounds DEF MirrorInv
    <2>2. \A s \in revenants : s[1] # made
      BY <1>1, <2>1 DEF LatestServed
    <2>3. \A s \in StreamsOf(made) : s[1] = made
      BY DEF StreamsOf
    <2>. QED  BY <2>2, <2>3
  <1>8. Held \ revenants = StreamsOf(made)
    <2>1. Held \subseteq mirrorStreams \cup revenants /\ mirrorStreams \subseteq Held
      BY <1>1 DEF MirrorInv, LatestServed
    <2>. QED  BY <1>2, <1>7, <2>1
  <1>. QED  BY <1>3, <1>4, <1>5, <1>6, <1>8

\* However calls of mirror overlap and streams fail, every stream the client holds is
\* closed by the next call or was being replaced when one closed it.  Once a call is
\* through that no other overlapped, the database serves one session, for that call's
\* tables that can be written, over its two streams, and tablesAwaitingSync is about
\* those tables (SKDBServer.mirror): for any tables and any number of calls.
THEOREM MirrorReplaces == MirrorSpec => []ReplaceSemantics
  <1>. QED  BY MirrorInitInv, MirrorNextInv, InvGivesReplace, PTL DEF MirrorSpec

\* Every call of mirror is in a stage of SKDBServer.mirror, each table it may name in a
\* stage of its setup, and the tables of its tail are tables the calls name.
THEOREM MirrorTypesRight == MirrorSpec => []MirrorTypeOK
  <1>1. MirrorInv => MirrorTypeOK BY DEF MirrorInv
  <1>. QED  BY <1>1, MirrorInitInv, MirrorNextInv, PTL DEF MirrorSpec
-----------------------------------------------------------------------------
(***************************************************************************)
(* LocalDb: any rows, any number of operations, watches and subscriptions, *)
(* callbacks nested to any depth.                                          *)
(***************************************************************************)

\* Induction over the natural numbers, for a set.
LEMMA LeastNatural ==
  ASSUME NEW T \in SUBSET Nat, T # {}
  PROVE  \E x \in T : \A y \in T : ~(y < x)
  <1> DEFINE R == {ss \in Nat \X Nat : ss[1] < ss[2]}
  <1>1. IsWellFoundedOn(R, Nat)
    BY NatLessThanWellFounded DEF OpToRel
  <1>2. \E x \in T : \A y \in T : ~ (<<y, x>> \in R)
    <2> HIDE DEF R
    <2> QED BY <1>1, WFMin
  <1> QED BY <1>2

LEMMA InductionOverSet ==
  ASSUME NEW S, 0 \in S, \A n \in Nat : n \in S => n + 1 \in S
  PROVE  Nat \subseteq S
  <1> SUFFICES ASSUME NEW k \in Nat, k \notin S PROVE FALSE
    OBVIOUS
  <1> DEFINE T == {n \in Nat : n \notin S}
  <1>1. PICK x \in T : \A y \in T : ~(y < x)
    <2>1. T \in SUBSET Nat /\ T # {} OBVIOUS
    <2> HIDE DEF T
    <2> QED BY <2>1, LeastNatural
  <1>2. x # 0 /\ x - 1 \in Nat /\ x - 1 < x BY <1>1
  <1>3. x - 1 \in S BY <1>1, <1>2
  <1> QED BY <1>1, <1>2, <1>3

\* SetToSeq lists a finite set.
LEMMA SetToSeqLists ==
  ASSUME NEW S, IsFiniteSet(S)
  PROVE  SetToSeq(S) \in Seq(S) /\ Range(SetToSeq(S)) = S
  <1>1. PICK c \in Nat : c = Cardinality(S) /\ ExistsBijection(1..c, S) BY FS_CardinalityType
  <1>2. \E g \in [1..c -> S] : IsInjective(g)
    BY <1>1 DEF ExistsBijection, Bijection, Injection
  <1>. DEFINE p == SetToSeq(S)
  <1>3. p = CHOOSE g \in [1..c -> S] : IsInjective(g) BY <1>1 DEF SetToSeq
  <1>4. p \in [1..c -> S] /\ IsInjective(p) BY <1>2, <1>3
  <1>. HIDE DEF p
  <1>5. p \in Injection(1..c, S) BY <1>4 DEF Injection, IsInjective
  <1>6. Cardinality(1..c) = c
    <2>1. 1 \in Int /\ c \in Int OBVIOUS
    <2>2. Cardinality(1..c) = IF 1 > c THEN 0 ELSE c - 1 + 1 BY <2>1, FS_Interval
    <2>. QED  BY <2>2
  <1>7. p \in Surjection(1..c, S) BY <1>1, <1>5, <1>6, FS_Injection
  <1>8. \A e \in S : \E i \in 1..c : p[i] = e BY <1>7 DEF Surjection
  <1>9. p \in Seq(S) /\ DOMAIN p = 1..c BY <1>4
  <1>10. Range(p) = S BY <1>4, <1>8, <1>9 DEF Range
  <1>. QED  BY <1>9, <1>10 DEF p

\* A sequence is its front and its last element.
LEMMA FrontAndLast ==
  ASSUME NEW S, NEW s \in Seq(S), s # <<>>
  PROVE  /\ Front(s) \in Seq(S) /\ Last(s) \in S /\ s = Append(Front(s), Last(s))
         /\ Len(s) \in Nat \ {0} /\ Len(Front(s)) = Len(s) - 1
         /\ \A i \in 1..(Len(s) - 1) : Front(s)[i] = s[i]
  <1>1. PICK k \in Nat : k = Len(s) /\ k # 0
    OBVIOUS
  <1>2. \A i \in 1..(k - 1) : s[i] \in S
    BY <1>1
  <1>3. PICK p : p = SubSeq(s, 1, k - 1)
    OBVIOUS
  <1>4. 1 \in Int /\ k - 1 \in Int /\ (k - 1) - 1 + 1 = k - 1 /\ \A i \in Int : 1 + i - 1 = i
    OBVIOUS
  <1>5. /\ p \in Seq(S) /\ Len(p) = IF 1 <= k - 1 THEN (k - 1) - 1 + 1 ELSE 0
        /\ \A i \in 1..(k - 1) - 1 + 1 : p[i] = s[1 + i - 1]
    BY <1>2, <1>3, <1>4, SubSeqProperties
  <1>6. Len(p) = k - 1
    BY <1>1, <1>5
  <1>7. \A i \in 1..(k - 1) : p[i] = s[i]
    BY <1>4, <1>5
  <1>8. Append(p, s[k]) = s /\ s[k] \in S
    BY <1>1, <1>5, <1>6, <1>7
  <1>. QED  BY <1>1, <1>3, <1>5, <1>6, <1>7, <1>8 DEF Front, Last
-----------------------------------------------------------------------------
(* Subscriptions. *)

Texts == Seq([row : Rows \cup {Selected}, in : BOOLEAN])

\* The flags the engine opens a file with let it write (toFlags, fromFlags).
LEMMA UpdateWrites == "write" \in Files!UpdateOptions
  <1>1. 0 \in Files!toFlags({"write", "append", "create"})
    BY DEF Files!toFlags, Files!O_WRONLY
  <1>. QED  BY <1>1 DEF Files!UpdateOptions, Files!OpenFlags, Files!fromFlags, Files!O_WRONLY

LEMMA FilesUpdate ==
  ASSUME NEW D, NEW H, NEW n, NEW y
  PROVE  [[fileDescrs |-> D, files |-> H] EXCEPT !.files[n] = y] = [fileDescrs |-> D, files |-> [H EXCEPT ![n] = y]]
  OBVIOUS
LEMMA SeqUpdate ==
  ASSUME NEW S, NEW F \in Seq(S), NEW n \in 1..Len(F), NEW x, NEW y
  PROVE  [[F EXCEPT ![n] = x] EXCEPT ![n] = y] = [F EXCEPT ![n] = y] /\ [F EXCEPT ![n] = x][n] = x
  <1>. DEFINE G == [F EXCEPT ![n] = x]
  <1>1. G = [i \in DOMAIN F |-> IF i = n THEN x ELSE F[i]] /\ n \in DOMAIN F
    OBVIOUS
  <1>2. [F EXCEPT ![n] = y] = [i \in DOMAIN F |-> IF i = n THEN y ELSE F[i]]
    OBVIOUS
  <1>. HIDE DEF G
  <1>3. [G EXCEPT ![n] = y] = [i \in DOMAIN G |-> IF i = n THEN y ELSE G[i]]
    BY <1>1
  <1>4. [G EXCEPT ![n] = y] = [F EXCEPT ![n] = y] /\ G[n] = x
    BY <1>1, <1>2, <1>3
  <1>. QED  BY <1>4 DEF G
LEMMA FileReplaced ==
  ASSUME NEW S, NEW F \in Seq(S), NEW D, NEW n \in 1..Len(F), NEW x, NEW y
  PROVE  LET g == [fileDescrs |-> D, files |-> [F EXCEPT ![n] = x]] IN
         /\ g.files[n] = x /\ g.fileDescrs = D
         /\ [g EXCEPT !.files[n] = y] = [fileDescrs |-> D, files |-> [F EXCEPT ![n] = y]]
  <1>. DEFINE H == [F EXCEPT ![n] = x]
              g == [fileDescrs |-> D, files |-> H]
  <1>1. [H EXCEPT ![n] = y] = [F EXCEPT ![n] = y] /\ H[n] = x
    BY SeqUpdate, ZenonT(60)
  <1>. HIDE DEF H
  <1>2. g.files = H /\ g.fileDescrs = D
    OBVIOUS
  <1>3. [g EXCEPT !.files[n] = y] = [fileDescrs |-> D, files |-> [H EXCEPT ![n] = y]]
    BY FilesUpdate
  <1>. QED  BY <1>1, <1>2, <1>3 DEF H

\* What the owner of a subscription hears in the end, and how its file is left.
LEMMA OneSubNotified ==
  ASSUME NEW k \in Nat, NEW g, FilesRight(g, k), NEW n \in 1..k, NEW rows \in Texts
  PROVE  /\ Files!Tells(NotifySub(g, n, rows), n) = rows \o Checkpoint
         /\ FilesRight(Files!closeFile(NotifySub(g, n, rows), n), k)
  <1>. DEFINE F == g.files
              a == [changes |-> <<>>, options |-> Files!UpdateOptions, withChange |-> FALSE, onChange |-> n]
  <1>1. /\ g = [fileDescrs |-> [m \in 1..k |-> m], files |-> F] /\ Len(F) = k
        /\ F \in Seq(ClosedFiles)
        /\ \A m \in 1..k : F[m].onChange = m
    BY DEF FilesRight
  <1>2. n \in 1..Len(F) /\ n # 0 /\ g.fileDescrs[n] = n /\ n \in DOMAIN g.fileDescrs
    BY <1>1
  <1>3. F[n] \in ClosedFiles
    BY <1>1, <1>2
  <1>5. Files!openFile(g, n) = [fileDescrs |-> g.fileDescrs, files |-> [F EXCEPT ![n] = a]]
    <2>1. Files!exists(g, n)
      BY <1>2 DEF Files!exists
    <2>2. Files!Open(F[n], Files!UpdateOptions) = a
      <3>1. F[n].onChange = n
        BY <1>1
      <3>. QED  BY <3>1 DEF Files!Open, Files!NewFile
    <2>. HIDE DEF a
    <2>3. [g EXCEPT !.files[n] = a] = [fileDescrs |-> g.fileDescrs, files |-> [F EXCEPT ![n] = a]]
      BY <1>1
    <2>. QED  BY <1>2, <2>1, <2>2, <2>3 DEF Files!openFile
  <1>. DEFINE b == [changes |-> rows, options |-> Files!UpdateOptions, withChange |-> rows # <<>>, onChange |-> n]
              c == [changes |-> rows \o Checkpoint, options |-> Files!UpdateOptions, withChange |-> TRUE, onChange |-> n]
  <1>6. Files!Write(a, rows) = b
    <2>1. <<>> \o rows = rows
      BY DEF Texts
    <2>. QED  BY <2>1, UpdateWrites DEF Files!Write
  <1>7. Files!Write(b, Checkpoint) = c
    <2>1. Checkpoint # <<>>
      BY DEF Checkpoint
    <2>. QED  BY <2>1, UpdateWrites DEF Files!Write
  <1>. HIDE DEF a, b, c
  <1>8. NotifySub(g, n, rows) = [fileDescrs |-> g.fileDescrs, files |-> [F EXCEPT ![n] = c]]
    <2>. DEFINE g1 == [fileDescrs |-> g.fileDescrs, files |-> [F EXCEPT ![n] = a]]
                g2 == [fileDescrs |-> g.fileDescrs, files |-> [F EXCEPT ![n] = b]]
    <2>1. Files!js_write(g1, n, rows) = g2
      <3>1. g1.files[n] = a /\ g1.fileDescrs[n] = n /\ [g1 EXCEPT !.files[n] = b] = g2
        BY <1>1, <1>2, FileReplaced
      <3>. HIDE DEF g1, g2
      <3>. QED  BY <1>6, <3>1 DEF Files!js_write
    <2>2. Files!js_write(g2, n, Checkpoint) = [fileDescrs |-> g.fileDescrs, files |-> [F EXCEPT ![n] = c]]
      <3>1. g2.files[n] = b /\ g2.fileDescrs[n] = n
            /\ [g2 EXCEPT !.files[n] = c] = [fileDescrs |-> g.fileDescrs, files |-> [F EXCEPT ![n] = c]]
        BY <1>1, <1>2, FileReplaced
      <3>. HIDE DEF g2
      <3>. QED  BY <1>7, <3>1 DEF Files!js_write
    <2>. QED  BY <1>5, <2>1, <2>2 DEF NotifySub, Files!Written
  <1>9. Files!Tells(NotifySub(g, n, rows), n) = rows \o Checkpoint
    <2>1. NotifySub(g, n, rows).files[NotifySub(g, n, rows).fileDescrs[n]] = c
      BY <1>1, <1>2, <1>8
    <2>. QED  BY <1>2, <2>1 DEF Files!Tells, Files!Nobody, c
  <1>10. FilesRight(Files!closeFile(NotifySub(g, n, rows), n), k)
    <2>. DEFINE d == [changes |-> <<>>, options |-> {}, withChange |-> TRUE, onChange |-> n]
    <2>1. Files!Close(c) = d
      BY DEF c, Files!Close
    <2>2. Files!closeFile(NotifySub(g, n, rows), n) = [fileDescrs |-> g.fileDescrs, files |-> [F EXCEPT ![n] = d]]
      <3>. DEFINE g3 == [fileDescrs |-> g.fileDescrs, files |-> [F EXCEPT ![n] = c]]
      <3>. HIDE DEF d
      <3>1. g3.files[n] = c /\ g3.fileDescrs[n] = n
            /\ [g3 EXCEPT !.files[n] = d] = [fileDescrs |-> g.fileDescrs, files |-> [F EXCEPT ![n] = d]]
        BY <1>1, <1>2, FileReplaced
      <3>. HIDE DEF g3
      <3>2. NotifySub(g, n, rows) = g3
        BY <1>8 DEF g3
      <3>. QED  BY <2>1, <3>1, <3>2 DEF Files!closeFile
    <2>3. d \in ClosedFiles
      BY <1>2 DEF ClosedFiles
    <2>4. [F EXCEPT ![n] = d] \in Seq(ClosedFiles)
          /\ Len([F EXCEPT ![n] = d]) = k
      BY <1>1, <1>2, <2>3
    <2>5. \A m \in 1..k : [F EXCEPT ![n] = d][m].onChange = m
      BY <1>1, <1>2
    <2>. DEFINE G == [F EXCEPT ![n] = d]
    <2>6. Files!closeFile(NotifySub(g, n, rows), n) = [fileDescrs |-> [m \in 1..k |-> m], files |-> G]
      <3>1. g.fileDescrs = [m \in 1..k |-> m]
        BY <1>1
      <3>. HIDE DEF d
      <3>. QED  BY <2>2, <3>1 DEF G
    <2>. HIDE DEF d, G
    <2>7. Files!closeFile(NotifySub(g, n, rows), n).files = G
      BY <2>6
    <2>. QED  BY <2>4, <2>5, <2>6, <2>7 DEF FilesRight, G
  <1>. QED  BY <1>9, <1>10

\* The recursion of FilesAfter has a value after each subscription.
IsNotifying(acc, rows, k) ==
  /\ acc = [j \in 0..k |-> acc[j]] /\ acc[0] = fs
  /\ \A j \in 1..k : acc[j] = Files!closeFile(NotifySub(acc[j - 1], j, rows), j)

LEMMA NotifyingExists ==
  ASSUME NEW rows, NEW n \in Nat
  PROVE  \E acc : IsNotifying(acc, rows, n)
  <1>. DEFINE S == {k \in Nat : \E acc : IsNotifying(acc, rows, k)}
  <1>1. 0 \in S
    <2>1. PICK acc : acc = [k \in 0..0 |-> fs] OBVIOUS
    <2>2. IsNotifying(acc, rows, 0) BY <2>1 DEF IsNotifying
    <2>. QED  BY <2>2
  <1>2. ASSUME NEW k \in Nat, k \in S PROVE k + 1 \in S
    <2>1. PICK a : IsNotifying(a, rows, k) BY <1>2
    <2>2. PICK x : x = Files!closeFile(NotifySub(a[k], k + 1, rows), k + 1) OBVIOUS
    <2>3. PICK b : b = [j \in 0..(k + 1) |-> IF j = k + 1 THEN x ELSE a[j]] OBVIOUS
    <2>4. b[0] = fs /\ b = [j \in 0..(k + 1) |-> b[j]]
      <3>1. 0 \in 0..(k + 1) /\ 0 # k + 1 OBVIOUS
      <3>2. b[0] = a[0] BY <2>3, <3>1
      <3>. QED  BY <2>1, <2>3, <3>2 DEF IsNotifying
    <2>5. ASSUME NEW j \in 1..(k + 1)
          PROVE  b[j] = Files!closeFile(NotifySub(b[j - 1], j, rows), j)
      <3>1. CASE j = k + 1
        <4>1. b[j] = x /\ b[j - 1] = a[k] BY <2>3, <3>1
        <4>. QED  BY <2>2, <3>1, <4>1
      <3>2. CASE j # k + 1
        <4>1. j \in 1..k /\ b[j] = a[j] /\ b[j - 1] = a[j - 1] BY <2>3, <3>2
        <4>. QED  BY <2>1, <4>1 DEF IsNotifying
      <3>. QED  BY <3>1, <3>2
    <2>6. IsNotifying(b, rows, k + 1) BY <2>4, <2>5 DEF IsNotifying
    <2>. QED  BY <2>6
  <1>. HIDE DEF S
  <1>3. Nat \subseteq S BY <1>1, <1>2, InductionOverSet
  <1>. QED  BY <1>3 DEF S

LEMMA FilesAfterIs ==
  ASSUME NEW rows, Len(subs) \in Nat
  PROVE  IsNotifying(FilesAfter(rows), rows, Len(subs))
  <1>. DEFINE F(a) == [n \in 0..Len(subs) |-> IF n = 0 THEN fs
                                              ELSE Files!closeFile(NotifySub(a[n - 1], n, rows), n)]
              acc == CHOOSE a : a = F(a)
  <1>1. PICK b : IsNotifying(b, rows, Len(subs)) BY NotifyingExists
  <1>2. b = F(b)
    <2>1. ASSUME NEW k \in 0..Len(subs) PROVE b[k] = F(b)[k]
      <3>1. k = 0 \/ k \in 1..Len(subs) OBVIOUS
      <3>. QED  BY <1>1, <3>1 DEF IsNotifying
    <2>2. b = [k \in 0..Len(subs) |-> b[k]] BY <1>1 DEF IsNotifying
    <2>3. F(b) = [k \in 0..Len(subs) |-> F(b)[k]] OBVIOUS
    <2>. HIDE DEF F
    <2>. QED  BY <2>1, <2>2, <2>3
  <1>3. acc = F(acc) BY <1>2
  <1>4. IsNotifying(acc, rows, Len(subs))
    <2>. HIDE DEF acc
    <2>1. acc = [k \in 0..Len(subs) |-> acc[k]] BY <1>3
    <2>2. acc[0] = fs
      <3>1. 0 \in 0..Len(subs) OBVIOUS
      <3>. QED  BY <1>3, <3>1
    <2>3. \A j \in 1..Len(subs) : acc[j] = Files!closeFile(NotifySub(acc[j - 1], j, rows), j)
      <3>1. \A j \in 1..Len(subs) : j \in 0..Len(subs) /\ j # 0 OBVIOUS
      <3>. QED  BY <1>3, <3>1
    <2>. QED  BY <2>1, <2>2, <2>3 DEF IsNotifying
  <1>5. FilesAfter(rows) = acc BY DEF FilesAfter
  <1>. QED  BY <1>4, <1>5

\* The owner of every subscription hears the rows, and the files are left in order.
LEMMA AllSubsNotified ==
  ASSUME NEW k \in Nat, k = Len(subs), FilesRight(fs, k), NEW rows \in Texts
  PROVE  /\ FilesRight(FilesAfter(rows)[k], k)
         /\ \A n \in 1..k : Files!Tells(NotifySub(FilesAfter(rows)[n - 1], n, rows), n) = rows \o Checkpoint
  <1>. DEFINE acc == FilesAfter(rows)
              S == {n \in Nat : n <= k => FilesRight(acc[n], k)}
  <1>1. /\ acc[0] = fs
        /\ \A j \in 1..k : acc[j] = Files!closeFile(NotifySub(acc[j - 1], j, rows), j)
    BY FilesAfterIs DEF IsNotifying
  <1>. HIDE DEF acc
  <1>2. 0 \in S
    BY <1>1
  <1>3. ASSUME NEW n \in Nat, n \in S PROVE n + 1 \in S
    <2>. SUFFICES ASSUME n + 1 <= k PROVE FilesRight(acc[n + 1], k)
      OBVIOUS
    <2>1. n + 1 \in 1..k /\ (n + 1) - 1 = n /\ FilesRight(acc[n], k)
      BY <1>3
    <2>2. acc[n + 1] = Files!closeFile(NotifySub(acc[n], n + 1, rows), n + 1)
      BY <1>1, <2>1
    <2>. QED  BY <2>1, <2>2, OneSubNotified
  <1>. HIDE DEF S
  <1>4. Nat \subseteq S BY <1>2, <1>3, InductionOverSet
  <1>5. \A n \in 0..k : FilesRight(acc[n], k) BY <1>4 DEF S
  <1>6. \A n \in 1..k : n - 1 \in 0..k /\ k \in 0..k OBVIOUS
  <1>7. ASSUME NEW n \in 1..k PROVE Files!Tells(NotifySub(acc[n - 1], n, rows), n) = rows \o Checkpoint
    BY <1>5, <1>6, OneSubNotified
  <1>8. FilesRight(acc[k], k) BY <1>5
  <1>. QED  BY <1>7, <1>8 DEF acc

\* An owner that knows the table and hears of a transaction knows the next one.
LEMMA HeardIsNext ==
  ASSUME hist \in Seq(SUBSET Rows), hist # <<>>, NEW next \in SUBSET Rows
  PROVE  RowsOf(next) \in Texts /\ Heard(Table, RowsOf(next) \o Checkpoint) = next
  <1>1. Table \subseteq Rows
    BY DEF Table, Last
  <1>. DEFINE ch(r) == [row |-> r, in |-> r \in next]
              D == (next \ Table) \cup (Table \ next)
              S == {ch(r) : r \in D}
              f == [r \in D |-> ch(r)]
  <1>f. ASSUME NEW r \in Rows
        PROVE  ch(r).row = r /\ (ch(r).in <=> r \in next) /\ ch(r) \in [row : Rows \cup {Selected}, in : BOOLEAN]
    <2>1. ch(r) \in [row : Rows \cup {Selected}, in : BOOLEAN]
      OBVIOUS
    <2>2. ch(r).row = r
      OBVIOUS
    <2>3. ch(r).in <=> r \in next
      OBVIOUS
    <2>. QED  BY <2>1, <2>2, <2>3
  <1>2. IsFiniteSet(D)
    BY <1>1, LocalDbConstants, FS_Subset
  <1>3. f \in Surjection(D, S)
    BY DEF Surjection
  <1>4. IsFiniteSet(S)
    <2>. HIDE DEF f, S, D
    <2>. QED  BY <1>2, <1>3, FS_Surjection
  <1>. DEFINE rows == RowsOf(next)
  <1>5. rows \in Seq(S) /\ Range(rows) = S
    <2>. HIDE DEF S
    <2>1. rows = SetToSeq(S)
      BY DEF S, D, RowsOf, ch, Diff
    <2>. QED  BY <1>4, <2>1, SetToSeqLists
  <1>. HIDE DEF ch
  <1>d. D \subseteq Rows
    BY <1>1
  <1>6. S \subseteq [row : Rows \cup {Selected}, in : BOOLEAN]
    BY <1>d, <1>f
  <1>. HIDE DEF rows
  <1>7. rows \in Texts
    <2>. HIDE DEF S
    <2>1. PICK R : R = [row : Rows \cup {Selected}, in : BOOLEAN]
      OBVIOUS
    <2>2. rows \in [1..Len(rows) -> S] /\ Len(rows) \in Nat
      BY <1>5
    <2>3. rows \in [1..Len(rows) -> R]
      BY <1>6, <2>1, <2>2
    <2>4. rows \in Seq(R)
      BY <2>2, <2>3
    <2>. QED  BY <2>1, <2>4 DEF Texts
  <1>. DEFINE C == [row |-> Selected, in |-> FALSE]
              all == rows \o Checkpoint
  <1>8. Range(all) = S \cup {C}
    <2>. HIDE DEF S
    <2>1. Checkpoint = <<C>> /\ Len(Checkpoint) = 1 /\ Checkpoint[1] = C
      BY DEF Checkpoint
    <2>. HIDE DEF C
    <2>2. Len(rows) \in Nat /\ DOMAIN rows = 1..Len(rows) /\ DOMAIN all = 1..(Len(rows) + 1)
          /\ (\A i \in 1..Len(rows) : all[i] = rows[i]) /\ all[Len(rows) + 1] = C
      BY <1>5, <2>1
    <2>. HIDE DEF all
    <2>3. \A i \in 1..(Len(rows) + 1) : i \in 1..Len(rows) \/ i = Len(rows) + 1
      BY <2>2
    <2>4. \A i \in 1..Len(rows) : i \in 1..(Len(rows) + 1)
      BY <2>2
    <2>5. Len(rows) + 1 \in 1..(Len(rows) + 1)
      BY <2>2
    <2>. QED  BY <1>5, <2>2, <2>3, <2>4, <2>5 DEF Range
  <1>. DEFINE T == S \cup {C}
  <1>c. C.row = Selected /\ ~C.in
    OBVIOUS
  <1>. HIDE DEF C
  <1>9. {c.row : c \in T} = D \cup {Selected}
    BY <1>c, <1>d, <1>f
  <1>10. {c.row : c \in {d \in T : d.in}} = next \ Table
    BY <1>c, <1>d, <1>f
  <1>11. Selected \notin Rows
    BY LocalDbConstants
  <1>12. (Table \ (D \cup {Selected})) \cup (next \ Table) = next
    BY <1>1, <1>11
  <1>13. Heard(Table, all) = next
    <2>. HIDE DEF all, S, C, D
    <2>. QED  BY <1>8, <1>9, <1>10, <1>12 DEF Heard
  <1>. QED  BY <1>7, <1>13 DEF rows

\* What a statement does to the table and the subscriptions: every owner knows the
\* table at all times.
LEMMA TransactionHeard ==
  ASSUME hist \in Seq(SUBSET Rows), hist # <<>>, SubsRight, NEW next \in SUBSET Rows, Writes(next)
  PROVE  /\ SubsRight' /\ Table' = next /\ hist' \in Seq(SUBSET Rows) /\ hist' # <<>>
         /\ next = Table => hist' = hist
         /\ next # Table => hist' = Append(hist, next)
  <1>1. CASE next = Table
    BY <1>1 DEF Writes, subVars, SubsRight, Table
  <1>2. CASE next # Table
    <2>. DEFINE k == Len(subs)
                rows == RowsOf(next)
    <2>1. hist' = Append(hist, next) /\ NotifySubs(next)
      BY <1>2 DEF Writes
    <2>2. Table' = next /\ hist' \in Seq(SUBSET Rows) /\ hist' # <<>>
      BY <2>1 DEF Table, Last
    <2>3. subs \in Seq(SUBSET Rows) /\ k \in Nat /\ DOMAIN subs = 1..k /\ FilesRight(fs, k)
          /\ \A n \in 1..k : subs[n] = Table
      BY DEF SubsRight
    <2>4. CASE subs = <<>>
      <3>1. subs' = subs /\ fs' = fs /\ k = 0
        BY <2>1, <2>4 DEF NotifySubs, subVars
      <3>. QED  BY <1>2, <2>1, <2>2, <2>3, <3>1 DEF SubsRight
    <2>5. CASE subs # <<>>
      <3>1. rows \in Texts /\ Heard(Table, rows \o Checkpoint) = next
        BY HeardIsNext
      <3>2. /\ fs' = FilesAfter(rows)[k]
            /\ subs' = [n \in DOMAIN subs |-> Heard(subs[n], Files!Tells(NotifySub(FilesAfter(rows)[n - 1], n, rows), n))]
        BY <2>1, <2>5 DEF NotifySubs
      <3>. HIDE DEF rows
      <3>3. /\ FilesRight(FilesAfter(rows)[k], k)
            /\ \A n \in 1..k : Files!Tells(NotifySub(FilesAfter(rows)[n - 1], n, rows), n) = rows \o Checkpoint
        BY <2>3, <3>1, AllSubsNotified
      <3>4. subs' = [n \in 1..k |-> next]
        BY <2>3, <3>1, <3>2, <3>3
      <3>5. subs' \in Seq(SUBSET Rows) /\ Len(subs') = k /\ \A n \in 1..k : subs'[n] = next
        BY <2>3, <3>4
      <3>. QED  BY <1>2, <2>1, <2>2, <3>2, <3>3, <3>5 DEF SubsRight
    <2>. QED  BY <2>4, <2>5
  <1>. QED  BY <1>1, <1>2

\* What has changed since some tick, after one more transaction.
LEMMA ChangedGrows ==
  ASSUME hist \in Seq(SUBSET Rows), hist # <<>>, NEW next \in SUBSET Rows,
         hist' = Append(hist, next)
  PROVE  /\ Tick \in Nat /\ Tick' = Tick + 1
         /\ \A s \in 0..Tick : Changed(s)' = Changed(s) \cup Diff(next, Table)
  <1>1. Tick \in Nat /\ Tick > 0 /\ Tick' = Tick + 1 /\ Table = hist[Tick] /\ Table \subseteq Rows
        /\ hist'[Tick + 1] = next /\ \A t \in 1..Tick : hist'[t] = hist[t]
    BY DEF Tick, Table, Last
  <1>2. ASSUME NEW s \in 0..Tick
        PROVE  Changed(s)' = Changed(s) \cup Diff(next, Table)
    <2>1. ASSUME NEW r \in Rows
          PROVE  r \in Changed(s)' <=> r \in Changed(s) \/ r \in Diff(next, Table)
      <3>1. r \in Changed(s)' <=>
              \E t \in s + 1..Tick + 1 : t > 1 /\ r \in Diff(hist'[t], hist'[t - 1])
        BY <1>1 DEF Changed
      <3>2. r \in Changed(s) <=> \E t \in s + 1..Tick : t > 1 /\ r \in Diff(hist[t], hist[t - 1])
        BY DEF Changed
      <3>3. \A t \in s + 1..Tick + 1 : t \in s + 1..Tick \/ t = Tick + 1
        BY <1>1
      <3>4. \A t \in s + 1..Tick : t \in s + 1..Tick + 1 /\ (t > 1 => t \in 1..Tick /\ t - 1 \in 1..Tick)
        BY <1>1
      <3>5. Tick + 1 \in s + 1..Tick + 1 /\ Tick + 1 > 1 /\ (Tick + 1) - 1 = Tick /\ hist'[Tick] = Table
        <4>1. Tick \in 1..Tick
          BY <1>1
        <4>2. hist'[Tick] = Table
          BY <1>1, <4>1
        <4>. QED  BY <1>1, <4>2
      <3>6. r \in Diff(hist'[Tick + 1], hist'[(Tick + 1) - 1]) <=> r \in Diff(next, Table)
        <4>1. hist'[Tick + 1] = next /\ hist'[(Tick + 1) - 1] = Table
          BY <1>1, <3>5
        <4>. QED  BY <4>1
      <3>7. \A t \in s + 1..Tick : t > 1 => hist'[t] = hist[t] /\ hist'[t - 1] = hist[t - 1]
        BY <1>1, <3>4
      <3>. QED  BY <3>1, <3>2, <3>3, <3>4, <3>5, <3>6, <3>7
    <2>2. Changed(s)' \subseteq Rows /\ Changed(s) \subseteq Rows /\ Diff(next, Table) \subseteq Rows
      BY <1>1 DEF Changed, Diff
    <2>. QED  BY <1>1, <2>1, <2>2
  <1>. QED  BY <1>1, <1>2
-----------------------------------------------------------------------------
(* The stack. *)

LEMMA FrameFields ==
  ASSUME NEW e \in Frames
  PROVE  /\ e.f \in {"exec", "many", "loop", "callback"}
         /\ e.f = "many" => e.left \subseteq Rows
         /\ e.f = "loop" => e.todo \subseteq Ids
         /\ e.f = "callback" => e.id \in Ids /\ e.changes \in BOOLEAN /\ e.tick \in {NoTick} \cup Nat
  <1>1. CASE e \in [f : {"exec"}] BY <1>1
  <1>2. CASE e \in [f : {"many"}, left : SUBSET Rows] BY <1>2
  <1>3. CASE e \in [f : {"loop"}, todo : SUBSET Ids] BY <1>3
  <1>4. CASE e \in [f : {"callback"}, id : Ids, changes : BOOLEAN, tick : {NoTick} \cup Nat] BY <1>4
  <1>. QED  BY <1>1, <1>2, <1>3, <1>4 DEF Frames

LEMMA FramesMade ==
  /\ [f |-> "exec"] \in Frames /\ [f |-> "exec"].f = "exec"
  /\ \A left \in SUBSET Rows : [f |-> "many", left |-> left] \in Frames /\ [f |-> "many", left |-> left].f = "many"
  /\ \A todo \in SUBSET Ids :
       /\ [f |-> "loop", todo |-> todo] \in Frames
       /\ [f |-> "loop", todo |-> todo].f = "loop" /\ [f |-> "loop", todo |-> todo].todo = todo
  <1>1. [f |-> "exec"] \in Frames /\ [f |-> "exec"].f = "exec"
    BY DEF Frames
  <1>2. ASSUME NEW left \in SUBSET Rows
        PROVE  [f |-> "many", left |-> left] \in Frames /\ [f |-> "many", left |-> left].f = "many"
    BY DEF Frames
  <1>3. ASSUME NEW todo \in SUBSET Ids
        PROVE  /\ [f |-> "loop", todo |-> todo] \in Frames
               /\ [f |-> "loop", todo |-> todo].f = "loop" /\ [f |-> "loop", todo |-> todo].todo = todo
    BY DEF Frames
  <1>. QED  BY <1>1, <1>2, <1>3

LEMMA CallbackMade ==
  ASSUME NEW id \in Ids, NEW kind, NEW o, o.tick \in {NoTick} \cup Nat
  PROVE  /\ Callback(id, kind, o) \in Frames /\ Callback(id, kind, o).f = "callback"
         /\ Callback(id, kind, o).id = id /\ (Callback(id, kind, o).changes <=> kind = "changes")
         /\ Callback(id, kind, o).tick = o.tick
  <1>1. PICK t \in {NoTick} \cup Nat : t = o.tick
    OBVIOUS
  <1>. DEFINE e == [f |-> "callback", id |-> id, changes |-> kind = "changes", tick |-> t]
  <1>2. e \in Frames /\ e.f = "callback" /\ e.id = id /\ e.tick = t
    <2>1. e \in [f : {"callback"}, id : Ids, changes : BOOLEAN, tick : {NoTick} \cup Nat]
      OBVIOUS
    <2>. QED  BY <2>1 DEF Frames
  <1>3. e.changes <=> kind = "changes"
    OBVIOUS
  <1>4. Callback(id, kind, o) = e
    BY <1>1 DEF Callback
  <1>. HIDE DEF e
  <1>. QED  BY <1>1, <1>2, <1>3, <1>4

\* What a frame adds to the stack.
LEMMA Pushed ==
  ASSUME NEW s \in Seq(Frames), NEW e \in Frames
  PROVE  /\ Append(s, e) \in Seq(Frames) /\ Append(s, e) # <<>> /\ Last(Append(s, e)) = e
         /\ HasLoop(Append(s, e)) <=> HasLoop(s) \/ e.f = "loop"
         /\ Todo(Append(s, e)) = Todo(s) \cup (IF e.f = "loop" THEN e.todo ELSE {})
         /\ Calls(Append(s, e)) = Calls(s) \cup (IF e.f = "callback" THEN {e} ELSE {})
         /\ WellStacked(Append(s, e)) <=>
              /\ WellStacked(s) /\ (e.f = "loop" => ~HasLoop(s))
              /\ e.f \in {"exec", "many"} => s = <<>> \/ Last(s).f # "loop"
  <1>. DEFINE a == Append(s, e)
              k == Len(s)
  <1>1. /\ k \in Nat /\ a \in Seq(Frames) /\ Len(a) = k + 1 /\ a[k + 1] = e /\ \A i \in 1..k : a[i] = s[i]
    OBVIOUS
  <1>. HIDE DEF a
  <1>2. /\ \A i \in 1..(k + 1) : i \in 1..k \/ i = k + 1
        /\ \A i \in 1..k : i \in 1..(k + 1) /\ i # k + 1
        /\ k + 1 \in 1..(k + 1)
    BY <1>1
  <1>3. a \in Seq(Frames) /\ a # <<>> /\ Last(a) = e
    BY <1>1 DEF Last
  <1>4. HasLoop(a) <=> HasLoop(s) \/ e.f = "loop"
    BY <1>1, <1>2 DEF HasLoop
  <1>5. Todo(a) = Todo(s) \cup (IF e.f = "loop" THEN e.todo ELSE {})
    <2>1. ASSUME NEW x PROVE x \in Todo(a) <=> \E i \in 1..(k + 1) : a[i].f = "loop" /\ x \in a[i].todo
      BY <1>1 DEF Todo
    <2>2. ASSUME NEW x PROVE x \in Todo(s) <=> \E i \in 1..k : s[i].f = "loop" /\ x \in s[i].todo
      BY DEF Todo
    <2>3. ASSUME NEW x PROVE x \in Todo(a) <=> x \in Todo(s) \/ (e.f = "loop" /\ x \in e.todo)
      BY <1>1, <1>2, <2>1, <2>2
    <2>. QED  BY <2>3
  <1>6. Calls(a) = Calls(s) \cup (IF e.f = "callback" THEN {e} ELSE {})
    <2>1. ASSUME NEW x PROVE x \in Calls(a) <=> \E i \in 1..(k + 1) : a[i].f = "callback" /\ x = a[i]
      BY <1>1 DEF Calls
    <2>2. ASSUME NEW x PROVE x \in Calls(s) <=> \E i \in 1..k : s[i].f = "callback" /\ x = s[i]
      BY DEF Calls
    <2>3. ASSUME NEW x PROVE x \in Calls(a) <=> x \in Calls(s) \/ (e.f = "callback" /\ x = e)
      BY <1>1, <1>2, <2>1, <2>2
    <2>. QED  BY <2>3
  <1>7. WellStacked(a) <=> /\ WellStacked(s) /\ (e.f = "loop" => ~HasLoop(s))
                           /\ e.f \in {"exec", "many"} => s = <<>> \/ Last(s).f # "loop"
    <2>. DEFINE One(q) == \A m, n \in 1..Len(q) : q[m].f = "loop" /\ q[n].f = "loop" => m = n
                Apart(q) == \A n \in 2..Len(q) : q[n].f \in {"exec", "many"} => q[n - 1].f # "loop"
    <2>1. One(a) <=> One(s) /\ (e.f = "loop" => ~HasLoop(s))
      BY <1>1, <1>2 DEF HasLoop
    <2>2. Apart(a) <=> Apart(s) /\ (e.f \in {"exec", "many"} => s = <<>> \/ Last(s).f # "loop")
      <3>1. s = <<>> <=> k = 0
        OBVIOUS
      <3>2. /\ \A n \in 2..(k + 1) : n \in 2..k \/ (n = k + 1 /\ k # 0 /\ n - 1 = k)
            /\ \A n \in 2..k : n \in 2..(k + 1) /\ n \in 1..k /\ n - 1 \in 1..k
            /\ k # 0 => k + 1 \in 2..(k + 1) /\ (k + 1) - 1 = k /\ k \in 1..k
        BY <1>1
      <3>3. \A n \in 2..k : a[n] = s[n] /\ a[n - 1] = s[n - 1]
        BY <1>1, <3>2
      <3>4. k # 0 => a[k] = s[k]
        BY <1>1, <3>2
      <3>5. Apart(a) <=> Apart(s) /\ (k # 0 => (e.f \in {"exec", "many"} => s[k].f # "loop"))
        BY <1>1, <3>2, <3>3, <3>4
      <3>. QED  BY <3>1, <3>5 DEF Last
    <2>3. WellStacked(a) <=> One(a) /\ Apart(a)
      BY DEF WellStacked
    <2>4. WellStacked(s) <=> One(s) /\ Apart(s)
      BY DEF WellStacked
    <2>. HIDE DEF One, Apart
    <2>. QED  BY <2>1, <2>2, <2>3, <2>4
  <1>. QED  BY <1>3, <1>4, <1>5, <1>6, <1>7 DEF a

\* A call other than a callback or a loop only lies on the stack.
LEMMA CallPushed ==
  ASSUME NEW s \in Seq(Frames), NEW e \in Frames, e.f \in {"exec", "many"}
  PROVE  /\ Append(s, e) \in Seq(Frames) /\ Append(s, e) # <<>> /\ Last(Append(s, e)) = e
         /\ HasLoop(Append(s, e)) <=> HasLoop(s)
         /\ Todo(Append(s, e)) = Todo(s) /\ Calls(Append(s, e)) = Calls(s)
         /\ WellStacked(Append(s, e)) <=> WellStacked(s) /\ (s = <<>> \/ Last(s).f # "loop")
  <1>1. e.f # "loop" /\ e.f # "callback"
    OBVIOUS
  <1>2. /\ Append(s, e) \in Seq(Frames) /\ Append(s, e) # <<>> /\ Last(Append(s, e)) = e
        /\ HasLoop(Append(s, e)) <=> HasLoop(s) \/ e.f = "loop"
        /\ WellStacked(Append(s, e)) <=>
             /\ WellStacked(s) /\ (e.f = "loop" => ~HasLoop(s))
             /\ e.f \in {"exec", "many"} => s = <<>> \/ Last(s).f # "loop"
    BY Pushed
  <1>3. Todo(Append(s, e)) = Todo(s) \cup (IF e.f = "loop" THEN e.todo ELSE {})
    BY Pushed
  <1>4. Calls(Append(s, e)) = Calls(s) \cup (IF e.f = "callback" THEN {e} ELSE {})
    BY Pushed
  <1>5. Todo(Append(s, e)) = Todo(s) /\ Calls(Append(s, e)) = Calls(s)
    BY <1>1, <1>3, <1>4
  <1>. QED  BY <1>1, <1>2, <1>5

LEMMA LoopPushed ==
  ASSUME NEW s \in Seq(Frames), NEW e \in Frames, e.f = "loop"
  PROVE  /\ Append(s, e) \in Seq(Frames) /\ Append(s, e) # <<>> /\ Last(Append(s, e)) = e
         /\ HasLoop(Append(s, e))
         /\ Todo(Append(s, e)) = Todo(s) \cup e.todo /\ Calls(Append(s, e)) = Calls(s)
         /\ WellStacked(Append(s, e)) <=> WellStacked(s) /\ ~HasLoop(s)
  <1>1. e.f # "callback" /\ e.f \notin {"exec", "many"}
    OBVIOUS
  <1>2. /\ Append(s, e) \in Seq(Frames) /\ Append(s, e) # <<>> /\ Last(Append(s, e)) = e
        /\ HasLoop(Append(s, e)) <=> HasLoop(s) \/ e.f = "loop"
        /\ WellStacked(Append(s, e)) <=>
             /\ WellStacked(s) /\ (e.f = "loop" => ~HasLoop(s))
             /\ e.f \in {"exec", "many"} => s = <<>> \/ Last(s).f # "loop"
    BY Pushed
  <1>3. Todo(Append(s, e)) = Todo(s) \cup (IF e.f = "loop" THEN e.todo ELSE {})
    BY Pushed
  <1>4. Calls(Append(s, e)) = Calls(s) \cup (IF e.f = "callback" THEN {e} ELSE {})
    BY Pushed
  <1>5. Todo(Append(s, e)) = Todo(s) \cup e.todo /\ Calls(Append(s, e)) = Calls(s)
    BY <1>1, <1>3, <1>4
  <1>. QED  BY <1>1, <1>2, <1>5

LEMMA CallbackPushed ==
  ASSUME NEW s \in Seq(Frames), NEW e \in Frames, e.f = "callback"
  PROVE  /\ Append(s, e) \in Seq(Frames) /\ Append(s, e) # <<>> /\ Last(Append(s, e)) = e
         /\ HasLoop(Append(s, e)) <=> HasLoop(s)
         /\ Todo(Append(s, e)) = Todo(s) /\ Calls(Append(s, e)) = Calls(s) \cup {e}
         /\ WellStacked(Append(s, e)) <=> WellStacked(s)
  <1>1. e.f # "loop" /\ e.f \notin {"exec", "many"}
    OBVIOUS
  <1>2. /\ Append(s, e) \in Seq(Frames) /\ Append(s, e) # <<>> /\ Last(Append(s, e)) = e
        /\ HasLoop(Append(s, e)) <=> HasLoop(s) \/ e.f = "loop"
        /\ WellStacked(Append(s, e)) <=>
             /\ WellStacked(s) /\ (e.f = "loop" => ~HasLoop(s))
             /\ e.f \in {"exec", "many"} => s = <<>> \/ Last(s).f # "loop"
    BY Pushed
  <1>3. Todo(Append(s, e)) = Todo(s) \cup (IF e.f = "loop" THEN e.todo ELSE {})
    BY Pushed
  <1>4. Calls(Append(s, e)) = Calls(s) \cup (IF e.f = "callback" THEN {e} ELSE {})
    BY Pushed
  <1>5. Todo(Append(s, e)) = Todo(s) /\ Calls(Append(s, e)) = Calls(s) \cup {e}
    BY <1>1, <1>3, <1>4
  <1>. QED  BY <1>1, <1>2, <1>5

\* The stack is what is left once its top frame is gone, and that frame.
LEMMA Popped ==
  ASSUME stack \in Seq(Frames), stack # <<>>
  PROVE  Pop \in Seq(Frames) /\ Top \in Frames /\ stack = Append(Pop, Top) /\ Top = Last(stack)
  BY FrontAndLast DEF Pop, Top

LEMMA TopIs ==
  ASSUME stack \in Seq(Frames)
  PROVE  /\ Top.f = "user" <=> stack = <<>>
         /\ stack # <<>> => Top = Last(stack) /\ Top \in Frames
  <1>1. CASE stack = <<>>
    BY <1>1 DEF Top
  <1>2. CASE stack # <<>>
    <2>1. Top = Last(stack) /\ Top \in Frames
      BY <1>2, Popped
    <2>2. Top.f # "user"
      BY <2>1, FrameFields
    <2>. QED  BY <1>2, <2>1, <2>2
  <1>. QED  BY <1>1, <1>2
-----------------------------------------------------------------------------
(* Ids. *)

LEMMA IdTaken ==
  ASSUME DbTypeOK, IdsOwned, TakesId, NEW id, id = NewId
  PROVE  /\ id \in Ids /\ userFuns[id] = NoOp /\ freeQueryIDs' \in Seq(Ids) /\ IsInjective(freeQueryIDs')
         /\ id \notin Range(freeQueryIDs') /\ Range(freeQueryIDs') \subseteq Range(freeQueryIDs)
         /\ queryID' \in 0..MaxWatch /\ \A i \in Ids : i <= queryID => i <= queryID'
         /\ \A i \in Ids : i > queryID' => userFuns[i] = NoOp /\ i # id
  <1>0. /\ queryID \in 0..MaxWatch /\ MaxWatch \in Nat /\ freeQueryIDs \in Seq(Ids)
        /\ IsInjective(freeQueryIDs) /\ Ids = 1..MaxWatch
        /\ \A i \in Range(freeQueryIDs) : i <= queryID /\ userFuns[i] = NoOp
        /\ \A i \in Ids : i > queryID => userFuns[i] = NoOp
    BY LocalDbConstants DEF DbTypeOK, IdsOwned, Ids
  <1>1. CASE freeQueryIDs = <<>>
    <2>1. id = queryID + 1 /\ queryID < MaxWatch /\ queryID' = queryID + 1 /\ freeQueryIDs' = freeQueryIDs
      BY <1>1 DEF TakesId, NewId
    <2>2. id \in Ids /\ id > queryID /\ queryID' \in 0..MaxWatch
      BY <1>0, <2>1
    <2>3. \A i \in Ids : (i <= queryID => i <= queryID') /\ (i > queryID' => i > queryID /\ i # id)
      BY <1>0, <2>1
    <2>4. Range(freeQueryIDs') = {}
      BY <1>1, <2>1 DEF Range
    <2>. QED  BY <1>0, <2>1, <2>2, <2>3, <2>4
  <1>2. CASE freeQueryIDs # <<>>
    <2>1. id = Last(freeQueryIDs) /\ queryID' = queryID /\ freeQueryIDs' = Front(freeQueryIDs)
      BY <1>2 DEF TakesId, NewId
    <2>. DEFINE k == Len(freeQueryIDs)
                p == Front(freeQueryIDs)
    <2>2. /\ p \in Seq(Ids) /\ id \in Ids /\ k \in Nat \ {0} /\ Len(p) = k - 1
          /\ \A i \in 1..(k - 1) : p[i] = freeQueryIDs[i]
      BY <1>0, <1>2, <2>1, FrontAndLast
    <2>3. DOMAIN p = 1..(k - 1) /\ DOMAIN freeQueryIDs = 1..k /\ id = freeQueryIDs[k] /\ k \in 1..k
          /\ \A i \in 1..(k - 1) : i \in 1..k /\ i # k
      BY <1>0, <2>1, <2>2 DEF Last
    <2>. HIDE DEF p, k
    <2>4. IsInjective(p)
      BY <1>0, <2>2, <2>3 DEF IsInjective
    <2>5. id \in Range(freeQueryIDs)
      BY <2>3 DEF Range
    <2>6. id \notin Range(p) /\ Range(p) \subseteq Range(freeQueryIDs)
      <3>1. \A i \in 1..(k - 1) : p[i] \in Range(freeQueryIDs)
        BY <2>2, <2>3 DEF Range
      <3>2. \A i \in 1..(k - 1) : p[i] # id
        BY <1>0, <2>2, <2>3 DEF IsInjective
      <3>. QED  BY <2>3, <3>1, <3>2 DEF Range
    <2>7. \A i \in Ids : i > queryID => i # id
      BY <1>0, <2>2, <2>5
    <2>8. freeQueryIDs' = p
      BY <2>1 DEF p
    <2>. QED  BY <1>0, <2>1, <2>2, <2>4, <2>5, <2>6, <2>7, <2>8
  <1>. QED  BY <1>1, <1>2

LEMMA NoOpIsNobody == ASSUME NEW w \in Watches PROVE w # NoOp
  BY LocalDbConstants DEF Watches, NoOp

\* A new watch has no handle yet.
LEMMA WatchTaken ==
  ASSUME IdsOwned, TakesId, NEW w, w = NewWatch
  PROVE  w \in Watches /\ w # NoOp /\ handle[w].kind = "none" /\ w \notin robbed /\ w \notin Owners
  <1>1. w \in Watches /\ handle[w].kind = "none"
    BY DEF TakesId, NewWatch
  <1>2. w \notin robbed /\ ~handle[w].open
    BY <1>1 DEF IdsOwned
  <1>. QED  BY <1>1, <1>2, NoOpIsNobody DEF Owners

\* What an owner has.
LEMMA OwnerHas ==
  ASSUME IdsOwned, NEW w \in Owners
  PROVE  /\ w \in Watches /\ w # NoOp /\ w \notin robbed /\ handle[w].open /\ handle[w].id \in Ids
         /\ handle[w].kind \in {"rows", "changes"}
         /\ userFuns[handle[w].id] = w /\ active[handle[w].id] = handle[w].kind
  <1>1. w \in Watches /\ handle[w].open /\ w \notin robbed
    BY DEF Owners
  <1>2. handle[w].kind \in {"rows", "changes"}
    BY <1>1 DEF IdsOwned
  <1>3. handle[w].id \in Ids
    BY <1>1, <1>2 DEF IdsOwned
  <1>. QED  BY <1>1, <1>2, <1>3, NoOpIsNobody DEF IdsOwned

LEMMA IdsKept ==
  ASSUME IdsOwned, UNCHANGED <<freeQueryIDs, queryID, userFuns, active, handle, robbed>>
  PROVE  IdsOwned'
  BY DEF IdsOwned, Owners

\* A watch, also one whose query does not parse, takes an id nobody has.
LEMMA WatchIds ==
  ASSUME DbTypeOK, IdsOwned, TakesId, NEW id, id = NewId, NEW w, w = NewWatch,
         NEW kind \in {"failed", "rows", "changes"}, NEW open \in BOOLEAN, open <=> kind # "failed",
         userFuns' = [userFuns EXCEPT ![id] = w], robbed' = robbed,
         active' = IF open THEN [active EXCEPT ![id] = kind] ELSE active,
         handle' = [handle EXCEPT ![w] = [id |-> id, kind |-> kind, open |-> open]]
  PROVE  /\ IdsOwned'
         /\ userFuns' \in [Ids -> {NoOp} \cup Watches] /\ active' \in [Ids -> {"none", "rows", "changes"}]
         /\ handle' \in [Watches -> [id : 0..MaxWatch, kind : {"none", "failed", "rows", "changes"}, open : BOOLEAN]]
         /\ \A v \in Owners' : (v = w /\ open) \/ (v \in Owners /\ v # w /\ handle'[v] = handle[v] /\ handle[v].id # id)
  <1>0. /\ userFuns \in [Ids -> {NoOp} \cup Watches] /\ active \in [Ids -> {"none", "rows", "changes"}]
        /\ handle \in [Watches -> [id : 0..MaxWatch, kind : {"none", "failed", "rows", "changes"}, open : BOOLEAN]]
        /\ robbed \in SUBSET Watches /\ MaxWatch \in Nat
    BY LocalDbConstants DEF DbTypeOK
  <1>1. /\ id \in Ids /\ userFuns[id] = NoOp /\ IsInjective(freeQueryIDs')
        /\ id \notin Range(freeQueryIDs') /\ Range(freeQueryIDs') \subseteq Range(freeQueryIDs)
        /\ \A i \in Ids : i <= queryID => i <= queryID'
        /\ \A i \in Ids : i > queryID' => userFuns[i] = NoOp /\ i # id
    BY IdTaken
  <1>2. w \in Watches /\ w # NoOp /\ handle[w].kind = "none" /\ w \notin robbed /\ w \notin Owners
    BY WatchTaken
  <1>3. /\ userFuns' \in [Ids -> {NoOp} \cup Watches] /\ userFuns'[id] = w
        /\ \A i \in Ids : i # id => userFuns'[i] = userFuns[i]
    BY <1>0, <1>1, <1>2
  <1>4. active[id] = "none"
    BY <1>1, OwnerHas DEF IdsOwned
  <1>5. /\ active' \in [Ids -> {"none", "rows", "changes"}] /\ active'[id] = IF open THEN kind ELSE "none"
        /\ \A i \in Ids : i # id => active'[i] = active[i]
    <2>1. CASE open
      BY <1>0, <1>1, <2>1
    <2>2. CASE ~open
      BY <1>0, <1>4, <2>2
    <2>. QED  BY <2>1, <2>2
  <1>6. /\ handle' \in [Watches -> [id : 0..MaxWatch, kind : {"none", "failed", "rows", "changes"}, open : BOOLEAN]]
        /\ \A v \in Watches : v # w => handle'[v] = handle[v]
        /\ handle'[w].id = id /\ handle'[w].kind = kind /\ handle'[w].open = open
    <2>1. PICK h : h = [id |-> id, kind |-> kind, open |-> open]
      OBVIOUS
    <2>2. id \in 0..MaxWatch
      BY <1>0, <1>1 DEF Ids
    <2>3. h \in [id : 0..MaxWatch, kind : {"none", "failed", "rows", "changes"}, open : BOOLEAN]
          /\ h.id = id /\ h.kind = kind /\ h.open = open
      BY <2>1, <2>2
    <2>4. handle' = [handle EXCEPT ![w] = h]
      BY <2>1
    <2>. QED  BY <1>0, <1>2, <2>3, <2>4
  <1>7. Owners' = Owners \cup (IF open THEN {w} ELSE {})
    BY <1>2, <1>6 DEF Owners
  <1>8. ASSUME NEW v \in Owners
        PROVE  v \in Watches /\ v # w /\ handle'[v] = handle[v] /\ handle[v].id \in Ids /\ handle[v].id # id
    BY <1>1, <1>2, <1>6, OwnerHas
  <1>9. Range(freeQueryIDs) \subseteq Ids
    BY DEF DbTypeOK, Range
  <1>10. \A i \in Range(freeQueryIDs') : i <= queryID' /\ userFuns'[i] = NoOp
    BY <1>1, <1>3, <1>9 DEF IdsOwned
  <1>11. \A i \in Ids : i > queryID' => userFuns'[i] = NoOp
    BY <1>1, <1>3
  <1>12. \A i \in Ids : active'[i] # "none" => userFuns'[i] \in Owners'
    BY <1>3, <1>5, <1>7 DEF IdsOwned
  <1>13. ASSUME NEW i \in Ids, userFuns'[i] # NoOp
         PROVE  handle'[userFuns'[i]].id = i /\ (userFuns'[i] \in Owners' \/ handle'[userFuns'[i]].kind = "failed")
    <2>1. CASE i = id
      BY <1>3, <1>6, <1>7, <2>1
    <2>2. CASE i # id
      <3>1. PICK v \in Watches : v = userFuns[i] /\ userFuns'[i] = v
        BY <1>0, <1>3, <1>13, <2>2
      <3>2. handle[v].id = i /\ (v \in Owners \/ handle[v].kind = "failed")
        BY <1>13, <3>1 DEF IdsOwned
      <3>3. v # w
        BY <1>2, <3>2
      <3>. QED  BY <1>6, <1>7, <3>1, <3>2, <3>3
    <2>. QED  BY <2>1, <2>2
  <1>14. /\ \A v \in Watches : handle'[v].open => handle'[v].kind \in {"rows", "changes"}
         /\ \A v \in Watches : handle'[v].kind # "none" => handle'[v].id \in Ids
         /\ \A v \in robbed' : handle'[v].kind # "none"
    <2>1. ASSUME NEW v \in Watches PROVE handle'[v].open => handle'[v].kind \in {"rows", "changes"}
      BY <1>6, <2>1 DEF IdsOwned
    <2>2. ASSUME NEW v \in Watches PROVE handle'[v].kind # "none" => handle'[v].id \in Ids
      BY <1>1, <1>6, <2>2 DEF IdsOwned
    <2>3. ASSUME NEW v \in robbed PROVE handle'[v].kind # "none"
      BY <1>0, <1>2, <1>6, <2>3 DEF IdsOwned
    <2>. QED  BY <2>1, <2>2, <2>3
  <1>15. ASSUME NEW v \in Owners' PROVE userFuns'[handle'[v].id] = v /\ active'[handle'[v].id] = handle'[v].kind
    <2>1. CASE v \in Owners
      BY <1>3, <1>5, <1>8, <2>1 DEF IdsOwned
    <2>2. CASE v = w /\ open
      BY <1>3, <1>5, <1>6, <2>2
    <2>. QED  BY <1>7, <2>1, <2>2
  <1>16. IdsOwned'
    BY <1>1, <1>10, <1>11, <1>12, <1>13, <1>14, <1>15 DEF IdsOwned
  <1>17. \A v \in Owners' : (v = w /\ open) \/ (v \in Owners /\ v # w /\ handle'[v] = handle[v] /\ handle[v].id # id)
    BY <1>7, <1>8
  <1>. QED  BY <1>3, <1>5, <1>6, <1>16, <1>17

\* An id is given back once, and only with its query.
LEMMA IdsDeleted ==
  ASSUME DbTypeOK, IdsOwned, NEW id \in Ids, DeleteQuery(id)
  PROVE  /\ active' \in [Ids -> {"none", "rows", "changes"}] /\ active'[id] = "none"
         /\ \A i \in Ids : i # id => active'[i] = active[i]
         /\ funLastTick' \in [Ids -> Nat] /\ \A i \in Ids : i # id => funLastTick'[i] = funLastTick[i]
         /\ funLastTick'[id] \in {0, funLastTick[id]}
         /\ freeQueryIDs' \in Seq(Ids) /\ IsInjective(freeQueryIDs')
         /\ Range(freeQueryIDs') \subseteq Range(freeQueryIDs) \cup {id} /\ \A i \in Range(freeQueryIDs') : i <= queryID
  <1>0. /\ active \in [Ids -> {"none", "rows", "changes"}] /\ funLastTick \in [Ids -> Nat] /\ freeQueryIDs \in Seq(Ids)
        /\ IsInjective(freeQueryIDs) /\ \A i \in Range(freeQueryIDs) : i <= queryID /\ userFuns[i] = NoOp
    BY DEF DbTypeOK, IdsOwned
  <1>1. CASE active[id] = "none"
    BY <1>0, <1>1 DEF DeleteQuery
  <1>2. CASE active[id] # "none"
    <2>1. /\ active' = [active EXCEPT ![id] = "none"] /\ funLastTick' = [funLastTick EXCEPT ![id] = 0]
          /\ freeQueryIDs' = Append(freeQueryIDs, id)
      BY <1>2 DEF DeleteQuery
    <2>2. userFuns[id] # NoOp
      BY <1>2, OwnerHas DEF IdsOwned
    <2>3. id \notin Range(freeQueryIDs)
      BY <1>0, <2>2
    <2>4. id <= queryID
      <3>1. ~(id > queryID)
        BY <2>2 DEF IdsOwned
      <3>2. id \in Int /\ queryID \in Int
        BY LocalDbConstants DEF Ids, DbTypeOK
      <3>. QED  BY <3>1, <3>2
    <2>5. freeQueryIDs' \in Seq(Ids) /\ IsInjective(freeQueryIDs') /\ Range(freeQueryIDs') = Range(freeQueryIDs) \cup {id}
      <3>. DEFINE k == Len(freeQueryIDs)
      <3>1. /\ k \in Nat /\ DOMAIN freeQueryIDs = 1..k /\ DOMAIN freeQueryIDs' = 1..(k + 1)
            /\ freeQueryIDs' \in Seq(Ids)
            /\ freeQueryIDs'[k + 1] = id /\ \A i \in 1..k : freeQueryIDs'[i] = freeQueryIDs[i]
        BY <1>0, <2>1
      <3>. HIDE DEF k
      <3>2. /\ \A i \in 1..(k + 1) : i \in 1..k \/ i = k + 1
            /\ \A i \in 1..k : i \in 1..(k + 1)
            /\ k + 1 \in 1..(k + 1)
        BY <3>1
      <3>3. \A i \in 1..k : freeQueryIDs[i] # id
        BY <2>3, <3>1 DEF Range
      <3>4. IsInjective(freeQueryIDs')
        BY <1>0, <3>1, <3>2, <3>3 DEF IsInjective
      <3>5. Range(freeQueryIDs') = Range(freeQueryIDs) \cup {id}
        BY <3>1, <3>2 DEF Range
      <3>. QED  BY <3>1, <3>4, <3>5
    <2>6. /\ active' \in [Ids -> {"none", "rows", "changes"}] /\ active'[id] = "none"
          /\ \A i \in Ids : i # id => active'[i] = active[i]
          /\ funLastTick' \in [Ids -> Nat] /\ funLastTick'[id] = 0
          /\ \A i \in Ids : i # id => funLastTick'[i] = funLastTick[i]
      BY <1>0, <2>1
    <2>. QED  BY <1>0, <2>4, <2>5, <2>6
  <1>. QED  BY <1>1, <1>2

\* close takes the id from whoever has it, and from nobody else.
LEMMA CloseIds ==
  ASSUME DbTypeOK, IdsOwned, NEW w \in Watches, handle[w].kind \in {"rows", "changes"}, NEW id, id = handle[w].id,
         handle' = [handle EXCEPT ![w].open = FALSE], userFuns' = [userFuns EXCEPT ![id] = NoOp],
         robbed' = IF handle[w].open /\ w \notin robbed THEN robbed ELSE robbed \cup ({userFuns[id]} \ {NoOp}),
         DeleteQuery(id), queryID' = queryID
  PROVE  /\ IdsOwned' /\ id \in Ids
         /\ userFuns' \in [Ids -> {NoOp} \cup Watches] /\ robbed' \in SUBSET Watches
         /\ handle' \in [Watches -> [id : 0..MaxWatch, kind : {"none", "failed", "rows", "changes"}, open : BOOLEAN]]
         /\ \A v \in Owners' : v \in Owners /\ handle'[v] = handle[v] /\ handle[v].id # id
  <1>0. /\ userFuns \in [Ids -> {NoOp} \cup Watches]
        /\ handle \in [Watches -> [id : 0..MaxWatch, kind : {"none", "failed", "rows", "changes"}, open : BOOLEAN]]
        /\ freeQueryIDs \in Seq(Ids) /\ robbed \in SUBSET Watches
    BY DEF DbTypeOK
  <1>1. id \in Ids
    BY DEF IdsOwned
  <1>2. /\ active'[id] = "none" /\ (\A i \in Ids : i # id => active'[i] = active[i])
        /\ IsInjective(freeQueryIDs')
        /\ Range(freeQueryIDs') \subseteq Range(freeQueryIDs) \cup {id} /\ \A i \in Range(freeQueryIDs') : i <= queryID
    BY <1>1, IdsDeleted
  <1>3. /\ userFuns' \in [Ids -> {NoOp} \cup Watches] /\ userFuns'[id] = NoOp
        /\ \A i \in Ids : i # id => userFuns'[i] = userFuns[i]
    BY <1>0, <1>1
  <1>4. /\ handle' \in [Watches -> [id : 0..MaxWatch, kind : {"none", "failed", "rows", "changes"}, open : BOOLEAN]]
        /\ \A v \in Watches : v # w => handle'[v] = handle[v]
        /\ ~handle'[w].open /\ handle'[w].id = handle[w].id /\ handle'[w].kind = handle[w].kind
    BY <1>0
  <1>5. robbed' \subseteq Watches /\ robbed \subseteq robbed' /\ robbed' \subseteq robbed \cup ({userFuns[id]} \ {NoOp})
    BY <1>0, <1>1
  <1>6. ASSUME NEW v \in Owners'
        PROVE  v \in Owners /\ v \in Watches /\ v # w /\ handle'[v] = handle[v] /\ handle[v].id \in Ids /\ handle[v].id # id
    <2>1. v \in Watches /\ handle'[v].open /\ v \notin robbed'
      BY <1>6 DEF Owners
    <2>2. v # w /\ handle'[v] = handle[v] /\ v \in Owners
      BY <1>4, <1>5, <2>1 DEF Owners
    <2>3. userFuns[handle[v].id] = v /\ v # NoOp /\ handle[v].id \in Ids
      BY <2>2, OwnerHas
    <2>4. CASE w \in Owners
      BY <2>2, <2>3, <2>4, OwnerHas
    <2>5. CASE w \notin Owners
      <3>1. robbed' = robbed \cup ({userFuns[id]} \ {NoOp})
        BY <2>5 DEF Owners
      <3>. QED  BY <2>1, <2>2, <2>3, <3>1
    <2>. QED  BY <2>2, <2>1, <2>3, <2>4, <2>5
  <1>7. ASSUME NEW i \in Ids, i # id, userFuns[i] \in Owners PROVE userFuns[i] \in Owners'
    <2>1. PICK v \in Owners : v = userFuns[i]
      BY <1>7
    <2>2. v \in Watches /\ handle[v].open /\ v \notin robbed /\ v # NoOp
      BY <2>1, OwnerHas
    <2>3. handle[v].id = i
      BY <2>1, <2>2 DEF IdsOwned
    <2>4. v # w /\ handle'[v] = handle[v]
      BY <1>4, <1>7, <2>2, <2>3
    <2>5. v # userFuns[id] \/ userFuns[id] = NoOp
      <3>1. userFuns[id] # NoOp => handle[userFuns[id]].id = id
        BY <1>1 DEF IdsOwned
      <3>. QED  BY <1>7, <2>3, <3>1
    <2>6. v \notin robbed'
      BY <1>5, <2>2, <2>5
    <2>. QED  BY <2>1, <2>2, <2>4, <2>6 DEF Owners
  <1>8. Range(freeQueryIDs) \subseteq Ids
    BY <1>0 DEF Range
  <1>9. \A i \in Range(freeQueryIDs') : i <= queryID' /\ userFuns'[i] = NoOp
    BY <1>2, <1>3, <1>8 DEF IdsOwned
  <1>10. \A i \in Ids : i > queryID' => userFuns'[i] = NoOp
    BY <1>3 DEF IdsOwned
  <1>11. ASSUME NEW i \in Ids, active'[i] # "none" PROVE userFuns'[i] \in Owners'
    <2>1. i # id /\ active[i] # "none"
      BY <1>2, <1>11
    <2>2. userFuns[i] \in Owners
      BY <2>1 DEF IdsOwned
    <2>. QED  BY <1>3, <1>7, <2>1, <2>2
  <1>12. ASSUME NEW i \in Ids, userFuns'[i] # NoOp
         PROVE  handle'[userFuns'[i]].id = i /\ (userFuns'[i] \in Owners' \/ handle'[userFuns'[i]].kind = "failed")
    <2>1. i # id /\ userFuns'[i] = userFuns[i]
      BY <1>3, <1>12
    <2>2. PICK v \in Watches : v = userFuns[i]
      BY <1>0, <1>12, <2>1
    <2>3. handle[v].id = i /\ (v \in Owners \/ handle[v].kind = "failed")
      BY <1>12, <2>1, <2>2 DEF IdsOwned
    <2>4. handle'[v] = handle[v]
      BY <1>4, <2>1, <2>3
    <2>. QED  BY <1>7, <2>1, <2>2, <2>3, <2>4
  <1>13. /\ \A v \in Watches : handle'[v].open => handle'[v].kind \in {"rows", "changes"}
         /\ \A v \in Watches : handle'[v].kind # "none" => handle'[v].id \in Ids
    <2>1. ASSUME NEW v \in Watches PROVE handle'[v].open => handle'[v].kind \in {"rows", "changes"}
      BY <1>4, <2>1 DEF IdsOwned
    <2>2. ASSUME NEW v \in Watches PROVE handle'[v].kind # "none" => handle'[v].id \in Ids
      BY <1>1, <1>4, <2>2 DEF IdsOwned
    <2>. QED  BY <2>1, <2>2
  <1>14. ASSUME NEW v \in robbed' PROVE handle'[v].kind # "none"
    <2>1. v \in Watches
      BY <1>5
    <2>2. handle[v].kind # "none"
      <3>1. CASE v \in robbed
        BY <3>1 DEF IdsOwned
      <3>2. CASE v = userFuns[id] /\ v # NoOp
        BY <1>1, <3>2, OwnerHas DEF IdsOwned
      <3>. QED  BY <1>5, <3>1, <3>2
    <2>. QED  BY <1>4, <2>1, <2>2
  <1>15. ASSUME NEW v \in Owners' PROVE userFuns'[handle'[v].id] = v /\ active'[handle'[v].id] = handle'[v].kind
    BY <1>2, <1>3, <1>6, OwnerHas
  <1>16. IdsOwned'
    BY <1>2, <1>9, <1>10, <1>11, <1>12, <1>13, <1>14, <1>15 DEF IdsOwned
  <1>. QED  BY <1>1, <1>3, <1>4, <1>5, <1>6, <1>16
-----------------------------------------------------------------------------
(* Steps that leave the table and what the owners know as they are. *)

LEMMA NothingFields ==
  /\ Nothing \in Outputs /\ Nothing.rows = {} /\ Nothing.added = {} /\ Nothing.removed = {}
  /\ Nothing.tick = NoTick
  BY DEF Nothing, Outputs

\* Once the output is cleared it spoils nothing.
LEMMA NothingClean == ASSUME out' = Nothing PROVE OutputClean'
  BY NothingFields DEF OutputClean

LEMMA TableIn == ASSUME DbTypeOK PROVE Table \subseteq Rows /\ Tick \in Nat /\ Tick > 0
  BY DEF DbTypeOK, Table, Tick, Last

\* The stack, the owners and the ids may change, but those who stay owners know and
\* will be told what they did before.
LEMMA OwnersStay ==
  ASSUME DbInv, DbTypeOK', IdsOwned', SubsRight',
         UNCHANGED <<hist, marked, torn, notifications, notifying, seen>>,
         \A v \in Owners' : /\ v \in Owners /\ handle'[v] = handle[v]
                            /\ funLastTick'[handle[v].id] = funLastTick[handle[v].id],
         \A i \in Ids : funLastTick'[i] \in {0, funLastTick[i]},
         WellStacked(stack'), HasLoop(stack') <=> HasLoop(stack),
         Todo(stack') = Todo(stack), Calls(stack') \subseteq Calls(stack),
         out'.tick <= Tick, disturbed => disturbed', ~disturbed' /\ OutputClean => OutputClean'
  PROVE  DbInv'
  <1>0. Tick' = Tick /\ Table' = Table /\ Queued' = Queued /\ Tick \in Nat
    BY TableIn DEF DbInv, Tick, Table, Queued
  <1>1. StackShape'
    BY DEF DbInv, StackShape
  <1>2. TicksPast'
    <2>1. ASSUME NEW i \in Ids PROVE funLastTick'[i] <= Tick
      <3>1. funLastTick[i] <= Tick
        BY DEF DbInv, TicksPast
      <3>2. funLastTick'[i] = 0 \/ funLastTick'[i] = funLastTick[i]
        OBVIOUS
      <3>. QED  BY <1>0, <3>1, <3>2
    <2>. QED  BY <1>0, <2>1 DEF DbInv, TicksPast
  <1>3. Pending => Pending'
    BY <1>0 DEF Pending
  <1>4. ASSUME MissedChanges PROVE MissedChanges'
    <2>1. ASSUME NEW v \in Owners', handle'[v].kind = "changes"
          PROVE  /\ Missed(v)' \subseteq Changed(funLastTick[handle[v].id])'
                 /\ \A c \in Calls(stack') :
                      c.changes /\ c.id = handle'[v].id => Missed(v)' \subseteq Changed(Since(c.tick))'
      <3>1. v \in Owners /\ handle'[v] = handle[v] /\ funLastTick'[handle[v].id] = funLastTick[handle[v].id]
        BY <2>1
      <3>2. Changed(funLastTick[handle[v].id])' = Changed(funLastTick[handle[v].id])
        BY <3>1 DEF Changed, Tick
      <3>3. ASSUME NEW c PROVE Changed(Since(c.tick))' = Changed(Since(c.tick))
        BY DEF Changed, Tick
      <3>4. Missed(v)' = Missed(v)
        BY <1>0 DEF Missed
      <3>5. /\ Missed(v) \subseteq Changed(funLastTick[handle[v].id])
            /\ \A c \in Calls(stack) : c.changes /\ c.id = handle[v].id => Missed(v) \subseteq Changed(Since(c.tick))
        BY <1>4, <2>1, <3>1 DEF MissedChanges
      <3>. QED  BY <3>1, <3>2, <3>3, <3>4, <3>5
    <2>. QED  BY <2>1 DEF MissedChanges
  <1>5. NothingQueued => NothingQueued'
    BY DEF NothingQueued
  <1>. QED  BY <1>1, <1>2, <1>3, <1>4, <1>5 DEF DbInv

LEMMA QuietStep ==
  ASSUME DbInv,
         UNCHANGED <<hist, marked, torn, notifications, notifying, handle, robbed, seen, active, userFuns,
                     funLastTick, freeQueryIDs, queryID>>,
         SubsRight',
         stack' \in Seq(Frames), WellStacked(stack'), HasLoop(stack') <=> HasLoop(stack),
         Todo(stack') = Todo(stack), Calls(stack') \subseteq Calls(stack),
         out' \in Outputs, out'.tick <= Tick,
         disturbed' \in BOOLEAN, disturbed => disturbed', ~disturbed' /\ OutputClean => OutputClean'
  PROVE  DbInv'
  <1>1. DbTypeOK'
    BY DEF DbInv, DbTypeOK
  <1>2. IdsOwned'
    BY IdsKept DEF DbInv
  <1>3. Owners' = Owners
    BY DEF Owners
  <1>4. \A i \in Ids : funLastTick'[i] \in {0, funLastTick[i]}
    OBVIOUS
  <1>5. \A v \in Owners' : /\ v \in Owners /\ handle'[v] = handle[v]
                           /\ funLastTick'[handle[v].id] = funLastTick[handle[v].id]
    BY <1>3
  <1>. QED  BY <1>1, <1>2, <1>4, <1>5, OwnersStay

LEMMA SubsKept ==
  ASSUME SubsRight, UNCHANGED <<hist, fs, subs>>
  PROVE  SubsRight'
  BY DEF SubsRight, Table

\* The stack stays, the output stays or is cleared.
LEMMA StackStays ==
  ASSUME DbInv, UNCHANGED <<hist, fs, subs, notifyVars, handle, robbed, seen, active, queryVars, disturbed, stack>>,
         out' \in {out, Nothing}
  PROVE  DbInv'
  <1>1. out' \in Outputs /\ out'.tick <= Tick
    BY NothingFields, TableIn DEF DbInv, DbTypeOK, TicksPast, NoTick
  <1>2. OutputClean => OutputClean'
    <2>1. CASE out' = Nothing
      BY <2>1, NothingClean
    <2>2. CASE out' = out
      BY <2>2 DEF OutputClean, Top, Queued, Changed, Table, Tick, notifyVars, queryVars
    <2>. QED  BY <2>1, <2>2
  <1>3. stack' \in Seq(Frames) /\ WellStacked(stack') /\ disturbed' \in BOOLEAN
    BY DEF DbInv, DbTypeOK, StackShape
  <1>4. SubsRight'
    BY SubsKept DEF DbInv
  <1>. QED  BY <1>1, <1>2, <1>3, <1>4, QuietStep DEF notifyVars, queryVars

\* Failures that have changed nothing, saving.
LEMMA QuietActionsInv ==
  ASSUME DbInv, save \/ (MainFails /\ stack' = stack)
  PROVE  DbInv'
  <1>1. UNCHANGED <<engineVars, notifyVars, queryVars, stack, handle, robbed, seen, disturbed, out>>
    BY DEF save, MainFails, ownerVars
  <1>. QED  BY <1>1, StackStays DEF engineVars, subVars

\* A watch whose query does not parse: nobody owns it.
LEMMA WatchFailsInv ==
  ASSUME DbInv, WatchFails
  PROVE  DbInv'
  <1>0. DbTypeOK /\ IdsOwned /\ funLastTick \in [Ids -> Nat] /\ stack \in Seq(Frames) /\ WellStacked(stack)
    BY DEF DbInv, DbTypeOK, StackShape
  <1>1. PICK id, w : id = NewId /\ w = NewWatch
    OBVIOUS
  <1>2. /\ TakesId /\ userFuns' = [userFuns EXCEPT ![id] = w] /\ funLastTick' = [funLastTick EXCEPT ![id] = 0]
        /\ handle' = [handle EXCEPT ![w] = [id |-> id, kind |-> "failed", open |-> FALSE]] /\ out' = Nothing
        /\ UNCHANGED <<hist, active, fs, subs, notifyVars, stack, robbed, seen, disturbed>>
    BY <1>1 DEF WatchFails, engineVars, subVars
  <1>3. id \in Ids /\ freeQueryIDs' \in Seq(Ids) /\ queryID' \in 0..MaxWatch
    BY <1>0, <1>1, <1>2, IdTaken
  <1>4. PICK kind, open : kind = "failed" /\ open = FALSE
    OBVIOUS
  <1>5. /\ handle' = [handle EXCEPT ![w] = [id |-> id, kind |-> kind, open |-> open]]
        /\ active' = IF open THEN [active EXCEPT ![id] = kind] ELSE active
        /\ kind \in {"failed", "rows", "changes"} /\ open \in BOOLEAN /\ (open <=> kind # "failed")
    BY <1>2, <1>4
  <1>6. /\ IdsOwned'
        /\ userFuns' \in [Ids -> {NoOp} \cup Watches] /\ active' \in [Ids -> {"none", "rows", "changes"}]
        /\ handle' \in [Watches -> [id : 0..MaxWatch, kind : {"none", "failed", "rows", "changes"}, open : BOOLEAN]]
        /\ \A v \in Owners' : (v = w /\ open) \/ (v \in Owners /\ v # w /\ handle'[v] = handle[v] /\ handle[v].id # id)
    BY <1>0, <1>1, <1>2, <1>5, WatchIds
  <1>7. /\ funLastTick' \in [Ids -> Nat] /\ (\A i \in Ids : i # id => funLastTick'[i] = funLastTick[i])
        /\ funLastTick'[id] = 0
    BY <1>0, <1>2, <1>3
  <1>8. DbTypeOK'
    BY <1>0, <1>2, <1>3, <1>6, <1>7, NothingFields DEF DbTypeOK, notifyVars
  <1>9. ASSUME NEW v \in Owners'
        PROVE  v \in Owners /\ handle'[v] = handle[v] /\ funLastTick'[handle[v].id] = funLastTick[handle[v].id]
    <2>1. v \in Owners /\ handle'[v] = handle[v] /\ handle[v].id # id
      BY <1>4, <1>6
    <2>2. handle[v].id \in Ids
      BY <1>0, <2>1, OwnerHas
    <2>. QED  BY <1>7, <2>1, <2>2
  <1>10. \A i \in Ids : funLastTick'[i] \in {0, funLastTick[i]}
    BY <1>7
  <1>11. SubsRight' /\ OutputClean'
    BY <1>2, SubsKept, NothingClean DEF DbInv
  <1>12. out'.tick <= Tick
    BY <1>2, NothingFields, TableIn DEF DbInv, NoTick
  <1>. QED  BY <1>0, <1>2, <1>6, <1>8, <1>9, <1>10, <1>11, <1>12, OwnersStay DEF notifyVars

\* exec and insertMany return, or insertMany throws.
LEMMA ReturnsInv ==
  ASSUME DbInv, \/ RunnerReturns \/ InsertManyReturns
                \/ (MainFails /\ Top.f = "many" /\ stack' = Pop)
  PROVE  DbInv'
  <1>1. UNCHANGED <<hist, active, fs, subs, notifyVars, userFuns, funLastTick, freeQueryIDs, queryID, handle, robbed, seen, disturbed>>
        /\ stack' = Pop /\ Top.f \in {"exec", "many"} /\ (out' = Nothing \/ (Top.f = "many" /\ out' = out))
    BY DEF RunnerReturns, InsertManyReturns, MainFails, AppRuns, engineVars, subVars, queryVars, ownerVars
  <1>2. stack \in Seq(Frames) /\ WellStacked(stack) /\ stack # <<>>
    BY <1>1, TopIs DEF DbInv, DbTypeOK, StackShape
  <1>3. stack' \in Seq(Frames) /\ Top \in Frames /\ stack = Append(stack', Top)
    BY <1>1, <1>2, Popped
  <1>4. PICK e \in Frames : e = Top
    BY <1>3
  <1>5. /\ WellStacked(stack') /\ (HasLoop(stack') <=> HasLoop(stack))
        /\ Todo(stack') = Todo(stack) /\ Calls(stack') = Calls(stack)
        /\ stack' = <<>> \/ Last(stack').f # "loop"
    BY <1>1, <1>2, <1>3, <1>4, CallPushed
  <1>6. SubsRight' /\ disturbed' \in BOOLEAN
    BY <1>1, SubsKept DEF DbInv, DbTypeOK
  <1>7. out' \in Outputs /\ out'.tick <= Tick
    BY <1>1, NothingFields, TableIn DEF DbInv, DbTypeOK, TicksPast, NoTick
  <1>8. OutputClean => OutputClean'
    <2>1. CASE out' = Nothing
      BY <2>1, NothingClean
    <2>2. CASE out' = out /\ Top.f = "many"
      <3>1. Top'.f # "loop"
        BY <1>5 DEF Top
      <3>2. notifying' = notifying /\ marked' = marked /\ Table' = Table
        BY <1>1 DEF notifyVars, Table
      <3>. QED  BY <2>2, <3>1, <3>2 DEF OutputClean
    <2>. QED  BY <1>1, <2>1, <2>2
  <1>. QED  BY <1>1, <1>3, <1>5, <1>6, <1>7, <1>8, QuietStep DEF notifyVars
-----------------------------------------------------------------------------
(* The page opens: nothing is watched, nothing waits. *)

Blank ==
  /\ hist = <<Image>> /\ fs = Files!Empty /\ subs = <<>> /\ active = [i \in Ids |-> "none"]
  /\ marked = {} /\ torn = FALSE /\ notifications = <<>> /\ notifying = FALSE
  /\ userFuns = [i \in Ids |-> NoOp] /\ funLastTick = [i \in Ids |-> 0]
  /\ freeQueryIDs = <<>> /\ queryID = 0 /\ out = Nothing /\ stack = <<>>
  /\ handle = [w \in Watches |-> NoHandle] /\ robbed = {}
  /\ seen = [w \in Watches |-> {}] /\ disturbed = FALSE

LEMMA BlankInv == Blank => DbInv
  <1>. SUFFICES ASSUME Blank PROVE DbInv
    OBVIOUS
  <1>1. MaxWatch \in Nat /\ Ids = 1..MaxWatch
    BY LocalDbConstants DEF Ids
  <1>2. Tick = 1 /\ Table = {}
    BY DEF Blank, Tick, Table, Last, Image
  <1>3. NoHandle \in [id : 0..MaxWatch, kind : {"none", "failed", "rows", "changes"}, open : BOOLEAN] /\ ~NoHandle.open /\ NoHandle.kind = "none"
    BY <1>1 DEF NoHandle
  <1>4. DbTypeOK
    <2>1. hist \in Seq(SUBSET Rows) /\ hist # <<>>
      BY DEF Blank, Image
    <2>2. out \in Outputs
      BY NothingFields DEF Blank
    <2>3. handle \in [Watches -> [id : 0..MaxWatch, kind : {"none", "failed", "rows", "changes"}, open : BOOLEAN]]
      BY <1>3 DEF Blank
    <2>4. queryID \in 0..MaxWatch /\ funLastTick \in [Ids -> Nat]
      BY <1>1 DEF Blank
    <2>5. active \in [Ids -> {"none", "rows", "changes"}] /\ userFuns \in [Ids -> {NoOp} \cup Watches]
      BY DEF Blank
    <2>6. notifications \in Seq(SUBSET Ids) /\ freeQueryIDs \in Seq(Ids) /\ stack \in Seq(Frames)
      BY DEF Blank
    <2>7. seen \in [Watches -> SUBSET (Rows \cup {Selected})]
      BY DEF Blank
    <2>8. marked \in SUBSET Ids /\ torn \in BOOLEAN /\ robbed \in SUBSET Watches /\ notifying \in BOOLEAN /\ disturbed \in BOOLEAN
      BY DEF Blank
    <2>. QED  BY <2>1, <2>2, <2>3, <2>4, <2>5, <2>6, <2>7, <2>8 DEF DbTypeOK
  <1>5. (\A w \in Watches : ~handle[w].open /\ handle[w].kind = "none") /\ Owners = {} /\ robbed = {}
    BY <1>3 DEF Blank, Owners
  <1>6. IdsOwned
    <2>1. Range(freeQueryIDs) = {} /\ IsInjective(freeQueryIDs)
      BY DEF Blank, Range, IsInjective
    <2>2. \A i \in Ids : userFuns[i] = NoOp /\ active[i] = "none"
      BY DEF Blank
    <2>. QED  BY <1>5, <2>1, <2>2 DEF IdsOwned
  <1>7. 1..Len(stack) = {} /\ 2..Len(stack) = {}
    BY DEF Blank
  <1>8. StackShape
    BY <1>7 DEF Blank, StackShape, WellStacked, HasLoop
  <1>9. SubsRight
    <2>1. FilesRight(fs, 0)
      <3>1. fs.files = <<>> /\ fs.fileDescrs = [n \in 1..0 |-> n]
            /\ fs = [fileDescrs |-> fs.fileDescrs, files |-> fs.files]
        BY DEF Blank, Files!Empty
      <3>. QED  BY <3>1 DEF FilesRight
    <2>2. subs \in Seq(SUBSET Rows) /\ Len(subs) = 0
      BY DEF Blank
    <2>. QED  BY <2>1, <2>2 DEF SubsRight
  <1>10. Calls(stack) = {}
    BY <1>7 DEF Calls
  <1>11. TicksPast
    <2>1. \A i \in Ids : funLastTick[i] = 0
      BY DEF Blank
    <2>. QED  BY <1>2, <1>10, <2>1, NothingFields DEF TicksPast, Blank, NoTick
  <1>12. Pending /\ MissedChanges /\ NothingQueued
    BY <1>5 DEF Pending, MissedChanges, NothingQueued, Blank
  <1>13. OutputClean
    BY NothingFields DEF OutputClean, Blank
  <1>. QED  BY <1>4, <1>6, <1>8, <1>9, <1>11, <1>12, <1>13 DEF DbInv

LEMMA InitDbInv == DbInit => DbInv
  BY BlankInv DEF DbInit, Blank

LEMMA ReloadInv == Reload => DbInv'
  <1>1. Reload => Blank'
    BY DEF Reload, Blank, Restored
  <1>. QED  BY <1>1, BlankInv, PTL
-----------------------------------------------------------------------------
(* Statements. *)

LEMMA BatchQueued ==
  ASSUME NEW q \in Seq(SUBSET Ids), NEW b \in SUBSET Ids
  PROVE  /\ Append(q, b) \in Seq(SUBSET Ids) /\ Append(q, b) # <<>>
         /\ UNION Range(Append(q, b)) = (UNION Range(q)) \cup b
  <1>. DEFINE a == Append(q, b)
              k == Len(q)
  <1>1. /\ k \in Nat /\ DOMAIN q = 1..k /\ DOMAIN a = 1..(k + 1)
        /\ a[k + 1] = b /\ (\A i \in 1..k : a[i] = q[i]) /\ a \in Seq(SUBSET Ids) /\ a # <<>>
    OBVIOUS
  <1>. HIDE DEF a, k
  <1>2. /\ \A i \in 1..(k + 1) : i \in 1..k \/ i = k + 1
        /\ \A i \in 1..k : i \in 1..(k + 1)
        /\ k + 1 \in 1..(k + 1)
    BY <1>1
  <1>3. Range(a) = Range(q) \cup {b}
    BY <1>1, <1>2 DEF Range
  <1>4. UNION Range(a) = (UNION Range(q)) \cup b
    <2>1. ASSUME NEW x PROVE x \in UNION Range(a) <=> x \in UNION Range(q) \/ x \in b
      BY <1>3
    <2>. QED  BY <2>1
  <1>. QED  BY <1>1, <1>4 DEF a

\* What main does in the end, over the frames of the call it is in: what the statement
\* has touched, and what earlier calls that failed have, is queued.
LEMMA MainNotifies ==
  ASSUME DbInv, NEW touched \in SUBSET Ids, NEW frames \in Seq(Frames), notifyAllJS(touched, frames),
         WellStacked(frames), HasLoop(frames) <=> HasLoop(stack), Todo(frames) = Todo(stack),
         Calls(frames) \subseteq Calls(stack), frames = <<>> \/ Last(frames).f # "loop"
  PROVE  /\ marked' = {} /\ torn' = FALSE /\ notifications' \in Seq(SUBSET Ids) /\ notifying' \in BOOLEAN
         /\ stack' \in Seq(Frames) /\ WellStacked(stack') /\ (HasLoop(stack') <=> notifying')
         /\ Calls(stack') \subseteq Calls(stack) /\ Queued' = Queued \cup marked \cup touched
         /\ (~notifying' => ~notifying /\ notifications' = notifications)
         /\ (Top'.f = "loop" => ~notifying /\ marked \cup touched # {})
         /\ (Top'.f # "loop" => stack' = frames)
  <1>. DEFINE all == marked \cup touched
  <1>1. all \in SUBSET Ids /\ notifying \in BOOLEAN /\ notifications \in Seq(SUBSET Ids) /\ (HasLoop(frames) <=> notifying)
    BY DEF DbInv, DbTypeOK, StackShape
  <1>2. /\ marked' = {} /\ torn' = FALSE /\ notifying' = (notifying \/ (all # {} /\ ~notifying))
        /\ notifications' = IF all = {} THEN notifications ELSE Append(notifications, all)
        /\ stack' = frames \o (IF all # {} /\ ~notifying THEN <<[f |-> "loop", todo |-> {}]>> ELSE <<>>)
    BY DEF notifyAllJS
  <1>3. Queued = (UNION Range(notifications)) \cup Todo(frames)
    BY DEF Queued
  <1>. HIDE DEF all
  <1>4. /\ notifications' \in Seq(SUBSET Ids)
        /\ UNION Range(notifications') = (UNION Range(notifications)) \cup all
    <2>1. CASE all = {}
      BY <1>1, <1>2, <2>1
    <2>2. CASE all # {}
      BY <1>1, <1>2, <2>2, BatchQueued
    <2>. QED  BY <2>1, <2>2
  <1>5. Queued' = (UNION Range(notifications')) \cup Todo(stack')
    BY DEF Queued
  <1>6. CASE all = {} \/ notifying
    <2>1. stack' = frames
      <3>1. stack' = frames \o <<>>
        BY <1>2, <1>6
      <3>2. frames \o <<>> = frames
        OBVIOUS
      <3>. QED  BY <3>1, <3>2
    <2>2. notifying' = notifying
      BY <1>1, <1>2, <1>6
    <2>3. Top'.f # "loop"
      BY <2>1 DEF Top
    <2>4. Queued' = Queued \cup all
      BY <1>3, <1>4, <1>5, <2>1
    <2>5. ~notifying' => notifications' = notifications
      BY <1>2, <1>6, <2>2
    <2>6. Queued \cup all = Queued \cup marked \cup touched
      BY DEF all
    <2>7. WellStacked(stack') /\ (HasLoop(stack') <=> notifying') /\ Calls(stack') \subseteq Calls(stack)
          /\ stack' \in Seq(Frames) /\ notifying' \in BOOLEAN
      BY <1>1, <2>1, <2>2
    <2>. QED  BY <1>2, <1>4, <2>1, <2>2, <2>3, <2>4, <2>5, <2>6, <2>7
  <1>7. CASE all # {} /\ ~notifying
    <2>. DEFINE e == [f |-> "loop", todo |-> {}]
    <2>1. stack' = frames \o <<e>> /\ notifying' = TRUE
      BY <1>1, <1>2, <1>7
    <2>2. e \in Frames /\ e.f = "loop" /\ e.todo = {}
      BY FramesMade
    <2>. HIDE DEF e
    <2>3. stack' = Append(frames, e)
      BY <2>1, <2>2
    <2>4. /\ Append(frames, e) \in Seq(Frames) /\ Append(frames, e) # <<>> /\ Last(Append(frames, e)) = e
          /\ HasLoop(Append(frames, e))
          /\ Todo(Append(frames, e)) = Todo(frames) \cup e.todo /\ Calls(Append(frames, e)) = Calls(frames)
          /\ WellStacked(Append(frames, e)) <=> WellStacked(frames) /\ ~HasLoop(frames)
      BY <2>2, LoopPushed
    <2>5. /\ stack' \in Seq(Frames) /\ stack' # <<>> /\ Last(stack') = e /\ HasLoop(stack')
          /\ Todo(stack') = Todo(frames) /\ Calls(stack') = Calls(frames) /\ WellStacked(stack')
      BY <1>1, <1>7, <2>2, <2>3, <2>4
    <2>6. Top'.f = "loop"
      BY <2>2, <2>5 DEF Top
    <2>7. Queued' = Queued \cup all
      BY <1>3, <1>4, <1>5, <2>5
    <2>. QED  BY <1>2, <1>4, <1>7, <2>1, <2>5, <2>6, <2>7 DEF all
  <1>. QED  BY <1>6, <1>7

\* A call that leaves the table as it is.
LEMMA MainInv ==
  ASSUME DbInv, UNCHANGED <<hist, active, queryVars, handle, robbed, seen>>, SubsRight',
         NEW frames \in Seq(Frames), notifyAllJS({}, frames),
         WellStacked(frames), HasLoop(frames) <=> HasLoop(stack), Todo(frames) = Todo(stack),
         Calls(frames) \subseteq Calls(stack), frames = <<>> \/ Last(frames).f # "loop",
         disturbed' \in BOOLEAN, disturbed => disturbed',
         out' \in Outputs, out'.tick <= Tick,
         ~disturbed' /\ ~notifying /\ (marked # {} \/ frames = <<>> \/ Last(frames).f # "exec")
           => /\ out'.rows \subseteq Table /\ out'.added = {} /\ out'.removed = {}
              /\ marked # {} => out'.rows \in {{}, Table}
  PROVE  DbInv'
  <1>1. /\ marked' = {} /\ torn' = FALSE /\ notifications' \in Seq(SUBSET Ids) /\ notifying' \in BOOLEAN
        /\ stack' \in Seq(Frames) /\ WellStacked(stack') /\ (HasLoop(stack') <=> notifying')
        /\ Calls(stack') \subseteq Calls(stack) /\ Queued' = Queued \cup marked
        /\ (~notifying' => ~notifying /\ notifications' = notifications)
        /\ (Top'.f = "loop" => ~notifying /\ marked # {})
        /\ (Top'.f # "loop" => stack' = frames)
    <2>1. PICK none \in SUBSET Ids : none = {}
      OBVIOUS
    <2>2. /\ marked' = {} /\ torn' = FALSE /\ notifications' \in Seq(SUBSET Ids) /\ notifying' \in BOOLEAN
          /\ stack' \in Seq(Frames) /\ WellStacked(stack') /\ (HasLoop(stack') <=> notifying')
          /\ Calls(stack') \subseteq Calls(stack) /\ Queued' = Queued \cup marked \cup none
          /\ (~notifying' => ~notifying /\ notifications' = notifications)
          /\ (Top'.f = "loop" => ~notifying /\ marked \cup none # {})
          /\ (Top'.f # "loop" => stack' = frames)
      BY <2>1, MainNotifies
    <2>. QED  BY <2>1, <2>2
  <1>2. Tick' = Tick /\ Table' = Table /\ Owners' = Owners
    BY DEF Tick, Table, Owners
  <1>3. DbTypeOK'
    BY <1>1 DEF DbInv, DbTypeOK, queryVars
  <1>4. IdsOwned'
    BY IdsKept DEF DbInv, queryVars
  <1>5. StackShape'
    BY <1>1 DEF StackShape
  <1>6. TicksPast'
    BY <1>1, <1>2 DEF DbInv, TicksPast, queryVars
  <1>7. Pending => Pending'
    BY <1>1, <1>2 DEF Pending
  <1>8. MissedChanges => MissedChanges'
    BY <1>1, <1>2 DEF MissedChanges, Missed, Changed, queryVars
  <1>9. NothingQueued => NothingQueued'
    BY <1>1 DEF NothingQueued
  <1>10. ~disturbed' => OutputClean'
    <2>1. Top'.f \in {"user", "callback", "many"} => frames = <<>> \/ Last(frames).f # "exec"
      BY <1>1 DEF Top
    <2>. QED  BY <1>1, <1>2, <2>1 DEF OutputClean
  <1>. QED  BY <1>3, <1>4, <1>5, <1>6, <1>7, <1>8, <1>9, <1>10 DEF DbInv

\* The output while the application, or insertMany, runs and no loop does.
LEMMA OutputThen ==
  ASSUME DbInv, Top.f \in {"user", "callback", "many"}, ~disturbed, ~notifying
  PROVE  out.rows \subseteq Table /\ out.added = {} /\ out.removed = {} /\ (marked # {} => out.rows \in {{}, Table})
  BY DEF DbInv, OutputClean

\* Text, and statements about other tables.
LEMMA SchemaInv ==
  ASSUME DbInv, schema
  PROVE  DbInv'
  <1>0. stack \in Seq(Frames) /\ WellStacked(stack) /\ out \in Outputs /\ out.tick <= Tick /\ disturbed \in BOOLEAN
    BY DEF DbInv, DbTypeOK, StackShape, TicksPast
  <1>1. /\ Top.f \in {"user", "callback"} /\ notifyAllJS({}, stack)
        /\ UNCHANGED <<hist, active, fs, subs, queryVars, out, handle, robbed, seen, disturbed>>
    BY DEF schema, AppRuns, engineVars, subVars
  <1>2. stack = <<>> \/ Last(stack).f # "loop"
    BY <1>0, <1>1, TopIs
  <1>3. SubsRight'
    BY <1>1, SubsKept DEF DbInv
  <1>. QED  BY <1>0, <1>1, <1>2, <1>3, OutputThen, MainInv

\* subscribe: a watched file for one more owner, who knows the table.
LEMMA SubscribeInv ==
  ASSUME DbInv, subscribe
  PROVE  DbInv'
  <1>1. /\ UNCHANGED <<hist, active, queryVars, out, handle, robbed, seen, disturbed>>
        /\ Top.f \in {"user", "callback"} /\ notifyAllJS({}, stack)
        /\ fs' = Files!watchFile(fs, Len(subs) + 1, Len(subs) + 1) /\ subs' = Append(subs, Table)
    BY DEF subscribe, AppRuns
  <1>. DEFINE k == Len(subs)
              F == fs.files
              new == [changes |-> <<>>, options |-> {}, withChange |-> FALSE, onChange |-> k + 1]
  <1>2. /\ subs \in Seq(SUBSET Rows) /\ k \in Nat /\ F \in Seq(ClosedFiles) /\ Len(F) = k
        /\ fs.fileDescrs = [n \in 1..k |-> n] /\ (\A n \in 1..k : F[n].onChange = n)
        /\ \A n \in 1..k : subs[n] = Table
    BY DEF DbInv, SubsRight, FilesRight
  <1>3. new \in ClosedFiles /\ new.onChange = k + 1
    BY <1>2 DEF ClosedFiles
  <1>4. fs' = [fileDescrs |-> [n \in 1..(k + 1) |-> n], files |-> Append(F, new)]
    <2>1. Files!Described(fs, k + 1) = [n \in 1..(k + 1) |-> n]
      <3>1. DOMAIN fs.fileDescrs \cup {k + 1} = 1..(k + 1)
        BY <1>2
      <3>2. \A n \in 1..(k + 1) : (IF n = k + 1 THEN Len(fs.files) + 1 ELSE fs.fileDescrs[n]) = n
        BY <1>2
      <3>. QED  BY <3>1, <3>2 DEF Files!Described
    <2>2. Files!NewFile({}, k + 1) = new
      BY DEF Files!NewFile
    <2>. HIDE DEF new
    <2>. QED  BY <1>1, <2>1, <2>2 DEF Files!watchFile
  <1>. HIDE DEF new
  <1>5. FilesRight(fs', k + 1)
    <2>. DEFINE G == Append(F, new)
    <2>1. G \in Seq(ClosedFiles) /\ Len(G) = k + 1 /\ \A n \in 1..(k + 1) : G[n].onChange = n
      <3>1. G \in Seq(ClosedFiles) /\ Len(G) = k + 1 /\ G[k + 1] = new /\ \A n \in 1..k : G[n] = F[n]
        BY <1>2, <1>3
      <3>2. \A n \in 1..(k + 1) : n \in 1..k \/ n = k + 1
        BY <1>2
      <3>. QED  BY <1>2, <1>3, <3>1, <3>2
    <2>. HIDE DEF G
    <2>2. fs' = [fileDescrs |-> [n \in 1..(k + 1) |-> n], files |-> G]
      BY <1>4 DEF G
    <2>3. fs'.files = G
      BY <2>2
    <2>. QED  BY <2>1, <2>2, <2>3 DEF FilesRight
  <1>6. SubsRight'
    <2>1. Table \in SUBSET Rows /\ Table' = Table
      BY <1>1, TableIn DEF DbInv, Table
    <2>2. /\ subs' \in Seq(SUBSET Rows) /\ Len(subs') = k + 1 /\ subs'[k + 1] = Table
          /\ \A n \in 1..k : subs'[n] = subs[n]
      BY <1>1, <1>2, <2>1
    <2>3. \A n \in 1..(k + 1) : n \in 1..k \/ n = k + 1
      BY <1>2
    <2>4. \A n \in 1..(k + 1) : subs'[n] = Table
      BY <1>2, <2>2, <2>3
    <2>. QED  BY <1>5, <2>1, <2>2, <2>4 DEF SubsRight
  <1>7. stack \in Seq(Frames) /\ WellStacked(stack) /\ out \in Outputs /\ out.tick <= Tick /\ disturbed \in BOOLEAN
    BY DEF DbInv, DbTypeOK, StackShape, TicksPast
  <1>8. stack = <<>> \/ Last(stack).f # "loop"
    BY <1>1, <1>7, TopIs
  <1>. QED  BY <1>1, <1>6, <1>7, <1>8, OutputThen, MainInv

\* A frame of insertMany on the stack, over the application.
LEMMA InsertManyInv ==
  ASSUME DbInv, insertMany
  PROVE  DbInv'
  <1>0. stack \in Seq(Frames) /\ WellStacked(stack) /\ out \in Outputs /\ out.tick <= Tick /\ disturbed \in BOOLEAN
    BY DEF DbInv, DbTypeOK, StackShape, TicksPast
  <1>1. PICK left \in SUBSET Rows : notifyAllJS({}, Append(stack, [f |-> "many", left |-> left]))
    BY DEF insertMany
  <1>2. /\ Top.f \in {"user", "callback"}
        /\ UNCHANGED <<hist, active, fs, subs, queryVars, out, handle, robbed, seen, disturbed>>
    BY DEF insertMany, AppRuns, engineVars, subVars
  <1>3. PICK e \in Frames : e.f = "many" /\ notifyAllJS({}, Append(stack, e))
    BY <1>1, FramesMade
  <1>4. stack = <<>> \/ Last(stack).f # "loop"
    BY <1>0, <1>2, TopIs
  <1>. DEFINE frames == Append(stack, e)
  <1>5. /\ frames \in Seq(Frames) /\ frames # <<>> /\ Last(frames) = e /\ WellStacked(frames)
        /\ (HasLoop(frames) <=> HasLoop(stack)) /\ Todo(frames) = Todo(stack) /\ Calls(frames) = Calls(stack)
    BY <1>0, <1>3, <1>4, CallPushed
  <1>6. notifyAllJS({}, frames) /\ Last(frames).f # "loop" /\ Calls(frames) \subseteq Calls(stack)
    BY <1>3, <1>5
  <1>7. SubsRight'
    BY <1>2, SubsKept DEF DbInv
  <1>. HIDE DEF frames
  <1>. QED  BY <1>0, <1>2, <1>5, <1>6, <1>7, OutputThen, MainInv

\* What an owner has missed grows by what the transaction changes, and so does what
\* it will be told.
LEMMA MissedGrows ==
  ASSUME DbTypeOK, TicksPast, MissedChanges, NEW next \in SUBSET Rows, hist' = Append(hist, next), Table' = next,
         UNCHANGED <<seen, handle, robbed, funLastTick>>, IdsOwned, Calls(stack') \subseteq Calls(stack)
  PROVE  MissedChanges'
  <1>0. /\ hist \in Seq(SUBSET Rows) /\ hist # <<>> /\ funLastTick \in [Ids -> Nat]
        /\ stack \in Seq(Frames) /\ \A i \in Ids : funLastTick[i] <= Tick
    BY DEF DbTypeOK, TicksPast
  <1>1. /\ Tick \in Nat /\ Tick' = Tick + 1
        /\ \A s \in 0..Tick : Changed(s)' = Changed(s) \cup Diff(next, Table)
    BY <1>0, ChangedGrows
  <1>2. \A i \in Ids : funLastTick[i] \in 0..Tick
    BY <1>0, <1>1
  <1>3. \A c \in Calls(stack) : Since(c.tick) \in 0..Tick
    <2>1. ASSUME NEW c \in Calls(stack) PROVE c.tick \in {NoTick} \cup Nat /\ c.tick <= Tick
      <3>1. PICK n \in 1..Len(stack) : c = stack[n] /\ stack[n].f = "callback"
        BY DEF Calls
      <3>2. c \in Frames /\ c.f = "callback"
        BY <1>0, <3>1
      <3>. QED  BY <3>2, FrameFields DEF TicksPast
    <2>. QED  BY <1>1, <2>1 DEF Since, NoTick
  <1>4. ASSUME NEW w PROVE Missed(w)' \subseteq Missed(w) \cup Diff(next, Table)
    BY DEF Missed, Diff
  <1>5. ASSUME NEW w \in Owners, handle[w].kind = "changes"
        PROVE  /\ Missed(w)' \subseteq Changed(funLastTick[handle[w].id])'
               /\ \A c \in Calls(stack') :
                    c.changes /\ c.id = handle[w].id => Missed(w)' \subseteq Changed(Since(c.tick))'
    <2>1. handle[w].id \in Ids
      BY <1>5, OwnerHas
    <2>2. Missed(w) \subseteq Changed(funLastTick[handle[w].id])
      BY <1>5 DEF MissedChanges
    <2>3. Changed(funLastTick[handle[w].id])' = Changed(funLastTick[handle[w].id]) \cup Diff(next, Table)
      <3>1. PICK s \in 0..Tick : s = funLastTick[handle[w].id]
        BY <1>2, <2>1
      <3>2. Changed(s)' = Changed(s) \cup Diff(next, Table)
        BY <1>1
      <3>3. Changed(funLastTick[handle[w].id])' = Changed(s)'
        BY <3>1 DEF Changed, Tick
      <3>. QED  BY <3>1, <3>2, <3>3
    <2>4. ASSUME NEW c \in Calls(stack'), c.changes /\ c.id = handle[w].id
          PROVE  Missed(w)' \subseteq Changed(Since(c.tick))'
      <3>1. c \in Calls(stack)
        BY <2>4
      <3>2. Missed(w) \subseteq Changed(Since(c.tick))
        BY <1>5, <2>4, <3>1 DEF MissedChanges
      <3>3. Changed(Since(c.tick))' = Changed(Since(c.tick)) \cup Diff(next, Table)
        BY <1>1, <1>3, <3>1
      <3>. QED  BY <1>4, <3>2, <3>3
    <2>. QED  BY <1>4, <2>2, <2>3, <2>4
  <1>6. Owners' = Owners
    BY DEF Owners
  <1>. QED  BY <1>5, <1>6 DEF MissedChanges

\* What a statement that changes the table does, before main looks for queries to
\* notify: every owner's query is touched and has changes to print.
LEMMA Transaction ==
  ASSUME DbInv, NEW next \in SUBSET Rows, next # Table, Writes(next), Calls(stack') \subseteq Calls(stack),
         UNCHANGED <<active, queryVars, handle, robbed, seen>>, out' \in Outputs, out'.tick <= Tick
  PROVE  /\ SubsRight' /\ Table' = next /\ hist' \in Seq(SUBSET Rows) /\ hist' # <<>> /\ IdsOwned' /\ TicksPast'
         /\ MissedChanges => MissedChanges'
         /\ Touched(next) \in SUBSET Ids /\ \A w \in Owners' : handle'[w].id \in Touched(next)
         /\ \A i \in Ids : Changed(funLastTick[i])' # {}
  <1>0. DbTypeOK /\ IdsOwned /\ SubsRight /\ TicksPast /\ hist \in Seq(SUBSET Rows) /\ hist # <<>>
    BY DEF DbInv, DbTypeOK
  <1>1. /\ SubsRight' /\ Table' = next /\ hist' \in Seq(SUBSET Rows) /\ hist' # <<>>
        /\ hist' = Append(hist, next)
    BY <1>0, TransactionHeard
  <1>2. /\ Tick \in Nat /\ Tick' = Tick + 1
        /\ \A s \in 0..Tick : Changed(s)' = Changed(s) \cup Diff(next, Table)
    BY <1>0, <1>1, ChangedGrows
  <1>3. IdsOwned'
    BY <1>0, IdsKept DEF queryVars
  <1>4. TicksPast'
    <2>1. funLastTick' = funLastTick /\ funLastTick \in [Ids -> Nat] /\ out'.tick \in Int
      BY <1>0 DEF queryVars, DbTypeOK, Outputs, NoTick
    <2>2. \A i \in Ids : funLastTick'[i] <= Tick'
      BY <1>0, <1>2, <2>1 DEF TicksPast
    <2>3. ASSUME NEW c \in Calls(stack') PROVE c.tick <= Tick'
      <3>1. c \in Calls(stack)
        OBVIOUS
      <3>2. PICK n \in 1..Len(stack) : c = stack[n] /\ stack[n].f = "callback"
        BY <3>1 DEF Calls
      <3>3. c \in Frames /\ c.f = "callback"
        BY <1>0, <3>2 DEF DbTypeOK
      <3>4. c.tick \in {NoTick} \cup Nat /\ c.tick <= Tick
        BY <1>0, <3>1, <3>3, FrameFields DEF TicksPast
      <3>. QED  BY <1>2, <3>4 DEF NoTick
    <2>4. out'.tick <= Tick'
      BY <1>2, <2>1
    <2>. QED  BY <2>2, <2>3, <2>4 DEF TicksPast
  <1>5. MissedChanges => MissedChanges'
    BY <1>0, <1>1, MissedGrows DEF queryVars
  <1>6. Touched(next) \in SUBSET Ids /\ \A w \in Owners' : handle'[w].id \in Touched(next)
    <2>1. Touched(next) = {i \in Ids : active[i] # "none"}
      BY DEF Touched
    <2>2. ASSUME NEW w \in Owners PROVE handle[w].id \in Ids /\ active[handle[w].id] # "none"
      BY <1>0, OwnerHas
    <2>3. Owners' = Owners
      BY DEF Owners
    <2>. QED  BY <2>1, <2>2, <2>3
  <1>7. ASSUME NEW i \in Ids PROVE Changed(funLastTick[i])' # {}
    <2>1. PICK s \in 0..Tick : s = funLastTick[i]
      BY <1>0, <1>2 DEF DbTypeOK, TicksPast
    <2>2. Changed(s)' = Changed(s) \cup Diff(next, Table)
      BY <1>2
    <2>3. Diff(next, Table) # {}
      BY DEF Diff
    <2>4. Changed(funLastTick[i])' = Changed(s)'
      BY <2>1 DEF Changed, Tick, queryVars
    <2>. QED  BY <2>2, <2>3, <2>4
  <1>. QED  BY <1>1, <1>3, <1>4, <1>5, <1>6, <1>7

\* A statement that changes the table, in whatever call it is made: every owner
\* waits to be told.
LEMMA TransactionInv ==
  ASSUME DbInv, NEW next \in SUBSET Rows, next # Table, Writes(next),
         NEW frames \in Seq(Frames), notifyAllJS(Touched(next), frames),
         WellStacked(frames), HasLoop(frames) <=> HasLoop(stack), Todo(frames) = Todo(stack),
         Calls(frames) \subseteq Calls(stack), frames = <<>> \/ Last(frames).f # "loop",
         UNCHANGED <<active, queryVars, handle, robbed, seen>>,
         disturbed' \in BOOLEAN, disturbed => disturbed',
         out' \in Outputs, out'.tick <= Tick,
         ~disturbed' /\ ~notifying /\ (marked \cup Touched(next) # {} \/ frames = <<>> \/ Last(frames).f # "exec")
           => out'.rows \subseteq next /\ out'.added = {} /\ out'.removed = {}
  PROVE  DbInv'
  <1>0. Touched(next) \in SUBSET Ids
    BY DEF Touched
  <1>1. /\ marked' = {} /\ torn' = FALSE /\ notifications' \in Seq(SUBSET Ids) /\ notifying' \in BOOLEAN
        /\ stack' \in Seq(Frames) /\ WellStacked(stack') /\ (HasLoop(stack') <=> notifying')
        /\ Calls(stack') \subseteq Calls(stack) /\ Queued' = Queued \cup marked \cup Touched(next)
        /\ (~notifying' => ~notifying /\ notifications' = notifications)
        /\ (Top'.f = "loop" => ~notifying /\ marked \cup Touched(next) # {})
        /\ (Top'.f # "loop" => stack' = frames)
    BY <1>0, MainNotifies
  <1>2. /\ SubsRight' /\ Table' = next /\ hist' \in Seq(SUBSET Rows) /\ hist' # <<>> /\ IdsOwned' /\ TicksPast'
        /\ MissedChanges => MissedChanges'
        /\ \A w \in Owners' : handle'[w].id \in Touched(next)
        /\ \A i \in Ids : Changed(funLastTick[i])' # {}
    BY <1>1, Transaction
  <1>3. DbTypeOK'
    BY <1>1, <1>2 DEF DbInv, DbTypeOK, queryVars
  <1>4. StackShape'
    BY <1>1 DEF StackShape
  <1>5. ASSUME ~disturbed' PROVE Pending' /\ MissedChanges' /\ OutputClean' /\ NothingQueued'
    <2>1. MissedChanges /\ NothingQueued
      BY <1>5 DEF DbInv
    <2>2. Pending'
      BY <1>1, <1>2 DEF Pending
    <2>3. NothingQueued'
      BY <1>1, <2>1 DEF NothingQueued
    <2>4. Queued' \subseteq Ids
      <3>1. UNION Range(notifications') \subseteq Ids
        BY <1>1 DEF Range
      <3>2. Todo(stack') \subseteq Ids
        <4>1. \A n \in 1..Len(stack') : stack'[n] \in Frames
          BY <1>1
        <4>. QED  BY <4>1, FrameFields DEF Todo
      <3>. QED  BY <3>1, <3>2 DEF Queued
    <2>5. Top'.f \in {"user", "callback", "many"} => frames = <<>> \/ Last(frames).f # "exec"
      BY <1>1 DEF Top
    <2>6. ASSUME Top'.f = "loop" \/ (~notifying' /\ Top'.f \in {"user", "callback", "many"})
          PROVE  out'.rows \subseteq next /\ out'.added = {} /\ out'.removed = {}
      BY <1>1, <1>5, <2>5, <2>6
    <2>7. OutputClean'
      BY <1>1, <1>2, <2>4, <2>6 DEF OutputClean
    <2>. QED  BY <1>2, <2>1, <2>2, <2>3, <2>7
  <1>. QED  BY <1>2, <1>3, <1>4, <1>5 DEF DbInv

\* Any statement.
LEMMA StatementInv ==
  ASSUME DbInv, NEW next \in SUBSET Rows, Writes(next),
         NEW frames \in Seq(Frames), notifyAllJS(Touched(next), frames),
         WellStacked(frames), HasLoop(frames) <=> HasLoop(stack), Todo(frames) = Todo(stack),
         Calls(frames) \subseteq Calls(stack), frames = <<>> \/ Last(frames).f # "loop",
         UNCHANGED <<active, queryVars, handle, robbed, seen>>,
         disturbed' \in BOOLEAN, disturbed => disturbed',
         out' \in Outputs, out'.tick <= Tick,
         ~disturbed' /\ ~notifying /\ (marked \cup Touched(next) # {} \/ frames = <<>> \/ Last(frames).f # "exec")
           => /\ out'.rows \subseteq next /\ out'.added = {} /\ out'.removed = {}
              /\ next = Table /\ marked # {} => out'.rows \in {{}, Table}
  PROVE  DbInv'
  <1>1. CASE next = Table
    <2>1. Touched(next) = {} /\ UNCHANGED <<hist, fs, subs>>
      BY <1>1 DEF Touched, Writes, subVars
    <2>2. SubsRight'
      BY <2>1, SubsKept DEF DbInv
    <2>3. notifyAllJS({}, frames)
      BY <2>1
    <2>. QED  BY <1>1, <2>1, <2>2, <2>3, MainInv
  <1>2. CASE next # Table
    BY <1>2, TransactionInv
  <1>. QED  BY <1>1, <1>2

LEMMA OutputFields ==
  ASSUME NEW selects \in BOOLEAN
  PROVE  /\ Output(selects) \in Outputs /\ Output(selects).tick = NoTick
         /\ Output(selects).added = {} /\ Output(selects).removed = {}
         /\ ~selects => Output(selects) = Nothing /\ Output(selects).rows = {}
  <1>1. Output(selects) = [rows |-> IF selects THEN {Selected} ELSE {}, added |-> {}, removed |-> {}, tick |-> NoTick]
    BY DEF Output, Nothing
  <1>. QED  BY <1>1 DEF Outputs, Nothing

LEMMA ExecInv ==
  ASSUME DbInv, exec
  PROVE  DbInv'
  <1>0. Table \subseteq Rows /\ Tick \in Nat /\ stack \in Seq(Frames) /\ WellStacked(stack) /\ disturbed \in BOOLEAN
    BY TableIn DEF DbInv, DbTypeOK, StackShape
  <1>1. PICK next \in Nexts, selects \in BOOLEAN :
          /\ Top.f \in {"user", "callback"}
          /\ disturbed' = (disturbed \/ (selects /\ marked \cup Touched(next) # {}))
          /\ Writes(next) /\ out' = Output(selects)
          /\ notifyAllJS(Touched(next), Append(stack, [f |-> "exec"]))
          /\ UNCHANGED <<active, queryVars, handle, robbed, seen>>
    BY DEF exec, AppRuns
  <1>2. next \in SUBSET Rows
    BY <1>0 DEF Nexts
  <1>3. PICK e \in Frames : e = [f |-> "exec"] /\ e.f = "exec"
    BY FramesMade
  <1>. DEFINE frames == Append(stack, e)
  <1>4. stack = <<>> \/ Last(stack).f # "loop"
    BY <1>0, <1>1, TopIs
  <1>5. /\ frames \in Seq(Frames) /\ frames # <<>> /\ Last(frames) = e
        /\ HasLoop(frames) <=> HasLoop(stack)
        /\ Todo(frames) = Todo(stack) /\ Calls(frames) = Calls(stack) /\ WellStacked(frames)
    BY <1>0, <1>3, <1>4, CallPushed
  <1>6. /\ out' \in Outputs /\ out'.tick = NoTick /\ out'.added = {} /\ out'.removed = {}
        /\ ~selects => out'.rows = {}
    BY <1>1, OutputFields
  <1>7. out'.tick <= Tick
    BY <1>0, <1>6 DEF NoTick
  <1>8. disturbed' \in BOOLEAN /\ (disturbed => disturbed') /\ (~disturbed' /\ marked \cup Touched(next) # {} => ~selects)
    BY <1>0, <1>1
  <1>9. notifyAllJS(Touched(next), frames)
    BY <1>1, <1>3
  <1>10. ~disturbed' /\ ~notifying /\ (marked \cup Touched(next) # {} \/ frames = <<>> \/ Last(frames).f # "exec")
           => /\ out'.rows \subseteq next /\ out'.added = {} /\ out'.removed = {}
              /\ next = Table /\ marked # {} => out'.rows \in {{}, Table}
    BY <1>3, <1>5, <1>6, <1>8
  <1>11. Last(frames).f # "loop" /\ Calls(frames) \subseteq Calls(stack)
    BY <1>3, <1>5
  <1>12. Writes(next) /\ UNCHANGED <<active, queryVars, handle, robbed, seen>>
    BY <1>1
  <1>. HIDE DEF frames
  <1>. QED  BY <1>2, <1>5, <1>6, <1>7, <1>8, <1>9, <1>10, <1>11, <1>12, StatementInv

\* An exec that fails half-way: its transactions are made, and their queries marked for
\* whichever call of main comes next.
LEMMA ExecFailsInv ==
  ASSUME DbInv, ExecFails
  PROVE  DbInv'
  <1>0. /\ Table \subseteq Rows /\ Tick \in Nat /\ stack \in Seq(Frames) /\ WellStacked(stack)
        /\ disturbed \in BOOLEAN /\ torn \in BOOLEAN /\ marked \in SUBSET Ids
    BY TableIn DEF DbInv, DbTypeOK, StackShape
  <1>1. PICK next \in Nexts, selects \in BOOLEAN :
          /\ disturbed' = (disturbed \/ selects) /\ Writes(next) /\ out' = Output(selects)
          /\ marked' = marked \cup Touched(next) /\ torn' = (torn \/ Touched(next) # {})
          /\ UNCHANGED <<active, notifications, notifying, queryVars, stack, handle, robbed, seen>>
    BY DEF ExecFails
  <1>2. next \in SUBSET Rows
    BY <1>0 DEF Nexts
  <1>3. out' \in Outputs /\ out'.tick <= Tick /\ (~selects => out' = Nothing)
    <2>1. out' \in Outputs /\ out'.tick = NoTick /\ (~selects => out' = Nothing)
      BY <1>1, OutputFields
    <2>. QED  BY <1>0, <2>1 DEF NoTick
  <1>4. disturbed' \in BOOLEAN /\ (disturbed => disturbed') /\ (~disturbed' => ~selects)
    BY <1>0, <1>1
  <1>5. ~disturbed' => OutputClean'
    BY <1>3, <1>4, NothingClean
  <1>6. CASE next = Table
    <2>1. Touched(next) = {} /\ UNCHANGED <<hist, fs, subs>>
      BY <1>1, <1>6 DEF Touched, Writes, subVars
    <2>2. marked' = marked /\ torn' = torn
      BY <1>0, <1>1, <2>1
    <2>3. SubsRight'
      BY <2>1, SubsKept DEF DbInv
    <2>. QED  BY <1>0, <1>1, <1>3, <1>4, <1>5, <2>1, <2>2, <2>3, QuietStep DEF queryVars
  <1>7. CASE next # Table
    <2>1. /\ SubsRight' /\ Table' = next /\ hist' \in Seq(SUBSET Rows) /\ hist' # <<>> /\ IdsOwned' /\ TicksPast'
          /\ MissedChanges => MissedChanges'
          /\ Touched(next) \in SUBSET Ids /\ \A w \in Owners' : handle'[w].id \in Touched(next)
      BY <1>1, <1>2, <1>3, <1>7, Transaction
    <2>2. torn' \in BOOLEAN /\ marked' \in SUBSET Ids
      BY <1>0, <1>1, <2>1
    <2>3. DbTypeOK'
      BY <1>1, <1>3, <1>4, <2>1, <2>2 DEF DbInv, DbTypeOK, queryVars
    <2>4. StackShape'
      BY <1>1 DEF DbInv, StackShape
    <2>5. Pending => Pending'
      <3>1. \A w \in Owners' : handle'[w].id \in marked'
        BY <1>1, <2>1
      <3>2. (marked # {} => torn) => (marked' # {} => torn')
        BY <1>0, <1>1
      <3>. QED  BY <3>1, <3>2 DEF Pending
    <2>6. NothingQueued => NothingQueued'
      BY <1>1 DEF NothingQueued
    <2>. QED  BY <1>4, <1>5, <2>1, <2>3, <2>4, <2>5, <2>6 DEF DbInv
  <1>. QED  BY <1>6, <1>7

LEMMA InsertInv ==
  ASSUME DbInv, insert
  PROVE  DbInv'
  <1>0. Table \subseteq Rows /\ stack \in Seq(Frames) /\ WellStacked(stack) /\ out \in Outputs
        /\ out.tick <= Tick /\ disturbed \in BOOLEAN
    BY TableIn DEF DbInv, DbTypeOK, StackShape, TicksPast
  <1>1. PICK next \in SUBSET Rows :
          /\ Table \subseteq next /\ Top.f \in {"user", "callback"}
          /\ Writes(next) /\ notifyAllJS(Touched(next), stack)
          /\ UNCHANGED <<active, queryVars, out, handle, robbed, seen, disturbed>>
    BY <1>0 DEF insert, AppRuns
  <1>2. stack = <<>> \/ Last(stack).f # "loop"
    BY <1>0, <1>1, TopIs
  <1>3. ~disturbed /\ ~notifying => /\ out.rows \subseteq next /\ out.added = {} /\ out.removed = {}
                                    /\ next = Table /\ marked # {} => out.rows \in {{}, Table}
    BY <1>1, OutputThen
  <1>. QED  BY <1>0, <1>1, <1>2, <1>3, StatementInv

LEMMA InsertsBatchInv ==
  ASSUME DbInv, InsertsBatch
  PROVE  DbInv'
  <1>0. Table \subseteq Rows /\ stack \in Seq(Frames) /\ WellStacked(stack) /\ out \in Outputs
        /\ out.tick <= Tick /\ disturbed \in BOOLEAN
    BY TableIn DEF DbInv, DbTypeOK, StackShape, TicksPast
  <1>1. PICK rows \in SUBSET Top.left :
          /\ Writes(Table \cup rows)
          /\ notifyAllJS(Touched(Table \cup rows), Append(Pop, [f |-> "many", left |-> Top.left \ rows]))
    BY DEF InsertsBatch
  <1>2. Top.f = "many" /\ UNCHANGED <<active, queryVars, out, handle, robbed, seen, disturbed>>
    BY DEF InsertsBatch, ownerVars
  <1>3. stack # <<>> /\ Pop \in Seq(Frames) /\ Top \in Frames /\ stack = Append(Pop, Top)
    BY <1>0, <1>2, TopIs, Popped
  <1>4. Top.left \subseteq Rows
    BY <1>2, <1>3, FrameFields
  <1>5. PICK e \in Frames : e = [f |-> "many", left |-> Top.left \ rows] /\ e.f = "many"
    <2>1. Top.left \ rows \in SUBSET Rows
      BY <1>4
    <2>. QED  BY <2>1, FramesMade
  <1>. DEFINE frames == Append(Pop, e)
              next == Table \cup rows
  <1>6. PICK t \in Frames : t = Top /\ t.f = "many"
    BY <1>2, <1>3
  <1>7. /\ HasLoop(Append(Pop, t)) <=> HasLoop(Pop)
        /\ Todo(Append(Pop, t)) = Todo(Pop) /\ Calls(Append(Pop, t)) = Calls(Pop)
        /\ WellStacked(Append(Pop, t)) <=> WellStacked(Pop) /\ (Pop = <<>> \/ Last(Pop).f # "loop")
    BY <1>3, <1>6, CallPushed
  <1>8. /\ frames \in Seq(Frames) /\ frames # <<>> /\ Last(frames) = e
        /\ HasLoop(frames) <=> HasLoop(Pop)
        /\ Todo(frames) = Todo(Pop) /\ Calls(frames) = Calls(Pop)
        /\ WellStacked(frames) <=> WellStacked(Pop) /\ (Pop = <<>> \/ Last(Pop).f # "loop")
    BY <1>3, <1>5, CallPushed
  <1>9. /\ WellStacked(frames) /\ (HasLoop(frames) <=> HasLoop(stack)) /\ Todo(frames) = Todo(stack)
        /\ Calls(frames) \subseteq Calls(stack) /\ Last(frames).f # "loop"
    BY <1>0, <1>3, <1>5, <1>6, <1>7, <1>8
  <1>10. next \in SUBSET Rows /\ Table \subseteq next
    BY <1>0, <1>4
  <1>11. Writes(next) /\ notifyAllJS(Touched(next), frames)
    BY <1>1, <1>5
  <1>12. ~disturbed /\ ~notifying => /\ out.rows \subseteq next /\ out.added = {} /\ out.removed = {}
                                     /\ next = Table /\ marked # {} => out.rows \in {{}, Table}
    BY <1>2, <1>10, OutputThen
  <1>. HIDE DEF frames, next
  <1>. QED  BY <1>0, <1>2, <1>8, <1>9, <1>10, <1>11, <1>12, StatementInv
-----------------------------------------------------------------------------
(* The loop that tells the owners. *)

\* The loop goes on or ends, with the same queries to notify.
LEMMA LoopStep ==
  ASSUME DbInv,
         UNCHANGED <<hist, fs, subs, marked, torn, handle, robbed, seen, active, queryVars, out, disturbed>>,
         notifications' \in Seq(SUBSET Ids), notifying' \in BOOLEAN, Queued' = Queued,
         stack' \in Seq(Frames), WellStacked(stack'), HasLoop(stack') <=> notifying',
         Calls(stack') \subseteq Calls(stack),
         ~disturbed /\ OutputClean => OutputClean', NothingQueued'
  PROVE  DbInv'
  <1>1. DbTypeOK'
    BY DEF DbInv, DbTypeOK, queryVars
  <1>2. StackShape'
    BY DEF DbInv, StackShape
  <1>3. TicksPast'
    BY DEF DbInv, TicksPast, Tick, queryVars
  <1>4. Pending => Pending'
    BY DEF Pending, Owners, Table
  <1>5. MissedChanges => MissedChanges'
    BY DEF MissedChanges, Missed, Changed, Owners, Table, Tick, queryVars
  <1>6. IdsOwned' /\ SubsRight'
    BY IdsKept, SubsKept DEF DbInv, queryVars
  <1>. QED  BY <1>1, <1>2, <1>3, <1>4, <1>5, <1>6 DEF DbInv

\* The loop on top of the stack, and what is under it.
LEMMA LoopOnTop ==
  ASSUME DbInv, Top.f = "loop"
  PROVE  /\ stack # <<>> /\ Pop \in Seq(Frames) /\ Top \in Frames /\ Top.todo \in SUBSET Ids /\ stack = Append(Pop, Top)
         /\ notifying = TRUE /\ ~HasLoop(Pop) /\ WellStacked(Pop)
         /\ Todo(stack) = Todo(Pop) \cup Top.todo /\ Calls(Pop) = Calls(stack)
  <1>1. stack \in Seq(Frames) /\ WellStacked(stack) /\ (notifying <=> HasLoop(stack)) /\ notifying \in BOOLEAN
    BY DEF DbInv, DbTypeOK, StackShape
  <1>2. stack # <<>> /\ Pop \in Seq(Frames) /\ Top \in Frames /\ stack = Append(Pop, Top)
    BY <1>1, TopIs, Popped
  <1>3. Top.todo \in SUBSET Ids
    BY <1>2, FrameFields
  <1>4. PICK e \in Frames : e = Top /\ e.f = "loop"
    BY <1>2
  <1>5. /\ HasLoop(Append(Pop, e))
        /\ Todo(Append(Pop, e)) = Todo(Pop) \cup e.todo /\ Calls(Append(Pop, e)) = Calls(Pop)
        /\ WellStacked(Append(Pop, e)) <=> WellStacked(Pop) /\ ~HasLoop(Pop)
    BY <1>2, <1>4, LoopPushed
  <1>. QED  BY <1>1, <1>2, <1>3, <1>4, <1>5

LEMMA NextBatchInv ==
  ASSUME DbInv, NextBatch
  PROVE  DbInv'
  <1>1. /\ Top.f = "loop" /\ Top.todo = {} /\ notifications # <<>> /\ notifications' = Tail(notifications)
        /\ UNCHANGED <<hist, fs, subs, marked, torn, notifying, handle, robbed, seen, active, queryVars, out, disturbed>>
    BY DEF NextBatch, engineVars, subVars, ownerVars
  <1>2. /\ Pop \in Seq(Frames) /\ notifying = TRUE /\ ~HasLoop(Pop) /\ WellStacked(Pop)
        /\ Todo(stack) = Todo(Pop) \cup Top.todo /\ Calls(Pop) = Calls(stack)
    BY <1>1, LoopOnTop
  <1>3. notifications \in Seq(SUBSET Ids)
    BY DEF DbInv, DbTypeOK
  <1>4. PICK b \in SUBSET Ids : b = Head(notifications)
    BY <1>1, <1>3
  <1>5. notifications' \in Seq(SUBSET Ids) /\ UNION Range(notifications) = (UNION Range(notifications')) \cup b
    <2>. DEFINE k == Len(notifications)
    <2>1. /\ k \in Nat \ {0} /\ notifications' \in Seq(SUBSET Ids) /\ Len(notifications') = k - 1
          /\ notifications[1] = b /\ \A i \in 1..(k - 1) : notifications'[i] = notifications[i + 1]
      BY <1>1, <1>3, <1>4
    <2>2. DOMAIN notifications = 1..k /\ DOMAIN notifications' = 1..(k - 1)
      BY <1>3, <2>1
    <2>. HIDE DEF k
    <2>3. /\ \A i \in 1..k : i = 1 \/ (i - 1 \in 1..(k - 1) /\ (i - 1) + 1 = i)
          /\ \A i \in 1..(k - 1) : i + 1 \in 1..k
          /\ 1 \in 1..k
      BY <2>1
    <2>4. Range(notifications) = Range(notifications') \cup {b}
      <3>1. ASSUME NEW i \in 1..k PROVE notifications[i] = b \/ notifications[i] \in Range(notifications')
        <4>1. CASE i = 1
          BY <2>1, <4>1
        <4>2. CASE i # 1
          <5>1. PICK j \in 1..(k - 1) : j + 1 = i
            BY <2>3, <4>2
          <5>2. notifications[i] = notifications'[j]
            BY <2>1, <5>1
          <5>. QED  BY <2>2, <5>2 DEF Range
        <4>. QED  BY <4>1, <4>2
      <3>2. ASSUME NEW j \in 1..(k - 1) PROVE notifications'[j] \in Range(notifications)
        BY <2>1, <2>2, <2>3 DEF Range
      <3>3. b \in Range(notifications)
        BY <2>1, <2>2, <2>3 DEF Range
      <3>4. Range(notifications) \subseteq Range(notifications') \cup {b}
        BY <2>2, <3>1 DEF Range
      <3>5. Range(notifications') \subseteq Range(notifications)
        BY <2>2, <3>2 DEF Range
      <3>. QED  BY <3>3, <3>4, <3>5
    <2>5. ASSUME NEW x PROVE x \in UNION Range(notifications) <=> x \in UNION Range(notifications') \/ x \in b
      BY <2>4
    <2>. QED  BY <2>1, <2>5
  <1>6. PICK e \in Frames : e = [f |-> "loop", todo |-> b] /\ e.f = "loop" /\ e.todo = b
    BY FramesMade
  <1>7. stack' = Append(Pop, e)
    BY <1>4, <1>6 DEF NextBatch
  <1>8. /\ Append(Pop, e) \in Seq(Frames) /\ Append(Pop, e) # <<>> /\ Last(Append(Pop, e)) = e
        /\ HasLoop(Append(Pop, e))
        /\ Todo(Append(Pop, e)) = Todo(Pop) \cup e.todo /\ Calls(Append(Pop, e)) = Calls(Pop)
        /\ WellStacked(Append(Pop, e))
    BY <1>2, <1>6, LoopPushed
  <1>9. Queued' = Queued
    <2>1. Todo(stack') = Todo(Pop) \cup b /\ Todo(stack) = Todo(Pop)
      BY <1>1, <1>2, <1>6, <1>7, <1>8
    <2>2. ((UNION Range(notifications')) \cup b) \cup Todo(Pop) = (UNION Range(notifications')) \cup (Todo(Pop) \cup b)
      OBVIOUS
    <2>. QED  BY <1>5, <2>1, <2>2 DEF Queued
  <1>10. OutputClean => OutputClean'
    BY <1>1, <1>9 DEF OutputClean, Changed, Table, Tick, queryVars
  <1>11. NothingQueued'
    BY <1>1, <1>2 DEF NothingQueued
  <1>. QED  BY <1>1, <1>2, <1>5, <1>7, <1>8, <1>9, <1>10, <1>11, LoopStep

LEMMA LoopEndsInv ==
  ASSUME DbInv, LoopEnds
  PROVE  DbInv'
  <1>1. /\ Top.f = "loop" /\ Top.todo = {} /\ notifications = <<>> /\ notifications' = <<>>
        /\ notifying' = FALSE /\ stack' = Pop
        /\ UNCHANGED <<hist, fs, subs, marked, torn, handle, robbed, seen, active, queryVars, out, disturbed>>
    BY DEF LoopEnds, engineVars, subVars, ownerVars
  <1>2. /\ Pop \in Seq(Frames) /\ ~HasLoop(Pop) /\ WellStacked(Pop)
        /\ Todo(stack) = Todo(Pop) \cup Top.todo /\ Calls(Pop) = Calls(stack)
    BY <1>1, LoopOnTop
  <1>3. Queued' = Queued
    BY <1>1, <1>2 DEF Queued
  <1>4. Top'.f # "loop"
    <2>1. CASE Pop = <<>>
      BY <1>1, <2>1 DEF Top
    <2>2. CASE Pop # <<>>
      <3>1. Len(Pop) \in 1..Len(Pop) /\ Last(Pop) = Pop[Len(Pop)]
        BY <1>2, <2>2 DEF Last
      <3>2. Last(Pop).f # "loop"
        BY <1>2, <3>1 DEF HasLoop
      <3>. QED  BY <1>1, <2>2, <3>2 DEF Top
    <2>. QED  BY <2>1, <2>2
  <1>5. OutputClean => OutputClean'
    BY <1>1, <1>4 DEF OutputClean, Table
  <1>6. NothingQueued'
    BY <1>1 DEF NothingQueued
  <1>7. notifications' \in Seq(SUBSET Ids) /\ notifying' \in BOOLEAN /\ ~notifying'
    <2>1. notifications' = notifications /\ notifications \in Seq(SUBSET Ids)
      BY <1>1 DEF DbInv, DbTypeOK
    <2>. QED  BY <1>1, <2>1
  <1>8. /\ stack' \in Seq(Frames) /\ WellStacked(stack') /\ (HasLoop(stack') <=> notifying')
        /\ Calls(stack') \subseteq Calls(stack)
    BY <1>1, <1>2, <1>7
  <1>. QED  BY <1>1, <1>3, <1>5, <1>6, <1>7, <1>8, LoopStep
-----------------------------------------------------------------------------
(* Callbacks return, throw, close. *)

LEMMA CallTicks ==
  ASSUME DbInv, NEW c \in Calls(stack)
  PROVE  c \in Frames /\ c.f = "callback" /\ c.id \in Ids /\ Since(c.tick) \in 0..Tick /\ Tick \in Nat
  <1>1. PICK n \in 1..Len(stack) : c = stack[n] /\ stack[n].f = "callback"
    BY DEF Calls
  <1>2. c \in Frames /\ c.f = "callback"
    BY <1>1 DEF DbInv, DbTypeOK
  <1>3. c.id \in Ids /\ c.tick \in {NoTick} \cup Nat
    BY <1>2, FrameFields
  <1>4. c.tick <= Tick /\ Tick \in Nat
    BY TableIn DEF DbInv, TicksPast
  <1>. QED  BY <1>2, <1>3, <1>4 DEF Since, NoTick

LEMMA CallbackReturnsInv ==
  ASSUME DbInv, CallbackReturns
  PROVE  DbInv'
  <1>0. /\ stack \in Seq(Frames) /\ WellStacked(stack) /\ funLastTick \in [Ids -> Nat] /\ notifying \in BOOLEAN
        /\ (notifying <=> HasLoop(stack))
    BY DEF DbInv, DbTypeOK, StackShape
  <1>1. /\ Top.f = "callback" /\ stack' = Pop /\ out' = Nothing
        /\ funLastTick' = [funLastTick EXCEPT ![Top.id] = IF ~Top.changes THEN @ ELSE IF Top.tick = NoTick THEN 0 ELSE Top.tick]
        /\ UNCHANGED <<hist, active, fs, subs, marked, torn, notifications, notifying, userFuns, freeQueryIDs,
                       queryID, handle, robbed, seen, disturbed>>
    BY DEF CallbackReturns, engineVars, subVars, notifyVars, ownerVars
  <1>2. stack # <<>> /\ Pop \in Seq(Frames) /\ Top \in Frames /\ stack = Append(Pop, Top)
    BY <1>0, <1>1, TopIs, Popped
  <1>3. PICK e \in Frames : e = Top /\ e.f = "callback"
    BY <1>1, <1>2
  <1>4. /\ HasLoop(Append(Pop, e)) <=> HasLoop(Pop)
        /\ Todo(Append(Pop, e)) = Todo(Pop) /\ Calls(Append(Pop, e)) = Calls(Pop) \cup {e}
        /\ WellStacked(Append(Pop, e)) <=> WellStacked(Pop)
    BY <1>2, <1>3, CallbackPushed
  <1>5. /\ stack' \in Seq(Frames) /\ WellStacked(stack') /\ (HasLoop(stack') <=> HasLoop(stack))
        /\ Todo(stack') = Todo(stack) /\ Calls(stack') \subseteq Calls(stack) /\ e \in Calls(stack)
    BY <1>0, <1>1, <1>2, <1>3, <1>4
  <1>6. e.id \in Ids /\ Since(e.tick) \in 0..Tick /\ Tick \in Nat
    BY <1>5, CallTicks
  <1>7. funLastTick' = [funLastTick EXCEPT ![e.id] = IF ~e.changes THEN @ ELSE Since(e.tick)]
    BY <1>1, <1>3 DEF Since
  <1>8. /\ funLastTick' \in [Ids -> Nat]
        /\ \A i \in Ids : \/ funLastTick'[i] = funLastTick[i]
                          \/ i = e.id /\ e.changes /\ funLastTick'[i] = Since(e.tick)
    BY <1>0, <1>6, <1>7
  <1>9. DbTypeOK'
    BY <1>1, <1>5, <1>8, NothingFields DEF DbInv, DbTypeOK
  <1>10. IdsOwned' /\ SubsRight'
    BY <1>1, IdsKept, SubsKept DEF DbInv
  <1>11. StackShape'
    BY <1>0, <1>1, <1>5 DEF StackShape
  <1>12. TicksPast'
    <2>1. Tick' = Tick
      BY <1>1 DEF Tick
    <2>2. \A i \in Ids : funLastTick'[i] <= Tick
      BY <1>6, <1>8 DEF DbInv, TicksPast
    <2>3. out'.tick <= Tick
      BY <1>1, <1>6, NothingFields DEF NoTick
    <2>4. \A c \in Calls(stack') : c.tick <= Tick
      BY <1>5 DEF DbInv, TicksPast
    <2>. QED  BY <2>1, <2>2, <2>3, <2>4 DEF TicksPast
  <1>13. Pending => Pending'
    BY <1>1, <1>5 DEF Pending, Queued, Owners, Table
  <1>14. ASSUME MissedChanges PROVE MissedChanges'
    <2>1. \A s : Changed(s)' = Changed(s)
      BY <1>1 DEF Changed, Tick
    <2>2. \A w : Missed(w)' = Missed(w)
      BY <1>1 DEF Missed, Table
    <2>3. ASSUME NEW w \in Owners, handle[w].kind = "changes"
          PROVE  Missed(w) \subseteq Changed(funLastTick'[handle[w].id])
      <3>1. handle[w].id \in Ids
        BY <2>3, OwnerHas DEF DbInv
      <3>2. CASE funLastTick'[handle[w].id] = funLastTick[handle[w].id]
        BY <1>14, <2>3, <3>2 DEF MissedChanges
      <3>3. CASE handle[w].id = e.id /\ e.changes /\ funLastTick'[handle[w].id] = Since(e.tick)
        BY <1>5, <1>14, <2>3, <3>3 DEF MissedChanges
      <3>. QED  BY <1>8, <3>1, <3>2, <3>3
    <2>4. ASSUME NEW w \in Owners, handle[w].kind = "changes", NEW c \in Calls(stack'),
                 c.changes, c.id = handle[w].id
          PROVE  Missed(w) \subseteq Changed(Since(c.tick))
      BY <1>5, <1>14, <2>3, <2>4 DEF MissedChanges
    <2>5. ASSUME NEW w PROVE Changed(funLastTick[handle[w].id])' = Changed(funLastTick'[handle[w].id])
      BY <1>1 DEF Changed, Tick
    <2>6. ASSUME NEW c PROVE Changed(Since(c.tick))' = Changed(Since(c.tick))
      BY <1>1 DEF Changed, Tick
    <2>. QED  BY <1>1, <2>2, <2>3, <2>4, <2>5, <2>6 DEF MissedChanges, Owners
  <1>15. OutputClean' /\ (NothingQueued => NothingQueued')
    BY <1>1, NothingClean DEF NothingQueued
  <1>. QED  BY <1>1, <1>9, <1>10, <1>11, <1>12, <1>13, <1>14, <1>15 DEF DbInv

LEMMA CallbackThrowsInv ==
  ASSUME DbInv, CallbackThrows
  PROVE  DbInv'
  <1>0. /\ stack \in Seq(Frames) /\ WellStacked(stack) /\ stack # <<>>
    BY TopIs DEF DbInv, DbTypeOK, StackShape, CallbackThrows
  <1>. DEFINE k == Len(stack)
  <1>1. k \in Nat \ {0}
    BY <1>0
  <1>2. PICK n \in 0..(k - 1) : /\ stack' = SubSeq(stack, 1, n)
                                /\ notifying' = (\E i \in 1..n : stack[i].f = "loop")
    <2>1. Catchers \subseteq 0..(k - 1)
      BY <1>1 DEF Catchers
    <2>. QED  BY <2>1 DEF CallbackThrows
  <1>3. /\ disturbed' = TRUE
        /\ UNCHANGED <<hist, active, fs, subs, marked, torn, notifications, queryVars, out, handle, robbed, seen>>
    BY DEF CallbackThrows, engineVars, subVars
  <1>4. stack' \in Seq(Frames) /\ Len(stack') = n /\ \A i \in 1..n : stack'[i] = stack[i] /\ i \in 1..k
    <2>1. \A i \in 1..n : stack[i] \in Frames /\ i \in 1..k
      BY <1>0, <1>1
    <2>2. /\ SubSeq(stack, 1, n) \in Seq(Frames)
          /\ Len(SubSeq(stack, 1, n)) = IF 1 <= n THEN n - 1 + 1 ELSE 0
          /\ \A i \in 1..n - 1 + 1 : SubSeq(stack, 1, n)[i] = stack[1 + i - 1]
      <3>1. 1 \in Int /\ n \in Int
        BY <1>1
      <3>. QED  BY <1>0, <2>1, <3>1, SubSeqProperties
    <2>3. n - 1 + 1 = n /\ \A i \in 1..n : 1 + i - 1 = i
      BY <1>1
    <2>. QED  BY <1>1, <1>2, <2>1, <2>2, <2>3
  <1>. HIDE DEF k
  <1>5. HasLoop(stack') <=> notifying'
    BY <1>2, <1>4 DEF HasLoop
  <1>6. WellStacked(stack')
    <2>1. \A a, b \in 1..k : stack[a].f = "loop" /\ stack[b].f = "loop" => a = b
      BY <1>0 DEF WellStacked, k
    <2>2. \A a \in 2..k : stack[a].f \in {"exec", "many"} => stack[a - 1].f # "loop"
      BY <1>0 DEF WellStacked, k
    <2>3. \A a \in 2..n : a \in 2..k /\ a \in 1..n /\ a - 1 \in 1..n
      BY <1>1, <1>2
    <2>4. \A a, b \in 1..n : stack'[a].f = "loop" /\ stack'[b].f = "loop" => a = b
      BY <1>4, <2>1
    <2>5. \A a \in 2..n : stack'[a].f \in {"exec", "many"} => stack'[a - 1].f # "loop"
      BY <1>4, <2>2, <2>3
    <2>. QED  BY <1>4, <2>4, <2>5 DEF WellStacked
  <1>7. Calls(stack') \subseteq Calls(stack)
    BY <1>4 DEF Calls, k
  <1>8. notifying' \in BOOLEAN /\ disturbed' \in BOOLEAN
    BY <1>2, <1>3
  <1>9. DbTypeOK'
    BY <1>3, <1>4, <1>8 DEF DbInv, DbTypeOK, queryVars
  <1>10. StackShape'
    BY <1>5, <1>6, <1>8 DEF StackShape
  <1>11. TicksPast'
    BY <1>3, <1>7 DEF DbInv, TicksPast, Tick, queryVars
  <1>12. IdsOwned' /\ SubsRight'
    BY <1>3, IdsKept, SubsKept DEF DbInv, queryVars
  <1>. QED  BY <1>3, <1>9, <1>10, <1>11, <1>12 DEF DbInv

\* close: what the others know and will be told stays.
LEMMA CloseWatchInv ==
  ASSUME DbInv, CloseWatch
  PROVE  DbInv'
  <1>0. DbTypeOK /\ IdsOwned /\ funLastTick \in [Ids -> Nat] /\ stack \in Seq(Frames) /\ WellStacked(stack)
    BY DEF DbInv, DbTypeOK, StackShape
  <1>1. PICK w \in Watches, id \in Ids :
          /\ Top.f \in {"user", "callback"} /\ handle[w].kind \in {"rows", "changes"} /\ id = handle[w].id
          /\ handle' = [handle EXCEPT ![w].open = FALSE]
          /\ robbed' = IF handle[w].open /\ w \notin robbed THEN robbed ELSE robbed \cup ({userFuns[id]} \ {NoOp})
          /\ userFuns' = [userFuns EXCEPT ![id] = NoOp] /\ DeleteQuery(id)
          /\ UNCHANGED <<hist, subVars, notifyVars, queryID, out, stack, seen, disturbed>>
    <2>1. PICK w \in Watches :
            /\ Top.f \in {"user", "callback"} /\ handle[w].kind \in {"rows", "changes"}
            /\ handle' = [handle EXCEPT ![w].open = FALSE]
            /\ robbed' = IF handle[w].open /\ w \notin robbed THEN robbed
                         ELSE robbed \cup ({userFuns[handle[w].id]} \ {NoOp})
            /\ userFuns' = [userFuns EXCEPT ![handle[w].id] = NoOp] /\ DeleteQuery(handle[w].id)
            /\ UNCHANGED <<hist, subVars, notifyVars, queryID, out, stack, seen, disturbed>>
      BY DEF CloseWatch, AppRuns
    <2>2. handle[w].id \in Ids
      BY <1>0, <2>1 DEF IdsOwned
    <2>. QED  BY <2>1, <2>2
  <1>2. /\ IdsOwned'
        /\ userFuns' \in [Ids -> {NoOp} \cup Watches] /\ robbed' \in SUBSET Watches
        /\ handle' \in [Watches -> [id : 0..MaxWatch, kind : {"none", "failed", "rows", "changes"}, open : BOOLEAN]]
        /\ \A v \in Owners' : v \in Owners /\ handle'[v] = handle[v] /\ handle[v].id # id
    BY <1>0, <1>1, CloseIds
  <1>3. /\ active' \in [Ids -> {"none", "rows", "changes"}] /\ freeQueryIDs' \in Seq(Ids)
        /\ funLastTick' \in [Ids -> Nat] /\ (\A i \in Ids : i # id => funLastTick'[i] = funLastTick[i])
        /\ funLastTick'[id] \in {0, funLastTick[id]}
    BY <1>0, <1>1, IdsDeleted
  <1>4. DbTypeOK'
    BY <1>0, <1>1, <1>2, <1>3 DEF DbTypeOK, notifyVars
  <1>5. SubsRight'
    BY <1>1, SubsKept DEF DbInv, subVars
  <1>6. ASSUME NEW v \in Owners'
        PROVE  v \in Owners /\ handle'[v] = handle[v] /\ funLastTick'[handle[v].id] = funLastTick[handle[v].id]
    <2>1. v \in Owners /\ handle'[v] = handle[v] /\ handle[v].id # id
      BY <1>2
    <2>2. handle[v].id \in Ids
      BY <1>0, <2>1, OwnerHas
    <2>. QED  BY <1>3, <2>1, <2>2
  <1>7. \A i \in Ids : funLastTick'[i] \in {0, funLastTick[i]}
    BY <1>3
  <1>8. OutputClean => OutputClean'
    <2>1. Top' = Top /\ Top.f # "loop" /\ Table' = Table
      BY <1>1 DEF Top, Table
    <2>. QED  BY <1>1, <2>1 DEF OutputClean, notifyVars
  <1>9. out'.tick <= Tick /\ disturbed' = disturbed
    BY <1>1 DEF DbInv, TicksPast
  <1>. QED  BY <1>0, <1>1, <1>2, <1>4, <1>5, <1>6, <1>7, <1>8, <1>9, OwnersStay DEF notifyVars

\* watch and watchChanges: the owner hears the table.
LEMMA WatchInv ==
  ASSUME DbInv, manageWatch
  PROVE  DbInv'
  <1>0. /\ DbTypeOK /\ IdsOwned /\ funLastTick \in [Ids -> Nat]
        /\ seen \in [Watches -> SUBSET (Rows \cup {Selected})]
        /\ stack \in Seq(Frames) /\ WellStacked(stack) /\ (notifying <=> HasLoop(stack))
        /\ Tick \in Nat /\ Table \subseteq Rows
    BY TableIn DEF DbInv, DbTypeOK, StackShape
  <1>1. PICK kind, w, id, o :
          /\ kind \in {"rows", "changes"} /\ TakesId /\ w = NewWatch /\ id = NewId
          /\ o = [Nothing EXCEPT !.rows = Table, !.tick = IF kind = "changes" THEN Tick ELSE NoTick]
          /\ userFuns' = [userFuns EXCEPT ![id] = w] /\ funLastTick' = [funLastTick EXCEPT ![id] = 0]
          /\ active' = [active EXCEPT ![id] = kind]
          /\ handle' = [handle EXCEPT ![w] = [id |-> id, kind |-> kind, open |-> TRUE]]
          /\ out' = o /\ seen' = [seen EXCEPT ![w] = Told(@, kind, TRUE, o)]
          /\ stack' = Append(stack, Callback(id, kind, o))
          /\ UNCHANGED <<hist, subVars, notifyVars, robbed, disturbed>>
    <2>1. PICK kind \in {"rows", "changes"} :
            LET o == [Nothing EXCEPT !.rows = Table, !.tick = IF kind = "changes" THEN Tick ELSE NoTick] IN
            /\ TakesId
            /\ userFuns' = [userFuns EXCEPT ![NewId] = NewWatch] /\ funLastTick' = [funLastTick EXCEPT ![NewId] = 0]
            /\ active' = [active EXCEPT ![NewId] = kind]
            /\ handle' = [handle EXCEPT ![NewWatch] = [id |-> NewId, kind |-> kind, open |-> TRUE]]
            /\ out' = o /\ seen' = [seen EXCEPT ![NewWatch] = Told(@, kind, TRUE, o)]
            /\ stack' = Append(stack, Callback(NewId, kind, o))
            /\ UNCHANGED <<hist, subVars, notifyVars, robbed, disturbed>>
      BY DEF manageWatch
    <2>2. PICK w, id, o : /\ w = NewWatch /\ id = NewId
                          /\ o = [Nothing EXCEPT !.rows = Table, !.tick = IF kind = "changes" THEN Tick ELSE NoTick]
      OBVIOUS
    <2>. QED  BY <2>1, <2>2
  <1>2. /\ id \in Ids /\ freeQueryIDs' \in Seq(Ids) /\ queryID' \in 0..MaxWatch
    BY <1>0, <1>1, IdTaken
  <1>3. w \in Watches /\ w \notin Owners
    BY <1>0, <1>1, WatchTaken
  <1>4. /\ IdsOwned'
        /\ userFuns' \in [Ids -> {NoOp} \cup Watches] /\ active' \in [Ids -> {"none", "rows", "changes"}]
        /\ handle' \in [Watches -> [id : 0..MaxWatch, kind : {"none", "failed", "rows", "changes"}, open : BOOLEAN]]
        /\ \A v \in Owners' : v = w \/ (v \in Owners /\ v # w /\ handle'[v] = handle[v] /\ handle[v].id # id)
    <2>1. PICK open : open = TRUE
      OBVIOUS
    <2>2. /\ handle' = [handle EXCEPT ![w] = [id |-> id, kind |-> kind, open |-> open]]
          /\ active' = IF open THEN [active EXCEPT ![id] = kind] ELSE active
          /\ kind \in {"failed", "rows", "changes"} /\ open \in BOOLEAN /\ (open <=> kind # "failed")
          /\ robbed' = robbed /\ userFuns' = [userFuns EXCEPT ![id] = w]
          /\ TakesId /\ id = NewId /\ w = NewWatch
      BY <1>1, <2>1
    <2>3. /\ IdsOwned'
          /\ userFuns' \in [Ids -> {NoOp} \cup Watches] /\ active' \in [Ids -> {"none", "rows", "changes"}]
          /\ handle' \in [Watches -> [id : 0..MaxWatch, kind : {"none", "failed", "rows", "changes"}, open : BOOLEAN]]
          /\ \A v \in Owners' : (v = w /\ open) \/ (v \in Owners /\ v # w /\ handle'[v] = handle[v] /\ handle[v].id # id)
      BY <1>0, <2>2, WatchIds
    <2>. QED  BY <2>3
  <1>5. SubsRight'
    BY <1>1, SubsKept DEF DbInv, subVars
  <1>6. /\ o \in Outputs /\ o.rows = Table /\ o.added = {} /\ o.removed = {} /\ o.tick \in {NoTick} \cup Nat
        /\ o.tick <= Tick
    <2>1. PICK t \in {NoTick} \cup Nat : t = (IF kind = "changes" THEN Tick ELSE NoTick) /\ t <= Tick
      BY <1>0 DEF NoTick
    <2>2. o = [rows |-> Table, added |-> {}, removed |-> {}, tick |-> t]
      BY <1>1, <2>1 DEF Nothing
    <2>. QED  BY <1>0, <2>1, <2>2 DEF Outputs
  <1>7. seen' \in [Watches -> SUBSET (Rows \cup {Selected})] /\ seen'[w] = Table
        /\ \A v \in Watches : v # w => seen'[v] = seen[v]
    <2>1. Told(seen[w], kind, TRUE, o) = Table
      BY <1>6 DEF Told
    <2>2. seen' = [seen EXCEPT ![w] = Table]
      BY <1>1, <2>1
    <2>. QED  BY <1>0, <1>3, <2>2
  <1>8. PICK e \in Frames : /\ e = Callback(id, kind, o) /\ e.f = "callback" /\ e.id = id /\ e.tick = o.tick
    BY <1>2, <1>6, CallbackMade
  <1>9. /\ Append(stack, e) \in Seq(Frames) /\ Append(stack, e) # <<>> /\ Last(Append(stack, e)) = e
        /\ HasLoop(Append(stack, e)) <=> HasLoop(stack)
        /\ Todo(Append(stack, e)) = Todo(stack) /\ Calls(Append(stack, e)) = Calls(stack) \cup {e}
        /\ WellStacked(Append(stack, e)) <=> WellStacked(stack)
    BY <1>0, <1>8, CallbackPushed
  <1>10. stack' = Append(stack, e)
    BY <1>1, <1>8
  <1>11. /\ funLastTick' \in [Ids -> Nat] /\ funLastTick'[id] = 0
         /\ \A i \in Ids : i # id => funLastTick'[i] = funLastTick[i]
    BY <1>0, <1>1, <1>2
  <1>12. DbTypeOK'
    BY <1>0, <1>1, <1>2, <1>4, <1>6, <1>7, <1>9, <1>10, <1>11 DEF DbTypeOK, notifyVars
  <1>13. StackShape'
    BY <1>0, <1>1, <1>9, <1>10 DEF StackShape, notifyVars
  <1>14. Tick' = Tick /\ Table' = Table /\ Queued' = Queued /\ marked' = marked /\ torn' = torn
    BY <1>1, <1>9, <1>10 DEF Tick, Table, Queued, notifyVars
  <1>15. TicksPast'
    <2>1. ASSUME NEW i \in Ids PROVE funLastTick'[i] <= Tick
      <3>1. Tick \in Nat /\ funLastTick[i] <= Tick
        BY <1>0 DEF DbInv, TicksPast
      <3>2. funLastTick'[i] = 0 \/ funLastTick'[i] = funLastTick[i]
        BY <1>11
      <3>. QED  BY <3>1, <3>2
    <2>2. \A c \in Calls(stack') : c.tick <= Tick
      BY <1>6, <1>8, <1>9, <1>10 DEF DbInv, TicksPast
    <2>. QED  BY <1>1, <1>6, <1>14, <2>1, <2>2 DEF TicksPast
  <1>16. \A v \in Owners' : v \in Watches
    BY DEF Owners
  <1>17. Pending => Pending'
    BY <1>4, <1>7, <1>14, <1>16 DEF Pending
  <1>18. ASSUME MissedChanges PROVE MissedChanges'
    <2>1. Missed(w)' = {}
      BY <1>7, <1>14 DEF Missed, Diff
    <2>2. ASSUME NEW v \in Owners', v # w, handle'[v].kind = "changes"
          PROVE  /\ Missed(v)' \subseteq Changed(funLastTick[handle[v].id])'
                 /\ \A c \in Calls(stack') :
                      c.changes /\ c.id = handle'[v].id => Missed(v)' \subseteq Changed(Since(c.tick))'
      <3>1. v \in Owners /\ handle'[v] = handle[v] /\ handle[v].id # id
        BY <1>4, <2>2
      <3>2. handle[v].id \in Ids /\ v \in Watches
        BY <1>0, <3>1, OwnerHas
      <3>3. Changed(funLastTick[handle[v].id])' = Changed(funLastTick[handle[v].id])
        BY <1>1, <1>11, <3>1, <3>2 DEF Changed, Tick
      <3>4. ASSUME NEW c PROVE Changed(Since(c.tick))' = Changed(Since(c.tick))
        BY <1>1 DEF Changed, Tick
      <3>5. Missed(v)' = Missed(v)
        BY <1>7, <1>14, <2>2, <3>2 DEF Missed
      <3>6. /\ Missed(v) \subseteq Changed(funLastTick[handle[v].id])
            /\ \A c \in Calls(stack) : c.changes /\ c.id = handle[v].id => Missed(v) \subseteq Changed(Since(c.tick))
        BY <1>18, <2>2, <3>1 DEF MissedChanges
      <3>7. \A c \in Calls(stack') : c.id = handle[v].id => c \in Calls(stack)
        BY <1>8, <1>9, <1>10, <3>1
      <3>. QED  BY <3>1, <3>3, <3>4, <3>5, <3>6, <3>7
    <2>. QED  BY <2>1, <2>2 DEF MissedChanges
  <1>19. OutputClean'
    <2>1. Top' = e
      BY <1>9, <1>10 DEF Top
    <2>. QED  BY <1>1, <1>6, <1>8, <1>14, <2>1 DEF OutputClean
  <1>20. NothingQueued => NothingQueued'
    BY <1>1 DEF NothingQueued, notifyVars
  <1>. QED  BY <1>1, <1>4, <1>5, <1>12, <1>13, <1>15, <1>17, <1>18, <1>19, <1>20 DEF DbInv
-----------------------------------------------------------------------------
(* An owner is told. *)

\* What the engine prints for a query.
LEMMA PrintedIs ==
  ASSUME DbInv, NEW id \in Ids
  PROVE  /\ Printed(id) \in Outputs /\ Printed(id).tick \in {NoTick} \cup Nat /\ Printed(id).tick <= Tick
         /\ active[id] = "none" => Printed(id) = out
         /\ active[id] = "rows" => /\ Printed(id).rows = out.rows \cup Table
                                   /\ Printed(id).added = out.added /\ Printed(id).removed = out.removed
         /\ active[id] = "changes" =>
              /\ Printed(id).rows = out.rows
              /\ Printed(id).added = out.added \cup (Changed(funLastTick[id]) \cap Table)
              /\ Printed(id).removed = out.removed \cup (Changed(funLastTick[id]) \ Table)
  <1>0. /\ out \in Outputs /\ out.tick <= Tick /\ Tick \in Nat /\ Table \subseteq Rows
        /\ active[id] \in {"none", "rows", "changes"}
    BY TableIn DEF DbInv, DbTypeOK, TicksPast
  <1>1. /\ out.rows \subseteq Rows \cup {Selected} /\ out.added \subseteq Rows /\ out.removed \subseteq Rows
        /\ out.tick \in {NoTick} \cup Nat
    BY <1>0 DEF Outputs
  <1>2. CASE active[id] = "none"
    <2>1. Printed(id) = out
      BY <1>2 DEF Printed
    <2>. QED  BY <1>0, <1>1, <1>2, <2>1
  <1>3. CASE active[id] = "rows"
    <2>1. Printed(id) = [out EXCEPT !.rows = @ \cup Table]
      BY <1>3 DEF Printed
    <2>2. /\ [out EXCEPT !.rows = @ \cup Table].rows = out.rows \cup Table
          /\ [out EXCEPT !.rows = @ \cup Table].added = out.added
          /\ [out EXCEPT !.rows = @ \cup Table].removed = out.removed
          /\ [out EXCEPT !.rows = @ \cup Table].tick = out.tick
          /\ [out EXCEPT !.rows = @ \cup Table] \in Outputs
      BY <1>0, <1>1 DEF Outputs
    <2>. QED  BY <1>0, <1>1, <1>3, <2>1, <2>2
  <1>4. CASE active[id] = "changes"
    <2>1. PICK c : c = Changed(funLastTick[id]) /\ c \subseteq Rows
      BY DEF Changed
    <2>2. PICK t \in {NoTick} \cup Nat : t = (IF out.tick = NoTick THEN Tick ELSE out.tick) /\ t <= Tick
      BY <1>0, <1>1
    <2>. DEFINE p == [rows |-> out.rows, added |-> out.added \cup (c \cap Table),
                      removed |-> out.removed \cup (c \ Table), tick |-> t]
    <2>3. Printed(id) = p
      BY <1>4, <2>1, <2>2 DEF Printed
    <2>4. p \in Outputs /\ p.rows = out.rows /\ p.added = out.added \cup (c \cap Table)
          /\ p.removed = out.removed \cup (c \ Table) /\ p.tick = t
      BY <1>0, <1>1, <2>1 DEF Outputs
    <2>. HIDE DEF p
    <2>. QED  BY <1>4, <2>1, <2>2, <2>3, <2>4
  <1>. QED  BY <1>0, <1>2, <1>3, <1>4

\* The owner of a query that is notified knows the table.
LEMMA ToldTable ==
  ASSUME DbInv, ~disturbed, Top.f = "loop", NEW id \in Ids, id \in Top.todo,
         NEW w \in Owners, handle[w].id = id
  PROVE  Told(seen[w], handle[w].kind, FALSE, Printed(id)) = Table
  <1>1. /\ out.rows \subseteq Table /\ out.added = {} /\ out.removed = {}
        /\ out.rows \notin {{}, Table} => \A i \in Queued : active[i] = "changes" => Changed(funLastTick[i]) # {}
    BY DEF DbInv, OutputClean
  <1>2. active[id] = handle[w].kind /\ handle[w].kind \in {"rows", "changes"}
    BY OwnerHas DEF DbInv
  <1>3. id \in Queued
    BY LoopOnTop DEF Queued
  <1>4. CASE active[id] = "rows"
    <2>1. Printed(id).rows = Table
      <3>1. Printed(id).rows = out.rows \cup Table
        BY <1>4, PrintedIs
      <3>. QED  BY <1>1, <3>1
    <2>. QED  BY <1>2, <1>4, <2>1 DEF Told
  <1>5. CASE active[id] = "changes"
    <2>1. PICK c : c = Changed(funLastTick[id]) /\ c \subseteq Rows
      BY DEF Changed
    <2>2. Diff(seen[w], Table) \subseteq c
      BY <1>2, <1>5, <2>1 DEF DbInv, MissedChanges, Missed
    <2>3. /\ Printed(id).rows = out.rows /\ Printed(id).added = c \cap Table /\ Printed(id).removed = c \ Table
      BY <1>1, <1>5, <2>1, PrintedIs
    <2>4. CASE c # {}
      <3>1. (c \cap Table) \cup (c \ Table) # {}
        BY <2>4
      <3>2. Told(seen[w], "changes", FALSE, Printed(id)) = (seen[w] \ (c \ Table)) \cup (c \cap Table)
        BY <2>3, <3>1 DEF Told
      <3>3. (seen[w] \ (c \ Table)) \cup (c \cap Table) = Table
        BY <2>2 DEF Diff
      <3>. QED  BY <1>2, <1>5, <3>2, <3>3
    <2>5. CASE c = {}
      <3>1. out.rows \in {{}, Table}
        BY <1>1, <1>3, <1>5, <2>1, <2>5
      <3>2. seen[w] = Table
        BY <2>2, <2>5 DEF Diff
      <3>3. (c \cap Table) \cup (c \ Table) = {}
        BY <2>5
      <3>4. Told(seen[w], "changes", FALSE, Printed(id)) = IF out.rows # {} THEN out.rows ELSE seen[w]
        BY <2>3, <3>3 DEF Told
      <3>. QED  BY <1>2, <1>5, <3>1, <3>2, <3>4
    <2>. QED  BY <2>4, <2>5
  <1>. QED  BY <1>2, <1>4, <1>5

LEMMA ToldRows ==
  ASSUME NEW known \in SUBSET (Rows \cup {Selected}), NEW kind, NEW first, NEW o \in Outputs
  PROVE  Told(known, kind, first, o) \in SUBSET (Rows \cup {Selected})
  BY DEF Told, Outputs

LEMMA NotifiesInv ==
  ASSUME DbInv, Notifies
  PROVE  DbInv'
  <1>0. /\ DbTypeOK /\ IdsOwned /\ StackShape /\ SubsRight /\ TicksPast
        /\ seen \in [Watches -> SUBSET (Rows \cup {Selected})] /\ userFuns \in [Ids -> {NoOp} \cup Watches]
        /\ funLastTick \in [Ids -> Nat]
    BY DEF DbInv, DbTypeOK
  <1>1. /\ Top.f = "loop"
        /\ UNCHANGED <<hist, active, fs, subs, marked, torn, notifications, notifying, queryVars, handle, robbed, disturbed>>
    BY DEF Notifies, engineVars, subVars, notifyVars
  <1>2. /\ stack # <<>> /\ Pop \in Seq(Frames) /\ Top.todo \in SUBSET Ids
        /\ notifying = TRUE /\ ~HasLoop(Pop) /\ WellStacked(Pop)
        /\ Todo(stack) = Todo(Pop) \cup Top.todo /\ Calls(Pop) = Calls(stack)
    BY <1>1, LoopOnTop
  <1>3. PICK id \in Top.todo :
          LET rest == Append(Pop, [f |-> "loop", todo |-> Top.todo \ {id}])
              w == userFuns[id]
              kind == handle[w].kind
          IN
          /\ out' = Printed(id)
          /\ IF w = NoOp THEN stack' = rest /\ UNCHANGED seen
             ELSE /\ seen' = [seen EXCEPT ![w] = Told(@, kind, FALSE, Printed(id))]
                  /\ stack' = Append(rest, Callback(id, kind, Printed(id)))
    BY DEF Notifies
  <1>4. PICK l \in Frames : l = [f |-> "loop", todo |-> Top.todo \ {id}] /\ l.f = "loop" /\ l.todo = Top.todo \ {id}
    <2>1. Top.todo \ {id} \in SUBSET Ids
      BY <1>2
    <2>. QED  BY <2>1, FramesMade
  <1>5. PICK rest \in Seq(Frames) :
          /\ rest = Append(Pop, l) /\ rest # <<>> /\ Last(rest) = l /\ HasLoop(rest) /\ WellStacked(rest)
          /\ Todo(rest) = Todo(Pop) \cup (Top.todo \ {id}) /\ Calls(rest) = Calls(stack)
    <2>1. /\ Append(Pop, l) \in Seq(Frames) /\ Append(Pop, l) # <<>> /\ Last(Append(Pop, l)) = l
          /\ HasLoop(Append(Pop, l))
          /\ Todo(Append(Pop, l)) = Todo(Pop) \cup l.todo /\ Calls(Append(Pop, l)) = Calls(Pop)
          /\ WellStacked(Append(Pop, l)) <=> WellStacked(Pop) /\ ~HasLoop(Pop)
      <3>1. Pop \in Seq(Frames) /\ l \in Frames /\ l.f = "loop"
        BY <1>2, <1>4
      <3>. QED  BY <3>1, LoopPushed
    <2>. QED  BY <1>2, <1>4, <2>1
  <1>6. id \in Ids /\ out' = Printed(id) /\ Tick' = Tick /\ Table' = Table
    BY <1>1, <1>2, <1>3 DEF Tick, Table
  <1>7. out' \in Outputs /\ out'.tick \in {NoTick} \cup Nat /\ out'.tick <= Tick
    BY <1>6, PrintedIs
  <1>8. IdsOwned' /\ SubsRight'
    BY <1>0, <1>1, IdsKept, SubsKept DEF queryVars
  <1>9. /\ \A s : Changed(s)' = Changed(s)
        /\ \A v : Changed(funLastTick[handle[v].id])' = Changed(funLastTick[handle[v].id])
        /\ Owners' = Owners
    BY <1>1 DEF Changed, Owners, Tick, queryVars
  <1>10. ASSUME NEW c PROVE Changed(Since(c.tick))' = Changed(Since(c.tick))
    BY <1>1 DEF Changed, Tick
  <1>11. CASE userFuns[id] = NoOp
    <2>1. stack' = rest /\ seen' = seen
      BY <1>3, <1>4, <1>5, <1>11
    <2>2. active[id] = "none" /\ out' = out
      <3>1. active[id] = "none"
        BY <1>0, <1>6, <1>11, OwnerHas DEF IdsOwned
      <3>. QED  BY <1>6, <3>1, PrintedIs
    <2>3. DbTypeOK'
      BY <1>0, <1>1, <1>5, <1>7, <2>1 DEF DbTypeOK, queryVars
    <2>4. StackShape'
      BY <1>1, <1>2, <1>5, <2>1 DEF StackShape
    <2>5. TicksPast'
      BY <1>0, <1>1, <1>5, <1>6, <1>7, <2>1 DEF TicksPast, queryVars
    <2>6. /\ Queued' \subseteq Queued /\ Queued \subseteq Queued' \cup {id}
      BY <1>1, <1>2, <1>5, <2>1 DEF Queued
    <2>7. Pending => Pending'
      <3>1. \A v \in Owners : handle[v].id # id
        BY <1>0, <1>11, OwnerHas
      <3>. QED  BY <1>1, <1>6, <1>9, <2>1, <2>6, <3>1 DEF Pending
    <2>8. MissedChanges => MissedChanges'
      <3>1. \A v : Missed(v)' = Missed(v)
        BY <1>6, <2>1 DEF Missed
      <3>2. Calls(stack') = Calls(stack)
        BY <1>5, <2>1
      <3>. QED  BY <1>1, <1>9, <1>10, <3>1, <3>2 DEF MissedChanges
    <2>9. OutputClean => OutputClean'
      <3>1. \A i : Changed(funLastTick[i])' = Changed(funLastTick[i])
        BY <1>1 DEF Changed, Tick, queryVars
      <3>. QED  BY <1>1, <1>6, <2>2, <2>6, <3>1 DEF OutputClean
    <2>10. NothingQueued'
      BY <1>1, <1>2 DEF NothingQueued
    <2>. QED  BY <1>1, <1>8, <2>3, <2>4, <2>5, <2>7, <2>8, <2>9, <2>10 DEF DbInv
  <1>12. CASE userFuns[id] # NoOp
    <2>1. PICK w \in Watches : w = userFuns[id] /\ handle[w].id = id
      BY <1>0, <1>6, <1>12 DEF IdsOwned
    <2>2. /\ seen' = [seen EXCEPT ![w] = Told(@, handle[w].kind, FALSE, Printed(id))]
          /\ stack' = Append(rest, Callback(id, handle[w].kind, Printed(id)))
      BY <1>3, <1>4, <1>5, <1>12, <2>1
    <2>3. PICK e \in Frames : /\ e = Callback(id, handle[w].kind, Printed(id)) /\ e.f = "callback" /\ e.id = id
                              /\ e.tick = out'.tick
      BY <1>6, <1>7, CallbackMade
    <2>4. /\ Append(rest, e) \in Seq(Frames) /\ Append(rest, e) # <<>> /\ Last(Append(rest, e)) = e
          /\ HasLoop(Append(rest, e)) <=> HasLoop(rest)
          /\ Todo(Append(rest, e)) = Todo(rest) /\ Calls(Append(rest, e)) = Calls(rest) \cup {e}
          /\ WellStacked(Append(rest, e)) <=> WellStacked(rest)
      BY <2>3, CallbackPushed
    <2>5. stack' = Append(rest, e)
      BY <2>2, <2>3
    <2>6. seen' \in [Watches -> SUBSET (Rows \cup {Selected})] /\ \A v \in Watches : v # w => seen'[v] = seen[v]
      <3>1. PICK x \in SUBSET (Rows \cup {Selected}) : x = Told(seen[w], handle[w].kind, FALSE, Printed(id))
        BY <1>0, <1>6, <1>7, ToldRows
      <3>2. seen' = [seen EXCEPT ![w] = x]
        BY <2>2, <3>1
      <3>. QED  BY <1>0, <3>2
    <2>7. DbTypeOK'
      BY <1>0, <1>1, <1>7, <2>4, <2>5, <2>6 DEF DbTypeOK, queryVars
    <2>8. StackShape'
      BY <1>1, <1>2, <1>5, <2>4, <2>5 DEF StackShape
    <2>9. TicksPast'
      BY <1>0, <1>1, <1>5, <1>6, <1>7, <2>3, <2>4, <2>5 DEF TicksPast, queryVars
    <2>10. ASSUME ~disturbed PROVE Pending' /\ MissedChanges' /\ OutputClean' /\ NothingQueued'
      <3>1. ASSUME w \in Owners PROVE seen'[w] = Table
        <4>1. Told(seen[w], handle[w].kind, FALSE, Printed(id)) = Table
          BY <1>1, <1>6, <2>1, <2>10, <3>1, ToldTable
        <4>. QED  BY <1>0, <2>2, <4>1
      <3>2. Pending /\ MissedChanges
        BY <2>10 DEF DbInv
      <3>3. Queued \subseteq Queued' \cup {id}
        BY <1>1, <1>2, <1>5, <2>4, <2>5 DEF Queued
      <3>4. \A v \in Owners : v \in Watches /\ (v # w => handle[v].id # id)
        BY <1>0, <2>1, OwnerHas
      <3>5. Pending'
        BY <1>1, <1>6, <1>9, <2>6, <3>1, <3>2, <3>3, <3>4 DEF Pending
      <3>6. MissedChanges'
        <4>1. w \in Owners => Missed(w)' = {}
          BY <1>6, <3>1 DEF Missed, Diff
        <4>2. \A v \in Watches : v # w => Missed(v)' = Missed(v)
          BY <1>6, <2>6 DEF Missed
        <4>3. \A c \in Calls(stack') : c.id # id => c \in Calls(stack)
          BY <1>5, <2>3, <2>4, <2>5
        <4>4. ASSUME NEW v \in Owners, v # w, handle[v].kind = "changes"
              PROVE  /\ Missed(v)' \subseteq Changed(funLastTick[handle[v].id])'
                     /\ \A c \in Calls(stack') :
                          c.changes /\ c.id = handle[v].id => Missed(v)' \subseteq Changed(Since(c.tick))'
          <5>1. /\ Missed(v) \subseteq Changed(funLastTick[handle[v].id])
                /\ \A c \in Calls(stack) : c.changes /\ c.id = handle[v].id => Missed(v) \subseteq Changed(Since(c.tick))
            BY <3>2, <4>4 DEF MissedChanges
          <5>2. handle[v].id # id
            BY <3>4, <4>4
          <5>. QED  BY <1>9, <1>10, <3>4, <4>2, <4>3, <4>4, <5>1, <5>2
        <4>. QED  BY <1>1, <1>9, <4>1, <4>4 DEF MissedChanges
      <3>7. OutputClean'
        <4>1. Top'.f = "callback"
          BY <2>3, <2>4, <2>5 DEF Top
        <4>. QED  BY <1>1, <1>2, <4>1 DEF OutputClean
      <3>8. NothingQueued'
        BY <1>1, <1>2 DEF NothingQueued
      <3>. QED  BY <3>5, <3>6, <3>7, <3>8
    <2>. QED  BY <1>1, <1>8, <2>7, <2>8, <2>9, <2>10 DEF DbInv
  <1>. QED  BY <1>11, <1>12
-----------------------------------------------------------------------------
LEMMA UnchangedInv == ASSUME DbInv, UNCHANGED dbVars PROVE DbInv'
  <1>1. UNCHANGED <<hist, fs, subs, notifyVars, handle, robbed, seen, active, queryVars, disturbed, stack, out>>
    BY DEF dbVars, engineVars, subVars, ownerVars
  <1>. QED  BY <1>1, StackStays

LEMMA DbStepInv == ASSUME DbInv, [DbNext]_dbVars PROVE DbInv'
  <1>1. CASE exec BY <1>1, ExecInv
  <1>2. CASE schema BY <1>2, SchemaInv
  <1>3. CASE insert BY <1>3, InsertInv
  <1>4. CASE insertMany BY <1>4, InsertManyInv
  <1>5. CASE MainFails
    <2>1. stack' = stack \/ (Top.f = "many" /\ stack' = Pop)
      BY <1>5 DEF MainFails
    <2>. QED  BY <1>5, <2>1, QuietActionsInv, ReturnsInv
  <1>6. CASE subscribe BY <1>6, SubscribeInv
  <1>7. CASE save BY <1>7, QuietActionsInv
  <1>8. CASE Reload BY <1>8, ReloadInv
  <1>9. CASE manageWatch BY <1>9, WatchInv
  <1>10. CASE WatchFails BY <1>10, WatchFailsInv
  <1>11. CASE CloseWatch BY <1>11, CloseWatchInv
  <1>12. CASE CallbackThrows BY <1>12, CallbackThrowsInv
  <1>13. CASE Step
    <2>1. CASE RunnerReturns \/ InsertManyReturns BY <2>1, ReturnsInv
    <2>2. CASE InsertsBatch BY <2>2, InsertsBatchInv
    <2>3. CASE Notifies BY <2>3, NotifiesInv
    <2>4. CASE NextBatch BY <2>4, NextBatchInv
    <2>5. CASE LoopEnds BY <2>5, LoopEndsInv
    <2>6. CASE CallbackReturns BY <2>6, CallbackReturnsInv
    <2>. QED  BY <1>13, <2>1, <2>2, <2>3, <2>4, <2>5, <2>6 DEF Step
  <1>14. CASE ExecFails BY <1>14, ExecFailsInv
  <1>15. CASE UNCHANGED dbVars BY <1>15, UnchangedInv
  <1>. QED
    BY <1>1, <1>2, <1>3, <1>4, <1>5, <1>6, <1>7, <1>8, <1>9, <1>10, <1>11, <1>12, <1>13, <1>14, <1>15 DEF DbNext

LEMMA DbAlways == DbSpec => []DbInv
  <1>1. DbInit => DbInv BY InitDbInv
  <1>2. DbInv /\ [DbNext]_dbVars => DbInv' BY DbStepInv
  <1>. QED  BY <1>1, <1>2, PTL DEF DbSpec

\* When nothing runs, the loop's flag is not set, and unless something has disturbed
\* the notifications every owner of a watch has been told the table as it is, or is
\* marked to be told since the last call has failed after it wrote; the owners of
\* subscriptions know the table at all times, however callbacks wrote, watched and
\* closed while others were being told (checkNotifications, manageWatch, main,
\* File.close).
THEOREM WatchersKnowTheTable == DbSpec => []WatchersRight
  <1>1. DbInv => WatchersRight
    <2>. SUFFICES ASSUME DbInv PROVE WatchersRight
      OBVIOUS
    <2>1. \A s \in DOMAIN subs : subs[s] = Table
      <3>1. subs \in Seq(SUBSET Rows) /\ \A n \in 1..Len(subs) : subs[n] = Table
        BY DEF DbInv, SubsRight
      <3>. QED  BY <3>1
    <2>2. ASSUME stack = <<>> PROVE ~HasLoop(stack) /\ Todo(stack) = {}
      <3>1. 1..Len(stack) = {}
        BY <2>2
      <3>. QED  BY <3>1 DEF HasLoop, Todo
    <2>3. stack = <<>> => ~notifying
      BY <2>2 DEF DbInv, StackShape
    <2>4. ASSUME stack = <<>>, ~disturbed, NEW w \in Owners
          PROVE  seen[w] = Table \/ (torn /\ handle[w].id \in marked)
      <3>1. notifications = <<>>
        BY <2>3, <2>4 DEF DbInv, NothingQueued
      <3>2. UNION Range(notifications) = {}
        BY <3>1 DEF Range
      <3>3. Queued = {}
        BY <2>2, <2>4, <3>2 DEF Queued
      <3>. QED  BY <2>4, <3>3 DEF DbInv, Pending
    <2>. QED  BY <2>1, <2>3, <2>4 DEF WatchersRight
  <1>. QED  BY <1>1, DbAlways, PTL

\* An id belongs to one owner, whose callback and query it has, or is free once,
\* whatever fails and however often a watch is closed (manageWatch, runCheckError,
\* close): only the handle of a watch that is closed, or was itself robbed of its id,
\* takes an id from another.
THEOREM IdsStayDisjoint == DbSpec => []IdsDisjoint
  <1>1. DbInv => IdsDisjoint
    <2>. SUFFICES ASSUME DbInv PROVE IdsDisjoint
      OBVIOUS
    <2>1. IdsOwned
      BY DEF DbInv
    <2>2. ASSUME NEW w \in Owners
          PROVE  /\ handle[w].id \notin Range(freeQueryIDs)
                 /\ userFuns[handle[w].id] = w /\ active[handle[w].id] = handle[w].kind
                 /\ \A v \in Owners \ {w} : handle[v].id # handle[w].id
      BY <2>1, OwnerHas DEF IdsOwned
    <2>. QED  BY <2>1, <2>2 DEF IdsOwned, IdsDisjoint
  <1>. QED  BY <1>1, DbAlways, PTL

\* Every variable of the local database keeps its type; the frames on the stack are
\* those of calls the code makes.
THEOREM DbTypesRight == DbSpec => []DbTypeOK
  <1>1. DbInv => DbTypeOK BY DEF DbInv
  <1>. QED  BY <1>1, DbAlways, PTL
-----------------------------------------------------------------------------
(***************************************************************************)
(* Resilient (Init, Next and Spec are its): any sets of streams and        *)
(* requests, any number of sockets and failures.                           *)
(***************************************************************************)

USE DEF Users, Sockets, On, Waiting

\* The connection starts with one working socket and no user.
LEMMA InitInv == Init => ResilientInv
  <1> SUFFICES ASSUME Init PROVE ResilientInv
    OBVIOUS
  <1>1. TypeOK
    <2>1. 1 \in Sockets /\ 0 \in 0..MaxSockets /\ 1 \in 0..MaxSockets /\ 0 \in 0..MaxFaults
      BY ResilientBounds
    <2>2. sock \in [Sockets -> SocketStates]
      BY DEF Init, SocketStates
    <2>3. pc \in [Users -> UserStates] /\ at \in [Users -> 0..MaxSockets]
      BY <2>1 DEF Init, UserStates
    <2>. QED  BY <2>1, <2>2, <2>3 DEF Init, TypeOK
  <1>2. OneConnection /\ SocketInv
    BY <1>1, ResilientBounds DEF Init, TypeOK, OneConnection, SocketInv
  <1>3. NoOrphans /\ AttachedToLive /\ UserInv
    BY <1>1 DEF Init, TypeOK, NoOrphans, AttachedToLive, UserInv
  <1>. QED  BY <1>1, <1>2, <1>3 DEF ResilientInv

\* Open gives the newcomer a stream on the current socket or a place in the
\* queue.
LEMMA OpenInv ==
  ASSUME ResilientInv, NEW u \in Users, Open(u)
  PROVE  ResilientInv'
  <1>. USE DEF Open, Move, GetSocket
  <1>1. TypeOK'
    BY ResilientBounds DEF ResilientInv, TypeOK, SocketStates, UserStates
  <1>2. OneConnection' /\ SocketInv'
    BY ResilientBounds DEF ResilientInv, TypeOK, OneConnection, SocketInv
  <1>3. NoOrphans'
    BY DEF ResilientInv, TypeOK, NoOrphans, OneConnection, SocketInv, AttachedToLive
  <1>4. AttachedToLive' /\ UserInv'
    BY ResilientBounds DEF ResilientInv, TypeOK, AttachedToLive, UserInv, SocketInv
  <1>. QED  BY <1>1, <1>2, <1>3, <1>4 DEF ResilientInv

\* Only an attached stream is armed.
LEMMA ExpectingDataInv ==
  ASSUME ResilientInv, NEW u \in Users, ExpectingData(u)
  PROVE  ResilientInv'
  <1>. USE DEF ExpectingData
  <1>1. TypeOK'
    BY ResilientBounds DEF ResilientInv, TypeOK, SocketStates, UserStates
  <1>2. OneConnection' /\ SocketInv'
    BY ResilientBounds DEF ResilientInv, TypeOK, OneConnection, SocketInv
  <1>3. NoOrphans'
    BY DEF ResilientInv, TypeOK, NoOrphans, OneConnection, SocketInv, AttachedToLive
  <1>4. AttachedToLive' /\ UserInv'
    BY ResilientBounds DEF ResilientInv, TypeOK, AttachedToLive, UserInv, SocketInv
  <1>. QED  BY <1>1, <1>2, <1>3, <1>4 DEF ResilientInv

\* A closed stream lets go of its socket and its timer.
LEMMA CloseInv ==
  ASSUME ResilientInv, NEW u \in Users, Close(u)
  PROVE  ResilientInv'
  <1>. USE DEF Close, Move
  <1>1. TypeOK'
    BY ResilientBounds DEF ResilientInv, TypeOK, SocketStates, UserStates
  <1>2. OneConnection' /\ SocketInv'
    BY ResilientBounds DEF ResilientInv, TypeOK, OneConnection, SocketInv
  <1>3. NoOrphans'
    BY DEF ResilientInv, TypeOK, NoOrphans, OneConnection, SocketInv, AttachedToLive
  <1>4. AttachedToLive' /\ UserInv'
    BY ResilientBounds DEF ResilientInv, TypeOK, AttachedToLive, UserInv, SocketInv
  <1>. QED  BY <1>1, <1>2, <1>3, <1>4 DEF ResilientInv

\* closeSocket makes the current socket a closing one, and its streams stay.
LEMMA CloseSocketInv ==
  ASSUME ResilientInv, CloseSocket
  PROVE  ResilientInv'
  <1>. USE DEF CloseSocket
  <1>1. TypeOK'
    <2>1. CASE cur # 0
      BY <2>1, ResilientBounds DEF ResilientInv, TypeOK, SocketStates
    <2>2. CASE cur = 0
      BY <2>2, ResilientBounds DEF ResilientInv, TypeOK
    <2>. QED  BY <2>1, <2>2
  <1>2. OneConnection' /\ SocketInv'
    BY ResilientBounds DEF ResilientInv, TypeOK, OneConnection, SocketInv
  <1>3. NoOrphans'
    BY DEF ResilientInv, TypeOK, NoOrphans, OneConnection, SocketInv, AttachedToLive
  <1>4. AttachedToLive' /\ UserInv'
    BY ResilientBounds DEF ResilientInv, TypeOK, AttachedToLive, UserInv, SocketInv
  <1>. QED  BY <1>1, <1>2, <1>3, <1>4 DEF ResilientInv

\* Data only disarms a timer.
LEMMA DataArrivesInv ==
  ASSUME ResilientInv, NEW u \in Users, DataArrives(u)
  PROVE  ResilientInv'
  <1>. USE DEF DataArrives
  <1>1. TypeOK'
    BY ResilientBounds DEF ResilientInv, TypeOK, SocketStates, UserStates
  <1>2. OneConnection' /\ SocketInv'
    BY ResilientBounds DEF ResilientInv, TypeOK, OneConnection, SocketInv
  <1>3. NoOrphans'
    BY DEF ResilientInv, TypeOK, NoOrphans, OneConnection, SocketInv, AttachedToLive
  <1>4. AttachedToLive' /\ UserInv'
    BY ResilientBounds DEF ResilientInv, TypeOK, AttachedToLive, UserInv, SocketInv
  <1>. QED  BY <1>1, <1>2, <1>3, <1>4 DEF ResilientInv

\* A settled request leaves its socket.
LEMMA ReqDoneInv ==
  ASSUME ResilientInv, NEW u \in Users, ReqDone(u)
  PROVE  ResilientInv'
  <1>. USE DEF ReqDone, Move
  <1>1. TypeOK'
    BY ResilientBounds DEF ResilientInv, TypeOK, SocketStates, UserStates
  <1>2. OneConnection' /\ SocketInv'
    BY ResilientBounds DEF ResilientInv, TypeOK, OneConnection, SocketInv
  <1>3. NoOrphans'
    BY DEF ResilientInv, TypeOK, NoOrphans, OneConnection, SocketInv, AttachedToLive
  <1>4. AttachedToLive' /\ UserInv'
    BY ResilientBounds DEF ResilientInv, TypeOK, AttachedToLive, UserInv, SocketInv
  <1>. QED  BY <1>1, <1>2, <1>3, <1>4 DEF ResilientInv

\* A silent socket is still the current one.
LEMMA StallsInv ==
  ASSUME ResilientInv, Stalls
  PROVE  ResilientInv'
  <1>. USE DEF Stalls, Fault
  <1>1. TypeOK'
    BY ResilientBounds DEF ResilientInv, TypeOK, SocketStates, UserStates
  <1>2. OneConnection' /\ SocketInv'
    BY ResilientBounds DEF ResilientInv, TypeOK, OneConnection, SocketInv
  <1>3. NoOrphans'
    BY DEF ResilientInv, TypeOK, NoOrphans, OneConnection, SocketInv, AttachedToLive
  <1>4. AttachedToLive' /\ UserInv'
    BY ResilientBounds DEF ResilientInv, TypeOK, AttachedToLive, UserInv, SocketInv
  <1>. QED  BY <1>1, <1>2, <1>3, <1>4 DEF ResilientInv

\* A failing socket loses all its users before it is dead, and the loop
\* starts.
LEMMA SocketFailsInv ==
  ASSUME ResilientInv, SocketFails
  PROVE  ResilientInv'
  <1>. USE DEF SocketFails, Fault, Evict
  <1>1. TypeOK'
    BY ResilientBounds DEF ResilientInv, TypeOK, SocketStates, UserStates
  <1>2. OneConnection' /\ SocketInv'
    BY ResilientBounds DEF ResilientInv, TypeOK, OneConnection, SocketInv
  <1>3. NoOrphans'
    BY DEF ResilientInv, TypeOK, NoOrphans, OneConnection, SocketInv, AttachedToLive
  <1>4. AttachedToLive' /\ UserInv'
    BY ResilientBounds DEF ResilientInv, TypeOK, AttachedToLive, UserInv, SocketInv
  <1>. QED  BY <1>1, <1>2, <1>3, <1>4 DEF ResilientInv

\* A refused socket loses all its users; nobody was waiting.
LEMMA SocketRefusedInv ==
  ASSUME ResilientInv, SocketRefused
  PROVE  ResilientInv'
  <1>. USE DEF SocketRefused, Fault, Evict
  <1>1. TypeOK'
    BY ResilientBounds DEF ResilientInv, TypeOK, SocketStates, UserStates
  <1>2. OneConnection' /\ SocketInv'
    BY ResilientBounds DEF ResilientInv, TypeOK, OneConnection, SocketInv
  <1>3. NoOrphans'
    BY DEF ResilientInv, TypeOK, NoOrphans, OneConnection, SocketInv, AttachedToLive
  <1>4. AttachedToLive' /\ UserInv'
    BY ResilientBounds DEF ResilientInv, TypeOK, AttachedToLive, UserInv, SocketInv
  <1>. QED  BY <1>1, <1>2, <1>3, <1>4 DEF ResilientInv

\* The end of a closing socket sends its streams to the queue of a closed
\* connection.
LEMMA ClosingSocketEndsInv ==
  ASSUME ResilientInv, NEW i \in Sockets, ClosingSocketEnds(i)
  PROVE  ResilientInv'
  <1>. USE DEF ClosingSocketEnds
  <1>1. TypeOK'
    <2>1. 0 \in 0..MaxSockets
      BY ResilientBounds
    <2>2. pc' \in [Users -> UserStates] /\ at' \in [Users -> 0..MaxSockets]
      BY <2>1 DEF ResilientInv, TypeOK, UserStates
    <2>3. sock' \in [Sockets -> SocketStates] /\ failed' \in BOOLEAN
      BY DEF ResilientInv, TypeOK, SocketStates
    <2>. QED  BY <2>2, <2>3 DEF ResilientInv, TypeOK
  <1>2. OneConnection' /\ SocketInv'
    BY ResilientBounds DEF ResilientInv, TypeOK, OneConnection, SocketInv
  <1>3. NoOrphans'
    BY DEF ResilientInv, TypeOK, NoOrphans, OneConnection, SocketInv, AttachedToLive
  <1>4. AttachedToLive' /\ UserInv'
    BY ResilientBounds DEF ResilientInv, TypeOK, AttachedToLive, UserInv, SocketInv
  <1>. QED  BY <1>1, <1>2, <1>3, <1>4 DEF ResilientInv

\* A stream that replaces itself pings the current socket, or queues if the
\* loop runs or the connection was closed.
LEMMA ReplaceInv ==
  ASSUME ResilientInv, NEW u \in Users, StreamFails(u) \/ StreamExpires(u)
  PROVE  ResilientInv'
  <1>. USE DEF StreamFails, StreamExpires, Fault, ReplaceStream, Move
  <1>1. TypeOK'
    <2>1. faults' \in 0..MaxFaults
      BY ResilientBounds DEF ResilientInv, TypeOK
    <2>2. pc' \in [Users -> UserStates] /\ at' \in [Users -> 0..MaxSockets]
      BY DEF ResilientInv, TypeOK, UserStates
    <2>. QED  BY <2>1, <2>2 DEF ResilientInv, TypeOK
  <1>2. OneConnection' /\ SocketInv'
    BY ResilientBounds DEF ResilientInv, TypeOK, OneConnection, SocketInv
  <1>3. NoOrphans'
    BY DEF ResilientInv, TypeOK, NoOrphans, OneConnection, SocketInv, AttachedToLive
  <1>4. AttachedToLive' /\ UserInv'
    BY ResilientBounds DEF ResilientInv, TypeOK, AttachedToLive, UserInv, SocketInv
  <1>. QED  BY <1>1, <1>2, <1>3, <1>4 DEF ResilientInv

\* A pong puts the streams back on the current socket, whichever socket
\* answered.
LEMMA PongInv ==
  ASSUME ResilientInv, NEW i \in Sockets, Pong(i)
  PROVE  ResilientInv'
  <1>. USE DEF Pong, Move, GetSocket
  <1>1. TypeOK'
    BY ResilientBounds DEF ResilientInv, TypeOK, SocketStates, UserStates
  <1>2. OneConnection' /\ SocketInv'
    BY ResilientBounds DEF ResilientInv, TypeOK, OneConnection, SocketInv
  <1>3. NoOrphans'
    BY DEF ResilientInv, TypeOK, NoOrphans, OneConnection, SocketInv, AttachedToLive
  <1>4. AttachedToLive' /\ UserInv'
    BY ResilientBounds DEF ResilientInv, TypeOK, AttachedToLive, UserInv, SocketInv
  <1>. QED  BY <1>1, <1>2, <1>3, <1>4 DEF ResilientInv

\* A failed check empties the current socket before it is dropped.
LEMMA PingTimeoutInv ==
  ASSUME ResilientInv, NEW u \in Users, PingTimeout(u)
  PROVE  ResilientInv'
  <1>. USE DEF PingTimeout, Fault, Move, GetSocket
  <1>1. TypeOK'
    <2>1. CASE cur # 0 /\ ~failed
      <3>1. 0 \in 0..MaxSockets /\ faults' \in 0..MaxFaults
        BY <2>1, ResilientBounds DEF ResilientInv, TypeOK
      <3>2. pc' \in [Users -> UserStates]
        BY <2>1 DEF ResilientInv, TypeOK, UserStates
      <3>3. at' \in [Users -> 0..MaxSockets]
        BY <2>1, <3>1 DEF ResilientInv, TypeOK
      <3>4. cur' \in 0..MaxSockets /\ sock' \in [Sockets -> SocketStates]
        BY <2>1, ResilientBounds DEF ResilientInv, TypeOK, SocketStates
      <3>. QED  BY <2>1, <3>1, <3>2, <3>3, <3>4 DEF ResilientInv, TypeOK
    <2>2. CASE ~(cur # 0 /\ ~failed)
      BY <2>2, ResilientBounds DEF ResilientInv, TypeOK, UserStates
    <2>. QED  BY <2>1, <2>2
  <1>2. OneConnection' /\ SocketInv'
    BY ResilientBounds DEF ResilientInv, TypeOK, OneConnection, SocketInv
  <1>3. NoOrphans'
    BY DEF ResilientInv, TypeOK, NoOrphans, OneConnection, SocketInv, AttachedToLive
  <1>4. AttachedToLive' /\ UserInv'
    BY ResilientBounds DEF ResilientInv, TypeOK, AttachedToLive, UserInv, SocketInv
  <1>. QED  BY <1>1, <1>2, <1>3, <1>4 DEF ResilientInv

\* The loop ends with a fresh socket and an empty queue, or with a closed
\* connection.
LEMMA ConnectedInv ==
  ASSUME ResilientInv, Connected
  PROVE  ResilientInv'
  <1>. USE DEF Connected, Fault, Attach, AttachAndClose, Move
  <1>1. TypeOK'
    <2>1. last + 1 \in Sockets /\ last + 1 \in 0..MaxSockets /\ last' = last + 1
      BY ResilientBounds DEF ResilientInv, TypeOK
    <2>2. faults' \in 0..MaxFaults /\ sock' \in [Sockets -> SocketStates]
      BY <2>1, ResilientBounds DEF ResilientInv, TypeOK, SocketStates
    <2>3. cur' \in 0..MaxSockets /\ closer' \in BOOLEAN /\ shut' \in BOOLEAN
      <3>1. CASE closer
        <4>1. cur' = 0 /\ closer' = FALSE /\ shut' = TRUE
          BY <3>1
        <4>2. 0 \in 0..MaxSockets
          BY ResilientBounds
        <4>. QED  BY <4>1, <4>2
      <3>2. CASE ~closer
        BY <2>1, <3>2 DEF ResilientInv, TypeOK
      <3>. QED  BY <3>1, <3>2
    <2>4. pc' \in [Users -> UserStates] /\ at' \in [Users -> 0..MaxSockets]
      BY <2>1 DEF ResilientInv, TypeOK, UserStates
    <2>. QED  BY <2>1, <2>2, <2>3, <2>4 DEF ResilientInv, TypeOK
  <1>2. OneConnection' /\ SocketInv'
    BY ResilientBounds DEF ResilientInv, TypeOK, OneConnection, SocketInv
  <1>3. NoOrphans'
    BY DEF ResilientInv, TypeOK, NoOrphans, OneConnection, SocketInv, AttachedToLive
  <1>4. AttachedToLive' /\ UserInv'
    <2>1. last + 1 \in Sockets
      BY ResilientBounds DEF ResilientInv, TypeOK
    <2>2. CASE closer
      <3>1. sock' = [sock EXCEPT ![last + 1] = "closing"]
        BY <2>2
      <3>2. cur = 0
        BY <2>2 DEF ResilientInv, OneConnection
      <3>. QED  BY <2>1, <2>2, <3>1, <3>2 DEF ResilientInv, TypeOK, AttachedToLive, UserInv, SocketInv
    <2>3. CASE ~closer
      <3>1. cur' = last + 1 /\ cur = 0
        BY <2>3 DEF ResilientInv, OneConnection
      <3>2. \A j \in Sockets : sock[j] = "closing" => sock'[j] = "closing"
        BY <2>1, ResilientBounds DEF ResilientInv, TypeOK, SocketInv
      <3>. QED  BY <2>1, <2>3, <3>1, <3>2 DEF ResilientInv, TypeOK, AttachedToLive, UserInv
    <2>. QED  BY <2>2, <2>3
  <1>. QED  BY <1>1, <1>2, <1>3, <1>4 DEF ResilientInv

-----------------------------------------------------------------------------
\* A step of the users, of the sockets or of a timer preserves the invariant.
LEMMA NextInv ==
  ASSUME ResilientInv, [Next]_vars
  PROVE  ResilientInv'
  <1>1. CASE UserStep
    BY <1>1, CloseSocketInv, OpenInv, ExpectingDataInv, CloseInv DEF UserStep
  <1>2. CASE SocketStep
    BY <1>2, StallsInv, SocketFailsInv, SocketRefusedInv, ConnectedInv, ClosingSocketEndsInv,
       PongInv, DataArrivesInv, ReqDoneInv, ReplaceInv DEF SocketStep
  <1>3. CASE TimerStep
    BY <1>3, ReplaceInv, PingTimeoutInv DEF TimerStep
  <1>4. CASE UNCHANGED vars
    BY <1>4 DEF vars, ResilientInv, TypeOK, OneConnection, NoOrphans, AttachedToLive,
                SocketInv, UserInv
  <1>. QED  BY <1>1, <1>2, <1>3, <1>4 DEF Next

\* ResilientInv holds in every state of the resilient connection.
THEOREM ResilientInvariant == Spec => []ResilientInv
  <1>. QED  BY InitInv, NextInv, PTL DEF Spec

\* Whatever fails and in whatever order, there is one connection at a time and
\* replaceFailedSocket leaves no working socket behind.
THEOREM OneConnectionAlways == Spec => []OneConnection
  <1>1. ResilientInv => OneConnection
    BY DEF ResilientInv
  <1>. QED  BY <1>1, ResilientInvariant, PTL

\* Whoever waits in socketQueue is waiting for a connect loop that runs, unless
\* closeSocket was called.
THEOREM NobodyOrphaned == Spec => []NoOrphans
  <1>1. ResilientInv => NoOrphans
    BY DEF ResilientInv
  <1>. QED  BY <1>1, ResilientInvariant, PTL

\* No stream in a user's hands sits on a socket that is over, and no timer of a
\* stream outlives its attachment.
THEOREM StreamsOnLiveSockets == Spec => []AttachedToLive
  <1>1. ResilientInv => AttachedToLive
    BY DEF ResilientInv
  <1>. QED  BY <1>1, ResilientInvariant, PTL
=============================================================================
