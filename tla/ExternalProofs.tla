--------------------------- MODULE ExternalProofs ---------------------------
(***************************************************************************)
(* Proof about the external services (External): what an instance that was *)
(* open leaves behind (Released).                                          *)
(***************************************************************************)
EXTENDS External, FiniteSetTheorems, SequenceTheorems, TLAPS

\* The queue of the database when its first query is done.
LEMMA QueueTail ==
  ASSUME NEW q \in Seq(QuerySet), q # <<>>, NEW t, t = Tail(q), NEW ph, NEW un, NEW ea, NEW d, Queued(q, ph, un, ea, d)
  PROVE  /\ t \in Seq(QuerySet) /\ Queued(t, ph, un, ea, d)
         /\ Head(q) \in QuerySet /\ Head(q) = q[1] /\ 1 \in DOMAIN q
         /\ \A i : HasDrop(q, i) => HasDrop(t, i) \/ (Head(q).op = "drop" /\ i \in Head(q).is)
         /\ Head(q).op = "end" => d /\ \A i : HasDrop(q, i) => i \in ea
         /\ IsSetup(Head(q)) => Unready(ph, un, Head(q).i) /\ \A n \in DOMAIN t : IsSetup(t[n]) => t[n].i # Head(q).i
  <1>1. PICK l \in Nat : l = Len(q) OBVIOUS
  <1>2. l > 0 /\ DOMAIN q = 1..l BY <1>1
  <1>3. /\ t \in Seq(QuerySet) /\ Len(t) = l - 1 /\ DOMAIN t = 1..(l - 1)
        /\ \A n \in 1..(l - 1) : t[n] = q[n + 1]
    BY <1>1, <1>2
  <1>4. \A n \in DOMAIN t : n + 1 \in DOMAIN q /\ t[n] = q[n + 1] /\ n \in Nat BY <1>2, <1>3
  <1>5. Head(q) = q[1] /\ 1 \in DOMAIN q /\ Head(q) \in QuerySet BY <1>1, <1>2
  <1>6. Queued(t, ph, un, ea, d)
    <2>1. \A n \in DOMAIN t : IsSetup(t[n]) => Unready(ph, un, t[n].i) BY <1>4 DEF Queued
    <2>2. \A n, m \in DOMAIN t : IsSetup(t[n]) /\ IsSetup(t[m]) /\ t[n].i = t[m].i => n = m
      <3> SUFFICES ASSUME NEW n \in DOMAIN t, NEW m \in DOMAIN t, IsSetup(t[n]), IsSetup(t[m]), t[n].i = t[m].i
                   PROVE  n = m
        OBVIOUS
      <3>1. n + 1 = m + 1 BY <1>4 DEF Queued
      <3> QED BY <1>4, <3>1
    <2>3. \A n, m \in DOMAIN t : t[n].op = "end" => d /\ (t[m].op = "drop" /\ ~(t[m].is \subseteq ea) => m < n)
      <3> SUFFICES ASSUME NEW n \in DOMAIN t, NEW m \in DOMAIN t, t[n].op = "end"
                   PROVE  d /\ (t[m].op = "drop" /\ ~(t[m].is \subseteq ea) => m < n)
        OBVIOUS
      <3>1. d /\ (t[m].op = "drop" /\ ~(t[m].is \subseteq ea) => m + 1 < n + 1) BY <1>4 DEF Queued
      <3> QED BY <1>4, <3>1
    <2> QED BY <2>1, <2>2, <2>3 DEF Queued
  <1>7. ASSUME NEW i, HasDrop(q, i)
        PROVE  HasDrop(t, i) \/ (Head(q).op = "drop" /\ i \in Head(q).is)
    <2>1. PICK n \in DOMAIN q : q[n].op = "drop" /\ i \in q[n].is BY <1>7 DEF HasDrop
    <2>2. CASE n = 1 BY <1>5, <2>1, <2>2
    <2>3. CASE n # 1
      <3>1. n - 1 \in 1..(l - 1) /\ (n - 1) + 1 = n BY <1>2, <2>1, <2>3
      <3>2. n - 1 \in DOMAIN t /\ t[n - 1] = q[n] BY <1>3, <3>1
      <3> QED BY <2>1, <3>2 DEF HasDrop
    <2> QED BY <2>2, <2>3
  <1>8. ASSUME Head(q).op = "end" PROVE d /\ \A i : HasDrop(q, i) => i \in ea
    <2>1. \A m \in DOMAIN q : d /\ (q[m].op = "drop" /\ ~(q[m].is \subseteq ea) => m < 1)
      BY <1>5, <1>8 DEF Queued
    <2>2. \A m \in DOMAIN q : ~(m < 1) BY <1>2
    <2> QED BY <1>5, <2>1, <2>2 DEF HasDrop
  <1>9. ASSUME IsSetup(Head(q))
        PROVE  Unready(ph, un, Head(q).i) /\ \A n \in DOMAIN t : IsSetup(t[n]) => t[n].i # Head(q).i
    <2>1. Unready(ph, un, Head(q).i) BY <1>5, <1>9 DEF Queued
    <2>2. \A n \in DOMAIN t : IsSetup(t[n]) => t[n].i # Head(q).i
      <3> SUFFICES ASSUME NEW n \in DOMAIN t, IsSetup(t[n]), t[n].i = Head(q).i PROVE FALSE
        OBVIOUS
      <3>1. n + 1 = 1 BY <1>4, <1>5, <1>9 DEF Queued
      <3> QED BY <1>4, <3>1
    <2> QED BY <2>1, <2>2
  <1> QED BY <1>3, <1>5, <1>6, <1>7, <1>8, <1>9

\* The queue when queries of a new kind are appended: none of them sets an instance up
\* that another one does, and no drop comes after an end.
Joins(q, p, ea) ==
  \A n \in DOMAIN q, m \in DOMAIN p :
    /\ IsSetup(q[n]) /\ IsSetup(p[m]) => q[n].i # p[m].i
    /\ ~(q[n].op = "end" /\ p[m].op = "drop" /\ ~(p[m].is \subseteq ea))
LEMMA QueueConcat ==
  ASSUME NEW q \in Seq(QuerySet), NEW p \in Seq(QuerySet), NEW t, t = q \o p, NEW ph, NEW un, NEW ea, NEW d,
         Queued(q, ph, un, ea, d), Queued(p, ph, un, ea, d), Joins(q, p, ea)
  PROVE  /\ t \in Seq(QuerySet) /\ Queued(t, ph, un, ea, d)
         /\ \A i : HasDrop(t, i) <=> HasDrop(q, i) \/ HasDrop(p, i)
  <1>1. PICK u \in Nat : u = Len(q) OBVIOUS
  <1>2. PICK v \in Nat : v = Len(p) OBVIOUS
  <1>3. /\ t \in Seq(QuerySet) /\ DOMAIN t = 1..(u + v) /\ DOMAIN q = 1..u /\ DOMAIN p = 1..v
        /\ \A n \in 1..u : t[n] = q[n]
        /\ \A n \in 1..v : t[n + u] = p[n]
    <2>1. t \in Seq(QuerySet) /\ Len(t) = Len(q) + Len(p)
          /\ \A n \in 1..(Len(q) + Len(p)) : t[n] = IF n <= Len(q) THEN q[n] ELSE p[n - Len(q)]
      BY ConcatProperties
    <2>2. DOMAIN t = 1..(u + v) /\ DOMAIN q = 1..u /\ DOMAIN p = 1..v BY <1>1, <1>2, <2>1
    <2>3. \A n \in 1..u : n \in 1..(u + v) /\ n <= u OBVIOUS
    <2>4. \A n \in 1..v : n + u \in 1..(u + v) /\ ~(n + u <= u) /\ (n + u) - u = n OBVIOUS
    <2> QED BY <1>1, <1>2, <2>1, <2>2, <2>3, <2>4
  <1>4. \A n \in DOMAIN t : \/ n \in DOMAIN q /\ t[n] = q[n]
                            \/ n - u \in DOMAIN p /\ t[n] = p[n - u] /\ n > u
    <2> SUFFICES ASSUME NEW n \in 1..(u + v)
                 PROVE  \/ n \in 1..u /\ t[n] = q[n]
                        \/ n - u \in 1..v /\ t[n] = p[n - u] /\ n > u
      BY <1>3
    <2>1. CASE n <= u BY <1>3, <2>1
    <2>2. CASE n > u
      <3>1. n - u \in 1..v /\ (n - u) + u = n BY <2>2
      <3> QED BY <1>3, <2>2, <3>1
    <2>3. n <= u \/ n > u OBVIOUS
    <2> QED BY <2>1, <2>2, <2>3
  <1>5. \A n \in DOMAIN t : IsSetup(t[n]) => Unready(ph, un, t[n].i) BY <1>4 DEF Queued
  <1>6. \A n \in DOMAIN t : n \in Int BY <1>3
  <1>7. ASSUME NEW n \in DOMAIN t, NEW m \in DOMAIN t, IsSetup(t[n]), IsSetup(t[m]), t[n].i = t[m].i
        PROVE  n = m
    <2>1. CASE n \in DOMAIN q /\ t[n] = q[n] /\ m \in DOMAIN q /\ t[m] = q[m] BY <1>7, <2>1 DEF Queued
    <2>2. CASE n \in DOMAIN q /\ t[n] = q[n] /\ m - u \in DOMAIN p /\ t[m] = p[m - u] BY <1>7, <2>2 DEF Joins
    <2>3. CASE n - u \in DOMAIN p /\ t[n] = p[n - u] /\ m \in DOMAIN q /\ t[m] = q[m] BY <1>7, <2>3 DEF Joins
    <2>4. CASE n - u \in DOMAIN p /\ t[n] = p[n - u] /\ m - u \in DOMAIN p /\ t[m] = p[m - u]
      <3>1. n - u = m - u BY <1>7, <2>4 DEF Queued
      <3> QED BY <1>6, <3>1
    <2> QED BY <1>4, <2>1, <2>2, <2>3, <2>4
  <1>8. ASSUME NEW n \in DOMAIN t, NEW m \in DOMAIN t, t[n].op = "end"
        PROVE  d /\ (t[m].op = "drop" /\ ~(t[m].is \subseteq ea) => m < n)
    <2>1. d BY <1>4, <1>8 DEF Queued
    <2> SUFFICES ASSUME t[m].op = "drop", ~(t[m].is \subseteq ea) PROVE m < n
      BY <2>1
    <2>2. CASE n \in DOMAIN q /\ t[n] = q[n] /\ m \in DOMAIN q /\ t[m] = q[m] BY <1>8, <2>2 DEF Queued
    <2>3. CASE n \in DOMAIN q /\ t[n] = q[n] /\ m - u \in DOMAIN p /\ t[m] = p[m - u] BY <1>8, <2>3 DEF Joins
    <2>4. CASE n - u \in DOMAIN p /\ t[n] = p[n - u] /\ n > u /\ m \in DOMAIN q
      BY <1>3, <1>6, <2>4
    <2>5. CASE n - u \in DOMAIN p /\ t[n] = p[n - u] /\ m - u \in DOMAIN p /\ t[m] = p[m - u]
      <3>1. m - u < n - u BY <1>8, <2>5 DEF Queued
      <3> QED BY <1>6, <3>1
    <2> QED BY <1>4, <2>2, <2>3, <2>4, <2>5
  <1>9. ASSUME NEW i PROVE HasDrop(t, i) <=> HasDrop(q, i) \/ HasDrop(p, i)
    <2>1. ASSUME HasDrop(t, i) PROVE HasDrop(q, i) \/ HasDrop(p, i) BY <1>4, <2>1 DEF HasDrop
    <2>2. ASSUME HasDrop(q, i) PROVE HasDrop(t, i)
      <3>1. \A n \in DOMAIN q : n \in DOMAIN t /\ t[n] = q[n] BY <1>3
      <3> QED BY <2>2, <3>1 DEF HasDrop
    <2>3. ASSUME HasDrop(p, i) PROVE HasDrop(t, i)
      <3>1. \A n \in DOMAIN p : n + u \in DOMAIN t /\ t[n + u] = p[n] BY <1>3
      <3> QED BY <2>3, <3>1 DEF HasDrop
    <2> QED BY <2>1, <2>2, <2>3
  <1> QED BY <1>3, <1>5, <1>7, <1>8, <1>9 DEF Queued

LEMMA QueueOne ==
  ASSUME NEW x \in QuerySet, NEW p, p = <<x>>, NEW ph, NEW un, NEW ea, NEW d,
         IsSetup(x) => Unready(ph, un, x.i), x.op = "end" => d
  PROVE  /\ p \in Seq(QuerySet) /\ Queued(p, ph, un, ea, d) /\ DOMAIN p = {1} /\ p[1] = x
         /\ \A i : HasDrop(p, i) <=> x.op = "drop" /\ i \in x.is
  <1>1. DOMAIN p = {1} /\ p[1] = x /\ p \in Seq(QuerySet) OBVIOUS
  <1>2. \A n \in DOMAIN p : n = 1 /\ p[n] = x BY <1>1
  <1>3. x.op = "end" => x.op # "drop" OBVIOUS
  <1>4. Queued(p, ph, un, ea, d) BY <1>2, <1>3 DEF Queued
  <1>5. \A i : HasDrop(p, i) <=> x.op = "drop" /\ i \in x.is BY <1>1, <1>2 DEF HasDrop
  <1> QED BY <1>1, <1>4, <1>5

LEMMA QueueAppend ==
  ASSUME NEW q \in Seq(QuerySet), NEW x \in QuerySet, NEW t, t = Append(q, x), NEW ph, NEW un, NEW ea, NEW d,
         Queued(q, ph, un, ea, d), IsSetup(x) => Unready(ph, un, x.i), x.op = "end" => d,
         IsSetup(x) => \A n \in DOMAIN q : IsSetup(q[n]) => q[n].i # x.i,
         x.op = "drop" => ~d \/ x.is \subseteq ea
  PROVE  /\ t \in Seq(QuerySet) /\ Queued(t, ph, un, ea, d)
         /\ \A i : HasDrop(q, i) => HasDrop(t, i)
         /\ \A i : x.op = "drop" /\ i \in x.is => HasDrop(t, i)
  <1>1. PICK p : p = <<x>> OBVIOUS
  <1>2. t = q \o p BY <1>1, AppendIsConcat
  <1>3. /\ p \in Seq(QuerySet) /\ Queued(p, ph, un, ea, d) /\ DOMAIN p = {1} /\ p[1] = x
        /\ \A i : HasDrop(p, i) <=> x.op = "drop" /\ i \in x.is
    BY <1>1, QueueOne
  <1>4. \A n \in DOMAIN q, m \in DOMAIN p : IsSetup(q[n]) /\ IsSetup(p[m]) => q[n].i # p[m].i BY <1>3
  <1>5. Joins(q, p, ea) BY <1>3, <1>4 DEF Queued, Joins
  <1>6. /\ t \in Seq(QuerySet) /\ Queued(t, ph, un, ea, d)
        /\ \A i : HasDrop(t, i) <=> HasDrop(q, i) \/ HasDrop(p, i)
    BY <1>2, <1>3, <1>5, QueueConcat
  <1> QED BY <1>3, <1>6

\* The queue when instances open, close or are closed early.
LEMMA QueueSame ==
  ASSUME NEW q \in Seq(QuerySet), NEW ph, NEW un, NEW ea, NEW d, NEW ph2, NEW un2, NEW ea2, NEW d2,
         Queued(q, ph, un, ea, d), d => d2 /\ ea \subseteq ea2,
         \A n \in DOMAIN q : IsSetup(q[n]) /\ Unready(ph, un, q[n].i) => Unready(ph2, un2, q[n].i)
  PROVE  Queued(q, ph2, un2, ea2, d2)
  <1>1. \A n \in DOMAIN q : IsSetup(q[n]) => Unready(ph2, un2, q[n].i) BY DEF Queued
  <1>2. \A n, m \in DOMAIN q : IsSetup(q[n]) /\ IsSetup(q[m]) /\ q[n].i = q[m].i => n = m BY DEF Queued
  <1>3. ASSUME NEW n \in DOMAIN q, NEW m \in DOMAIN q, q[n].op = "end"
        PROVE  d2 /\ (q[m].op = "drop" /\ ~(q[m].is \subseteq ea2) => m < n)
    <2>1. d /\ (q[m].op = "drop" /\ ~(q[m].is \subseteq ea) => m < n) BY <1>3 DEF Queued
    <2> QED BY <2>1
  <1> QED BY <1>1, <1>2, <1>3 DEF Queued

LEMMA QueueEmpty ==
  ASSUME NEW ph, NEW un, NEW ea, NEW d
  PROVE  <<>> \in Seq(QuerySet) /\ Queued(<<>>, ph, un, ea, d) /\ \A i : ~HasDrop(<<>>, i)
  BY DEF Queued, HasDrop

LEMMA SetupQuery ==
  ASSUME NEW op \in {"select", "function", "trigger"}, NEW i \in Instances, NEW x, x = [op |-> op, i |-> i]
  PROVE  x \in QuerySet /\ x.op = op /\ x.i = i /\ IsSetup(x)
  BY DEF QuerySet, IsSetup

LEMMA DropQuery ==
  ASSUME NEW is \in SUBSET Instances, NEW x, x = [op |-> "drop", is |-> is]
  PROVE  x \in QuerySet /\ x.op = "drop" /\ x.is = is /\ ~IsSetup(x)
  BY DEF QuerySet, IsSetup

LEMMA HeadSetup ==
  ASSUME NEW x \in QuerySet, x.op \in {"select", "function", "trigger"}
  PROVE  x.i \in Instances
  BY DEF QuerySet

LEMMA InitRelease == Init => ReleaseInv
  <1> SUFFICES ASSUME Init PROVE ReleaseInv
    OBVIOUS
  <1>1. PICK x : x = [op |-> "listen"] OBVIOUS
  <1>2. x \in QuerySet /\ x.op = "listen" /\ ~IsSetup(x) BY <1>1 DEF QuerySet, IsSetup
  <1>3. queries = IF kind = "postgres" THEN <<x>> ELSE <<>> BY <1>1 DEF Init
  <1>4. queries \in Seq(QuerySet) /\ Queued(queries, phase, early \ opened, early, down)
    <2>1. CASE kind = "postgres"
      <3>1. queries = <<x>> BY <1>3, <2>1
      <3>2. PICK p : p = queries OBVIOUS
      <3>3. PICK ph : ph = phase OBVIOUS
      <3>4. PICK ea : ea = early OBVIOUS
      <3>5. PICK d : d = down OBVIOUS
      <3>6. PICK un : un = early \ opened OBVIOUS
      <3>7. p \in Seq(QuerySet) /\ Queued(p, ph, un, ea, d) BY <1>2, <3>1, <3>2, QueueOne
      <3> QED BY <3>2, <3>3, <3>4, <3>5, <3>6, <3>7
    <2>2. CASE kind # "postgres" BY <1>3, <2>2, QueueEmpty
    <2> QED BY <2>1, <2>2
  <1>5. notices \in Seq(Keys) BY DEF Init
  <1>6. ExternalTypes BY <1>4, <1>5 DEF Init, ExternalTypes
  <1>7. Apart BY <1>3 DEF Init, Apart
  <1>8. Owned /\ DroppedLater BY DEF Init, Owned, DroppedLater
  <1> QED BY <1>4, <1>6, <1>7, <1>8 DEF ReleaseInv

\* What a step that leaves the instances, their resources and the queue alone keeps.
LEMMA RestRelease ==
  ASSUME ReleaseInv, notices' \in Seq(Keys),
         UNCHANGED <<kind, phase, early, down, timers, posts, streams, opened, triggers, listeners, queries>>
  PROVE  ReleaseInv'
  <1>1. ExternalTypes' BY DEF ReleaseInv, ExternalTypes
  <1>2. Apart' BY DEF ReleaseInv, Apart
  <1>3. Queued(queries, phase, early \ opened, early, down)' BY DEF ReleaseInv, Queued, Unready
  <1>4. Owned' BY DEF ReleaseInv, Owned, Unready
  <1>5. DroppedLater' BY DEF ReleaseInv, DroppedLater, HasDrop
  <1> QED BY <1>1, <1>2, <1>3, <1>4, <1>5 DEF ReleaseInv

\* An instance that was not subscribed has nothing queued, and the queue takes its
\* first query.
LEMMA SubscribeRelease ==
  ASSUME ReleaseInv, NEW i \in Instances, Subscribe(i)
  PROVE  ReleaseInv'
  <1>1. /\ ~down /\ phase[i] = "new" /\ kind \in Kinds
        /\ phase \in [Instances -> {"new", "opening", "open", "closed"}] /\ queries \in Seq(QuerySet)
        /\ Queued(queries, phase, early \ opened, early, down)
        /\ UNCHANGED <<kind, early, opened, down>>
    <2>1. UNCHANGED <<kind, early, down>> BY DEF Subscribe
    <2>2. UNCHANGED opened
      BY DEF Subscribe, SubscribePolled, SubscribeTimer, SubscribeRemote, SubscribePostgres, pgVars
    <2> QED BY <2>1, <2>2 DEF Subscribe, ReleaseInv, ExternalTypes
  <1>2. PICK q : q = queries OBVIOUS
  <1>3. PICK ph : ph = phase' OBVIOUS
  <1>4. PICK ea : ea = early OBVIOUS
  <1>5. PICK d, un : d = down /\ un = early \ opened OBVIOUS
  <1>6. PICK st \in {"opening", "open"} : phase' = [phase EXCEPT ![i] = st]
    BY DEF Subscribe, SubscribePolled, SubscribeTimer, SubscribeRemote, SubscribePostgres
  <1>7. /\ phase' \in [Instances -> {"new", "opening", "open", "closed"}] /\ phase'[i] = st
        /\ \A j \in Instances : j # i => phase'[j] = phase[j]
    BY <1>1, <1>6
  <1>8. ~Unready(phase, early \ opened, i) BY <1>1 DEF Unready
  <1>9. \A n \in DOMAIN q : IsSetup(q[n]) => q[n].i # i /\ q[n].i \in Instances
    <2>1. \A n \in DOMAIN q : q[n] \in QuerySet BY <1>1, <1>2
    <2>2. \A n \in DOMAIN q : IsSetup(q[n]) => q[n].i \in Instances BY <2>1, HeadSetup DEF IsSetup
    <2> QED BY <1>1, <1>2, <1>8, <2>2 DEF Queued
  <1>10. Queued(q, ph, un, ea, d)
    <2>1. \A n \in DOMAIN q : IsSetup(q[n]) /\ Unready(phase, un, q[n].i) => Unready(ph, un, q[n].i)
      BY <1>3, <1>7, <1>9 DEF Unready
    <2>2. Queued(q, phase, un, ea, d) BY <1>1, <1>2, <1>4, <1>5
    <2>3. d => d /\ ea \subseteq ea OBVIOUS
    <2> QED BY <1>1, <1>2, <2>1, <2>2, <2>3, QueueSame
  <1>11. ASSUME UNCHANGED <<triggers, listeners, notices, streams>>, queries' \in Seq(QuerySet),
                Queued(queries', ph, un, ea, d), \A j : HasDrop(q, j) => HasDrop(queries', j),
                \/ kind \in {"polled", "timer"} /\ st = "open" /\ timers' = timers \cup {i} /\ UNCHANGED <<posts, queries>>
                \/ kind = "remote" /\ st = "opening" /\ posts' = posts \cup {i} /\ UNCHANGED <<timers, queries>>
                \/ kind = "postgres" /\ UNCHANGED <<timers, posts>>
         PROVE  ReleaseInv'
    <2>1. ExternalTypes' BY <1>1, <1>7, <1>11 DEF ReleaseInv, ExternalTypes
    <2>2. Apart' BY <1>1, <1>11 DEF ReleaseInv, Apart
    <2>3. Queued(queries, phase, early \ opened, early, down)' BY <1>1, <1>3, <1>4, <1>5, <1>11
    <2>4. Owned'
      <3>1. \A j \in timers' : phase'[j] = "open" BY <1>1, <1>7, <1>11 DEF ReleaseInv, Owned, ExternalTypes
      <3>2. \A j \in posts' : Unready(phase', early', j)
        BY <1>1, <1>7, <1>11 DEF ReleaseInv, Owned, ExternalTypes, Unready
      <3>3. \A j \in streams' : j # i /\ (phase'[j] = "open" \/ (phase'[j] = "closed" /\ j \in early'))
        BY <1>1, <1>7, <1>11 DEF ReleaseInv, Owned, ExternalTypes
      <3>4. \A j \in posts' : j \notin streams'
        <4>1. \A j \in posts : j \notin streams BY DEF ReleaseInv, Owned
        <4>2. posts' \subseteq posts \cup {i} /\ streams' = streams BY <1>11
        <4> QED BY <3>3, <4>1, <4>2
      <3>5. \A j \in opened' : phase'[j] \in {"open", "closed"} /\ (down' => j \in early')
        BY <1>1, <1>7 DEF ReleaseInv, Owned, ExternalTypes
      <3>6. ~down' => triggers' \subseteq opened' BY <1>1, <1>11 DEF ReleaseInv, Owned
      <3> QED BY <1>1, <3>1, <3>2, <3>3, <3>4, <3>5, <3>6 DEF Owned
    <2>5. DroppedLater'
      <3> SUFFICES ASSUME NEW j \in triggers' \ early', phase'[j] = "closed" PROVE HasDrop(queries', j)
        BY <1>1 DEF DroppedLater
      <3>1. j \in triggers \ early /\ j \in Instances /\ phase[j] = "closed"
        BY <1>1, <1>7, <1>11 DEF ReleaseInv, ExternalTypes
      <3>2. HasDrop(queries, j) BY <3>1 DEF ReleaseInv, DroppedLater
      <3> QED BY <1>2, <1>11, <3>2
    <2> QED BY <2>1, <2>2, <2>3, <2>4, <2>5 DEF ReleaseInv
  <1>12. CASE SubscribePolled(i) \/ SubscribeTimer(i)
    <2>1. /\ UNCHANGED <<triggers, listeners, notices, streams, posts, queries>>
          /\ kind \in {"polled", "timer"} /\ timers' = timers \cup {i} /\ phase' = [phase EXCEPT ![i] = "open"]
      BY <1>12 DEF SubscribePolled, SubscribeTimer, remoteVars, pgVars
    <2>2. st = "open" BY <1>1, <1>7, <2>1
    <2>3. queries' = q BY <1>2, <2>1
    <2> QED BY <1>1, <1>2, <1>10, <1>11, <2>1, <2>2, <2>3
  <1>13. CASE SubscribeRemote(i)
    <2>1. /\ UNCHANGED <<triggers, listeners, notices, streams, timers, queries>>
          /\ kind = "remote" /\ posts' = posts \cup {i} /\ phase' = [phase EXCEPT ![i] = "opening"]
      BY <1>13 DEF SubscribeRemote, pollVars, pgVars
    <2>2. st = "opening" BY <1>1, <1>7, <2>1
    <2>3. queries' = q BY <1>2, <2>1
    <2> QED BY <1>1, <1>2, <1>10, <1>11, <2>1, <2>2, <2>3
  <1>14. CASE SubscribePostgres(i)
    <2>1. PICK x : x = [op |-> "select", i |-> i] OBVIOUS
    <2>2. PICK t : t = Append(q, x) OBVIOUS
    <2>3. /\ UNCHANGED <<triggers, listeners, notices, streams, timers, posts>> /\ queries' = t
          /\ kind = "postgres" /\ phase' = [phase EXCEPT ![i] = "opening"]
      BY <1>2, <1>14, <2>1, <2>2 DEF SubscribePostgres, pollVars, remoteVars
    <2>4. x \in QuerySet /\ x.op = "select" /\ x.i = i /\ IsSetup(x) BY <2>1, SetupQuery
    <2>5. Unready(ph, un, x.i) BY <1>1, <1>3, <2>3, <2>4 DEF Unready
    <2>6. t \in Seq(QuerySet) /\ Queued(t, ph, un, ea, d) /\ \A j : HasDrop(q, j) => HasDrop(t, j)
      BY <1>1, <1>2, <1>9, <1>10, <2>2, <2>4, <2>5, QueueAppend
    <2> QED BY <1>11, <2>3, <2>6
  <1> QED BY <1>12, <1>13, <1>14 DEF Subscribe

\* An instance that was open has its resource released or a drop queued for it; one
\* that was opening is closed early.
LEMMA UnsubscribeRelease ==
  ASSUME ReleaseInv, NEW i \in Instances, Unsubscribe(i)
  PROVE  ReleaseInv'
  <1>1. /\ phase[i] \in {"opening", "open"} /\ kind \in Kinds /\ down \in BOOLEAN
        /\ phase \in [Instances -> {"new", "opening", "open", "closed"}] /\ queries \in Seq(QuerySet)
        /\ Queued(queries, phase, early \ opened, early, down)
        /\ UNCHANGED <<kind, opened, down>> /\ phase' = [phase EXCEPT ![i] = "closed"]
        /\ early' = IF phase[i] = "opening" THEN early \cup {i} ELSE early
    <2>1. UNCHANGED opened BY DEF Unsubscribe, ClosePolled, CloseTimer, CloseRemote, ClosePostgres
    <2> QED BY <2>1 DEF Unsubscribe, ReleaseInv, ExternalTypes
  <1>2. PICK q : q = queries OBVIOUS
  <1>3. PICK ph : ph = phase' OBVIOUS
  <1>4. PICK ea : ea = early' OBVIOUS
  <1>5. PICK d, un : d = down /\ un = early' \ opened OBVIOUS
  <1>7. /\ phase' \in [Instances -> {"new", "opening", "open", "closed"}] /\ phase'[i] = "closed"
        /\ \A j \in Instances : j # i => phase'[j] = phase[j]
        /\ early \subseteq early' /\ early' \subseteq early \cup {i}
        /\ phase[i] = "open" \/ i \in early'
    BY <1>1
  <1>8. \A j \in Instances : Unready(phase, early, j) => Unready(phase', early', j)
    BY <1>1, <1>7 DEF Unready
  <1>9. \A j \in Instances : Unready(phase, early \ opened, j) => Unready(phase', un, j)
    <2>1. phase[i] = "opening" => i \notin opened BY DEF ReleaseInv, Owned
    <2> QED BY <1>1, <1>5, <1>7, <2>1 DEF Unready
  <1>10. Queued(q, ph, un, ea, d)
    <2>1. \A n \in DOMAIN q : q[n] \in QuerySet BY <1>1, <1>2
    <2>2. \A n \in DOMAIN q : IsSetup(q[n]) => q[n].i \in Instances BY <2>1, HeadSetup DEF IsSetup
    <2>3. \A n \in DOMAIN q : IsSetup(q[n]) /\ Unready(phase, early \ opened, q[n].i) => Unready(ph, un, q[n].i)
      BY <1>3, <1>9, <2>2
    <2>4. PICK u0, e0 : u0 = early \ opened /\ e0 = early OBVIOUS
    <2>5. Queued(q, phase, u0, e0, d) /\ (d => d /\ e0 \subseteq ea) BY <1>1, <1>2, <1>4, <1>5, <1>7, <2>4
    <2>6. \A n \in DOMAIN q : IsSetup(q[n]) /\ Unready(phase, u0, q[n].i) => Unready(ph, un, q[n].i)
      BY <2>3, <2>4
    <2>7. q \in Seq(QuerySet) BY <1>1, <1>2
    <2> QED BY <2>5, <2>6, <2>7, QueueSame
  <1>11. ASSUME UNCHANGED <<posts, triggers, listeners, notices>>, queries' \in Seq(QuerySet),
                Queued(queries', ph, un, ea, d), \A j : HasDrop(q, j) => HasDrop(queries', j),
                \/ kind \in {"polled", "timer"} /\ timers' = timers \ {i} /\ UNCHANGED <<streams, queries>>
                \/ kind = "remote" /\ streams' = streams \ {i} /\ UNCHANGED <<timers, queries>>
                \/ /\ kind = "postgres" /\ UNCHANGED <<timers, streams>>
                   /\ i \in opened => HasDrop(queries', i)
         PROVE  ReleaseInv'
    <2>1. ExternalTypes' BY <1>1, <1>7, <1>11 DEF ReleaseInv, ExternalTypes
    <2>2. Apart' BY <1>1, <1>11 DEF ReleaseInv, Apart
    <2>3. Queued(queries, phase, early \ opened, early, down)' BY <1>1, <1>3, <1>4, <1>5, <1>11
    <2>4. Owned'
      <3>0. timers \subseteq Instances /\ posts \subseteq Instances /\ streams \subseteq Instances
        BY DEF ReleaseInv, ExternalTypes
      <3>1. i \notin timers' /\ timers' \subseteq timers
        BY <1>1, <1>11 DEF ReleaseInv, Apart
      <3>2. \A j \in timers' : phase'[j] = "open" BY <1>7, <3>0, <3>1 DEF ReleaseInv, Owned
      <3>3. \A j \in posts' : Unready(phase', early', j) /\ j \notin streams
        BY <1>8, <1>11, <3>0 DEF ReleaseInv, Owned
      <3>4. i \notin streams' /\ streams' \subseteq streams
        BY <1>1, <1>11 DEF ReleaseInv, Apart
      <3>5. \A j \in streams' : phase'[j] = "open" \/ (phase'[j] = "closed" /\ j \in early')
        BY <1>7, <3>0, <3>4 DEF ReleaseInv, Owned
      <3>6. \A j \in Instances : down' /\ phase'[j] = "opening" => j \in early'
        BY <1>1, <1>7 DEF ReleaseInv, Owned
      <3>7. \A j \in opened' : phase'[j] \in {"open", "closed"} /\ (down' => j \in early')
        BY <1>1, <1>7 DEF ReleaseInv, Owned, ExternalTypes
      <3>8. ~down' => triggers' \subseteq opened' BY <1>1, <1>11 DEF ReleaseInv, Owned
      <3> QED BY <3>2, <3>3, <3>4, <3>5, <3>6, <3>7, <3>8 DEF Owned
    <2>5. DroppedLater'
      <3> SUFFICES ASSUME NEW j \in triggers' \ early', phase'[j] = "closed" \/ (down' /\ phase'[j] = "open")
                   PROVE  HasDrop(queries', j)
        BY DEF DroppedLater
      <3>0. j \in triggers \ early /\ j \in Instances /\ kind = "postgres"
        BY <1>7, <1>11 DEF ReleaseInv, ExternalTypes, Apart
      <3>1. CASE j # i
        <4>1. phase[j] = "closed" \/ (down /\ phase[j] = "open") BY <1>1, <1>7, <3>0, <3>1
        <4>2. HasDrop(queries, j) BY <3>0, <4>1 DEF ReleaseInv, DroppedLater
        <4> QED BY <1>2, <1>11, <4>2
      <3>2. CASE j = i
        <4>1. phase[i] = "open" BY <1>7, <3>2
        <4>2. CASE down
          <5>1. HasDrop(queries, j) BY <3>0, <3>2, <4>1, <4>2 DEF ReleaseInv, DroppedLater
          <5> QED BY <1>2, <1>11, <5>1
        <4>3. CASE ~down
          <5>1. i \in opened BY <3>0, <3>2, <4>3 DEF ReleaseInv, Owned
          <5> QED BY <1>11, <3>0, <3>2, <5>1
        <4> QED BY <4>2, <4>3
      <3> QED BY <3>1, <3>2
    <2> QED BY <2>1, <2>2, <2>3, <2>4, <2>5 DEF ReleaseInv
  <1>12. CASE ClosePolled(i) \/ CloseTimer(i)
    <2>1. /\ UNCHANGED <<triggers, listeners, notices, streams, posts, queries>>
          /\ kind \in {"polled", "timer"} /\ timers' = timers \ {i}
      BY <1>12 DEF ClosePolled, CloseTimer, remoteVars, pgVars
    <2>2. queries' = q BY <1>2, <2>1
    <2> QED BY <1>1, <1>2, <1>10, <1>11, <2>1, <2>2
  <1>13. CASE CloseRemote(i)
    <2>1. /\ UNCHANGED <<triggers, listeners, notices, posts, timers, queries>>
          /\ kind = "remote" /\ streams' = streams \ {i}
      BY <1>13 DEF CloseRemote, pgVars
    <2>2. queries' = q BY <1>2, <2>1
    <2> QED BY <1>1, <1>2, <1>10, <1>11, <2>1, <2>2
  <1>14. CASE ClosePostgres(i)
    <2>1. PICK x : x = [op |-> "drop", is |-> {i}] OBVIOUS
    <2>2. PICK t : t = Append(q, x) OBVIOUS
    <2>3. /\ UNCHANGED <<triggers, listeners, notices, streams, timers, posts>>
          /\ kind = "postgres" /\ queries' = IF i \in opened THEN t ELSE q
      BY <1>2, <1>14, <2>1, <2>2 DEF ClosePostgres, remoteVars
    <2>4. CASE i \in opened
      <3>1. x \in QuerySet /\ x.op = "drop" /\ x.is = {i} /\ ~IsSetup(x) BY <2>1, DropQuery
      <3>2. ~d \/ x.is \subseteq ea BY <1>4, <1>5, <1>7, <2>4, <3>1 DEF ReleaseInv, Owned
      <3>3. q \in Seq(QuerySet) BY <1>1, <1>2
      <3>4. /\ t \in Seq(QuerySet) /\ Queued(t, ph, un, ea, d) /\ \A j : HasDrop(q, j) => HasDrop(t, j)
            /\ \A j : x.op = "drop" /\ j \in x.is => HasDrop(t, j)
        BY <1>10, <2>2, <3>1, <3>2, <3>3, QueueAppend
      <3>5. HasDrop(t, i) BY <3>1, <3>4
      <3> QED BY <1>11, <2>3, <2>4, <3>4, <3>5
    <2>5. CASE i \notin opened
      <3>1. queries' = q BY <2>3, <2>5
      <3> QED BY <1>1, <1>2, <1>10, <1>11, <2>3, <2>5, <3>1
    <2> QED BY <2>4, <2>5
  <1> QED BY <1>12, <1>13, <1>14 DEF Unsubscribe

LEMMA AppendTwo ==
  ASSUME NEW S, NEW q \in Seq(S), NEW x \in S, NEW y \in S
  PROVE  q \o <<x, y>> = Append(Append(q, x), y)
  <1>1. PICK u \in Nat : u = Len(q) OBVIOUS
  <1>2. PICK a : a = q \o <<x, y>> OBVIOUS
  <1>3. PICK b : b = Append(Append(q, x), y) OBVIOUS
  <1>4. a \in Seq(S) /\ Len(a) = u + 2 /\ \A n \in 1..(u + 2) : a[n] = IF n <= u THEN q[n] ELSE <<x, y>>[n - u]
    BY <1>1, <1>2
  <1>5. b \in Seq(S) /\ Len(b) = u + 2 /\ \A n \in 1..(u + 2) : b[n] = IF n <= u THEN q[n] ELSE IF n = u + 1 THEN x ELSE y
    BY <1>1, <1>3
  <1>6. \A n \in 1..(u + 2) : ~(n <= u) => (n = u + 1 /\ n - u = 1) \/ (n # u + 1 /\ n - u = 2) OBVIOUS
  <1>7. \A n \in 1..(u + 2) : a[n] = b[n] BY <1>4, <1>5, <1>6
  <1> QED BY <1>2, <1>3, <1>4, <1>5, <1>7

\* The drops a shutdown queues are for every instance that has a trigger or may have
\* one, except those that are opening, and no query comes after them but the end.
LEMMA ShutdownRelease ==
  ASSUME ReleaseInv, Shutdown
  PROVE  ReleaseInv'
  <1>1. /\ kind \in Kinds /\ ~down /\ down' = TRUE
        /\ phase \in [Instances -> {"new", "opening", "open", "closed"}] /\ queries \in Seq(QuerySet)
        /\ notices \in Seq(Keys) /\ Queued(queries, phase, early \ opened, early, down)
        /\ UNCHANGED <<kind, phase, timers, posts, triggers, listeners>>
        /\ early' = (early \ (streams \cup opened)) \cup {i \in Instances : phase[i] = "opening"}
        /\ opened' = {}
    <2>1. opened' = {}
      BY DEF Shutdown, ShutdownGeneric, ShutdownRemote, ShutdownPostgres, ReleaseInv, Apart
    <2> QED BY <2>1 DEF Shutdown, ReleaseInv, ExternalTypes, pollVars
  <1>2. PICK q : q = queries OBVIOUS
  <1>3. PICK ph : ph = phase OBVIOUS
  <1>4. PICK ea : ea = early' OBVIOUS
  <1>5. PICK un : un = early' \ opened' OBVIOUS
  <1>6. \A n \in DOMAIN q : IsSetup(q[n]) /\ Unready(phase, early \ opened, q[n].i) => Unready(ph, un, q[n].i)
    <2> SUFFICES ASSUME NEW n \in DOMAIN q, IsSetup(q[n]), Unready(phase, early \ opened, q[n].i)
                 PROVE  Unready(ph, un, q[n].i)
      OBVIOUS
    <2>1. q # <<>> BY <1>1, <1>2
    <2>2. streams = {} BY <1>2, <2>1 DEF ReleaseInv, Apart
    <2> QED BY <1>1, <1>3, <1>5, <2>2 DEF Unready
  <1>7. Queued(q, ph, un, ea, FALSE) /\ Queued(q, ph, un, ea, TRUE)
    <2>1. PICK u0, e0 : u0 = early \ opened /\ e0 = early OBVIOUS
    <2>2. Queued(q, ph, u0, e0, FALSE) /\ q \in Seq(QuerySet) BY <1>1, <1>2, <1>3, <2>1 DEF Queued
    <2>3. \A n \in DOMAIN q : IsSetup(q[n]) /\ Unready(ph, u0, q[n].i) => Unready(ph, un, q[n].i)
      BY <1>3, <1>6, <2>1
    <2>4. ASSUME NEW d PROVE Queued(q, ph, un, ea, d) BY <2>2, <2>3, QueueSame
    <2> QED BY <2>4
  <1>8. ASSUME queries' \in Seq(QuerySet), notices' \in Seq(Keys), Queued(queries', ph, un, ea, TRUE),
               streams' \subseteq streams, queries' # <<>> => kind = "postgres",
               streams' = {} \/ kind # "remote", \A j \in triggers : HasDrop(queries', j)
        PROVE  ReleaseInv'
    <2>1. ExternalTypes' BY <1>1, <1>8 DEF ReleaseInv, ExternalTypes
    <2>2. Apart' BY <1>1, <1>8 DEF ReleaseInv, Apart
    <2>3. Queued(queries, phase, early \ opened, early, down)' BY <1>1, <1>3, <1>4, <1>5, <1>8
    <2>4. Owned'
      <3>0. timers \subseteq Instances /\ posts \subseteq Instances /\ streams \subseteq Instances
        BY DEF ReleaseInv, ExternalTypes
      <3>1. \A j \in timers' : phase'[j] = "open" BY <1>1 DEF ReleaseInv, Owned
      <3>2. ASSUME NEW j \in posts' PROVE Unready(phase', early', j) /\ j \notin streams'
        <4>1. j \in posts /\ j \notin streams /\ Unready(phase, early, j) /\ j \in Instances
          BY <1>1, <3>0, <3>2 DEF ReleaseInv, Owned
        <4>2. j \notin opened BY <4>1 DEF ReleaseInv, Apart
        <4> QED BY <1>1, <1>8, <4>1, <4>2 DEF Unready
      <3>3. streams' = {} BY <1>8 DEF ReleaseInv, Apart
      <3>4. \A j \in Instances : down' /\ phase'[j] = "opening" => j \in early' BY <1>1
      <3> QED BY <1>1, <3>1, <3>2, <3>3, <3>4 DEF Owned
    <2>5. DroppedLater' BY <1>1, <1>8 DEF DroppedLater
    <2> QED BY <2>1, <2>2, <2>3, <2>4, <2>5 DEF ReleaseInv
  <1>9. CASE ShutdownGeneric \/ ShutdownRemote
    <2>1. /\ kind # "postgres" /\ queries' = queries /\ notices' = notices /\ streams' \subseteq streams
          /\ streams' = {} \/ kind # "remote"
      BY <1>9 DEF ShutdownGeneric, ShutdownRemote
    <2>2. queries = <<>> /\ triggers = {} BY <2>1 DEF ReleaseInv, Apart
    <2>3. queries' = q BY <1>2, <2>1
    <2> QED BY <1>1, <1>2, <1>7, <1>8, <2>1, <2>2, <2>3
  <1>10. CASE ShutdownPostgres
    <2>1. kind = "postgres" /\ streams' = streams BY <1>10 DEF ShutdownPostgres
    <2>2. PICK is : is = opened OBVIOUS
    <2>3. is \in SUBSET Instances /\ triggers \subseteq is
      BY <1>1, <2>2 DEF ReleaseInv, ExternalTypes, Owned
    <2>4. CASE is = {}
      <3>1. queries' = <<>> /\ notices' = <<>> BY <1>10, <2>2, <2>4 DEF ShutdownPostgres, Disconnects
      <3>2. queries' \in Seq(QuerySet) /\ notices' \in Seq(Keys) BY <3>1
      <3>3. Queued(queries', ph, un, ea, TRUE) BY <3>1, QueueEmpty
      <3>4. triggers = {} BY <2>3, <2>4
      <3> QED BY <1>8, <2>1, <3>2, <3>3, <3>4
    <2>5. CASE is # {}
      <3>1. PICK x : x = [op |-> "drop", is |-> is] OBVIOUS
      <3>2. x \in QuerySet /\ x.op = "drop" /\ x.is = is /\ ~IsSetup(x) BY <2>3, <3>1, DropQuery
      <3>3. PICK y : y = [op |-> "end"] OBVIOUS
      <3>4. y \in QuerySet /\ y.op = "end" /\ ~IsSetup(y) BY <3>3 DEF QuerySet, IsSetup
      <3>5. PICK r : r = Append(q, x) OBVIOUS
      <3>6. PICK t : t = Append(r, y) OBVIOUS
      <3>7. /\ r \in Seq(QuerySet) /\ Queued(r, ph, un, ea, FALSE)
            /\ \A i : x.op = "drop" /\ i \in x.is => HasDrop(r, i)
        BY <1>1, <1>2, <1>7, <3>2, <3>5, QueueAppend
      <3>8. Queued(r, ph, un, ea, TRUE) BY <3>7, QueueSame
      <3>9. t \in Seq(QuerySet) /\ Queued(t, ph, un, ea, TRUE) /\ \A i : HasDrop(r, i) => HasDrop(t, i)
        BY <3>4, <3>6, <3>7, <3>8, QueueAppend
      <3>10. queries' = q \o <<x, y>> /\ notices' = notices
        BY <1>2, <1>10, <2>2, <2>5, <3>1, <3>3 DEF ShutdownPostgres
      <3>11. queries' = t BY <1>1, <1>2, <3>2, <3>4, <3>5, <3>6, <3>10, AppendTwo
      <3>12. \A j \in triggers : HasDrop(t, j)
        BY <2>3, <3>2, <3>7, <3>9
      <3> QED BY <1>1, <1>8, <2>1, <3>9, <3>10, <3>11, <3>12
    <2> QED BY <2>4, <2>5
  <1> QED BY <1>9, <1>10 DEF Shutdown

\* A stream is opened for an instance that becomes open, or was closed early.
LEMMA PostAnswersRelease ==
  ASSUME ReleaseInv, NEW i \in Instances, PostAnswers(i)
  PROVE  ReleaseInv'
  <1>1. /\ phase \in [Instances -> {"new", "opening", "open", "closed"}] /\ kind = "remote" /\ i \in posts
        /\ posts' = posts \ {i} /\ streams' = streams \cup {i}
        /\ phase' = [phase EXCEPT ![i] = IF @ = "opening" THEN "open" ELSE @]
        /\ UNCHANGED <<kind, early, down, timers, opened, triggers, listeners, queries, notices>>
    BY DEF PostAnswers, ReleaseInv, ExternalTypes, Apart, pollVars, pgVars
  <1>2. timers = {} /\ opened = {} /\ triggers = {} /\ queries = <<>> BY <1>1 DEF ReleaseInv, Apart
  <1>3. Unready(phase, early, i) BY <1>1 DEF ReleaseInv, Owned
  <1>4. /\ phase' \in [Instances -> {"new", "opening", "open", "closed"}] /\ (phase'[i] = "open" \/ (phase'[i] = "closed" /\ i \in early'))
        /\ \A j \in Instances : phase'[j] = "opening" => phase[j] = "opening"
        /\ \A j \in Instances : j # i => phase'[j] = phase[j]
        /\ \A j \in Instances : phase[j] = "open" => phase'[j] = "open"
    BY <1>1, <1>3 DEF Unready
  <1>5. ExternalTypes' BY <1>1, <1>4 DEF ReleaseInv, ExternalTypes
  <1>6. Apart' BY <1>1 DEF ReleaseInv, Apart
  <1>7. Queued(queries, phase, early \ opened, early, down)' BY <1>1, <1>2 DEF Queued
  <1>8. Owned'
    <2>0. posts \subseteq Instances /\ streams \subseteq Instances BY DEF ReleaseInv, ExternalTypes
    <2>1. \A j \in posts' : Unready(phase', early', j) /\ j \notin streams'
      BY <1>1, <1>4, <2>0 DEF ReleaseInv, Owned, Unready
    <2>2. \A j \in streams' : phase'[j] = "open" \/ (phase'[j] = "closed" /\ j \in early')
      BY <1>1, <1>4, <2>0 DEF ReleaseInv, Owned
    <2>3. \A j \in Instances : down' /\ phase'[j] = "opening" => j \in early' BY <1>1, <1>4 DEF ReleaseInv, Owned
    <2> QED BY <1>1, <1>2, <2>1, <2>2, <2>3 DEF Owned
  <1>9. DroppedLater' BY <1>1, <1>2 DEF DroppedLater
  <1> QED BY <1>5, <1>6, <1>7, <1>8, <1>9 DEF ReleaseInv

\* Fewer streams, or fewer resources being made, leave nothing more behind.
LEMMA FewerRelease ==
  ASSUME ReleaseInv, posts' \subseteq posts, streams' \subseteq streams,
         UNCHANGED <<kind, phase, early, down, timers, opened, triggers, listeners, queries, notices>>
  PROVE  ReleaseInv'
  <1>1. ExternalTypes' BY DEF ReleaseInv, ExternalTypes
  <1>2. Apart' BY DEF ReleaseInv, Apart
  <1>3. Queued(queries, phase, early \ opened, early, down)' BY DEF ReleaseInv, Queued, Unready
  <1>4. Owned' BY DEF ReleaseInv, Owned, Unready
  <1>5. DroppedLater' BY DEF ReleaseInv, DroppedLater, HasDrop
  <1> QED BY <1>1, <1>2, <1>3, <1>4, <1>5 DEF ReleaseInv

\* The triggers notify keys.
LEMMA WriteRelease ==
  ASSUME ReleaseInv, NEW v, NEW k \in Keys, Writes(v, k)
  PROVE  ReleaseInv'
  <1>1. UNCHANGED <<kind, phase, early, down, timers, posts, streams, opened, triggers, listeners, queries>>
    BY DEF Writes, pollVars
  <1>2. triggers \subseteq Instances /\ notices \in Seq(Keys) BY DEF ReleaseInv, ExternalTypes
  <1>3. IsFiniteSet(Notified(k)) BY <1>2, ExternalConstants, FS_Subset DEF Notified
  <1>4. PICK c \in Nat : c = Cardinality(Notified(k)) BY <1>3, FS_CardinalityType
  <1>5. PICK r : r = [n \in 1..c |-> k] OBVIOUS
  <1>6. r \in Seq(Keys) BY <1>5
  <1>7. notices' = notices \o r BY <1>4, <1>5 DEF Writes
  <1>8. notices' \in Seq(Keys) BY <1>2, <1>6, <1>7
  <1> QED BY <1>1, <1>8, RestRelease

\* What the queries under way for an instance do: a trigger is there when its instance
\* opens, and goes with the drop; at the end there is no drop left to be done.
LEMMA QueryDoneRelease ==
  ASSUME ReleaseInv, QueryDone
  PROVE  ReleaseInv'
  <1>1. /\ phase \in [Instances -> {"new", "opening", "open", "closed"}] /\ queries \in Seq(QuerySet)
        /\ queries # <<>> /\ notices \in Seq(Keys) /\ Queued(queries, phase, early \ opened, early, down) /\ kind = "postgres"
        /\ down \in BOOLEAN /\ opened \subseteq Instances /\ triggers \subseteq Instances
        /\ listeners \subseteq Instances
        /\ UNCHANGED <<kind, early, down, timers, posts, streams>>
    BY DEF QueryDone, ReleaseInv, ExternalTypes, Apart, pollVars, remoteVars
  <1>2. timers = {} /\ posts = {} /\ streams = {} BY <1>1 DEF ReleaseInv, Apart
  <1>3. PICK q : q = queries OBVIOUS
  <1>4. PICK t : t = Tail(q) OBVIOUS
  <1>5. PICK h : h = Head(q) OBVIOUS
  <1>6. PICK ea : ea = early OBVIOUS
  <1>7. PICK d : d = down OBVIOUS
  <1>8. PICK ph, un : ph = phase /\ un = early \ opened OBVIOUS
  <1>9. /\ t \in Seq(QuerySet) /\ Queued(t, ph, un, ea, d) /\ h \in QuerySet
        /\ \A i : HasDrop(q, i) => HasDrop(t, i) \/ (h.op = "drop" /\ i \in h.is)
        /\ h.op = "end" => d /\ \A i : HasDrop(q, i) => i \in ea
        /\ IsSetup(h) => Unready(ph, un, h.i) /\ \A n \in DOMAIN t : IsSetup(t[n]) => t[n].i # h.i
    BY <1>1, <1>3, <1>4, <1>5, <1>6, <1>7, <1>8, QueueTail
  <1>10. ASSUME phase' \in [Instances -> {"new", "opening", "open", "closed"}], queries' \in Seq(QuerySet),
                Queued(queries', phase', ea \ opened', ea, d), notices' \in Seq(Keys),
                opened' \subseteq Instances, triggers' \subseteq Instances, listeners' \subseteq Instances,
                \A j \in Instances : phase'[j] = "opening" => phase[j] = "opening",
                \A j \in opened' : phase'[j] \in {"open", "closed"} /\ (d => j \in ea),
                ~d => triggers' \subseteq opened',
                \A j \in triggers' \ ea : phase'[j] = "closed" \/ (d /\ phase'[j] = "open") => HasDrop(queries', j)
         PROVE  ReleaseInv'
    <2>1. ExternalTypes' BY <1>1, <1>10 DEF ReleaseInv, ExternalTypes
    <2>2. Apart' BY <1>1, <1>10 DEF ReleaseInv, Apart
    <2>3. Queued(queries, phase, early \ opened, early, down)' BY <1>1, <1>6, <1>7, <1>10
    <2>4. Owned'
      <3>1. timers' = {} /\ posts' = {} /\ streams' = {} BY <1>1, <1>2
      <3>2. \A j \in Instances : down' /\ phase'[j] = "opening" => j \in early' BY <1>1, <1>10 DEF ReleaseInv, Owned
      <3>3. \A j \in opened' : phase'[j] \in {"open", "closed"} /\ (down' => j \in early')
        BY <1>1, <1>6, <1>7, <1>10
      <3>4. ~down' => triggers' \subseteq opened' BY <1>1, <1>7, <1>10
      <3> QED BY <3>1, <3>2, <3>3, <3>4 DEF Owned
    <2>5. DroppedLater' BY <1>1, <1>6, <1>7, <1>10 DEF DroppedLater
    <2> QED BY <2>1, <2>2, <2>3, <2>4, <2>5 DEF ReleaseInv
  <1>11. \A j \in triggers \ ea : phase[j] = "closed" \/ (d /\ phase[j] = "open") => HasDrop(q, j)
    BY <1>3, <1>6, <1>7 DEF ReleaseInv, DroppedLater
  <1>12. /\ \A j \in opened : phase[j] \in {"open", "closed"} /\ (d => j \in ea)
         /\ ~d => triggers \subseteq opened
    BY <1>6, <1>7 DEF ReleaseInv, Owned
  <1>13. ASSUME queries' \in Seq(QuerySet), Queued(queries', ph, un, ea, d), notices' \in Seq(Keys),
                UNCHANGED <<phase, opened, triggers, listeners>>,
                \A j \in triggers \ ea : HasDrop(q, j) => HasDrop(queries', j)
         PROVE  ReleaseInv'
    <2>1. Queued(queries', phase', ea \ opened', ea, d) BY <1>6, <1>8, <1>13
    <2> QED BY <1>1, <1>10, <1>11, <1>12, <1>13, <2>1
  <1>14. CASE EndDone(h)
    <2>1. h.op = "end" /\ queries' = <<>> /\ notices' = <<>> /\ UNCHANGED <<phase, opened, triggers, listeners>>
      BY <1>14 DEF EndDone, Disconnects
    <2>2. \A i : HasDrop(q, i) => i \in ea BY <1>9, <2>1
    <2>3. Queued(queries', ph, un, ea, d) /\ queries' \in Seq(QuerySet) BY <2>1, QueueEmpty
    <2>4. notices' \in Seq(Keys) BY <2>1
    <2> QED BY <1>13, <2>1, <2>2, <2>3, <2>4
  <1>15. ASSUME NEW op \in {"function", "trigger"}, IsSetup(h), notices' = notices,
                UNCHANGED <<phase, opened, triggers, listeners>>,
                queries' = Append(Tail(queries), [op |-> op, i |-> h.i])
         PROVE  ReleaseInv'
    <2>1. PICK x : x = [op |-> op, i |-> h.i] OBVIOUS
    <2>2. PICK r : r = Append(t, x) OBVIOUS
    <2>3. queries' = r BY <1>3, <1>4, <1>15, <2>1, <2>2
    <2>4. h.i \in Instances BY <1>9, <1>15, HeadSetup DEF IsSetup
    <2>5. x \in QuerySet /\ x.op = op /\ x.i = h.i /\ IsSetup(x) BY <2>1, <2>4, SetupQuery
    <2>6. x.op # "end" /\ x.op # "drop" BY <2>5
    <2>7. r \in Seq(QuerySet) /\ Queued(r, ph, un, ea, d) /\ \A i : HasDrop(t, i) => HasDrop(r, i)
      BY <1>9, <1>15, <2>2, <2>5, <2>6, QueueAppend
    <2>8. h.op # "drop" BY <1>15 DEF IsSetup
    <2>9. \A i : HasDrop(q, i) => HasDrop(r, i) BY <1>9, <2>7, <2>8
    <2> QED BY <1>1, <1>15, <1>13, <2>3, <2>7, <2>9
  <1>16. CASE SelectDone(h) /\ notices' = notices
    <2>1. IsSetup(h) /\ UNCHANGED <<phase, opened, triggers, listeners>>
          /\ queries' = Append(Tail(queries), [op |-> "function", i |-> h.i])
      BY <1>16 DEF SelectDone, IsSetup
    <2> QED BY <1>15, <1>16, <2>1
  <1>17. CASE FunctionDone(h) /\ notices' = notices
    <2>1. IsSetup(h) /\ UNCHANGED <<phase, opened, triggers, listeners>>
          /\ queries' = Append(Tail(queries), [op |-> "trigger", i |-> h.i])
      BY <1>17 DEF FunctionDone, IsSetup
    <2> QED BY <1>15, <1>17, <2>1
  <1>18. CASE TriggerDone(h) /\ notices' = notices
    <2>1. /\ h.op = "trigger" /\ queries' = t /\ triggers' = triggers \cup {h.i} /\ listeners' = listeners \cup {h.i}
          /\ phase' = [phase EXCEPT ![h.i] = IF @ = "opening" THEN "open" ELSE @]
          /\ opened' = opened \cup {h.i}
      BY <1>3, <1>4, <1>18 DEF TriggerDone
    <2>2. IsSetup(h) /\ h.i \in Instances BY <1>9, <2>1, HeadSetup DEF IsSetup
    <2>3. Unready(phase, ea, h.i) BY <1>6, <1>8, <1>9, <2>2 DEF Unready
    <2>4. /\ phase' \in [Instances -> {"new", "opening", "open", "closed"}]
          /\ \A j \in Instances : phase'[j] = "opening" => phase[j] = "opening"
          /\ \A j \in Instances : j # h.i => phase'[j] = phase[j]
          /\ phase[h.i] = "opening" => phase'[h.i] = "open"
          /\ phase[h.i] # "opening" => phase'[h.i] = phase[h.i]
      BY <1>1, <2>1, <2>2
    <2>5. PICK ph2, un2 : ph2 = phase' /\ un2 = ea \ opened' OBVIOUS
    <2>6. Queued(t, ph2, un2, ea, d)
      <3>1. \A n \in DOMAIN t : t[n] \in QuerySet BY <1>9
      <3>2. \A n \in DOMAIN t : IsSetup(t[n]) => t[n].i \in Instances BY <3>1, HeadSetup DEF IsSetup
      <3>3. \A n \in DOMAIN t : IsSetup(t[n]) /\ Unready(ph, un, t[n].i) => Unready(ph2, un2, t[n].i)
        BY <1>6, <1>8, <1>9, <2>1, <2>2, <2>4, <2>5, <3>2 DEF Unready
      <3>4. d => d /\ ea \subseteq ea OBVIOUS
      <3> QED BY <1>9, <3>3, <3>4, QueueSame
    <2>7. ASSUME NEW j \in triggers' \ ea, phase'[j] = "closed" \/ (d /\ phase'[j] = "open")
          PROVE  HasDrop(t, j)
      <3>1. CASE j = h.i
        <4>1. phase[j] = "opening" /\ phase'[j] = "open" /\ down BY <1>7, <2>3, <2>4, <2>7, <3>1 DEF Unready
        <4>2. j \in early BY <2>2, <3>1, <4>1 DEF ReleaseInv, Owned
        <4> QED BY <1>6, <2>7, <4>2
      <3>2. CASE j # h.i
        <4>1. HasDrop(q, j) BY <1>1, <1>11, <2>1, <2>4, <2>7, <3>2
        <4> QED BY <1>9, <2>1, <4>1
      <3> QED BY <3>1, <3>2
    <2>8. ASSUME NEW j \in opened' PROVE phase'[j] \in {"open", "closed"} /\ (d => j \in ea)
      <3>1. CASE j = h.i
        <4>1. phase'[j] \in {"open", "closed"} BY <2>3, <2>4, <3>1 DEF Unready
        <4>2. d => j \in ea BY <1>6, <1>7, <2>2, <2>3, <3>1 DEF ReleaseInv, Owned, Unready
        <4> QED BY <4>1, <4>2
      <3>2. CASE j # h.i
        <4>1. j \in opened /\ j \in Instances BY <1>1, <2>1, <2>8, <3>2
        <4> QED BY <1>12, <2>4, <3>2, <4>1
      <3> QED BY <3>1, <3>2
    <2>9. (~d => triggers' \subseteq opened') /\ opened' \subseteq Instances
          /\ triggers' \subseteq Instances /\ listeners' \subseteq Instances
      BY <1>1, <1>12, <2>1, <2>2
    <2>10. queries' \in Seq(QuerySet) /\ Queued(queries', phase', ea \ opened', ea, d)
      BY <1>9, <2>1, <2>5, <2>6
    <2>11. \A j \in triggers' \ ea : phase'[j] = "closed" \/ (d /\ phase'[j] = "open") => HasDrop(queries', j)
      BY <2>1, <2>7
    <2>12. notices' \in Seq(Keys) BY <1>1, <1>18
    <2> QED BY <1>10, <2>4, <2>8, <2>9, <2>10, <2>11, <2>12
  <1>19. CASE (RowDone(h) \/ ListenDone(h)) /\ notices' = notices
    <2>1. h.op # "drop" /\ queries' = t /\ UNCHANGED <<phase, opened, triggers, listeners>>
      BY <1>3, <1>4, <1>19 DEF RowDone, ListenDone
    <2>2. \A i : HasDrop(q, i) => HasDrop(t, i) BY <1>9, <2>1
    <2> QED BY <1>1, <1>9, <1>19, <1>13, <2>1, <2>2
  <1>20. CASE DropDone(h) /\ notices' = notices
    <2>1. queries' = t /\ triggers' = triggers \ h.is /\ opened' = opened \ h.is /\ UNCHANGED <<phase, listeners>>
      BY <1>3, <1>4, <1>20 DEF DropDone
    <2>2. \A i \in triggers' : HasDrop(q, i) => HasDrop(t, i) BY <1>9, <2>1
    <2>3. Queued(queries', phase', ea \ opened', ea, d)
      <3>1. PICK un2 : un2 = ea \ opened' OBVIOUS
      <3>2. \A n \in DOMAIN t : IsSetup(t[n]) /\ Unready(ph, un, t[n].i) => Unready(ph, un2, t[n].i)
        BY <1>6, <1>8, <2>1, <3>1 DEF Unready
      <3>3. d => d /\ ea \subseteq ea OBVIOUS
      <3>4. Queued(t, ph, un2, ea, d) BY <1>9, <3>2, <3>3, QueueSame
      <3> QED BY <1>8, <2>1, <3>1, <3>4
    <2>4. /\ opened' \subseteq Instances /\ triggers' \subseteq Instances /\ listeners' \subseteq Instances
          /\ \A j \in opened' : phase'[j] \in {"open", "closed"} /\ (d => j \in ea)
          /\ ~d => triggers' \subseteq opened'
      BY <1>1, <1>12, <2>1
    <2>5. \A j \in triggers' \ ea : phase'[j] = "closed" \/ (d /\ phase'[j] = "open") => HasDrop(queries', j)
      BY <1>11, <2>1, <2>2
    <2> QED BY <1>1, <1>9, <1>10, <1>20, <2>1, <2>3, <2>4, <2>5
  <1>21. \/ EndDone(h)
         \/ /\ SelectDone(h) \/ FunctionDone(h) \/ TriggerDone(h) \/ RowDone(h) \/ DropDone(h) \/ ListenDone(h)
            /\ notices' = notices
    BY <1>3, <1>5 DEF QueryDone
  <1> QED BY <1>14, <1>18, <1>19, <1>20, <1>21, <1>16, <1>17

\* The rows the listeners read for a key, in some order.
LEMMA RowQueries ==
  ASSUME NEW L \in SUBSET Instances, NEW k \in Keys, NEW S, S = {[op |-> "row", i |-> i, k |-> k] : i \in L},
         NEW p, p = SetToSeq(S)
  PROVE  p \in Seq(QuerySet) /\ (L = {} => p = <<>>) /\ \A n \in DOMAIN p : p[n].op = "row"
  <1>1. S = {[op |-> "row", i |-> i, k |-> k] : i \in L} OBVIOUS
  <1>2. PICK f : f = [i \in L |-> [op |-> "row", i |-> i, k |-> k]] OBVIOUS
  <1>3. f \in Surjection(L, S) BY <1>1, <1>2 DEF Surjection
  <1>4. IsFiniteSet(L) BY ExternalConstants, FS_Subset
  <1>5. IsFiniteSet(S) BY <1>3, <1>4, FS_Surjection
  <1>6. PICK c \in Nat : c = Cardinality(S) /\ ExistsBijection(1..c, S) BY <1>5, FS_CardinalityType
  <1>7. \E g \in [1..c -> S] : IsInjective(g)
    BY <1>6 DEF ExistsBijection, Bijection, Injection
  <1>8. p = CHOOSE g \in [1..c -> S] : IsInjective(g) BY <1>1, <1>6 DEF SetToSeq
  <1>9. p \in [1..c -> S] BY <1>7, <1>8
  <1>10. \A x \in S : x \in QuerySet /\ x.op = "row" BY <1>1 DEF QuerySet
  <1>11. p \in [1..c -> QuerySet] /\ DOMAIN p = 1..c BY <1>9, <1>10
  <1>12. p \in Seq(QuerySet) BY <1>11
  <1>13. ASSUME L = {} PROVE p = <<>>
    <2>1. S = {} BY <1>1, <1>13
    <2>2. c = 0 BY <1>6, <2>1, FS_EmptySet
    <2> QED BY <1>11, <2>2
  <1> QED BY <1>9, <1>10, <1>11, <1>12, <1>13

LEMMA HearsNoticeRelease ==
  ASSUME ReleaseInv, HearsNotice
  PROVE  ReleaseInv'
  <1>1. /\ queries \in Seq(QuerySet) /\ notices \in Seq(Keys) /\ notices # <<>>
        /\ Queued(queries, phase, early \ opened, early, down) /\ listeners \subseteq Instances
        /\ notices' = Tail(notices)
        /\ UNCHANGED <<kind, phase, early, down, timers, posts, streams, opened, triggers, listeners>>
    BY DEF HearsNotice, ReleaseInv, ExternalTypes, pollVars, remoteVars
  <1>2. PICK k : k = Head(notices) OBVIOUS
  <1>3. k \in Keys /\ notices' \in Seq(Keys) BY <1>1, <1>2
  <1>4. PICK L : L = Hears(k) OBVIOUS
  <1>5. L \in SUBSET Instances BY <1>1, <1>4 DEF Hears
  <1>6. PICK S : S = {[op |-> "row", i |-> i, k |-> k] : i \in L} OBVIOUS
  <1>7. PICK p : p = SetToSeq(S) OBVIOUS
  <1>8. p \in Seq(QuerySet) /\ (L = {} => p = <<>>) /\ \A n \in DOMAIN p : p[n].op = "row"
    BY <1>3, <1>5, <1>6, <1>7, RowQueries, ZenonT(60)
  <1>9. PICK q : q = queries OBVIOUS
  <1>10. PICK t : t = q \o p OBVIOUS
  <1>11. PICK ph : ph = phase OBVIOUS
  <1>12. PICK ea : ea = early OBVIOUS
  <1>13. PICK d, un : d = down /\ un = early \ opened OBVIOUS
  <1>14. queries' = t BY <1>2, <1>4, <1>6, <1>7, <1>9, <1>10 DEF HearsNotice
  <1>15. \A n \in DOMAIN p : ~IsSetup(p[n]) /\ p[n].op # "end" /\ p[n].op # "drop" BY <1>8 DEF IsSetup
  <1>16. Queued(p, ph, un, ea, d) /\ Queued(q, ph, un, ea, d)
    BY <1>1, <1>9, <1>11, <1>12, <1>13, <1>15 DEF Queued
  <1>17. /\ t \in Seq(QuerySet) /\ Queued(t, ph, un, ea, d)
         /\ \A i : HasDrop(t, i) <=> HasDrop(q, i) \/ HasDrop(p, i)
    <2>1. q \in Seq(QuerySet) BY <1>1, <1>9
    <2>2. p \in Seq(QuerySet) BY <1>8
    <2>3. Queued(q, ph, un, ea, d) /\ Queued(p, ph, un, ea, d) BY <1>16
    <2>4. Joins(q, p, ea) BY <1>15 DEF Joins
    <2> QED BY <1>10, <2>1, <2>2, <2>3, <2>4, QueueConcat
  <1>18. ASSUME queries' # <<>> PROVE kind = "postgres"
    <2>1. CASE queries # <<>> BY <2>1 DEF ReleaseInv, Apart
    <2>2. CASE queries = <<>>
      <3>1. p # <<>> BY <1>1, <1>8, <1>9, <1>10, <1>14, <1>18, <2>2
      <3>2. listeners # {} BY <1>4, <1>8, <3>1 DEF Hears
      <3> QED BY <3>2 DEF ReleaseInv, Apart
    <2> QED BY <2>1, <2>2
  <1>19. ExternalTypes' BY <1>1, <1>3, <1>14, <1>17 DEF ReleaseInv, ExternalTypes
  <1>20. Apart' BY <1>1, <1>18 DEF ReleaseInv, Apart
  <1>21. Queued(queries, phase, early \ opened, early, down)' BY <1>1, <1>11, <1>12, <1>13, <1>14, <1>17
  <1>22. Owned' BY <1>1 DEF ReleaseInv, Owned, Unready
  <1>23. DroppedLater'
    <2> SUFFICES ASSUME NEW j \in triggers' \ early', phase'[j] = "closed" \/ (down' /\ phase'[j] = "open")
                 PROVE  HasDrop(queries', j)
      BY DEF DroppedLater
    <2>1. HasDrop(queries, j) BY <1>1 DEF ReleaseInv, DroppedLater
    <2> QED BY <1>9, <1>14, <1>17, <2>1
  <1> QED BY <1>19, <1>20, <1>21, <1>22, <1>23 DEF ReleaseInv


LEMMA StepRelease == ReleaseInv /\ [Next]_vars => ReleaseInv'
  <1> SUFFICES ASSUME ReleaseInv, [Next]_vars PROVE ReleaseInv'
    OBVIOUS
  <1>0. notices \in Seq(Keys) BY DEF ReleaseInv, ExternalTypes
  <1>1. ASSUME NEW i \in Instances, Tick(i) PROVE ReleaseInv'
    <2>1. /\ UNCHANGED <<kind, phase, early, down, timers, posts, streams, opened, triggers, listeners, queries>>
          /\ UNCHANGED notices
      BY <1>1 DEF Tick, remoteVars, pgVars
    <2> QED BY <1>0, <2>1, RestRelease
  <1>2. ASSUME NEW f \in fetches, Serves(f) \/ Answers(f) \/ FetchFails(f) PROVE ReleaseInv'
    <2>1. /\ UNCHANGED <<kind, phase, early, down, timers, posts, streams, opened, triggers, listeners, queries>>
          /\ UNCHANGED notices
      BY <1>2 DEF Serves, Answers, FetchFails, remoteVars, pgVars
    <2> QED BY <1>0, <2>1, RestRelease
  <1>3. ASSUME NEW i \in Instances, NEW k \in Keys, TimerTick(i, k) PROVE ReleaseInv'
    <2>1. /\ UNCHANGED <<kind, phase, early, down, timers, posts, streams, opened, triggers, listeners, queries>>
          /\ UNCHANGED notices
      BY <1>3 DEF TimerTick, pollVars, remoteVars, pgVars
    <2> QED BY <1>0, <2>1, RestRelease
  <1>4. ASSUME NEW i \in Instances, PostFails(i) \/ HearsEvent(i) \/ StreamBreaks(i) PROVE ReleaseInv'
    <2>1. /\ UNCHANGED <<kind, phase, early, down, timers, opened, triggers, listeners, queries, notices>>
          /\ posts' \subseteq posts /\ streams' \subseteq streams
      BY <1>4 DEF PostFails, HearsEvent, StreamBreaks, pollVars, pgVars
    <2> QED BY <2>1, FewerRelease
  <1>5. CASE UNCHANGED vars
    <2>1. /\ UNCHANGED <<kind, phase, early, down, timers, posts, streams, opened, triggers, listeners, queries>>
          /\ UNCHANGED notices
      BY <1>5 DEF vars, pollVars, remoteVars, pgVars
    <2> QED BY <1>0, <2>1, RestRelease
  <1>6. ASSUME NEW k \in Keys, Write(k) \/ Delete(k) \/ \E l \in Keys : Move(k, l) PROVE ReleaseInv'
    <2>1. CASE Write(k) BY <2>1, WriteRelease DEF Write
    <2>2. CASE Delete(k) BY <2>2, WriteRelease DEF Delete
    <2>3. ASSUME NEW l \in Keys, Move(k, l) PROVE ReleaseInv' BY <2>3, WriteRelease DEF Move
    <2> QED BY <1>6, <2>1, <2>2, <2>3
  <1> QED
    BY <1>1, <1>2, <1>3, <1>4, <1>5, <1>6, SubscribeRelease, UnsubscribeRelease, PostAnswersRelease,
       ShutdownRelease, QueryDoneRelease, HearsNoticeRelease
    DEF Next

\* What the external services hold is accounted for: every interval, stream and trigger
\* belongs to an instance that is open, or was closed early, or has a drop queued.
THEOREM ReleaseInvariant == Spec => []ReleaseInv
  BY InitRelease, StepRelease, PTL DEF Spec

\* Whatever the order of subscriptions, answers, queries and the shutdown, an instance
\* that was open when it was unsubscribed leaves no interval, no EventSource and no
\* trigger without a drop, and one that was not is let go of by the shutdown (unsubscribe
\* and shutdown of the external services).
THEOREM ReleasedStays == Spec => []Released
  <1>1. ReleaseInv => Released
    <2> SUFFICES ASSUME ReleaseInv, NEW i \in Instances, phase[i] = "closed", i \notin early
                 PROVE  i \notin timers \cup streams /\ (i \in triggers => HasDrop(queries, i))
      BY DEF Released, HasDrop
    <2>1. i \notin timers \cup streams BY DEF ReleaseInv, Owned
    <2>2. i \in triggers => HasDrop(queries, i) BY DEF ReleaseInv, DroppedLater
    <2> QED BY <2>1, <2>2
  <1> QED BY <1>1, ReleaseInvariant, PTL
=============================================================================
