-------------------------- MODULE ServerTailProofs --------------------------
(***************************************************************************)
(* Proofs about a mirrored table (ServerTail): the client's copy is the    *)
(* version its watermark names, up to rows of transfers that were cut      *)
(* short, and moves only to later versions.                                *)
(***************************************************************************)
EXTENDS ServerTail, FiniteSetTheorems, SequenceTheorems, WellFoundedInduction, NaturalsInduction, TLAPS

\* What the client makes of the chunks in flight: its state before and after each,
\* if the stream holds.
Diffs == [rebuild : BOOLEAN, add : SUBSET Rows, del : SUBSET Rows]
ClientStates == [table : SUBSET Rows, watermark : Nat, bufs : Seq(Diffs), partial : SUBSET Rows]
Chunks == [diffs : Seq(Diffs), check : Nat \cup {NoCheck}, signal : {"none", "reboot", "eof"}]
After(s, c) == IF c.signal = "none" THEN Received(s, c) ELSE s
Delivered(st, w) ==
  /\ st \in [1..(Len(w) + 1) -> ClientStates]
  /\ \A n \in 1..Len(w) : st[n + 1] = After(st[n], w[n])

\* The table stands for a version; the diffs that wait are all since the watermark.
DiffTo(h, a, b) ==
  [rebuild |-> FALSE, add |-> Between(h, a, b) \cap h[b], del |-> Between(h, a, b) \ h[b]]
CopyOf(h, s, t) == h[t] \subseteq s.table /\ s.table \subseteq h[t] \cup s.partial
Sound(h, s) ==
  /\ s.watermark <= Len(h) /\ ~HasRebuild(s.bufs)
  /\ s.watermark > 0 =>
       /\ CopyOf(h, s, s.watermark)
       /\ \A i \in DOMAIN s.bufs : \E t \in s.watermark..Len(h) : s.bufs[i] = DiffTo(h, s.watermark, t)

\* Before its first round a tail process serves the client as it is; afterwards the
\* client will have what was told, whether or not its watermark shows it.
Fresh(s) ==
  s.watermark = 0 => s.table \subseteq s.partial /\ \A i \in DOMAIN s.bufs : s.bufs[i].add \subseteq s.partial
CaughtUp(h, s, t) ==
  /\ s.bufs = <<>>
  /\ IF s.watermark > 0 THEN s.watermark <= t /\ Between(h, s.watermark, t) = {} ELSE CopyOf(h, s, t)

RunFrom(h, st, w, s) == Delivered(st, w) /\ st[1] = s /\ \A n \in 1..(Len(w) + 1) : Sound(h, st[n])
Told ==
  \E st : /\ RunFrom(hist, st, wire, Client)
          /\ attached /\ asked # None /\ tailMark # None => CaughtUp(hist, st[Len(wire) + 1], tailMark)
TailInv ==
  /\ hist \in Seq(SUBSET Rows) /\ hist # <<>>
  /\ asked \in Nat \cup {None} /\ tailMark \in {None} \cup 1..Len(hist)
  /\ attached \in BOOLEAN /\ rebooted \in BOOLEAN
  /\ wire \in Seq(Chunks) /\ \A n \in 1..Len(wire) : Len(wire[n].diffs) <= 1
  /\ ~attached /\ ~rebooted => tailMark = None
  /\ ~attached => wire = <<>>
  /\ tailMark = None => wire = <<>> /\ Fresh(Client) /\ (asked # None => asked = watermark)
  /\ Told

-----------------------------------------------------------------------------
LEMMA Least ==
  ASSUME NEW T \in SUBSET Nat, T # {}
  PROVE  \E x \in T : \A y \in T : ~(y < x)
  <1> DEFINE R == {ss \in Nat \X Nat : ss[1] < ss[2]}
  <1>1. IsWellFoundedOn(R, Nat)
    BY NatLessThanWellFounded DEF OpToRel
  <1>2. \E x \in T : \A y \in T : ~ (<<y, x>> \in R)
    <2> HIDE DEF R
    <2> QED BY <1>1, WFMin
  <1> QED BY <1>2

\* Induction on the natural numbers, for a set instead of a predicate.
LEMMA SetInduction ==
  ASSUME NEW S, 0 \in S, \A n \in Nat : n \in S => n + 1 \in S
  PROVE  Nat \subseteq S
  <1> SUFFICES ASSUME NEW k \in Nat, k \notin S PROVE FALSE
    OBVIOUS
  <1> DEFINE T == {n \in Nat : n \notin S}
  <1>1. PICK x \in T : \A y \in T : ~(y < x)
    <2>1. T \in SUBSET Nat /\ T # {} OBVIOUS
    <2> HIDE DEF T
    <2> QED BY <2>1, Least
  <1>2. x # 0 /\ x - 1 \in Nat /\ x - 1 < x BY <1>1
  <1>3. x - 1 \in S BY <1>1, <1>2
  <1> QED BY <1>1, <1>2, <1>3

\* A row that does not change between two versions is in both or in neither.
LEMMA SameBetween ==
  ASSUME NEW h, NEW a \in Nat \ {0}, NEW b \in Nat, a <= b, NEW r \in Rows, r \notin Between(h, a, b)
  PROVE  r \in h[a] <=> r \in h[b]
  <1> DEFINE S == {k \in Nat : a + k <= b => (r \in h[a] <=> r \in h[a + k])}
  <1>1. 0 \in S
    <2>1. a + 0 = a OBVIOUS
    <2> QED BY <2>1
  <1>2. ASSUME NEW k \in Nat, k \in S PROVE k + 1 \in S
    <2> SUFFICES ASSUME a + (k + 1) <= b PROVE r \in h[a] <=> r \in h[a + (k + 1)]
      OBVIOUS
    <2>1. r \in h[a] <=> r \in h[a + k] BY <1>2
    <2>2. PICK t \in Nat : t = a + (k + 1) OBVIOUS
    <2>3. t \in a + 1..b /\ t > 1 /\ t - 1 = a + k BY <2>2
    <2>4. ~((r \in h[t]) # (t > 1 /\ r \in h[t - 1])) BY <2>3 DEF Between
    <2>5. r \in h[t] <=> r \in h[t - 1] BY <2>3, <2>4
    <2> QED BY <2>1, <2>2, <2>3, <2>5
  <1> HIDE DEF S
  <1>3. Nat \subseteq S BY <1>1, <1>2, SetInduction
  <1>4. PICK k \in Nat : a + k = b
    <2>1. b - a \in Nat /\ a + (b - a) = b OBVIOUS
    <2> QED BY <2>1
  <1>5. k \in S BY <1>3
  <1> QED BY <1>4, <1>5 DEF S

\* The changes up to a later version are more, and those since a version that was not
\* followed by a change are the same.
LEMMA BetweenGrows ==
  ASSUME NEW h, NEW a \in Nat, NEW b \in Nat, NEW c \in Nat, b <= c
  PROVE  /\ Between(h, a, b) \subseteq Between(h, a, c) /\ Between(h, a, c) \subseteq Rows
         /\ a <= b /\ Between(h, a, b) = {} => Between(h, a, c) = Between(h, b, c)
  <1>1. a + 1..b \subseteq a + 1..c OBVIOUS
  <1>2. Between(h, a, b) \subseteq Between(h, a, c) /\ Between(h, a, c) \subseteq Rows BY <1>1 DEF Between
  <1>3. ASSUME a <= b, Between(h, a, b) = {} PROVE Between(h, a, c) = Between(h, b, c)
    <2>1. b + 1..c \subseteq a + 1..c BY <1>3
    <2>2. \A t \in a + 1..c : t \in a + 1..b \/ t \in b + 1..c BY <1>3
    <2>3. Between(h, b, c) \subseteq Between(h, a, c) BY <2>1 DEF Between
    <2>4. ASSUME NEW r \in Between(h, a, c) PROVE r \in Between(h, b, c)
      <3>1. PICK t \in a + 1..c : (r \in h[t]) # (t > 1 /\ r \in h[t - 1]) BY DEF Between
      <3>2. r \in Rows BY DEF Between
      <3>3. t \notin a + 1..b BY <1>3, <3>1, <3>2 DEF Between
      <3> QED BY <2>2, <3>1, <3>2, <3>3 DEF Between
    <2> QED BY <2>3, <2>4
  <1> QED BY <1>2, <1>3

\* Later versions of the table leave the earlier ones and what is said of them alone.
LEMMA BetweenKept ==
  ASSUME NEW h, NEW g, NEW a \in Nat, NEW b \in Nat, NEW l \in Nat, b <= l,
         \A t \in 1..l : g[t] = h[t]
  PROVE  Between(g, a, b) = Between(h, a, b)
  <1>1. ASSUME NEW t \in a + 1..b
        PROVE  g[t] = h[t] /\ (t > 1 => g[t - 1] = h[t - 1])
    <2>1. t \in 1..l /\ (t > 1 => t - 1 \in 1..l) OBVIOUS
    <2> QED BY <2>1
  <1> QED BY <1>1 DEF Between

LEMMA BetweenAllKept ==
  ASSUME NEW h, NEW g, NEW a \in Nat, NEW l \in Nat, \A t \in 1..l : g[t] = h[t]
  PROVE  \A t \in 1..l : Between(g, a, t) = Between(h, a, t)
  <1> SUFFICES ASSUME NEW t \in 1..l PROVE Between(g, a, t) = Between(h, a, t) OBVIOUS
  <1>1. t \in Nat /\ t <= l OBVIOUS
  <1> QED BY <1>1, BetweenKept
-----------------------------------------------------------------------------
\* The diffs of a message are applied one after the other.
Passed(s, check) == s.watermark > 0 /\ check <= s.watermark
IsFold(f, s, ds, check, k) ==
  /\ f = [j \in 0..k |-> f[j]] /\ f[0] = s
  /\ \A j \in 1..k : f[j] = Applied(f[j - 1], ds[j], check, Passed(s, check))

LEMMA FoldExists ==
  ASSUME NEW s, NEW ds, NEW check, NEW n \in Nat
  PROVE  \E f : IsFold(f, s, ds, check, n)
  <1> DEFINE S == {k \in Nat : \E f : IsFold(f, s, ds, check, k)}
  <1>1. 0 \in S
    <2>1. PICK f : f = [k \in 0..0 |-> s] OBVIOUS
    <2>2. IsFold(f, s, ds, check, 0) BY <2>1 DEF IsFold
    <2> QED BY <2>2
  <1>2. ASSUME NEW k \in Nat, k \in S PROVE k + 1 \in S
    <2>1. PICK a : IsFold(a, s, ds, check, k) BY <1>2
    <2>2. PICK x : x = Applied(a[k], ds[k + 1], check, Passed(s, check)) OBVIOUS
    <2>3. PICK b : b = [j \in 0..(k + 1) |-> IF j = k + 1 THEN x ELSE a[j]] OBVIOUS
    <2>4. b[0] = s /\ b = [j \in 0..(k + 1) |-> b[j]]
      <3>1. 0 \in 0..(k + 1) /\ 0 # k + 1 OBVIOUS
      <3>2. b[0] = a[0] BY <2>3, <3>1
      <3> QED BY <2>1, <2>3, <3>2 DEF IsFold
    <2>5. ASSUME NEW j \in 1..(k + 1)
          PROVE  b[j] = Applied(b[j - 1], ds[j], check, Passed(s, check))
      <3>1. CASE j = k + 1
        <4>1. b[j] = x /\ b[j - 1] = a[k] BY <2>3, <3>1
        <4> QED BY <2>2, <3>1, <4>1
      <3>2. CASE j # k + 1
        <4>1. j \in 1..k /\ b[j] = a[j] /\ b[j - 1] = a[j - 1] BY <2>3, <3>2
        <4> QED BY <2>1, <4>1 DEF IsFold
      <3> QED BY <3>1, <3>2
    <2>6. IsFold(b, s, ds, check, k + 1) BY <2>4, <2>5 DEF IsFold
    <2> QED BY <2>6
  <1> HIDE DEF S
  <1>3. Nat \subseteq S BY <1>1, <1>2, SetInduction
  <1> QED BY <1>3 DEF S

LEMMA WriteCsvIs ==
  ASSUME NEW s, NEW ds, NEW check, Len(ds) \in Nat
  PROVE  \E f : IsFold(f, s, ds, check, Len(ds)) /\ writeCsv(s, ds, check) = f[Len(ds)]
  <1> DEFINE F(a) == [n \in 0..Len(ds) |-> IF n = 0 THEN s
                                           ELSE Applied(a[n - 1], ds[n], check, s.watermark > 0 /\ check <= s.watermark)]
  <1> DEFINE after == CHOOSE a : a = F(a)
  <1>1. PICK b : IsFold(b, s, ds, check, Len(ds)) BY FoldExists
  <1>2. b = F(b)
    <2>1. ASSUME NEW k \in 0..Len(ds) PROVE b[k] = F(b)[k]
      <3>1. k = 0 \/ k \in 1..Len(ds) OBVIOUS
      <3> QED BY <1>1, <3>1 DEF IsFold, Passed
    <2>2. b = [k \in 0..Len(ds) |-> b[k]] BY <1>1 DEF IsFold
    <2>3. F(b) = [k \in 0..Len(ds) |-> F(b)[k]] OBVIOUS
    <2> HIDE DEF F
    <2> QED BY <2>1, <2>2, <2>3
  <1>3. after = F(after) BY <1>2
  <1>4. IsFold(after, s, ds, check, Len(ds))
    <2> HIDE DEF after
    <2>1. after = [k \in 0..Len(ds) |-> after[k]] BY <1>3
    <2>2. after[0] = s
      <3>1. 0 \in 0..Len(ds) OBVIOUS
      <3> QED BY <1>3, <3>1
    <2>3. \A j \in 1..Len(ds) : after[j] = Applied(after[j - 1], ds[j], check, Passed(s, check))
      <3>1. \A j \in 1..Len(ds) : j \in 0..Len(ds) /\ j # 0 OBVIOUS
      <3> QED BY <1>3, <3>1 DEF Passed
    <2> QED BY <2>1, <2>2, <2>3 DEF IsFold
  <1>5. writeCsv(s, ds, check) = after[Len(ds)] BY DEF writeCsv
  <1> QED BY <1>4, <1>5

\* What diffs without a rebuild make of a copy: rows no diff mentions stay as they
\* were, and no row appears that was not there and no diff adds.
Folded(x, s, ds, check, k) ==
  /\ x.table \in SUBSET Rows /\ x.watermark = (IF k = 0 THEN s.watermark ELSE Later(check, s.watermark))
  /\ \A C : (\A i \in 1..k : ds[i].add \subseteq C /\ ds[i].del \subseteq C) =>
              \A r : r \notin C => (r \in x.table <=> r \in s.table)
  /\ \A P : s.table \subseteq P /\ (\A i \in 1..k : ds[i].add \subseteq P) => x.table \subseteq P
  /\ Passed(s, check) => x.table = s.table

LEMMA FoldIsFolded ==
  ASSUME NEW s \in [table : SUBSET Rows, watermark : Nat], NEW ds \in Seq(Diffs), NEW check \in Nat, NEW f, NEW n \in Nat, NEW m \in 0..n,
         IsFold(f, s, ds, check, n), n <= Len(ds), \A i \in 1..m : ~ds[i].rebuild
  PROVE  Folded(f[m], s, ds, check, m)
  <1> DEFINE S == {k \in Nat : k <= m => Folded(f[k], s, ds, check, k)}
  <1>1. 0 \in S
    <2>1. f[0].table = s.table /\ f[0].watermark = s.watermark BY DEF IsFold
    <2>2. s.table \in SUBSET Rows OBVIOUS
    <2> QED BY <2>1, <2>2 DEF Folded
  <1>2. ASSUME NEW k \in Nat, k \in S PROVE k + 1 \in S
    <2> SUFFICES ASSUME k + 1 <= m PROVE Folded(f[k + 1], s, ds, check, k + 1)
      OBVIOUS
    <2>1. Folded(f[k], s, ds, check, k) BY <1>2
    <2>2. PICK j \in Nat : j = k + 1 OBVIOUS
    <2>3. j \in 1..n /\ j \in 1..m /\ j - 1 = k /\ j \in 1..Len(ds) BY <2>2
    <2>4. PICK d : d = ds[j] OBVIOUS
    <2>5. d \in Diffs /\ ~d.rebuild BY <2>3, <2>4
    <2>6. PICK x : x = f[k] OBVIOUS
    <2>7. PICK y : y = f[j] OBVIOUS
    <2>8. y = Applied(x, d, check, Passed(s, check)) BY <2>3, <2>4, <2>6, <2>7 DEF IsFold
    <2>9. /\ y.table = IF Passed(s, check) THEN x.table ELSE (x.table \ d.del) \cup d.add
          /\ y.watermark = Later(check, x.watermark)
      BY <2>5, <2>8 DEF Applied
    <2>10. Folded(x, s, ds, check, k) BY <2>1, <2>6
    <2>11. s.watermark \in Nat OBVIOUS
    <2>12. y.watermark = Later(check, s.watermark) BY <2>9, <2>10, <2>11 DEF Folded, Later
    <2>13. y.table \in SUBSET Rows BY <2>5, <2>9, <2>10 DEF Folded, Diffs
    <2>14. \A i \in 1..k : i \in 1..j BY <2>2
    <2>15. j \in 1..j /\ j # 0 BY <2>2
    <2>16. ASSUME NEW C, \A i \in 1..j : ds[i].add \subseteq C /\ ds[i].del \subseteq C, NEW r, r \notin C
           PROVE  r \in y.table <=> r \in s.table
      <3>1. r \in x.table <=> r \in s.table BY <2>10, <2>14, <2>16 DEF Folded
      <3>2. r \notin d.add /\ r \notin d.del BY <2>4, <2>15, <2>16
      <3> QED BY <2>9, <3>1, <3>2
    <2>17. ASSUME NEW P, s.table \subseteq P, \A i \in 1..j : ds[i].add \subseteq P
           PROVE  y.table \subseteq P
      <3>1. x.table \subseteq P BY <2>10, <2>14, <2>17 DEF Folded
      <3>2. d.add \subseteq P BY <2>4, <2>15, <2>17
      <3> QED BY <2>9, <3>1, <3>2
    <2>18. Passed(s, check) => y.table = s.table BY <2>9, <2>10 DEF Folded
    <2>19. Folded(y, s, ds, check, j) BY <2>12, <2>13, <2>15, <2>16, <2>17, <2>18 DEF Folded
    <2> QED BY <2>2, <2>7, <2>19
  <1> HIDE DEF S
  <1>3. Nat \subseteq S BY <1>1, <1>2, SetInduction
  <1>4. m \in Nat /\ m <= m /\ m \in S BY <1>3
  <1>5. m \in {k \in Nat : k <= m => Folded(f[k], s, ds, check, k)} BY <1>4 DEF S
  <1> QED BY <1>4, <1>5
-----------------------------------------------------------------------------
\* What the client makes of a chunk: one with a checkpoint and no diff, one with a
\* diff, a rebuild, and one that was cut.
LEMMA ReceivedNone ==
  ASSUME NEW s \in ClientStates, ~HasRebuild(s.bufs), NEW c \in Chunks, c.check \in Nat, c.diffs = <<>>,
         NEW x, x = Received(s, c)
  PROVE  /\ x \in ClientStates /\ x.bufs = <<>> /\ x.partial = s.partial
         /\ Folded(x, s, s.bufs, c.check, Len(s.bufs))
  <1>0. PICK st : st = [table |-> s.table, watermark |-> s.watermark] OBVIOUS
  <1>1. PICK ds : ds = s.bufs OBVIOUS
  <1>2. ds \in Seq(Diffs) /\ ds \o <<>> = ds /\ s.watermark \in Nat /\ s.partial \in SUBSET Rows
    BY <1>1 DEF ClientStates
  <1>3. PICK l \in Nat : l = Len(ds) BY <1>2
  <1>4. PICK t \in Nat : t = c.check OBVIOUS
  <1>5. PICK f : IsFold(f, st, ds, t, l) /\ writeCsv(st, ds, t) = f[l] BY <1>2, <1>3, WriteCsvIs
  <1>6. \A i \in 1..l : ~ds[i].rebuild BY <1>1, <1>2, <1>3 DEF HasRebuild
  <1>7. Folded(f[l], s, ds, t, l)
    <2>1. l <= Len(ds) /\ l \in 0..l BY <1>3
    <2>2. st \in [table : SUBSET Rows, watermark : Nat] BY <1>0 DEF ClientStates
    <2>3. Folded(f[l], st, ds, t, l) BY <1>2, <1>5, <1>6, <2>1, <2>2, FoldIsFolded
    <2>4. st.table = s.table /\ st.watermark = s.watermark BY <1>0
    <2> QED BY <2>3, <2>4 DEF Folded, Passed
  <1>8. x = [table |-> f[l].table, watermark |-> f[l].watermark, bufs |-> <<>>, partial |-> s.partial]
    <2>1. s.bufs \o c.diffs = ds BY <1>1, <1>2
    <2>2. c.check # NoCheck BY <1>4 DEF NoCheck
    <2>3. writeCsv([table |-> s.table, watermark |-> s.watermark], s.bufs \o c.diffs, c.check) = f[l]
      BY <1>0, <1>4, <1>5, <2>1
    <2>4. ~HasRebuild(ds) BY <1>1
    <2> QED BY <2>1, <2>2, <2>3, <2>4, Zenon DEF Received
  <1>9. x.table = f[l].table /\ x.watermark = f[l].watermark BY <1>8
  <1>10. Folded(x, s, ds, t, l) BY <1>7, <1>9 DEF Folded
  <1>11. x.watermark \in Nat /\ x.table \in SUBSET Rows BY <1>2, <1>10 DEF Folded, Later
  <1>12. x \in ClientStates
    <2>1. <<>> \in Seq(Diffs) OBVIOUS
    <2> QED BY <1>2, <1>8, <1>9, <1>11, <2>1 DEF ClientStates
  <1> QED BY <1>1, <1>3, <1>4, <1>8, <1>10, <1>12

LEMMA BufsOne ==
  ASSUME NEW b \in Seq(Diffs), NEW d \in Diffs, NEW ds, ds = b \o <<d>>, NEW l \in Nat, l = Len(b)
  PROVE  /\ ds \in Seq(Diffs) /\ Len(ds) = l + 1 /\ DOMAIN ds = 1..(l + 1) /\ DOMAIN b = 1..l
         /\ ds[l + 1] = d /\ \A i \in 1..l : ds[i] = b[i]
  <1>1. ds \in Seq(Diffs) /\ Len(ds) = l + 1 BY AppendIsConcat, AppendProperties
  <1>2. ds = Append(b, d) BY AppendIsConcat
  <1>3. ds[l + 1] = d BY <1>2
  <1>4. \A i \in 1..l : ds[i] = b[i] BY <1>2
  <1> QED BY <1>1, <1>3, <1>4

AppliedOne(x, s, d, check) ==
  /\ x \in ClientStates /\ x.bufs = <<>> /\ x.partial = s.partial
  /\ x.watermark = Later(check, s.watermark)
  /\ \E y : /\ Folded(y, s, s.bufs, check, Len(s.bufs))
            /\ x.table = IF Passed(s, check) THEN y.table ELSE (y.table \ d.del) \cup d.add

LEMMA ReceivedOne ==
  ASSUME NEW s \in ClientStates, ~HasRebuild(s.bufs), NEW c \in Chunks, c.check \in Nat,
         NEW d \in Diffs, c.diffs = <<d>>, NEW x, x = Received(s, c)
  PROVE  /\ d.rebuild => x = [table |-> {}, watermark |-> 0, bufs |-> <<>>, partial |-> {}] /\ x \in ClientStates
         /\ ~d.rebuild => AppliedOne(x, s, d, c.check)
  <1>0. PICK st : st = [table |-> s.table, watermark |-> s.watermark] OBVIOUS
  <1>1. PICK b : b = s.bufs OBVIOUS
  <1>2. b \in Seq(Diffs) /\ s.watermark \in Nat /\ s.partial \in SUBSET Rows BY <1>1 DEF ClientStates
  <1>3. PICK l \in Nat : l = Len(b) BY <1>2
  <1>4. PICK t \in Nat : t = c.check OBVIOUS
  <1>5. PICK ds : ds = b \o <<d>> OBVIOUS
  <1>6. /\ ds \in Seq(Diffs) /\ Len(ds) = l + 1 /\ DOMAIN ds = 1..(l + 1) /\ DOMAIN b = 1..l
        /\ ds[l + 1] = d /\ \A i \in 1..l : ds[i] = b[i]
    BY <1>2, <1>3, <1>5, BufsOne
  <1>7. PICK f : IsFold(f, st, ds, t, l + 1) /\ writeCsv(st, ds, t) = f[l + 1]
    <2>1. Len(ds) \in Nat BY <1>6
    <2>2. \E f : IsFold(f, st, ds, t, Len(ds)) /\ writeCsv(st, ds, t) = f[Len(ds)] BY <2>1, WriteCsvIs
    <2> QED BY <1>6, <2>2
  <1>8. \A i \in 1..l : ~ds[i].rebuild BY <1>1, <1>6 DEF HasRebuild
  <1>9. PICK y : y = f[l] OBVIOUS
  <1>10. Folded(y, s, ds, t, l) /\ Passed(s, t) = Passed(st, t)
    <2>1. l + 1 <= Len(ds) /\ l \in 0..(l + 1) /\ l + 1 \in Nat BY <1>6
    <2>2. st \in [table : SUBSET Rows, watermark : Nat] BY <1>0 DEF ClientStates
    <2>3. Folded(y, st, ds, t, l) BY <1>6, <1>7, <1>8, <1>9, <2>1, <2>2, FoldIsFolded
    <2>4. st.table = s.table /\ st.watermark = s.watermark BY <1>0
    <2> QED BY <2>3, <2>4 DEF Folded, Passed
  <1>11. Folded(y, s, b, t, l)
    <2>1. \A i \in 1..l : ds[i].add = b[i].add /\ ds[i].del = b[i].del BY <1>6
    <2> QED BY <1>10, <2>1 DEF Folded
  <1>12. f[l + 1] = Applied(y, d, t, Passed(s, t))
    <2>1. l + 1 \in 1..(l + 1) /\ (l + 1) - 1 = l OBVIOUS
    <2> QED BY <1>6, <1>7, <1>9, <1>10, <2>1 DEF IsFold
  <1>13. PICK z : z = f[l + 1] OBVIOUS
  <1>14. x = [table |-> z.table, watermark |-> z.watermark, bufs |-> <<>>,
              partial |-> IF HasRebuild(ds) THEN {} ELSE s.partial]
    <2>1. s.bufs \o c.diffs = ds BY <1>1, <1>5
    <2>2. c.check # NoCheck BY <1>4 DEF NoCheck
    <2>3. writeCsv([table |-> s.table, watermark |-> s.watermark], s.bufs \o c.diffs, c.check) = z
      BY <1>0, <1>4, <1>7, <1>13, <2>1
    <2> QED BY <2>1, <2>2, <2>3, Zenon DEF Received
  <1>15. <<>> \in Seq(Diffs) OBVIOUS
  <1>16. ASSUME d.rebuild
         PROVE  x = [table |-> {}, watermark |-> 0, bufs |-> <<>>, partial |-> {}] /\ x \in ClientStates
    <2>1. l + 1 \in 1..(l + 1) OBVIOUS
    <2>2. HasRebuild(ds) BY <1>6, <1>16, <2>1 DEF HasRebuild
    <2>3. z.table = {} /\ z.watermark = 0 BY <1>12, <1>13, <1>16 DEF Applied
    <2>4. x = [table |-> {}, watermark |-> 0, bufs |-> <<>>, partial |-> {}] BY <1>14, <2>2, <2>3
    <2> QED BY <1>15, <2>4 DEF ClientStates
  <1>17. ASSUME ~d.rebuild
         PROVE  /\ x \in ClientStates /\ x.bufs = <<>> /\ x.partial = s.partial
                /\ x.watermark = Later(t, s.watermark)
                /\ x.table = IF Passed(s, t) THEN y.table ELSE (y.table \ d.del) \cup d.add
    <2>1. ~HasRebuild(ds)
      <3> SUFFICES ASSUME NEW i \in 1..(l + 1), ds[i].rebuild PROVE FALSE
        BY <1>6 DEF HasRebuild
      <3>1. i \in 1..l \/ i = l + 1 OBVIOUS
      <3> QED BY <1>6, <1>8, <1>17, <3>1
    <2>2. /\ z.table = IF Passed(s, t) THEN y.table ELSE (y.table \ d.del) \cup d.add
          /\ z.watermark = Later(t, y.watermark)
      BY <1>12, <1>13, <1>17 DEF Applied
    <2>3. z.watermark = Later(t, s.watermark) BY <1>2, <1>10, <2>2 DEF Folded, Later
    <2>4. z.watermark \in Nat BY <1>2, <2>3 DEF Later
    <2>5. z.table \in SUBSET Rows BY <1>10, <2>2 DEF Folded, Diffs
    <2>6. x = [table |-> z.table, watermark |-> z.watermark, bufs |-> <<>>, partial |-> s.partial] BY <1>14, <2>1
    <2> QED BY <1>2, <1>15, <2>2, <2>3, <2>4, <2>5, <2>6 DEF ClientStates
  <1>18. ~d.rebuild => AppliedOne(x, s, d, t) BY <1>1, <1>3, <1>11, <1>17 DEF AppliedOne
  <1> QED BY <1>4, <1>16, <1>18

LEMMA ReceivedCut ==
  ASSUME NEW s \in ClientStates, NEW c \in Chunks, c.check = NoCheck, NEW x, x = Received(s, c)
  PROVE  /\ x \in ClientStates /\ x.table = s.table /\ x.watermark = s.watermark /\ x.partial = s.partial
         /\ x.bufs = s.bufs \o c.diffs
  <1>1. PICK ds : ds = s.bufs \o c.diffs OBVIOUS
  <1>2. s.bufs \in Seq(Diffs) /\ c.diffs \in Seq(Diffs) BY DEF ClientStates, Chunks
  <1>3. ds \in Seq(Diffs) BY <1>1, <1>2, ConcatProperties
  <1>4. x = [s EXCEPT !.bufs = ds] BY <1>1 DEF Received
  <1> QED BY <1>1, <1>3, <1>4 DEF ClientStates
-----------------------------------------------------------------------------
\* A client that an update since version a is for: its copy is that version, and the
\* diffs that wait concern no row that has not changed since.
Since(h, s, a) ==
  /\ Sound(h, s)
  /\ IF s.watermark > 0 THEN s.watermark <= a /\ Between(h, s.watermark, a) = {}
     ELSE s.bufs = <<>> /\ CopyOf(h, s, a)

LEMMA DiffToType ==
  ASSUME NEW h \in Seq(SUBSET Rows), NEW a, NEW b
  PROVE  /\ DiffTo(h, a, b) \in Diffs /\ ~DiffTo(h, a, b).rebuild
         /\ DiffTo(h, a, b).add = Between(h, a, b) \cap h[b] /\ DiffTo(h, a, b).del = Between(h, a, b) \ h[b]
  BY DEF DiffTo, Diffs, Between

LEMMA SinceCopy ==
  ASSUME NEW h \in Seq(SUBSET Rows), NEW l \in Nat, l = Len(h), NEW a \in 1..l, NEW s \in ClientStates, Since(h, s, a)
  PROVE  /\ CopyOf(h, s, a) /\ s.watermark <= a
         /\ \A i \in 1..Len(s.bufs) : s.bufs[i].add \subseteq Between(h, a, l) /\ s.bufs[i].del \subseteq Between(h, a, l)
         /\ s.watermark > 0 => DiffTo(h, a, l) = DiffTo(h, s.watermark, l)
  <1>1. s.watermark \in Nat /\ s.bufs \in Seq(Diffs) /\ s.table \in SUBSET Rows /\ s.partial \in SUBSET Rows
    BY DEF ClientStates
  <1>2. PICK w \in Nat : w = s.watermark BY <1>1
  <1>3. a \in Nat /\ a <= l /\ \A t \in 1..l : h[t] \subseteq Rows OBVIOUS
  <1>4. CASE w > 0
    <2>1. w <= a /\ Between(h, w, a) = {} /\ CopyOf(h, s, w)
      BY <1>2, <1>4 DEF Since, Sound
    <2>2. w \in 1..l /\ w \in Nat \ {0} BY <1>3, <1>4, <2>1
    <2>3. h[w] = h[a]
      <3>1. \A r \in Rows : r \in h[w] <=> r \in h[a] BY <1>3, <2>1, <2>2, SameBetween
      <3> QED BY <1>3, <2>2, <3>1
    <2>4. CopyOf(h, s, a) BY <2>1, <2>3 DEF CopyOf
    <2>5. Between(h, w, l) = Between(h, a, l) BY <1>3, <2>1, BetweenGrows
    <2>6. ASSUME NEW i \in 1..Len(s.bufs)
          PROVE  s.bufs[i].add \subseteq Between(h, a, l) /\ s.bufs[i].del \subseteq Between(h, a, l)
      <3>1. PICK t \in w..l : s.bufs[i] = DiffTo(h, w, t)
        BY <1>1, <1>2, <1>4 DEF Since, Sound
      <3>2. t \in Nat /\ t <= l OBVIOUS
      <3>3. Between(h, w, t) \subseteq Between(h, w, l) BY <3>2, BetweenGrows
      <3>4. s.bufs[i].add \subseteq Between(h, w, t) /\ s.bufs[i].del \subseteq Between(h, w, t)
        BY <3>1, DiffToType
      <3> QED BY <2>5, <3>3, <3>4
    <2>7. DiffTo(h, a, l) = DiffTo(h, w, l) BY <2>5 DEF DiffTo
    <2> QED BY <1>2, <2>1, <2>4, <2>6, <2>7
  <1>5. CASE w = 0
    <2>1. s.bufs = <<>> /\ CopyOf(h, s, a) BY <1>2, <1>5 DEF Since
    <2>2. Len(s.bufs) = 0 BY <2>1
    <2> QED BY <1>2, <1>3, <1>5, <2>1, <2>2
  <1> QED BY <1>4, <1>5

\* A copy that is a version becomes the last one when the rows that changed are set.
LEMMA CopyMoves ==
  ASSUME NEW h \in Seq(SUBSET Rows), NEW l \in Nat, l = Len(h), NEW a \in 1..l, NEW s \in ClientStates, CopyOf(h, s, a),
         NEW x \in ClientStates, x.partial = s.partial,
         \A r \in Between(h, a, l) : r \in x.table <=> r \in h[l],
         \A r : r \notin Between(h, a, l) => (r \in x.table <=> r \in s.table)
  PROVE  CopyOf(h, x, l)
  <1>1. a \in Nat \ {0} /\ a <= l /\ l \in 1..l /\ h[l] \subseteq Rows /\ h[a] \subseteq Rows OBVIOUS
  <1>2. x.table \in SUBSET Rows /\ s.table \in SUBSET Rows BY DEF ClientStates
  <1>3. \A r \in Rows : r \notin Between(h, a, l) => (r \in h[a] <=> r \in h[l]) BY <1>1, SameBetween
  <1>4. ASSUME NEW r \in h[l] PROVE r \in x.table BY <1>1, <1>3 DEF CopyOf
  <1>5. ASSUME NEW r \in x.table PROVE r \in h[l] \cup x.partial BY <1>1, <1>2, <1>3 DEF CopyOf
  <1> QED BY <1>4, <1>5 DEF CopyOf

LEMMA NothingBetween ==
  ASSUME NEW h, NEW a \in Nat
  PROVE  Between(h, a, a) = {}
  <1>1. a + 1..a = {} OBVIOUS
  <1> QED BY <1>1 DEF Between

LEMMA LaterWhole ==
  ASSUME NEW h \in Seq(SUBSET Rows), NEW l \in Nat, l = Len(h), l > 0, NEW x \in ClientStates,
         x.bufs = <<>>, x.watermark = l, CopyOf(h, x, l)
  PROVE  Sound(h, x) /\ CaughtUp(h, x, l)
  <1>1. ~HasRebuild(x.bufs) /\ DOMAIN x.bufs = {} BY DEF HasRebuild
  <1>2. Sound(h, x) BY <1>1 DEF Sound
  <1>3. CaughtUp(h, x, l) BY NothingBetween DEF CaughtUp
  <1> QED BY <1>2, <1>3

LEMMA UpdateWhole ==
  ASSUME NEW h \in Seq(SUBSET Rows), NEW l \in Nat, l = Len(h), NEW a \in 1..l, NEW s \in ClientStates, Since(h, s, a),
         Between(h, a, l) # {}, NEW c \in Chunks, c.check = l, c.diffs = <<DiffTo(h, a, l)>>,
         NEW x, x = Received(s, c)
  PROVE  x \in ClientStates /\ Sound(h, x) /\ CaughtUp(h, x, l)
  <1>1. PICK d : d = DiffTo(h, a, l) OBVIOUS
  <1>2. d \in Diffs /\ ~d.rebuild /\ d.add = Between(h, a, l) \cap h[l] /\ d.del = Between(h, a, l) \ h[l]
    BY <1>1, DiffToType
  <1>3. /\ CopyOf(h, s, a) /\ s.watermark <= a
        /\ \A i \in 1..Len(s.bufs) : s.bufs[i].add \subseteq Between(h, a, l) /\ s.bufs[i].del \subseteq Between(h, a, l)
    BY SinceCopy
  <1>4. ~HasRebuild(s.bufs) BY DEF Since, Sound
  <1>5. a # l /\ a \in Nat
    <2>1. a \in Nat /\ Between(h, a, a) = {} BY NothingBetween
    <2> QED BY <2>1
  <1>6. s.watermark \in Nat BY DEF ClientStates
  <1>7. ~Passed(s, l) /\ Later(l, s.watermark) = l BY <1>3, <1>5, <1>6 DEF Passed, Later
  <1>8. c.diffs = <<d>> /\ c.check \in Nat BY <1>1
  <1>9. AppliedOne(x, s, d, l)
    <2>1. ~d.rebuild => AppliedOne(x, s, d, c.check) BY <1>2, <1>4, <1>8, ReceivedOne
    <2> QED BY <1>2, <2>1
  <1>10. PICK y : Folded(y, s, s.bufs, l, Len(s.bufs)) /\ x.table = (y.table \ d.del) \cup d.add
    BY <1>7, <1>9 DEF AppliedOne
  <1>11. \A r : r \notin Between(h, a, l) => (r \in y.table <=> r \in s.table) BY <1>3, <1>10 DEF Folded
  <1>12. \A r \in Between(h, a, l) : r \in x.table <=> r \in h[l] BY <1>2, <1>10
  <1>13. \A r : r \notin Between(h, a, l) => (r \in x.table <=> r \in s.table) BY <1>2, <1>10, <1>11
  <1>14. CopyOf(h, x, l) BY <1>3, <1>9, <1>12, <1>13, CopyMoves DEF AppliedOne
  <1>15. x \in ClientStates /\ x.bufs = <<>> /\ x.watermark = l /\ l > 0 BY <1>7, <1>9 DEF AppliedOne
  <1> QED BY <1>14, <1>15, LaterWhole

\* A round that has nothing to tell.
LEMMA UpdateNothing ==
  ASSUME NEW h \in Seq(SUBSET Rows), NEW l \in Nat, l = Len(h), NEW a \in 1..l, NEW s \in ClientStates, Since(h, s, a),
         Between(h, a, l) = {}, NEW c \in Chunks, c.check = l, c.diffs = <<>>,
         NEW x, x = Received(s, c)
  PROVE  x \in ClientStates /\ Sound(h, x) /\ CaughtUp(h, x, l)
  <1>1. /\ CopyOf(h, s, a) /\ s.watermark <= a
        /\ \A i \in 1..Len(s.bufs) : s.bufs[i].add \subseteq Between(h, a, l) /\ s.bufs[i].del \subseteq Between(h, a, l)
    BY SinceCopy
  <1>2. ~HasRebuild(s.bufs) /\ s.watermark \in Nat /\ s.bufs \in Seq(Diffs) BY DEF Since, Sound, ClientStates
  <1>3. /\ x \in ClientStates /\ x.bufs = <<>> /\ x.partial = s.partial
        /\ Folded(x, s, s.bufs, l, Len(s.bufs))
    <2>1. c.check \in Nat OBVIOUS
    <2>2. /\ x \in ClientStates /\ x.bufs = <<>> /\ x.partial = s.partial
          /\ Folded(x, s, s.bufs, c.check, Len(s.bufs))
      BY <1>2, <2>1, ReceivedNone
    <2> QED BY <2>2
  <1>4. \A r : r \notin Between(h, a, l) => (r \in x.table <=> r \in s.table) BY <1>1, <1>3 DEF Folded
  <1>5. CopyOf(h, x, l) BY <1>1, <1>3, <1>4, CopyMoves
  <1>6. CASE x.watermark = l
    <2>1. l > 0 OBVIOUS
    <2> QED BY <1>3, <1>5, <1>6, <2>1, LaterWhole
  <1>7. CASE x.watermark # l
    <2>1. s.bufs = <<>> /\ x.watermark = s.watermark
      <3>1. CASE Len(s.bufs) = 0 BY <1>2, <1>3, <3>1 DEF Folded
      <3>2. CASE Len(s.bufs) # 0
        <4>1. x.watermark = Later(l, s.watermark) BY <1>3, <3>2 DEF Folded
        <4>2. s.watermark <= l BY <1>1, <1>2
        <4> QED BY <1>2, <1>7, <4>1, <4>2 DEF Later
      <3> QED BY <3>1, <3>2
    <2>2. x.table = s.table
      <3>1. \A r : r \in x.table <=> r \in s.table BY <1>4
      <3> QED BY <3>1
    <2>3. x.bufs = s.bufs /\ CopyOf(h, s, x.watermark) = CopyOf(h, x, x.watermark)
      BY <1>3, <2>1, <2>2 DEF CopyOf
    <2>4. Sound(h, x) BY <2>1, <2>3 DEF Since, Sound
    <2>5. CaughtUp(h, x, l)
      <3>1. CASE x.watermark > 0
        <4>1. PICK w \in Nat : w = s.watermark BY <1>2
        <4>2. w <= a /\ Between(h, w, a) = {} BY <2>1, <3>1, <4>1 DEF Since
        <4>3. a \in Nat /\ a <= l OBVIOUS
        <4>4. Between(h, w, l) = Between(h, a, l) BY <4>2, <4>3, BetweenGrows
        <4>5. w <= l BY <4>2, <4>3
        <4> QED BY <1>3, <2>1, <3>1, <4>1, <4>4, <4>5 DEF CaughtUp
      <3>2. CASE ~(x.watermark > 0) BY <1>3, <1>5, <3>2 DEF CaughtUp
      <3> QED BY <3>1, <3>2
    <2> QED BY <1>3, <2>4, <2>5
  <1> QED BY <1>6, <1>7

\* A diff that is cut off from its checkpoint waits, and is applied like a whole one.
LEMMA UpdateSplit ==
  ASSUME NEW h \in Seq(SUBSET Rows), NEW l \in Nat, l = Len(h), NEW a \in 1..l, NEW s \in ClientStates, Since(h, s, a),
         Between(h, a, l) # {}, NEW b \in Chunks, b.check = NoCheck, b.diffs = <<DiffTo(h, a, l)>>,
         NEW c \in Chunks, c.check = l, c.diffs = <<>>, NEW x, x = Received(s, b), NEW y, y = Received(x, c)
  PROVE  /\ x \in ClientStates /\ Sound(h, x)
         /\ y \in ClientStates /\ Sound(h, y) /\ CaughtUp(h, y, l)
  <1>1. PICK d : d = DiffTo(h, a, l) OBVIOUS
  <1>2. d \in Diffs /\ ~d.rebuild BY <1>1, DiffToType
  <1>3. /\ x \in ClientStates /\ x.table = s.table /\ x.watermark = s.watermark /\ x.partial = s.partial
        /\ x.bufs = s.bufs \o <<d>>
    BY <1>1, ReceivedCut
  <1>4. PICK ds : ds = s.bufs \o <<d>> OBVIOUS
  <1>5. s.bufs \in Seq(Diffs) /\ s.watermark \in Nat BY DEF ClientStates
  <1>6. PICK m \in Nat : m = Len(s.bufs) BY <1>5
  <1>7. /\ ds \in Seq(Diffs) /\ Len(ds) = m + 1 /\ DOMAIN ds = 1..(m + 1) /\ DOMAIN s.bufs = 1..m
        /\ ds[m + 1] = d /\ \A i \in 1..m : ds[i] = s.bufs[i]
    BY <1>2, <1>4, <1>5, <1>6, BufsOne
  <1>8. \A i \in DOMAIN ds : (i \in DOMAIN s.bufs /\ ds[i] = s.bufs[i]) \/ ds[i] = d
    <2>1. \A i \in 1..(m + 1) : i \in 1..m \/ i = m + 1 OBVIOUS
    <2> QED BY <1>7, <2>1
  <1>9. ~HasRebuild(ds) BY <1>2, <1>8 DEF HasRebuild, Since, Sound
  <1>10. Sound(h, x)
    <2>1. x.bufs = ds BY <1>3, <1>4
    <2>2. CASE s.watermark > 0
      <3>1. d = DiffTo(h, s.watermark, l) /\ s.watermark <= a BY <1>1, <2>2, SinceCopy
      <3>2. l \in s.watermark..l BY <1>5, <3>1
      <3>3. \A i \in DOMAIN ds : \E t \in s.watermark..l : ds[i] = DiffTo(h, s.watermark, t)
        BY <1>8, <2>2, <3>1, <3>2 DEF Since, Sound
      <3>4. CopyOf(h, x, x.watermark) BY <1>3, <2>2 DEF Since, Sound, CopyOf
      <3> QED BY <1>3, <1>9, <2>1, <3>3, <3>4 DEF Since, Sound
    <2>3. CASE ~(s.watermark > 0) BY <1>3, <1>9, <2>1, <2>3 DEF Since, Sound
    <2> QED BY <2>2, <2>3
  <1>11. PICK e : e = [diffs |-> <<d>>, check |-> l, signal |-> "none"] OBVIOUS
  <1>12. e \in Chunks /\ e.check = l /\ e.diffs = <<DiffTo(h, a, l)>>
    <2>1. <<d>> \in Seq(Diffs) BY <1>2
    <2> QED BY <1>1, <1>11, <2>1 DEF Chunks
  <1>13. PICK z : z = Received(s, e) OBVIOUS
  <1>14. z \in ClientStates /\ Sound(h, z) /\ CaughtUp(h, z, l) BY <1>12, <1>13, UpdateWhole
  <1>15. y = z
    <2>1. PICK st : st = [table |-> s.table, watermark |-> s.watermark] OBVIOUS
    <2>2. st = [table |-> x.table, watermark |-> x.watermark] BY <1>3, <2>1
    <2>3. x.bufs \o c.diffs = ds /\ s.bufs \o e.diffs = ds BY <1>3, <1>4, <1>7, <1>11
    <2>4. c.check # NoCheck /\ e.check # NoCheck /\ c.check = l /\ e.check = l BY <1>11 DEF NoCheck
    <2>5. y = [table |-> writeCsv(st, ds, l).table, watermark |-> writeCsv(st, ds, l).watermark, bufs |-> <<>>,
               partial |-> IF HasRebuild(ds) THEN {} ELSE x.partial]
      <3>1. y = Received(x, c) OBVIOUS
      <3> QED BY ONLY <2>2, <2>3, <2>4, <3>1, Zenon DEF Received
    <2>6. z = [table |-> writeCsv(st, ds, l).table, watermark |-> writeCsv(st, ds, l).watermark, bufs |-> <<>>,
               partial |-> IF HasRebuild(ds) THEN {} ELSE s.partial]
      BY <1>13, <2>1, <2>3, <2>4, Zenon DEF Received
    <2> QED BY <1>3, <2>5, <2>6
  <1> QED BY <1>3, <1>10, <1>14, <1>15
-----------------------------------------------------------------------------
\* The pieces of a first transfer are the table, and the transfer is of Interval rows
\* at a time and a rest.
LEMMA Pieces ==
  ASSUME NEW V \in SUBSET Rows, NEW order \in SetToSeqs(V)
  PROVE  /\ Len(order) \in Nat /\ Len(order) \div Interval \in Nat
         /\ \A j : Piece(order, j) \subseteq V
         /\ \A r \in V : \E j \in 0..(Len(order) \div Interval) : r \in Piece(order, j)
  <1>1. IsFiniteSet(V) BY TailBounds, FS_Subset
  <1>2. PICK c \in Nat : c = Cardinality(V) BY <1>1, FS_CardinalityType
  <1>3. order \in [1..c -> V] /\ \A i, j \in 1..c : i # j => order[i] # order[j] BY <1>2 DEF SetToSeqs
  <1>4. Len(order) = c BY <1>3
  <1>5. order \in Injection(1..c, V) BY <1>3 DEF Injection, IsInjective
  <1>6. Cardinality(1..c) = c
    <2>1. 1 \in Int /\ c \in Int OBVIOUS
    <2>2. Cardinality(1..c) = IF 1 > c THEN 0 ELSE c - 1 + 1 BY <2>1, FS_Interval
    <2> QED BY <2>2
  <1>7. order \in Surjection(1..c, V) BY <1>1, <1>2, <1>5, <1>6, FS_Injection
  <1>8. PICK I \in Nat \ {0} : I = Interval BY TailBounds
  <1>9. c \div I \in Nat OBVIOUS
  <1>10. ASSUME NEW j PROVE Piece(order, j) \subseteq V BY <1>3, <1>4 DEF Piece
  <1>11. ASSUME NEW r \in V PROVE \E j \in 0..(c \div I) : r \in Piece(order, j)
    <2>1. PICK k \in 1..c : order[k] = r BY <1>7 DEF Surjection
    <2>2. PICK m \in Nat : m = k - 1 OBVIOUS
    <2>3. m <= c BY <2>2
    <2>4. m \div I \in Nat /\ m \div I <= c \div I
      <3>1. m \div I \in Nat OBVIOUS
      <3>2. m \div I <= c \div I BY <2>3
      <3> QED BY <3>1, <3>2
    <2>5. PICK j \in Nat : j = m \div I BY <2>4
    <2>6. j \in 0..(c \div I) BY <1>9, <2>4, <2>5
    <2>7. r \in Piece(order, j) BY <1>4, <1>8, <2>1, <2>2, <2>5 DEF Piece
    <2> QED BY <2>6, <2>7
  <1> QED BY <1>4, <1>8, <1>9, <1>10, <1>11

\* The client in the middle of a first transfer.
FirstPart(h, s, order, x, i) ==
  /\ x \in ClientStates /\ x.watermark = 0 /\ x.partial = s.partial /\ x.table \subseteq h[Len(h)] \cup s.partial
  /\ \A j \in 0..(i - 2) : Piece(order, j) \subseteq x.table
  /\ IF i = 1 THEN x = s ELSE x.bufs = <<>>
FirstChunk(order, i) == Chunk(<<Present(Piece(order, i - 1))>>, 0)

\* The diffs that wait, and those of a first transfer, add rows of the table or rows
\* that are known to be left over.
LEMMA FirstFold ==
  ASSUME NEW h \in Seq(SUBSET Rows), h # <<>>, NEW s \in ClientStates, s.watermark = 0, ~HasRebuild(s.bufs), Fresh(s),
         NEW order \in SetToSeqs(h[Len(h)]), NEW i \in Nat \ {0}, NEW x, FirstPart(h, s, order, x, i),
         NEW check \in Nat, NEW y, Folded(y, x, x.bufs, check, Len(x.bufs))
  PROVE  /\ y.table \subseteq h[Len(h)] \cup s.partial /\ ~HasRebuild(x.bufs) /\ ~Passed(x, check)
         /\ \A j \in 0..(i - 2) : Piece(order, j) \subseteq y.table
  <1>1. s.bufs \in Seq(Diffs) /\ s.table \subseteq s.partial /\ \A k \in DOMAIN s.bufs : s.bufs[k].add \subseteq s.partial
    BY DEF ClientStates, Fresh
  <1>2. ~Passed(x, check) BY DEF FirstPart, Passed
  <1>3. CASE i = 1
    <2>1. x = s BY <1>3 DEF FirstPart
    <2>2. \A k \in 1..Len(s.bufs) : s.bufs[k].add \subseteq s.partial BY <1>1
    <2>3. y.table \subseteq s.partial BY <1>1, <2>1, <2>2 DEF Folded
    <2> QED BY <1>2, <1>3, <2>1, <2>3
  <1>4. CASE i # 1
    <2>1. x.bufs = <<>> BY <1>4 DEF FirstPart
    <2>2. Len(x.bufs) = 0 /\ DOMAIN x.bufs = {} BY <2>1
    <2>3. \A k \in 1..Len(x.bufs) : x.bufs[k].add \subseteq {} /\ x.bufs[k].del \subseteq {} BY <2>2
    <2>4. \A r : r \notin {} => (r \in y.table <=> r \in x.table) BY <2>3 DEF Folded
    <2>5. y.table = x.table BY <2>4
    <2>6. ~HasRebuild(x.bufs) BY <2>2 DEF HasRebuild
    <2> QED BY <1>2, <2>5, <2>6 DEF FirstPart
  <1> QED BY <1>3, <1>4

LEMMA PresentDiff ==
  ASSUME NEW P \in SUBSET Rows, NEW check \in Nat, NEW c, c = Chunk(<<Present(P)>>, check)
  PROVE  /\ c \in Chunks /\ c.check = check /\ c.signal = "none" /\ c.diffs = <<Present(P)>> /\ Len(c.diffs) = 1
         /\ Present(P) \in Diffs /\ Present(P).add = P /\ Present(P).del = {} /\ ~Present(P).rebuild
  <1>1. Present(P) \in Diffs /\ Present(P).add = P /\ Present(P).del = {} /\ ~Present(P).rebuild BY DEF Present, Diffs
  <1>2. PICK d : d = Present(P) OBVIOUS
  <1>3. <<d>> \in Seq(Diffs) /\ Len(<<d>>) = 1 BY <1>1, <1>2
  <1> QED BY <1>1, <1>2, <1>3 DEF Chunk, Chunks

LEMMA FirstPartNext ==
  ASSUME NEW h \in Seq(SUBSET Rows), h # <<>>, NEW s \in ClientStates, s.watermark = 0, ~HasRebuild(s.bufs), Fresh(s),
         NEW order \in SetToSeqs(h[Len(h)]), NEW i \in Nat \ {0}, NEW x, FirstPart(h, s, order, x, i),
         NEW z, z = Received(x, FirstChunk(order, i))
  PROVE  FirstPart(h, s, order, z, i + 1)
  <1>1. h[Len(h)] \in SUBSET Rows OBVIOUS
  <1>2. PICK P : P = Piece(order, i - 1) OBVIOUS
  <1>3. P \subseteq h[Len(h)] /\ P \in SUBSET Rows BY <1>1, <1>2, Pieces
  <1>4. PICK c : c = FirstChunk(order, i) OBVIOUS
  <1>5. PICK d : d = Present(P) OBVIOUS
  <1>6. c \in Chunks /\ c.check = 0 /\ c.diffs = <<d>> /\ d \in Diffs /\ d.add = P /\ d.del = {} /\ ~d.rebuild
    BY <1>2, <1>3, <1>4, <1>5, PresentDiff DEF FirstChunk
  <1>7. x \in ClientStates /\ ~HasRebuild(x.bufs) /\ x.watermark = 0 /\ x.partial = s.partial
    <2>1. x \in ClientStates /\ x.watermark = 0 /\ x.partial = s.partial BY DEF FirstPart
    <2>2. x.bufs = <<>> \/ x = s BY DEF FirstPart
    <2>3. ~HasRebuild(<<>>) BY DEF HasRebuild
    <2> QED BY <2>1, <2>2, <2>3
  <1>8. AppliedOne(z, x, d, 0)
    <2>1. z = Received(x, c) /\ c.check \in Nat BY <1>4, <1>6
    <2>2. ~d.rebuild => AppliedOne(z, x, d, c.check) BY <1>6, <1>7, <2>1, ReceivedOne
    <2> QED BY <1>6, <2>2
  <1>9. PICK y : /\ Folded(y, x, x.bufs, 0, Len(x.bufs))
                 /\ z.table = IF Passed(x, 0) THEN y.table ELSE (y.table \ d.del) \cup d.add
    BY <1>8 DEF AppliedOne
  <1>10. /\ y.table \subseteq h[Len(h)] \cup s.partial /\ ~Passed(x, 0)
         /\ \A j \in 0..(i - 2) : Piece(order, j) \subseteq y.table
    <2>1. PICK ck \in Nat : ck = 0 OBVIOUS
    <2>2. Folded(y, x, x.bufs, ck, Len(x.bufs)) BY <1>9, <2>1
    <2>3. /\ y.table \subseteq h[Len(h)] \cup s.partial /\ ~Passed(x, ck)
          /\ \A j \in 0..(i - 2) : Piece(order, j) \subseteq y.table
      BY <2>2, FirstFold
    <2> QED BY <2>1, <2>3
  <1>11. z.table = y.table \cup P BY <1>6, <1>9, <1>10
  <1>12. ASSUME NEW j \in 0..((i + 1) - 2) PROVE Piece(order, j) \subseteq z.table
    <2>1. j \in 0..(i - 2) \/ j = i - 1 OBVIOUS
    <2> QED BY <1>2, <1>10, <1>11, <2>1
  <1>13. z.watermark = 0 BY <1>7, <1>8 DEF AppliedOne, Later
  <1>14. z \in ClientStates /\ z.partial = s.partial /\ z.bufs = <<>> BY <1>7, <1>8 DEF AppliedOne
  <1>15. i + 1 # 1 OBVIOUS
  <1> QED BY <1>3, <1>10, <1>11, <1>12, <1>13, <1>14, <1>15 DEF FirstPart

\* The end of a first transfer: the copy is the version, whether or not a header with
\* rows made the watermark show it.
LEMMA FirstPartLast ==
  ASSUME NEW h \in Seq(SUBSET Rows), h # <<>>, NEW s \in ClientStates, s.watermark = 0, ~HasRebuild(s.bufs), Fresh(s),
         NEW order \in SetToSeqs(h[Len(h)]), NEW n \in Nat, n = Len(order) \div Interval,
         NEW x, FirstPart(h, s, order, x, n + 1), NEW l \in Nat, l = Len(h), NEW rest, rest = Piece(order, n),
         NEW c \in Chunks, c.check = l, c.diffs = IF rest = {} THEN <<>> ELSE <<Present(rest)>>,
         NEW z, z = Received(x, c)
  PROVE  z \in ClientStates /\ Sound(h, z) /\ CaughtUp(h, z, l)
  <1>1. l > 0 /\ h[l] \in SUBSET Rows OBVIOUS
  <1>2. rest \subseteq h[l] /\ rest \in SUBSET Rows BY <1>1, Pieces
  <1>3. n + 1 \in Nat \ {0} /\ (n + 1) - 2 = n - 1 OBVIOUS
  <1>4. x \in ClientStates /\ x.watermark = 0 /\ x.partial = s.partial BY DEF FirstPart
  <1>5. ~HasRebuild(x.bufs)
    <2>1. x.bufs = <<>> \/ x = s BY DEF FirstPart
    <2>2. ~HasRebuild(<<>>) BY DEF HasRebuild
    <2> QED BY <2>1, <2>2
  <1>6. ASSUME NEW y, Folded(y, x, x.bufs, l, Len(x.bufs)), z.table = y.table \cup rest, z.partial = s.partial
        PROVE  CopyOf(h, z, l)
    <2>1. /\ y.table \subseteq h[l] \cup s.partial
          /\ \A j \in 0..(n - 1) : Piece(order, j) \subseteq y.table
      <3>1. PICK i \in Nat \ {0} : i = n + 1 /\ i - 2 = n - 1 BY <1>3
      <3>2. FirstPart(h, s, order, x, i) /\ Folded(y, x, x.bufs, l, Len(x.bufs)) BY <1>6, <3>1
      <3>3. /\ y.table \subseteq h[Len(h)] \cup s.partial
            /\ \A j \in 0..(i - 2) : Piece(order, j) \subseteq y.table
        BY <3>2, FirstFold
      <3> QED BY <3>1, <3>3
    <2>2. ASSUME NEW r \in h[l] PROVE r \in z.table
      <3>1. PICK j \in 0..n : r \in Piece(order, j) BY <1>1, Pieces
      <3>2. j \in 0..(n - 1) \/ j = n OBVIOUS
      <3> QED BY <1>6, <2>1, <3>1, <3>2
    <2> QED BY <1>2, <1>6, <2>1, <2>2 DEF CopyOf
  <1>7. CASE rest = {}
    <2>1. /\ z \in ClientStates /\ z.bufs = <<>> /\ z.partial = x.partial
          /\ Folded(z, x, x.bufs, l, Len(x.bufs))
      <3>1. c.diffs = <<>> /\ c.check \in Nat BY <1>7
      <3>2. /\ z \in ClientStates /\ z.bufs = <<>> /\ z.partial = x.partial
            /\ Folded(z, x, x.bufs, c.check, Len(x.bufs))
        BY <1>4, <1>5, <3>1, ReceivedNone
      <3> QED BY <3>2
    <2>2. CopyOf(h, z, l) BY <1>4, <1>6, <1>7, <2>1
    <2>3. CASE z.watermark = l BY <1>1, <2>1, <2>2, <2>3, LaterWhole
    <2>4. CASE z.watermark # l
      <3>1. z.watermark = 0 BY <1>1, <1>4, <2>1, <2>4 DEF Folded, Later
      <3>2. ~HasRebuild(z.bufs) BY <2>1 DEF HasRebuild
      <3> QED BY <1>1, <2>1, <2>2, <3>1, <3>2 DEF Sound, CaughtUp
    <2> QED BY <2>3, <2>4
  <1>8. CASE rest # {}
    <2>1. PICK d : d = Present(rest) OBVIOUS
    <2>2. d \in Diffs /\ ~d.rebuild /\ d.add = rest /\ d.del = {} BY <1>2, <2>1 DEF Present, Diffs
    <2>3. c.diffs = <<d>> /\ c.check \in Nat BY <1>8, <2>1
    <2>4. AppliedOne(z, x, d, l)
      <3>1. ~d.rebuild => AppliedOne(z, x, d, c.check) BY <1>4, <1>5, <2>2, <2>3, ReceivedOne
      <3> QED BY <2>2, <3>1
    <2>5. ~Passed(x, l) BY <1>4 DEF Passed
    <2>6. PICK y : Folded(y, x, x.bufs, l, Len(x.bufs)) /\ z.table = y.table \cup rest
      BY <2>2, <2>4, <2>5 DEF AppliedOne
    <2>7. z \in ClientStates /\ z.bufs = <<>> /\ z.partial = s.partial BY <1>4, <2>4 DEF AppliedOne
    <2>8. CopyOf(h, z, l) BY <1>6, <2>6, <2>7
    <2>9. z.watermark = l BY <1>1, <1>4, <2>4 DEF AppliedOne, Later
    <2> QED BY <1>1, <2>7, <2>8, <2>9, LaterWhole
  <1> QED BY <1>7, <1>8
-----------------------------------------------------------------------------
\* What will be made of the chunks in flight, when one is received and when more are sent.
LEMMA RunTail ==
  ASSUME NEW h, NEW st, NEW w \in Seq(Chunks), w # <<>>, NEW s, RunFrom(h, st, w, s), NEW x, x = After(s, Head(w))
  PROVE  \E su : RunFrom(h, su, Tail(w), x) /\ su[Len(Tail(w)) + 1] = st[Len(w) + 1] /\ Sound(h, x) /\ x \in ClientStates
  <1>1. PICK l \in Nat : l = Len(w) OBVIOUS
  <1>2. PICK t : t = Tail(w) OBVIOUS
  <1>3. l > 0 /\ l - 1 \in Nat /\ t \in Seq(Chunks) /\ Len(t) = l - 1 /\ Head(w) = w[1] BY <1>1, <1>2
  <1>4. \A n \in 1..(l - 1) : t[n] = w[n + 1] BY <1>1, <1>2, <1>3
  <1>5. PICK su : su = [n \in 1..l |-> st[n + 1]] OBVIOUS
  <1>6. st \in [1..(l + 1) -> ClientStates] /\ (\A n \in 1..l : st[n + 1] = After(st[n], w[n])) /\ st[1] = s
        /\ \A n \in 1..(l + 1) : Sound(h, st[n])
    BY <1>1 DEF RunFrom, Delivered
  <1>7. \A n \in 1..l : n + 1 \in 1..(l + 1) BY <1>3
  <1>8. su \in [1..((l - 1) + 1) -> ClientStates]
    <2>1. (l - 1) + 1 = l BY <1>3
    <2>2. su \in [1..l -> ClientStates] BY <1>5, <1>6, <1>7
    <2> QED BY <2>1, <2>2
  <1>9. ASSUME NEW n \in 1..(l - 1) PROVE su[n + 1] = After(su[n], t[n])
    <2>1. n \in 1..l /\ n + 1 \in 1..l /\ n \in Nat BY <1>3
    <2>2. su[n] = st[n + 1] /\ su[n + 1] = st[(n + 1) + 1] BY <1>5, <2>1
    <2> QED BY <1>4, <1>6, <2>1, <2>2
  <1>10. 1 \in 1..l /\ l \in 1..l BY <1>3
  <1>11. su[1] = x
    <2>1. su[1] = st[1 + 1] BY <1>5, <1>10
    <2> QED BY <1>3, <1>6, <1>10, <2>1
  <1>12. \A n \in 1..((l - 1) + 1) : Sound(h, su[n])
    <2>1. (l - 1) + 1 = l BY <1>3
    <2> QED BY <1>5, <1>6, <1>7, <2>1
  <1>13. su[(l - 1) + 1] = st[l + 1]
    <2>1. (l - 1) + 1 = l BY <1>3
    <2> QED BY <1>5, <1>10, <2>1
  <1>14. RunFrom(h, su, t, x) BY <1>3, <1>8, <1>9, <1>11, <1>12 DEF RunFrom, Delivered
  <1>15. Sound(h, x) /\ x \in ClientStates
    <2>1. 1 \in 1..((l - 1) + 1) BY <1>3
    <2> QED BY <1>8, <1>11, <1>12, <2>1
  <1> QED BY <1>1, <1>2, <1>3, <1>13, <1>14, <1>15

LEMMA RunConcat ==
  ASSUME NEW h, NEW st, NEW w \in Seq(Chunks), NEW s, RunFrom(h, st, w, s),
         NEW su, NEW v \in Seq(Chunks), RunFrom(h, su, v, st[Len(w) + 1])
  PROVE  \E sv : RunFrom(h, sv, w \o v, s) /\ sv[Len(w \o v) + 1] = su[Len(v) + 1]
  <1>1. PICK l \in Nat : l = Len(w) OBVIOUS
  <1>2. PICK m \in Nat : m = Len(v) OBVIOUS
  <1>3. PICK t : t = w \o v OBVIOUS
  <1>4. /\ t \in Seq(Chunks) /\ Len(t) = l + m
        /\ \A n \in 1..(l + m) : t[n] = IF n <= l THEN w[n] ELSE v[n - l]
    BY <1>1, <1>2, <1>3, ConcatProperties
  <1>5. PICK sv : sv = [n \in 1..((l + m) + 1) |-> IF n <= l THEN st[n] ELSE su[n - l]] OBVIOUS
  <1>6. /\ st \in [1..(l + 1) -> ClientStates] /\ (\A n \in 1..l : st[n + 1] = After(st[n], w[n])) /\ st[1] = s
        /\ \A n \in 1..(l + 1) : Sound(h, st[n])
    BY <1>1 DEF RunFrom, Delivered
  <1>7. /\ su \in [1..(m + 1) -> ClientStates] /\ (\A n \in 1..m : su[n + 1] = After(su[n], v[n])) /\ su[1] = st[l + 1]
        /\ \A n \in 1..(m + 1) : Sound(h, su[n])
    BY <1>1, <1>2 DEF RunFrom, Delivered
  <1>8. ASSUME NEW n \in 1..((l + m) + 1)
        PROVE  /\ sv[n] \in ClientStates /\ Sound(h, sv[n])
               /\ n <= l + 1 => sv[n] = st[n]
               /\ n > l => sv[n] = su[n - l]
    <2>1. CASE n <= l
      <3>1. sv[n] = st[n] /\ n \in 1..(l + 1) /\ ~(n > l) BY <1>5, <2>1
      <3> QED BY <1>6, <3>1
    <2>2. CASE n > l
      <3>1. sv[n] = su[n - l] /\ n - l \in 1..(m + 1) BY <1>5, <2>2
      <3>2. n <= l + 1 => n = l + 1 /\ n - l = 1 BY <2>2
      <3> QED BY <1>6, <1>7, <3>1, <3>2
    <2>3. n <= l \/ n > l OBVIOUS
    <2> QED BY <2>1, <2>2, <2>3
  <1>9. ASSUME NEW n \in 1..(l + m) PROVE sv[n + 1] = After(sv[n], t[n])
    <2>1. n \in 1..((l + m) + 1) /\ n + 1 \in 1..((l + m) + 1) OBVIOUS
    <2>2. CASE n <= l
      <3>1. n \in 1..l /\ n + 1 <= l + 1 /\ n <= l + 1 BY <2>2
      <3>2. sv[n] = st[n] /\ sv[n + 1] = st[n + 1] /\ t[n] = w[n] BY <1>4, <1>8, <2>1, <2>2, <3>1
      <3> QED BY <1>6, <3>1, <3>2
    <2>3. CASE n > l
      <3>1. n - l \in 1..m /\ n + 1 > l /\ (n + 1) - l = (n - l) + 1 /\ ~(n <= l) BY <2>3
      <3>2. sv[n] = su[n - l] /\ sv[n + 1] = su[(n - l) + 1] /\ t[n] = v[n - l] BY <1>4, <1>8, <2>1, <2>3, <3>1
      <3> QED BY <1>7, <3>1, <3>2
    <2>4. n <= l \/ n > l OBVIOUS
    <2> QED BY <2>2, <2>3, <2>4
  <1>10. sv \in [1..((l + m) + 1) -> ClientStates] BY <1>5, <1>8
  <1>11. sv[1] = s
    <2>1. 1 \in 1..((l + m) + 1) /\ 1 <= l + 1 OBVIOUS
    <2> QED BY <1>6, <1>8, <2>1
  <1>12. sv[(l + m) + 1] = su[m + 1]
    <2>1. (l + m) + 1 \in 1..((l + m) + 1) /\ (l + m) + 1 > l /\ ((l + m) + 1) - l = m + 1 OBVIOUS
    <2> QED BY <1>8, <2>1
  <1>13. RunFrom(h, sv, t, s) BY <1>4, <1>8, <1>9, <1>10, <1>11 DEF RunFrom, Delivered
  <1> QED BY <1>2, <1>3, <1>4, <1>12, <1>13

LEMMA RunNone ==
  ASSUME NEW h, NEW s \in ClientStates, Sound(h, s)
  PROVE  \E st : RunFrom(h, st, <<>>, s) /\ st[Len(<<>>) + 1] = s
  <1>1. PICK st : st = [n \in 1..1 |-> s] OBVIOUS
  <1>2. Len(<<>>) = 0 /\ 1..0 = {} /\ 1..(0 + 1) = 1..1 OBVIOUS
  <1>3. st \in [1..1 -> ClientStates] /\ st[1] = s /\ \A n \in 1..1 : st[n] = s BY <1>1
  <1>4. RunFrom(h, st, <<>>, s) BY <1>2, <1>3 DEF RunFrom, Delivered
  <1> QED BY <1>2, <1>3, <1>4

LEMMA RunOne ==
  ASSUME NEW h, NEW s \in ClientStates, Sound(h, s), NEW c \in Chunks, NEW x \in ClientStates, x = After(s, c), Sound(h, x)
  PROVE  <<c>> \in Seq(Chunks) /\ \E st : RunFrom(h, st, <<c>>, s) /\ st[Len(<<c>>) + 1] = x
  <1>1. PICK st : st = [n \in 1..2 |-> IF n = 1 THEN s ELSE x] OBVIOUS
  <1>2. PICK w : w = <<c>> OBVIOUS
  <1>3. w \in Seq(Chunks) /\ Len(w) = 1 /\ w[1] = c BY <1>2
  <1>4. 1..(1 + 1) = 1..2 /\ 1 + 1 = 2 OBVIOUS
  <1>5. st \in [1..2 -> ClientStates] /\ st[1] = s /\ st[2] = x /\ \A n \in 1..2 : st[n] = s \/ st[n] = x BY <1>1
  <1>6. \A n \in 1..1 : st[n + 1] = After(st[n], w[n])
    <2>1. \A n \in 1..1 : n = 1 OBVIOUS
    <2> QED BY <1>3, <1>4, <1>5, <2>1
  <1>7. RunFrom(h, st, w, s) BY <1>3, <1>4, <1>5, <1>6 DEF RunFrom, Delivered
  <1> QED BY <1>2, <1>3, <1>4, <1>5, <1>7
-----------------------------------------------------------------------------
\* What a round of the tail process sends, from the client it is for to the one it makes.
ShortDiffs(w) == \A n \in 1..Len(w) : Len(w[n].diffs) <= 1
Sends(h, s, w) == w \in Seq(Chunks) /\ ShortDiffs(w) /\ \E su : RunFrom(h, su, w, s)
SendsUpTo(h, s, w) ==
  w \in Seq(Chunks) /\ ShortDiffs(w) /\ \E su : RunFrom(h, su, w, s) /\ CaughtUp(h, su[Len(w) + 1], Len(h))

LEMMA ShortConcat ==
  ASSUME NEW w \in Seq(Chunks), NEW v \in Seq(Chunks), ShortDiffs(w), ShortDiffs(v)
  PROVE  w \o v \in Seq(Chunks) /\ ShortDiffs(w \o v)
  <1>1. PICK l \in Nat : l = Len(w) OBVIOUS
  <1>2. PICK m \in Nat : m = Len(v) OBVIOUS
  <1>3. PICK t : t = w \o v OBVIOUS
  <1>4. /\ t \in Seq(Chunks) /\ Len(t) = l + m
        /\ \A n \in 1..(l + m) : t[n] = IF n <= l THEN w[n] ELSE v[n - l]
    BY <1>1, <1>2, <1>3, ConcatProperties
  <1>5. ASSUME NEW n \in 1..(l + m) PROVE Len(t[n].diffs) <= 1
    <2>1. CASE n <= l
      <3>1. n \in 1..l /\ t[n] = w[n] BY <1>4, <2>1
      <3> QED BY <1>1, <3>1 DEF ShortDiffs
    <2>2. CASE ~(n <= l)
      <3>1. n - l \in 1..m /\ t[n] = v[n - l] BY <1>4, <2>2
      <3> QED BY <1>2, <3>1 DEF ShortDiffs
    <2> QED BY <2>1, <2>2
  <1> QED BY <1>3, <1>4, <1>5 DEF ShortDiffs

LEMMA ShortOne ==
  ASSUME NEW c \in Chunks, Len(c.diffs) <= 1
  PROVE  <<c>> \in Seq(Chunks) /\ Len(<<c>>) = 1 /\ ShortDiffs(<<c>>)
  <1>1. PICK w : w = <<c>> OBVIOUS
  <1>2. w \in Seq(Chunks) /\ Len(w) = 1 /\ w[1] = c BY <1>1
  <1>3. \A n \in 1..1 : n = 1 OBVIOUS
  <1> QED BY <1>1, <1>2, <1>3 DEF ShortDiffs

\* One more chunk.
LEMMA RunMore ==
  ASSUME NEW h, NEW s, NEW w \in Seq(Chunks), NEW st, RunFrom(h, st, w, s), NEW x, x = st[Len(w) + 1],
         NEW c \in Chunks, NEW y \in ClientStates, y = After(x, c), Sound(h, y)
  PROVE  \E sv : RunFrom(h, sv, w \o <<c>>, s) /\ sv[Len(w \o <<c>>) + 1] = y
  <1>1. PICK l \in Nat : l = Len(w) OBVIOUS
  <1>2. l + 1 \in 1..(l + 1) OBVIOUS
  <1>3. x \in ClientStates /\ Sound(h, x) BY <1>1, <1>2 DEF RunFrom, Delivered
  <1>4. PICK v : v = <<c>> OBVIOUS
  <1>5. v \in Seq(Chunks) /\ \E su : RunFrom(h, su, v, x) /\ su[Len(v) + 1] = y BY <1>3, <1>4, RunOne
  <1>6. PICK su : RunFrom(h, su, v, x) /\ su[Len(v) + 1] = y BY <1>5
  <1>7. \E sv : RunFrom(h, sv, w \o v, s) /\ sv[Len(w \o v) + 1] = su[Len(v) + 1] BY <1>5, <1>6, RunConcat
  <1> QED BY <1>4, <1>6, <1>7

LEMMA FirstPartSound ==
  ASSUME NEW h \in Seq(SUBSET Rows), NEW s \in ClientStates, ~HasRebuild(s.bufs), NEW order, NEW x, NEW i,
         FirstPart(h, s, order, x, i)
  PROVE  x \in ClientStates /\ Sound(h, x)
  <1>1. ~HasRebuild(<<>>) BY DEF HasRebuild
  <1>2. x.watermark = 0 /\ ~HasRebuild(x.bufs) /\ x \in ClientStates BY <1>1 DEF FirstPart
  <1>3. Len(h) \in Nat OBVIOUS
  <1> QED BY <1>2, <1>3 DEF Sound

LEMMA FirstRun ==
  ASSUME NEW h \in Seq(SUBSET Rows), h # <<>>, NEW s \in ClientStates, s.watermark = 0, ~HasRebuild(s.bufs), Fresh(s),
         NEW order \in SetToSeqs(h[Len(h)]), NEW m \in Nat, NEW w, w = [i \in 1..m |-> FirstChunk(order, i)]
  PROVE  w \in Seq(Chunks) /\ ShortDiffs(w) /\ \E st : RunFrom(h, st, w, s) /\ FirstPart(h, s, order, st[m + 1], m + 1)
  <1>0. ASSUME NEW i \in Nat
        PROVE  FirstChunk(order, i) \in Chunks /\ FirstChunk(order, i).signal = "none" /\ Len(FirstChunk(order, i).diffs) <= 1
    <2>1. h[Len(h)] \in SUBSET Rows OBVIOUS
    <2>2. PICK P : P = Piece(order, i - 1) OBVIOUS
    <2>3. P \in SUBSET Rows BY <2>1, <2>2, Pieces
    <2>4. PICK z \in Nat : z = 0 OBVIOUS
    <2>5. PICK c : c = Chunk(<<Present(P)>>, z) OBVIOUS
    <2>6. c \in Chunks /\ c.signal = "none" /\ Len(c.diffs) = 1 BY <2>3, <2>5, PresentDiff
    <2>7. FirstChunk(order, i) = c BY <2>2, <2>4, <2>5 DEF FirstChunk
    <2>8. 1 <= 1 OBVIOUS
    <2> QED BY <2>6, <2>7, <2>8
  <1> DEFINE Pre(k) == [i \in 1..k |-> FirstChunk(order, i)]
  <1> DEFINE Ok(v, k) == /\ v \in Seq(Chunks) /\ ShortDiffs(v)
                         /\ \E st : RunFrom(h, st, v, s) /\ FirstPart(h, s, order, st[k + 1], k + 1)
  <1> DEFINE S == {k \in Nat : Ok(Pre(k), k)}
  <1>1. 0 \in S
    <2>1. Pre(0) = <<>> OBVIOUS
    <2>2. <<>> \in Seq(Chunks) /\ Len(<<>>) = 0 /\ ShortDiffs(<<>>) BY DEF ShortDiffs
    <2>3. FirstPart(h, s, order, s, 1)
      <3>1. 0..(1 - 2) = {} OBVIOUS
      <3> QED BY <3>1 DEF FirstPart, Fresh
    <2>4. Sound(h, s) BY <2>3, FirstPartSound
    <2>5. PICK st : RunFrom(h, st, <<>>, s) /\ st[Len(<<>>) + 1] = s BY <2>4, RunNone
    <2>6. FirstPart(h, s, order, st[0 + 1], 0 + 1) BY <2>2, <2>3, <2>5
    <2>7. Ok(<<>>, 0) BY <2>2, <2>5, <2>6
    <2> QED BY <2>1, <2>7
  <1>2. ASSUME NEW k \in Nat, k \in S PROVE k + 1 \in S
    <2>1. PICK v : v = Pre(k) OBVIOUS
    <2>2. Ok(v, k) BY <1>2, <2>1
    <2>3. Len(v) = k BY <2>1
    <2>4. PICK st : RunFrom(h, st, v, s) /\ FirstPart(h, s, order, st[k + 1], k + 1) BY <2>2
    <2>5. PICK x : x = st[k + 1] OBVIOUS
    <2>6. PICK j \in Nat \ {0} : j = k + 1 OBVIOUS
    <2>7. PICK c : c = FirstChunk(order, j) OBVIOUS
    <2>8. c \in Chunks /\ c.signal = "none" /\ Len(c.diffs) <= 1 BY <1>0, <2>7
    <2>9. PICK y : y = Received(x, c) OBVIOUS
    <2>10. FirstPart(h, s, order, y, j + 1) BY <2>4, <2>5, <2>6, <2>7, <2>9, FirstPartNext
    <2>11. y \in ClientStates /\ Sound(h, y) BY <2>10, FirstPartSound
    <2>12. y = After(x, c) BY <2>8, <2>9 DEF After
    <2>13. v \in Seq(Chunks) /\ ShortDiffs(v) /\ x = st[Len(v) + 1] BY <2>2, <2>3, <2>5
    <2>14. PICK sv : RunFrom(h, sv, v \o <<c>>, s) /\ sv[Len(v \o <<c>>) + 1] = y
      <3> HIDE DEF S, Ok, Pre
      <3>1. RunFrom(h, st, v, s) BY <2>4
      <3>2. v \in Seq(Chunks) /\ x = st[Len(v) + 1] BY <2>13
      <3>3. c \in Chunks /\ y \in ClientStates BY <2>8, <2>11
      <3>4. Sound(h, y) BY <2>11
      <3> QED BY ONLY <2>12, <3>1, <3>2, <3>3, <3>4, RunMore
    <2>15. Pre(j) = v \o <<c>>
      <3>1. PICK a : a = v \o <<c>> OBVIOUS
      <3>2. a \in Seq(Chunks) /\ a = Append(v, c) BY <2>8, <2>13, <3>1
      <3>3. Len(a) = j BY <2>3, <2>6, <2>13, <3>2
      <3>4. \A i \in 1..j : a[i] = FirstChunk(order, i)
        <4>1. \A i \in 1..j : i \in 1..k \/ i = j BY <2>6
        <4>2. \A i \in 1..k : a[i] = v[i] BY <2>3, <2>13, <3>2
        <4>3. a[j] = c BY <2>3, <2>6, <2>13, <3>2
        <4>4. \A i \in 1..k : v[i] = FirstChunk(order, i) BY <2>1
        <4> QED BY <2>7, <4>1, <4>2, <4>3, <4>4
      <3>5. a = [i \in 1..j |-> a[i]]
        <4>1. a \in [1..Len(a) -> Chunks] BY <3>2, LenProperties
        <4> QED BY <3>3, <4>1
      <3> QED BY <3>1, <3>4, <3>5
    <2>16. Len(v \o <<c>>) = j BY <2>15
    <2>17. v \o <<c>> \in Seq(Chunks) /\ ShortDiffs(v \o <<c>>)
      <3> HIDE DEF S, Ok, Pre
      <3>1. <<c>> \in Seq(Chunks) /\ ShortDiffs(<<c>>) BY <2>8, ShortOne
      <3> QED BY <2>13, <3>1, ShortConcat
    <2>18. FirstPart(h, s, order, sv[j + 1], j + 1) BY <2>10, <2>14, <2>16
    <2>19. Ok(v \o <<c>>, j) BY <2>14, <2>17, <2>18
    <2> QED BY <2>6, <2>15, <2>19
  <1> HIDE DEF S
  <1>3. Nat \subseteq S BY <1>1, <1>2, SetInduction
  <1>4. m \in S BY <1>3
  <1>5. Ok(Pre(m), m) BY <1>4 DEF S
  <1> QED BY <1>5

\* A first transfer brings a client without a watermark to the last version.
LEMMA FirstSend ==
  ASSUME NEW h \in Seq(SUBSET Rows), h # <<>>, h = hist, NEW s \in ClientStates, s.watermark = 0,
         ~HasRebuild(s.bufs), Fresh(s), NEW order \in SetToSeqs(h[Len(h)]), NEW out, out = FirstTransfer(order)
  PROVE  SendsUpTo(h, s, out)
  <1>1. h[Len(h)] \in SUBSET Rows OBVIOUS
  <1>2. PICK l \in Nat : l = Len(h) OBVIOUS
  <1>3. PICK n \in Nat : n = Len(order) \div Interval BY <1>1, Pieces
  <1>4. PICK w : w = [i \in 1..n |-> FirstChunk(order, i)] OBVIOUS
  <1>5. w \in Seq(Chunks) /\ ShortDiffs(w) /\ \E st : RunFrom(h, st, w, s) /\ FirstPart(h, s, order, st[n + 1], n + 1)
    BY <1>4, FirstRun
  <1>6. PICK st : RunFrom(h, st, w, s) /\ FirstPart(h, s, order, st[n + 1], n + 1) BY <1>5
  <1>7. PICK x : x = st[n + 1] OBVIOUS
  <1>8. PICK rest : rest = Piece(order, n) OBVIOUS
  <1>9. PICK c : c = Chunk(IF rest = {} THEN <<>> ELSE <<Present(rest)>>, l) OBVIOUS
  <1>10. /\ c \in Chunks /\ c.check = l /\ c.signal = "none" /\ Len(c.diffs) <= 1
         /\ c.diffs = IF rest = {} THEN <<>> ELSE <<Present(rest)>>
    <2>1. rest \in SUBSET Rows BY <1>1, <1>8, Pieces
    <2>2. CASE rest = {}
      <3>1. c = [diffs |-> <<>>, check |-> l, signal |-> "none"] BY <1>9, <2>2 DEF Chunk
      <3>2. <<>> \in Seq(Diffs) /\ Len(<<>>) <= 1 OBVIOUS
      <3> QED BY <2>2, <3>1, <3>2 DEF Chunks
    <2>3. CASE rest # {}
      <3>1. c = Chunk(<<Present(rest)>>, l) BY <1>9, <2>3
      <3>2. c \in Chunks /\ c.check = l /\ c.signal = "none" /\ c.diffs = <<Present(rest)>> /\ Len(c.diffs) = 1
        BY <2>1, <3>1, PresentDiff
      <3>3. 1 <= 1 OBVIOUS
      <3> QED BY <2>3, <3>2, <3>3
    <2> QED BY <2>2, <2>3
  <1>11. PICK y : y = Received(x, c) OBVIOUS
  <1>12. y \in ClientStates /\ Sound(h, y) /\ CaughtUp(h, y, l)
    <2>1. FirstPart(h, s, order, x, n + 1) BY <1>6, <1>7
    <2>2. c \in Chunks /\ c.check = l BY <1>10
    <2>3. c.diffs = IF rest = {} THEN <<>> ELSE <<Present(rest)>> BY <1>10
    <2> QED BY <1>2, <1>3, <1>8, <1>11, <2>1, <2>2, <2>3, FirstPartLast
  <1>13. y = After(x, c) BY <1>10, <1>11 DEF After
  <1>14. Len(w) = n BY <1>4
  <1>15. PICK sv : RunFrom(h, sv, w \o <<c>>, s) /\ sv[Len(w \o <<c>>) + 1] = y
    <2>1. RunFrom(h, st, w, s) BY <1>6
    <2>2. w \in Seq(Chunks) /\ x = st[Len(w) + 1] BY <1>5, <1>7, <1>14
    <2>3. c \in Chunks /\ y \in ClientStates BY <1>10, <1>12
    <2>4. Sound(h, y) BY <1>12
    <2> QED BY ONLY <1>13, <2>1, <2>2, <2>3, <2>4, RunMore
  <1>16. w \o <<c>> \in Seq(Chunks) /\ ShortDiffs(w \o <<c>>)
    <2>1. <<c>> \in Seq(Chunks) /\ ShortDiffs(<<c>>) BY <1>10, ShortOne
    <2> QED BY <1>5, <2>1, ShortConcat
  <1>17. out = w \o <<c>>
    <2>1. out = Append([i \in 1..n |-> Chunk(<<Present(Piece(order, i - 1))>>, 0)], c)
      BY <1>2, <1>3, <1>8, <1>9 DEF FirstTransfer, Tick
    <2>2. out = Append(w, c) BY <1>4, <2>1 DEF FirstChunk
    <2> QED BY <1>5, <1>10, <2>2
  <1> QED BY <1>2, <1>12, <1>15, <1>16, <1>17 DEF SendsUpTo

\* An update brings a client that stands at its since to the last version.
LEMMA UpdateSend ==
  ASSUME NEW h \in Seq(SUBSET Rows), h = hist, NEW l \in Nat, l = Len(h), NEW a \in 1..l, NEW s \in ClientStates, Since(h, s, a),
         NEW out \in Update(Changed(a))
  PROVE  SendsUpTo(h, s, out)
  <1>1. PICK B : B = Between(h, a, l) OBVIOUS
  <1>2. Changed(a) = B /\ Tick = l /\ Server = h[l] BY <1>1 DEF Changed, Tick, Server
  <1>3. PICK d : d = DiffTo(h, a, l) OBVIOUS
  <1>4. d \in Diffs BY <1>3, DiffToType
  <1>5. Diff(Changed(a)) = d BY <1>1, <1>2, <1>3 DEF Diff, DiffTo
  <1>6. PICK e : e = Chunk(<<>>, l) OBVIOUS
  <1>7. e \in Chunks /\ e.check = l /\ e.diffs = <<>> /\ e.signal = "none" /\ Len(e.diffs) <= 1
    <2>1. <<>> \in Seq(Diffs) /\ Len(<<>>) <= 1 OBVIOUS
    <2> QED BY <1>6, <2>1 DEF Chunk, Chunks
  <1>8. Sound(h, s) BY DEF Since
  <1>9. <<e>> \in Seq(Chunks) /\ ShortDiffs(<<e>>) BY <1>7, ShortOne
  <1>10. CASE B = {}
    <2>1. out = <<e>> BY <1>2, <1>6, <1>10 DEF Update
    <2>2. PICK x : x = Received(s, e) OBVIOUS
    <2>3. x \in ClientStates /\ Sound(h, x) /\ CaughtUp(h, x, l) BY <1>1, <1>7, <1>10, <2>2, UpdateNothing
    <2>4. x = After(s, e) BY <1>7, <2>2 DEF After
    <2>5. PICK st : RunFrom(h, st, <<e>>, s) /\ st[Len(<<e>>) + 1] = x BY <1>7, <1>8, <2>3, <2>4, RunOne
    <2> QED BY <1>9, <2>1, <2>3, <2>5 DEF SendsUpTo
  <1>11. CASE B # {}
    <2>1. <<d>> \in Seq(Diffs) /\ Len(<<d>>) <= 1 BY <1>4
    <2>2. CASE out = <<Chunk(<<Diff(Changed(a))>>, Tick)>>
      <3>1. PICK c : c = Chunk(<<d>>, l) OBVIOUS
      <3>2. out = <<c>> BY <1>2, <1>5, <2>2, <3>1
      <3>3. c \in Chunks /\ c.check = l /\ c.diffs = <<d>> /\ c.signal = "none" /\ Len(c.diffs) <= 1
        BY <2>1, <3>1 DEF Chunk, Chunks
      <3>4. PICK x : x = Received(s, c) OBVIOUS
      <3>5. x \in ClientStates /\ Sound(h, x) /\ CaughtUp(h, x, l) BY <1>1, <1>3, <1>11, <3>3, <3>4, UpdateWhole
      <3>6. x = After(s, c) BY <3>3, <3>4 DEF After
      <3>7. PICK st : RunFrom(h, st, <<c>>, s) /\ st[Len(<<c>>) + 1] = x BY <1>8, <3>3, <3>5, <3>6, RunOne
      <3>8. <<c>> \in Seq(Chunks) /\ ShortDiffs(<<c>>) BY <3>3, ShortOne
      <3> QED BY <3>2, <3>5, <3>7, <3>8 DEF SendsUpTo
    <2>3. CASE out = <<Chunk(<<Diff(Changed(a))>>, NoCheck), Chunk(<<>>, Tick)>>
      <3>1. PICK b : b = Chunk(<<d>>, NoCheck) OBVIOUS
      <3>2. out = <<b, e>> BY <1>2, <1>5, <1>6, <2>3, <3>1
      <3>3. b \in Chunks /\ b.check = NoCheck /\ b.diffs = <<d>> /\ b.signal = "none" /\ Len(b.diffs) <= 1
        BY <2>1, <3>1 DEF Chunk, Chunks
      <3>4. PICK x : x = Received(s, b) OBVIOUS
      <3>5. PICK y : y = Received(x, e) OBVIOUS
      <3>6. x \in ClientStates /\ Sound(h, x) /\ y \in ClientStates /\ Sound(h, y) /\ CaughtUp(h, y, l)
        BY <1>1, <1>3, <1>7, <1>11, <3>3, <3>4, <3>5, UpdateSplit
      <3>7. x = After(s, b) /\ y = After(x, e) BY <1>7, <3>3, <3>4, <3>5 DEF After
      <3>8. PICK st : RunFrom(h, st, <<b>>, s) /\ st[Len(<<b>>) + 1] = x BY <1>8, <3>3, <3>6, <3>7, RunOne
      <3>9. <<b>> \in Seq(Chunks) /\ ShortDiffs(<<b>>) BY <3>3, ShortOne
      <3>10. PICK v : v = <<b>> OBVIOUS
      <3>11. PICK sv : RunFrom(h, sv, v \o <<e>>, s) /\ sv[Len(v \o <<e>>) + 1] = y
        <4>1. RunFrom(h, st, v, s) /\ x = st[Len(v) + 1] /\ v \in Seq(Chunks) BY <3>8, <3>9, <3>10
        <4>2. e \in Chunks /\ y \in ClientStates /\ Sound(h, y) BY <1>7, <3>6
        <4>3. y = After(x, e) BY <3>7
        <4> QED BY ONLY <4>1, <4>2, <4>3, RunMore
      <3>12. v \o <<e>> \in Seq(Chunks) /\ ShortDiffs(v \o <<e>>) BY <1>9, <3>9, <3>10, ShortConcat
      <3>13. out = v \o <<e>> BY <3>2, <3>10
      <3> QED BY <3>6, <3>11, <3>12, <3>13 DEF SendsUpTo
    <2> QED BY <1>2, <1>11, <2>2, <2>3 DEF Update
  <1> QED BY <1>10, <1>11

\* A signal leaves the client as it is, a rebuild empties it: nothing has to follow.
LEMMA LastSend ==
  ASSUME NEW h \in Seq(SUBSET Rows), h # <<>>, NEW s \in ClientStates, Sound(h, s), NEW l \in Nat, l = Len(h),
         NEW out \in {<<Signal("reboot"), Signal("eof")>>, <<Chunk(<<Rebuild>>, l), Signal("eof")>>}
  PROVE  Sends(h, s, out)
  <1>1. PICK z \in Nat : z = 0 OBVIOUS
  <1>2. PICK e : e = Signal("eof") OBVIOUS
  <1>3. PICK b : out = <<b, e>> /\ (b = Signal("reboot") \/ b = Chunk(<<Rebuild>>, l)) BY <1>2
  <1>4. <<>> \in Seq(Diffs) /\ Len(<<>>) <= 1 OBVIOUS
  <1>5. e \in Chunks /\ Len(e.diffs) <= 1 /\ e.signal = "eof" BY <1>1, <1>2, <1>4 DEF Signal, Chunks
  <1>6. b \in Chunks /\ Len(b.diffs) <= 1 /\ \E x \in ClientStates : x = After(s, b) /\ Sound(h, x)
    <2>1. CASE b = Signal("reboot")
      <3>1. b \in Chunks /\ Len(b.diffs) <= 1 /\ b.signal = "reboot" BY <1>1, <1>4, <2>1 DEF Signal, Chunks
      <3>2. s = After(s, b) BY <3>1 DEF After
      <3> QED BY <3>1, <3>2
    <2>2. CASE b = Chunk(<<Rebuild>>, l)
      <3>1. PICK d : d = Rebuild OBVIOUS
      <3>2. d \in Diffs /\ d.rebuild BY <3>1 DEF Rebuild, Diffs
      <3>3. <<d>> \in Seq(Diffs) /\ Len(<<d>>) <= 1 BY <3>2
      <3>4. b \in Chunks /\ Len(b.diffs) <= 1 /\ b.signal = "none" /\ b.check \in Nat /\ b.diffs = <<d>>
        BY <2>2, <3>1, <3>3 DEF Chunk, Chunks
      <3>5. PICK x : x = Received(s, b) OBVIOUS
      <3>6. ~HasRebuild(s.bufs) BY DEF Sound
      <3>7. x = [table |-> {}, watermark |-> 0, bufs |-> <<>>, partial |-> {}] /\ x \in ClientStates
        BY <3>2, <3>4, <3>5, <3>6, ReceivedOne
      <3>8. x.watermark = 0 /\ ~HasRebuild(x.bufs) /\ 0 <= l BY <3>7 DEF HasRebuild
      <3>9. Sound(h, x) BY <3>8 DEF Sound
      <3>10. x = After(s, b) BY <3>4, <3>5 DEF After
      <3> QED BY <3>4, <3>7, <3>9, <3>10
    <2> QED BY <1>3, <2>1, <2>2
  <1>7. PICK x \in ClientStates : x = After(s, b) /\ Sound(h, x) BY <1>6
  <1>8. x = After(x, e) BY <1>5 DEF After
  <1>9. PICK v : v = <<b>> OBVIOUS
  <1>10. PICK st : RunFrom(h, st, v, s) /\ st[Len(v) + 1] = x BY <1>6, <1>7, <1>9, RunOne
  <1>11. v \in Seq(Chunks) /\ ShortDiffs(v) BY <1>6, <1>9, ShortOne
  <1>12. PICK sv : RunFrom(h, sv, v \o <<e>>, s)
    <2>1. RunFrom(h, st, v, s) /\ x = st[Len(v) + 1] /\ v \in Seq(Chunks) BY <1>10, <1>11
    <2>2. e \in Chunks /\ x \in ClientStates /\ Sound(h, x) BY <1>5, <1>7
    <2> QED BY ONLY <1>8, <2>1, <2>2, RunMore
  <1>13. <<e>> \in Seq(Chunks) /\ ShortDiffs(<<e>>) BY <1>5, ShortOne
  <1>14. v \o <<e>> \in Seq(Chunks) /\ ShortDiffs(v \o <<e>>) BY <1>11, <1>13, ShortConcat
  <1>15. out = v \o <<e>> BY <1>3, <1>9
  <1> QED BY <1>12, <1>14, <1>15 DEF Sends
-----------------------------------------------------------------------------
\* A new version leaves what stands for an earlier one alone.
LEMMA HistoryGrows ==
  ASSUME NEW h \in Seq(SUBSET Rows), NEW R \in SUBSET Rows, NEW g, g = Append(h, R), NEW s \in ClientStates
  PROVE  /\ Sound(h, s) => Sound(g, s)
         /\ \A t \in 1..Len(h) : CaughtUp(h, s, t) => CaughtUp(g, s, t)
         /\ g \in Seq(SUBSET Rows) /\ Len(g) = Len(h) + 1
  <1>1. PICK l \in Nat : l = Len(h) OBVIOUS
  <1>2. g \in Seq(SUBSET Rows) /\ Len(g) = l + 1 /\ \A t \in 1..l : g[t] = h[t] BY <1>1
  <1>3. PICK w \in Nat : w = s.watermark BY DEF ClientStates
  <1>4. \A t \in 1..l : Between(g, w, t) = Between(h, w, t)
    <2>1. \A t \in 1..l : g[t] = h[t] BY <1>2
    <2>2. w \in Nat /\ l \in Nat OBVIOUS
    <2> QED BY ONLY <2>1, <2>2, BetweenAllKept
  <1>5. \A t \in 1..l : CopyOf(g, s, t) <=> CopyOf(h, s, t) BY <1>2 DEF CopyOf
  <1>6. \A t \in 1..l : DiffTo(g, w, t) = DiffTo(h, w, t) BY <1>2, <1>4 DEF DiffTo
  <1>7. ASSUME Sound(h, s) PROVE Sound(g, s)
    <2>1. w <= l + 1 /\ ~HasRebuild(s.bufs) BY <1>1, <1>3, <1>7 DEF Sound
    <2>2. ASSUME w > 0
          PROVE  /\ CopyOf(g, s, w)
                 /\ \A i \in DOMAIN s.bufs : \E t \in w..(l + 1) : s.bufs[i] = DiffTo(g, w, t)
      <3>1. w \in 1..l BY <1>1, <1>3, <1>7, <2>2 DEF Sound
      <3>2. CopyOf(g, s, w) BY <1>3, <1>5, <1>7, <2>2, <3>1 DEF Sound
      <3>3. ASSUME NEW i \in DOMAIN s.bufs PROVE \E t \in w..(l + 1) : s.bufs[i] = DiffTo(g, w, t)
        <4>1. PICK t \in w..l : s.bufs[i] = DiffTo(h, w, t) BY <1>1, <1>3, <1>7, <2>2 DEF Sound
        <4>2. t \in 1..l /\ t \in w..(l + 1) BY <2>2
        <4> QED BY <1>6, <4>1, <4>2
      <3> QED BY <3>2, <3>3
    <2> QED BY <1>2, <1>3, <2>1, <2>2 DEF Sound
  <1>8. ASSUME NEW t \in 1..l, CaughtUp(h, s, t) PROVE CaughtUp(g, s, t)
    BY <1>3, <1>4, <1>5, <1>8 DEF CaughtUp
  <1> QED BY <1>1, <1>2, <1>7, <1>8

LEMMA RunKept ==
  ASSUME NEW h \in Seq(SUBSET Rows), NEW R \in SUBSET Rows, NEW g, g = Append(h, R),
         NEW st, NEW w \in Seq(Chunks), NEW s, RunFrom(h, st, w, s)
  PROVE  RunFrom(g, st, w, s)
  <1>1. Delivered(st, w) /\ st[1] = s /\ \A n \in 1..(Len(w) + 1) : Sound(h, st[n]) /\ st[n] \in ClientStates
    BY DEF RunFrom, Delivered
  <1>2. \A n \in 1..(Len(w) + 1) : Sound(g, st[n]) BY <1>1, HistoryGrows
  <1> QED BY <1>1, <1>2 DEF RunFrom

LEMMA RunEnds ==
  ASSUME NEW h, NEW st, NEW w \in Seq(Chunks), NEW s, RunFrom(h, st, w, s)
  PROVE  /\ s \in ClientStates /\ Sound(h, s)
         /\ st[Len(w) + 1] \in ClientStates /\ Sound(h, st[Len(w) + 1])
  <1>1. 1 \in 1..(Len(w) + 1) /\ Len(w) + 1 \in 1..(Len(w) + 1) OBVIOUS
  <1> QED BY <1>1 DEF RunFrom, Delivered

LEMMA InitInv ==
  ASSUME Init
  PROVE  TailInv
  <1>1. PICK rows \in SUBSET Rows : hist = <<rows>> BY DEF Init
  <1>2. hist \in Seq(SUBSET Rows) /\ hist # <<>> /\ Len(hist) = 1 BY <1>1
  <1>3. PICK s : s = Client OBVIOUS
  <1>4. s = [table |-> {}, watermark |-> 0, bufs |-> <<>>, partial |-> {}] BY <1>3 DEF Init, Client
  <1>5. s \in ClientStates
    <2>1. <<>> \in Seq(Diffs) OBVIOUS
    <2> QED BY <1>4, <2>1 DEF ClientStates
  <1>6. Sound(hist, s) /\ Fresh(s) BY <1>2, <1>4 DEF Sound, HasRebuild, Fresh
  <1>7. PICK st : RunFrom(hist, st, <<>>, s) BY <1>5, <1>6, RunNone
  <1>8. wire = <<>> /\ tailMark = None /\ asked = 0 /\ attached = TRUE /\ rebooted = FALSE /\ watermark = 0 BY DEF Init
  <1>9. wire \in Seq(Chunks) /\ Len(wire) = 0 /\ 1..0 = {} BY <1>8
  <1>10. Told BY <1>3, <1>7, <1>8 DEF Told
  <1>11. asked \in Nat \cup {None} /\ tailMark \in {None} \cup 1..Len(hist) BY <1>8
  <1> QED BY <1>2, <1>3, <1>6, <1>8, <1>9, <1>10, <1>11 DEF TailInv

LEMMA WriteInv ==
  ASSUME TailInv, Write
  PROVE  TailInv'
  <1>1. PICK R : R \in SUBSET Rows /\ hist' = Append(hist, R)
    <2>1. hist \in Seq(SUBSET Rows) /\ hist # <<>> BY DEF TailInv
    <2>2. Server \in SUBSET Rows BY <2>1 DEF Server, Tick
    <2> QED BY <2>2 DEF Write
  <1>2. PICK h : h = hist OBVIOUS
  <1>3. PICK g : g = hist' OBVIOUS
  <1>4. h \in Seq(SUBSET Rows) /\ g = Append(h, R) BY <1>1, <1>2, <1>3 DEF TailInv
  <1>5. g \in Seq(SUBSET Rows) /\ Len(g) = Len(h) + 1 /\ Len(h) \in Nat /\ g # <<>> BY <1>1, <1>4
  <1>6. /\ asked' = asked /\ tailMark' = tailMark /\ wire' = wire /\ attached' = attached /\ rebooted' = rebooted
        /\ table' = table /\ watermark' = watermark /\ bufs' = bufs /\ partial' = partial
    BY DEF Write, streamVars, clientVars
  <1>7. Client' = Client BY <1>6 DEF Client
  <1>8. PICK st : /\ RunFrom(h, st, wire, Client)
                  /\ attached /\ asked # None /\ tailMark # None => CaughtUp(h, st[Len(wire) + 1], tailMark)
    BY <1>2 DEF TailInv, Told
  <1>9. PICK w \in Seq(Chunks) : w = wire BY DEF TailInv
  <1>10. PICK s : s = Client OBVIOUS
  <1>11. RunFrom(h, st, w, s) BY <1>8, <1>9, <1>10
  <1>12. RunFrom(g, st, w, s) BY <1>1, <1>4, <1>11, RunKept
  <1>13. st[Len(w) + 1] \in ClientStates BY <1>11, RunEnds
  <1>14. \A t \in 1..Len(h) : CaughtUp(h, st[Len(w) + 1], t) => CaughtUp(g, st[Len(w) + 1], t)
    BY <1>1, <1>4, <1>13, HistoryGrows
  <1>15. tailMark \in {None} \cup 1..Len(h) BY <1>2 DEF TailInv
  <1>16. Told' BY <1>3, <1>6, <1>7, <1>8, <1>9, <1>10, <1>12, <1>14, <1>15 DEF Told
  <1>17. tailMark' \in {None} \cup 1..Len(g) BY <1>5, <1>6, <1>15
  <1>18. Fresh(Client)' = Fresh(Client) BY <1>7 DEF Fresh
  <1> QED BY <1>3, <1>5, <1>6, <1>16, <1>17, <1>18 DEF TailInv

LEMMA KeepsInv ==
  ASSUME TailInv,
         UNCHANGED <<hist, asked, tailMark, wire, attached, rebooted, table, watermark, bufs, partial>>
  PROVE  TailInv'
  <1>1. Client' = Client BY DEF Client
  <1>2. Told' = Told BY <1>1 DEF Told
  <1>3. Fresh(Client)' = Fresh(Client) BY <1>1 DEF Fresh
  <1> QED BY <1>2, <1>3 DEF TailInv

LEMMA TailsInv ==
  ASSUME TailInv, Tails
  PROVE  TailInv'
  <1> DEFINE since == IF tailMark = None THEN asked ELSE tailMark
  <1> DEFINE rebuilds == since > 0 /\ since <= tombLimit
  <1>1. PICK h : h = hist OBVIOUS
  <1>2. h \in Seq(SUBSET Rows) /\ h # <<>> BY <1>1 DEF TailInv
  <1>3. PICK l \in Nat : l = Len(h) BY <1>2
  <1>4. l > 0 /\ h[l] \in SUBSET Rows BY <1>2, <1>3
  <1>5. PICK w \in Seq(Chunks) : w = wire BY DEF TailInv
  <1>6. ShortDiffs(w) BY <1>5 DEF TailInv, ShortDiffs
  <1>7. PICK s : s = Client OBVIOUS
  <1>8. PICK st : /\ RunFrom(h, st, w, s)
                  /\ attached /\ asked # None /\ tailMark # None => CaughtUp(h, st[Len(w) + 1], tailMark)
    BY <1>1, <1>5, <1>7 DEF TailInv, Told
  <1>9. PICK e : e = st[Len(w) + 1] OBVIOUS
  <1>10. e \in ClientStates /\ Sound(h, e) BY <1>8, <1>9, RunEnds
  <1>11. attached /\ asked # None BY DEF Tails
  <1>12. PICK out : /\ out \in IF rsError THEN {<<Signal("reboot"), Signal("eof")>>}
                              ELSE IF rebuilds THEN {<<Chunk(<<Rebuild>>, Tick), Signal("eof")>>}
                              ELSE IF since = 0 THEN {FirstTransfer(order) : order \in SetToSeqs(Server)}
                              ELSE Update(Changed(since))
                    /\ wire' = w \o out
    BY <1>5 DEF Tails
  <1>13. /\ hist' = hist /\ attached' = attached /\ rebooted' = rebooted /\ tailMark' = l
         /\ asked' = (IF rsError \/ rebuilds THEN None ELSE asked)
         /\ table' = table /\ watermark' = watermark /\ bufs' = bufs /\ partial' = partial
    BY <1>1, <1>3 DEF Tails, serverVars, clientVars, Tick
  <1>14. Client' = s BY <1>7, <1>13 DEF Client
  <1>15. tailMark = None => w = <<>> /\ e = s /\ Fresh(s) /\ asked = s.watermark
    <2> SUFFICES ASSUME tailMark = None PROVE w = <<>> /\ e = s /\ Fresh(s) /\ asked = s.watermark
      OBVIOUS
    <2>1. w = <<>> /\ Fresh(s) /\ asked = watermark BY <1>5, <1>7, <1>11 DEF TailInv
    <2>2. s.watermark = watermark BY <1>7 DEF Client
    <2>3. Len(w) + 1 = 1 BY <2>1
    <2>4. st[1] = s BY <1>8 DEF RunFrom
    <2> QED BY <1>9, <2>1, <2>2, <2>3, <2>4
  <1>16. CASE rsError \/ rebuilds
    <2>1. out \in {<<Signal("reboot"), Signal("eof")>>, <<Chunk(<<Rebuild>>, l), Signal("eof")>>}
      BY <1>1, <1>3, <1>12, <1>16 DEF Tick
    <2>2. Sends(h, e, out) BY <1>2, <1>3, <1>10, <2>1, LastSend
    <2>3. PICK su : RunFrom(h, su, out, e) BY <2>2 DEF Sends
    <2>4. out \in Seq(Chunks) /\ ShortDiffs(out) BY <2>2 DEF Sends
    <2>5. PICK sv : RunFrom(h, sv, w \o out, s) BY <1>8, <1>9, <2>3, <2>4, RunConcat
    <2>6. w \o out \in Seq(Chunks) /\ ShortDiffs(w \o out) BY <1>6, <2>4, ShortConcat
    <2>7. asked' = None BY <1>13, <1>16
    <2>8. Told' BY <1>1, <1>12, <1>13, <1>14, <2>5, <2>7 DEF Told
    <2>9. tailMark' # None /\ tailMark' \in 1..l BY <1>3, <1>4, <1>13 DEF None
    <2> QED BY <1>1, <1>2, <1>3, <1>11, <1>12, <1>13, <2>6, <2>7, <2>8, <2>9 DEF TailInv, ShortDiffs
  <1>17. CASE ~rsError /\ ~rebuilds
    <2>1. SendsUpTo(h, e, out)
      <3>1. CASE since = 0
        <4>1. tailMark = None /\ asked = 0
          <5>1. tailMark \in {None} \cup 1..l BY <1>1, <1>3 DEF TailInv
          <5> QED BY <3>1, <5>1
        <4>2. e = s /\ Fresh(e) /\ e.watermark = 0 BY <1>15, <4>1
        <4>3. PICK order \in SetToSeqs(h[l]) : out = FirstTransfer(order)
          BY <1>1, <1>3, <1>12, <1>17, <3>1 DEF Server, Tick
        <4>4. ~HasRebuild(e.bufs) BY <1>10 DEF Sound
        <4> QED BY <1>1, <1>2, <1>3, <1>10, <4>2, <4>3, <4>4, FirstSend
      <3>2. CASE since # 0
        <4>1. PICK a : a = since OBVIOUS
        <4>2. out \in Update(Changed(a)) BY <1>12, <1>17, <3>2, <4>1
        <4>3. CASE tailMark = None
          <5>1. a = e.watermark /\ e.watermark # 0 BY <1>15, <3>2, <4>1, <4>3
          <5>2. e.watermark \in Nat /\ e.watermark <= l BY <1>3, <1>10 DEF ClientStates, Sound
          <5>3. a \in 1..l /\ a \in Nat BY <1>3, <5>1, <5>2
          <5>4. Between(h, a, a) = {} /\ a <= a /\ e.watermark > 0 BY <5>1, <5>3, NothingBetween
          <5>5. Since(h, e, a) BY <1>10, <5>1, <5>4 DEF Since
          <5> QED BY <1>1, <1>2, <1>3, <1>10, <4>2, <5>3, <5>5, UpdateSend
        <4>4. CASE tailMark # None
          <5>1. a = tailMark BY <4>1, <4>4
          <5>2. a \in 1..l BY <1>1, <1>3, <4>4, <5>1 DEF TailInv
          <5>3. CaughtUp(h, e, a) BY <1>8, <1>9, <1>11, <4>4, <5>1
          <5>4. Since(h, e, a) BY <1>10, <5>3 DEF Since, CaughtUp
          <5> QED BY <1>1, <1>2, <1>3, <1>10, <4>2, <5>2, <5>4, UpdateSend
        <4> QED BY <4>3, <4>4
      <3> QED BY <3>1, <3>2
    <2>2. PICK su : RunFrom(h, su, out, e) /\ CaughtUp(h, su[Len(out) + 1], l) BY <1>3, <2>1 DEF SendsUpTo
    <2>3. out \in Seq(Chunks) /\ ShortDiffs(out) BY <2>1 DEF SendsUpTo
    <2>4. PICK sv : RunFrom(h, sv, w \o out, s) /\ sv[Len(w \o out) + 1] = su[Len(out) + 1]
      BY <1>8, <1>9, <2>2, <2>3, RunConcat
    <2>5. w \o out \in Seq(Chunks) /\ ShortDiffs(w \o out) BY <1>6, <2>3, ShortConcat
    <2>6. asked' = asked BY <1>13, <1>17
    <2>7. Told' BY <1>1, <1>12, <1>13, <1>14, <2>2, <2>4 DEF Told
    <2>8. tailMark' # None /\ tailMark' \in 1..l BY <1>3, <1>4, <1>13 DEF None
    <2> QED BY <1>1, <1>2, <1>3, <1>11, <1>12, <1>13, <2>5, <2>6, <2>7, <2>8 DEF TailInv, ShortDiffs
  <1> QED BY <1>16, <1>17

LEMMA OnDataInv ==
  ASSUME TailInv, OnData
  PROVE  TailInv'
  <1>1. PICK h : h = hist OBVIOUS
  <1>2. PICK w \in Seq(Chunks) : w = wire BY DEF TailInv
  <1>3. w # <<>> /\ Head(w).signal = "none" BY <1>2 DEF OnData
  <1>4. PICK s : s = Client OBVIOUS
  <1>5. PICK c : c = Head(w) OBVIOUS
  <1>6. PICK x : x = Received(s, c) OBVIOUS
  <1>7. PICK st : /\ RunFrom(h, st, w, s)
                  /\ attached /\ asked # None /\ tailMark # None => CaughtUp(h, st[Len(w) + 1], tailMark)
    BY <1>1, <1>2, <1>4 DEF TailInv, Told
  <1>8. x = After(s, Head(w)) BY <1>3, <1>5, <1>6 DEF After
  <1>9. PICK su : RunFrom(h, su, Tail(w), x) /\ su[Len(Tail(w)) + 1] = st[Len(w) + 1] /\ Sound(h, x) /\ x \in ClientStates
    BY <1>3, <1>7, <1>8, RunTail
  <1>10. /\ hist' = hist /\ asked' = asked /\ tailMark' = tailMark /\ attached' = attached /\ rebooted' = rebooted
         /\ wire' = Tail(w)
    BY <1>2 DEF OnData, serverVars
  <1>11. Client' = x
    <2>1. table' = x.table /\ watermark' = x.watermark /\ bufs' = x.bufs /\ partial' = x.partial
      BY <1>2, <1>4, <1>5, <1>6 DEF OnData
    <2>2. x = [table |-> x.table, watermark |-> x.watermark, bufs |-> x.bufs, partial |-> x.partial]
      BY <1>9 DEF ClientStates
    <2> QED BY <2>1, <2>2 DEF Client
  <1>12. Told' BY <1>1, <1>7, <1>9, <1>10, <1>11 DEF Told
  <1>13. attached /\ tailMark # None BY <1>2, <1>3 DEF TailInv
  <1>14. Tail(w) \in Seq(Chunks) /\ \A n \in 1..Len(Tail(w)) : Len(Tail(w)[n].diffs) <= 1
    <2>1. PICK l \in Nat : l = Len(w) OBVIOUS
    <2>2. PICK t : t = Tail(w) OBVIOUS
    <2>3. l > 0 /\ t \in Seq(Chunks) /\ Len(t) = l - 1 BY <1>3, <2>1, <2>2
    <2>4. \A n \in 1..(l - 1) : t[n] = w[n + 1] /\ n + 1 \in 1..l BY <1>3, <2>1, <2>2, <2>3
    <2>5. \A n \in 1..l : Len(w[n].diffs) <= 1 BY <1>2, <2>1 DEF TailInv
    <2> QED BY <2>2, <2>3, <2>4, <2>5
  <1> QED BY <1>10, <1>12, <1>13, <1>14 DEF TailInv

\* A client that gets nothing more, and whose only change is that more rows are known
\* to be left over.
LEMMA LeftAlone ==
  ASSUME TailInv, hist' = hist, wire' = <<>>, UNCHANGED <<table, watermark, bufs>>,
         partial \subseteq partial', partial' \subseteq partial \cup table \cup UNION {bufs[i].add : i \in DOMAIN bufs},
         ~attached' \/ asked' = None \/ tailMark' = None
  PROVE  Told'
  <1>1. PICK h : h = hist OBVIOUS
  <1>2. PICK w \in Seq(Chunks) : w = wire BY DEF TailInv
  <1>3. PICK s : s = Client OBVIOUS
  <1>4. PICK x : x = Client' OBVIOUS
  <1>5. PICK st : RunFrom(h, st, w, s) BY <1>1, <1>2, <1>3 DEF TailInv, Told
  <1>6. s \in ClientStates /\ Sound(h, s) BY <1>5, RunEnds
  <1>7. s.table = table /\ s.watermark = watermark /\ s.bufs = bufs /\ s.partial = partial BY <1>3 DEF Client
  <1>8. x = [table |-> table, watermark |-> watermark, bufs |-> bufs, partial |-> partial'] BY <1>4 DEF Client
  <1>9. table \in SUBSET Rows /\ watermark \in Nat /\ bufs \in Seq(Diffs) /\ partial \in SUBSET Rows
    BY <1>6, <1>7 DEF ClientStates
  <1>10. partial' \in SUBSET Rows
    <2>1. \A i \in DOMAIN bufs : bufs[i] \in Diffs BY <1>9
    <2>2. \A i \in DOMAIN bufs : bufs[i].add \subseteq Rows BY <2>1 DEF Diffs
    <2> QED BY <1>9, <2>2
  <1>11. x \in ClientStates BY <1>8, <1>9, <1>10 DEF ClientStates
  <1>12. x.table = s.table /\ x.watermark = s.watermark /\ x.bufs = s.bufs /\ s.partial \subseteq x.partial BY <1>7, <1>8
  <1>13. CopyOf(h, s, s.watermark) => CopyOf(h, x, x.watermark) BY <1>12 DEF CopyOf
  <1>14. Sound(h, x) BY <1>6, <1>12, <1>13 DEF Sound
  <1>15. PICK su : RunFrom(h, su, <<>>, x) BY <1>11, <1>14, RunNone
  <1> QED BY <1>1, <1>4, <1>15 DEF Told

LEMMA LosesInv ==
  ASSUME TailInv, Loses
  PROVE  TailInv'
  <1>1. /\ attached' = FALSE /\ wire' = <<>> /\ asked' = None /\ tailMark' = None
        /\ hist' = hist /\ table' = table /\ watermark' = watermark /\ bufs' = bufs /\ rebooted' = rebooted
    BY DEF Loses, serverVars
  <1>2. /\ partial \subseteq partial' 
        /\ partial' \subseteq partial \cup table \cup UNION {bufs[i].add : i \in DOMAIN bufs}
        /\ ~(watermark > 0) => table \subseteq partial' /\ \A i \in DOMAIN bufs : bufs[i].add \subseteq partial'
    BY DEF Loses
  <1>3. Told' BY <1>1, <1>2, LeftAlone
  <1>4. Fresh(Client)'
    <2>1. Client' = [table |-> table, watermark |-> watermark, bufs |-> bufs, partial |-> partial'] BY <1>1 DEF Client
    <2> QED BY <1>2, <2>1 DEF Fresh
  <1>5. <<>> \in Seq(Chunks) /\ Len(<<>>) = 0 /\ 1..0 = {} OBVIOUS
  <1> QED BY <1>1, <1>3, <1>4, <1>5 DEF TailInv

LEMMA OnRebootInv ==
  ASSUME TailInv, OnReboot
  PROVE  TailInv'
  <1>1. /\ rebooted' = TRUE /\ wire' = <<>> /\ attached' = FALSE /\ hist' = hist /\ asked' = asked /\ tailMark' = tailMark
        /\ table' = table /\ watermark' = watermark /\ bufs' = bufs /\ partial' = partial
    BY DEF OnReboot, serverVars
  <1>2. Told' BY <1>1, LeftAlone
  <1>3. tailMark # None BY DEF OnReboot, TailInv
  <1>4. <<>> \in Seq(Chunks) /\ Len(<<>>) = 0 /\ 1..0 = {} OBVIOUS
  <1> QED BY <1>1, <1>2, <1>3, <1>4 DEF TailInv

LEMMA OnReconnectInv ==
  ASSUME TailInv, OnReconnect
  PROVE  TailInv'
  <1>1. /\ attached' = TRUE /\ asked' = watermark /\ tailMark' = tailMark /\ wire' = wire /\ hist' = hist
        /\ table' = table /\ watermark' = watermark /\ bufs' = bufs /\ partial' = partial /\ rebooted' = rebooted
    BY DEF OnReconnect, serverVars, clientVars
  <1>2. tailMark = None /\ wire = <<>> BY DEF OnReconnect, TailInv
  <1>3. Told' BY <1>1, <1>2, LeftAlone
  <1>4. Client' = Client BY <1>1 DEF Client
  <1>5. Fresh(Client)' = Fresh(Client) BY <1>4 DEF Fresh
  <1>6. watermark \in Nat
    <2>1. PICK s : s = Client OBVIOUS
    <2>2. PICK w \in Seq(Chunks) : w = wire BY DEF TailInv
    <2>3. PICK st : RunFrom(hist, st, w, s) BY <2>1, <2>2 DEF TailInv, Told
    <2>4. s \in ClientStates BY <2>3, RunEnds
    <2> QED BY <2>1, <2>4 DEF Client, ClientStates
  <1> QED BY <1>1, <1>2, <1>3, <1>5, <1>6 DEF TailInv

\* Whatever the server and the stream do, the chunks in flight lead the client from the
\* copy it has to the version the tail process holds it for.
THEOREM TailInvariant == Spec => []TailInv
  <1>1. Init => TailInv BY InitInv
  <1>2. ASSUME TailInv, [Next]_vars PROVE TailInv'
    <2>1. CASE Write BY <1>2, <2>1, WriteInv
    <2>2. CASE Purge
      <3>1. UNCHANGED <<hist, asked, tailMark, wire, attached, rebooted, table, watermark, bufs, partial>>
        BY <2>2 DEF Purge, streamVars, clientVars
      <3> QED BY <1>2, <3>1, KeepsInv
    <2>3. CASE Condemn
      <3>1. UNCHANGED <<hist, asked, tailMark, wire, attached, rebooted, table, watermark, bufs, partial>>
        BY <2>3 DEF Condemn, streamVars, clientVars
      <3> QED BY <1>2, <3>1, KeepsInv
    <2>4. CASE Tails BY <1>2, <2>4, TailsInv
    <2>5. CASE OnData BY <1>2, <2>5, OnDataInv
    <2>6. CASE OnReboot BY <1>2, <2>6, OnRebootInv
    <2>7. CASE OnEof BY <1>2, <2>7, LosesInv DEF OnEof
    <2>8. CASE StreamFails BY <1>2, <2>8, LosesInv DEF StreamFails
    <2>9. CASE OnReconnect BY <1>2, <2>9, OnReconnectInv
    <2>10. CASE UNCHANGED vars
      <3>1. UNCHANGED <<hist, asked, tailMark, wire, attached, rebooted, table, watermark, bufs, partial>>
        BY <2>10 DEF vars, serverVars, streamVars, clientVars
      <3> QED BY <1>2, <3>1, KeepsInv
    <2> QED BY <1>2, <2>1, <2>2, <2>3, <2>4, <2>5, <2>6, <2>7, <2>8, <2>9, <2>10 DEF Next
  <1> QED BY <1>1, <1>2, PTL DEF Spec

\* A non-zero watermark names a version of the server's table and the client's copy is
\* that version, up to rows of transfers that were cut short, however streams fail.
THEOREM SnapshotStays == Spec => []SnapshotUpToPartial
  <1>1. ASSUME TailInv PROVE SnapshotUpToPartial
    <2>1. PICK s : s = Client OBVIOUS
    <2>2. PICK w \in Seq(Chunks) : w = wire BY <1>1 DEF TailInv
    <2>3. PICK st : RunFrom(hist, st, w, s) BY <1>1, <2>1, <2>2 DEF TailInv, Told
    <2>4. Sound(hist, s) BY <2>3, RunEnds
    <2>5. s.table = table /\ s.watermark = watermark /\ s.partial = partial BY <2>1 DEF Client
    <2> QED BY <2>4, <2>5 DEF Sound, CopyOf, SnapshotUpToPartial
  <1> QED BY <1>1, TailInvariant, PTL

\* One chunk moves the watermark forward, or back to nothing with an empty table.
LEMMA ReceivedForward ==
  ASSUME NEW s \in ClientStates, ~HasRebuild(s.bufs), NEW c \in Chunks, Len(c.diffs) <= 1, NEW x, x = Received(s, c)
  PROVE  x.watermark < s.watermark => x.watermark = 0 /\ x.table = {}
  <1>1. s.watermark \in Nat /\ s.bufs \in Seq(Diffs) BY DEF ClientStates
  <1>2. c.diffs \in Seq(Diffs) /\ c.check \in Nat \cup {NoCheck} BY DEF Chunks
  <1>3. CASE c.check = NoCheck
    <2>1. x.watermark = s.watermark BY <1>3, ReceivedCut
    <2> QED BY <1>1, <2>1
  <1>4. CASE c.check \in Nat /\ c.diffs = <<>>
    <2>1. Folded(x, s, s.bufs, c.check, Len(s.bufs)) BY <1>4, ReceivedNone
    <2> QED BY <1>1, <1>4, <2>1 DEF Folded, Later
  <1>5. CASE c.check \in Nat /\ c.diffs # <<>>
    <2>1. PICK ds : ds = c.diffs OBVIOUS
    <2>2. PICK d \in Diffs : ds = <<d>>
      <3>1. ds \in Seq(Diffs) /\ ds # <<>> /\ Len(ds) <= 1 BY <1>2, <1>5, <2>1
      <3>2. Len(ds) = 1
        <4>1. PICK n \in Nat \ {0} : n = Len(ds) BY <3>1, EmptySeq
        <4>2. n <= 1 BY <3>1, <4>1
        <4>3. n = 1 BY ONLY <4>2, n \in Nat \ {0}
        <4> QED BY <4>1, <4>3
      <3>3. PICK d : d = ds[1] OBVIOUS
      <3>4. d \in Diffs BY ONLY <3>1, <3>2, <3>3
      <3>5. ds = <<d>>
        <4>1. PICK v : v = <<d>> OBVIOUS
        <4>2. v \in Seq(Diffs) /\ Len(v) = 1 /\ v[1] = d BY ONLY <3>4, <4>1
        <4>3. \A i \in 1..1 : i = 1 OBVIOUS
        <4>4. \A i \in 1..1 : ds[i] = v[i] BY <3>3, <4>2, <4>3
        <4>5. ds \in [1..1 -> Diffs] /\ v \in [1..1 -> Diffs]
          <5>1. ds \in [1..Len(ds) -> Diffs] /\ v \in [1..Len(v) -> Diffs] BY ONLY <3>1, <4>2, LenProperties
          <5> QED BY <3>2, <4>2, <5>1
        <4> QED BY <4>1, <4>4, <4>5
      <3> QED BY <3>4, <3>5
    <2>3. /\ d.rebuild => x = [table |-> {}, watermark |-> 0, bufs |-> <<>>, partial |-> {}] /\ x \in ClientStates
          /\ ~d.rebuild => AppliedOne(x, s, d, c.check)
      <3>1. c.diffs = <<d>> BY <2>1, <2>2
      <3>2. c.check \in Nat BY <1>5
      <3>3. x = Received(s, c) OBVIOUS
      <3>4. s \in ClientStates /\ ~HasRebuild(s.bufs) /\ c \in Chunks /\ d \in Diffs BY <2>2
      <3> QED BY ONLY <3>1, <3>2, <3>3, <3>4, ReceivedOne
    <2>4. CASE d.rebuild BY <2>3, <2>4
    <2>5. CASE ~d.rebuild BY <1>1, <1>5, <2>3, <2>5 DEF AppliedOne, Later
    <2> QED BY <2>4, <2>5
  <1> QED BY <1>2, <1>3, <1>4, <1>5

\* The copy only ever moves to later versions, or back to nothing on a rebuild.
THEOREM WatermarkGoesForward == Spec => WatermarkForward
  <1>1. ASSUME TailInv, [Next]_vars PROVE [watermark' < watermark => watermark' = 0 /\ table' = {}]_vars
    <2>1. PICK s : s = Client OBVIOUS
    <2>2. PICK w \in Seq(Chunks) : w = wire BY <1>1 DEF TailInv
    <2>3. PICK st : RunFrom(hist, st, w, s) BY <1>1, <2>1, <2>2 DEF TailInv, Told
    <2>4. s \in ClientStates /\ Sound(hist, s) BY <2>3, RunEnds
    <2>5. s.watermark = watermark /\ watermark \in Nat BY <2>1, <2>4 DEF Client, ClientStates
    <2>6. CASE OnData
      <3>1. PICK c : c = Head(w) OBVIOUS
      <3>2. w # <<>> BY <2>2, <2>6 DEF OnData
      <3>3. Len(w) \in Nat /\ 1 \in 1..Len(w) /\ c = w[1] BY <3>1, <3>2
      <3>4. c \in Chunks BY <3>3
      <3>5. Len(c.diffs) <= 1 BY <1>1, <2>2, <3>3 DEF TailInv
      <3>6. PICK x : x = Received(s, c) OBVIOUS
      <3>7. ~HasRebuild(s.bufs) BY <2>4 DEF Sound
      <3>8. x.watermark < s.watermark => x.watermark = 0 /\ x.table = {} BY <2>4, <3>4, <3>5, <3>6, <3>7, ReceivedForward
      <3>9. table' = x.table /\ watermark' = x.watermark BY <2>1, <2>2, <2>6, <3>1, <3>6 DEF OnData
      <3> QED BY <2>5, <3>8, <3>9
    <2>7. CASE watermark' = watermark
      <3>1. ~(watermark' < watermark) BY <2>5, <2>7
      <3> QED BY <3>1
    <2>8. ASSUME ~OnData PROVE watermark' = watermark
      BY <1>1, <2>8 DEF Next, Write, Purge, Condemn, Tails, OnReboot, OnEof, StreamFails, Loses, OnReconnect, vars, clientVars
    <2> QED BY <2>6, <2>7, <2>8
  <1> QED BY <1>1, TailInvariant, PTL DEF Spec, WatermarkForward
=============================================================================
