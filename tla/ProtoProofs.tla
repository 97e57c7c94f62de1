---------------------------- MODULE ProtoProofs -----------------------------
(***************************************************************************)
(* Proofs about the orchestration messages (ProtoMsg): the decoder of the  *)
(* client gives back the messages the server meant, a request is answered  *)
(* by the last of them, and the server reads what the client wrote.        *)
(***************************************************************************)
EXTENDS ProtoMsg, SequenceTheorems, WellFoundedInduction, NaturalsInduction, TLAPS

\* A decoder as far as its messages tell: the text it has put together of a message
\* that is not complete, and the messages that are.
Strings == Seq(Bytes)
Messages == [type : {"data"}, payload : Strings] \cup [type : {"credentials", "future"}]
Pieces == [type : {"data"}, fin : BOOLEAN, payload : Strings] \cup [type : {"credentials", "future"}]
Decoders == [text : Strings, msgs : Seq(Messages)]
Pushed(d, m) ==
  IF m.type # "data" THEN [text |-> d.text, msgs |-> Append(d.msgs, [type |-> m.type])]
  ELSE IF m.fin THEN [text |-> <<>>, msgs |-> Append(d.msgs, [type |-> "data", payload |-> d.text \o m.payload])]
  ELSE [text |-> d.text \o m.payload, msgs |-> d.msgs]

\* The decoder before and after each chunk in flight; messages are only added.
Longer(a, b) == Len(a) <= Len(b) /\ \A i \in 1..Len(a) : a[i] = b[i]
Runs(st, q, d) ==
  /\ st \in [1..(Len(q) + 1) -> Decoders] /\ st[1] = d
  /\ \A n \in 1..Len(q) : st[n + 1] = Pushed(st[n], q[n])
  /\ \A i, j \in 1..(Len(q) + 1) : i <= j => Longer(st[i].msgs, st[j].msgs)

\* The chunks in flight bring the client's decoder to where the server is.
Heard == IF kind = "mirror" THEN popped ELSE msgs
Decoder == [text |-> FlattenSeq(bufs), msgs |-> Heard]
Meant == [text |-> partial, msgs |-> whole]
InStep == \E st : Runs(st, replies, Decoder) /\ st[Len(replies) + 1] = Meant
ReplyInv ==
  /\ replies \in Seq(Pieces) /\ bufs \in Seq(Strings)
  /\ kind \in {"asking", "mirror", "request", "closed", "cut", "reset"}
  /\ kind = "mirror" => msgs = <<>>
  /\ kind \in {"mirror", "request"} => InStep
  /\ AnswerIsLast
-----------------------------------------------------------------------------
\* A set of natural numbers has a least element.
LEMMA Least ==
  ASSUME NEW T \in SUBSET Nat, T # {}
  PROVE  \E x \in T : \A y \in T : ~(y < x)
  <1> DEFINE R == {ss \in Nat \X Nat : ss[1] < ss[2]}
  <1>1. IsWellFoundedOn(R, Nat)
    BY NatLessThanWellFounded DEF OpToRel
  <1>2. \E x \in T : \A y \in T : ~ (<<y, x>> \in R)
    <2> HIDE DEF R
    <2> QED BY <1>1, WFMin
  <1> QED BY <1>2

\* Induction on the natural numbers, for a set instead of a predicate.
LEMMA SetInduction ==
  ASSUME NEW S, 0 \in S, \A n \in Nat : n \in S => n + 1 \in S
  PROVE  Nat \subseteq S
  <1> SUFFICES ASSUME NEW k \in Nat, k \notin S PROVE FALSE
    OBVIOUS
  <1> DEFINE T == {n \in Nat : n \notin S}
  <1>1. PICK x \in T : \A y \in T : ~(y < x)
    <2>1. T \in SUBSET Nat /\ T # {} OBVIOUS
    <2> HIDE DEF T
    <2> QED BY <2>1, Least
  <1>2. x # 0 /\ x - 1 \in Nat /\ x - 1 < x BY <1>1
  <1>3. x - 1 \in S BY <1>1, <1>2
  <1> QED BY <1>1, <1>2, <1>3
-----------------------------------------------------------------------------
\* FlattenSeq joins the texts from the first to the last.
IsJoin(f, ts, k) ==
  /\ f = [j \in 1..k |-> f[j]]
  /\ \A j \in 1..k : f[j] = IF j = 1 THEN ts[j] ELSE f[j - 1] \o ts[j]

LEMMA JoinExists ==
  ASSUME NEW ts, NEW n \in Nat
  PROVE  \E f : IsJoin(f, ts, n)
  <1> DEFINE S == {k \in Nat : \E f : IsJoin(f, ts, k)}
  <1>1. 0 \in S
    <2>1. PICK f : f = [j \in 1..0 |-> <<>>] OBVIOUS
    <2>2. 1..0 = {} OBVIOUS
    <2>3. IsJoin(f, ts, 0) BY <2>1, <2>2 DEF IsJoin
    <2> QED BY <2>3
  <1>2. ASSUME NEW k \in Nat, k \in S PROVE k + 1 \in S
    <2>1. PICK a : IsJoin(a, ts, k) BY <1>2
    <2>2. PICK x : x = IF k + 1 = 1 THEN ts[k + 1] ELSE a[k] \o ts[k + 1] OBVIOUS
    <2>3. PICK b : b = [j \in 1..(k + 1) |-> IF j = k + 1 THEN x ELSE a[j]] OBVIOUS
    <2>4. b = [j \in 1..(k + 1) |-> b[j]] BY <2>3
    <2>5. ASSUME NEW j \in 1..(k + 1) PROVE b[j] = IF j = 1 THEN ts[j] ELSE b[j - 1] \o ts[j]
      <3>1. CASE j = k + 1
        <4>1. b[j] = x BY <2>3, <3>1
        <4>2. j # 1 => b[j - 1] = a[k]
          <5>1. j # 1 => j - 1 \in 1..(k + 1) /\ j - 1 # k + 1 /\ j - 1 = k BY <3>1
          <5> QED BY <2>3, <5>1
        <4> QED BY <2>2, <3>1, <4>1, <4>2
      <3>2. CASE j # k + 1
        <4>1. j \in 1..k /\ b[j] = a[j] BY <2>3, <3>2
        <4>2. j # 1 => b[j - 1] = a[j - 1]
          <5>1. j # 1 => j - 1 \in 1..(k + 1) /\ j - 1 # k + 1 OBVIOUS
          <5> QED BY <2>3, <5>1
        <4> QED BY <2>1, <4>1, <4>2 DEF IsJoin
      <3> QED BY <3>1, <3>2
    <2>6. IsJoin(b, ts, k + 1) BY <2>4, <2>5 DEF IsJoin
    <2> QED BY <2>6
  <1> HIDE DEF S
  <1>3. Nat \subseteq S BY <1>1, <1>2, SetInduction
  <1> QED BY <1>3 DEF S

LEMMA FlattenIs ==
  ASSUME NEW ts, NEW n \in Nat \ {0}, Len(ts) = n
  PROVE  \E f : IsJoin(f, ts, n) /\ FlattenSeq(ts) = f[n]
  <1> DEFINE F(a) == [i \in 1..Len(ts) |-> IF i = 1 THEN ts[i] ELSE a[i - 1] \o ts[i]]
  <1> DEFINE flat == CHOOSE a : a = F(a)
  <1>1. PICK b : IsJoin(b, ts, n) BY JoinExists
  <1>2. b = F(b) BY <1>1 DEF IsJoin
  <1>3. flat = F(flat) BY <1>2
  <1>4. IsJoin(flat, ts, n)
    <2> HIDE DEF flat
    <2> QED BY <1>3 DEF IsJoin
  <1>5. FlattenSeq(ts) = flat[n] BY DEF FlattenSeq
  <1> QED BY <1>4, <1>5

\* Two ways to join the same texts agree, and what is joined is a text.
LEMMA JoinsAgree ==
  ASSUME NEW ts, NEW us, NEW n \in Nat, NEW f, NEW g, NEW k \in Nat, k <= n, IsJoin(f, ts, n), IsJoin(g, us, k),
         \A i \in 1..k : us[i] = ts[i] /\ ts[i] \in Strings
  PROVE  \A i \in 1..k : f[i] = g[i] /\ g[i] \in Strings
  <1> DEFINE S == {j \in Nat : j \in 1..k => f[j] = g[j] /\ g[j] \in Strings}
  <1>1. 0 \in S OBVIOUS
  <1>2. ASSUME NEW j \in Nat, j \in S PROVE j + 1 \in S
    <2> SUFFICES ASSUME j + 1 \in 1..k PROVE f[j + 1] = g[j + 1] /\ g[j + 1] \in Strings
      OBVIOUS
    <2>1. PICK i \in 1..k : i = j + 1 OBVIOUS
    <2>2. i \in 1..n BY <2>1
    <2>3. CASE j = 0
      <3>1. i = 1 BY <2>1, <2>3
      <3>2. f[i] = ts[i] /\ g[i] = us[i] BY <2>2, <3>1 DEF IsJoin
      <3> QED BY <2>1, <3>2
    <2>4. CASE j # 0
      <3>1. i # 1 /\ i - 1 = j /\ j \in 1..k BY <2>1, <2>4
      <3>2. f[i] = f[j] \o ts[i] /\ g[i] = g[j] \o us[i] BY <2>2, <3>1 DEF IsJoin
      <3>3. f[j] = g[j] /\ g[j] \in Strings BY <1>2, <3>1
      <3>4. us[i] = ts[i] /\ ts[i] \in Strings OBVIOUS
      <3>5. g[j] \o us[i] \in Strings BY <3>3, <3>4, ConcatProperties DEF Strings
      <3> QED BY <2>1, <3>2, <3>3, <3>4, <3>5
    <2> QED BY <2>3, <2>4
  <1> HIDE DEF S
  <1>3. Nat \subseteq S BY <1>1, <1>2, SetInduction
  <1>4. \A i \in 1..k : i \in S BY <1>3
  <1> QED BY <1>4 DEF S

LEMMA FlattenNone == FlattenSeq(<<>>) = <<>>
  <1>1. Len(<<>>) = 0 OBVIOUS
  <1> QED BY <1>1 DEF FlattenSeq

LEMMA FlattenAppend ==
  ASSUME NEW ts \in Seq(Strings), NEW x \in Strings
  PROVE  FlattenSeq(ts) \in Strings /\ FlattenSeq(Append(ts, x)) = FlattenSeq(ts) \o x
  <1>1. PICK n \in Nat : n = Len(ts) OBVIOUS
  <1>2. PICK us : us = Append(ts, x) OBVIOUS
  <1>3. us \in Seq(Strings) /\ Len(us) = n + 1 /\ us[n + 1] = x /\ \A i \in 1..n : us[i] = ts[i]
    BY <1>1, <1>2, AppendProperties
  <1>4. n + 1 \in Nat \ {0} OBVIOUS
  <1>5. PICK f : IsJoin(f, us, n + 1) /\ FlattenSeq(us) = f[n + 1] BY <1>3, <1>4, FlattenIs
  <1>6. n + 1 \in 1..(n + 1) /\ (n + 1) - 1 = n OBVIOUS
  <1>7. CASE n = 0
    <2>1. ts = <<>> BY <1>1, <1>7, EmptySeq
    <2>2. FlattenSeq(ts) = <<>> BY <2>1, FlattenNone
    <2>3. f[n + 1] = x BY <1>3, <1>5, <1>6, <1>7 DEF IsJoin
    <2>4. <<>> \o x = x /\ <<>> \in Strings BY ConcatEmptySeq, EmptySeq DEF Strings
    <2> QED BY <1>2, <1>5, <2>2, <2>3, <2>4
  <1>8. CASE n # 0
    <2>1. n \in Nat \ {0} /\ n \in 1..n /\ n <= n + 1 /\ n + 1 # 1 BY <1>8
    <2>2. PICK g : IsJoin(g, ts, n) /\ FlattenSeq(ts) = g[n] BY <1>1, <2>1, FlattenIs
    <2>3. \A i \in 1..n : ts[i] = us[i] /\ us[i] \in Strings BY <1>1, <1>3
    <2>4. \A i \in 1..n : f[i] = g[i] /\ g[i] \in Strings BY <1>4, <1>5, <2>1, <2>2, <2>3, JoinsAgree
    <2>5. f[n + 1] = f[n] \o x BY <1>3, <1>5, <1>6, <2>1 DEF IsJoin
    <2> QED BY <1>2, <1>5, <2>1, <2>2, <2>4, <2>5
  <1> QED BY <1>7, <1>8
-----------------------------------------------------------------------------
\* One chunk adds to the text, or adds a message.
LEMMA PushedIs ==
  ASSUME NEW d \in Decoders, NEW m \in Pieces
  PROVE  Pushed(d, m) \in Decoders /\ Longer(d.msgs, Pushed(d, m).msgs)
  <1>1. d.text \in Strings /\ d.msgs \in Seq(Messages) BY DEF Decoders
  <1>2. PICK t : t = d.msgs OBVIOUS
  <1>3. t \in Seq(Messages) /\ Longer(t, t) BY <1>1, <1>2 DEF Longer
  <1>4. ASSUME NEW x \in Messages PROVE Append(t, x) \in Seq(Messages) /\ Longer(t, Append(t, x))
    <2>1. PICK u : u = Append(t, x) OBVIOUS
    <2>2. u \in Seq(Messages) /\ Len(u) = Len(t) + 1 /\ \A i \in 1..Len(t) : u[i] = t[i] BY <1>3, <2>1, AppendProperties
    <2>3. Len(t) \in Nat /\ Len(t) <= Len(u) BY <1>3, <2>2
    <2> QED BY <2>1, <2>2, <2>3 DEF Longer
  <1>5. CASE m.type # "data"
    <2>1. PICK x : x = [type |-> m.type] OBVIOUS
    <2>2. x \in Messages BY <1>5, <2>1 DEF Pieces, Messages
    <2>3. Pushed(d, m) = [text |-> d.text, msgs |-> Append(t, x)] BY <1>2, <1>5, <2>1 DEF Pushed
    <2> QED BY <1>1, <1>2, <1>4, <2>2, <2>3 DEF Decoders
  <1>6. CASE m.type = "data"
    <2>1. m.payload \in Strings /\ m.fin \in BOOLEAN BY <1>6 DEF Pieces
    <2>2. PICK y : y = d.text \o m.payload OBVIOUS
    <2>3. y \in Strings BY <1>1, <2>1, <2>2, ConcatProperties DEF Strings
    <2>4. CASE m.fin
      <3>1. PICK x : x = [type |-> "data", payload |-> y] OBVIOUS
      <3>2. x \in Messages BY <2>3, <3>1 DEF Messages
      <3>3. Pushed(d, m) = [text |-> <<>>, msgs |-> Append(t, x)] BY <1>2, <1>6, <2>2, <2>4, <3>1 DEF Pushed
      <3>4. <<>> \in Strings BY EmptySeq DEF Strings
      <3> QED BY <1>2, <1>4, <3>2, <3>3, <3>4 DEF Decoders
    <2>5. CASE ~m.fin
      <3>1. Pushed(d, m) = [text |-> y, msgs |-> t] BY <1>2, <1>6, <2>2, <2>5 DEF Pushed
      <3> QED BY <1>2, <1>3, <2>3, <3>1 DEF Decoders
    <2> QED BY <2>4, <2>5
  <1> QED BY <1>5, <1>6

\* The chunk that arrives first is pushed; a chunk that is sent comes last.
LEMMA RunTail ==
  ASSUME NEW st, NEW q \in Seq(Pieces), q # <<>>, NEW d, Runs(st, q, d), NEW x, x = Pushed(d, Head(q))
  PROVE  \E su : Runs(su, Tail(q), x) /\ su[Len(Tail(q)) + 1] = st[Len(q) + 1]
  <1>1. PICK l \in Nat : l = Len(q) OBVIOUS
  <1>2. PICK t : t = Tail(q) OBVIOUS
  <1>3. l > 0 /\ l - 1 \in Nat /\ t \in Seq(Pieces) /\ Len(t) = l - 1 /\ Head(q) = q[1] BY <1>1, <1>2
  <1>4. \A n \in 1..(l - 1) : t[n] = q[n + 1] BY <1>1, <1>2, <1>3
  <1>5. PICK su : su = [n \in 1..l |-> st[n + 1]] OBVIOUS
  <1>6. /\ st \in [1..(l + 1) -> Decoders] /\ st[1] = d
        /\ \A n \in 1..l : st[n + 1] = Pushed(st[n], q[n])
        /\ \A i, j \in 1..(l + 1) : i <= j => Longer(st[i].msgs, st[j].msgs)
    BY <1>1 DEF Runs
  <1>7. \A n \in 1..l : n + 1 \in 1..(l + 1) BY <1>3
  <1>8. (l - 1) + 1 = l BY <1>3
  <1>9. su \in [1..l -> Decoders] BY <1>5, <1>6, <1>7
  <1>10. ASSUME NEW n \in 1..(l - 1) PROVE su[n + 1] = Pushed(su[n], t[n])
    <2>1. n \in 1..l /\ n + 1 \in 1..l /\ n \in Nat BY <1>3
    <2>2. su[n] = st[n + 1] /\ su[n + 1] = st[(n + 1) + 1] BY <1>5, <2>1
    <2> QED BY <1>4, <1>6, <2>1, <2>2
  <1>11. 1 \in 1..l /\ l \in 1..l BY <1>3
  <1>12. su[1] = x
    <2>1. su[1] = st[1 + 1] BY <1>5, <1>11
    <2> QED BY <1>3, <1>6, <1>11, <2>1
  <1>13. \A i, j \in 1..l : i <= j => Longer(su[i].msgs, su[j].msgs)
    <2>1. \A i \in 1..l : su[i] = st[i + 1] /\ i + 1 \in 1..(l + 1) BY <1>5, <1>7
    <2>2. \A i, j \in 1..l : i <= j => i + 1 <= j + 1 OBVIOUS
    <2> QED BY <1>6, <2>1, <2>2
  <1>14. su[l] = st[l + 1] BY <1>5, <1>11
  <1>15. Runs(su, t, x) BY <1>3, <1>8, <1>9, <1>10, <1>12, <1>13 DEF Runs
  <1> QED BY <1>1, <1>2, <1>3, <1>8, <1>14, <1>15

LEMMA RunMore ==
  ASSUME NEW st, NEW q \in Seq(Pieces), NEW d, Runs(st, q, d), NEW m \in Pieces, NEW x, x = Pushed(st[Len(q) + 1], m)
  PROVE  \E su : Runs(su, Append(q, m), d) /\ su[Len(Append(q, m)) + 1] = x
  <1>1. PICK l \in Nat : l = Len(q) OBVIOUS
  <1>2. PICK t : t = Append(q, m) OBVIOUS
  <1>3. t \in Seq(Pieces) /\ Len(t) = l + 1 /\ t[l + 1] = m /\ \A n \in 1..l : t[n] = q[n] BY <1>1, <1>2, AppendProperties
  <1>4. /\ st \in [1..(l + 1) -> Decoders] /\ st[1] = d
        /\ \A n \in 1..l : st[n + 1] = Pushed(st[n], q[n])
        /\ \A i, j \in 1..(l + 1) : i <= j => Longer(st[i].msgs, st[j].msgs)
    BY <1>1 DEF Runs
  <1>5. PICK e : e = st[l + 1] OBVIOUS
  <1>6. l + 1 \in 1..(l + 1) /\ 1 \in 1..(l + 1) OBVIOUS
  <1>7. e \in Decoders BY <1>4, <1>5, <1>6
  <1>8. x = Pushed(e, m) BY <1>1, <1>5
  <1>9. x \in Decoders /\ Longer(e.msgs, x.msgs) BY <1>7, <1>8, PushedIs
  <1>10. PICK su : su = [n \in 1..((l + 1) + 1) |-> IF n = (l + 1) + 1 THEN x ELSE st[n]] OBVIOUS
  <1>11. \A n \in 1..((l + 1) + 1) : n \in 1..(l + 1) \/ n = (l + 1) + 1 OBVIOUS
  <1>12. \A n \in 1..(l + 1) : n \in 1..((l + 1) + 1) /\ n # (l + 1) + 1 OBVIOUS
  <1>13. (\A n \in 1..(l + 1) : su[n] = st[n]) /\ su[(l + 1) + 1] = x
    <2>1. (l + 1) + 1 \in 1..((l + 1) + 1) OBVIOUS
    <2> QED BY <1>10, <1>12, <2>1
  <1>14. su \in [1..((l + 1) + 1) -> Decoders] BY <1>4, <1>9, <1>10, <1>11
  <1>15. su[1] = d BY <1>4, <1>6, <1>13
  <1>16. ASSUME NEW n \in 1..(l + 1) PROVE su[n + 1] = Pushed(su[n], t[n])
    <2>1. CASE n = l + 1
      <3>1. su[n + 1] = x /\ su[n] = e /\ t[n] = m BY <1>3, <1>5, <1>6, <1>13, <2>1
      <3> QED BY <1>8, <3>1
    <2>2. CASE n # l + 1
      <3>1. n \in 1..l /\ n + 1 \in 1..(l + 1) BY <2>2
      <3>2. su[n + 1] = st[n + 1] /\ su[n] = st[n] /\ t[n] = q[n] BY <1>3, <1>13, <3>1
      <3> QED BY <1>4, <3>1, <3>2
    <2> QED BY <2>1, <2>2
  <1>17. ASSUME NEW i \in 1..((l + 1) + 1), NEW j \in 1..((l + 1) + 1), i <= j PROVE Longer(su[i].msgs, su[j].msgs)
    <2>1. CASE j = (l + 1) + 1
      <3>1. CASE i = j
        <4>1. PICK a : a = x.msgs OBVIOUS
        <4>2. a \in Seq(Messages) BY <1>9, <4>1 DEF Decoders
        <4>3. Longer(a, a) BY <4>2 DEF Longer
        <4> QED BY <1>13, <2>1, <3>1, <4>1, <4>3
      <3>2. CASE i # j
        <4>1. i \in 1..(l + 1) /\ i <= l + 1 BY <2>1, <3>2
        <4>2. PICK a : a = st[i].msgs OBVIOUS
        <4>3. PICK b : b = e.msgs OBVIOUS
        <4>4. PICK c : c = x.msgs OBVIOUS
        <4>5. Longer(a, b) BY <1>4, <1>5, <1>6, <4>1, <4>2, <4>3
        <4>6. Longer(b, c) BY <1>9, <4>3, <4>4
        <4>7. a \in Seq(Messages) /\ b \in Seq(Messages) /\ c \in Seq(Messages)
          BY <1>4, <1>7, <1>9, <4>1, <4>2, <4>3, <4>4 DEF Decoders
        <4>8. Longer(a, c)
          <5>1. Len(a) \in Nat /\ Len(b) \in Nat /\ Len(c) \in Nat BY <4>7
          <5>2. Len(a) <= Len(b) /\ Len(b) <= Len(c) BY <4>5, <4>6 DEF Longer
          <5>3. \A k \in 1..Len(a) : k \in 1..Len(b) BY <5>1, <5>2
          <5>4. \A k \in 1..Len(a) : a[k] = c[k] BY <4>5, <4>6, <5>3 DEF Longer
          <5>5. Len(a) <= Len(c) BY <5>1, <5>2
          <5> QED BY <5>4, <5>5 DEF Longer
        <4> QED BY <1>13, <2>1, <4>1, <4>2, <4>4, <4>8
      <3> QED BY <3>1, <3>2
    <2>2. CASE j # (l + 1) + 1
      <3>1. i \in 1..(l + 1) /\ j \in 1..(l + 1) BY <1>17, <2>2
      <3> QED BY <1>4, <1>13, <1>17, <3>1
    <2> QED BY <2>1, <2>2
  <1>18. Runs(su, t, d) BY <1>3, <1>14, <1>15, <1>16, <1>17 DEF Runs
  <1> QED BY <1>2, <1>3, <1>13, <1>18

LEMMA RunNone ==
  ASSUME NEW d \in Decoders
  PROVE  \E st : Runs(st, <<>>, d) /\ st[Len(<<>>) + 1] = d
  <1>1. PICK st : st = [n \in 1..1 |-> d] OBVIOUS
  <1>2. Len(<<>>) = 0 /\ 1..0 = {} /\ 1..(0 + 1) = 1..1 OBVIOUS
  <1>3. st \in [1..1 -> Decoders] /\ st[1] = d /\ \A n \in 1..1 : st[n] = d BY <1>1
  <1>4. PICK a : a = d.msgs OBVIOUS
  <1>5. a \in Seq(Messages) BY <1>4 DEF Decoders
  <1>6. Longer(a, a) BY <1>5 DEF Longer
  <1>7. Runs(st, <<>>, d) BY <1>2, <1>3, <1>4, <1>6 DEF Runs
  <1> QED BY <1>2, <1>3, <1>7

\* What the server means and what the client has are both ends of the run.
LEMMA RunEnds ==
  ASSUME NEW st, NEW q \in Seq(Pieces), NEW d, Runs(st, q, d)
  PROVE  d \in Decoders /\ st[Len(q) + 1] \in Decoders /\ Longer(d.msgs, st[Len(q) + 1].msgs)
  <1>1. PICK l \in Nat : l = Len(q) OBVIOUS
  <1>2. 1 \in 1..(l + 1) /\ l + 1 \in 1..(l + 1) /\ 1 <= l + 1 OBVIOUS
  <1> QED BY <1>1, <1>2 DEF Runs

\* push and what it leaves in the decoder's buffers, as a text.
LEMMA PushIs ==
  ASSUME NEW m \in Pieces, bufs \in Seq(Strings), NEW ms, ms \in Seq(Messages), NEW h, h = FlattenSeq(bufs)
  PROVE  /\ PushedBufs(m) \in Seq(Strings) /\ h \in Strings
         /\ FlattenSeq(PushedBufs(m)) = Pushed([text |-> h, msgs |-> ms], m).text
         /\ PushedMsgs(m) = Pushed([text |-> h, msgs |-> msgs], m).msgs
  <1>1. PICK b \in Seq(Strings) : b = bufs OBVIOUS
  <1>2. h \in Strings
    <2>1. <<>> \in Strings BY EmptySeq DEF Strings
    <2> QED BY <1>1, <2>1, FlattenAppend
  <1>3. PICK d : d = [text |-> h, msgs |-> ms] OBVIOUS
  <1>4. PICK e : e = [text |-> h, msgs |-> msgs] OBVIOUS
  <1>5. d.text = h /\ e.text = h /\ e.msgs = msgs BY <1>3, <1>4
  <1>6. CASE m.type # "data"
    <2>1. PushedBufs(m) = b BY <1>1, <1>6 DEF PushedBufs
    <2>2. Pushed(d, m).text = h BY <1>5, <1>6 DEF Pushed
    <2>3. PushedMsgs(m) = Pushed(e, m).msgs BY <1>5, <1>6 DEF PushedMsgs, Pushed
    <2> QED BY <1>1, <1>2, <1>3, <1>4, <2>1, <2>2, <2>3
  <1>7. CASE m.type = "data"
    <2>1. m.payload \in Strings /\ m.fin \in BOOLEAN BY <1>7 DEF Pieces
    <2>2. FlattenSeq(Append(b, m.payload)) = h \o m.payload BY <1>1, <2>1, FlattenAppend
    <2>3. CASE m.fin
      <3>1. PushedBufs(m) = <<>> BY <1>7, <2>3 DEF PushedBufs
      <3>2. Pushed(d, m).text = <<>> BY <1>7, <2>3 DEF Pushed
      <3>3. PushedMsgs(m) = Pushed(e, m).msgs BY <1>1, <1>5, <1>7, <2>2, <2>3 DEF PushedMsgs, Pushed
      <3> QED BY <1>2, <1>3, <1>4, <3>1, <3>2, <3>3, FlattenNone, EmptySeq
    <2>4. CASE ~m.fin
      <3>1. PushedBufs(m) = Append(b, m.payload) BY <1>1, <1>7, <2>4 DEF PushedBufs
      <3>2. Pushed(d, m).text = h \o m.payload BY <1>5, <1>7, <2>4 DEF Pushed
      <3>3. PushedMsgs(m) = Pushed(e, m).msgs BY <1>5, <1>7, <2>4 DEF PushedMsgs, Pushed
      <3>4. Append(b, m.payload) \in Seq(Strings) BY <2>1, AppendProperties
      <3> QED BY <1>2, <1>3, <1>4, <2>2, <3>1, <3>2, <3>3, <3>4
    <2> QED BY <2>3, <2>4
  <1> QED BY <1>6, <1>7

LEMMA PopIs ==
  ASSUME NEW m \in Pieces, bufs \in Seq(Strings), msgs = <<>>, NEW ps, ps \in Seq(Messages), NEW h, h = FlattenSeq(bufs)
  PROVE  ps \o PushedMsgs(m) = Pushed([text |-> h, msgs |-> ps], m).msgs
  <1>1. PICK b \in Seq(Strings) : b = bufs OBVIOUS
  <1>2. h \in Strings
    <2>1. <<>> \in Strings BY EmptySeq DEF Strings
    <2> QED BY <1>1, <2>1, FlattenAppend
  <1>3. PICK d : d = [text |-> h, msgs |-> ps] OBVIOUS
  <1>4. d.text = h /\ d.msgs = ps BY <1>3
  <1>5. ASSUME NEW x \in Messages PROVE ps \o Append(<<>>, x) = Append(ps, x)
    <2>1. Append(<<>>, x) = <<x>> OBVIOUS
    <2> QED BY <2>1, AppendIsConcat
  <1>6. CASE m.type # "data"
    <2>1. PICK x : x = [type |-> m.type] OBVIOUS
    <2>2. x \in Messages BY <1>6, <2>1 DEF Pieces, Messages
    <2>3. PushedMsgs(m) = Append(<<>>, x) BY <1>6, <2>1 DEF PushedMsgs
    <2>4. Pushed(d, m).msgs = Append(ps, x) BY <1>4, <1>6, <2>1 DEF Pushed
    <2> QED BY <1>3, <1>5, <2>2, <2>3, <2>4
  <1>7. CASE m.type = "data"
    <2>1. m.payload \in Strings /\ m.fin \in BOOLEAN BY <1>7 DEF Pieces
    <2>2. FlattenSeq(Append(b, m.payload)) = h \o m.payload BY <1>1, <2>1, FlattenAppend
    <2>3. CASE m.fin
      <3>1. PICK y : y = h \o m.payload OBVIOUS
      <3>2. y \in Strings BY <1>2, <2>1, <3>1, ConcatProperties DEF Strings
      <3>3. PICK x : x = [type |-> "data", payload |-> y] OBVIOUS
      <3>4. x \in Messages BY <3>2, <3>3 DEF Messages
      <3>5. PushedMsgs(m) = Append(<<>>, x) BY <1>1, <1>7, <2>2, <2>3, <3>1, <3>3 DEF PushedMsgs
      <3>6. Pushed(d, m).msgs = Append(ps, x) BY <1>4, <1>7, <2>3, <3>1, <3>3 DEF Pushed
      <3> QED BY <1>3, <1>5, <3>4, <3>5, <3>6
    <2>4. CASE ~m.fin
      <3>1. PushedMsgs(m) = <<>> BY <1>7, <2>4 DEF PushedMsgs
      <3>2. Pushed(d, m).msgs = ps BY <1>4, <1>7, <2>4 DEF Pushed
      <3> QED BY <1>3, <3>1, <3>2, ConcatEmptySeq
    <2> QED BY <2>3, <2>4
  <1> QED BY <1>6, <1>7
-----------------------------------------------------------------------------
LEMMA ReplyInit ==
  ASSUME Init
  PROVE  ReplyInv
  <1>1. <<>> \in Seq(Pieces) /\ <<>> \in Seq(Strings) /\ <<>> \in Seq(Messages) /\ <<>> \in Strings BY EmptySeq DEF Strings
  <1>2. PICK d : d = [text |-> <<>>, msgs |-> <<>>] OBVIOUS
  <1>3. d \in Decoders BY <1>1, <1>2 DEF Decoders
  <1>4. PICK st : Runs(st, <<>>, d) /\ st[Len(<<>>) + 1] = d BY <1>3, RunNone
  <1>5. Decoder = d /\ Meant = d BY <1>2, FlattenNone DEF Init, Decoder, Meant, Heard
  <1>6. InStep BY <1>4, <1>5 DEF InStep, Init
  <1>7. AnswerIsLast BY DEF Init, AnswerIsLast
  <1> QED BY <1>1, <1>6, <1>7 DEF Init, ReplyInv

\* A chunk that the server sends takes what it means one push further.
LEMMA SendsReply ==
  ASSUME ReplyInv, kind \in {"mirror", "request"}, NEW m \in Pieces, replies' = Append(replies, m),
         Meant' = Pushed(Meant, m), UNCHANGED <<bufs, msgs, popped, kind>>
  PROVE  ReplyInv'
  <1>1. PICK q : q \in Seq(Pieces) /\ q = replies BY DEF ReplyInv
  <1>2. PICK d : d = Decoder OBVIOUS
  <1>3. Decoder' = d BY <1>2 DEF Decoder, Heard
  <1>4. PICK st : Runs(st, q, d) /\ st[Len(q) + 1] = Meant BY <1>1, <1>2 DEF ReplyInv, InStep
  <1>5. PICK x : x = Pushed(st[Len(q) + 1], m) OBVIOUS
  <1>6. PICK su : Runs(su, Append(q, m), d) /\ su[Len(Append(q, m)) + 1] = x BY <1>1, <1>4, <1>5, RunMore
  <1>7. Meant' = x BY <1>4, <1>5
  <1>8. InStep' BY <1>1, <1>3, <1>6, <1>7 DEF InStep
  <1>9. Append(q, m) \in Seq(Pieces) BY <1>1, AppendProperties
  <1>10. AnswerIsLast' BY DEF AnswerIsLast
  <1> QED BY <1>1, <1>8, <1>9, <1>10 DEF ReplyInv

LEMMA SendsDataInv ==
  ASSUME ReplyInv, ServerSendsData
  PROVE  ReplyInv'
  <1>1. PICK p \in Chunks, fin \in BOOLEAN :
           /\ replies' = Append(replies, [type |-> "data", fin |-> fin, payload |-> p])
           /\ partial' = IF fin THEN <<>> ELSE partial \o p
           /\ whole' = IF fin THEN Append(whole, [type |-> "data", payload |-> partial \o p]) ELSE whole
    BY DEF ServerSendsData
  <1>2. kind \in {"mirror", "request"} /\ UNCHANGED <<bufs, msgs, popped, kind>> BY DEF ServerSendsData
  <1>3. p \in Strings BY ProtoBounds DEF Strings
  <1>4. PICK m : m = [type |-> "data", fin |-> fin, payload |-> p] OBVIOUS
  <1>5. m \in Pieces /\ m.type = "data" /\ m.fin = fin /\ m.payload = p BY <1>3, <1>4 DEF Pieces
  <1>6. PICK a : a = Meant OBVIOUS
  <1>7. a.text = partial /\ a.msgs = whole BY <1>6 DEF Meant
  <1>8. Meant' = Pushed(a, m)
    <2>1. Meant' = [text |-> partial', msgs |-> whole'] BY DEF Meant
    <2>2. CASE fin BY <1>1, <1>5, <1>7, <2>1, <2>2 DEF Pushed
    <2>3. CASE ~fin BY <1>1, <1>5, <1>7, <2>1, <2>3 DEF Pushed
    <2> QED BY <2>2, <2>3
  <1> QED BY <1>1, <1>2, <1>4, <1>5, <1>6, <1>8, SendsReply

LEMMA SendsOtherInv ==
  ASSUME ReplyInv, ServerSendsOther
  PROVE  ReplyInv'
  <1>1. PICK type \in {"credentials", "future"} :
           replies' = Append(replies, [type |-> type]) /\ whole' = Append(whole, [type |-> type])
    BY DEF ServerSendsOther
  <1>2. kind \in {"mirror", "request"} /\ UNCHANGED <<partial, bufs, msgs, popped, kind>> BY DEF ServerSendsOther
  <1>3. PICK m : m = [type |-> type] OBVIOUS
  <1>4. m \in Pieces /\ m.type # "data" /\ m = [type |-> m.type] BY <1>3 DEF Pieces
  <1>5. PICK a : a = Meant OBVIOUS
  <1>6. a.text = partial /\ a.msgs = whole BY <1>5 DEF Meant
  <1>7. Meant' = Pushed(a, m)
    <2>1. Meant' = [text |-> partial, msgs |-> whole'] BY <1>2 DEF Meant
    <2> QED BY <1>1, <1>3, <1>4, <1>6, <2>1 DEF Pushed
  <1> QED BY <1>1, <1>2, <1>3, <1>4, <1>5, <1>7, SendsReply

\* A chunk that the client hears takes its decoder one push further.
LEMMA HearsReply ==
  ASSUME ReplyInv, kind \in {"mirror", "request"}, replies # <<>>, replies' = Tail(replies),
         bufs' = PushedBufs(Head(replies)), Heard' = Pushed(Decoder, Head(replies)).msgs,
         kind = "mirror" => msgs' = <<>>, UNCHANGED <<partial, whole, kind>>
  PROVE  ReplyInv'
  <1>1. PICK q : q \in Seq(Pieces) /\ q = replies BY DEF ReplyInv
  <1>2. PICK d : d = Decoder OBVIOUS
  <1>3. PICK m : m = Head(q) OBVIOUS
  <1>4. m \in Pieces /\ Tail(q) \in Seq(Pieces) BY <1>1, <1>3, HeadTailProperties
  <1>5. PICK st : Runs(st, q, d) /\ st[Len(q) + 1] = Meant BY <1>1, <1>2 DEF ReplyInv, InStep
  <1>6. PICK x : x = Pushed(d, m) OBVIOUS
  <1>7. d \in Decoders /\ x \in Decoders BY <1>1, <1>4, <1>5, <1>6, RunEnds, PushedIs
  <1>8. PICK h : h = FlattenSeq(bufs) OBVIOUS
  <1>9. d = [text |-> h, msgs |-> d.msgs] /\ d.msgs \in Seq(Messages) BY <1>2, <1>7, <1>8 DEF Decoder, Decoders
  <1>10. PushedBufs(m) \in Seq(Strings) /\ FlattenSeq(PushedBufs(m)) = x.text
    <2>1. bufs \in Seq(Strings) BY DEF ReplyInv
    <2>2. PICK ms : ms = d.msgs OBVIOUS
    <2>3. ms \in Seq(Messages) /\ d = [text |-> h, msgs |-> ms] BY <1>9, <2>2
    <2>4. /\ PushedBufs(m) \in Seq(Strings)
          /\ FlattenSeq(PushedBufs(m)) = Pushed([text |-> h, msgs |-> ms], m).text
      BY <1>4, <1>8, <2>1, <2>3, PushIs
    <2> QED BY <1>6, <2>3, <2>4
  <1>11. Decoder' = x
    <2>1. bufs' = PushedBufs(m) BY <1>1, <1>3
    <2>2. PICK b : b = PushedBufs(m) OBVIOUS
    <2>3. Decoder' = [text |-> FlattenSeq(b), msgs |-> Heard'] BY <2>1, <2>2 DEF Decoder
    <2>4. Heard' = x.msgs BY <1>1, <1>2, <1>3, <1>6
    <2>5. x = [text |-> x.text, msgs |-> x.msgs] BY <1>7 DEF Decoders
    <2> QED BY <1>10, <2>2, <2>3, <2>4, <2>5
  <1>12. PICK su : Runs(su, Tail(q), x) /\ su[Len(Tail(q)) + 1] = st[Len(q) + 1] BY <1>1, <1>3, <1>5, <1>6, RunTail
  <1>13. Meant' = Meant BY DEF Meant
  <1>14. InStep' BY <1>1, <1>5, <1>11, <1>12, <1>13 DEF InStep
  <1>15. AnswerIsLast' BY DEF AnswerIsLast
  <1> QED BY <1>1, <1>3, <1>4, <1>10, <1>14, <1>15 DEF ReplyInv

LEMMA HearsInv ==
  ASSUME ReplyInv, MirrorHears \/ RequestHears
  PROVE  ReplyInv'
  <1>1. kind \in {"mirror", "request"} /\ replies # <<>> BY DEF MirrorHears, RequestHears
  <1>2. PICK q : q \in Seq(Pieces) /\ q = replies BY DEF ReplyInv
  <1>3. PICK m : m = Head(q) OBVIOUS
  <1>4. m \in Pieces BY <1>1, <1>2, <1>3, HeadTailProperties
  <1>5. PICK h : h = FlattenSeq(bufs) OBVIOUS
  <1>6. PICK ps : ps = Heard OBVIOUS
  <1>7. Decoder = [text |-> h, msgs |-> ps] BY <1>5, <1>6 DEF Decoder
  <1>8. ps \in Seq(Messages)
    <2>1. PICK d : d = Decoder OBVIOUS
    <2>2. PICK st : Runs(st, q, d) BY <1>1, <1>2, <2>1 DEF ReplyInv, InStep
    <2>3. d \in Decoders BY <1>2, <2>2, RunEnds
    <2> QED BY <1>7, <2>1, <2>3 DEF Decoders
  <1>9. bufs \in Seq(Strings) BY DEF ReplyInv
  <1>10. CASE MirrorHears
    <2>1. msgs = <<>> /\ ps = popped /\ kind = "mirror" BY <1>6, <1>10 DEF ReplyInv, MirrorHears, Heard
    <2>2. ps \o PushedMsgs(m) = Pushed([text |-> h, msgs |-> ps], m).msgs BY <1>4, <1>5, <1>8, <1>9, <2>1, PopIs
    <2>3. Heard' = ps \o PushedMsgs(m) BY <1>2, <1>3, <1>10, <2>1 DEF MirrorHears, Heard
    <2> QED BY <1>1, <1>2, <1>3, <1>7, <1>10, <2>1, <2>2, <2>3, HearsReply DEF MirrorHears
  <1>11. CASE RequestHears
    <2>1. ps = msgs /\ kind = "request" BY <1>6, <1>11 DEF RequestHears, Heard
    <2>2. PushedMsgs(m) = Pushed([text |-> h, msgs |-> msgs], m).msgs BY <1>4, <1>5, <1>8, <1>9, PushIs
    <2>3. Heard' = PushedMsgs(m) BY <1>2, <1>3, <1>11, <2>1 DEF RequestHears, Heard
    <2> QED BY <1>1, <1>2, <1>3, <1>7, <1>11, <2>1, <2>2, <2>3, HearsReply DEF RequestHears
  <1> QED BY <1>10, <1>11

\* What makeRequest takes when it hears onClose, and what the method makes of it.
LEMMA OnCloseTakes ==
  ASSUME OnClose
  PROVE  /\ popped' = <<IF msgs = <<>> THEN NoMessage ELSE Last(msgs)>>
         /\ result' \in {popped'[1], Thrown} \ {NoMessage, [type |-> "future"]}
  <1>1. PICK last : last = IF msgs = <<>> THEN NoMessage ELSE Last(msgs) OBVIOUS
  <1>2. popped' = <<last>> BY <1>1 DEF OnClose, LastMessage
  <1>3. PICK method \in ServerMethods : result' = makeRequest(method, last)
    <2>1. popped'[1] = last BY <1>2
    <2> QED BY <2>1 DEF OnClose
  <1>4. result' = last \/ result' = Thrown
    BY <1>3 DEF makeRequest, strictCastData, strictCastCredentials
  <1>5. result' # NoMessage /\ result' # [type |-> "future"]
    <2>1. Thrown # NoMessage /\ Thrown # [type |-> "future"] BY DEF Thrown, NoMessage
    <2>2. result' = Thrown \/ result'.type = "data" \/ result'.type = "credentials"
      BY <1>3 DEF makeRequest, strictCastData, strictCastCredentials
    <2>3. ASSUME result'.type = "data" \/ result'.type = "credentials"
          PROVE  result' # NoMessage /\ result' # [type |-> "future"]
      BY <2>3 DEF NoMessage
    <2> QED BY <2>1, <2>2, <2>3
  <1>6. popped'[1] = last BY <1>2
  <1> QED BY <1>1, <1>2, <1>4, <1>5, <1>6

LEMMA ClosesInv ==
  ASSUME ReplyInv, RequestCloses
  PROVE  ReplyInv'
  <1>1. kind = "request" /\ replies = <<>> /\ kind' = "closed" /\ UNCHANGED <<replies, whole, bufs>>
    BY DEF RequestCloses, OnClose
  <1>2. PICK q : q \in Seq(Pieces) /\ q = replies BY DEF ReplyInv
  <1>3. PICK d : d = Decoder OBVIOUS
  <1>4. PICK st : Runs(st, q, d) /\ st[Len(q) + 1] = Meant BY <1>1, <1>2, <1>3 DEF ReplyInv, InStep
  <1>5. Len(q) + 1 = 1 BY <1>1, <1>2
  <1>6. d = Meant BY <1>4, <1>5 DEF Runs
  <1>7. whole = msgs BY <1>1, <1>3, <1>6 DEF Decoder, Meant, Heard
  <1>8. OnClose BY DEF RequestCloses
  <1>9. AnswerIsLast' BY <1>1, <1>7, <1>8, OnCloseTakes DEF AnswerIsLast
  <1> QED BY <1>1, <1>9 DEF ReplyInv

\* A socket that is lost leaves the messages that had arrived, the first of those meant.
LEMMA CutInv ==
  ASSUME ReplyInv, RequestCut
  PROVE  ReplyInv'
  <1>1. kind = "request" /\ kind' = "cut" /\ replies' = <<>> /\ UNCHANGED <<whole, bufs>>
    BY DEF RequestCut, OnClose
  <1>2. PICK q : q \in Seq(Pieces) /\ q = replies BY DEF ReplyInv
  <1>3. PICK d : d = Decoder OBVIOUS
  <1>4. PICK e : e = Meant OBVIOUS
  <1>5. PICK st : Runs(st, q, d) /\ st[Len(q) + 1] = e BY <1>1, <1>2, <1>3, <1>4 DEF ReplyInv, InStep
  <1>6. PICK a : a = msgs OBVIOUS
  <1>7. PICK b : b = whole OBVIOUS
  <1>8. a \in Seq(Messages) /\ b \in Seq(Messages) /\ Longer(a, b)
    <2>1. d \in Decoders /\ e \in Decoders /\ Longer(d.msgs, e.msgs) BY <1>2, <1>5, RunEnds
    <2>2. d.msgs = a /\ e.msgs = b BY <1>1, <1>3, <1>4, <1>6, <1>7 DEF Decoder, Meant, Heard
    <2> QED BY <2>1, <2>2 DEF Decoders
  <1>9. \/ popped' = <<NoMessage>>
        \/ Len(msgs') < Len(whole') /\ popped' = <<whole'[Len(msgs') + 1]>>
    <2>1. CASE a = <<>> BY <1>6, <2>1, OnCloseTakes DEF RequestCut
    <2>2. CASE a # <<>>
      <3>1. PICK n \in Nat : n = Len(a) BY <1>8
      <3>2. n # 0 BY <1>8, <2>2, <3>1, EmptySeq
      <3>3. n <= Len(b) /\ a[n] = b[n] /\ n - 1 \in Nat /\ (n - 1) + 1 = n
        <4>1. n \in 1..Len(a) BY <3>1, <3>2
        <4> QED BY <1>8, <3>1, <3>2, <4>1 DEF Longer
      <3>4. popped' = <<a[n]>> BY <1>6, <2>2, <3>1, OnCloseTakes DEF RequestCut, Last
      <3>5. msgs' = SubSeq(a, 1, n - 1) BY <1>6, <2>2, <3>1 DEF RequestCut, OnClose, Front
      <3>6. Len(msgs') = n - 1
        <4>1. PICK v : v = SubSeq(a, 1, n - 1) OBVIOUS
        <4>2. PICK k \in Int : k = n - 1 BY <3>3
        <4>3. \A i \in 1..k : a[i] \in Messages
          <5>1. \A i \in 1..k : i \in 1..Len(a) BY <3>1, <3>3, <4>2
          <5> QED BY <1>8, <5>1
        <4>4. Len(SubSeq(a, 1, k)) = IF 1 <= k THEN k - 1 + 1 ELSE 0
          BY <4>3, 1 \in Int, SubSeqProperties
        <4> QED BY <3>3, <3>5, <4>2, <4>4
      <3>7. Len(b) \in Nat BY <1>8
      <3>8. Len(msgs') < Len(b) BY <3>3, <3>6, <3>7
      <3>9. whole'[Len(msgs') + 1] = a[n] BY <1>1, <1>7, <3>3, <3>6
      <3> QED BY <1>1, <1>7, <3>4, <3>8, <3>9
    <2> QED BY <2>1, <2>2
  <1>10. OnClose BY DEF RequestCut
  <1>11. AnswerIsLast' BY <1>1, <1>9, <1>10, OnCloseTakes DEF AnswerIsLast
  <1>12. <<>> \in Seq(Pieces) BY EmptySeq
  <1> QED BY <1>1, <1>11, <1>12 DEF ReplyInv

LEMMA ResetInv ==
  ASSUME ReplyInv, RequestReset
  PROVE  ReplyInv'
  <1>1. kind' = "reset" /\ replies' = <<>> /\ bufs' = bufs BY DEF RequestReset
  <1>2. AnswerIsLast' BY <1>1 DEF AnswerIsLast
  <1>3. <<>> \in Seq(Pieces) BY EmptySeq
  <1> QED BY <1>1, <1>2, <1>3 DEF ReplyInv

\* The decoder and the server stay in step, and the answer is the last message.
THEOREM ReplyInvariant == Spec => []ReplyInv
  <1>1. Init => ReplyInv BY ReplyInit
  <1>2. ASSUME ReplyInv, [Next]_vars PROVE ReplyInv'
    <2>1. CASE ServerSendsData BY <1>2, <2>1, SendsDataInv
    <2>2. CASE ServerSendsOther BY <1>2, <2>2, SendsOtherInv
    <2>3. CASE MirrorHears \/ RequestHears BY <1>2, <2>3, HearsInv
    <2>4. CASE RequestCloses BY <1>2, <2>4, ClosesInv
    <2>8. CASE RequestCut BY <1>2, <2>8, CutInv
    <2>9. CASE RequestReset BY <1>2, <2>9, ResetInv
    <2>5. CASE UNCHANGED replyVars
      <3>1. /\ replies' = replies /\ whole' = whole /\ partial' = partial /\ bufs' = bufs /\ msgs' = msgs
            /\ popped' = popped /\ result' = result /\ kind' = kind
        BY <2>5 DEF replyVars
      <3>2. Decoder' = Decoder /\ Meant' = Meant BY <3>1 DEF Decoder, Meant, Heard
      <3>3. InStep' = InStep BY <3>1, <3>2 DEF InStep
      <3>4. AnswerIsLast' = AnswerIsLast BY <3>1 DEF AnswerIsLast
      <3> QED BY <1>2, <3>1, <3>3, <3>4 DEF ReplyInv
    <2>6. RequestStep => UNCHANGED replyVars BY DEF RequestStep, SendRequest, ServerDecodes
    <2>7. UNCHANGED vars => UNCHANGED replyVars BY DEF vars
    <2> QED BY <1>2, <2>1, <2>2, <2>3, <2>4, <2>5, <2>6, <2>7, <2>8, <2>9 DEF Next, ReplyStep
  <1> QED BY <1>1, <1>2, PTL DEF Spec

\* ProtoMsgDecoder gives a mirror the messages the server meant, in their order,
\* however they are cut into chunks.
THEOREM MessagesReassembled == Spec => []Reassembled
  <1>1. ASSUME ReplyInv PROVE Reassembled
    <2> SUFFICES ASSUME kind = "mirror" PROVE IsPrefix(popped, whole)
      BY DEF Reassembled
    <2>1. PICK q : q \in Seq(Pieces) /\ q = replies BY <1>1 DEF ReplyInv
    <2>2. PICK d : d = Decoder OBVIOUS
    <2>3. PICK e : e = Meant OBVIOUS
    <2>4. PICK st : Runs(st, q, d) /\ st[Len(q) + 1] = e BY <1>1, <2>1, <2>2, <2>3 DEF ReplyInv, InStep
    <2>5. d \in Decoders /\ e \in Decoders /\ Longer(d.msgs, e.msgs) BY <2>1, <2>4, RunEnds
    <2>6. d.msgs = popped /\ e.msgs = whole BY <2>2, <2>3 DEF Decoder, Meant, Heard
    <2>7. PICK a : a = d.msgs OBVIOUS
    <2>8. PICK b : b = e.msgs OBVIOUS
    <2>9. a \in Seq(Messages) /\ b \in Seq(Messages) /\ Longer(a, b) BY <2>5, <2>7, <2>8 DEF Decoders
    <2>10. PICK n \in Nat : n = Len(a) BY <2>9
    <2>11. n <= Len(b) /\ Len(b) \in Nat /\ \A i \in 1..n : a[i] = b[i] /\ a[i] \in Messages /\ b[i] \in Messages
      BY <2>9, <2>10 DEF Longer
    <2>12. SubSeq(a, 1, n) = SubSeq(b, 1, n)
      <3>1. PICK u : u = SubSeq(a, 1, n) OBVIOUS
      <3>2. PICK v : v = SubSeq(b, 1, n) OBVIOUS
      <3>3. 1 \in Int /\ n \in Int /\ (IF 1 <= n THEN n - 1 + 1 ELSE 0) = n /\ n - 1 + 1 = n OBVIOUS
      <3>4. u \in Seq(Messages) /\ Len(u) = n /\ \A i \in 1..n : u[i] = a[1 + i - 1] BY <2>11, <3>1, <3>3, SubSeqProperties
      <3>5. v \in Seq(Messages) /\ Len(v) = n /\ \A i \in 1..n : v[i] = b[1 + i - 1] BY <2>11, <3>2, <3>3, SubSeqProperties
      <3>6. \A i \in 1..n : 1 + i - 1 = i OBVIOUS
      <3>7. \A i \in 1..n : u[i] = v[i] BY <2>11, <3>4, <3>5, <3>6
      <3> QED BY <3>1, <3>2, <3>4, <3>5, <3>7, SeqEqual
    <2> QED BY <2>6, <2>7, <2>8, <2>10, <2>11, <2>12 DEF IsPrefix
  <1> QED BY <1>1, ReplyInvariant, PTL

\* makeRequest resolves with the last complete message of the answer or null when the
\* server closed the stream, with one of its complete messages or null when the socket
\* was lost, and a method returns that message or throws.
THEOREM AnswersAreLast == Spec => []AnswerIsLast
  <1>1. ReplyInv => AnswerIsLast BY DEF ReplyInv
  <1> QED BY <1>1, ReplyInvariant, PTL
-----------------------------------------------------------------------------
\* A text in a buffer, behind o numbers.
In(buf, o, e) == o + Len(e) <= Len(buf) /\ \A i \in 1..Len(e) : buf[o + i] = e[i]
Half == ShortMod \div 2

LEMMA HalfIs == Half \in Nat /\ 2 < Half /\ Half < ShortMod /\ ShortMod \in Nat
  <1>1. ShortMod \in Nat /\ ShortMod >= 6 BY ProtoBounds
  <1> QED BY <1>1 DEF Half

LEMMA InConcat ==
  ASSUME NEW a \in Seq(Nat), NEW b \in Seq(Nat)
  PROVE  /\ a \o b \in Seq(Nat) /\ Len(a \o b) = Len(a) + Len(b)
         /\ In(a \o b, 0, a) /\ In(a \o b, Len(a), b)
  <1>1. PICK c : c = a \o b OBVIOUS
  <1>2. PICK l \in Nat : l = Len(a) OBVIOUS
  <1>3. PICK k \in Nat : k = Len(b) OBVIOUS
  <1>4. c \in Seq(Nat) /\ Len(c) = l + k /\ \A i \in 1..(l + k) : c[i] = IF i <= l THEN a[i] ELSE b[i - l]
    BY <1>1, <1>2, <1>3, ConcatProperties
  <1>5. \A i \in 1..l : c[0 + i] = a[i]
    <2>1. \A i \in 1..l : 0 + i \in 1..(l + k) /\ 0 + i = i /\ i <= l OBVIOUS
    <2> QED BY <1>4, <2>1
  <1>6. \A i \in 1..k : c[l + i] = b[i]
    <2>1. \A i \in 1..k : l + i \in 1..(l + k) /\ (l + i) - l = i /\ ~(l + i <= l) OBVIOUS
    <2> QED BY <1>4, <2>1
  <1>7. 0 + l <= l + k /\ l + k <= l + k OBVIOUS
  <1> QED BY <1>1, <1>2, <1>3, <1>4, <1>5, <1>6, <1>7 DEF In

LEMMA InIn ==
  ASSUME NEW buf \in Seq(Nat), NEW e \in Seq(Nat), NEW f \in Seq(Nat), NEW o \in Nat, NEW p \in Nat, In(buf, o, e), In(e, p, f)
  PROVE  In(buf, o + p, f)
  <1>1. Len(buf) \in Nat /\ Len(e) \in Nat /\ Len(f) \in Nat OBVIOUS
  <1>2. o + Len(e) <= Len(buf) /\ p + Len(f) <= Len(e) BY DEF In
  <1>3. (o + p) + Len(f) <= Len(buf) BY <1>1, <1>2
  <1>4. ASSUME NEW i \in 1..Len(f) PROVE buf[(o + p) + i] = f[i]
    <2>1. p + i \in 1..Len(e) /\ (o + p) + i = o + (p + i) BY <1>1, <1>2
    <2>2. e[p + i] = f[i] /\ buf[o + (p + i)] = e[p + i] BY <2>1 DEF In
    <2> QED BY <2>1, <2>2
  <1> QED BY <1>3, <1>4 DEF In

\* What was written is read back.
LEMMA TextIs ==
  ASSUME NEW buf \in Seq(Nat), NEW t \in Seq(Nat), NEW o \in Nat, In(buf, o, t)
  PROVE  /\ SubSeq(buf, o + 1, o + Len(t)) = t
         /\ Text(buf, o, Len(t)) = [text |-> t, next |-> (o + Len(t)) + 1]
  <1>1. PICK n \in Nat : n = Len(t) OBVIOUS
  <1>2. o + n <= Len(buf) /\ Len(buf) \in Nat /\ \A i \in 1..n : buf[o + i] = t[i] BY <1>1 DEF In
  <1>3. PICK u : u = SubSeq(buf, o + 1, o + n) OBVIOUS
  <1>4. /\ o + 1 \in Int /\ o + n \in Int
        /\ (IF o + 1 <= o + n THEN (o + n) - (o + 1) + 1 ELSE 0) = n /\ (o + n) - (o + 1) + 1 = n
    OBVIOUS
  <1>5. \A i \in (o + 1)..(o + n) : buf[i] \in Nat
    <2>1. \A i \in (o + 1)..(o + n) : i \in 1..Len(buf) BY <1>2
    <2> QED BY <2>1
  <1>6. u \in Seq(Nat) /\ Len(u) = n /\ \A i \in 1..n : u[i] = buf[(o + 1) + i - 1]
    <2>1. PICK j \in Int : j = o + 1 OBVIOUS
    <2>2. PICK k \in Int : k = o + n OBVIOUS
    <2>3. u = SubSeq(buf, j, k) /\ (\A i \in j..k : buf[i] \in Nat) BY <1>3, <1>5, <2>1, <2>2
    <2>4. (IF j <= k THEN k - j + 1 ELSE 0) = n /\ k - j + 1 = n BY <2>1, <2>2
    <2>5. u \in Seq(Nat) /\ Len(u) = (IF j <= k THEN k - j + 1 ELSE 0) /\ \A i \in 1..(k - j + 1) : u[i] = buf[j + i - 1]
      BY ONLY <2>3, j \in Int, k \in Int, SubSeqProperties
    <2> QED BY <2>1, <2>4, <2>5
  <1>7. \A i \in 1..n : (o + 1) + i - 1 = o + i OBVIOUS
  <1>8. u = t
    <2>1. \A i \in 1..n : u[i] = t[i] BY <1>2, <1>6, <1>7
    <2> QED BY <1>1, <1>6, <2>1, SeqEqual
  <1>9. ~(n < 0 \/ o + n > Len(buf)) BY <1>2
  <1>10. Text(buf, o, n) = [text |-> u, next |-> o + n + 1] BY <1>3, <1>9 DEF Text
  <1> QED BY <1>1, <1>3, <1>8, <1>10

LEMMA FieldIs ==
  ASSUME NEW t \in Seq(Nat)
  PROVE  /\ Field(t) \in Seq(Nat) /\ Len(Field(t)) = Len(t) + 1
         /\ Field(t)[1] = Len(t) % ShortMod /\ In(Field(t), 1, t)
  <1>1. PICK n \in Nat : n = Len(t) OBVIOUS
  <1>2. PICK v : v = n % ShortMod OBVIOUS
  <1>3. v \in Nat BY <1>2, HalfIs
  <1>4. PICK a : a = <<v>> OBVIOUS
  <1>5. a \in Seq(Nat) /\ Len(a) = 1 /\ a[1] = v BY <1>3, <1>4
  <1>6. Field(t) = a \o t BY <1>1, <1>2, <1>4 DEF Field
  <1>7. a \o t \in Seq(Nat) /\ Len(a \o t) = 1 + n /\ In(a \o t, 0, a) /\ In(a \o t, 1, t) BY <1>1, <1>5, InConcat
  <1>8. (a \o t)[1] = v
    <2>1. 1 \in 1..Len(a) /\ 0 + 1 = 1 BY <1>5
    <2>2. (a \o t)[0 + 1] = a[1] BY <1>7, <2>1 DEF In
    <2> QED BY <1>5, <2>1, <2>2
  <1> QED BY <1>1, <1>2, <1>6, <1>7, <1>8

\* A field is read where it was written, refused if its length is taken for a negative
\* number, and refused behind a field that was.
LEMMA ReadIs ==
  ASSUME NEW buf \in Seq(Nat), NEW t \in Seq(Nat), NEW o \in Nat, In(buf, o, Field(t)), Len(t) < ShortMod, NEW q \in {0, o + 1}
  PROVE  ReadField(buf, q) = IF q = o + 1 /\ Len(t) < Half THEN [text |-> t, next |-> (o + Len(Field(t))) + 1] ELSE Error
  <1>1. PICK n \in Nat : n = Len(t) OBVIOUS
  <1>2. PICK f : f = Field(t) OBVIOUS
  <1>3. f \in Seq(Nat) /\ Len(f) = n + 1 /\ f[1] = n % ShortMod /\ In(f, 1, t) BY <1>1, <1>2, FieldIs
  <1>4. n % ShortMod = n
    <2>1. n < ShortMod BY <1>1
    <2> QED BY <2>1, HalfIs
  <1>5. CASE q = 0
    <2>1. ReadField(buf, q) = Error BY <1>5 DEF ReadField
    <2>2. q # o + 1 BY <1>5
    <2> QED BY <2>1, <2>2
  <1>6. CASE q = o + 1
    <2>1. In(buf, o, f) BY <1>2
    <2>2. o + (n + 1) <= Len(buf) /\ Len(buf) \in Nat BY <1>3, <2>1 DEF In
    <2>3. buf[o + 1] = n
      <3>1. 1 \in 1..Len(f) BY <1>3
      <3>2. buf[o + 1] = f[1] BY <2>1, <3>1 DEF In
      <3> QED BY <1>3, <1>4, <3>2
    <2>4. ~(q = 0 \/ q > Len(buf)) BY <1>6, <2>2
    <2>5. ReadField(buf, q) = Text(buf, o + 1, Signed(n)) BY <1>6, <2>3, <2>4 DEF ReadField
    <2>6. CASE n < Half
      <3>1. Signed(n) = n BY <2>6, HalfIs DEF Signed, Half
      <3>2. In(buf, o + 1, t) BY <1>3, <2>1, InIn
      <3>3. Text(buf, o + 1, n) = [text |-> t, next |-> ((o + 1) + n) + 1]
        <4>1. o + 1 \in Nat OBVIOUS
        <4> QED BY <1>1, <3>2, <4>1, TextIs
      <3>4. ((o + 1) + n) + 1 = (o + (n + 1)) + 1 OBVIOUS
      <3> QED BY <1>1, <1>2, <1>3, <1>6, <2>5, <2>6, <3>1, <3>3, <3>4
    <2>7. CASE ~(n < Half)
      <3>1. n < ShortMod BY <1>1
      <3>2. Signed(n) = n - ShortMod /\ n - ShortMod < 0 BY <2>7, <3>1, HalfIs DEF Signed, Half
      <3>3. Text(buf, o + 1, Signed(n)) = Error BY <3>2 DEF Text
      <3> QED BY <1>1, <2>5, <2>7, <3>3
    <2> QED BY <2>6, <2>7
  <1> QED BY <1>5, <1>6

\* A tail request, alone or in a batch.
TailMsgs ==
  [type : {"tail"}, since : 0..1, table : Seq(Nat), expectedColumns : Seq(Nat), filterExpr : Seq(Nat), params : Seq(Nat)]
TextsOfTail(m) == {m.table, m.expectedColumns, m.filterExpr, m.params}

\* Where the fields of a tail request are, behind its kind and its since.
Laid(m, e, o2, o3, o4) ==
  /\ e \in Seq(Nat) /\ e[1] = 2 /\ e[2] = m.since /\ Len(e) \in Nat /\ 6 <= Len(e)
  /\ o2 = 2 + Len(Field(m.table)) /\ o3 = o2 + Len(Field(m.expectedColumns)) /\ o4 = o3 + Len(Field(m.filterExpr))
  /\ Len(e) = o4 + Len(Field(m.params))
  /\ In(e, 2, Field(m.table)) /\ In(e, o2, Field(m.expectedColumns)) /\ In(e, o3, Field(m.filterExpr))
  /\ In(e, o4, Field(m.params))

LEMMA TailParts ==
  ASSUME NEW m \in TailMsgs, NEW e, e = EncodeTail(m)
  PROVE  \E o2, o3, o4 \in Nat : Laid(m, e, o2, o3, o4)
  <1>1. PICK a : a = m.table OBVIOUS
  <1>2. PICK b : b = m.expectedColumns OBVIOUS
  <1>3. PICK c : c = m.filterExpr OBVIOUS
  <1>4. PICK d : d = m.params OBVIOUS
  <1>5. PICK o1 : o1 = 2 OBVIOUS
  <1>6. PICK o2 : o2 = o1 + Len(Field(a)) OBVIOUS
  <1>7. PICK o3 : o3 = o2 + Len(Field(b)) OBVIOUS
  <1>8. PICK o4 : o4 = o3 + Len(Field(c)) OBVIOUS
  <1>9. a \in Seq(Nat) /\ b \in Seq(Nat) /\ c \in Seq(Nat) /\ d \in Seq(Nat) /\ m.since \in Nat BY <1>1, <1>2, <1>3, <1>4 DEF TailMsgs
  <1>10. PICK fa : fa = Field(a) OBVIOUS
  <1>11. PICK fb : fb = Field(b) OBVIOUS
  <1>12. PICK fc : fc = Field(c) OBVIOUS
  <1>13. PICK fd : fd = Field(d) OBVIOUS
  <1>14. /\ fa \in Seq(Nat) /\ Len(fa) \in Nat /\ Len(fa) >= 1
        /\ fb \in Seq(Nat) /\ Len(fb) \in Nat /\ Len(fb) >= 1
        /\ fc \in Seq(Nat) /\ Len(fc) \in Nat /\ Len(fc) >= 1
        /\ fd \in Seq(Nat) /\ Len(fd) \in Nat /\ Len(fd) >= 1
    <2>1. ASSUME NEW t \in Seq(Nat), NEW f, f = Field(t) PROVE f \in Seq(Nat) /\ Len(f) \in Nat /\ Len(f) >= 1
      <3>1. f \in Seq(Nat) /\ Len(f) = Len(t) + 1 /\ Len(t) \in Nat BY <2>1, FieldIs
      <3> QED BY <3>1
    <2> QED BY <1>9, <1>10, <1>11, <1>12, <1>13, <2>1
  <1>15. PICK s \in Nat : s = m.since BY <1>9
  <1>16. PICK e0 : e0 = <<2, s>> OBVIOUS
  <1>17. e0 \in Seq(Nat) /\ Len(e0) = 2 /\ e0[1] = 2 /\ e0[2] = s BY <1>16
  <1>18. PICK e1 : e1 = e0 \o fa OBVIOUS
  <1>19. PICK e2 : e2 = e1 \o fb OBVIOUS
  <1>20. PICK e3 : e3 = e2 \o fc OBVIOUS
  <1>21. e = e3 \o fd BY <1>10, <1>11, <1>12, <1>13, <1>15, <1>16, <1>18, <1>19, <1>20, <1>1, <1>2, <1>3, <1>4 DEF EncodeTail
  <1>22. ASSUME NEW x \in Seq(Nat), NEW y \in Seq(Nat), NEW z, z = x \o y
         PROVE  z \in Seq(Nat) /\ Len(z) = Len(x) + Len(y) /\ In(z, 0, x) /\ In(z, Len(x), y)
    BY <1>22, InConcat
  <1>23. e1 \in Seq(Nat) /\ Len(e1) = o2 /\ In(e1, 0, e0) /\ In(e1, o1, fa)
    <2>1. e1 \in Seq(Nat) /\ Len(e1) = Len(e0) + Len(fa) /\ In(e1, 0, e0) /\ In(e1, Len(e0), fa) BY <1>14, <1>17, <1>18, <1>22
    <2> QED BY <1>10, <1>17, <1>5, <1>6, <2>1
  <1>24. e2 \in Seq(Nat) /\ Len(e2) = o3 /\ In(e2, 0, e1) /\ In(e2, o2, fb)
    <2>1. e2 \in Seq(Nat) /\ Len(e2) = Len(e1) + Len(fb) /\ In(e2, 0, e1) /\ In(e2, Len(e1), fb) BY <1>14, <1>19, <1>22, <1>23
    <2> QED BY <1>11, <1>23, <1>7, <2>1
  <1>25. e3 \in Seq(Nat) /\ Len(e3) = o4 /\ In(e3, 0, e2) /\ In(e3, o3, fc)
    <2>1. e3 \in Seq(Nat) /\ Len(e3) = Len(e2) + Len(fc) /\ In(e3, 0, e2) /\ In(e3, Len(e2), fc) BY <1>14, <1>20, <1>22, <1>24
    <2> QED BY <1>12, <1>24, <1>8, <2>1
  <1>26. e \in Seq(Nat) /\ Len(e) = o4 + Len(fd) /\ In(e, 0, e3) /\ In(e, o4, fd)
    <2>1. e \in Seq(Nat) /\ Len(e) = Len(e3) + Len(fd) /\ In(e, 0, e3) /\ In(e, Len(e3), fd) BY <1>14, <1>21, <1>22, <1>25
    <2> QED BY <1>13, <1>25, <2>1
  <1>27. o1 \in Nat /\ o2 \in Nat /\ o3 \in Nat /\ o4 \in Nat /\ Len(e) \in Nat /\ 6 <= Len(e)
    <2>1. PICK i \in Nat \ {0} : i = Len(fa) BY <1>14
    <2>2. PICK j \in Nat \ {0} : j = Len(fb) BY <1>14
    <2>3. PICK k \in Nat \ {0} : k = Len(fc) BY <1>14
    <2>4. PICK l \in Nat \ {0} : l = Len(fd) BY <1>14
    <2>5. o2 = 2 + i /\ o3 = o2 + j /\ o4 = o3 + k BY <1>10, <1>11, <1>12, <1>5, <1>6, <1>7, <1>8, <2>1, <2>2, <2>3
    <2>6. Len(e) = o4 + l BY <1>26, <2>4
    <2>7. PICK z : z = Len(e) OBVIOUS
    <2>8. o2 \in Nat /\ o3 \in Nat /\ o4 \in Nat /\ z \in Nat /\ 6 <= z
      BY ONLY <2>5, <2>6, <2>7, i \in Nat \ {0}, j \in Nat \ {0}, k \in Nat \ {0}, l \in Nat \ {0}
    <2> QED BY <1>5, <2>7, <2>8
  <1>28. ASSUME NEW f \in Seq(Nat), NEW g \in Seq(Nat), NEW h \in Seq(Nat), NEW p \in Nat, In(h, 0, g), In(g, p, f) PROVE In(h, p, f)
    <2>1. PICK z \in Nat : z = 0 OBVIOUS
    <2>2. In(h, z + p, f) BY <1>28, <2>1, InIn
    <2>3. z + p = p BY <2>1
    <2> QED BY <2>2, <2>3
  <1>29. In(e, o3, fc) BY <1>14, <1>25, <1>26, <1>28, <1>27
  <1>30. In(e, 0, e2) /\ In(e, o2, fb)
    <2>1. PICK z \in Nat : z = 0 OBVIOUS
    <2>2. In(e, 0, e2) BY <1>24, <1>25, <1>26, <1>28, <2>1
    <2> QED BY <1>14, <1>24, <1>26, <1>28, <1>27, <2>2
  <1>31. In(e, 0, e1) /\ In(e, o1, fa)
    <2>1. PICK z \in Nat : z = 0 OBVIOUS
    <2>2. In(e, 0, e1) BY <1>23, <1>24, <1>26, <1>28, <1>30, <2>1
    <2> QED BY <1>14, <1>23, <1>26, <1>28, <1>27, <2>2
  <1>32. e[1] = 2 /\ e[2] = s
    <2>1. PICK z \in Nat : z = 0 OBVIOUS
    <2>2. In(e, 0, e0) BY <1>17, <1>23, <1>26, <1>28, <1>31, <2>1
    <2>3. 1 \in 1..Len(e0) /\ 2 \in 1..Len(e0) /\ 0 + 1 = 1 /\ 0 + 2 = 2 BY <1>17
    <2>4. e[0 + 1] = e0[1] /\ e[0 + 2] = e0[2] BY <2>2, <2>3 DEF In
    <2> QED BY <1>17, <2>3, <2>4
  <1>33. Laid(m, e, o2, o3, o4)
    BY <1>10, <1>11, <1>12, <1>13, <1>15, <1>26, <1>27, <1>29, <1>30, <1>31, <1>32, <1>1, <1>2, <1>3, <1>4, <1>5, <1>6, <1>7, <1>8 DEF Laid
  <1> QED BY <1>27, <1>33

LEMMA DecodeTailIs ==
  ASSUME NEW buf \in Seq(Nat), NEW m \in TailMsgs, NEW o \in Nat, NEW p, p = o + 1, In(buf, o, EncodeTail(m)),
         \A t \in TextsOfTail(m) : Len(t) < ShortMod, NEW r, r = DecodeTail(buf, p)
  PROVE  /\ (\A t \in TextsOfTail(m) : Len(t) < Half) => r = [msg |-> m, next |-> (o + Len(EncodeTail(m))) + 1]
         /\ ~(\A t \in TextsOfTail(m) : Len(t) < Half) => r.next = 0
  <1>1. PICK a : a = m.table OBVIOUS
  <1>2. PICK b : b = m.expectedColumns OBVIOUS
  <1>3. PICK c : c = m.filterExpr OBVIOUS
  <1>4. PICK d : d = m.params OBVIOUS
  <1>5. PICK e : e = EncodeTail(m) OBVIOUS
  <1>6. PICK o1 \in Nat : o1 = 2 OBVIOUS
  <1>7. PICK o2, o3, o4 \in Nat : Laid(m, e, o2, o3, o4) BY <1>5, TailParts
  <1>8. o2 = o1 + Len(Field(a)) /\ o3 = o2 + Len(Field(b)) /\ o4 = o3 + Len(Field(c)) BY <1>1, <1>2, <1>3, <1>6, <1>7 DEF Laid
  <1>9. /\ e \in Seq(Nat) /\ Len(e) = o4 + Len(Field(d)) /\ e[2] = m.since
         /\ o1 \in Nat /\ o2 \in Nat /\ o3 \in Nat /\ o4 \in Nat /\ Len(e) \in Nat /\ 6 <= Len(e)
         /\ In(e, o1, Field(a)) /\ In(e, o2, Field(b)) /\ In(e, o3, Field(c)) /\ In(e, o4, Field(d))
    BY <1>1, <1>2, <1>3, <1>4, <1>6, <1>7 DEF Laid
  <1>11. /\ a \in Seq(Nat) /\ b \in Seq(Nat) /\ c \in Seq(Nat) /\ d \in Seq(Nat)
         /\ Len(a) < ShortMod /\ Len(b) < ShortMod /\ Len(c) < ShortMod /\ Len(d) < ShortMod
    BY <1>1, <1>2, <1>3, <1>4 DEF TailMsgs, TextsOfTail
  <1>12. In(buf, o, e) BY <1>5
  <1>13. In(buf, o + o1, Field(a)) /\ In(buf, o + o2, Field(b)) /\ In(buf, o + o3, Field(c)) /\ In(buf, o + o4, Field(d))
    <2>1. Field(a) \in Seq(Nat) /\ Field(b) \in Seq(Nat) /\ Field(c) \in Seq(Nat) /\ Field(d) \in Seq(Nat) BY <1>11, FieldIs
    <2> QED BY <1>9, <1>12, <2>1, InIn
  <1>14. PICK ra : ra = ReadField(buf, p + 2) OBVIOUS
  <1>15. PICK rb : rb = ReadField(buf, ra.next) OBVIOUS
  <1>16. PICK rc : rc = ReadField(buf, rb.next) OBVIOUS
  <1>17. PICK rd : rd = ReadField(buf, rc.next) OBVIOUS
  <1>18. r = [msg |-> [type |-> "tail", since |-> buf[p + 1], table |-> ra.text, expectedColumns |-> rb.text,
                       filterExpr |-> rc.text, params |-> rd.text],
              next |-> rd.next]
    BY <1>14, <1>15, <1>16, <1>17 DEF DecodeTail
  <1>19. ra = IF Len(a) < Half THEN [text |-> a, next |-> (o + o2) + 1] ELSE Error
    <2>1. PICK k \in Nat : k = o + o1 BY <1>9
    <2>2. p + 2 = k + 1 BY <1>6, <2>1
    <2>3. PICK q \in {0, k + 1} : q = p + 2 BY <2>2
    <2>4. ReadField(buf, q) = IF q = k + 1 /\ Len(a) < Half THEN [text |-> a, next |-> (k + Len(Field(a))) + 1] ELSE Error
      <3>1. In(buf, k, Field(a)) BY <1>13, <2>1
      <3>2. a \in Seq(Nat) /\ Len(a) < ShortMod BY <1>11
      <3> QED BY ONLY <3>1, <3>2, buf \in Seq(Nat), k \in Nat, q \in {0, k + 1}, ReadIs
    <2>5. k + Len(Field(a)) = o + o2
      <3>1. Len(Field(a)) \in Nat BY <1>11, FieldIs
      <3> QED BY <1>8, <1>9, <2>1, <3>1
    <2> QED BY <1>14, <2>2, <2>3, <2>4, <2>5
  <1>20. rb = IF Len(a) < Half /\ Len(b) < Half THEN [text |-> b, next |-> (o + o3) + 1] ELSE Error
    <2>1. PICK k \in Nat : k = o + o2 BY <1>9
    <2>2. PICK q \in {0, k + 1} : q = ra.next /\ (q = k + 1 <=> Len(a) < Half) BY <1>19, <2>1 DEF Error
    <2>3. ReadField(buf, q) = IF q = k + 1 /\ Len(b) < Half THEN [text |-> b, next |-> (k + Len(Field(b))) + 1] ELSE Error
      <3>1. In(buf, k, Field(b)) BY <1>13, <2>1
      <3>2. b \in Seq(Nat) /\ Len(b) < ShortMod BY <1>11
      <3> QED BY ONLY <3>1, <3>2, buf \in Seq(Nat), k \in Nat, q \in {0, k + 1}, ReadIs
    <2>4. k + Len(Field(b)) = o + o3
      <3>1. Len(Field(b)) \in Nat BY <1>11, FieldIs
      <3> QED BY <1>8, <1>9, <2>1, <3>1
    <2> QED BY <1>15, <2>2, <2>3, <2>4
  <1>21. rc = IF Len(a) < Half /\ Len(b) < Half /\ Len(c) < Half THEN [text |-> c, next |-> (o + o4) + 1] ELSE Error
    <2>1. PICK k \in Nat : k = o + o3 BY <1>9
    <2>2. PICK q \in {0, k + 1} : q = rb.next /\ (q = k + 1 <=> Len(a) < Half /\ Len(b) < Half) BY <1>20, <2>1 DEF Error
    <2>3. ReadField(buf, q) = IF q = k + 1 /\ Len(c) < Half THEN [text |-> c, next |-> (k + Len(Field(c))) + 1] ELSE Error
      <3>1. In(buf, k, Field(c)) BY <1>13, <2>1
      <3>2. c \in Seq(Nat) /\ Len(c) < ShortMod BY <1>11
      <3> QED BY ONLY <3>1, <3>2, buf \in Seq(Nat), k \in Nat, q \in {0, k + 1}, ReadIs
    <2>4. k + Len(Field(c)) = o + o4
      <3>1. Len(Field(c)) \in Nat BY <1>11, FieldIs
      <3> QED BY <1>8, <1>9, <2>1, <3>1
    <2> QED BY <1>16, <2>2, <2>3, <2>4
  <1>22. rd = IF Len(a) < Half /\ Len(b) < Half /\ Len(c) < Half /\ Len(d) < Half
              THEN [text |-> d, next |-> (o + Len(e)) + 1] ELSE Error
    <2>1. PICK k \in Nat : k = o + o4 BY <1>9
    <2>2. PICK q \in {0, k + 1} : q = rc.next /\ (q = k + 1 <=> Len(a) < Half /\ Len(b) < Half /\ Len(c) < Half)
      BY <1>21, <2>1 DEF Error
    <2>3. ReadField(buf, q) = IF q = k + 1 /\ Len(d) < Half THEN [text |-> d, next |-> (k + Len(Field(d))) + 1] ELSE Error
      <3>1. In(buf, k, Field(d)) BY <1>13, <2>1
      <3>2. d \in Seq(Nat) /\ Len(d) < ShortMod BY <1>11
      <3> QED BY ONLY <3>1, <3>2, buf \in Seq(Nat), k \in Nat, q \in {0, k + 1}, ReadIs
    <2>4. k + Len(Field(d)) = o + Len(e)
      <3>1. Len(Field(d)) \in Nat BY <1>11, FieldIs
      <3> QED BY <1>9, <2>1, <3>1
    <2> QED BY <1>17, <2>2, <2>3, <2>4
  <1>23. (\A t \in TextsOfTail(m) : Len(t) < Half) <=> Len(a) < Half /\ Len(b) < Half /\ Len(c) < Half /\ Len(d) < Half
    BY <1>1, <1>2, <1>3, <1>4 DEF TextsOfTail
  <1>24. buf[p + 1] = m.since
    <2>1. 2 \in 1..Len(e) /\ o + 2 = p + 1 BY <1>9
    <2>2. buf[o + 2] = e[2] BY <1>12, <2>1 DEF In
    <2> QED BY <1>9, <2>1, <2>2
  <1>25. m = [type |-> "tail", since |-> m.since, table |-> a, expectedColumns |-> b, filterExpr |-> c, params |-> d]
    BY <1>1, <1>2, <1>3, <1>4 DEF TailMsgs
  <1>26. CASE Len(a) < Half /\ Len(b) < Half /\ Len(c) < Half /\ Len(d) < Half
    <2>1. ra.text = a /\ rb.text = b /\ rc.text = c /\ rd.text = d /\ rd.next = (o + Len(e)) + 1
      BY <1>19, <1>20, <1>21, <1>22, <1>26
    <2> QED BY <1>5, <1>18, <1>23, <1>24, <1>25, <1>26, <2>1
  <1>27. CASE ~(Len(a) < Half /\ Len(b) < Half /\ Len(c) < Half /\ Len(d) < Half)
    <2>1. rd.next = 0 BY <1>22, <1>27 DEF Error
    <2> QED BY <1>18, <1>23, <1>27, <2>1
  <1> QED BY <1>26, <1>27
-----------------------------------------------------------------------------
\* The server made of the request what RequestUnderstood says.
Understood(m, g) ==
  /\ Fits(m) => g = m
  /\ TooLong(m) => g = Refused
  /\ ~Fits(m) /\ m.type # "schema" /\ (\A t \in TextsOf(m) : Len(t) < ShortMod) => g = Refused
  /\ m.type = "schema" /\ Len(m.name) \in Half..(ShortMod - 1) => g = [m EXCEPT !.name = <<>>, !.suffix = <<>>]
  /\ m.type = "createDatabase" => g \in {Refused, [m EXCEPT !.name = Cut(@)]}
  /\ m.type = "pushPromise" => g \in {Refused, [m EXCEPT !.schemas = Cut(@)]}

LEMMA TextsAre ==
  ASSUME NEW set \in {Texts, TailTexts, BatchTexts}, NEW t \in set
  PROVE  t \in Seq(Nat)
  <1>1. Bytes \subseteq Nat /\ t \in Seq(Bytes) BY ProtoBounds
  <1>2. Len(t) \in Nat /\ t \in [1..Len(t) -> Bytes] BY <1>1
  <1>3. t \in [1..Len(t) -> Nat] BY <1>1, <1>2
  <1> QED BY <1>2, <1>3, SeqDef

LEMMA QueryUnderstood ==
  ASSUME NEW m, m.type = "query", NEW q \in Seq(Nat), q = m.query, NEW f \in Nat, f = m.format,
         m = [type |-> "query", format |-> f, query |-> q]
  PROVE  encodeProtoMsg(m) # <<>> /\ Understood(m, decodeProtoMsg(encodeProtoMsg(m)))
  <1>1. PICK n \in Nat : n = Len(q) OBVIOUS
  <1>2. PICK a : a = <<1, f, n>> OBVIOUS
  <1>3. a \in Seq(Nat) /\ Len(a) = 3 /\ a[1] = 1 /\ a[2] = f /\ a[3] = n BY <1>2
  <1>4. PICK buf : buf = a \o q OBVIOUS
  <1>5. encodeProtoMsg(m) = buf BY <1>1, <1>2, <1>4 DEF encodeProtoMsg, EncodeQuery
  <1>6. buf \in Seq(Nat) /\ Len(buf) = 3 + n /\ In(buf, 0, a) /\ In(buf, 3, q)
    <2>1. /\ a \o q \in Seq(Nat) /\ Len(a \o q) = Len(a) + Len(q)
          /\ In(a \o q, 0, a) /\ In(a \o q, Len(a), q)
      BY <1>3, InConcat, Zenon
    <2> QED BY <1>1, <1>3, <1>4, <2>1
  <1>7. buf[1] = 1 /\ buf[2] = f /\ buf[3] = n
    <2>1. 1 \in 1..Len(a) /\ 2 \in 1..Len(a) /\ 3 \in 1..Len(a) /\ 0 + 1 = 1 /\ 0 + 2 = 2 /\ 0 + 3 = 3 BY <1>3
    <2>2. buf[0 + 1] = a[1] /\ buf[0 + 2] = a[2] /\ buf[0 + 3] = a[3] BY <1>6, <2>1 DEF In
    <2> QED BY <1>3, <2>1, <2>2
  <1>8. PICK o \in Nat : o = 3 OBVIOUS
  <1>9. PICK r : r = IF n > MaxQuery THEN Error ELSE Text(buf, o, n) OBVIOUS
  <1>10. decodeProtoMsg(buf) = Decoded(r, [type |-> "query", format |-> f, query |-> r.text])
    BY <1>7, <1>8, <1>9 DEF decodeProtoMsg
  <1>11. TooLong(m) <=> n > MaxQuery BY <1>1 DEF TooLong
  <1>12. Fits(m) <=> ~TooLong(m) BY DEF Fits, TextsOf
  <1>13. Fits(m) => decodeProtoMsg(buf) = m
    <2> SUFFICES ASSUME ~(n > MaxQuery) PROVE decodeProtoMsg(buf) = m
      BY <1>11, <1>12
    <2>1. Text(buf, o, n) = [text |-> q, next |-> (o + n) + 1] BY <1>1, <1>6, <1>8, TextIs
    <2>2. r.next # 0 /\ r.text = q BY <1>8, <1>9, <2>1
    <2> QED BY <1>10, <2>2 DEF Decoded
  <1>14. TooLong(m) => decodeProtoMsg(buf) = Refused BY <1>9, <1>10, <1>11 DEF Decoded, Error
  <1>15. buf # <<>> BY <1>6
  <1> QED BY <1>5, <1>12, <1>13, <1>14, <1>15 DEF Understood

LEMMA DataUnderstood ==
  ASSUME NEW m, NEW q \in Seq(Nat), m = [type |-> "data", payload |-> q]
  PROVE  encodeProtoMsg(m) # <<>> /\ Understood(m, decodeProtoMsg(encodeProtoMsg(m)))
  <1>1. PICK n \in Nat : n = Len(q) OBVIOUS
  <1>2. PICK a : a = <<0, 1>> OBVIOUS
  <1>3. a \in Seq(Nat) /\ Len(a) = 2 /\ a[1] = 0 BY <1>2
  <1>4. PICK buf : buf = a \o q OBVIOUS
  <1>5. encodeProtoMsg(m) = buf BY <1>2, <1>4 DEF encodeProtoMsg, EncodeData
  <1>6. buf \in Seq(Nat) /\ Len(buf) = 2 + n /\ In(buf, 0, a) /\ In(buf, 2, q) BY <1>1, <1>3, <1>4, InConcat
  <1>7. buf[1] = 0
    <2>1. 1 \in 1..Len(a) /\ 0 + 1 = 1 BY <1>3
    <2>2. buf[0 + 1] = a[1] BY <1>6, <2>1 DEF In
    <2> QED BY <1>3, <2>1, <2>2
  <1>8. SubSeq(buf, 3, Len(buf)) = q
    <2>1. PICK o \in Nat : o = 2 OBVIOUS
    <2>2. SubSeq(buf, o + 1, o + n) = q BY <1>1, <1>6, <2>1, TextIs
    <2>3. o + 1 = 3 /\ o + n = Len(buf) BY <1>6, <2>1
    <2> QED BY <2>2, <2>3
  <1>9. decodeProtoMsg(buf) = [type |-> "data", payload |-> SubSeq(buf, 3, Len(buf))] BY <1>7 DEF decodeProtoMsg
  <1>10. Fits(m) /\ ~TooLong(m) /\ m.type = "data" BY DEF Fits, TooLong, TextsOf
  <1>11. buf # <<>> BY <1>6
  <1> QED BY <1>5, <1>8, <1>9, <1>10, <1>11 DEF Understood

\* What is left of a text is the first part of it.
LEMMA CutIs ==
  ASSUME NEW t \in Seq(Nat)
  PROVE  Cut(t) \in Seq(Nat) /\ Len(Cut(t)) = Len(t) % ShortMod /\ In(t, 0, Cut(t))
  <1>1. PICK n \in Nat : n = Len(t) OBVIOUS
  <1>2. PICK k \in Nat : k = n % ShortMod BY HalfIs
  <1>3. k <= n
    <2>1. CASE n < ShortMod
      <3>1. n % ShortMod = n BY <2>1, HalfIs
      <3> QED BY <1>2, <3>1
    <2>2. CASE ~(n < ShortMod)
      <3>1. n % ShortMod < ShortMod BY HalfIs
      <3> QED BY <1>2, <2>2, <3>1, HalfIs
    <2> QED BY <2>1, <2>2
  <1>4. PICK u : u = SubSeq(t, 1, k) OBVIOUS
  <1>5. \A i \in 1..k : t[i] \in Nat /\ 1 + i - 1 = i /\ i \in 1..n
    <2>1. \A i \in 1..k : i \in 1..n BY <1>3
    <2> QED BY <1>1, <2>1
  <1>6. u \in Seq(Nat) /\ Len(u) = (IF 1 <= k THEN k - 1 + 1 ELSE 0) /\ \A i \in 1..(k - 1 + 1) : u[i] = t[1 + i - 1]
    BY <1>4, <1>5, 1 \in Int, k \in Int, SubSeqProperties
  <1>7. k - 1 + 1 = k /\ (IF 1 <= k THEN k - 1 + 1 ELSE 0) = k OBVIOUS
  <1>8. Len(u) = k /\ \A i \in 1..k : u[i] = t[i] BY <1>5, <1>6, <1>7
  <1>9. In(t, 0, u)
    <2>1. \A i \in 1..k : 0 + i = i OBVIOUS
    <2> QED BY <1>1, <1>3, <1>8, <2>1 DEF In
  <1> QED BY <1>1, <1>2, <1>4, <1>6, <1>8, <1>9 DEF Cut

\* A buffer that is one field behind one number.
LEMMA OneField ==
  ASSUME NEW k \in Nat, NEW t \in Seq(Nat), NEW buf, buf = <<k>> \o Field(t)
  PROVE  /\ buf \in Seq(Nat) /\ buf # <<>> /\ buf[1] = k
         /\ Len(t) < ShortMod =>
              ReadField(buf, 2) = IF Len(t) < Half THEN [text |-> t, next |-> Len(t) + 3] ELSE Error
         /\ ReadField(buf, 2) \in {Error, [text |-> Cut(t), next |-> Len(Cut(t)) + 3]}
  <1>1. PICK a : a = <<k>> OBVIOUS
  <1>2. a \in Seq(Nat) /\ Len(a) = 1 /\ a[1] = k BY <1>1
  <1>3. PICK f : f = Field(t) OBVIOUS
  <1>4. f \in Seq(Nat) /\ Len(f) = Len(t) + 1 /\ Len(t) \in Nat BY <1>3, FieldIs
  <1>5. buf = a \o f BY <1>1, <1>3
  <1>6. buf \in Seq(Nat) /\ Len(buf) = Len(a) + Len(f) /\ In(buf, 0, a) /\ In(buf, Len(a), f) BY <1>2, <1>4, <1>5, InConcat
  <1>7. buf[1] = k
    <2>1. 1 \in 1..Len(a) /\ 0 + 1 = 1 BY <1>2
    <2>2. buf[0 + 1] = a[1] BY <1>6, <2>1 DEF In
    <2> QED BY <1>2, <2>1, <2>2
  <1>8. PICK o \in Nat : o = 1 OBVIOUS
  <1>9. PICK q \in {0, o + 1} : q = 2 BY <1>8
  <1>10. ASSUME Len(t) < ShortMod
         PROVE  ReadField(buf, q) = IF q = o + 1 /\ Len(t) < Half THEN [text |-> t, next |-> (o + Len(Field(t))) + 1] ELSE Error
    <2>1. In(buf, o, Field(t)) BY <1>2, <1>3, <1>6, <1>8
    <2> QED BY ONLY <1>6, <1>10, <2>1, t \in Seq(Nat), o \in Nat, q \in {0, o + 1}, ReadIs
  <1>11. (o + Len(Field(t))) + 1 = Len(t) + 3 /\ q = o + 1 BY <1>3, <1>4, <1>8, <1>9
  <1>12. buf # <<>> BY <1>2, <1>4, <1>6
  <1>13. ReadField(buf, 2) \in {Error, [text |-> Cut(t), next |-> Len(Cut(t)) + 3]}
    <2>1. PICK v \in Nat : v = Len(t) % ShortMod BY <1>4, HalfIs
    <2>2. f[1] = v /\ In(f, 1, t) BY <1>3, <2>1, FieldIs
    <2>3. PICK c : c = Cut(t) OBVIOUS
    <2>4. c \in Seq(Nat) /\ Len(c) = v /\ In(t, 0, c) BY <2>1, <2>3, CutIs
    <2>5. PICK p \in Nat : p = 2 OBVIOUS
    <2>6. PICK z \in Nat : z = 0 OBVIOUS
    <2>7. In(buf, p, c)
      <3>1. In(buf, o, f) /\ In(f, o, t) BY <1>2, <1>6, <1>8, <2>2
      <3>2. In(buf, o + o, t) BY ONLY <1>4, <1>6, <3>1, o \in Nat, t \in Seq(Nat), InIn
      <3>3. In(buf, p, t) /\ In(t, z, c) BY <1>8, <2>4, <2>5, <2>6, <3>2
      <3>4. In(buf, p + z, c) BY ONLY <1>6, <2>4, <3>3, p \in Nat, z \in Nat, t \in Seq(Nat), InIn
      <3> QED BY <2>6, <3>4
    <2>8. buf[2] = v /\ ~(2 = 0 \/ 2 > Len(buf))
      <3>1. 1 \in 1..Len(f) /\ o + 1 = 2 BY <1>4, <1>8
      <3>2. buf[o + 1] = f[1] BY <1>2, <1>6, <1>8, <3>1 DEF In
      <3> QED BY <1>2, <1>4, <1>6, <2>2, <3>1, <3>2
    <2>9. ReadField(buf, 2) = Text(buf, 2, Signed(v)) BY <2>8 DEF ReadField
    <2>10. CASE v < Half
      <3>1. Signed(v) = v BY <2>10, HalfIs DEF Signed, Half
      <3>2. Text(buf, p, v) = [text |-> c, next |-> (p + v) + 1] BY <1>6, <2>4, <2>7, TextIs
      <3>3. (p + v) + 1 = v + 3 BY <2>5
      <3> QED BY <2>3, <2>4, <2>5, <2>9, <3>1, <3>2, <3>3
    <2>11. CASE ~(v < Half)
      <3>1. v < ShortMod BY <1>4, <2>1, HalfIs
      <3>2. Signed(v) < 0 BY <2>11, <3>1, HalfIs DEF Signed, Half
      <3> QED BY <2>9, <3>2 DEF Text
    <2> QED BY <2>10, <2>11
  <1> QED BY <1>6, <1>7, <1>9, <1>10, <1>11, <1>12, <1>13

LEMMA NameUnderstood ==
  ASSUME NEW m, NEW t \in Seq(Nat),
         m = [type |-> "pushPromise", schemas |-> t] \/ m = [type |-> "createDatabase", name |-> t]
  PROVE  encodeProtoMsg(m) # <<>> /\ Understood(m, decodeProtoMsg(encodeProtoMsg(m)))
  <1>1. PICK k \in Nat : k = IF m.type = "pushPromise" THEN 3 ELSE 5 OBVIOUS
  <1>2. PICK buf : buf = <<k>> \o Field(t) OBVIOUS
  <1>3. encodeProtoMsg(m) = buf BY <1>1, <1>2 DEF encodeProtoMsg, EncodePushPromise, EncodeCreateDatabase
  <1>4. PICK r : r = ReadField(buf, 2) OBVIOUS
  <1>5. /\ buf \in Seq(Nat) /\ buf # <<>> /\ buf[1] = k
        /\ Len(t) < ShortMod => r = IF Len(t) < Half THEN [text |-> t, next |-> Len(t) + 3] ELSE Error
        /\ r \in {Error, [text |-> Cut(t), next |-> Len(Cut(t)) + 3]}
    BY <1>2, <1>4, OneField
  <1>6. TextsOf(m) = {t} /\ ~TooLong(m) BY DEF TextsOf, TooLong
  <1>7. Fits(m) <=> Len(t) < Half BY <1>6 DEF Fits, Half
  <1>8. PICK g : g = decodeProtoMsg(buf) OBVIOUS
  <1>9. g = IF r.next = 0 THEN Refused
            ELSE IF k = 3 THEN [type |-> "pushPromise", schemas |-> r.text] ELSE [type |-> "createDatabase", name |-> r.text]
    <2>1. CASE k = 3 BY <1>4, <1>5, <1>8, <2>1 DEF decodeProtoMsg, Decoded
    <2>2. CASE k = 5 BY <1>4, <1>5, <1>8, <2>2 DEF decodeProtoMsg, Decoded
    <2> QED BY <1>1, <2>1, <2>2
  <1>10. Fits(m) => g = m
    <2> SUFFICES ASSUME Len(t) < Half PROVE g = m
      BY <1>7
    <2>1. Len(t) \in Nat /\ Len(t) < ShortMod BY HalfIs
    <2>2. r.text = t /\ r.next # 0 BY <1>5, <2>1
    <2> QED BY <1>1, <1>9, <2>2
  <1>11. ~Fits(m) /\ Len(t) < ShortMod => g = Refused BY <1>5, <1>7, <1>9 DEF Error
  <1>12. g = Refused \/ g = IF k = 3 THEN [type |-> "pushPromise", schemas |-> Cut(t)] ELSE [type |-> "createDatabase", name |-> Cut(t)]
    <2>1. CASE r = Error BY <1>9, <2>1 DEF Error
    <2>2. CASE r = [text |-> Cut(t), next |-> Len(Cut(t)) + 3]
      <3>1. r.text = Cut(t) BY <2>2
      <3> QED BY <1>9, <3>1
    <2> QED BY <1>5, <2>1, <2>2
  <1>13. m.type = "createDatabase" => g \in {Refused, [m EXCEPT !.name = Cut(@)]}
    <2> SUFFICES ASSUME m.type = "createDatabase" PROVE g \in {Refused, [m EXCEPT !.name = Cut(@)]}
      OBVIOUS
    <2>1. m = [type |-> "createDatabase", name |-> t] /\ k # 3 BY <1>1
    <2>2. [m EXCEPT !.name = Cut(@)] = [type |-> "createDatabase", name |-> Cut(t)] BY <2>1
    <2> QED BY <1>12, <2>1, <2>2
  <1>14. m.type = "pushPromise" => g \in {Refused, [m EXCEPT !.schemas = Cut(@)]}
    <2> SUFFICES ASSUME m.type = "pushPromise" PROVE g \in {Refused, [m EXCEPT !.schemas = Cut(@)]}
      OBVIOUS
    <2>1. m = [type |-> "pushPromise", schemas |-> t] /\ k = 3 BY <1>1
    <2>2. [m EXCEPT !.schemas = Cut(@)] = [type |-> "pushPromise", schemas |-> Cut(t)] BY <2>1
    <2> QED BY <1>12, <2>1, <2>2
  <1>15. m.type # "schema" OBVIOUS
  <1> QED BY <1>3, <1>5, <1>6, <1>8, <1>10, <1>11, <1>13, <1>14, <1>15 DEF Understood

LEMMA SchemaUnderstood ==
  ASSUME NEW m, NEW s \in Nat, NEW t \in Seq(Nat), NEW u \in Seq(Nat),
         m = [type |-> "schema", scope |-> s, name |-> t, suffix |-> u], t = <<>> => u = <<>>
  PROVE  encodeProtoMsg(m) # <<>> /\ Understood(m, decodeProtoMsg(encodeProtoMsg(m)))
  <1>1. PICK a : a = <<4, s>> OBVIOUS
  <1>2. a \in Seq(Nat) /\ Len(a) = 2 /\ a[1] = 4 /\ a[2] = s BY <1>1
  <1>3. PICK f : f = Field(t) OBVIOUS
  <1>4. PICK g : g = Field(u) OBVIOUS
  <1>5. f \in Seq(Nat) /\ Len(f) = Len(t) + 1 /\ Len(t) \in Nat /\ f[1] = Len(t) % ShortMod
    <2>1. Len(t) \in Nat OBVIOUS
    <2>2. Field(t) \in Seq(Nat) /\ Len(Field(t)) = Len(t) + 1 /\ Field(t)[1] = Len(t) % ShortMod
      BY ONLY t \in Seq(Nat), FieldIs
    <2> QED BY <1>3, <2>1, <2>2
  <1>6. g \in Seq(Nat) BY <1>4, FieldIs
  <1>7. PICK b : b = a \o f OBVIOUS
  <1>8. PICK buf : buf = b \o g OBVIOUS
  <1>9. encodeProtoMsg(m) = buf BY <1>1, <1>3, <1>4, <1>7, <1>8 DEF encodeProtoMsg, EncodeSchema
  <1>10. b \in Seq(Nat) /\ Len(b) = Len(a) + Len(f) /\ In(b, 0, a) /\ In(b, Len(a), f) BY <1>2, <1>5, <1>7, InConcat
  <1>11. buf \in Seq(Nat) /\ Len(buf) = Len(b) + Len(g) /\ In(buf, 0, b) /\ In(buf, Len(b), g) BY <1>6, <1>8, <1>10, InConcat
  <1>12. PICK z \in Nat : z = 0 OBVIOUS
  <1>13. PICK o \in Nat : o = 2 OBVIOUS
  <1>14. In(buf, z, a) /\ In(buf, o, f)
    <2>1. In(buf, z, b) /\ In(b, z, a) /\ In(b, o, f) BY <1>2, <1>10, <1>11, <1>12, <1>13
    <2>2. In(buf, z + z, a) BY <1>2, <1>10, <1>11, <2>1, InIn
    <2>3. In(buf, z + o, f) BY <1>5, <1>10, <1>11, <2>1, InIn
    <2>4. z + z = z /\ z + o = o BY <1>12
    <2> QED BY <2>2, <2>3, <2>4
  <1>15. buf[1] = 4 /\ buf[2] = s /\ buf[3] = Len(t) % ShortMod
    <2>1. 1 \in 1..Len(a) /\ 2 \in 1..Len(a) /\ z + 1 = 1 /\ z + 2 = 2 BY <1>2, <1>12
    <2>2. buf[z + 1] = a[1] /\ buf[z + 2] = a[2] BY <1>14, <2>1 DEF In
    <2>3. 1 \in 1..Len(f) /\ o + 1 = 3 BY <1>5, <1>13
    <2>4. buf[o + 1] = f[1] BY <1>14, <2>3 DEF In
    <2> QED BY <1>2, <1>5, <2>1, <2>2, <2>3, <2>4
  <1>16. TextsOf(m) = {t, u} /\ ~TooLong(m) BY DEF TextsOf, TooLong
  <1>17. Fits(m) <=> Len(t) < Half /\ Len(u) < Half BY <1>16 DEF Fits, Half
  <1>18. ASSUME Len(t) < Half, Len(u) < Half PROVE decodeProtoMsg(buf) = m
    <2>1. PICK n \in Nat : n = Len(t) BY <1>5
    <2>2. PICK i \in Nat : i = Len(u) OBVIOUS
    <2>3. n < Half /\ n < ShortMod /\ i < Half /\ i < ShortMod BY <1>18, <2>1, <2>2, HalfIs
    <2>4. n % ShortMod = n BY ONLY n \in Nat, <2>3, HalfIs
    <2>5. Signed(buf[3]) = n BY <1>15, <2>1, <2>3, <2>4, HalfIs DEF Signed, Half
    <2>6. CASE n < 1
      <3>1. n = 0 BY <2>6
      <3>2. t = <<>> BY <2>1, <3>1, EmptySeq
      <3>3. u = <<>> BY <3>2
      <3>4. decodeProtoMsg(buf) = [type |-> "schema", scope |-> buf[2], name |-> <<>>, suffix |-> <<>>]
        BY <1>15, <2>5, <2>6 DEF decodeProtoMsg
      <3> QED BY <1>15, <3>2, <3>3, <3>4
    <2>7. CASE n >= 1
      <3>1. PICK r : r = ReadField(buf, 3) OBVIOUS
      <3>2. r = [text |-> t, next |-> Len(b) + 1]
        <4>1. PICK q \in {0, o + 1} : q = 3 /\ q = o + 1 BY <1>13
        <4>2. In(buf, o, Field(t)) /\ Len(t) < ShortMod BY <1>3, <1>14, <2>1, <2>3
        <4>3. ReadField(buf, q) = IF q = o + 1 /\ Len(t) < Half THEN [text |-> t, next |-> (o + Len(Field(t))) + 1] ELSE Error
          BY ONLY <1>11, <4>2, t \in Seq(Nat), o \in Nat, q \in {0, o + 1}, ReadIs
        <4>4. o + Len(Field(t)) = Len(b) BY <1>2, <1>3, <1>10, <1>13
        <4> QED BY <1>18, <3>1, <4>1, <4>3, <4>4
      <3>3. PICK v : v = ReadField(buf, r.next) OBVIOUS
      <3>4. v.text = u /\ v.next # 0
        <4>1. PICK l \in Nat : l = Len(b) BY <1>10
        <4>2. PICK q \in {0, l + 1} : q = r.next /\ q = l + 1 BY <3>2, <4>1
        <4>3. In(buf, l, Field(u)) /\ Len(u) < ShortMod BY <1>4, <1>11, <2>2, <2>3, <4>1
        <4>4. ReadField(buf, q) = IF q = l + 1 /\ Len(u) < Half THEN [text |-> u, next |-> (l + Len(Field(u))) + 1] ELSE Error
          BY ONLY <1>11, <4>3, u \in Seq(Nat), l \in Nat, q \in {0, l + 1}, ReadIs
        <4>5. PICK k \in Nat : k = Len(Field(u)) BY FieldIs
        <4>6. v = [text |-> u, next |-> (l + k) + 1] BY <1>18, <3>3, <4>2, <4>4, <4>5
        <4> QED BY <4>6
      <3>5. ~(n < 1) BY <2>7
      <3>6. decodeProtoMsg(buf) = Decoded(v, [type |-> "schema", scope |-> buf[2], name |-> r.text, suffix |-> v.text])
        BY <1>15, <2>5, <2>7, <3>1, <3>3, <3>5 DEF decodeProtoMsg
      <3> QED BY <1>15, <3>2, <3>4, <3>6 DEF Decoded
    <2> QED BY <2>6, <2>7
  <1>19. buf # <<>> BY <1>2, <1>5, <1>6, <1>10, <1>11
  <1>20. m.type = "schema" /\ m.name = t OBVIOUS
  <1>21. ASSUME Len(t) \in Half..(ShortMod - 1)
         PROVE  decodeProtoMsg(buf) = [m EXCEPT !.name = <<>>, !.suffix = <<>>]
    <2>1. PICK n \in Nat : n = Len(t) BY <1>5
    <2>2. Half <= n /\ n < ShortMod BY <1>21, <2>1, HalfIs
    <2>3. n % ShortMod = n BY ONLY n \in Nat, <2>2, HalfIs
    <2>4. PICK k \in Int : k = n - ShortMod /\ k < 1 BY <2>2, HalfIs
    <2>5. Signed(buf[3]) = k /\ k < 1 /\ ~(k >= 1)
      <3>1. n >= ShortMod \div 2 BY <2>2 DEF Half
      <3>2. buf[3] = n BY <1>15, <2>1, <2>3
      <3> QED BY <2>4, <3>1, <3>2 DEF Signed
    <2>6. decodeProtoMsg(buf) = [type |-> "schema", scope |-> buf[2], name |-> <<>>, suffix |-> <<>>]
      BY <1>15, <2>5 DEF decodeProtoMsg
    <2>7. PICK x : x = [m EXCEPT !.name = <<>>] OBVIOUS
    <2>8. x = [type |-> "schema", scope |-> s, name |-> <<>>, suffix |-> u] BY <2>7
    <2>9. [x EXCEPT !.suffix = <<>>] = [type |-> "schema", scope |-> s, name |-> <<>>, suffix |-> <<>>] BY <2>8
    <2>10. [m EXCEPT !.name = <<>>, !.suffix = <<>>] = [x EXCEPT !.suffix = <<>>] BY <2>7
    <2> QED BY <1>15, <2>6, <2>9, <2>10
  <1> QED BY <1>9, <1>16, <1>17, <1>18, <1>19, <1>20, <1>21 DEF Understood

LEMMA TailUnderstood ==
  ASSUME NEW m \in TailMsgs
  PROVE  encodeProtoMsg(m) # <<>> /\ Understood(m, decodeProtoMsg(encodeProtoMsg(m)))
  <1>1. PICK buf : buf = EncodeTail(m) OBVIOUS
  <1>2. m.type = "tail" BY DEF TailMsgs
  <1>3. encodeProtoMsg(m) = buf BY <1>1, <1>2 DEF encodeProtoMsg
  <1>4. buf \in Seq(Nat) /\ buf[1] = 2 /\ Len(buf) \in Nat /\ 6 <= Len(buf)
    <2>1. \E o2, o3, o4 \in Nat : Laid(m, buf, o2, o3, o4) BY <1>1, TailParts
    <2> QED BY <2>1 DEF Laid
  <1>5. PICK o \in Nat : o = 0 OBVIOUS
  <1>6. In(buf, o, EncodeTail(m))
    <2>1. \A i \in 1..Len(buf) : o + i = i BY <1>4, <1>5
    <2>2. o + Len(buf) <= Len(buf) BY <1>4, <1>5
    <2> QED BY <1>1, <2>1, <2>2 DEF In
  <1>7. PICK p : p = o + 1 OBVIOUS
  <1>8. PICK r : r = DecodeTail(buf, p) OBVIOUS
  <1>9. (\A t \in TextsOfTail(m) : Len(t) < ShortMod) =>
          /\ (\A t \in TextsOfTail(m) : Len(t) < Half) => r = [msg |-> m, next |-> (o + Len(EncodeTail(m))) + 1]
          /\ ~(\A t \in TextsOfTail(m) : Len(t) < Half) => r.next = 0
    BY <1>4, <1>6, <1>7, <1>8, DecodeTailIs
  <1>10. TextsOf(m) = TextsOfTail(m) /\ ~TooLong(m) BY <1>2 DEF TextsOf, TextsOfTail, TooLong
  <1>11. p = 1 BY <1>5, <1>7
  <1>12. decodeProtoMsg(buf) = IF r.next = 0 THEN Refused ELSE r.msg BY <1>4, <1>8, <1>11 DEF decodeProtoMsg, Decoded
  <1>13. ASSUME Fits(m) PROVE decodeProtoMsg(buf) = m
    <2>1. \A t \in TextsOfTail(m) : Len(t) < Half BY <1>10, <1>13 DEF Fits, Half
    <2>2. \A t \in TextsOfTail(m) : Len(t) < ShortMod
      <3>1. \A t \in TextsOfTail(m) : t \in Seq(Nat) BY DEF TextsOfTail, TailMsgs
      <3>2. \A t \in TextsOfTail(m) : Len(t) \in Nat BY <3>1
      <3> QED BY <2>1, <3>2, HalfIs
    <2>3. r = [msg |-> m, next |-> Len(buf) + 1] BY <1>1, <1>4, <1>5, <1>9, <2>1, <2>2
    <2>4. r.next # 0 /\ r.msg = m BY <1>4, <2>3
    <2> QED BY <1>12, <2>4
  <1>14. ASSUME ~Fits(m), \A t \in TextsOf(m) : Len(t) < ShortMod PROVE decodeProtoMsg(buf) = Refused
    BY <1>9, <1>10, <1>12, <1>14 DEF Fits, Half
  <1>15. buf # <<>> BY <1>4
  <1> QED BY <1>2, <1>3, <1>10, <1>13, <1>14, <1>15 DEF Understood
-----------------------------------------------------------------------------
\* One step of the loop that reads the tails of a batch.
ReadOne(buf, before) ==
  LET one == IF \/ before.next = 0 \/ before.next >= Len(buf)
                \/ buf[before.next] # 2
             THEN [msg |-> Refused, next |-> 0]
             ELSE DecodeTail(buf, before.next)
  IN [msgs |-> Append(before.msgs, one.msg), next |-> one.next]

\* A batch of two is read by two steps of the loop.
LEMMA BatchIs ==
  ASSUME NEW buf, NEW s0, NEW s1, NEW s2, NEW n, n = 2, s0 = [msgs |-> <<>>, next |-> 3], s1 = ReadOne(buf, s0), s2 = ReadOne(buf, s1)
  PROVE  DecodeTailBatch(buf, n) = s2
  <1> DEFINE F(a) == [i \in 0..n |-> IF i = 0 THEN [msgs |-> <<>>, next |-> 3] ELSE ReadOne(buf, a[i - 1])]
  <1> DEFINE read == CHOOSE a : a = F(a)
  <1>1. PICK b : b = [i \in 0..n |-> IF i = 0 THEN s0 ELSE IF i = 1 THEN s1 ELSE s2] OBVIOUS
  <1>2. 0..n = {0, 1, 2} OBVIOUS
  <1>3. b[0] = s0 /\ b[1] = s1 /\ b[2] = s2 BY <1>1, <1>2
  <1>4. \A i \in 0..n : b[i] = IF i = 0 THEN [msgs |-> <<>>, next |-> 3] ELSE ReadOne(buf, b[i - 1])
    <2>1. ASSUME NEW i \in 0..n PROVE b[i] = IF i = 0 THEN [msgs |-> <<>>, next |-> 3] ELSE ReadOne(buf, b[i - 1])
      <3>1. CASE i = 0 BY <1>3, <3>1
      <3>2. CASE i = 1
        <4>1. i - 1 = 0 BY <3>2
        <4> QED BY <1>3, <3>2, <4>1
      <3>3. CASE i = 2
        <4>1. i - 1 = 1 BY <3>3
        <4> QED BY <1>3, <3>3, <4>1
      <3> QED BY <1>2, <3>1, <3>2, <3>3
    <2> QED BY <2>1
  <1>5. b = F(b)
    <2>1. b = [i \in 0..n |-> b[i]] BY <1>1
    <2> QED BY <1>4, <2>1
  <1>6. read = F(read) BY <1>5
  <1>7. DecodeTailBatch(buf, n) = read[n] BY DEF DecodeTailBatch, ReadOne
  <1>8. PICK g : g = read OBVIOUS
  <1>9. \A i \in 0..n : g[i] = IF i = 0 THEN s0 ELSE ReadOne(buf, g[i - 1])
    <2>1. g = F(g) BY <1>6, <1>8
    <2> HIDE DEF read
    <2> QED BY <2>1
  <1> HIDE DEF read, F
  <1>10. g[0] = s0 BY <1>2, <1>9
  <1>11. g[1] = s1
    <2>1. PICK i \in 0..n : i = 1 BY <1>2
    <2>2. i - 1 = 0 /\ i # 0 BY <2>1
    <2>3. g[i] = ReadOne(buf, g[i - 1]) BY <1>9, <2>2
    <2> QED BY <1>10, <2>1, <2>2, <2>3
  <1>12. g[2] = s2
    <2>1. PICK i \in 0..n : i = 2 BY <1>2
    <2>2. i - 1 = 1 /\ i # 0 BY <2>1
    <2>3. g[i] = ReadOne(buf, g[i - 1]) BY <1>9, <2>2
    <2> QED BY <1>11, <2>1, <2>2, <2>3
  <1> QED BY <1>7, <1>8, <1>12

\* Two texts joined.
LEMMA FlattenTwo ==
  ASSUME NEW ts, NEW a, NEW b, ts = <<a, b>>
  PROVE  FlattenSeq(ts) = a \o b
  <1>1. PICK n \in Nat \ {0} : n = 2 OBVIOUS
  <1>2. Len(ts) = n /\ ts[1] = a /\ ts[2] = b BY <1>1
  <1>3. PICK f : IsJoin(f, ts, n) /\ FlattenSeq(ts) = f[n] BY <1>2, FlattenIs
  <1>4. f[1] = a
    <2>1. PICK i \in 1..n : i = 1 BY <1>1
    <2> QED BY <1>2, <1>3, <2>1 DEF IsJoin
  <1>5. f[2] = a \o b
    <2>1. PICK i \in 1..n : i = 2 BY <1>1
    <2>2. i # 1 /\ i - 1 = 1 BY <2>1
    <2>3. f[i] = f[i - 1] \o ts[i] BY <1>3, <2>2 DEF IsJoin
    <2> QED BY <1>2, <1>4, <2>1, <2>2, <2>3
  <1> QED BY <1>1, <1>3, <1>5

\* One step of the loop where a tail was written: the tail is read, and behind a tail
\* that was refused everything is refused.
LEMMA StepIs ==
  ASSUME NEW buf \in Seq(Nat), NEW m \in TailMsgs, NEW o \in Nat, In(buf, o, EncodeTail(m)),
         \A t \in TextsOfTail(m) : Len(t) < ShortMod, NEW before, before.next \in {0, o + 1}, NEW r, r = ReadOne(buf, before)
  PROVE  /\ before.next # 0 /\ (\A t \in TextsOfTail(m) : Len(t) < Half) =>
              r = [msgs |-> Append(before.msgs, m), next |-> (o + Len(EncodeTail(m))) + 1]
         /\ before.next = 0 \/ ~(\A t \in TextsOfTail(m) : Len(t) < Half) => r.next = 0
  <1>1. PICK p : p = before.next OBVIOUS
  <1>2. CASE p = 0
    <2>1. r.next = 0 BY <1>1, <1>2 DEF ReadOne
    <2> QED BY <1>1, <1>2, <2>1
  <1>3. CASE p # 0
    <2>1. p = o + 1 BY <1>1, <1>3
    <2>2. PICK e : e = EncodeTail(m) OBVIOUS
    <2>3. Len(e) \in Nat /\ 6 <= Len(e) /\ e[1] = 2
      <3>1. \E o2, o3, o4 \in Nat : Laid(m, e, o2, o3, o4) BY <2>2, TailParts
      <3> QED BY <3>1 DEF Laid
    <2>4. ~(p = 0 \/ p >= Len(buf) \/ buf[p] # 2)
      <3>1. o + Len(e) <= Len(buf) BY <2>2 DEF In
      <3>2. Len(buf) \in Nat OBVIOUS
      <3>3. buf[p] = 2
        <4>1. 1 \in 1..Len(e) BY <2>3
        <4>2. buf[o + 1] = e[1] BY <2>2, <4>1 DEF In
        <4> QED BY <2>1, <2>3, <4>2
      <3> QED BY <1>3, <2>1, <2>3, <3>1, <3>2, <3>3
    <2>5. PICK d : d = DecodeTail(buf, p) OBVIOUS
    <2>6. r = [msgs |-> Append(before.msgs, d.msg), next |-> d.next] BY <1>1, <2>4, <2>5 DEF ReadOne
    <2>7. /\ (\A t \in TextsOfTail(m) : Len(t) < Half) => d = [msg |-> m, next |-> (o + Len(EncodeTail(m))) + 1]
          /\ ~(\A t \in TextsOfTail(m) : Len(t) < Half) => d.next = 0
      BY <2>1, <2>5, DecodeTailIs
    <2>8. CASE \A t \in TextsOfTail(m) : Len(t) < Half
      <3>1. d = [msg |-> m, next |-> (o + Len(EncodeTail(m))) + 1] BY <2>7, <2>8
      <3>2. d.msg = m /\ d.next = (o + Len(EncodeTail(m))) + 1 BY <3>1
      <3> QED BY <1>1, <1>3, <2>6, <2>8, <3>2
    <2>9. CASE ~(\A t \in TextsOfTail(m) : Len(t) < Half)
      <3>1. r.next = 0 BY <2>6, <2>7, <2>9
      <3> QED BY <2>9, <3>1
    <2> QED BY <2>8, <2>9
  <1> QED BY <1>2, <1>3

LEMMA BatchUnderstood ==
  ASSUME NEW m, NEW rs \in [1..2 -> TailMsgs], m = [type |-> "tailBatch", requests |-> rs]
  PROVE  encodeProtoMsg(m) # <<>> /\ Understood(m, decodeProtoMsg(encodeProtoMsg(m)))
  <1>1. PICK x \in TailMsgs : x = rs[1] OBVIOUS
  <1>2. PICK y \in TailMsgs : y = rs[2] OBVIOUS
  <1>3. PICK e : e = EncodeTail(x) OBVIOUS
  <1>4. PICK f : f = EncodeTail(y) OBVIOUS
  <1>5. e \in Seq(Nat) /\ Len(e) \in Nat /\ 6 <= Len(e)
    <2>1. \E o2, o3, o4 \in Nat : Laid(x, e, o2, o3, o4) BY <1>3, TailParts
    <2> QED BY <2>1 DEF Laid
  <1>6. f \in Seq(Nat) /\ Len(f) \in Nat /\ 6 <= Len(f)
    <2>1. \E o2, o3, o4 \in Nat : Laid(y, f, o2, o3, o4) BY <1>4, TailParts
    <2> QED BY <2>1 DEF Laid
  <1>7. rs = <<x, y>> /\ DOMAIN rs = {1, 2} /\ Len(rs) = 2
    <2>1. 1..2 = {1, 2} OBVIOUS
    <2>2. rs = [i \in 1..2 |-> rs[i]] OBVIOUS
    <2>3. rs = <<x, y>> BY <1>1, <1>2, <2>1, <2>2
    <2> QED BY <2>1, <2>3
  <1>8. PICK es : es = [i \in DOMAIN rs |-> EncodeTail(rs[i])] OBVIOUS
  <1>9. es = <<e, f>>
    <2>1. 1..2 = {1, 2} OBVIOUS
    <2>2. es = [i \in 1..2 |-> es[i]] /\ es[1] = e /\ es[2] = f BY <1>1, <1>2, <1>3, <1>4, <1>7, <1>8, <2>1
    <2> QED BY <2>1, <2>2
  <1>10. 2 % ShortMod = 2
    <2>1. PICK n \in Nat : n = 2 OBVIOUS
    <2>2. n < ShortMod BY <2>1, HalfIs
    <2>3. n % ShortMod = n BY ONLY n \in Nat, <2>2, HalfIs
    <2> QED BY <2>1, <2>3
  <1>11. PICK a : a = <<7, 2>> OBVIOUS
  <1>12. a \in Seq(Nat) /\ Len(a) = 2 /\ a[1] = 7 /\ a[2] = 2 BY <1>11
  <1>13. PICK b : b = e \o f OBVIOUS
  <1>14. b \in Seq(Nat) /\ Len(b) = Len(e) + Len(f) /\ In(b, 0, e) /\ In(b, Len(e), f) BY <1>5, <1>6, <1>13, InConcat
  <1>15. PICK buf : buf = a \o b OBVIOUS
  <1>16. buf \in Seq(Nat) /\ Len(buf) = Len(a) + Len(b) /\ In(buf, 0, a) /\ In(buf, Len(a), b) BY <1>12, <1>14, <1>15, InConcat
  <1>17. encodeProtoMsg(m) = buf
    <2>1. FlattenSeq(es) = b BY <1>9, <1>13, FlattenTwo
    <2>2. m.type = "tailBatch" /\ m.requests = rs OBVIOUS
    <2>3. encodeProtoMsg(m) = EncodeTailBatch(m) BY <2>2 DEF encodeProtoMsg
    <2>4. EncodeTailBatch(m) = <<7, Len(rs) % ShortMod>> \o FlattenSeq(es) BY <1>8, <2>2 DEF EncodeTailBatch
    <2> QED BY <1>7, <1>10, <1>11, <1>15, <2>1, <2>3, <2>4
  <1>18. buf[1] = 7 /\ buf[2] = 2 /\ buf # <<>>
    <2>1. 1 \in 1..Len(a) /\ 2 \in 1..Len(a) /\ 0 + 1 = 1 /\ 0 + 2 = 2 BY <1>12
    <2>2. buf[0 + 1] = a[1] /\ buf[0 + 2] = a[2] BY <1>16, <2>1 DEF In
    <2>3. Len(buf) # 0 BY <1>5, <1>6, <1>12, <1>14, <1>16
    <2> QED BY <1>12, <2>1, <2>2, <2>3
  <1>19. PICK n : n = Signed(buf[2]) OBVIOUS
  <1>20. n = 2 BY <1>18, <1>19, HalfIs DEF Signed, Half
  <1>21. PICK o \in Nat : o = 2 OBVIOUS
  <1>22. PICK z \in Nat : z = 0 OBVIOUS
  <1>23. PICK k \in Nat : k = Len(e) BY <1>5
  <1>24. In(buf, o, e) /\ In(buf, o + k, f)
    <2>1. In(buf, o, b) /\ In(b, z, e) /\ In(b, k, f) BY <1>12, <1>14, <1>16, <1>21, <1>22, <1>23
    <2>2. In(buf, o + z, e) BY ONLY <1>5, <1>14, <1>16, <2>1, o \in Nat, z \in Nat, InIn
    <2>3. In(buf, o + k, f) BY ONLY <1>6, <1>14, <1>16, <2>1, o \in Nat, k \in Nat, InIn
    <2>4. o + z = o BY <1>22
    <2> QED BY <2>2, <2>3, <2>4
  <1>25. PICK s0 : s0 = [msgs |-> <<>>, next |-> 3] OBVIOUS
  <1>26. PICK s1 : s1 = ReadOne(buf, s0) OBVIOUS
  <1>27. PICK s2 : s2 = ReadOne(buf, s1) OBVIOUS
  <1>28. DecodeTailBatch(buf, n) = s2 BY <1>20, <1>25, <1>26, <1>27, BatchIs
  <1>29. decodeProtoMsg(buf) = IF s2.next = 0 THEN Refused ELSE [type |-> "tailBatch", requests |-> s2.msgs]
    BY <1>18, <1>19, <1>28 DEF decodeProtoMsg, Decoded
  <1>30. TextsOf(m) = TextsOfTail(x) \cup TextsOfTail(y)
    <2>1. {m.requests[i] : i \in DOMAIN m.requests} = {x, y} BY <1>1, <1>2, <1>7
    <2>2. TextsOf(m) = UNION {{r.table, r.expectedColumns, r.filterExpr, r.params} : r \in {x, y}} BY <2>1 DEF TextsOf
    <2> QED BY <2>2 DEF TextsOfTail
  <1>31. PICK fx \in BOOLEAN : fx = (\A t \in TextsOfTail(x) : Len(t) < Half) OBVIOUS
  <1>32. PICK fy \in BOOLEAN : fy = (\A t \in TextsOfTail(y) : Len(t) < Half) OBVIOUS
  <1>33. (Fits(m) <=> fx /\ fy) /\ ~TooLong(m) /\ m.type = "tailBatch"
    <2>1. ~TooLong(m) /\ m.type = "tailBatch" BY DEF TooLong
    <2> QED BY <1>30, <1>31, <1>32, <2>1 DEF Fits, Half
  <1>34. ASSUME \A t \in TextsOf(m) : Len(t) < ShortMod
         PROVE  /\ fx /\ fy => s2.msgs = rs /\ s2.next # 0
                /\ ~(fx /\ fy) => s2.next = 0
    <2>1. (\A t \in TextsOfTail(x) : Len(t) < ShortMod) /\ (\A t \in TextsOfTail(y) : Len(t) < ShortMod) BY <1>30, <1>34
    <2>2. /\ fx => s1 = [msgs |-> Append(s0.msgs, x), next |-> (o + Len(EncodeTail(x))) + 1]
          /\ ~fx => s1.next = 0
      <3>1. s0.next \in {0, o + 1} /\ s0.next # 0 BY <1>21, <1>25
      <3>2. In(buf, o, EncodeTail(x)) BY <1>3, <1>24
      <3> QED BY <1>16, <1>26, <1>31, <2>1, <3>1, <3>2, StepIs
    <2>3. PICK l \in Nat : l = o + k OBVIOUS
    <2>4. fx => s1 = [msgs |-> <<x>>, next |-> l + 1] BY <1>3, <1>23, <1>25, <2>2, <2>3
    <2>5. s1.next \in {0, l + 1} /\ (s1.next # 0 <=> fx) BY <2>2, <2>4
    <2>6. In(buf, l, EncodeTail(y)) BY <1>4, <1>24, <2>3
    <2>7. /\ s1.next # 0 /\ fy => s2 = [msgs |-> Append(s1.msgs, y), next |-> (l + Len(EncodeTail(y))) + 1]
          /\ s1.next = 0 \/ ~fy => s2.next = 0
      BY <1>16, <1>27, <1>32, <2>1, <2>5, <2>6, StepIs, SMTT(30)
    <2>8. ASSUME fx, fy PROVE s2.msgs = rs /\ s2.next # 0
      <3>1. s1.msgs = <<x>> BY <2>4, <2>8
      <3>2. Append(s1.msgs, y) = <<x, y>>
        <4>1. PICK u : u = <<x>> OBVIOUS
        <4>2. u \in Seq(TailMsgs) /\ Len(u) = 1 /\ u[1] = x BY <4>1
        <4>3. PICK w : w = Append(u, y) OBVIOUS
        <4>4. w \in Seq(TailMsgs) /\ Len(w) = Len(u) + 1 /\ (\A i \in 1..Len(u) : w[i] = u[i]) /\ w[Len(u) + 1] = y
          <5>1. PICK T : T = TailMsgs OBVIOUS
          <5>2. u \in Seq(T) /\ y \in T BY <4>2, <5>1
          <5>3. /\ Append(u, y) \in Seq(T) /\ Len(Append(u, y)) = Len(u) + 1
                /\ (\A i \in 1..Len(u) : Append(u, y)[i] = u[i]) /\ Append(u, y)[Len(u) + 1] = y
            BY ONLY <5>2, AppendProperties
          <5> QED BY <4>3, <5>1, <5>3
        <4>5. PICK v : v = <<x, y>> OBVIOUS
        <4>6. v \in Seq(TailMsgs) /\ Len(v) = 2 /\ v[1] = x /\ v[2] = y BY <4>5
        <4>7. w[1] = x /\ w[2] = y /\ Len(w) = 2 BY <4>2, <4>4
        <4>8. \A i \in 1..Len(w) : w[i] = v[i] BY <4>6, <4>7
        <4>9. w = v BY ONLY <4>4, <4>6, <4>7, <4>8, SeqEqual
        <4> QED BY <3>1, <4>1, <4>3, <4>5, <4>9
      <3>3. s2 = [msgs |-> <<x, y>>, next |-> (l + Len(f)) + 1] BY <1>4, <2>5, <2>7, <2>8, <3>2
      <3>4. (l + Len(f)) + 1 # 0 BY <1>6
      <3> QED BY <1>7, <3>3, <3>4
    <2>9. ~(fx /\ fy) => s2.next = 0 BY <2>5, <2>7
    <2> QED BY <2>8, <2>9
  <1>35. Fits(m) => \A t \in TextsOf(m) : Len(t) < ShortMod
    <2>1. \A t \in TextsOf(m) : Len(t) \in Nat
      <3>1. \A t \in TextsOf(m) : t \in Seq(Nat) BY <1>30 DEF TextsOfTail, TailMsgs
      <3> QED BY <3>1
    <2> QED BY <2>1, HalfIs DEF Fits, Half
  <1>36. Fits(m) => decodeProtoMsg(buf) = m BY <1>29, <1>33, <1>34, <1>35
  <1>37. ASSUME ~Fits(m), \A t \in TextsOf(m) : Len(t) < ShortMod PROVE decodeProtoMsg(buf) = Refused
    BY <1>29, <1>33, <1>34, <1>37
  <1> QED BY <1>17, <1>18, <1>33, <1>36, <1>37 DEF Understood

\* The tails the client asks for are tail requests.
LEMMA TailsAre ==
  ASSUME NEW set \in {TailTexts, BatchTexts}, NEW m \in Tails(set)
  PROVE  m \in TailMsgs
  <1>1. /\ m.table \in set /\ m.expectedColumns \in set /\ m.filterExpr \in set /\ m.params \in set
        /\ m = [type |-> "tail", since |-> m.since, table |-> m.table, expectedColumns |-> m.expectedColumns,
                filterExpr |-> m.filterExpr, params |-> m.params]
        /\ m.since \in 0..1
    BY DEF Tails
  <1>2. \A t \in set : t \in Seq(Nat) BY TextsAre
  <1> QED BY <1>1, <1>2 DEF TailMsgs

\* Whatever the client may ask for is understood.
LEMMA AllUnderstood ==
  ASSUME NEW m \in Requests
  PROVE  encodeProtoMsg(m) # <<>> /\ Understood(m, decodeProtoMsg(encodeProtoMsg(m)))
  <1>1. CASE m \in [type : {"query"}, format : 0..2, query : Texts]
    <2>1. PICK q : q = m.query OBVIOUS
    <2>2. q \in Seq(Nat) BY <1>1, <2>1, TextsAre
    <2>3. PICK f \in Nat : f = m.format BY <1>1
    <2>4. m.type = "query" /\ m = [type |-> "query", format |-> f, query |-> q] BY <1>1, <2>1, <2>3
    <2> QED BY <2>1, <2>2, <2>3, <2>4, QueryUnderstood
  <1>2. CASE m \in [type : {"schema"}, scope : 1..3, name : Texts \ {<<>>}, suffix : Texts]
    <2>1. PICK t : t = m.name OBVIOUS
    <2>2. PICK u : u = m.suffix OBVIOUS
    <2>3. t \in Seq(Nat) BY <1>2, <2>1, TextsAre
    <2>4. u \in Seq(Nat) BY <1>2, <2>2, TextsAre
    <2>5. PICK s \in Nat : s = m.scope BY <1>2
    <2>6. m = [type |-> "schema", scope |-> s, name |-> t, suffix |-> u] /\ t # <<>> BY <1>2, <2>1, <2>2, <2>5
    <2> QED BY <2>3, <2>4, <2>6, SchemaUnderstood
  <1>3. CASE m \in [type : {"schema"}, scope : {0}, name : {<<>>}, suffix : {<<>>}]
    <2>1. PICK t : t = <<>> OBVIOUS
    <2>2. t \in Seq(Nat) BY <2>1
    <2>3. PICK s \in Nat : s = m.scope BY <1>3
    <2>4. m = [type |-> "schema", scope |-> s, name |-> t, suffix |-> t] /\ (t = <<>> => t = <<>>) BY <1>3, <2>1, <2>3
    <2> QED BY <2>2, <2>4, SchemaUnderstood
  <1>4. CASE m \in Tails(TailTexts)
    <2>1. m \in TailMsgs BY <1>4, TailsAre
    <2> QED BY <2>1, TailUnderstood
  <1>5. CASE m \in [type : {"tailBatch"}, requests : [1..2 -> Tails(BatchTexts)]]
    <2>1. PICK rs : rs = m.requests OBVIOUS
    <2>2. rs \in [1..2 -> Tails(BatchTexts)] /\ m = [type |-> "tailBatch", requests |-> rs] BY <1>5, <2>1
    <2>3. \A x \in Tails(BatchTexts) : x \in TailMsgs BY TailsAre
    <2>4. PICK set : set = Tails(BatchTexts) OBVIOUS
    <2>5. rs \in [1..2 -> TailMsgs] BY <2>2, <2>3, <2>4
    <2> QED BY <2>2, <2>5, BatchUnderstood
  <1>6. CASE m \in [type : {"pushPromise"}, schemas : Texts]
    <2>1. PICK t : t = m.schemas OBVIOUS
    <2>2. t \in Seq(Nat) BY <1>6, <2>1, TextsAre
    <2>3. m = [type |-> "pushPromise", schemas |-> t] BY <1>6, <2>1
    <2> QED BY <2>2, <2>3, NameUnderstood
  <1>7. CASE m \in [type : {"createDatabase"}, name : Texts]
    <2>1. PICK t : t = m.name OBVIOUS
    <2>2. t \in Seq(Nat) BY <1>7, <2>1, TextsAre
    <2>3. m = [type |-> "createDatabase", name |-> t] BY <1>7, <2>1
    <2> QED BY <2>2, <2>3, NameUnderstood
  <1>8. CASE m \in [type : {"createUser"}]
    <2>1. m = [type |-> "createUser"] BY <1>8
    <2>2. PICK buf : buf = <<6>> OBVIOUS
    <2>3. encodeProtoMsg(m) = buf /\ buf # <<>> /\ buf[1] = 6 BY <2>1, <2>2 DEF encodeProtoMsg
    <2>4. decodeProtoMsg(buf) = m BY <2>1, <2>3 DEF decodeProtoMsg
    <2>5. Fits(m) /\ ~TooLong(m) /\ m.type = "createUser" BY <2>1 DEF Fits, TooLong, TextsOf
    <2> QED BY <2>3, <2>4, <2>5 DEF Understood
  <1>9. CASE m \in [type : {"data"}, payload : Texts]
    <2>1. PICK t : t = m.payload OBVIOUS
    <2>2. t \in Seq(Nat) BY <1>9, <2>1, TextsAre
    <2>3. m = [type |-> "data", payload |-> t] BY <1>9, <2>1
    <2> QED BY <2>2, <2>3, DataUnderstood
  <1> QED BY <1>1, <1>2, <1>3, <1>4, <1>5, <1>6, <1>7, <1>8, <1>9 DEF Requests

\* The bytes on the wire are those of the request, and the server has not read them yet.
RequestInv ==
  /\ request = NoMessage => wire = <<>> /\ got = NoMessage
  /\ wire # <<>> => request \in Requests /\ wire = encodeProtoMsg(request) /\ got = NoMessage
  /\ RequestUnderstood

\* The server reads a request as the client meant it when a query is within
\* MAX_QUERY_LENGTH and the other lengths are below 2^15; above, what it makes of it is
\* what RequestUnderstood says (encodeProtoMsg, decodeProtoMsg), for texts of any length.
THEOREM RequestsUnderstood == Spec => []RequestUnderstood
  <1>1. Init => RequestInv BY DEF Init, RequestInv, RequestUnderstood
  <1>2. ASSUME RequestInv, [Next]_vars PROVE RequestInv'
    <2>1. CASE SendRequest
      <3>1. request = NoMessage /\ request' \in Requests /\ wire' = encodeProtoMsg(request') /\ got' = got BY <2>1 DEF SendRequest
      <3>2. got' = NoMessage BY <1>2, <3>1 DEF RequestInv
      <3>3. PICK m : m = request' OBVIOUS
      <3>4. m # NoMessage BY <3>1, <3>3 DEF Requests, Tails, NoMessage
      <3> QED BY <3>1, <3>2, <3>3, <3>4 DEF RequestInv, RequestUnderstood
    <2>2. CASE ServerDecodes
      <3>1. wire # <<>> /\ got' = decodeProtoMsg(wire) /\ wire' = <<>> /\ request' = request BY <2>2 DEF ServerDecodes
      <3>2. PICK m : m = request OBVIOUS
      <3>3. m \in Requests /\ wire = encodeProtoMsg(m) BY <1>2, <3>1, <3>2 DEF RequestInv
      <3>4. PICK g : g = decodeProtoMsg(encodeProtoMsg(m)) OBVIOUS
      <3>5. Understood(m, g) BY <3>3, <3>4, AllUnderstood
      <3>6. got' = g /\ request' = m BY <3>1, <3>2, <3>3, <3>4
      <3>7. RequestUnderstood' BY <3>5, <3>6 DEF RequestUnderstood, Understood, Half
      <3>8. m # NoMessage BY <3>1, <1>2, <3>2 DEF RequestInv
      <3> QED BY <3>1, <3>6, <3>7, <3>8 DEF RequestInv
    <2>3. CASE UNCHANGED requestVars
      BY <1>2, <2>3 DEF requestVars, RequestInv, RequestUnderstood
    <2>4. ReplyStep => UNCHANGED requestVars
      BY DEF ReplyStep, ServerSendsData, ServerSendsOther, MirrorHears, RequestHears, RequestCloses, RequestCut,
        RequestReset, OnClose
    <2>5. UNCHANGED vars => UNCHANGED requestVars BY DEF vars
    <2> QED BY <1>2, <2>1, <2>2, <2>3, <2>4, <2>5 DEF Next, RequestStep
  <1>3. RequestInv => RequestUnderstood BY DEF RequestInv
  <1> QED BY <1>1, <1>2, <1>3, PTL DEF Spec
=============================================================================
