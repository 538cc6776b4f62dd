----------------------------- MODULE MessageProofs -----------------------------
(***************************************************************************)
(* The routes of messages (ReplyRoute), for any width of integers, any     *)
(* chats, threads, messages and bots, and anything else Orka may send, and *)
(* their texts (MessageText), for any length and any limits.               *)
(*                                                                         *)
(* The argument about routes.  FormatInt gives each number one text, which *)
(* is no word, and ParseInt gives that number back; so a text that is      *)
(* equal to one an event was given names the number the event was given it *)
(* for.                                                                    *)
(*                                                                         *)
(* The argument about texts.  The loops are functions of the number of     *)
(* runes they have seen, and what is claimed of a loop is shown of each of *)
(* these numbers in turn.  The rule for that (UpTo) comes from the         *)
(* well-foundedness of the naturals, and is about a set in the place of a  *)
(* predicate.  A function that is defined by recursion is a CHOOSE, and    *)
(* has the values its definition gives if some function has (RunExists).   *)
(***************************************************************************)
EXTENDS ReplyRoute, MessageText, SequenceTheorems, WellFoundedInduction, TLAPS

-----------------------------------------------------------------------------
(* Induction.                                                              *)

LEMMA Least ==
  ASSUME NEW T \in SUBSET Nat, T # {}
  PROVE  \E m \in T : \A n \in T : m <= n
<1>1. PICK m \in T : \A n \in T : ~(<<n, m>> \in OpToRel(<, Nat))
  BY WFMin, NatLessThanWellFounded
<1>2. \A n \in T : ~(n < m)
  BY <1>1 DEF OpToRel
<1> QED BY <1>2

LEMMA Greatest ==
  ASSUME NEW n \in Nat, NEW T \in SUBSET (0..n), T # {}
  PROVE  \E m \in T : \A k \in T : k <= m
<1> DEFINE U == {u \in Nat : \E k \in T : u = n - k}
<1>1. PICK k \in T : TRUE
  OBVIOUS
<1>2. n - k \in U
  BY <1>1
<1>3. U \in SUBSET Nat /\ U # {}
  BY <1>2
<1> HIDE DEF U
<1>4. PICK u \in U : \A v \in U : u <= v
  BY <1>3, Least
<1> USE DEF U
<1>5. PICK m \in T : u = n - m
  BY <1>4
<1>6. ASSUME NEW j \in T PROVE j <= m
  <2>1. n - j \in U
    OBVIOUS
  <2> QED BY <1>4, <1>5, <2>1
<1> QED BY <1>6

\* What holds of 0, and of i if of i - 1, holds up to n.
LEMMA UpTo ==
  ASSUME NEW n \in Nat, NEW T, 0 \in T, \A i \in 1..n : i - 1 \in T => i \in T
  PROVE  \A i \in 0..n : i \in T
<1> SUFFICES ASSUME NEW k \in 0..n, k \notin T PROVE FALSE
  OBVIOUS
<1> DEFINE U == (0..n) \ T
<1>1. U \in SUBSET Nat /\ U # {}
  OBVIOUS
<1>2. PICK u \in U : \A v \in U : u <= v
  BY <1>1, Least
<1>3. u \in 1..n /\ u - 1 \in 0..n /\ u - 1 \notin U
  BY <1>2
<1> QED BY <1>3

\* The functions that start from base and step by g.
Steps(n, S) == [1..n -> [S -> S]]
Runs(n, S, base, g) ==
  {f \in [0..n -> S] : f[0] = base /\ \A i \in 1..n : f[i] = g[i][f[i - 1]]}

LEMMA RunExists ==
  ASSUME NEW n \in Nat, NEW S, NEW base \in S, NEW g \in Steps(n, S)
  PROVE  \E f : f \in Runs(n, S, base, g)
<1> DEFINE Is(m, f) == f[0] = base /\ \A i \in 1..m : f[i] = g[i][f[i - 1]]
           Good(m) == \E f \in [0..n -> S] : Is(m, f)
           T == {m \in 0..n : Good(m)}
<1>1. 0 \in T
  <2>1. [i \in 0..n |-> base] \in [0..n -> S]
    OBVIOUS
  <2>2. Is(0, [i \in 0..n |-> base])
    OBVIOUS
  <2> HIDE DEF Is
  <2>3. Good(0)
    BY <2>1, <2>2
  <2> QED BY <2>3
<1>2. ASSUME NEW m \in 1..n, m - 1 \in T PROVE m \in T
  <2>1. PICK f \in [0..n -> S] : Is(m - 1, f)
    BY <1>2
  <2> DEFINE h == [f EXCEPT ![m] = g[m][f[m - 1]]]
  <2>2. g[m] \in [S -> S] /\ f[m - 1] \in S
    BY DEF Steps
  <2>3. h \in [0..n -> S]
    BY <2>2
  <2>4. h[0] = base /\ h[m] = g[m][h[m - 1]]
    BY <2>1
  <2>5. \A i \in 1..(m - 1) : h[i] = f[i] /\ h[i - 1] = f[i - 1] /\ f[i] = g[i][f[i - 1]]
    BY <2>1
  <2>6. Is(m, h)
    BY <2>4, <2>5
  <2> HIDE DEF Is, h
  <2>7. Good(m)
    BY <2>3, <2>6
  <2> HIDE DEF Good
  <2> QED BY <2>7
<1> HIDE DEF T
<1>3. \A i \in 0..n : i \in T
  BY <1>1, <1>2, UpTo
<1> USE DEF T
<1> HIDE DEF Is
<1>4. PICK f \in [0..n -> S] : Is(n, f)
  BY <1>3
<1> QED BY <1>4 DEF Is, Runs

-----------------------------------------------------------------------------
(* The recursive functions of the model are what their definitions say.    *)

LEMMA CollectIs ==
  ASSUME NEW S, NEW t \in Seq(S), NEW P
  PROVE  /\ Collect(t, P) \in [0..Len(t) -> Seq(S)]
         /\ Collect(t, P)[0] = <<>>
         /\ \A i \in 1..Len(t) :
              Collect(t, P)[i] = IF i \in P THEN Append(Collect(t, P)[i - 1], t[i])
                                 ELSE Collect(t, P)[i - 1]
<1> DEFINE n == Len(t)
           Then(s, i) == IF i \in P THEN Append(s, t[i]) ELSE s
           Def(f) == [i \in 0..n |-> IF i = 0 THEN <<>> ELSE Then(f[i - 1], i)]
           g == [i \in 1..n |-> [s \in Seq(S) |-> Then(s, i)]]
           c == Collect(t, P)
<1>1. n \in Nat /\ n = Len(t) /\ 0 \in 0..n /\ \A i \in 1..n : t[i] \in S
  OBVIOUS
<1>2. <<>> \in Seq(S) /\ \A i \in 1..n, s \in Seq(S) : Then(s, i) \in Seq(S)
  BY <1>1
<1> HIDE DEF n
<1>3. c = CHOOSE h : h = Def(h)
  BY DEF Collect, n
<1> HIDE DEF Then, c
<1>4. g \in Steps(n, Seq(S))
  BY <1>2 DEF Steps
<1>5. PICK f : f \in Runs(n, Seq(S), <<>>, g)
  <2> HIDE DEF g
  <2> QED BY <1>1, <1>2, <1>4, RunExists
<1>6. f \in [0..n -> Seq(S)] /\ f[0] = <<>> /\ \A i \in 1..n : f[i] = g[i][f[i - 1]]
  BY <1>5 DEF Runs
<1>7. ASSUME NEW i \in 0..n PROVE f[i] = Def(f)[i]
  <2>1. CASE i = 0
    BY <1>6, <2>1
  <2>2. CASE i # 0
    <3>1. i \in 1..n /\ i - 1 \in 0..n
      BY <1>1, <2>2
    <3>2. f[i - 1] \in Seq(S)
      BY <1>6, <3>1
    <3> QED BY <1>6, <3>1, <3>2, <2>2
  <2> QED BY <2>1, <2>2
<1>8. f = Def(f)
  BY <1>6, <1>7
<1>9. c = Def(c)
  <2> HIDE DEF Def
  <2> QED BY <1>8, <1>3
<1>10. c[0] = <<>>
  BY <1>1, <1>9
<1>11. ASSUME NEW i \in 1..n PROVE c[i] = Then(c[i - 1], i)
  <2>1. i \in 0..n /\ i # 0
    BY <1>1
  <2> QED BY <1>9, <2>1
<1>12. c = [i \in 0..n |-> c[i]]
  BY <1>9
<1> HIDE DEF Def, g
<1>13. \A i \in 0..n : c[i] \in Seq(S)
  <2> DEFINE T == {i \in 0..n : c[i] \in Seq(S)}
  <2>1. 0 \in T
    BY <1>1, <1>2, <1>10
  <2>2. ASSUME NEW i \in 1..n, i - 1 \in T PROVE i \in T
    <3>1. i \in 0..n /\ c[i - 1] \in Seq(S)
      BY <1>1, <2>2
    <3>2. Then(c[i - 1], i) \in Seq(S)
      BY <1>2, <3>1
    <3> QED BY <1>11, <3>1, <3>2
  <2> HIDE DEF T
  <2>3. \A i \in 0..n : i \in T
    BY <1>1, <2>1, <2>2, UpTo
  <2> QED BY <2>3 DEF T
<1>14. c \in [0..n -> Seq(S)]
  BY <1>12, <1>13
<1> QED BY <1>1, <1>10, <1>11, <1>14 DEF c, Then

LEMMA WidthIs == \A r \in Runes : Width[r] \in 1..3
BY DEF Runes, Width

LEMMA OffsetIs ==
  ASSUME NEW t \in Seq(Runes)
  PROVE  /\ Offset(t) \in [0..Len(t) -> Nat]
         /\ Offset(t)[0] = 0
         /\ \A i \in 1..Len(t) :
              Offset(t)[i] = Offset(t)[i - 1] + Width[t[i]]
<1> DEFINE n == Len(t)
           Then(s, i) == s + Width[t[i]]
           Def(f) == [i \in 0..n |-> IF i = 0 THEN 0 ELSE Then(f[i - 1], i)]
           g == [i \in 1..n |-> [s \in Nat |-> Then(s, i)]]
           c == Offset(t)
<1>1. n \in Nat /\ n = Len(t) /\ 0 \in 0..n /\ \A i \in 1..n : t[i] \in Runes
  OBVIOUS
<1>2. 0 \in Nat /\ \A i \in 1..n, s \in Nat : Then(s, i) \in Nat
  BY <1>1, WidthIs
<1> HIDE DEF n
<1>3. c = CHOOSE h : h = Def(h)
  BY DEF Offset, n
<1> HIDE DEF Then, c
<1>4. g \in Steps(n, Nat)
  BY <1>2 DEF Steps
<1>5. PICK f : f \in Runs(n, Nat, 0, g)
  <2> HIDE DEF g
  <2> QED BY <1>1, <1>2, <1>4, RunExists
<1>6. f \in [0..n -> Nat] /\ f[0] = 0 /\ \A i \in 1..n : f[i] = g[i][f[i - 1]]
  BY <1>5 DEF Runs
<1>7. ASSUME NEW i \in 0..n PROVE f[i] = Def(f)[i]
  <2>1. CASE i = 0
    BY <1>6, <2>1
  <2>2. CASE i # 0
    <3>1. i \in 1..n /\ i - 1 \in 0..n
      BY <1>1, <2>2
    <3>2. f[i - 1] \in Nat
      BY <1>6, <3>1
    <3> QED BY <1>6, <3>1, <3>2, <2>2
  <2> QED BY <2>1, <2>2
<1>8. f = Def(f)
  BY <1>6, <1>7
<1>9. c = Def(c)
  <2> HIDE DEF Def
  <2> QED BY <1>8, <1>3
<1>10. c[0] = 0
  BY <1>1, <1>9
<1>11. ASSUME NEW i \in 1..n PROVE c[i] = Then(c[i - 1], i)
  <2>1. i \in 0..n /\ i # 0
    BY <1>1
  <2> QED BY <1>9, <2>1
<1>12. c = [i \in 0..n |-> c[i]]
  BY <1>9
<1> HIDE DEF Def, g
<1>13. \A i \in 0..n : c[i] \in Nat
  <2> DEFINE T == {i \in 0..n : c[i] \in Nat}
  <2>1. 0 \in T
    BY <1>1, <1>2, <1>10
  <2>2. ASSUME NEW i \in 1..n, i - 1 \in T PROVE i \in T
    <3>1. i \in 0..n /\ c[i - 1] \in Nat
      BY <1>1, <2>2
    <3>2. Then(c[i - 1], i) \in Nat
      BY <1>2, <3>1
    <3> QED BY <1>11, <3>1, <3>2
  <2> HIDE DEF T
  <2>3. \A i \in 0..n : i \in T
    BY <1>1, <2>1, <2>2, UpTo
  <2> QED BY <2>3 DEF T
<1>14. c \in [0..n -> Nat]
  BY <1>12, <1>13
<1> QED BY <1>1, <1>10, <1>11, <1>14 DEF c, Then

\* The bytes of a rune.
Encodings == Runes \X (1..3)

LEMMA RuneIs ==
  ASSUME NEW r \in Runes
  PROVE  /\ [b \in 1..Width[r] |-> <<r, b>>] \in Seq(Encodings)
         /\ Len([b \in 1..Width[r] |-> <<r, b>>]) = Width[r]
<1> DEFINE w == Width[r]
<1>1. w \in Nat /\ 1..w \subseteq 1..3
  BY WidthIs
<1> HIDE DEF w
<1>2. \A b \in 1..w : <<r, b>> \in Encodings
  BY <1>1 DEF Encodings
<1>3. [b \in 1..w |-> <<r, b>>] \in [1..w -> Encodings]
  BY <1>2
<1>4. [b \in 1..w |-> <<r, b>>] \in Seq(Encodings) /\ Len([b \in 1..w |-> <<r, b>>]) = w
  BY <1>1, <1>3
<1> QED BY <1>4 DEF w

LEMMA EncodingIs ==
  ASSUME NEW t \in Seq(Runes)
  PROVE  /\ Encoding(t) \in [0..Len(t) -> Seq(Encodings)]
         /\ Encoding(t)[0] = <<>>
         /\ \A i \in 1..Len(t) :
              Encoding(t)[i] = Encoding(t)[i - 1] \o [b \in 1..Width[t[i]] |-> <<t[i], b>>]
<1> DEFINE n == Len(t)
           Then(s, i) == s \o [b \in 1..Width[t[i]] |-> <<t[i], b>>]
           Def(f) == [i \in 0..n |-> IF i = 0 THEN <<>> ELSE Then(f[i - 1], i)]
           g == [i \in 1..n |-> [s \in Seq(Encodings) |-> Then(s, i)]]
           c == Encoding(t)
<1>1. n \in Nat /\ n = Len(t) /\ 0 \in 0..n /\ \A i \in 1..n : t[i] \in Runes
  OBVIOUS
<1>2. <<>> \in Seq(Encodings) /\ \A i \in 1..n, s \in Seq(Encodings) : Then(s, i) \in Seq(Encodings)
  <2> SUFFICES ASSUME NEW i \in 1..n, NEW s \in Seq(Encodings)
               PROVE  Then(s, i) \in Seq(Encodings)
    OBVIOUS
  <2> DEFINE e == [b \in 1..Width[t[i]] |-> <<t[i], b>>]
  <2>1. e \in Seq(Encodings)
    BY <1>1, RuneIs
  <2> HIDE DEF e
  <2>2. s \o e \in Seq(Encodings)
    BY <2>1, ConcatProperties
  <2> QED BY <2>2 DEF e
<1> HIDE DEF n
<1>3. c = CHOOSE h : h = Def(h)
  BY DEF Encoding, n
<1> HIDE DEF Then, c
<1>4. g \in Steps(n, Seq(Encodings))
  BY <1>2 DEF Steps
<1>5. PICK f : f \in Runs(n, Seq(Encodings), <<>>, g)
  <2> HIDE DEF g
  <2> QED BY <1>1, <1>2, <1>4, RunExists
<1>6. f \in [0..n -> Seq(Encodings)] /\ f[0] = <<>> /\ \A i \in 1..n : f[i] = g[i][f[i - 1]]
  BY <1>5 DEF Runs
<1>7. ASSUME NEW i \in 0..n PROVE f[i] = Def(f)[i]
  <2>1. CASE i = 0
    BY <1>6, <2>1
  <2>2. CASE i # 0
    <3>1. i \in 1..n /\ i - 1 \in 0..n
      BY <1>1, <2>2
    <3>2. f[i - 1] \in Seq(Encodings)
      BY <1>6, <3>1
    <3> QED BY <1>6, <3>1, <3>2, <2>2
  <2> QED BY <2>1, <2>2
<1>8. f = Def(f)
  BY <1>6, <1>7
<1>9. c = Def(c)
  <2> HIDE DEF Def
  <2> QED BY <1>8, <1>3
<1>10. c[0] = <<>>
  BY <1>1, <1>9
<1>11. ASSUME NEW i \in 1..n PROVE c[i] = Then(c[i - 1], i)
  <2>1. i \in 0..n /\ i # 0
    BY <1>1
  <2> QED BY <1>9, <2>1
<1>12. c = [i \in 0..n |-> c[i]]
  BY <1>9
<1> HIDE DEF Def, g
<1>13. \A i \in 0..n : c[i] \in Seq(Encodings)
  <2> DEFINE T == {i \in 0..n : c[i] \in Seq(Encodings)}
  <2>1. 0 \in T
    BY <1>1, <1>2, <1>10
  <2>2. ASSUME NEW i \in 1..n, i - 1 \in T PROVE i \in T
    <3>1. i \in 0..n /\ c[i - 1] \in Seq(Encodings)
      BY <1>1, <2>2
    <3>2. Then(c[i - 1], i) \in Seq(Encodings)
      BY <1>2, <3>1
    <3> QED BY <1>11, <3>1, <3>2
  <2> HIDE DEF T
  <2>3. \A i \in 0..n : i \in T
    BY <1>1, <2>1, <2>2, UpTo
  <2> QED BY <2>3 DEF T
<1>14. c \in [0..n -> Seq(Encodings)]
  BY <1>12, <1>13
<1> QED BY <1>1, <1>10, <1>11, <1>14 DEF c, Then

Uses(t) == [runes : 0..Len(t), full : BOOLEAN]

LEMMA UsedIs ==
  ASSUME NEW t \in Seq(Runes)
  PROVE  /\ Used(t) \in [0..Len(t) -> Uses(t)]
         /\ Used(t)[0] = [runes |-> 0, full |-> FALSE]
         /\ \A i \in 1..Len(t) :
              LET u == Used(t)[i - 1]
              IN  Used(t)[i] = IF u.full \/ i \notin ClusterEnds(t) THEN u
                               ELSE IF i > MaxCharacters - Len(Suffix) THEN [u EXCEPT !.full = TRUE]
                               ELSE [u EXCEPT !.runes = i]
<1> DEFINE n == Len(t)
           Then(s, i) == IF s.full \/ i \notin ClusterEnds(t) THEN s
                         ELSE IF i > MaxCharacters - Len(Suffix) THEN [s EXCEPT !.full = TRUE]
                         ELSE [s EXCEPT !.runes = i]
           Def(f) == [i \in 0..n |-> IF i = 0 THEN [runes |-> 0, full |-> FALSE] ELSE Then(f[i - 1], i)]
           g == [i \in 1..n |-> [s \in Uses(t) |-> Then(s, i)]]
           c == Used(t)
<1>1. n \in Nat /\ n = Len(t) /\ 0 \in 0..n /\ \A i \in 1..n : t[i] \in Runes
  OBVIOUS
<1>2. [runes |-> 0, full |-> FALSE] \in Uses(t) /\ \A i \in 1..n, s \in Uses(t) : Then(s, i) \in Uses(t)
  <2> SUFFICES ASSUME NEW i \in 1..n, NEW s \in Uses(t)
               PROVE  Then(s, i) \in Uses(t)
    BY <1>1 DEF Uses
  <2>1. i \in 0..Len(t) /\ s \in [runes : 0..Len(t), full : BOOLEAN]
    BY <1>1 DEF Uses
  <2>2. [s EXCEPT !.full = TRUE] \in Uses(t) /\ [s EXCEPT !.runes = i] \in Uses(t)
    BY <2>1 DEF Uses
  <2> QED BY <2>2
<1> HIDE DEF n
<1>3. c = CHOOSE h : h = Def(h)
  BY DEF Used, n
<1> HIDE DEF Then, c
<1>4. g \in Steps(n, Uses(t))
  BY <1>2 DEF Steps
<1>5. PICK f : f \in Runs(n, Uses(t), [runes |-> 0, full |-> FALSE], g)
  <2> HIDE DEF g
  <2> QED BY <1>1, <1>2, <1>4, RunExists
<1>6. f \in [0..n -> Uses(t)] /\ f[0] = [runes |-> 0, full |-> FALSE] /\ \A i \in 1..n : f[i] = g[i][f[i - 1]]
  BY <1>5 DEF Runs
<1>7. ASSUME NEW i \in 0..n PROVE f[i] = Def(f)[i]
  <2>1. CASE i = 0
    BY <1>6, <2>1
  <2>2. CASE i # 0
    <3>1. i \in 1..n /\ i - 1 \in 0..n
      BY <1>1, <2>2
    <3>2. f[i - 1] \in Uses(t)
      BY <1>6, <3>1
    <3> QED BY <1>6, <3>1, <3>2, <2>2
  <2> QED BY <2>1, <2>2
<1>8. f = Def(f)
  BY <1>6, <1>7
<1>9. c = Def(c)
  <2> HIDE DEF Def
  <2> QED BY <1>8, <1>3
<1>10. c[0] = [runes |-> 0, full |-> FALSE]
  BY <1>1, <1>9
<1>11. ASSUME NEW i \in 1..n PROVE c[i] = Then(c[i - 1], i)
  <2>1. i \in 0..n /\ i # 0
    BY <1>1
  <2> QED BY <1>9, <2>1
<1>12. c = [i \in 0..n |-> c[i]]
  BY <1>9
<1> HIDE DEF Def, g
<1>13. \A i \in 0..n : c[i] \in Uses(t)
  <2> DEFINE T == {i \in 0..n : c[i] \in Uses(t)}
  <2>1. 0 \in T
    BY <1>1, <1>2, <1>10
  <2>2. ASSUME NEW i \in 1..n, i - 1 \in T PROVE i \in T
    <3>1. i \in 0..n /\ c[i - 1] \in Uses(t)
      BY <1>1, <2>2
    <3>2. Then(c[i - 1], i) \in Uses(t)
      BY <1>2, <3>1
    <3> QED BY <1>11, <3>1, <3>2
  <2> HIDE DEF T
  <2>3. \A i \in 0..n : i \in T
    BY <1>1, <2>1, <2>2, UpTo
  <2> QED BY <2>3 DEF T
<1>14. c \in [0..n -> Uses(t)]
  BY <1>12, <1>13
<1> QED BY <1>1, <1>10, <1>11, <1>14 DEF c, Then

Loops == [out : Seq(Runes), pending : BOOLEAN, full : BOOLEAN]

LEMMA EmptyIs == Loop(<<>>, FALSE, FALSE) \in Loops
BY DEF Loop, Loops

LEMMA StepIs ==
  ASSUME NEW acc \in Loops, NEW r \in Runes, NEW limit
  PROVE  FoldStep(acc, r, limit) \in Loops
<1> DEFINE spaced == IF acc.pending THEN Append(acc.out, "space") ELSE acc.out
<1>1. acc.out \in Seq(Runes) /\ acc.pending \in BOOLEAN /\ acc.full \in BOOLEAN
  BY DEF Loops
<1>2. "space" \in Runes
  BY DEF Runes, Width
<1>3. spaced \in Seq(Runes)
  BY <1>1, <1>2
<1>4. Append(spaced, r) \in Seq(Runes)
  BY <1>3
<1>5. \A out \in Seq(Runes), p \in BOOLEAN, f \in BOOLEAN : Loop(out, p, f) \in Loops
  BY DEF Loop, Loops
<1>6. (acc.out # <<>>) \in BOOLEAN
  OBVIOUS
<1> HIDE DEF spaced
<1>7. FoldStep(acc, r, limit) =
        IF acc.full THEN acc
        ELSE IF r \in IsSpace THEN Loop(acc.out, acc.out # <<>>, FALSE)
        ELSE IF r \in IsControl \cup Formatting THEN acc
        ELSE IF Bytes(spaced) > limit THEN Loop(acc.out, acc.pending, TRUE)
             ELSE IF Bytes(spaced) + Width[r] > limit THEN Loop(spaced, FALSE, TRUE)
             ELSE Loop(Append(spaced, r), FALSE, FALSE)
  BY DEF FoldStep, spaced
<1> QED BY <1>1, <1>3, <1>4, <1>5, <1>6, <1>7

LEMMA FoldRunIs ==
  ASSUME NEW t \in Seq(Runes), NEW limit
  PROVE  /\ FoldRun(t, limit) \in [0..Len(t) -> Loops]
         /\ FoldRun(t, limit)[0] = Loop(<<>>, FALSE, FALSE)
         /\ \A i \in 1..Len(t) :
              FoldRun(t, limit)[i] = FoldStep(FoldRun(t, limit)[i - 1], t[i], limit)
<1> DEFINE n == Len(t)
           Then(s, i) == FoldStep(s, t[i], limit)
           Def(f) == [i \in 0..n |-> IF i = 0 THEN Loop(<<>>, FALSE, FALSE) ELSE Then(f[i - 1], i)]
           g == [i \in 1..n |-> [s \in Loops |-> Then(s, i)]]
           c == FoldRun(t, limit)
<1>1. n \in Nat /\ n = Len(t) /\ 0 \in 0..n /\ \A i \in 1..n : t[i] \in Runes
  OBVIOUS
<1>2. Loop(<<>>, FALSE, FALSE) \in Loops /\ \A i \in 1..n, s \in Loops : Then(s, i) \in Loops
  BY <1>1, StepIs, EmptyIs
<1> HIDE DEF n
<1>3. c = CHOOSE h : h = Def(h)
  BY DEF FoldRun, n
<1> HIDE DEF Then, c
<1>4. g \in Steps(n, Loops)
  BY <1>2 DEF Steps
<1>5. PICK f : f \in Runs(n, Loops, Loop(<<>>, FALSE, FALSE), g)
  <2> HIDE DEF g
  <2> QED BY <1>1, <1>2, <1>4, RunExists
<1>6. f \in [0..n -> Loops] /\ f[0] = Loop(<<>>, FALSE, FALSE) /\ \A i \in 1..n : f[i] = g[i][f[i - 1]]
  BY <1>5 DEF Runs
<1>7. ASSUME NEW i \in 0..n PROVE f[i] = Def(f)[i]
  <2>1. CASE i = 0
    BY <1>6, <2>1
  <2>2. CASE i # 0
    <3>1. i \in 1..n /\ i - 1 \in 0..n
      BY <1>1, <2>2
    <3>2. f[i - 1] \in Loops
      BY <1>6, <3>1
    <3> QED BY <1>6, <3>1, <3>2, <2>2
  <2> QED BY <2>1, <2>2
<1>8. f = Def(f)
  BY <1>6, <1>7
<1>9. c = Def(c)
  <2> HIDE DEF Def
  <2> QED BY <1>8, <1>3
<1>10. c[0] = Loop(<<>>, FALSE, FALSE)
  BY <1>1, <1>9
<1>11. ASSUME NEW i \in 1..n PROVE c[i] = Then(c[i - 1], i)
  <2>1. i \in 0..n /\ i # 0
    BY <1>1
  <2> QED BY <1>9, <2>1
<1>12. c = [i \in 0..n |-> c[i]]
  BY <1>9
<1> HIDE DEF Def, g
<1>13. \A i \in 0..n : c[i] \in Loops
  <2> DEFINE T == {i \in 0..n : c[i] \in Loops}
  <2>1. 0 \in T
    BY <1>1, <1>2, <1>10
  <2>2. ASSUME NEW i \in 1..n, i - 1 \in T PROVE i \in T
    <3>1. i \in 0..n /\ c[i - 1] \in Loops
      BY <1>1, <2>2
    <3>2. Then(c[i - 1], i) \in Loops
      BY <1>2, <3>1
    <3> QED BY <1>11, <3>1, <3>2
  <2> HIDE DEF T
  <2>3. \A i \in 0..n : i \in T
    BY <1>1, <2>1, <2>2, UpTo
  <2> QED BY <2>3 DEF T
<1>14. c \in [0..n -> Loops]
  BY <1>12, <1>13
<1> QED BY <1>1, <1>10, <1>11, <1>14 DEF c, Then

-----------------------------------------------------------------------------
(* What is refused, ignored and accepted.                                  *)

\* Only runes are written.
TextInv == text \in Seq(Runes)

LEMMA TextIsRunes == TextSpec => []TextInv
<1>1. InitText => TextInv
  BY DEF InitText, TextInv
<1>2. TextInv /\ [NextText]_text => TextInv'
  BY DEF TextInv, NextText, Type
<1> QED BY <1>1, <1>2, PTL DEF TextSpec

LEMMA RefusedIs ==
  ASSUME NEW t \in Seq(Runes), Bytes(t) <= MaxTextBytes
  PROVE  MapUpdateText(t) = "invalid" <=> RunesOf(t) \cap Unsafe # {}
<1>1. CASE t = <<>>
  <2>1. RunesOf(t) = {}
    BY <1>1 DEF RunesOf
  <2> QED BY <1>1, <2>1 DEF MapUpdateText
<1>2. CASE t # <<>>
  <2>1. WithinBounds(t)
    BY <1>2 DEF WithinBounds
  <2>2. ignorableMessageText(t) <=> RunesOf(t) \subseteq Invisible \ Unsafe
    BY <2>1 DEF ignorableMessageText
  <2>3. validMessageText(t) <=> RunesOf(t) \cap Unsafe = {} /\ RunesOf(t) \ Invisible # {}
    BY <2>1 DEF validMessageText
  <2> QED BY <1>2, <2>2, <2>3 DEF MapUpdateText
<1> QED BY <1>1, <1>2

\* Of the texts within bounds MapUpdate refuses those with an unsafe control
\* and no other: the ignorable and the valid ones are together all the rest.
THEOREM UnsafeRefused == TextSpec => []OnlyUnsafeRefused
<1>1. TextInv => OnlyUnsafeRefused
  BY RefusedIs DEF TextInv, OnlyUnsafeRefused
<1> QED BY <1>1, TextIsRunes, PTL

\* What one part of the adapter accepts, the next one does: MapUpdate, the
\* decoder, the client; and an identity the decoder accepts is its own in the
\* store.
THEOREM AcceptedIsPassed == TextSpec => []AcceptedPasses
<1>1. TextInv => AcceptedPasses
  <2> SUFFICES ASSUME NEW t \in Seq(Runes)
               PROVE  /\ MapUpdateText(t) = "event" => ValidDeliveryText(t)
                      /\ ValidDeliveryText(t) => validOutboundText(t)
                      /\ validateRequiredIdentity(t) => normalizeIdentity(t) = t
    BY DEF TextInv, AcceptedPasses
  <2>1. ASSUME MapUpdateText(t) = "event" PROVE ValidDeliveryText(t)
    <3>1. validMessageText(t)
      BY <2>1 DEF MapUpdateText
    <3> QED BY <3>1 DEF validMessageText, ValidDeliveryText, containsUnsafeControl
  <2>2. ValidDeliveryText(t) => validOutboundText(t)
    BY DEF ValidDeliveryText, validOutboundText, containsUnsafeControl
  <2>3. ASSUME validateRequiredIdentity(t) PROVE normalizeIdentity(t) = t
    <3>1. /\ t # <<>> /\ TrimSpace(t) = t
          /\ ~(Bytes(t) > MaxIdentityBytes) /\ RunesOf(t) \cap IsControl = {}
      <4>1. Bytes(t) \in Nat
        <5>1. Len(t) \in 0..Len(t)
          OBVIOUS
        <5> QED BY <5>1, OffsetIs DEF Bytes
      <4> QED BY <2>3, <4>1, BytesAssumption
            DEF validateRequiredIdentity, containsUnsafeControl
    <3> QED BY <3>1 DEF normalizeIdentity
  <2> QED BY <2>1, <2>2, <2>3
<1> QED BY <1>1, TextIsRunes, PTL

-----------------------------------------------------------------------------
(* What is sent.                                                           *)

SuffixRoom == MaxCharacters - Len(Suffix)

LEMMA SuffixIs == Suffix \in Seq(Runes) /\ Len(Suffix) = 2
BY DEF Suffix, Runes, Width

\* After i runes of t: those used end with a cluster, and all the clusters that
\* fit and have been seen are used.
UsedWell(t, i) ==
  LET u == Used(t)[i]
  IN  /\ u.runes \in 0..i /\ u.runes <= SuffixRoom
      /\ u.runes = 0 \/ u.runes \in ClusterEnds(t)
      /\ \A e \in ClusterEnds(t) :
           e <= (IF u.full THEN SuffixRoom ELSE i) => e <= u.runes

LEMMA UsedIsWell ==
  ASSUME NEW t \in Seq(Runes)
  PROVE  UsedWell(t, Len(t))
<1> DEFINE n == Len(t)
           T == {i \in 0..n : UsedWell(t, i)}
<1>1. n \in Nat /\ n = Len(t) /\ SuffixRoom \in Nat /\ ClusterEnds(t) \subseteq 1..n
  BY SuffixIs, CharactersAssumption DEF SuffixRoom, ClusterEnds
<1> HIDE DEF n
<1>2. 0 \in T
  <2>1. Used(t)[0].runes = 0 /\ Used(t)[0].full = FALSE
    BY UsedIs
  <2> QED BY <1>1, <2>1 DEF UsedWell
<1>3. ASSUME NEW i \in 1..n, i - 1 \in T PROVE i \in T
  <2> DEFINE u == Used(t)[i - 1]
             v == Used(t)[i]
  <2>1. i \in 0..n /\ i - 1 \in 0..n /\ i \in 1..Len(t)
    BY <1>1
  <2>2. u \in Uses(t)
    BY <1>1, <2>1, UsedIs
  <2>3. v = IF u.full \/ i \notin ClusterEnds(t) THEN u
            ELSE IF i > SuffixRoom THEN [u EXCEPT !.full = TRUE]
            ELSE [u EXCEPT !.runes = i]
    BY <2>1, UsedIs DEF SuffixRoom
  <2>4. UsedWell(t, i - 1)
    BY <1>3
  <2> HIDE DEF u, v
  <2>5. /\ u.runes \in 0..(i - 1) /\ u.runes <= SuffixRoom
        /\ u.runes = 0 \/ u.runes \in ClusterEnds(t)
        /\ \A e \in ClusterEnds(t) :
             e <= (IF u.full THEN SuffixRoom ELSE i - 1) => e <= u.runes
    BY <2>4 DEF UsedWell, u
  <2>6. /\ v.runes \in 0..i /\ v.runes <= SuffixRoom
        /\ v.runes = 0 \/ v.runes \in ClusterEnds(t)
        /\ \A e \in ClusterEnds(t) :
             e <= (IF v.full THEN SuffixRoom ELSE i) => e <= v.runes
    <3>1. CASE u.full
      BY <1>1, <2>1, <2>3, <2>5, <3>1
    <3>2. CASE ~u.full /\ i \notin ClusterEnds(t)
      BY <1>1, <2>1, <2>3, <2>5, <3>2
    <3>3. CASE ~u.full /\ i \in ClusterEnds(t) /\ i > SuffixRoom
      <4>1. v.runes = u.runes /\ v.full = TRUE
        BY <2>2, <2>3, <3>3 DEF Uses
      <4> QED BY <1>1, <2>1, <2>5, <3>3, <4>1
    <3>4. CASE ~u.full /\ i \in ClusterEnds(t) /\ ~(i > SuffixRoom)
      <4>1. v.runes = i /\ v.full = u.full
        BY <2>2, <2>3, <3>4 DEF Uses
      <4> QED BY <1>1, <2>1, <2>5, <3>4, <4>1
    <3> QED BY <3>1, <3>2, <3>3, <3>4
  <2> QED BY <2>1, <2>6 DEF UsedWell, v
<1> HIDE DEF T
<1>4. \A i \in 0..n : i \in T
  BY <1>1, <1>2, <1>3, UpTo
<1>5. n \in T
  BY <1>1, <1>4
<1> QED BY <1>1, <1>5 DEF T

\* The beginning of a text up to the end of a cluster has the clusters of the
\* text that end there or before.
LEMMA ClustersOfBeginning ==
  ASSUME NEW t \in Seq(Runes), NEW k \in 0..Len(t), k = 0 \/ k \in ClusterEnds(t)
  PROVE  ClusterEnds(SubSeq(t, 1, k)) = {e \in ClusterEnds(t) : e <= k}
<1> DEFINE s == SubSeq(t, 1, k)
<1>1. s \in Seq(Runes) /\ Len(s) = k /\ \A i \in 1..k : s[i] = t[i]
  <2>1. \A i \in 1..k : t[i] \in Runes
    OBVIOUS
  <2> QED BY <2>1, SubSeqProperties
<1> HIDE DEF s
<1>2. \A i \in 1..k : i < k => (Joined(s, i) <=> Joined(t, i))
  BY <1>1 DEF Joined
<1>3. ASSUME NEW i \in 1..k PROVE i \in ClusterEnds(s) <=> i \in ClusterEnds(t)
  <2>1. i \in 1..Len(t) /\ i \in 1..Len(s)
    BY <1>1
  <2>2. CASE i = k
    <3>1. i \in ClusterEnds(t)
      BY <2>2
    <3> QED BY <1>1, <2>1, <2>2, <3>1 DEF ClusterEnds
  <2>3. CASE i < k
    BY <1>1, <1>2, <2>1, <2>3 DEF ClusterEnds
  <2> QED BY <2>2, <2>3
<1>4. ClusterEnds(s) \subseteq 1..k /\ ClusterEnds(t) \subseteq 1..Len(t)
  BY <1>1 DEF ClusterEnds
<1> QED BY <1>3, <1>4 DEF s

\* A text that is too long is cut after the last whole cluster that leaves room
\* for the suffix.
THEOREM CutIsWhole == TextSpec => []SentWhole
<1>1. TextInv => SentWhole
  <2> SUFFICES ASSUME NEW t \in Seq(Runes), text = t
               PROVE  SentWhole
    BY DEF TextInv
  <2>1. CASE Len(t) <= MaxCharacters
    BY <2>1 DEF SentWhole, truncateTelegramText
  <2>2. CASE ~(Len(t) <= MaxCharacters)
    <3> DEFINE k == Used(t)[Len(t)].runes
               sent == truncateTelegramText(t)
    <3>1. UsedWell(t, Len(t))
      BY UsedIsWell
    <3>2. /\ k \in 0..Len(t) /\ k <= SuffixRoom
          /\ k = 0 \/ k \in ClusterEnds(t)
          /\ \A e \in ClusterEnds(t) : e <= SuffixRoom => e <= k
      BY <2>2, <3>1, SuffixIs, CharactersAssumption DEF UsedWell, SuffixRoom, ClusterEnds
    <3>3. sent = SubSeq(t, 1, k) \o Suffix
      BY <2>2 DEF truncateTelegramText
    <3> HIDE DEF k, sent
    <3>4. SubSeq(t, 1, k) \in Seq(Runes) /\ Len(SubSeq(t, 1, k)) = k
      <4>1. \A i \in 1..k : t[i] \in Runes
        BY <3>2
      <4> QED BY <3>2, <4>1, SubSeqProperties
    <3>5. Len(sent) = k + Len(Suffix)
      <4> DEFINE w == SubSeq(t, 1, k)
      <4>1. w \in Seq(Runes) /\ Len(w) = k /\ sent = w \o Suffix
        BY <3>3, <3>4
      <4> HIDE DEF w
      <4> QED BY <4>1, SuffixIs, ConcatProperties
    <3>6. Len(sent) <= MaxCharacters /\ Len(sent) - Len(Suffix) = k
      BY <3>2, <3>5, SuffixIs, CharactersAssumption DEF SuffixRoom
    <3>7. ClusterEnds(SubSeq(t, 1, k)) = {e \in ClusterEnds(t) : e <= k}
      BY <3>2, ClustersOfBeginning
    <3>8. ClusterEnds(t) \subseteq Nat /\ SuffixRoom \in Nat
      BY SuffixIs, CharactersAssumption DEF ClusterEnds, SuffixRoom
    <3>9. {e \in ClusterEnds(t) : e <= SuffixRoom} = {e \in ClusterEnds(t) : e <= k}
      BY <3>2, <3>8
    <3> QED BY <3>3, <3>6, <3>7, <3>9 DEF SentWhole, sent, SuffixRoom
  <2> QED BY <2>1, <2>2
<1> QED BY <1>1, TextIsRunes, PTL

-----------------------------------------------------------------------------
(* What is stored of a message.                                            *)

LEMMA MaxIs ==
  ASSUME NEW n \in Nat, NEW T \in SUBSET (0..n), T # {}
  PROVE  Max(T) \in T /\ \A k \in T : k <= Max(T)
<1>1. PICK m \in T : \A k \in T : k <= m
  BY Greatest
<1>2. m \in T /\ \A k \in T : m >= k
  BY <1>1
<1> QED BY <1>2 DEF Max

LEMMA MinIs ==
  ASSUME NEW T \in SUBSET Nat, T # {}
  PROVE  Min(T) \in T /\ \A k \in T : Min(T) <= k
<1>1. PICK m \in T : \A k \in T : m <= k
  BY Least
<1> QED BY <1>1 DEF Min

\* A trimmed text is what is between the first and the last of its runes that
\* are no spaces.
LEMMA TrimIs ==
  ASSUME NEW t \in Seq(Runes)
  PROVE  \/ TrimSpace(t) = <<>> /\ \A i \in 1..Len(t) : t[i] \in IsSpace
         \/ \E a, b \in 1..Len(t) :
              /\ TrimSpace(t) = SubSeq(t, a, b) /\ a <= b
              /\ t[a] \notin IsSpace /\ t[b] \notin IsSpace
              /\ \A i \in 1..Len(t) : i < a \/ b < i => t[i] \in IsSpace
<1> DEFINE seen == {i \in DOMAIN t : t[i] \notin IsSpace}
<1>1. DOMAIN t = 1..Len(t) /\ Len(t) \in Nat
  OBVIOUS
<1>2. CASE seen = {}
  BY <1>1, <1>2 DEF TrimSpace
<1>3. CASE seen # {}
  <2>1. seen \in SUBSET (0..Len(t)) /\ seen \in SUBSET Nat
    BY <1>1
  <2>2. TrimSpace(t) = SubSeq(t, Min(seen), Max(seen))
    BY <1>3 DEF TrimSpace
  <2> HIDE DEF seen
  <2>3. Min(seen) \in seen /\ \A k \in seen : Min(seen) <= k
    BY <1>3, <2>1, MinIs
  <2>4. Max(seen) \in seen /\ \A k \in seen : k <= Max(seen)
    BY <1>1, <1>3, <2>1, MaxIs
  <2> DEFINE a == Min(seen)
             b == Max(seen)
  <2>5. TrimSpace(t) = SubSeq(t, a, b) /\ a \in seen /\ b \in seen /\ a <= b
    BY <2>2, <2>3, <2>4
  <2>6. \A k \in seen : a <= k /\ k <= b
    BY <2>3, <2>4
  <2> HIDE DEF a, b
  <2>7. a \in 1..Len(t) /\ b \in 1..Len(t) /\ t[a] \notin IsSpace /\ t[b] \notin IsSpace
    BY <1>1, <2>5 DEF seen
  <2>8. \A i \in 1..Len(t) : i < a \/ b < i => t[i] \in IsSpace
    BY <1>1, <2>6, <2>7 DEF seen
  <2> QED BY <2>5, <2>7, <2>8
<1> QED BY <1>2, <1>3

LEMMA TrimIsRunes ==
  ASSUME NEW t \in Seq(Runes)
  PROVE  TrimSpace(t) \in Seq(Runes)
<1>1. CASE TrimSpace(t) = <<>>
  BY <1>1
<1>2. ASSUME NEW a \in 1..Len(t), NEW b \in 1..Len(t), TrimSpace(t) = SubSeq(t, a, b)
      PROVE  TrimSpace(t) \in Seq(Runes)
  <2>1. \A i \in a..b : t[i] \in Runes
    OBVIOUS
  <2>2. SubSeq(t, a, b) \in Seq(Runes)
    BY <2>1, SubSeqProperties
  <2> QED BY <1>2, <2>2
<1> QED BY <1>1, <1>2, TrimIs

LEMMA PrintableIsRunes ==
  ASSUME NEW t \in Seq(Runes)
  PROVE  Printable(t) \in Seq(Runes)
<1> DEFINE s == TrimSpace(t)
           P == {i \in DOMAIN s : s[i] \in Runes \ (Unsafe \cup {"return"})}
<1>1. s \in Seq(Runes)
  BY TrimIsRunes
<1>2. Printable(t) = Collect(s, P)[Len(s)]
  BY DEF Printable, Keep
<1> HIDE DEF s, P
<1>3. Len(s) \in 0..Len(s)
  BY <1>1
<1> QED BY <1>1, <1>2, <1>3, CollectIs

\* The bytes of each rune follow those of the runes before it.
LEMMA EncodingStep ==
  ASSUME NEW w \in Seq(Runes), NEW i \in 1..Len(w)
  PROVE  /\ Encoding(w)[i] \in Seq(Encodings) /\ Encoding(w)[i - 1] \in Seq(Encodings)
         /\ Len(Encoding(w)[i]) = Len(Encoding(w)[i - 1]) + Width[w[i]]
         /\ \A k \in 1..Len(Encoding(w)[i]) :
              Encoding(w)[i][k] = IF k <= Len(Encoding(w)[i - 1]) THEN Encoding(w)[i - 1][k]
                                  ELSE <<w[i], k - Len(Encoding(w)[i - 1])>>
<1> DEFINE e == Encoding(w)[i - 1]
           f == Encoding(w)[i]
           r == [b \in 1..Width[w[i]] |-> <<w[i], b>>]
<1>1. i \in 0..Len(w) /\ i - 1 \in 0..Len(w) /\ w[i] \in Runes
  OBVIOUS
<1>2. e \in Seq(Encodings) /\ f \in Seq(Encodings) /\ f = e \o r
  BY <1>1, EncodingIs
<1>3. r \in Seq(Encodings) /\ Len(r) = Width[w[i]]
  BY <1>1, RuneIs
<1>4. \A b \in 1..Width[w[i]] : r[b] = <<w[i], b>>
  OBVIOUS
<1>5. Len(e) \in Nat /\ Width[w[i]] \in Nat
  BY <1>1, <1>2, WidthIs
<1> HIDE DEF e, f, r
<1>6. /\ Len(f) = Len(e) + Width[w[i]]
      /\ \A k \in 1..Len(f) : f[k] = IF k <= Len(e) THEN e[k] ELSE r[k - Len(e)]
  BY <1>2, <1>3, ConcatProperties
<1>7. ASSUME NEW k \in 1..Len(f), ~(k <= Len(e)) PROVE f[k] = <<w[i], k - Len(e)>>
  <2>1. k - Len(e) \in 1..Width[w[i]]
    BY <1>5, <1>6, <1>7
  <2>2. f[k] = r[k - Len(e)]
    BY <1>6, <1>7
  <2> QED BY <1>4, <2>1, <2>2
<1> QED BY <1>2, <1>6, <1>7 DEF e, f

\* The encoding of the first runes is the beginning of the encoding of them all.
LEMMA EncodingBegins ==
  ASSUME NEW w \in Seq(Runes), NEW j \in 0..Len(w), NEW i \in 0..j
  PROVE  /\ Len(Encoding(w)[i]) + (j - i) <= Len(Encoding(w)[j])
         /\ \A k \in 1..Len(Encoding(w)[i]) : Encoding(w)[j][k] = Encoding(w)[i][k]
<1> DEFINE E(m) == Encoding(w)[m]
           Holds(m) == \A h \in 0..m : /\ Len(E(h)) + (m - h) <= Len(E(m))
                                       /\ \A k \in 1..Len(E(h)) : E(m)[k] = E(h)[k]
           n == Len(w)
           T == {m \in 0..n : Holds(m)}
<1>1. n \in Nat /\ \A m \in 0..n : E(m) \in Seq(Encodings) /\ Len(E(m)) \in Nat
  BY EncodingIs
<1>2. 0 \in T
  BY <1>1
<1>3. ASSUME NEW m \in 1..n, m - 1 \in T PROVE m \in T
  <2>1. m \in 0..n /\ m - 1 \in 0..n /\ Holds(m - 1)
    BY <1>1, <1>3
  <2>2. /\ Len(E(m)) = Len(E(m - 1)) + Width[w[m]]
        /\ \A k \in 1..Len(E(m)) : k <= Len(E(m - 1)) => E(m)[k] = E(m - 1)[k]
    BY EncodingStep
  <2>3. Width[w[m]] \in 1..3
    BY WidthIs
  <2>4. Len(E(m)) \in Nat /\ Len(E(m - 1)) \in Nat /\ \A h \in 0..m : Len(E(h)) \in Nat
    BY <1>1, <2>1
  <2> HIDE DEF E, n
  <2>5. ASSUME NEW h \in 0..m
        PROVE  /\ Len(E(h)) + (m - h) <= Len(E(m))
               /\ \A k \in 1..Len(E(h)) : E(m)[k] = E(h)[k]
    <3>1. CASE h = m
      BY <2>4, <3>1
    <3>2. CASE h # m
      <4>1. h \in 0..(m - 1)
        BY <1>1, <3>2
      <4>2. /\ Len(E(h)) + (m - 1 - h) <= Len(E(m - 1))
            /\ \A k \in 1..Len(E(h)) : E(m - 1)[k] = E(h)[k]
        BY <2>1, <4>1
      <4>3. Len(E(h)) \in Nat
        BY <2>4
      <4>4. Len(E(h)) + (m - h) <= Len(E(m))
        <5> DEFINE x == Len(E(h))
                   y == Len(E(m - 1))
                   z == Len(E(m))
                   v == Width[w[m]]
        <5>1. /\ x \in Nat /\ y \in Nat /\ z \in Nat /\ v \in 1..3 /\ z = y + v
              /\ x + (m - 1 - h) <= y /\ m \in Nat /\ h \in Nat
          BY <1>1, <2>2, <2>3, <2>4, <4>2
        <5> HIDE DEF x, y, z, v
        <5>2. x + (m - h) <= z
          BY <5>1
        <5> QED BY <5>2 DEF x, z
      <4>5. ASSUME NEW k \in 1..Len(E(h)) PROVE E(m)[k] = E(h)[k]
        <5>1. k \in 1..Len(E(m - 1)) /\ k \in 1..Len(E(m))
          <6> DEFINE x == Len(E(h))
                     y == Len(E(m - 1))
                     z == Len(E(m))
                     v == Width[w[m]]
          <6>1. /\ x \in Nat /\ y \in Nat /\ z \in Nat /\ v \in 1..3 /\ z = y + v
                /\ x + (m - 1 - h) <= y /\ m \in Nat /\ h \in 0..(m - 1) /\ k \in 1..x
            BY <1>1, <2>2, <2>3, <2>4, <4>1, <4>2
          <6> HIDE DEF x, y, z, v
          <6>2. k \in 1..y /\ k \in 1..z
            BY <6>1
          <6> QED BY <6>2 DEF y, z
        <5> QED BY <2>2, <4>2, <5>1
      <4> QED BY <4>4, <4>5
    <3> QED BY <3>1, <3>2
  <2> QED BY <2>1, <2>5
<1> HIDE DEF T
<1>4. \A m \in 0..n : m \in T
  BY <1>1, <1>2, <1>3, UpTo
<1> QED BY <1>4 DEF T

LEMMA EncodingOfBeginning ==
  ASSUME NEW w \in Seq(Runes), NEW m \in 0..Len(w)
  PROVE  Encoded(SubSeq(w, 1, m)) = Encoding(w)[m]
<1> DEFINE s == SubSeq(w, 1, m)
           T == {i \in 0..m : Encoding(s)[i] = Encoding(w)[i]}
<1>1. s \in Seq(Runes) /\ Len(s) = m /\ \A i \in 1..m : s[i] = w[i]
  <2>1. \A i \in 1..m : w[i] \in Runes
    OBVIOUS
  <2> QED BY <2>1, SubSeqProperties
<1> HIDE DEF s
<1>2. 0 \in T
  BY <1>1, EncodingIs
<1>3. ASSUME NEW i \in 1..m, i - 1 \in T PROVE i \in T
  <2>1. i \in 1..Len(w) /\ i \in 1..Len(s) /\ i \in 0..m
    BY <1>1
  <2>2. Encoding(w)[i] = Encoding(w)[i - 1] \o [b \in 1..Width[w[i]] |-> <<w[i], b>>]
    BY <2>1, EncodingIs
  <2>3. Encoding(s)[i] = Encoding(s)[i - 1] \o [b \in 1..Width[s[i]] |-> <<s[i], b>>]
    BY <1>1, <2>1, EncodingIs
  <2>4. Encoding(s)[i - 1] = Encoding(w)[i - 1] /\ s[i] = w[i]
    BY <1>1, <1>3
  <2> QED BY <2>1, <2>2, <2>3, <2>4
<1> HIDE DEF T
<1>4. \A i \in 0..m : i \in T
  BY <1>2, <1>3, UpTo
<1>5. m \in T
  BY <1>4
<1> QED BY <1>1, <1>5 DEF T, Encoded, s

\* A cut of the encoding is valid where a rune ends, and nowhere else.
LEMMA ValidCuts ==
  ASSUME NEW w \in Seq(Runes), NEW n \in 0..Len(Encoded(w))
  PROVE  ValidString(SubSeq(Encoded(w), 1, n)) <=>
           \E i \in 0..Len(w) : n = Len(Encoding(w)[i])
<1> DEFINE b == Encoded(w)
           E(i) == Encoding(w)[i]
           e(i) == Len(E(i))
           s == SubSeq(b, 1, n)
<1>1. /\ Len(w) \in Nat /\ b \in Seq(Encodings) /\ b = E(Len(w)) /\ E(0) = <<>>
      /\ n \in 0..Len(b)
      /\ \A i \in 0..Len(w) : E(i) \in Seq(Encodings) /\ e(i) \in Nat
  <2>1. Len(w) \in 0..Len(w)
    OBVIOUS
  <2> QED BY <2>1, EncodingIs DEF Encoded
<1>2. e(0) = 0 /\ Len(b) = e(Len(w))
  BY <1>1
<1>3. s \in Seq(Encodings) /\ Len(s) = n /\ \A k \in 1..n : s[k] = b[k]
  <2> HIDE DEF b
  <2>1. ASSUME NEW k \in 1..n PROVE b[k] \in Encodings
    <3>1. k \in 1..Len(b)
      BY <1>1
    <3> QED BY <1>1, <3>1, ElementOfSeq
  <2> QED BY <2>1, SubSeqProperties
<1> HIDE DEF b, s
<1>4. CASE n = 0
  <2>1. s = <<>>
    BY <1>3, <1>4
  <2>2. 0 \in 0..Len(w) /\ n = e(0)
    BY <1>1, <1>2, <1>4
  <2> QED BY <2>1, <2>2 DEF ValidString, b, s
<1>5. CASE n # 0
  <2> HIDE DEF E
  <2> DEFINE U == {i \in 0..Len(w) : n <= e(i)}
  <2>1. Len(w) \in U
    <3> HIDE DEF e
    <3>1. Len(w) \in 0..Len(w) /\ n <= e(Len(w))
      BY <1>1, <1>2
    <3> QED BY <3>1
  <2>2. U \in SUBSET Nat /\ U # {}
    BY <2>1
  <2>3. PICK i \in U : \A j \in U : i <= j
    <3> HIDE DEF U
    <3> QED BY <2>2, Least
  <2>4. i \in 1..Len(w) /\ i - 1 \in 0..Len(w) /\ n <= e(i) /\ e(i - 1) < n
    <3>1. i # 0
      BY <1>2, <1>5
    <3>2. i \in 1..Len(w) /\ i - 1 \in 0..Len(w)
      BY <1>1, <3>1
    <3>3. ~(i <= i - 1)
      BY <3>2
    <3>4. i - 1 \notin U
      BY <2>3, <3>3
    <3>5. e(i - 1) \in Nat
      BY <1>1, <3>2
    <3> QED BY <3>2, <3>4, <3>5
  <2> HIDE DEF U
  <2>5. e(i) = e(i - 1) + Width[w[i]] /\ b[n] = <<w[i], n - e(i - 1)>>
    <3>1. n \in 1..e(i) /\ ~(n <= e(i - 1)) /\ i \in 0..Len(w) /\ e(i) \in Nat /\ e(i - 1) \in Nat
      BY <1>1, <1>5, <2>4
    <3>2. E(i)[n] = <<w[i], n - e(i - 1)>> /\ e(i) = e(i - 1) + Width[w[i]]
      BY <2>4, <3>1, EncodingStep DEF E
    <3>3. b[n] = E(i)[n]
      <4>1. Len(w) \in 0..Len(w) /\ i \in 0..Len(w)
        BY <1>1, <2>4
      <4> QED BY <1>1, <3>1, <4>1, EncodingBegins DEF E
    <3> QED BY <3>2, <3>3
  <2>6. s # <<>> /\ Last(s) = <<w[i], n - e(i - 1)>>
    BY <1>3, <1>5, <2>5 DEF Last
  <2>7. ValidString(s) <=> n - e(i - 1) = Width[w[i]]
    BY <2>6 DEF ValidString
  <2>8. e(i) \in Nat /\ e(i - 1) \in Nat /\ Width[w[i]] \in 1..3
    BY <1>1, <2>4, WidthIs
  <2>9. ValidString(s) <=> n = e(i)
    BY <2>5, <2>7, <2>8
  <2>10. ASSUME NEW j \in 0..Len(w), n = e(j) PROVE n = e(i)
    <3>1. j \in U
      BY <1>1, <2>10 DEF U
    <3>2. i \in 0..j
      BY <2>3, <2>4, <3>1
    <3>3. e(i) + (j - i) <= e(j)
      BY <3>2, EncodingBegins DEF E
    <3>4. e(j) \in Nat
      BY <1>1
    <3> QED BY <2>4, <2>8, <2>10, <3>2, <3>3, <3>4
  <2>11. i \in 0..Len(w)
    BY <1>1, <2>4
  <2> QED BY <2>9, <2>10, <2>11 DEF s, b, E
<1> QED BY <1>4, <1>5

\* A message that is too long is cut after its last rune that fits.
THEOREM CutIsBetweenRunes == TextSpec => []CutBetweenRunes
<1>1. TextInv => CutBetweenRunes
  <2> SUFFICES ASSUME text \in Seq(Runes) PROVE CutBetweenRunes
    BY DEF TextInv
  <2> DEFINE w == Printable(text)
             b == Encoded(w)
             n == Len(w)
             e(i) == Len(Encoding(w)[i])
             limit == MaxMessageBytes
             message == normalizeSafeMessage(text)
  <2>1. w \in Seq(Runes) /\ limit \in Nat /\ message = CutBytes(b, limit)
    BY PrintableIsRunes, BytesAssumption DEF normalizeSafeMessage
  <2> HIDE DEF w, limit, message
  <2>2. n \in Nat /\ n \in 0..n /\ b \in Seq(Encodings) /\ b = Encoding(w)[n]
    BY <2>1, EncodingIs DEF Encoded
  <2>3. \A i \in 0..n : e(i) \in Nat
    BY <2>1, EncodingIs
  <2>4. ASSUME NEW i \in 0..n, message = Encoding(w)[i], e(i) <= limit,
               i < n => e(i + 1) > limit
        PROVE  CutBetweenRunes
    <3>1. message = Encoded(SubSeq(w, 1, i))
      BY <2>1, <2>4, EncodingOfBeginning
    <3>2. i < n => Len(message) + Width[w[i + 1]] > limit
      <4> SUFFICES ASSUME i < n PROVE Len(message) + Width[w[i + 1]] > limit
        OBVIOUS
      <4>1. i + 1 \in 1..n /\ (i + 1) - 1 = i
        BY <2>2
      <4>2. e(i + 1) = e(i) + Width[w[i + 1]]
        BY <2>1, <4>1, EncodingStep
      <4> QED BY <2>4, <4>2
    <3> QED BY <2>4, <3>1, <3>2 DEF CutBetweenRunes, message, w, limit
  <2>5. CASE Len(b) <= limit
    <3>1. message = Encoding(w)[n] /\ e(n) <= limit /\ ~(n < n)
      BY <2>1, <2>2, <2>5 DEF CutBytes
    <3> HIDE DEF n, e
    <3> QED BY <2>2, <2>4, <3>1
  <2>6. CASE ~(Len(b) <= limit)
    <3> DEFINE valid == {k \in 0..limit : ValidString(SubSeq(b, 1, k))}
    <3>1. message = SubSeq(b, 1, Max(valid))
      BY <2>1, <2>6 DEF CutBytes
    <3>2. \A k \in 0..limit : k \in 0..Len(b)
      BY <2>1, <2>2, <2>6
    <3>3. \A k \in 0..limit : k \in valid <=> \E i \in 0..n : k = e(i)
      <4> HIDE DEF b, n, e
      <4> TAKE k \in 0..limit
      <4>1. k \in 0..Len(b)
        BY <3>2
      <4>2. ValidString(SubSeq(b, 1, k)) <=> \E i \in 0..n : k = e(i)
        BY <2>1, <4>1, ValidCuts DEF b, n, e
      <4> QED BY <4>2
    <3>4. valid \in SUBSET (0..limit)
      OBVIOUS
    <3> HIDE DEF valid
    <3>5. 0 \in valid
      <4>1. 0 \in 0..n /\ e(0) = 0
        BY <2>1, <2>2, EncodingIs
      <4>2. 0 \in 0..limit
        BY <2>1
      <4> QED BY <3>3, <4>1, <4>2
    <3>6. Max(valid) \in valid /\ \A k \in valid : k <= Max(valid)
      BY <2>1, <3>4, <3>5, MaxIs
    <3>7. PICK i \in 0..n : Max(valid) = e(i)
      BY <3>3, <3>4, <3>6
    <3>8. e(i) <= limit
      BY <3>4, <3>6, <3>7, <2>1
    <3>9. message = Encoding(w)[i]
      <4> DEFINE c == Encoding(w)[i]
      <4>1. c \in Seq(Encodings) /\ Len(c) = e(i)
        BY <2>1, EncodingIs
      <4>2. \A k \in 1..e(i) : b[k] = c[k]
        BY <2>1, <2>2, EncodingBegins
      <4> HIDE DEF c, b
      <4>3. \A k \in 1..e(i) : b[k] \in Encodings
        BY <4>1, <4>2
      <4> DEFINE m == e(i)
                 s == SubSeq(b, 1, m)
      <4>4. m \in Nat
        BY <2>3
      <4> HIDE DEF m
      <4>5. s \in Seq(Encodings) /\ Len(s) = m /\ \A k \in 1..m : s[k] = b[k]
        BY <4>3, <4>4, SubSeqProperties DEF m
      <4> HIDE DEF s
      <4>6. s = c
        BY <4>1, <4>2, <4>5, SeqEqual DEF m
      <4> QED BY <3>1, <3>7, <4>6 DEF s, m, c
    <3>10. ASSUME i < n PROVE e(i + 1) > limit
      <4>1. i + 1 \in 1..n /\ i + 1 \in 0..n /\ (i + 1) - 1 = i
        BY <2>2, <3>10
      <4>2. e(i + 1) = e(i) + Width[w[i + 1]] /\ Width[w[i + 1]] \in 1..3
        BY <2>1, <4>1, EncodingStep, WidthIs
      <4>3. e(i) \in Nat /\ e(i + 1) \in Nat
        BY <2>3, <4>1
      <4>4. e(i + 1) \notin valid
        BY <3>6, <3>7, <4>2, <4>3
      <4> HIDE DEF e
      <4> QED BY <2>1, <3>3, <4>1, <4>3, <4>4
    <3> HIDE DEF e
    <3> QED BY <2>4, <3>8, <3>9, <3>10
  <2> QED BY <2>5, <2>6
<1> QED BY <1>1, TextIsRunes, PTL

-----------------------------------------------------------------------------
(* What is made of a name.                                                 *)

LEMMA OffsetAgrees ==
  ASSUME NEW s \in Seq(Runes), NEW t \in Seq(Runes), NEW m \in Nat,
         m <= Len(s), m <= Len(t), \A i \in 1..m : s[i] = t[i]
  PROVE  Offset(s)[m] = Offset(t)[m]
<1> DEFINE T == {i \in 0..m : Offset(s)[i] = Offset(t)[i]}
<1>1. 0 \in T
  BY OffsetIs
<1>2. ASSUME NEW i \in 1..m, i - 1 \in T PROVE i \in T
  <2>1. i \in 1..Len(s) /\ i \in 1..Len(t) /\ i \in 0..m
    OBVIOUS
  <2>2. Offset(s)[i] = Offset(s)[i - 1] + Width[s[i]]
    BY <2>1, OffsetIs
  <2>3. Offset(t)[i] = Offset(t)[i - 1] + Width[t[i]]
    BY <2>1, OffsetIs
  <2> QED BY <1>2, <2>1, <2>2, <2>3
<1> HIDE DEF T
<1>3. \A i \in 0..m : i \in T
  BY <1>1, <1>2, UpTo
<1>4. m \in T
  BY <1>3
<1> QED BY <1>4 DEF T

LEMMA BytesIs ==
  ASSUME NEW s \in Seq(Runes)
  PROVE  Bytes(s) \in Nat /\ Bytes(<<>>) = 0
<1>1. Len(s) \in 0..Len(s) /\ <<>> \in Seq(Runes) /\ Len(<<>>) = 0
  OBVIOUS
<1>2. Bytes(s) \in Nat
  BY <1>1, OffsetIs DEF Bytes
<1>3. Offset(<<>>)[0] = 0
  BY <1>1, OffsetIs
<1> QED BY <1>1, <1>2, <1>3 DEF Bytes

LEMMA BytesOfAppend ==
  ASSUME NEW s \in Seq(Runes), NEW r \in Runes
  PROVE  Bytes(Append(s, r)) = Bytes(s) + Width[r]
<1> DEFINE t == Append(s, r)
<1>1. /\ t \in Seq(Runes) /\ Len(t) = Len(s) + 1 /\ t[Len(t)] = r /\ Len(s) \in Nat
      /\ \A i \in 1..Len(s) : s[i] = t[i]
  BY AppendProperties
<1> HIDE DEF t
<1>2. Offset(s)[Len(s)] = Offset(t)[Len(s)]
  BY <1>1, OffsetAgrees
<1>3. Len(t) \in 1..Len(t) /\ Len(t) - 1 = Len(s)
  BY <1>1
<1>4. Offset(t)[Len(t)] = Offset(t)[Len(t) - 1] + Width[t[Len(t)]]
  BY <1>1, <1>3, OffsetIs
<1> QED BY <1>1, <1>2, <1>3, <1>4 DEF Bytes, t

LEMMA BeginningIs ==
  ASSUME NEW s \in Seq(Runes), NEW n \in 0..Len(s)
  PROVE  /\ SubSeq(s, 1, n) \in Seq(Runes) /\ Len(SubSeq(s, 1, n)) = n
         /\ \A i \in 1..n : SubSeq(s, 1, n)[i] = s[i]
         /\ Bytes(SubSeq(s, 1, n)) = Offset(s)[n]
<1> DEFINE t == SubSeq(s, 1, n)
<1>1. \A i \in 1..n : s[i] \in Runes
  OBVIOUS
<1>2. t \in Seq(Runes) /\ Len(t) = n /\ \A i \in 1..n : t[i] = s[i]
  BY <1>1, SubSeqProperties
<1> HIDE DEF t
<1>3. n \in Nat /\ n <= Len(s) /\ n <= Len(t)
  BY <1>2
<1>4. Offset(t)[n] = Offset(s)[n]
  BY <1>2, <1>3, OffsetAgrees
<1> QED BY <1>2, <1>4 DEF t, Bytes

LEMMA OffsetGrows ==
  ASSUME NEW s \in Seq(Runes), NEW j \in 0..Len(s), NEW i \in 0..j
  PROVE  Offset(s)[i] <= Offset(s)[j]
<1> DEFINE O(k) == Offset(s)[k]
           n == Len(s)
           T == {m \in 0..n : \A h \in 0..m : O(h) <= O(m)}
<1>1. n \in Nat /\ \A m \in 0..n : O(m) \in Nat
  BY OffsetIs
<1>2. 0 \in T
  BY <1>1
<1>3. ASSUME NEW m \in 1..n, m - 1 \in T PROVE m \in T
  <2>1. m \in 0..n /\ m - 1 \in 0..n /\ \A h \in 0..(m - 1) : O(h) <= O(m - 1)
    BY <1>1, <1>3
  <2>2. O(m) = O(m - 1) + Width[s[m]] /\ Width[s[m]] \in 1..3
    BY OffsetIs, WidthIs
  <2>3. ASSUME NEW h \in 0..m PROVE O(h) <= O(m)
    <3> HIDE DEF O
    <3>1. O(h) \in Nat /\ O(m) \in Nat /\ O(m - 1) \in Nat
      BY <1>1, <2>1
    <3>2. CASE h = m
      BY <3>1, <3>2
    <3>3. CASE h # m
      <4>1. h \in 0..(m - 1)
        BY <1>1, <3>3
      <4> QED BY <2>1, <2>2, <3>1, <4>1
    <3> QED BY <3>2, <3>3
  <2> QED BY <2>1, <2>3
<1> HIDE DEF T
<1>4. \A m \in 0..n : m \in T
  BY <1>1, <1>2, <1>3, UpTo
<1> QED BY <1>4 DEF T

\* What of a text is within a limit: n runes, when the next one is not.
Fits(s, limit) == {k \in 0..Len(s) : Bytes(SubSeq(s, 1, k)) <= limit}

LEMMA FitsIs ==
  ASSUME NEW s \in Seq(Runes), NEW limit \in Nat, NEW n \in 0..Len(s),
         Bytes(SubSeq(s, 1, n)) <= limit,
         n < Len(s) => Bytes(SubSeq(s, 1, n + 1)) > limit
  PROVE  Max(Fits(s, limit)) = n
<1> DEFINE fits == Fits(s, limit)
<1>1. n \in fits /\ fits \in SUBSET (0..Len(s)) /\ Len(s) \in Nat
  BY DEF Fits
<1>2. ASSUME NEW k \in fits PROVE k <= n
  <2> SUFFICES ASSUME n < k PROVE FALSE
    BY <1>1
  <2>1. n < Len(s) /\ n + 1 \in 0..k /\ k \in 0..Len(s) /\ n + 1 \in 0..Len(s)
    BY <1>1 DEF Fits
  <2>2. Offset(s)[n + 1] <= Offset(s)[k]
    BY <2>1, OffsetGrows
  <2>3. Offset(s)[n + 1] \in Nat /\ Offset(s)[k] \in Nat
    BY <2>1, OffsetIs
  <2>4. Offset(s)[n + 1] > limit
    BY <2>1, BeginningIs DEF Fits
  <2>5. Offset(s)[k] <= limit
    BY <2>1, BeginningIs DEF Fits
  <2> QED BY <2>2, <2>3, <2>4, <2>5
<1> HIDE DEF fits
<1>3. Max(fits) \in fits /\ \A k \in fits : k <= Max(fits)
  BY <1>1, MaxIs
<1>4. Max(fits) <= n /\ n <= Max(fits) /\ Max(fits) \in 0..Len(s)
  BY <1>1, <1>2, <1>3
<1>5. Max(fits) = n
  BY <1>4
<1> QED BY <1>5 DEF fits

\* The parts of Folded: what is dropped, the words, the spaces that stay.
Skipped(t) == {i \in DOMAIN t : t[i] \in (IsControl \cup Formatting) \ IsSpace}
Words(t) == {i \in DOMAIN t : t[i] \notin IsSpace} \ Skipped(t)
Spaces(t) == {i \in DOMAIN t : t[i] \in IsSpace /\
                \E w, v \in Words(t) :
                  w < i /\ i < v /\ (i + 1)..(v - 1) \subseteq Skipped(t)}
Spaced(t) == [i \in DOMAIN t |-> IF t[i] \in IsSpace THEN "space" ELSE t[i]]
Kept(t) == Collect(Spaced(t), Words(t) \cup Spaces(t))

LEMMA PartsAre ==
  ASSUME NEW t \in Seq(Runes)
  PROVE  /\ Len(t) \in Nat /\ DOMAIN t = 1..Len(t) /\ \A i \in 1..Len(t) : t[i] \in Runes
         /\ Words(t) \subseteq 1..Len(t) /\ Spaces(t) \subseteq 1..Len(t)
         /\ Words(t) \cap Spaces(t) = {}
         /\ Spaced(t) \in Seq(Runes) /\ Len(Spaced(t)) = Len(t)
         /\ \A i \in Words(t) : Spaced(t)[i] = t[i] /\ t[i] \notin IsSpace
         /\ \A i \in Spaces(t) : Spaced(t)[i] = "space"
<1>1. Len(t) \in Nat /\ DOMAIN t = 1..Len(t) /\ \A i \in 1..Len(t) : t[i] \in Runes
  OBVIOUS
<1>2. /\ Words(t) \subseteq 1..Len(t) /\ Spaces(t) \subseteq 1..Len(t)
      /\ Words(t) \cap Spaces(t) = {}
  BY <1>1 DEF Words, Spaces
<1>3. "space" \in Runes
  BY DEF Runes, Width
<1>4. Spaced(t) \in [1..Len(t) -> Runes]
  BY <1>1, <1>3 DEF Spaced
<1>5. Spaced(t) \in Seq(Runes) /\ Len(Spaced(t)) = Len(t)
  BY <1>1, <1>4
<1>6. \A i \in Words(t) : Spaced(t)[i] = t[i] /\ t[i] \notin IsSpace
  BY <1>1 DEF Words, Spaced
<1>7. \A i \in Spaces(t) : Spaced(t)[i] = "space"
  BY <1>1 DEF Spaces, Spaced
<1> QED BY <1>1, <1>2, <1>5, <1>6, <1>7

LEMMA FoldedIs ==
  ASSUME NEW t \in Seq(Runes)
  PROVE  Folded(t) = Kept(t)[Len(t)]
BY DEF Folded, Kept, Spaced, Spaces, Words, Skipped

LEMMA KeptIs ==
  ASSUME NEW t \in Seq(Runes)
  PROVE  /\ Kept(t)[0] = <<>>
         /\ \A i \in 0..Len(t) : Kept(t)[i] \in Seq(Runes)
         /\ \A i \in 1..Len(t) :
              /\ i \in Words(t) => Kept(t)[i] = Append(Kept(t)[i - 1], t[i])
              /\ i \in Spaces(t) => Kept(t)[i] = Append(Kept(t)[i - 1], "space")
              /\ i \notin Words(t) \cup Spaces(t) => Kept(t)[i] = Kept(t)[i - 1]
<1> DEFINE s == Spaced(t)
           P == Words(t) \cup Spaces(t)
           c == Collect(s, P)
<1>1. s \in Seq(Runes) /\ Len(s) = Len(t)
  BY PartsAre
<1> HIDE DEF s, P
<1>2. /\ c \in [0..Len(s) -> Seq(Runes)] /\ c[0] = <<>>
      /\ \A i \in 1..Len(s) : c[i] = IF i \in P THEN Append(c[i - 1], s[i]) ELSE c[i - 1]
  BY <1>1, CollectIs
<1>3. Kept(t) = c
  BY DEF Kept, s, P
<1> HIDE DEF c
<1> USE DEF P
<1>4. ASSUME NEW i \in 1..Len(t)
      PROVE  /\ i \in Words(t) => c[i] = Append(c[i - 1], t[i])
             /\ i \in Spaces(t) => c[i] = Append(c[i - 1], "space")
             /\ i \notin Words(t) \cup Spaces(t) => c[i] = c[i - 1]
  BY <1>1, <1>2, PartsAre DEF s
<1> QED BY <1>1, <1>2, <1>3, <1>4

\* What is kept up to a rune is the beginning of what is kept of all.
LEMMA KeptBegins ==
  ASSUME NEW t \in Seq(Runes), NEW j \in 0..Len(t), NEW i \in 0..j
  PROVE  /\ Len(Kept(t)[i]) <= Len(Kept(t)[j])
         /\ \A k \in 1..Len(Kept(t)[i]) : Kept(t)[j][k] = Kept(t)[i][k]
<1> DEFINE K(m) == Kept(t)[m]
           n == Len(t)
           T == {m \in 0..n : \A h \in 0..m : /\ Len(K(h)) <= Len(K(m))
                                              /\ \A k \in 1..Len(K(h)) : K(m)[k] = K(h)[k]}
<1>1. n \in Nat /\ \A m \in 0..n : K(m) \in Seq(Runes) /\ Len(K(m)) \in Nat
  BY KeptIs
<1>2. 0 \in T
  BY <1>1
<1>3. ASSUME NEW m \in 1..n, m - 1 \in T PROVE m \in T
  <2>1. m \in 0..n /\ m - 1 \in 0..n
        /\ \A h \in 0..(m - 1) : /\ Len(K(h)) <= Len(K(m - 1))
                                 /\ \A k \in 1..Len(K(h)) : K(m - 1)[k] = K(h)[k]
    BY <1>1, <1>3
  <2>2. /\ Len(K(m - 1)) <= Len(K(m))
        /\ \A k \in 1..Len(K(m - 1)) : K(m)[k] = K(m - 1)[k]
    <3>1. K(m) = K(m - 1) \/ \E r \in Runes : K(m) = Append(K(m - 1), r)
      <4>1. "space" \in Runes /\ t[m] \in Runes
        BY DEF Runes, Width
      <4> QED BY <4>1, KeptIs
    <3>2. CASE K(m) = K(m - 1)
      BY <1>1, <2>1, <3>2
    <3>3. ASSUME NEW r \in Runes, K(m) = Append(K(m - 1), r)
          PROVE  /\ Len(K(m - 1)) <= Len(K(m))
                 /\ \A k \in 1..Len(K(m - 1)) : K(m)[k] = K(m - 1)[k]
      <4>1. K(m - 1) \in Seq(Runes) /\ Len(K(m - 1)) \in Nat
        BY <1>1, <2>1
      <4> HIDE DEF K
      <4> QED BY <3>3, <4>1, AppendProperties
    <3> QED BY <3>1, <3>2, <3>3
  <2> HIDE DEF K
  <2>3. ASSUME NEW h \in 0..m
        PROVE  /\ Len(K(h)) <= Len(K(m))
               /\ \A k \in 1..Len(K(h)) : K(m)[k] = K(h)[k]
    <3>1. Len(K(h)) \in Nat /\ Len(K(m)) \in Nat /\ Len(K(m - 1)) \in Nat
      BY <1>1, <2>1
    <3>2. CASE h = m
      BY <3>1, <3>2
    <3>3. CASE h # m
      <4>1. h \in 0..(m - 1)
        BY <1>1, <3>3
      <4>2. /\ Len(K(h)) <= Len(K(m - 1))
            /\ \A k \in 1..Len(K(h)) : K(m - 1)[k] = K(h)[k]
        BY <2>1, <4>1
      <4> QED BY <2>2, <3>1, <4>2
    <3> QED BY <3>2, <3>3
  <2> QED BY <2>1, <2>3
<1> HIDE DEF T
<1>4. \A m \in 0..n : m \in T
  BY <1>1, <1>2, <1>3, UpTo
<1> QED BY <1>4 DEF T

LEMMA KeptIsBeginning ==
  ASSUME NEW t \in Seq(Runes), NEW i \in 0..Len(t)
  PROVE  /\ Len(Kept(t)[i]) \in 0..Len(Folded(t)) /\ Folded(t) \in Seq(Runes)
         /\ Kept(t)[i] = SubSeq(Folded(t), 1, Len(Kept(t)[i]))
<1> DEFINE c == Kept(t)[i]
           f == Folded(t)
           s == SubSeq(f, 1, Len(c))
<1>1. Len(t) \in 0..Len(t) /\ i \in 0..Len(t) /\ f = Kept(t)[Len(t)]
  BY FoldedIs
<1>2. c \in Seq(Runes) /\ f \in Seq(Runes) /\ Len(c) \in Nat /\ Len(f) \in Nat
  BY <1>1, KeptIs
<1>3. Len(c) <= Len(f) /\ \A k \in 1..Len(c) : f[k] = c[k]
  BY <1>1, KeptBegins
<1> HIDE DEF c, f
<1>4. Len(c) \in 0..Len(f)
  BY <1>2, <1>3
<1>5. s \in Seq(Runes) /\ Len(s) = Len(c) /\ \A k \in 1..Len(c) : s[k] = f[k]
  BY <1>2, <1>4, BeginningIs
<1> HIDE DEF s
<1>6. s = c
  BY <1>2, <1>3, <1>5, SeqEqual
<1> QED BY <1>2, <1>4, <1>6 DEF s, c, f

\* Something is kept once there is a word, and it begins with one.
LEMMA KeptFirst ==
  ASSUME NEW t \in Seq(Runes), NEW i \in 0..Len(t)
  PROVE  /\ Kept(t)[i] # <<>> <=> \E w \in Words(t) : w <= i
         /\ Kept(t)[i] # <<>> => Kept(t)[i][1] \notin IsSpace
<1> DEFINE K(m) == Kept(t)[m]
           n == Len(t)
           Holds(m) == /\ K(m) # <<>> <=> \E w \in Words(t) : w <= m
                       /\ K(m) # <<>> => K(m)[1] \notin IsSpace
           T == {m \in 0..n : Holds(m)}
<1>1. /\ n \in Nat /\ Words(t) \subseteq 1..n /\ Spaces(t) \subseteq 1..n
      /\ Words(t) \cap Spaces(t) = {}
      /\ \A m \in 0..n : K(m) \in Seq(Runes)
  BY KeptIs, PartsAre
<1>2. 0 \in T
  BY <1>1, KeptIs
<1>3. ASSUME NEW m \in 1..n, m - 1 \in T PROVE m \in T
  <2>1. m \in 0..n /\ m - 1 \in 0..n /\ Holds(m - 1) /\ K(m - 1) \in Seq(Runes)
    BY <1>1, <1>3
  <2>2. /\ m \in Words(t) => K(m) = Append(K(m - 1), t[m]) /\ t[m] \notin IsSpace
        /\ m \in Spaces(t) => K(m) = Append(K(m - 1), "space")
        /\ m \notin Words(t) \cup Spaces(t) => K(m) = K(m - 1)
    BY KeptIs, PartsAre
  <2>3. t[m] \in Runes /\ "space" \in Runes
    BY DEF Runes, Width
  <2> HIDE DEF K, n
  <2>4. \A s \in Seq(Runes), r \in Runes :
          /\ Append(s, r) # <<>>
          /\ Append(s, r)[1] = IF s = <<>> THEN r ELSE s[1]
    <3> TAKE s \in Seq(Runes), r \in Runes
    <3>1. CASE s = <<>>
      BY <3>1, AppendProperties
    <3>2. CASE s # <<>>
      <4>1. 1 \in 1..Len(s)
        BY <3>2
      <4> QED BY <3>2, <4>1, AppendProperties
    <3> QED BY <3>1, <3>2
  <2>5. CASE m \in Words(t)
    <3>1. K(m) = Append(K(m - 1), t[m]) /\ t[m] \notin IsSpace
      BY <2>2, <2>5
    <3>2. K(m) # <<>> /\ K(m)[1] \notin IsSpace
      BY <2>1, <2>3, <2>4, <3>1
    <3>3. \E w \in Words(t) : w <= m
      BY <1>1, <2>1, <2>5
    <3> QED BY <2>1, <3>2, <3>3
  <2>6. CASE m \in Spaces(t)
    <3>1. PICK w \in Words(t) : w < m
      BY <2>6 DEF Spaces
    <3>2. w <= m - 1 /\ w <= m
      BY <1>1, <3>1
    <3>3. K(m - 1) # <<>> /\ K(m - 1)[1] \notin IsSpace
      BY <2>1, <3>2
    <3>4. K(m) # <<>> /\ K(m)[1] \notin IsSpace
      BY <2>1, <2>2, <2>3, <2>4, <2>6, <3>3
    <3> QED BY <2>1, <3>2, <3>4
  <2>7. CASE m \notin Words(t) \cup Spaces(t)
    <3>1. K(m) = K(m - 1)
      BY <2>2, <2>7
    <3>2. \A w \in Words(t) : w <= m <=> w <= m - 1
      BY <1>1, <2>1, <2>7
    <3> QED BY <2>1, <3>1, <3>2
  <2> QED BY <2>5, <2>6, <2>7
<1> HIDE DEF T
<1>4. \A m \in 0..n : m \in T
  BY <1>1, <1>2, <1>3, UpTo
<1> QED BY <1>4 DEF T

\* What is neither a word nor a space that stays adds nothing.
LEMMA KeptSkips ==
  ASSUME NEW t \in Seq(Runes), NEW j \in 0..Len(t), NEW i \in 0..j,
         \A k \in (i + 1)..j : k \notin Words(t) \cup Spaces(t)
  PROVE  Kept(t)[j] = Kept(t)[i]
<1> DEFINE T == {m \in 0..(j - i) : Kept(t)[i + m] = Kept(t)[i]}
<1>1. j - i \in Nat /\ 0 \in T
  OBVIOUS
<1>2. ASSUME NEW m \in 1..(j - i), m - 1 \in T PROVE m \in T
  <2>1. i + m \in 1..Len(t) /\ i + m \in (i + 1)..j /\ m \in 0..(j - i)
        /\ (i + m) - 1 = i + (m - 1)
    OBVIOUS
  <2>2. Kept(t)[i + m] = Kept(t)[(i + m) - 1]
    BY <2>1, KeptIs
  <2> QED BY <1>2, <2>1, <2>2
<1> HIDE DEF T
<1>3. \A m \in 0..(j - i) : m \in T
  BY <1>1, <1>2, UpTo
<1>4. j - i \in T
  BY <1>1, <1>3
<1>5. i + (j - i) = j
  OBVIOUS
<1> QED BY <1>4, <1>5 DEF T

\* As much of a text as is within a limit.
Best(s, limit) == SubSeq(s, 1, Max(Fits(s, limit)))

LEMMA BestIs ==
  ASSUME NEW t \in Seq(Runes), NEW limit \in Nat, NEW j \in 0..Len(t),
         NEW x \in Seq(Runes), NEW r \in Runes, Kept(t)[j] = Append(x, r),
         Bytes(x) <= limit, Bytes(x) + Width[r] > limit
  PROVE  Best(Folded(t), limit) = x
<1> DEFINE f == Folded(t)
           n == Len(x)
<1>1. /\ Append(x, r) \in Seq(Runes) /\ Len(Append(x, r)) = n + 1
      /\ \A k \in 1..n : Append(x, r)[k] = x[k]
  BY AppendProperties
<1>2. f \in Seq(Runes) /\ n + 1 \in 0..Len(f) /\ Append(x, r) = SubSeq(f, 1, n + 1)
  <2> DEFINE c == Kept(t)[j]
  <2>1. Len(c) \in 0..Len(f) /\ f \in Seq(Runes) /\ c = SubSeq(f, 1, Len(c))
    BY KeptIsBeginning
  <2>2. c = Append(x, r) /\ Len(c) = n + 1
    BY <1>1
  <2> HIDE DEF c, f, n
  <2> QED BY <2>1, <2>2
<1> HIDE DEF f
<1>3. n \in 0..Len(f) /\ n \in Nat
  BY <1>2
<1>4. \A k \in 1..n : f[k] = x[k]
  BY <1>1, <1>2, <1>3, BeginningIs
<1>5. SubSeq(f, 1, n) = x
  <2> DEFINE s == SubSeq(f, 1, n)
  <2>1. s \in Seq(Runes) /\ Len(s) = n /\ \A k \in 1..n : s[k] = f[k]
    BY <1>2, <1>3, BeginningIs
  <2> HIDE DEF s
  <2>2. s = x
    BY <1>4, <2>1, SeqEqual
  <2> QED BY <2>2 DEF s
<1>6. Bytes(SubSeq(f, 1, n)) <= limit /\ Bytes(SubSeq(f, 1, n + 1)) > limit
  BY <1>2, <1>5, BytesOfAppend
<1>7. Max(Fits(f, limit)) = n
  BY <1>2, <1>3, <1>6, FitsIs
<1> QED BY <1>5, <1>7 DEF Best, f

LEMMA BestIsAll ==
  ASSUME NEW s \in Seq(Runes), NEW limit \in Nat, Bytes(s) <= limit
  PROVE  Best(s, limit) = s
<1> DEFINE n == Len(s)
<1>1. SubSeq(s, 1, n) = s /\ n \in 0..Len(s) /\ ~(n < Len(s))
  BY SubSeqFull
<1> HIDE DEF n
<1>2. Max(Fits(s, limit)) = n
  BY <1>1, FitsIs
<1> QED BY <1>1, <1>2 DEF Best

\* The loop has written out, and has a space to write that stands for position l.
Pending(t, out, l, i) ==
  /\ t[l] \in IsSpace /\ (l + 1)..i \subseteq Skipped(t)
  /\ \E w \in Words(t) : w < l
  /\ Kept(t)[i] = IF l \in Spaces(t) THEN Append(out, "space") ELSE out

\* The loop after rune i of t.  It has been left with what fits, or what it has
\* written fits and is what is kept so far, up to a pending space.
Well(t, acc, i, limit) ==
  /\ acc.full => acc.out = Best(Folded(t), limit)
  /\ ~acc.full =>
       /\ Bytes(acc.out) <= limit
       /\ acc.out # <<>> <=> \E w \in Words(t) : w <= i
       /\ ~acc.pending => acc.out = Kept(t)[i]
       /\ acc.pending => \E l \in 1..i : Pending(t, acc.out, l, i)

\* A pending space is dropped at the next one, and after the last word,
LEMMA PendingDropped ==
  ASSUME NEW t \in Seq(Runes), NEW i \in 0..Len(t), NEW l \in 1..i, NEW out,
         Pending(t, out, l, i),
         \/ i + 1 \in 1..Len(t) /\ t[i + 1] \in IsSpace
         \/ \A v \in Words(t) : v <= i
  PROVE  Kept(t)[i] = out
<1> SUFFICES ASSUME l \in Spaces(t) PROVE FALSE
  BY DEF Pending
<1>1. PICK v \in Words(t) : l < v /\ (l + 1)..(v - 1) \subseteq Skipped(t)
  BY DEF Spaces
<1>2. v \in 1..Len(t) /\ Words(t) \cap Skipped(t) = {}
  BY PartsAre DEF Words
<1>3. v > i
  <2> SUFFICES ASSUME v <= i PROVE FALSE
    BY <1>2
  <2>1. v \in (l + 1)..i
    BY <1>1, <1>2
  <2> QED BY <1>2, <2>1 DEF Pending
<1>4. t[i + 1] \in IsSpace
  BY <1>2, <1>3
<1>5. v # i + 1
  BY <1>4, PartsAre
<1>6. i + 1 \in (l + 1)..(v - 1)
  BY <1>2, <1>3, <1>5
<1> QED BY <1>1, <1>4, <1>6 DEF Skipped

\* and is written with the next word.
LEMMA PendingWritten ==
  ASSUME NEW t \in Seq(Runes), NEW i \in 0..Len(t), NEW l \in 1..i, NEW out,
         Pending(t, out, l, i), i + 1 \in Words(t)
  PROVE  Kept(t)[i] = Append(out, "space")
<1>1. \E w, v \in Words(t) : w < l /\ l < v /\ (l + 1)..(v - 1) \subseteq Skipped(t)
  <2>1. PICK w \in Words(t) : w < l
    BY DEF Pending
  <2>2. l < i + 1 /\ (i + 1) - 1 = i
    OBVIOUS
  <2> QED BY <2>1, <2>2 DEF Pending
<1>2. l \in DOMAIN t /\ t[l] \in IsSpace
  BY DEF Pending
<1>3. l \in Spaces(t)
  BY <1>1, <1>2 DEF Spaces
<1> QED BY <1>3 DEF Pending

LEMMA FoldStepKeeps ==
  ASSUME NEW t \in Seq(Runes), NEW limit \in Nat, NEW i \in 0..Len(t), i < Len(t),
         NEW acc \in Loops, Well(t, acc, i, limit)
  PROVE  Well(t, FoldStep(acc, t[i + 1], limit), i + 1, limit)
<1> DEFINE p == i + 1
           r == t[p]
           new == FoldStep(acc, r, limit)
           spaced == IF acc.pending THEN Append(acc.out, "space") ELSE acc.out
<1>1. /\ p \in 1..Len(t) /\ p \in 0..Len(t) /\ p - 1 = i /\ p = i + 1 /\ r \in Runes
      /\ Words(t) \subseteq 1..Len(t) /\ Words(t) \cap Spaces(t) = {}
  BY PartsAre
<1>2. acc.out \in Seq(Runes) /\ acc.pending \in BOOLEAN /\ acc.full \in BOOLEAN
  BY DEF Loops
<1>3. /\ p \in Words(t) => Kept(t)[p] = Append(Kept(t)[i], r)
      /\ p \in Spaces(t) => Kept(t)[p] = Append(Kept(t)[i], "space")
      /\ p \notin Words(t) \cup Spaces(t) => Kept(t)[p] = Kept(t)[i]
  BY <1>1, KeptIs
<1>4. new = IF acc.full THEN acc
            ELSE IF r \in IsSpace THEN Loop(acc.out, acc.out # <<>>, FALSE)
            ELSE IF r \in IsControl \cup Formatting THEN acc
            ELSE IF Bytes(spaced) > limit THEN Loop(acc.out, acc.pending, TRUE)
                 ELSE IF Bytes(spaced) + Width[r] > limit THEN Loop(spaced, FALSE, TRUE)
                 ELSE Loop(Append(spaced, r), FALSE, FALSE)
  BY DEF FoldStep
<1>5. \A w \in Words(t) : w <= p <=> w <= i \/ w = p
  BY <1>1
<1> HIDE DEF p, r, new, spaced
<1>6. CASE acc.full
  BY <1>4, <1>6 DEF Well, new, r, p
<1>7. CASE ~acc.full /\ r \in IsSpace
  <2>1. Kept(t)[i] = acc.out
    <3>1. CASE ~acc.pending
      BY <1>7, <3>1 DEF Well
    <3>2. CASE acc.pending
      <4>1. PICK l \in 1..i : Pending(t, acc.out, l, i)
        BY <1>7, <3>2 DEF Well
      <4>2. i + 1 \in 1..Len(t) /\ t[i + 1] \in IsSpace
        BY <1>1, <1>7 DEF r
      <4> QED BY <4>1, <4>2, PendingDropped
    <3> QED BY <1>2, <3>1, <3>2
  <2>2. p \notin Words(t)
    BY <1>1, <1>7, PartsAre DEF r
  <2>3. acc.out # <<>> <=> \E w \in Words(t) : w <= p
    BY <1>5, <1>7, <2>2 DEF Well
  <2>4. new.out = acc.out /\ new.pending = (acc.out # <<>>) /\ new.full = FALSE
    <3>1. new = Loop(acc.out, acc.out # <<>>, FALSE)
      BY <1>4, <1>7
    <3> QED BY <3>1 DEF Loop
  <2>5. CASE acc.out = <<>>
    <3>1. p \notin Spaces(t)
      <4> SUFFICES ASSUME p \in Spaces(t) PROVE FALSE
        OBVIOUS
      <4>1. PICK w \in Words(t) : w < p
        BY DEF Spaces
      <4> QED BY <1>1, <2>3, <2>5, <4>1
    <3>2. Kept(t)[p] = acc.out
      BY <1>3, <2>1, <2>2, <3>1
    <3> QED BY <1>7, <2>3, <2>4, <2>5, <3>2 DEF Well, new, r, p
  <2>6. CASE acc.out # <<>>
    <3>1. p \in 1..p /\ (p + 1)..p = {}
      BY <1>1
    <3>2. \E w \in Words(t) : w < p
      BY <1>1, <2>2, <2>3, <2>6
    <3>3. Pending(t, acc.out, p, p)
      BY <1>3, <1>7, <2>1, <2>2, <3>1, <3>2 DEF Pending, r
    <3>4. Bytes(acc.out) <= limit
      BY <1>7 DEF Well
    <3> QED BY <2>3, <2>4, <2>6, <3>1, <3>3, <3>4 DEF Well, new, r, p
  <2> QED BY <2>5, <2>6
<1>8. CASE ~acc.full /\ r \notin IsSpace /\ r \in IsControl \cup Formatting
  <2>1. new = acc
    BY <1>4, <1>8
  <2>2. p \in Skipped(t) /\ p \notin Words(t) /\ p \notin Spaces(t)
    BY <1>1, <1>8, PartsAre DEF Skipped, Words, Spaces, r
  <2>3. Kept(t)[p] = Kept(t)[i]
    BY <1>3, <2>2
  <2>4. (\E w \in Words(t) : w <= p) <=> (\E w \in Words(t) : w <= i)
    BY <1>5, <2>2
  <2>5. ASSUME NEW l \in 1..i, Pending(t, acc.out, l, i)
        PROVE  l \in 1..p /\ Pending(t, acc.out, l, p)
    <3>1. l \in 1..p /\ (l + 1)..p \subseteq (l + 1)..i \cup {p}
      BY <1>1
    <3> QED BY <2>2, <2>3, <2>5, <3>1 DEF Pending
  <2> QED BY <1>8, <2>1, <2>3, <2>4, <2>5 DEF Well, new, r, p
<1>9. CASE ~acc.full /\ r \notin IsSpace /\ r \notin IsControl \cup Formatting
  <2>1. p \in Words(t)
    BY <1>1, <1>9, PartsAre DEF Words, Skipped, r
  <2>2. Kept(t)[i] = spaced
    <3>1. CASE ~acc.pending
      BY <1>9, <3>1 DEF Well, spaced
    <3>2. CASE acc.pending
      <4>1. PICK l \in 1..i : Pending(t, acc.out, l, i)
        BY <1>9, <3>2 DEF Well
      <4>2. Kept(t)[i] = Append(acc.out, "space")
        BY <2>1, <4>1, PendingWritten DEF p
      <4> QED BY <3>2, <4>2 DEF spaced
    <3> QED BY <1>2, <3>1, <3>2
  <2>3. spaced \in Seq(Runes) /\ Bytes(spaced) \in Nat /\ Width[r] \in 1..3
    BY <1>1, <2>2, KeptIs, BytesIs, WidthIs
  <2>4. Kept(t)[p] = Append(spaced, r) /\ Bytes(Append(spaced, r)) = Bytes(spaced) + Width[r]
    BY <1>1, <1>3, <2>1, <2>2, <2>3, BytesOfAppend
  <2>5. Bytes(acc.out) <= limit
    BY <1>9 DEF Well
  <2>6. CASE Bytes(spaced) > limit
    <3>1. acc.pending
      <4> SUFFICES ASSUME ~acc.pending PROVE FALSE
        OBVIOUS
      <4>1. spaced = acc.out
        BY DEF spaced
      <4> QED BY <2>3, <2>5, <2>6, <4>1
    <3>2. spaced = Append(acc.out, "space") /\ "space" \in Runes
      BY <3>1 DEF spaced, Runes, Width
    <3>3. Bytes(acc.out) + Width["space"] > limit
      BY <1>2, <2>6, <3>2, BytesOfAppend
    <3>4. Best(Folded(t), limit) = acc.out
      BY <1>2, <2>2, <2>5, <3>2, <3>3, BestIs
    <3>5. new.out = acc.out /\ new.full = TRUE
      <4>1. new = Loop(acc.out, acc.pending, TRUE)
        BY <1>4, <1>9, <2>6
      <4> QED BY <4>1 DEF Loop
    <3> QED BY <3>4, <3>5 DEF Well, new, r, p
  <2>7. CASE ~(Bytes(spaced) > limit) /\ Bytes(spaced) + Width[r] > limit
    <3>1. Bytes(spaced) <= limit
      BY <2>3, <2>7
    <3>2. Best(Folded(t), limit) = spaced
      BY <1>1, <2>3, <2>4, <2>7, <3>1, BestIs
    <3>3. new.out = spaced /\ new.full = TRUE
      <4>1. new = Loop(spaced, FALSE, TRUE)
        BY <1>4, <1>9, <2>7
      <4> QED BY <4>1 DEF Loop
    <3> QED BY <3>2, <3>3 DEF Well, new, r, p
  <2>8. CASE ~(Bytes(spaced) > limit) /\ ~(Bytes(spaced) + Width[r] > limit)
    <3>1. new.out = Append(spaced, r) /\ new.pending = FALSE /\ new.full = FALSE
      <4>1. new = Loop(Append(spaced, r), FALSE, FALSE)
        BY <1>4, <1>9, <2>8
      <4> QED BY <4>1 DEF Loop
    <3>2. Append(spaced, r) # <<>>
      BY <1>1, <2>3, AppendProperties
    <3>3. \E w \in Words(t) : w <= p
      BY <1>5, <2>1
    <3>4. Bytes(Append(spaced, r)) <= limit
      BY <2>3, <2>4, <2>8
    <3> QED BY <2>4, <3>1, <3>2, <3>3, <3>4 DEF Well, new, r, p
  <2> QED BY <2>6, <2>7, <2>8
<1> QED BY <1>2, <1>6, <1>7, <1>8, <1>9

\* What is folded of a text between leading and trailing spaces: as much as is
\* within the limit of what Folded keeps of the whole.
LEMMA FoldIs ==
  ASSUME NEW t \in Seq(Runes), NEW limit \in Nat,
         NEW a \in 1..Len(t), NEW b \in 1..Len(t), a <= b,
         \A i \in 1..Len(t) : i < a \/ b < i => t[i] \in IsSpace
  PROVE  Fold(SubSeq(t, a, b), limit) = TrimSpace(Best(Folded(t), limit))
<1> DEFINE u == SubSeq(t, a, b)
           n == b - a + 1
           R(j) == FoldRun(u, limit)[j]
           T == {j \in 0..n : Well(t, R(j), (a - 1) + j, limit)}
<1>1. /\ Len(t) \in Nat /\ Words(t) \subseteq 1..Len(t) /\ Spaces(t) \subseteq 1..Len(t)
      /\ \A i \in Words(t) : a <= i /\ i <= b
  BY PartsAre
<1>2. /\ n \in Nat /\ n = b - a + 1 /\ u \in Seq(Runes) /\ Len(u) = n
      /\ \A j \in 1..n : u[j] = t[(a - 1) + j]
  <2>1. \A i \in a..b : t[i] \in Runes
    OBVIOUS
  <2>2. u \in Seq(Runes) /\ Len(u) = n /\ \A j \in 1..n : u[j] = t[a + j - 1]
    BY <2>1, SubSeqProperties
  <2>3. \A j \in 1..n : a + j - 1 = (a - 1) + j
    OBVIOUS
  <2> QED BY <2>2, <2>3
<1> HIDE DEF u, n
<1>3. /\ R(0) = Loop(<<>>, FALSE, FALSE) /\ \A j \in 0..n : R(j) \in Loops
      /\ \A j \in 1..n : R(j) = FoldStep(R(j - 1), u[j], limit)
  BY <1>2, FoldRunIs
<1> HIDE DEF R
<1>4. 0 \in T
  <2>1. a - 1 \in 0..Len(t) /\ 0 \in 0..(a - 1) /\ 0 \in 0..n /\ (a - 1) + 0 = a - 1
    BY <1>1, <1>2
  <2>2. ASSUME NEW k \in (0 + 1)..(a - 1) PROVE k \notin Words(t) \cup Spaces(t)
    <3>1. ~(a <= k) /\ \A w \in Words(t) : ~(w < k)
      BY <1>1
    <3> QED BY <1>1, <3>1 DEF Spaces
  <2>3. Kept(t)[a - 1] = <<>>
    <3> DEFINE c == a - 1
    <3>1. c \in 0..Len(t) /\ 0 \in 0..c /\ \A k \in (0 + 1)..c : k \notin Words(t) \cup Spaces(t)
      BY <2>1, <2>2
    <3> HIDE DEF c
    <3>2. Kept(t)[c] = Kept(t)[0]
      BY <3>1, KeptSkips
    <3> QED BY <3>2, KeptIs DEF c
  <2>4. ~(\E w \in Words(t) : w <= a - 1)
    BY <1>1
  <2>5. R(0).out = <<>> /\ R(0).pending = FALSE /\ R(0).full = FALSE
    BY <1>3 DEF Loop
  <2>6. Bytes(<<>>) <= limit
    BY BytesIs
  <2> QED BY <2>1, <2>3, <2>4, <2>5, <2>6 DEF Well
<1>5. ASSUME NEW j \in 1..n, j - 1 \in T PROVE j \in T
  <2> DEFINE i == (a - 1) + (j - 1)
  <2>1. /\ i \in 0..Len(t) /\ i < Len(t) /\ i + 1 = (a - 1) + j
        /\ j - 1 \in 0..n /\ j \in 0..n
    BY <1>1, <1>2
  <2>2. Well(t, R(j - 1), i, limit) /\ R(j - 1) \in Loops
    BY <1>3, <1>5, <2>1
  <2> HIDE DEF i
  <2>3. Well(t, FoldStep(R(j - 1), t[i + 1], limit), i + 1, limit)
    BY <2>1, <2>2, FoldStepKeeps
  <2>4. R(j) = FoldStep(R(j - 1), t[i + 1], limit)
    BY <1>2, <1>3, <2>1
  <2> QED BY <2>1, <2>3, <2>4
<1>6. Well(t, R(n), b, limit)
  <2> HIDE DEF T
  <2>1. \A j \in 0..n : j \in T
    BY <1>2, <1>4, <1>5, UpTo
  <2>2. n \in T /\ (a - 1) + n = b
    BY <1>2, <2>1
  <2> QED BY <2>2 DEF T
<1>7. R(n).out = Best(Folded(t), limit)
  <2>1. CASE R(n).full
    BY <1>6, <2>1 DEF Well
  <2>2. CASE ~R(n).full
    <3>1. b \in 0..Len(t) /\ Len(t) \in 0..Len(t) /\ b \in 0..Len(t) /\ b \in 0..(Len(t))
      BY <1>1
    <3>2. ASSUME NEW k \in (b + 1)..Len(t) PROVE k \notin Words(t) \cup Spaces(t)
      <4>1. ~(k <= b) /\ \A w \in Words(t) : ~(k < w)
        BY <1>1
      <4> QED BY <1>1, <4>1 DEF Spaces
    <3>3. Kept(t)[Len(t)] = Kept(t)[b]
      BY <3>1, <3>2, KeptSkips
    <3>4. Kept(t)[b] = R(n).out
      <4>1. CASE ~R(n).pending
        BY <1>6, <2>2, <4>1 DEF Well
      <4>2. CASE R(n).pending
        <5>1. PICK l \in 1..b : Pending(t, R(n).out, l, b)
          BY <1>6, <2>2, <4>2 DEF Well
        <5> QED BY <1>1, <3>1, <5>1, PendingDropped
      <4> QED BY <4>1, <4>2
    <3>5. R(n).out = Folded(t) /\ Folded(t) \in Seq(Runes)
      BY <3>1, <3>3, <3>4, FoldedIs, KeptIs
    <3>6. Bytes(R(n).out) <= limit
      BY <1>6, <2>2 DEF Well
    <3> QED BY <3>5, <3>6, BestIsAll
  <2> QED BY <2>1, <2>2
<1> QED BY <1>2, <1>7 DEF Fold, R, u

LEMMA BestOfNothing ==
  ASSUME NEW limit \in Nat
  PROVE  TrimSpace(Best(<<>>, limit)) = <<>>
<1> DEFINE s == <<>>
<1>1. s \in Seq(Runes)
  OBVIOUS
<1>2. TrimSpace(s) = s
  BY DEF TrimSpace
<1>3. Bytes(s) = 0
  BY <1>1, BytesIs
<1> HIDE DEF s
<1>4. Best(s, limit) = s
  BY <1>1, <1>3, BestIsAll
<1>5. TrimSpace(Best(s, limit)) = s
  BY <1>2, <1>4
<1> QED BY <1>5 DEF s

\* Of spaces alone nothing is left.
LEMMA FoldOfSpaces ==
  ASSUME NEW t \in Seq(Runes), \A i \in 1..Len(t) : t[i] \in IsSpace
  PROVE  Folded(t) = <<>>
<1>1. Words(t) = {} /\ Len(t) \in 0..Len(t) /\ 0 \in 0..Len(t)
  BY PartsAre
<1>2. \A k \in (0 + 1)..Len(t) : k \notin Words(t) \cup Spaces(t)
  BY <1>1 DEF Spaces
<1>3. Kept(t)[Len(t)] = Kept(t)[0]
  BY <1>1, <1>2, KeptSkips
<1> QED BY <1>3, KeptIs, FoldedIs

LEMMA FoldOfNothing ==
  ASSUME NEW limit \in Nat
  PROVE  Fold(<<>>, limit) = <<>>
<1>1. <<>> \in Seq(Runes) /\ Len(<<>>) = 0
  OBVIOUS
<1>2. FoldRun(<<>>, limit)[0] = Loop(<<>>, FALSE, FALSE)
  BY <1>1, FoldRunIs
<1>3. TrimSpace(<<>>) = <<>>
  BY DEF TrimSpace
<1> QED BY <1>1, <1>2, <1>3 DEF Fold, Loop

LEMMA FoldOfLetter ==
  ASSUME NEW limit \in Nat, limit >= 1
  PROVE  Fold(<<"letter">>, limit) = <<"letter">>
<1> DEFINE t == <<"letter">>
<1>1. t \in Seq(Runes) /\ Len(t) = 1 /\ t[1] = "letter" /\ "letter" \in Runes
  BY DEF Runes, Width
<1>2. FoldRun(t, limit)[0] = Loop(<<>>, FALSE, FALSE)
  BY <1>1, FoldRunIs
<1>3. 1 \in 1..Len(t) /\ 1 - 1 = 0
  BY <1>1
<1>4. FoldRun(t, limit)[1] = FoldStep(Loop(<<>>, FALSE, FALSE), "letter", limit)
  BY <1>1, <1>2, <1>3, FoldRunIs
<1>5. Bytes(<<>>) = 0 /\ Width["letter"] = 1
  BY <1>1, BytesIs DEF Width
<1>6. "letter" \notin IsSpace /\ "letter" \notin IsControl \cup Formatting
  BY DEF IsSpace, IsControl, Formatting
<1>7. FoldStep(Loop(<<>>, FALSE, FALSE), "letter", limit) = Loop(Append(<<>>, "letter"), FALSE, FALSE)
  BY <1>5, <1>6 DEF FoldStep, Loop
<1>8. FoldRun(t, limit)[1].out = t
  BY <1>4, <1>7 DEF Loop
<1>9. TrimSpace(t) = t
  <2>1. \E a, b \in 1..Len(t) : TrimSpace(t) = SubSeq(t, a, b) /\ a <= b
    BY <1>1, <1>3, <1>6, TrimIs
  <2>2. SubSeq(t, 1, 1) = t
    BY <1>1, SubSeqFull
  <2> HIDE DEF t
  <2> QED BY <1>1, <2>1, <2>2
<1> QED BY <1>1, <1>8, <1>9 DEF Fold

\* A name is folded, and cut at its last rune within the limit: of the spaces
\* that the loop has pending the one it writes is the one that Folded keeps, and
\* trimming the name first changes nothing.
THEOREM FoldedAreNames == TextSpec => []NamesFolded
<1>1. TextInv => NamesFolded
  <2> SUFFICES ASSUME text \in Seq(Runes), NEW cut \in 0..Len(text)
               PROVE  LET given == SubSeq(text, 1, cut)
                          family == SubSeq(text, cut + 1, Len(text))
                          name == Folded(given \o <<"space">> \o family)
                          shown == DisplayName(given, family, <<"letter">>)
                          fits == {n \in 0..Len(name) :
                                     Bytes(SubSeq(name, 1, n)) <= MaxIdentityBytes}
                      IN  IF name = <<>> THEN shown = <<"letter">>
                          ELSE shown = TrimSpace(SubSeq(name, 1, Max(fits)))
    BY DEF TextInv, NamesFolded
  <2> DEFINE given == SubSeq(text, 1, cut)
             family == SubSeq(text, cut + 1, Len(text))
             t == given \o <<"space">> \o family
             name == Folded(t)
             limit == MaxIdentityBytes
             best == TrimSpace(Best(name, limit))
             shown == DisplayName(given, family, <<"letter">>)
  <2>1. t \in Seq(Runes)
    <3>1. Len(text) \in Nat /\ \A i \in 1..Len(text) : text[i] \in Runes
      OBVIOUS
    <3>2. given \in Seq(Runes) /\ family \in Seq(Runes)
      BY <3>1, SubSeqProperties
    <3>3. <<"space">> \in Seq(Runes)
      BY DEF Runes, Width
    <3> HIDE DEF given, family
    <3>4. given \o <<"space">> \in Seq(Runes)
      BY <3>2, <3>3, ConcatProperties
    <3> QED BY <3>2, <3>4, ConcatProperties
  <2>2. shown = IF Fold(TrimSpace(t), limit) = <<>> THEN Fold(<<"letter">>, limit)
                ELSE Fold(TrimSpace(t), limit)
    BY DEF DisplayName
  <2>3. limit \in Nat /\ limit >= 3
    BY BytesAssumption, IdentityAssumption
  <2> HIDE DEF t, limit
  <2>4. name \in Seq(Runes)
    <3>1. Len(t) \in 0..Len(t)
      BY <2>1
    <3> QED BY <2>1, <3>1, FoldedIs, KeptIs
  <2>5. Fold(TrimSpace(t), limit) = best
    <3>1. CASE TrimSpace(t) = <<>> /\ \A i \in 1..Len(t) : t[i] \in IsSpace
      <4>1. name = <<>>
        BY <2>1, <3>1, FoldOfSpaces
      <4>2. best = <<>>
        BY <2>3, <4>1, BestOfNothing
      <4> QED BY <2>3, <3>1, <4>2, FoldOfNothing
    <3>2. ASSUME NEW a \in 1..Len(t), NEW b \in 1..Len(t),
                 TrimSpace(t) = SubSeq(t, a, b), a <= b,
                 \A i \in 1..Len(t) : i < a \/ b < i => t[i] \in IsSpace
          PROVE  Fold(TrimSpace(t), limit) = best
      BY <2>1, <2>3, <3>2, FoldIs
    <3> QED BY <2>1, <3>1, <3>2, TrimIs
  <2>6. Fold(<<"letter">>, limit) = <<"letter">>
    BY <2>3, FoldOfLetter
  <2>7. CASE name = <<>>
    <3>1. best = <<>>
      BY <2>3, <2>7, BestOfNothing
    <3> QED BY <2>2, <2>5, <2>6, <2>7, <3>1 DEF t
  <2>8. CASE name # <<>>
    <3>1. name[1] \notin IsSpace
      <4>1. Len(t) \in 0..Len(t) /\ name = Kept(t)[Len(t)]
        BY <2>1, FoldedIs
      <4> HIDE DEF name
      <4> QED BY <2>1, <2>8, <4>1, KeptFirst
    <3> HIDE DEF name
    <3>2. 1 \in 0..Len(name) /\ 1 \in 1..Len(name) /\ 1 - 1 = 0 /\ name[1] \in Runes
      BY <2>4, <2>8
    <3>3. Bytes(SubSeq(name, 1, 1)) <= limit
      <4>1. Bytes(SubSeq(name, 1, 1)) = Offset(name)[1]
        BY <2>4, <3>2, BeginningIs
      <4>2. Offset(name)[1] = Offset(name)[0] + Width[name[1]] /\ Offset(name)[0] = 0
        BY <2>4, <3>2, OffsetIs
      <4>3. Width[name[1]] \in 1..3
        BY <3>2, WidthIs
      <4> QED BY <2>3, <4>1, <4>2, <4>3
    <3>4. 1 \in Fits(name, limit) /\ Fits(name, limit) \in SUBSET (0..Len(name))
      BY <3>2, <3>3 DEF Fits
    <3> DEFINE m == Max(Fits(name, limit))
    <3>5. m \in 1..Len(name) /\ m \in 0..Len(name)
      <4>1. Len(name) \in Nat /\ Fits(name, limit) # {}
        BY <2>4, <3>4
      <4>2. m \in Fits(name, limit) /\ \A k \in Fits(name, limit) : k <= m
        BY <3>4, <4>1, MaxIs
      <4> HIDE DEF m
      <4> QED BY <3>4, <4>1, <4>2
    <3> HIDE DEF m
    <3> DEFINE s == SubSeq(name, 1, m)
    <3>6. s \in Seq(Runes) /\ Len(s) = m /\ s[1] = name[1]
      <4>1. 1 \in 1..m
        BY <3>5
      <4> QED BY <2>4, <3>5, <4>1, BeginningIs
    <3> HIDE DEF s
    <3>7. TrimSpace(s) # <<>>
      <4>1. 1 \in 1..Len(s) /\ s[1] \notin IsSpace
        BY <3>1, <3>5, <3>6
      <4>2. PICK a, b \in 1..Len(s) : TrimSpace(s) = SubSeq(s, a, b) /\ a <= b
        BY <3>6, <4>1, TrimIs
      <4>3. \A i \in a..b : s[i] \in Runes
        BY <3>6
      <4>4. Len(SubSeq(s, a, b)) = b - a + 1
        BY <4>2, <4>3, SubSeqProperties
      <4> QED BY <4>2, <4>4
    <3>8. best = TrimSpace(s) /\ shown = TrimSpace(s)
      BY <2>2, <2>5, <3>7 DEF Best, s, m
    <3> QED BY <2>8, <3>8 DEF s, m, Fits, name, t, limit
  <2> QED BY <2>7, <2>8
<1> QED BY <1>1, TextIsRunes, PTL

-----------------------------------------------------------------------------
(* Routes.                                                                 *)

USE LimitAssumption, BotAssumption, ChatAssumption, ThreadAssumption,
    MessageAssumption, ConformanceAssumption

LEMMA IntegersAre == Int64 \subseteq Int
BY DEF Int64

LEMMA FormatIntOne ==
  ASSUME NEW m \in Int, NEW n \in Int
  PROVE  /\ FormatInt(m) = FormatInt(n) => m = n
         /\ FormatInt(m) # Empty /\ FormatInt(m) # Word("conformance")
<1>1. /\ FormatInt(n).sign = IF n < 0 THEN "-" ELSE ""
      /\ FormatInt(n).magnitude = Abs(n)
      /\ FormatInt(m).sign = IF m < 0 THEN "-" ELSE ""
      /\ FormatInt(m).magnitude = Abs(m)
      /\ FormatInt(m).word = ""
  BY DEF FormatInt, Numeral
<1>2. Empty.word = "empty" /\ Word("conformance").word = "conformance"
  BY DEF Empty, Word
<1>3. ASSUME FormatInt(m) = FormatInt(n)
      PROVE  m = n
  <2>1. m < 0 <=> n < 0
    BY <1>1, <1>3
  <2>2. Abs(m) = Abs(n)
    BY <1>1, <1>3
  <2> QED BY <2>1, <2>2 DEF Abs
<1> QED BY <1>1, <1>2, <1>3

\* Format, then parse.
LEMMA RoundTrip ==
  ASSUME NEW n \in Int64
  PROVE  parseCanonicalInt64(FormatInt(n)) = [ok |-> TRUE, value |-> n]
<1>1. /\ FormatInt(n).sign = IF n < 0 THEN "-" ELSE ""
      /\ FormatInt(n).magnitude = Abs(n)
      /\ FormatInt(n).word = ""
  BY DEF FormatInt, Numeral
<1>2. n \in Int
  BY DEF Int64
<1>3. Value(FormatInt(n)) = n
  <2>1. CASE n < 0
    <3>1. FormatInt(n).sign = "-" /\ FormatInt(n).magnitude = -n
      BY <1>1, <1>2, <2>1 DEF Abs
    <3>2. Value(FormatInt(n)) = -(-n)
      BY <3>1 DEF Value
    <3> QED BY <1>2, <3>2
  <2>2. CASE ~(n < 0)
    <3>1. FormatInt(n).sign # "-" /\ FormatInt(n).magnitude = n
      BY <1>1, <1>2, <2>2 DEF Abs
    <3> QED BY <3>1 DEF Value
  <2> QED BY <2>1, <2>2
<1>4. ~ParseIntFails(FormatInt(n))
  BY <1>1, <1>3 DEF ParseIntFails
<1> QED BY <1>3, <1>4 DEF parseCanonicalInt64

LEMMA TargetRoundTrip ==
  ASSUME NEW c \in Int64, NEW t \in Int64, NEW m \in Int64, c # 0, t >= 0, m >= 0
  PROVE  /\ ParseReplyTarget(FormatReplyTarget(c, t, m)) = {Target(c, t, m)}
         /\ FormatReplyTarget(c, t, m) # ConformanceReplyTarget
<1> DEFINE v == FormatReplyTarget(c, t, m)
<1>1. /\ Len(v) = 5 /\ v[1] = Word("tg") /\ v[2] = Word("v1")
      /\ v[3] = FormatInt(c) /\ v[4] = FormatInt(t) /\ v[5] = FormatInt(m)
  BY DEF FormatReplyTarget
<1>2. v # ConformanceReplyTarget
  <2>1. Len(ConformanceReplyTarget) = 1
    BY DEF ConformanceReplyTarget
  <2> QED BY <1>1, <2>1
<1> HIDE DEF v
<1>3. \A i \in 3..5 : parseCanonicalInt64(v[i]).ok
  <2>1. \A i \in 3..5 : i = 3 \/ i = 4 \/ i = 5
    OBVIOUS
  <2>2. /\ parseCanonicalInt64(v[3]).ok
        /\ parseCanonicalInt64(v[4]).ok
        /\ parseCanonicalInt64(v[5]).ok
    BY <1>1, RoundTrip
  <2> QED BY <2>1, <2>2
<1>4. ParsedParts(v) = Target(c, t, m)
  BY <1>1, RoundTrip DEF ParsedParts
<1>5. Validate(Target(c, t, m))
  BY DEF Validate, Target
<1> QED BY <1>1, <1>2, <1>3, <1>4, <1>5 DEF ParseReplyTarget, WellFormed, v

\* An event is what MapUpdate makes of its origin.
EventInv ==
  \A e \in events :
    /\ e.origin.bot \in Bots /\ e.origin.of \in Messages
    /\ e.origin.of.message > 0 /\ e.origin.of.chat # 0
    /\ e.event = [account |-> FormatInt(e.origin.bot),
                  context |-> FormatInt(e.origin.of.chat),
                  thread |-> ThreadText(e.origin.of.thread),
                  target |-> FormatReplyTarget(e.origin.of.chat, e.origin.of.thread,
                                               e.origin.of.message)]

\* A delivery was refused or sent as the route check had it.
LastInv ==
  /\ last.kind \in {"none", "refused", "sent"}
  /\ last.kind = "refused" => last.bot \in Bots /\ Routed(last.bot, last.request) = {}
  /\ last.kind = "sent" => /\ last.bot \in Bots
                           /\ last.target \in Routed(last.bot, last.request)
                           /\ last.answer \in Answers
                           /\ last.delivered = Confirmed(last.target, last.answer)

Inv == bot \in Bots /\ EventInv /\ LastInv

THEOREM Invariance == Spec => []Inv
<1>1. Init => Inv
  BY DEF Init, Inv, EventInv, LastInv, NoDelivery
<1>2. Inv /\ [Next]_vars => Inv'
  <2> SUFFICES ASSUME Inv, [Next]_vars PROVE Inv'
    OBVIOUS
  <2> USE DEF Inv
  <2>1. ASSUME NEW m \in Messages, Admit(m)
        PROVE  Inv'
    <3>1. PICK event \in MapUpdate(bot, m) :
            events' = events \cup {[event |-> event, origin |-> [bot |-> bot, of |-> m]]}
      BY <2>1 DEF Admit
    <3>2. /\ m.message > 0 /\ m.chat # 0
          /\ event = [account |-> FormatInt(bot), context |-> FormatInt(m.chat),
                      thread |-> ThreadText(m.thread),
                      target |-> FormatReplyTarget(m.chat, m.thread, m.message)]
      <4>1. m.thread \in Int64 /\ m.thread >= 0
        BY DEF Messages
      <4>2. ThreadText(m.thread) = IF m.thread > 0 THEN FormatInt(m.thread) ELSE Empty
        BY <4>1 DEF ThreadText, Int64
      <4> QED BY <3>1, <4>2 DEF MapUpdate
    <3> HIDE DEF Inv
    <3>3. EventInv'
      BY <3>1, <3>2 DEF EventInv, Inv
    <3> QED BY <2>1, <3>3 DEF Admit, LastInv, Inv
  <2>2. ASSUME NEW request \in Requests, Refuse(request)
        PROVE  Inv'
    <3>1. last' = RefusedDelivery(bot, request) /\ Routed(bot, request) = {}
      BY <2>2 DEF Refuse
    <3>2. /\ last'.kind = "refused" /\ last'.bot = bot /\ last'.request = request
      BY <3>1 DEF RefusedDelivery
    <3>3. LastInv'
      BY <3>1, <3>2 DEF LastInv
    <3> QED BY <2>2, <3>3 DEF Refuse, EventInv
  <2>3. ASSUME NEW request \in Requests, NEW answer \in Answers, Send(request, answer)
        PROVE  Inv'
    <3>1. PICK target \in Routed(bot, request) :
            last' = SentDelivery(bot, request, target, answer)
      BY <2>3 DEF Send
    <3>2. /\ last'.kind = "sent" /\ last'.bot = bot /\ last'.request = request
          /\ last'.target = target /\ last'.answer = answer
          /\ last'.delivered = Confirmed(target, answer)
      BY <3>1 DEF SentDelivery
    <3>3. LastInv'
      BY <3>1, <3>2 DEF LastInv
    <3> QED BY <2>3, <3>3 DEF Send, EventInv
  <2>4. ASSUME NEW other \in Bots, Restart(other)
        PROVE  Inv'
    BY <2>4 DEF Restart, EventInv, LastInv, NoDelivery
  <2>5. CASE Answered
    BY <2>5 DEF Answered, EventInv, LastInv, NoDelivery
  <2>6. CASE UNCHANGED vars
    BY <2>6 DEF vars, EventInv, LastInv
  <2> QED BY <2>1, <2>2, <2>3, <2>4, <2>5, <2>6 DEF Next
<1> QED BY <1>1, <1>2, PTL DEF Spec

\* What an event's origin is made of.
LEMMA OriginOf ==
  ASSUME Inv, NEW e \in events
  PROVE  /\ e.origin.bot \in Int64 /\ e.origin.bot \in Int
         /\ e.origin.of.chat \in Int64 /\ e.origin.of.chat \in Int
         /\ e.origin.of.thread \in Int64 /\ e.origin.of.thread \in Int
         /\ e.origin.of.message \in Int64
         /\ e.origin.of.thread >= 0
         /\ e.origin.of = Target(e.origin.of.chat, e.origin.of.thread, e.origin.of.message)
         /\ e.event.account = FormatInt(e.origin.bot)
         /\ e.event.context = FormatInt(e.origin.of.chat)
         /\ e.event.thread = ThreadText(e.origin.of.thread)
         /\ e.event.target = FormatReplyTarget(e.origin.of.chat, e.origin.of.thread,
                                               e.origin.of.message)
         /\ e.origin.of.chat # 0 /\ e.origin.of.message >= 0
<1>1. /\ e.origin.bot \in Bots /\ e.origin.of \in Messages
      /\ e.origin.of.message > 0 /\ e.origin.of.chat # 0
      /\ e.event = [account |-> FormatInt(e.origin.bot),
                    context |-> FormatInt(e.origin.of.chat),
                    thread |-> ThreadText(e.origin.of.thread),
                    target |-> FormatReplyTarget(e.origin.of.chat, e.origin.of.thread,
                                                 e.origin.of.message)]
  BY DEF Inv, EventInv
<1> DEFINE o == e.origin.of
<1>2. /\ o.chat \in ChatIDs /\ o.thread \in ThreadIDs /\ o.message \in MessageIDs
      /\ o = [chat |-> o.chat, thread |-> o.thread, message |-> o.message]
  BY <1>1 DEF Messages
<1> HIDE DEF o
<1>3. o.chat \in Int64 /\ o.thread \in Int64 /\ o.message \in Int64 /\ o.thread >= 0
  BY <1>2
<1>4. o.chat \in Int /\ o.thread \in Int /\ o.message \in Int
  BY <1>3, IntegersAre
<1>5. e.origin.bot \in Int64 /\ e.origin.bot \in Int
  BY <1>1, IntegersAre
<1>6. /\ e.event.account = FormatInt(e.origin.bot)
      /\ e.event.context = FormatInt(o.chat)
      /\ e.event.thread = ThreadText(o.thread)
      /\ e.event.target = FormatReplyTarget(o.chat, o.thread, o.message)
  BY <1>1 DEF o
<1>7. o.chat # 0 /\ o.message >= 0
  BY <1>1, <1>4 DEF o
<1> QED BY <1>2, <1>3, <1>4, <1>5, <1>6, <1>7 DEF o, Target

\* A reply to an event reaches the message it is a reply to.
THEOREM RepliesArrive == Spec => []EchoReaches
<1>1. Inv => EchoReaches
  <2> SUFFICES ASSUME Inv, NEW e \in events, last.kind # "none",
                      Routes(last.request) = Routes(e.event)
               PROVE  /\ last.kind = "refused" => last.bot # e.origin.bot
                      /\ last.kind = "sent" => last.target = e.origin.of
    BY DEF EchoReaches
  <2> DEFINE o == e.origin.of
  <2>1. /\ last.request.account = FormatInt(e.origin.bot)
        /\ last.request.context = FormatInt(o.chat)
        /\ last.request.thread = ThreadText(o.thread)
        /\ last.request.target = FormatReplyTarget(o.chat, o.thread, o.message)
    BY OriginOf DEF Routes
  <2>2. /\ ParseReplyTarget(last.request.target) = {o}
        /\ last.request.target # ConformanceReplyTarget
    <3>1. /\ o.chat \in Int64 /\ o.thread \in Int64 /\ o.message \in Int64
          /\ o.chat # 0 /\ o.thread >= 0 /\ o.message >= 0
          /\ o = Target(o.chat, o.thread, o.message)
      BY OriginOf
    <3> HIDE DEF o
    <3> QED BY <2>1, <3>1, TargetRoundTrip
  <2>3. \A b : b = e.origin.bot => validDeliveryRoute(b, last.request, o)
    BY <2>1, <2>2 DEF validDeliveryRoute
  <2>4. last.bot = e.origin.bot => Routed(last.bot, last.request) = {o}
    BY <2>2, <2>3 DEF Routed
  <2>5. \A b : Routed(b, last.request) \subseteq {o}
    BY <2>2 DEF Routed
  <2> QED BY <2>4, <2>5 DEF Inv, LastInv
<1> QED BY <1>1, Invariance, PTL

\* What a routed request says of its target.
LEMMA RouteSays ==
  ASSUME Inv, last.kind = "sent", NEW e \in events
  PROVE  /\ last.request.account = e.event.account => last.bot = e.origin.bot
         /\ last.request.context = e.event.context => last.target.chat = e.origin.of.chat
         /\ last.request.thread = e.event.thread /\ last.request.target # ConformanceReplyTarget
              => last.target.thread = e.origin.of.thread
<1>1. /\ last.target \in ParseReplyTarget(last.request.target)
      /\ validDeliveryRoute(last.bot, last.request, last.target)
  BY DEF Inv, LastInv, Routed
<1>2. /\ e.event.account = FormatInt(e.origin.bot)
      /\ e.event.context = FormatInt(e.origin.of.chat)
      /\ e.event.thread = ThreadText(e.origin.of.thread)
  BY OriginOf
<1>3. CASE last.request.target = ConformanceReplyTarget
  <2>1. last.request.account = Word("conformance") /\ last.request.context = Word("conformance")
    BY <1>1, <1>3 DEF validDeliveryRoute
  <2> QED BY <1>2, <1>3, <2>1, OriginOf, FormatIntOne
<1>4. CASE last.request.target # ConformanceReplyTarget
  <2>1. /\ last.request.account = FormatInt(last.bot)
        /\ last.request.context = FormatInt(last.target.chat)
        /\ last.request.thread = ThreadText(last.target.thread)
    BY <1>1, <1>4 DEF validDeliveryRoute
  <2>2. /\ WellFormed(last.request.target)
        /\ last.target = ParsedParts(last.request.target)
    <3>1. last.target.chat # 0
      BY <1>1 DEF ParseReplyTarget, Validate
    <3>2. Target(0, 0, 0).chat = 0
      BY DEF Target
    <3> QED BY <1>1, <1>4, <3>1, <3>2 DEF ParseReplyTarget
  <2>3. /\ last.target.chat \in Int /\ last.target.thread \in Int
    <3>1. \A i \in 3..5 : parseCanonicalInt64(last.request.target[i]).value \in Int64
      BY <2>2 DEF WellFormed, parseCanonicalInt64, ParseIntFails
    <3>2. 3 \in 3..5 /\ 4 \in 3..5 /\ Int64 \subseteq Int
      BY DEF Int64
    <3>3. /\ last.target.chat = parseCanonicalInt64(last.request.target[3]).value
          /\ last.target.thread = parseCanonicalInt64(last.request.target[4]).value
      BY <2>2 DEF ParsedParts, Target
    <3> QED BY <3>1, <3>2, <3>3
  <2>4. last.bot \in Int
    BY IntegersAre DEF Inv, LastInv
  <2>5. last.request.thread = e.event.thread => last.target.thread = e.origin.of.thread
    BY <1>2, <2>1, <2>3, OriginOf, FormatIntOne DEF ThreadText
  <2> QED BY <1>2, <2>1, <2>3, <2>4, <2>5, OriginOf, FormatIntOne
<1> QED BY <1>3, <1>4

\* Nothing Orka can put together sends a message elsewhere.
THEOREM NeverElsewhere == Spec => []NoMisdelivery
<1>1. Inv => NoMisdelivery
  BY RouteSays DEF NoMisdelivery
<1> QED BY <1>1, Invariance, PTL

\* "delivered" is said of a message in the chat and thread that were asked for.
THEOREM DeliveredIsThere == Spec => []DeliveredThere
<1>1. Inv => DeliveredThere
  <2> SUFFICES ASSUME Inv, NEW e \in events, last.kind = "sent", last.delivered
               PROVE  /\ last.request.context = e.event.context =>
                           last.answer.chat = e.origin.of.chat
                      /\ last.request.thread = e.event.thread /\ e.origin.of.thread # 0 =>
                           last.answer.thread = e.origin.of.thread
    BY DEF DeliveredThere
  <2>1. /\ last.answer.chat = last.target.chat
        /\ last.target.thread > 0 => last.answer.thread = last.target.thread
    BY DEF Inv, LastInv, Confirmed
  <2>2. last.request.thread = e.event.thread /\ e.origin.of.thread # 0 =>
          last.request.target # ConformanceReplyTarget
    <3>1. last.request.target = ConformanceReplyTarget => last.request.thread = Empty
      BY DEF Inv, LastInv, Routed, validDeliveryRoute
    <3>2. e.origin.of.thread # 0 => e.event.thread # Empty
      BY OriginOf, FormatIntOne DEF ThreadText
    <3> QED BY <3>1, <3>2
  <2> QED BY <2>1, <2>2, RouteSays, OriginOf
<1> QED BY <1>1, Invariance, PTL
=============================================================================
