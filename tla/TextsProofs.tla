----------------------------- MODULE TextsProofs -----------------------------
(* Proofs about Texts, for every set of characters and texts of any length. *)
EXTENDS Texts, SequenceTheorems, WellFoundedInduction, TLAPS

-----------------------------------------------------------------------------
(* Induction and recursion over the numbers up to N.  The library states   *)
(* them for an operator, which no prover here instantiates; a set or a     *)
(* function takes its place.                                               *)

\* A set of numbers has a least one.
LEMMA Least ==
    ASSUME NEW T, T \subseteq Nat, T # {}
    PROVE  \E x \in T : \A y \in T : x <= y
  <1>1. \E x \in T : \A y \in T : ~ (<<y, x>> \in OpToRel(<, Nat))
    BY NatLessThanWellFounded, WFMin
  <1>2. PICK x \in T : \A y \in T : ~ (<<y, x>> \in OpToRel(<, Nat))
    BY <1>1
  <1>3. ASSUME NEW y \in T, ~(x <= y) PROVE FALSE
    <2>1. y < x /\ x \in Nat /\ y \in Nat
      BY <1>3
    <2>2. <<y, x>> \in OpToRel(<, Nat)
      BY <2>1 DEF OpToRel
    <2> QED BY <1>2, <2>2
  <1> QED BY <1>3

\* Induction over the numbers up to N, for the set of those with a property.
LEMMA UpTo ==
    ASSUME NEW N \in Nat, NEW S, 0 \in S, \A n \in 0..N - 1 : n \in S => n + 1 \in S
    PROVE  0..N \subseteq S
  <1>1. SUFFICES ASSUME NEW m \in 0..N, m \notin S PROVE FALSE
    OBVIOUS
  <1> DEFINE T == {n \in 0..N : n \notin S}
  <1>2. T \subseteq Nat /\ T # {}
    BY <1>1
  <1>3. PICK x \in T : \A y \in T : x <= y
    <2> HIDE DEF T
    <2> QED BY <1>2, Least
  <1>4. x # 0 /\ x - 1 \in 0..N - 1
    OBVIOUS
  <1>5. x - 1 \in T
    BY <1>4
  <1> QED BY <1>3, <1>5

\* A recursive function over the numbers up to N exists, whatever its steps.
Rounds(g, a0, N, d) == g[0] = a0 /\ \A n \in 1..N : g[n] = d[n][g[n - 1]]

LEMMA Runs ==
    ASSUME NEW A, NEW a0 \in A, NEW N \in Nat, NEW d \in [1..N -> [A -> A]]
    PROVE  \E g \in [0..N -> A] : Rounds(g, a0, N, d)
  <1> DEFINE Ok(k, g) == g[0] = a0 /\ \A n \in 1..k : g[n] = d[n][g[n - 1]]
             S == {k \in 0..N : \E g \in [0..k -> A] : Ok(k, g)}
  <1>1. 0 \in S
    <2> DEFINE g == [n \in 0..0 |-> a0]
    <2>1. g \in [0..0 -> A] /\ g[0] = a0
      OBVIOUS
    <2>2. Ok(0, g)
      BY <2>1
    <2> HIDE DEF g, Ok
    <2> QED BY <2>1, <2>2
  <1>2. ASSUME NEW k \in 0..N - 1, k \in S PROVE k + 1 \in S
    <2>1. PICK g \in [0..k -> A] : Ok(k, g)
      BY <1>2
    <2> DEFINE v == d[k + 1][g[k]]
               h == [n \in 0..k + 1 |-> IF n <= k THEN g[n] ELSE v]
    <2>2. g[k] \in A /\ d[k + 1] \in [A -> A]
      OBVIOUS
    <2>3. v \in A
      BY <2>2
    <2>4. /\ h \in [0..k + 1 -> A] /\ h[k + 1] = v
          /\ \A n \in 0..k : h[n] = g[n]
      <3> HIDE DEF v
      <3> QED BY <2>3
    <2> HIDE DEF h
    <2>5. h[0] = a0
      BY <2>1, <2>4
    <2>6. ASSUME NEW n \in 1..k + 1 PROVE h[n] = d[n][h[n - 1]]
      <3>1. CASE n \in 1..k
        <4>1. n - 1 \in 0..k /\ n \in 0..k
          BY <3>1
        <4>2. g[n] = d[n][g[n - 1]]
          BY <2>1, <3>1
        <4> QED BY <2>4, <4>1, <4>2
      <3>2. CASE n = k + 1
        <4>1. n - 1 = k
          BY <3>2
        <4>2. h[k] = g[k]
          BY <2>4
        <4> QED BY <2>4, <3>2, <4>1, <4>2
      <3> QED BY <3>1, <3>2
    <2>7. Ok(k + 1, h)
      BY <2>5, <2>6
    <2>8. k + 1 \in 0..N
      OBVIOUS
    <2> HIDE DEF Ok
    <2> QED BY <2>4, <2>7, <2>8
  <1>3. 0..N \subseteq S
    <2> HIDE DEF S
    <2> QED BY <1>1, <1>2, UpTo
  <1>4. \E g \in [0..N -> A] : Ok(N, g)
    <2> HIDE DEF Ok
    <2> QED BY <1>3
  <1> QED BY <1>4 DEF Rounds

-----------------------------------------------------------------------------
(* Loops that take a buffer apart.                                         *)

\* A part of a text is a text, character by character.
LEMMA SubText ==
    ASSUME NEW C, NEW s \in Seq(C), NEW m \in Int, NEW n \in Int, m >= 1, n <= Len(s), m <= n + 1
    PROVE  /\ SubSeq(s, m, n) \in Seq(C)
           /\ Len(SubSeq(s, m, n)) = n - m + 1
           /\ \A i \in 1..n - m + 1 : SubSeq(s, m, n)[i] = s[m + i - 1]
  <1>1. Len(s) \in Nat
    BY LenProperties
  <1>2. \A i \in m..n : s[i] \in C
    <2>1. SUFFICES ASSUME NEW i \in m..n PROVE s[i] \in C
      OBVIOUS
    <2>2. i \in 1..Len(s)
      BY <1>1
    <2> QED BY <2>2, ElementOfSeq
  <1>3. /\ SubSeq(s, m, n) \in Seq(C)
        /\ Len(SubSeq(s, m, n)) = IF m <= n THEN n - m + 1 ELSE 0
        /\ \A i \in 1..n - m + 1 : SubSeq(s, m, n)[i] = s[m + i - 1]
    <2> HIDE <1>1
    <2> QED BY <1>2, SubSeqProperties
  <1> QED BY <1>3

\* An occurrence, character by character.
LEMMA AtDef ==
    ASSUME NEW C, NEW s \in Seq(C), NEW sep \in Seq(C), Len(sep) > 0
    PROVE  /\ At(s, sep) \subseteq 1..Len(s)
           /\ \A i \in Int : i \in At(s, sep) <=>
                /\ i >= 1 /\ i + Len(sep) - 1 <= Len(s)
                /\ \A j \in 1..Len(sep) : s[i + j - 1] = sep[j]
  <1>1. Len(s) \in Nat /\ Len(sep) \in Nat
    BY LenProperties
  <1>2. At(s, sep) \subseteq 1..Len(s)
    BY <1>1 DEF At
  <1>3. ASSUME NEW i \in Int, i >= 1, i + Len(sep) - 1 <= Len(s)
        PROVE  SubSeq(s, i, i + Len(sep) - 1) = sep <=> \A j \in 1..Len(sep) : s[i + j - 1] = sep[j]
    <2> DEFINE u == SubSeq(s, i, i + Len(sep) - 1)
    <2>1. u \in Seq(C) /\ Len(u) = Len(sep) /\ \A j \in 1..Len(sep) : u[j] = s[i + j - 1]
      <3>1. i + Len(sep) - 1 \in Int /\ i <= i + Len(sep) - 1 + 1 /\ (i + Len(sep) - 1) - i + 1 = Len(sep)
        BY <1>1, <1>3
      <3>2. /\ u \in Seq(C)
            /\ Len(u) = (i + Len(sep) - 1) - i + 1
            /\ \A j \in 1..(i + Len(sep) - 1) - i + 1 : u[j] = s[i + j - 1]
        BY <1>3, <3>1, SubText
      <3> QED BY <3>1, <3>2
    <2> HIDE DEF u
    <2>2. (\A j \in 1..Len(sep) : u[j] = sep[j]) => u = sep
      BY <2>1, SeqEqual
    <2>3. u = sep <=> \A j \in 1..Len(sep) : s[i + j - 1] = sep[j]
      BY <2>1, <2>2
    <2> QED BY <2>3 DEF u
  <1>4. ASSUME NEW i \in Int
        PROVE  i \in At(s, sep) <=> i >= 1 /\ i + Len(sep) - 1 <= Len(s) /\ SubSeq(s, i, i + Len(sep) - 1) = sep
    BY <1>1 DEF At
  <1> QED BY <1>2, <1>3, <1>4

\* The first of them.
LEMMA FirstAt ==
    ASSUME NEW C, NEW s \in Seq(C), NEW sep \in Seq(C), Len(sep) > 0, At(s, sep) # {}
    PROVE  /\ Min(At(s, sep)) \in At(s, sep)
           /\ \A j \in At(s, sep) : Min(At(s, sep)) <= j
  <1> DEFINE T == At(s, sep)
  <1>1. Len(s) \in Nat
    BY LenProperties
  <1>2. T \subseteq Nat
    BY <1>1, AtDef
  <1> HIDE DEF T
  <1>3. \E x \in T : \A y \in T : x <= y
    BY <1>2, Least DEF T
  <1> QED BY <1>3 DEF T, Min

\* What the loops hold.
Pieces(C) == [parts : Seq(Seq(C)), rest : Seq(C)]

\* One round cuts off what is before the first sep, or changes nothing.
LEMMA CutOne ==
    ASSUME NEW C, NEW sep \in Seq(C), Len(sep) > 0, NEW a \in Pieces(C), At(a.rest, sep) # {}
    PROVE  \E p \in Seq(C), r \in Seq(C) :
              /\ cutOne(a, sep) = [parts |-> Append(a.parts, p), rest |-> r]
              /\ a.rest = (p \o sep) \o r
              /\ At(p \o sep, sep) = {Len(p) + 1}
  <1> DEFINE s == a.rest
             i == Min(At(s, sep))
             p == SubSeq(s, 1, i - 1)
             r == SubSeq(s, i + Len(sep), Len(s))
  <1>1. s \in Seq(C)
    BY DEF Pieces
  <1>2. cutOne(a, sep) = [parts |-> Append(a.parts, p), rest |-> r]
    BY DEF cutOne
  <1>3. Len(s) \in Nat /\ Len(sep) \in Nat
    BY <1>1, LenProperties
  <1>4. i \in At(s, sep) /\ \A j \in At(s, sep) : i <= j
    BY <1>1, FirstAt
  <1> HIDE DEF s, i
  <1>5. i \in 1..Len(s)
    BY <1>1, <1>4, AtDef
  <1>6. i + Len(sep) - 1 <= Len(s) /\ \A j \in 1..Len(sep) : s[i + j - 1] = sep[j]
    BY <1>1, <1>4, <1>5, AtDef
  <1>7. p \in Seq(C) /\ Len(p) = i - 1 /\ \A k \in 1..i - 1 : p[k] = s[k]
    <2>1. /\ p \in Seq(C) /\ Len(p) = (i - 1) - 1 + 1
          /\ \A k \in 1..(i - 1) - 1 + 1 : p[k] = s[1 + k - 1]
      BY <1>1, <1>3, <1>5, SubText
    <2> HIDE DEF p
    <2> QED BY <1>5, <2>1
  <1>8. r \in Seq(C) /\ Len(r) = Len(s) - i - Len(sep) + 1 /\ \A k \in 1..Len(r) : r[k] = s[i + Len(sep) + k - 1]
    <2>1. /\ r \in Seq(C) /\ Len(r) = Len(s) - (i + Len(sep)) + 1
          /\ \A k \in 1..Len(s) - (i + Len(sep)) + 1 : r[k] = s[i + Len(sep) + k - 1]
      <3>1. i + Len(sep) \in Int /\ i + Len(sep) >= 1 /\ i + Len(sep) <= Len(s) + 1
        BY <1>3, <1>5, <1>6
      <3> QED BY <1>1, <1>3, <3>1, SubText
    <2> HIDE DEF r
    <2> QED BY <1>3, <1>5, <2>1
  <1> HIDE DEF p, r
  <1>9. /\ p \o sep \in Seq(C) /\ Len(p \o sep) = i - 1 + Len(sep)
        /\ \A k \in 1..i - 1 + Len(sep) : (p \o sep)[k] = s[k]
    <2>1. /\ p \o sep \in Seq(C) /\ Len(p \o sep) = Len(p) + Len(sep)
          /\ \A k \in 1..Len(p) + Len(sep) : (p \o sep)[k] = IF k <= Len(p) THEN p[k] ELSE sep[k - Len(p)]
      BY <1>7, ConcatProperties
    <2>2. ASSUME NEW k \in 1..i - 1 + Len(sep) PROVE (p \o sep)[k] = s[k]
      <3>1. CASE k <= i - 1
        BY <1>3, <1>5, <1>7, <2>1, <3>1
      <3>2. CASE k > i - 1
        <4>1. k - (i - 1) \in 1..Len(sep) /\ i + (k - (i - 1)) - 1 = k
          BY <1>3, <1>5, <3>2
        <4>2. (p \o sep)[k] = sep[k - (i - 1)]
          BY <1>3, <1>5, <1>7, <2>1, <3>2
        <4> QED BY <1>6, <4>1, <4>2
      <3>3. k <= i - 1 \/ k > i - 1
        BY <1>3, <1>5
      <3> QED BY <3>1, <3>2, <3>3
    <2> QED BY <1>7, <2>1, <2>2
  <1> DEFINE q == p \o sep
  <1>10. q \in Seq(C) /\ Len(q) = i - 1 + Len(sep) /\ \A k \in 1..Len(q) : q[k] = s[k]
    BY <1>9
  <1> HIDE DEF q
  <1>11. s = q \o r
    <2>1. /\ q \o r \in Seq(C) /\ Len(q \o r) = Len(q) + Len(r)
          /\ \A k \in 1..Len(q) + Len(r) : (q \o r)[k] = IF k <= Len(q) THEN q[k] ELSE r[k - Len(q)]
      <3>1. q \in Seq(C) /\ r \in Seq(C)
        BY <1>8, <1>10
      <3> QED BY <3>1, ConcatProperties, Zenon
    <2>2. Len(q \o r) = Len(s)
      BY <1>3, <1>5, <1>8, <1>10, <2>1
    <2>3. ASSUME NEW k \in 1..Len(s) PROVE s[k] = (q \o r)[k]
      <3>1. CASE k <= Len(q)
        BY <1>3, <1>5, <1>10, <2>1, <2>2, <3>1
      <3>2. CASE k > Len(q)
        <4>1. k - Len(q) \in 1..Len(r) /\ i + Len(sep) + (k - Len(q)) - 1 = k
          BY <1>3, <1>5, <1>8, <1>10, <3>2
        <4>2. (q \o r)[k] = r[k - Len(q)]
          BY <1>3, <1>5, <1>10, <2>1, <2>2, <3>2
        <4> QED BY <1>8, <4>1, <4>2
      <3>3. k <= Len(q) \/ k > Len(q)
        BY <1>3, <1>5, <1>10
      <3> QED BY <3>1, <3>2, <3>3
    <2> QED BY <1>1, <2>1, <2>2, <2>3, SeqEqual
  <1>12. At(q, sep) = {i}
    <2>1. i \in At(q, sep)
      <3>1. \A j \in 1..Len(sep) : q[i + j - 1] = sep[j]
        BY <1>3, <1>5, <1>6, <1>10
      <3> QED BY <1>3, <1>5, <1>10, <3>1, AtDef, SMTT(30)
    <2>2. ASSUME NEW j \in At(q, sep) PROVE j = i
      <3>1. At(q, sep) \subseteq 1..Len(q)
        BY <1>10, AtDef
      <3>2. j \in Int /\ j >= 1 /\ j + Len(sep) - 1 <= Len(q) /\ \A k \in 1..Len(sep) : q[j + k - 1] = sep[k]
        BY <1>10, <3>1, AtDef
      <3>3. j + Len(sep) - 1 <= Len(s)
        BY <1>3, <1>5, <1>6, <1>10, <3>2
      <3>4. ASSUME NEW k \in 1..Len(sep) PROVE s[j + k - 1] = sep[k]
        <4>1. j + k - 1 \in 1..Len(q)
          BY <1>3, <1>5, <1>10, <3>2
        <4> QED BY <1>10, <3>2, <4>1
      <3>5. j \in At(s, sep)
        BY <1>1, <3>2, <3>3, <3>4, AtDef
      <3> QED BY <1>3, <1>4, <1>5, <1>10, <3>2, <3>5
    <2> QED BY <2>1, <2>2
  <1>13. At(p \o sep, sep) = {Len(p) + 1}
    <2>1. Len(p) + 1 = i
      BY <1>5, <1>7
    <2> QED BY <1>12, <2>1 DEF q
  <1>14. a.rest = (p \o sep) \o r
    BY <1>11 DEF q, s
  <1> QED BY <1>2, <1>7, <1>8, <1>13, <1>14 DEF s

LEMMA CutOneType ==
    ASSUME NEW C, NEW sep \in Seq(C), Len(sep) > 0, NEW a \in Pieces(C)
    PROVE  cutOne(a, sep) \in Pieces(C)
  <1>1. CASE At(a.rest, sep) = {}
    BY <1>1 DEF cutOne
  <1>2. CASE At(a.rest, sep) # {}
    <2>1. \E p \in Seq(C), r \in Seq(C) :
              /\ cutOne(a, sep) = [parts |-> Append(a.parts, p), rest |-> r]
              /\ a.rest = (p \o sep) \o r
              /\ At(p \o sep, sep) = {Len(p) + 1}
      BY <1>2, CutOne, Zenon
    <2>9. PICK p \in Seq(C), r \in Seq(C) : cutOne(a, sep) = [parts |-> Append(a.parts, p), rest |-> r]
      BY <2>1, Zenon
    <2>2. a.parts \in Seq(Seq(C))
      BY DEF Pieces
    <2>3. Append(a.parts, p) \in Seq(Seq(C))
      BY <2>2, AppendProperties
    <2> QED BY <2>1, <2>3 DEF Pieces
  <1> QED BY <1>1, <1>2

\* The loop and its rounds.
IsLoop(loop, s, sep) ==
    /\ cutAll(s, sep) = loop[Len(s)]
    /\ loop[0] = [parts |-> <<>>, rest |-> s]
    /\ \A n \in 1..Len(s) : loop[n] = cutOne(loop[n - 1], sep)

LEMMA CutAllRounds ==
    ASSUME NEW C, NEW sep \in Seq(C), Len(sep) > 0, NEW s \in Seq(C)
    PROVE  \E loop \in [0..Len(s) -> Pieces(C)] : IsLoop(loop, s, sep)
  <1> DEFINE a0 == [parts |-> <<>>, rest |-> s]
             N == Len(s)
             A == Pieces(C)
             d == [n \in 1..N |-> [a \in A |-> cutOne(a, sep)]]
             E(f) == [n \in 0..N |-> IF n = 0 THEN a0 ELSE cutOne(f[n - 1], sep)]
             loop == CHOOSE f : f = E(f)
  <1>1. N \in Nat
    BY LenProperties
  <1>2. a0 \in A
    <2>1. <<>> \in Seq(Seq(C))
      BY EmptySeq, Zenon
    <2> QED BY <2>1 DEF Pieces
  <1>3. \A a \in A : cutOne(a, sep) \in A
    BY CutOneType
  <1>4. d \in [1..N -> [A -> A]]
    <2> HIDE DEF A, N
    <2> QED BY <1>3
  <1>5. \E g \in [0..N -> A] : Rounds(g, a0, N, d)
    <2> HIDE DEF A, N, d, a0, E, loop
    <2> QED BY <1>1, <1>2, <1>4, Runs
  <1>6. PICK g \in [0..N -> A] : g[0] = a0 /\ \A n \in 1..N : g[n] = d[n][g[n - 1]]
    BY <1>5 DEF Rounds
  <1>7. g = E(g)
    <2> HIDE DEF A, N, a0
    <2>1. ASSUME NEW n \in 0..N PROVE g[n] = IF n = 0 THEN a0 ELSE cutOne(g[n - 1], sep)
      <3>1. CASE n = 0
        BY <1>6, <3>1
      <3>2. CASE n # 0
        <4>1. n \in 1..N /\ n - 1 \in 0..N
          BY <1>1, <3>2
        <4>2. g[n - 1] \in A
          BY <4>1
        <4> QED BY <1>6, <3>2, <4>1, <4>2
      <3> QED BY <3>1, <3>2
    <2> QED BY <2>1, Zenon
  <1>8. loop = E(loop)
    <2>1. \E f : f = E(f)
      BY <1>7
    <2> HIDE DEF E
    <2> QED BY <2>1
  <1>9. cutAll(s, sep) = loop[N]
    BY Zenon DEF cutAll
  <1> HIDE DEF loop
  <1> DEFINE S == {n \in 0..N : loop[n] \in A}
  <1>10. loop[0] = a0 /\ \A n \in 1..N : loop[n] = cutOne(loop[n - 1], sep)
    <2> HIDE DEF a0, N
    <2>1. \A n \in 0..N : loop[n] = IF n = 0 THEN a0 ELSE cutOne(loop[n - 1], sep)
      BY <1>8, Zenon
    <2> QED BY <1>1, <2>1
  <1>11. 0..N \subseteq S
    <2> HIDE DEF A, N, a0
    <2>1. 0 \in S
      BY <1>1, <1>2, <1>10
    <2>2. \A n \in 0..N - 1 : n \in S => n + 1 \in S
      BY <1>1, <1>3, <1>10
    <2> HIDE DEF S
    <2> QED BY <1>1, <2>1, <2>2, UpTo
  <1>12. loop \in [0..N -> A]
    <2>1. loop = [n \in 0..N |-> loop[n]]
      <3> HIDE DEF a0, N
      <3>1. DOMAIN E(loop) = 0..N
        OBVIOUS
      <3>2. E(loop) = [n \in 0..N |-> E(loop)[n]]
        OBVIOUS
      <3> HIDE DEF E
      <3> QED BY <1>8, <3>2
    <2> HIDE DEF A, N
    <2> QED BY <1>11, <2>1
  <1> QED BY <1>9, <1>10, <1>12 DEF IsLoop
-----------------------------------------------------------------------------
(* How the parts lie in the whole: `at` says where each one begins.        *)

Laid(s, parts, sep, last, at) ==
    /\ at \in [1..Len(parts) + 1 -> 0..Len(s)] /\ at[1] = 0
    /\ \A k \in DOMAIN parts :
          /\ at[k + 1] = at[k] + Len(parts[k]) + Len(sep)
          /\ SubSeq(s, at[k] + 1, at[k + 1]) = parts[k] \o sep
    /\ SubSeq(s, at[Len(parts) + 1] + 1, Len(s)) = last

\* Every part goes up to the first sep after it.
Cleanly(parts, sep) == \A k \in DOMAIN parts : At(parts[k] \o sep, sep) = {Len(parts[k]) + 1}

LEMMA ReadsDef ==
    ASSUME NEW s, NEW parts, NEW sep, NEW last
    PROVE  Reads(s, parts, sep, last) <=>
              (\E at : Laid(s, parts, sep, last, at)) /\ Cleanly(parts, sep) /\ At(last, sep) = {}
  BY Zenon DEF Reads, Laid, Cleanly

\* More of the text is more of the last part.
LEMMA LaidLonger ==
    ASSUME NEW C, NEW s \in Seq(C), NEW parts \in Seq(Seq(C)), NEW sep \in Seq(C),
           NEW last \in Seq(C), NEW c \in Seq(C), NEW at, Laid(s, parts, sep, last, at)
    PROVE  Laid(s \o c, parts, sep, last \o c, at)
  <1> DEFINE N == Len(parts)
             t == s \o c
  <1>1. Len(s) \in Nat /\ Len(c) \in Nat /\ N \in Nat /\ DOMAIN parts = 1..N
    BY LenProperties
  <1>2. t \in Seq(C) /\ Len(t) = Len(s) + Len(c)
        /\ \A i \in 1..Len(s) + Len(c) : t[i] = IF i <= Len(s) THEN s[i] ELSE c[i - Len(s)]
    BY ConcatProperties
  <1>3. at \in [1..N + 1 -> 0..Len(s)] /\ at[1] = 0
    BY DEF Laid
  <1>4. at \in [1..N + 1 -> 0..Len(t)]
    BY <1>1, <1>2, <1>3
  <1> HIDE DEF t
  <1>5. ASSUME NEW m \in Int, NEW n \in Int, m >= 1, n <= Len(s), m <= n + 1
        PROVE  SubSeq(t, m, n) = SubSeq(s, m, n)
    <2>1. /\ SubSeq(s, m, n) \in Seq(C)
          /\ Len(SubSeq(s, m, n)) = n - m + 1
          /\ \A i \in 1..n - m + 1 : SubSeq(s, m, n)[i] = s[m + i - 1]
      BY <1>5, SubText
    <2>2. n <= Len(t)
      BY <1>1, <1>2, <1>5
    <2>3. /\ SubSeq(t, m, n) \in Seq(C)
          /\ Len(SubSeq(t, m, n)) = n - m + 1
          /\ \A i \in 1..n - m + 1 : SubSeq(t, m, n)[i] = t[m + i - 1]
      BY <1>2, <1>5, <2>2, SubText
    <2>4. ASSUME NEW i \in 1..n - m + 1 PROVE SubSeq(t, m, n)[i] = SubSeq(s, m, n)[i]
      <3>1. m + i - 1 \in 1..Len(s) + Len(c) /\ m + i - 1 <= Len(s)
        BY <1>1, <1>5
      <3> QED BY <1>2, <2>1, <2>3, <3>1
    <2> QED BY <2>1, <2>3, <2>4, SeqEqual
  <1>6. ASSUME NEW k \in 1..N
        PROVE  /\ at[k + 1] = at[k] + Len(parts[k]) + Len(sep)
               /\ SubSeq(t, at[k] + 1, at[k + 1]) = parts[k] \o sep
    <2>1. at[k + 1] = at[k] + Len(parts[k]) + Len(sep) /\ SubSeq(s, at[k] + 1, at[k + 1]) = parts[k] \o sep
      BY <1>1 DEF Laid
    <2>2. at[k] \in 0..Len(s) /\ at[k + 1] \in 0..Len(s) /\ Len(parts[k]) \in Nat /\ Len(sep) \in Nat
      <3>1. parts[k] \in Seq(C)
        BY ElementOfSeq
      <3>2. k \in 1..N + 1 /\ k + 1 \in 1..N + 1
        BY <1>1
      <3>3. Len(parts[k]) \in Nat /\ Len(sep) \in Nat
        BY <3>1, LenProperties
      <3> QED BY <1>3, <3>2, <3>3
    <2>3. SubSeq(t, at[k] + 1, at[k + 1]) = SubSeq(s, at[k] + 1, at[k + 1])
      <3>1. /\ at[k] + 1 \in Int /\ at[k + 1] \in Int /\ at[k] + 1 >= 1
            /\ at[k + 1] <= Len(s) /\ at[k] + 1 <= at[k + 1] + 1
        <4> DEFINE x == at[k]
                   y == at[k + 1]
                   l == Len(parts[k])
        <4>1. x \in 0..Len(s) /\ y \in 0..Len(s) /\ l \in Nat /\ Len(sep) \in Nat /\ y = x + l + Len(sep)
          BY <2>1, <2>2
        <4> HIDE DEF x, y, l
        <4>2. x + 1 \in Int /\ y \in Int /\ x + 1 >= 1 /\ y <= Len(s) /\ x + 1 <= y + 1
          BY <1>1, <4>1
        <4> QED BY <4>2 DEF x, y
      <3> QED BY <1>5, <3>1
    <2> QED BY <2>1, <2>3
  <1>7. SubSeq(t, at[N + 1] + 1, Len(t)) = last \o c
    <2> DEFINE m == at[N + 1]
               u == SubSeq(t, m + 1, Len(t))
    <2>1. m \in 0..Len(s) /\ SubSeq(s, m + 1, Len(s)) = last
      <3>1. N + 1 \in 1..N + 1
        BY <1>1
      <3>2. m \in 0..Len(s)
        BY <1>3, <3>1
      <3> QED BY <3>2 DEF Laid
    <2>2. Len(last) = Len(s) - m /\ \A i \in 1..Len(s) - m : last[i] = s[m + i]
      <3> HIDE DEF m
      <3>1. m + 1 \in Int /\ m + 1 >= 1 /\ m + 1 <= Len(s) + 1 /\ Len(s) \in Int
        BY <1>1, <2>1
      <3>2. /\ Len(SubSeq(s, m + 1, Len(s))) = Len(s) - (m + 1) + 1
            /\ \A i \in 1..Len(s) - (m + 1) + 1 : SubSeq(s, m + 1, Len(s))[i] = s[m + 1 + i - 1]
        BY <3>1, SubText
      <3>3. Len(last) = Len(s) - (m + 1) + 1 /\ \A i \in 1..Len(s) - (m + 1) + 1 : last[i] = s[m + 1 + i - 1]
        BY <2>1, <3>2
      <3> QED BY <1>1, <2>1, <3>3
    <2>3. u \in Seq(C) /\ Len(u) = Len(t) - m /\ \A i \in 1..Len(t) - m : u[i] = t[m + i]
      <3> HIDE DEF m
      <3>1. m + 1 \in Int /\ m + 1 >= 1 /\ m + 1 <= Len(t) + 1 /\ Len(t) \in Int
        BY <1>1, <1>2, <2>1
      <3>2. /\ u \in Seq(C) /\ Len(u) = Len(t) - (m + 1) + 1
            /\ \A i \in 1..Len(t) - (m + 1) + 1 : u[i] = t[m + 1 + i - 1]
        <4>1. t \in Seq(C) /\ Len(t) <= Len(t)
          BY <1>2, <3>1
        <4> QED BY <3>1, <4>1, SubText, ZenonT(30)
      <3> HIDE DEF u
      <3> QED BY <1>1, <1>2, <2>1, <3>2
    <2>4. /\ last \o c \in Seq(C) /\ Len(last \o c) = Len(last) + Len(c)
          /\ \A i \in 1..Len(last) + Len(c) : (last \o c)[i] = IF i <= Len(last) THEN last[i] ELSE c[i - Len(last)]
      BY ConcatProperties
    <2> HIDE DEF m, u
    <2>5. Len(u) = Len(last \o c)
      BY <1>1, <1>2, <2>1, <2>2, <2>3, <2>4
    <2>6. ASSUME NEW i \in 1..Len(u) PROVE u[i] = (last \o c)[i]
      <3>1. u[i] = t[m + i] /\ m + i \in 1..Len(s) + Len(c)
        BY <1>1, <1>2, <2>1, <2>3
      <3>2. CASE m + i <= Len(s)
        BY <1>1, <1>2, <2>1, <2>2, <2>3, <2>4, <3>1, <3>2, SMTT(30)
      <3>3. CASE m + i > Len(s)
        <4>1. u[i] = c[(m + i) - Len(s)]
          <5>1. ~(m + i <= Len(s))
            BY <1>1, <2>1, <3>1, <3>3
          <5>2. \A j \in 1..Len(s) + Len(c) : ~(j <= Len(s)) => t[j] = c[j - Len(s)]
            BY <1>2
          <5> QED BY <3>1, <5>1, <5>2
        <4>2. (last \o c)[i] = c[i - Len(last)] /\ i - Len(last) = (m + i) - Len(s)
          BY <1>1, <1>2, <2>1, <2>2, <2>3, <2>4, <2>5, <3>1, <3>3, SMTT(30)
        <4> QED BY <4>1, <4>2
      <3>4. m + i <= Len(s) \/ m + i > Len(s)
        BY <1>1, <2>1, <3>1
      <3> QED BY <3>2, <3>3, <3>4
    <2>7. u = last \o c
      BY <2>3, <2>4, <2>5, <2>6, SeqEqual
    <2> QED BY <2>7 DEF u, m
  <1> QED BY <1>1, <1>3, <1>4, <1>6, <1>7 DEF Laid, t

\* What slice(m, n) of the code is: the characters after the m-th up to the n-th.
LEMMA Slice ==
    ASSUME NEW C, NEW s \in Seq(C), NEW m \in Nat, NEW n \in Nat, m <= n, n <= Len(s)
    PROVE  /\ SubSeq(s, m + 1, n) \in Seq(C) /\ Len(SubSeq(s, m + 1, n)) = n - m
           /\ \A i \in 1..n - m : SubSeq(s, m + 1, n)[i] = s[m + i]
  <1> DEFINE u == SubSeq(s, m + 1, n)
  <1>1. m + 1 \in Int /\ m + 1 >= 1 /\ m + 1 <= n + 1 /\ n - (m + 1) + 1 = n - m
    OBVIOUS
  <1>2. /\ u \in Seq(C) /\ Len(u) = n - (m + 1) + 1
        /\ \A i \in 1..n - (m + 1) + 1 : u[i] = s[m + 1 + i - 1]
    BY <1>1, SubText
  <1> HIDE DEF u
  <1>3. u \in Seq(C) /\ Len(u) = n - m /\ \A i \in 1..n - m : u[i] = s[m + i]
    BY <1>1, <1>2
  <1> QED BY <1>3 DEF u

\* Two slices with the same characters are the same.
LEMMA SliceIs ==
    ASSUME NEW C, NEW s \in Seq(C), NEW m \in Nat, NEW n \in Nat, m <= n, n <= Len(s),
           NEW v \in Seq(C), Len(v) = n - m, \A i \in 1..Len(v) : v[i] = s[m + i]
    PROVE  SubSeq(s, m + 1, n) = v
  <1> DEFINE u == SubSeq(s, m + 1, n)
  <1>1. u \in Seq(C) /\ Len(u) = n - m /\ \A i \in 1..n - m : u[i] = s[m + i]
    BY Slice
  <1> HIDE DEF u
  <1>2. u = v
    BY <1>1, SeqEqual
  <1> QED BY <1>2 DEF u

\* Two texts one after the other, character by character.
LEMMA Both ==
    ASSUME NEW C, NEW u \in Seq(C), NEW v \in Seq(C)
    PROVE  /\ u \o v \in Seq(C) /\ Len(u \o v) = Len(u) + Len(v) /\ Len(u) \in Nat /\ Len(v) \in Nat
           /\ \A i \in 1..Len(u) : (u \o v)[i] = u[i]
           /\ \A i \in 1..Len(v) : (u \o v)[Len(u) + i] = v[i]
  <1> DEFINE w == u \o v
  <1>1. Len(u) \in Nat /\ Len(v) \in Nat
    BY LenProperties
  <1>2. /\ w \in Seq(C) /\ Len(w) = Len(u) + Len(v)
        /\ \A i \in 1..Len(u) + Len(v) : w[i] = IF i <= Len(u) THEN u[i] ELSE v[i - Len(u)]
    BY ConcatProperties
  <1> HIDE DEF w
  <1>3. \A i \in 1..Len(u) : w[i] = u[i]
    BY <1>1, <1>2
  <1>4. ASSUME NEW i \in 1..Len(v) PROVE w[Len(u) + i] = v[i]
    <2>1. Len(u) + i \in 1..Len(u) + Len(v) /\ ~(Len(u) + i <= Len(u)) /\ (Len(u) + i) - Len(u) = i
      BY <1>1
    <2>2. w[Len(u) + i] = v[(Len(u) + i) - Len(u)]
      BY <1>2, <2>1
    <2> QED BY <2>1, <2>2
  <1> QED BY <1>1, <1>2, <1>3, <1>4 DEF w

\* A part cut off the last one.
LEMMA LaidMore ==
    ASSUME NEW C, NEW s \in Seq(C), NEW parts \in Seq(Seq(C)), NEW sep \in Seq(C),
           NEW p \in Seq(C), NEW r \in Seq(C), NEW at, Laid(s, parts, sep, (p \o sep) \o r, at)
    PROVE  \E new : Laid(s, Append(parts, p), sep, r, new)
  <1> DEFINE N == Len(parts)
             m == at[N + 1]
             q == p \o sep
             n == m + Len(q)
             new == [k \in 1..N + 2 |-> IF k <= N + 1 THEN at[k] ELSE n]
             more == Append(parts, p)
  <1>1. Len(s) \in Nat /\ N \in Nat /\ DOMAIN parts = 1..N
    BY LenProperties
  <1>2. at \in [1..N + 1 -> 0..Len(s)] /\ at[1] = 0 /\ SubSeq(s, m + 1, Len(s)) = q \o r
    BY DEF Laid
  <1>3. m \in 0..Len(s)
    <2>1. N + 1 \in 1..N + 1
      BY <1>1
    <2> QED BY <1>2, <2>1
  <1>4. q \in Seq(C) /\ Len(q) = Len(p) + Len(sep) /\ Len(q) \in Nat /\ Len(p) \in Nat /\ Len(sep) \in Nat
    <2>1. q \in Seq(C) /\ Len(q) = Len(p) + Len(sep) /\ Len(p) \in Nat /\ Len(sep) \in Nat
      BY Both
    <2> QED BY <2>1
  <1> HIDE DEF m, q
  <1>5. /\ q \o r \in Seq(C) /\ Len(q \o r) = Len(q) + Len(r) /\ Len(r) \in Nat
        /\ \A i \in 1..Len(q) : (q \o r)[i] = q[i]
        /\ \A i \in 1..Len(r) : (q \o r)[Len(q) + i] = r[i]
    <2>1. q \in Seq(C)
      BY <1>4
    <2> QED BY <2>1, Both
  <1>6. Len(q \o r) = Len(s) - m /\ \A i \in 1..Len(s) - m : (q \o r)[i] = s[m + i]
    <2>1. m \in Nat /\ m <= Len(s) /\ Len(s) \in Nat /\ Len(s) <= Len(s)
      BY <1>1, <1>3
    <2>2. /\ Len(SubSeq(s, m + 1, Len(s))) = Len(s) - m
          /\ \A i \in 1..Len(s) - m : SubSeq(s, m + 1, Len(s))[i] = s[m + i]
      BY <2>1, Slice
    <2> QED BY <1>2, <2>2
  <1>7. n \in Nat /\ m \in Nat /\ m <= n /\ n <= Len(s) /\ n - m = Len(q) /\ Len(s) - n = Len(r)
    BY <1>1, <1>3, <1>4, <1>5, <1>6
  <1>8. SubSeq(s, m + 1, n) = q
    <2>1. ASSUME NEW i \in 1..Len(q) PROVE q[i] = s[m + i]
      <3>1. i \in 1..Len(s) - m
        BY <1>1, <1>3, <1>4, <1>5, <1>6
      <3> QED BY <1>5, <1>6, <3>1
    <2>2. q \in Seq(C) /\ Len(q) = n - m /\ m \in Nat /\ n \in Nat /\ m <= n /\ n <= Len(s)
      BY <1>4, <1>7
    <2> HIDE DEF n
    <2> QED BY <2>1, <2>2, SliceIs
  <1>9. SubSeq(s, n + 1, Len(s)) = r
    <2>1. ASSUME NEW i \in 1..Len(r) PROVE r[i] = s[n + i]
      <3>1. Len(q) + i \in 1..Len(s) - m /\ m + (Len(q) + i) = n + i
        BY <1>1, <1>3, <1>4, <1>5, <1>6
      <3> QED BY <1>5, <1>6, <3>1
    <2>2. Len(s) \in Nat /\ Len(s) <= Len(s)
      BY <1>1
    <2> HIDE DEF n
    <2> QED BY <1>7, <2>1, <2>2, SliceIs, ZenonT(30)
  <1>10. /\ more \in Seq(Seq(C)) /\ Len(more) = N + 1 /\ DOMAIN more = 1..N + 1
         /\ \A i \in 1..N : more[i] = parts[i]
         /\ more[N + 1] = p
    <2>1. /\ more \in Seq(Seq(C)) /\ Len(more) = N + 1
          /\ \A i \in 1..N : more[i] = parts[i]
          /\ more[N + 1] = p
      BY AppendProperties
    <2>2. DOMAIN more = 1..Len(more)
      BY <2>1, LenProperties
    <2> QED BY <2>1, <2>2
  <1> HIDE DEF more
  <1>11. /\ new \in [1..N + 2 -> 0..Len(s)]
         /\ \A k \in 1..N + 1 : new[k] = at[k]
         /\ new[N + 2] = n
    <2> HIDE DEF n
    <2> QED BY <1>1, <1>2, <1>7
  <1> HIDE DEF new, n
  <1>12. new \in [1..Len(more) + 1 -> 0..Len(s)] /\ new[1] = 0
    <2>1. N + 2 = Len(more) + 1 /\ 1 \in 1..N + 1
      BY <1>1, <1>10
    <2> QED BY <1>2, <1>11, <2>1
  <1>13. ASSUME NEW k \in 1..N + 1
         PROVE  /\ new[k + 1] = new[k] + Len(more[k]) + Len(sep)
                /\ SubSeq(s, new[k] + 1, new[k + 1]) = more[k] \o sep
    <2>1. CASE k \in 1..N
      <3>1. k \in 1..N + 1 /\ k + 1 \in 1..N + 1
        BY <1>1, <2>1
      <3>2. at[k + 1] = at[k] + Len(parts[k]) + Len(sep) /\ SubSeq(s, at[k] + 1, at[k + 1]) = parts[k] \o sep
        BY <1>1, <2>1 DEF Laid
      <3>3. more[k] = parts[k] /\ new[k] = at[k] /\ new[k + 1] = at[k + 1]
        BY <1>10, <1>11, <2>1, <3>1
      <3> QED BY <3>2, <3>3
    <2>2. CASE k = N + 1
      <3>1. new[k] = m /\ new[k + 1] = n /\ more[k] = p
        <4>1. k + 1 = N + 2
          BY <1>1, <2>2
        <4> QED BY <1>10, <1>11, <2>2, <4>1 DEF m
      <3>2. n = m + Len(p) + Len(sep)
        BY <1>4, <1>7
      <3> QED BY <1>8, <3>1, <3>2 DEF q
    <2>3. k \in 1..N \/ k = N + 1
      BY <1>1
    <2> QED BY <2>1, <2>2, <2>3
  <1>14. SubSeq(s, new[Len(more) + 1] + 1, Len(s)) = r
    <2>1. Len(more) + 1 = N + 2
      BY <1>1, <1>10
    <2> QED BY <1>9, <1>11, <2>1
  <1>15. Laid(s, more, sep, r, new)
    BY <1>10, <1>12, <1>13, <1>14 DEF Laid
  <1> QED BY <1>15 DEF more

LEMMA AppendAfter ==
    ASSUME NEW S, NEW s \in Seq(S), NEW t \in Seq(S), NEW e \in S
    PROVE  s \o Append(t, e) = Append(s \o t, e)
  <1>1. <<e>> \in Seq(S)
    OBVIOUS
  <1>2. s \o t \in Seq(S)
    BY ConcatProperties
  <1>3. Append(t, e) = t \o <<e>> /\ Append(s \o t, e) = (s \o t) \o <<e>>
    BY <1>2, AppendIsConcat
  <1>4. (s \o t) \o <<e>> = s \o (t \o <<e>>)
    BY <1>1, ConcatAssociative
  <1> QED BY <1>3, <1>4

\* The whole loop: the parts already handed on and the parts it finds.
LEMMA CutAllReads ==
    ASSUME NEW C, NEW sep \in Seq(C), Len(sep) > 0, NEW s \in Seq(C),
           NEW parts \in Seq(Seq(C)), NEW b \in Seq(C), NEW at,
           Laid(s, parts, sep, b, at), Cleanly(parts, sep)
    PROVE  /\ cutAll(b, sep) \in Pieces(C)
           /\ parts \o cutAll(b, sep).parts \in Seq(Seq(C))
           /\ Reads(s, parts \o cutAll(b, sep).parts, sep, cutAll(b, sep).rest)
  <1> DEFINE N == Len(b)
  <1>1. PICK loop \in [0..N -> Pieces(C)] :
            /\ cutAll(b, sep) = loop[N]
            /\ loop[0] = [parts |-> <<>>, rest |-> b]
            /\ \A n \in 1..N : loop[n] = cutOne(loop[n - 1], sep)
    <2>1. \E loop \in [0..N -> Pieces(C)] : IsLoop(loop, b, sep)
      BY CutAllRounds
    <2> QED BY <2>1 DEF IsLoop
  <1>2. N \in Nat /\ Len(sep) \in Nat
    BY LenProperties
  <1> DEFINE all(n) == parts \o loop[n].parts
             Good(n) == /\ \E new : Laid(s, all(n), sep, loop[n].rest, new)
                        /\ Cleanly(all(n), sep)
                        /\ At(loop[n].rest, sep) = {} \/ Len(loop[n].rest) + n <= N
             S == {n \in 0..N : Good(n)}
  <1>3. ASSUME NEW n \in 0..N
        PROVE  /\ loop[n] \in Pieces(C) /\ loop[n].parts \in Seq(Seq(C)) /\ loop[n].rest \in Seq(C)
               /\ all(n) \in Seq(Seq(C)) /\ Len(loop[n].rest) \in Nat
    <2>1. loop[n] \in Pieces(C)
      BY <1>1
    <2>2. loop[n].parts \in Seq(Seq(C)) /\ loop[n].rest \in Seq(C)
      BY <2>1 DEF Pieces
    <2>3. all(n) \in Seq(Seq(C))
      BY <2>2, ConcatProperties
    <2>4. Len(loop[n].rest) \in Nat
      BY <2>2, LenProperties
    <2> QED BY <2>1, <2>2, <2>3, <2>4
  <1>4. Good(0)
    <2>1. loop[0].parts = <<>> /\ loop[0].rest = b
      BY <1>1
    <2>2. all(0) = parts
      BY <2>1, ConcatEmptySeq
    <2> QED BY <1>2, <2>1, <2>2
  <1>5. ASSUME NEW n \in 0..N - 1, Good(n) PROVE Good(n + 1)
    <2>1. n \in 0..N /\ n + 1 \in 1..N /\ (n + 1) - 1 = n /\ n + 1 \in 0..N
      BY <1>2
    <2>2. loop[n + 1] = cutOne(loop[n], sep)
      BY <1>1, <2>1
    <2>3. CASE At(loop[n].rest, sep) = {}
      <3>1. loop[n + 1] = loop[n]
        BY <2>2, <2>3 DEF cutOne
      <3> QED BY <1>5, <2>3, <3>1
    <2>4. CASE At(loop[n].rest, sep) # {}
      <3> DEFINE a == loop[n]
      <3>1. \E p \in Seq(C), r \in Seq(C) :
                /\ cutOne(a, sep) = [parts |-> Append(a.parts, p), rest |-> r]
                /\ a.rest = (p \o sep) \o r
                /\ At(p \o sep, sep) = {Len(p) + 1}
        <4>1. a \in Pieces(C) /\ At(a.rest, sep) # {}
          BY <1>3, <2>1, <2>4
        <4> HIDE DEF a
        <4> QED BY <4>1, CutOne, Zenon
      <3>2. PICK p \in Seq(C), r \in Seq(C) :
                /\ cutOne(a, sep) = [parts |-> Append(a.parts, p), rest |-> r]
                /\ a.rest = (p \o sep) \o r
                /\ At(p \o sep, sep) = {Len(p) + 1}
        BY <3>1, Zenon
      <3>3. loop[n + 1].parts = Append(a.parts, p) /\ loop[n + 1].rest = r
        BY <2>2, <3>2
      <3>4. all(n + 1) = Append(all(n), p)
        <4>1. a.parts \in Seq(Seq(C)) /\ all(n) \in Seq(Seq(C))
          BY <1>3, <2>1
        <4> DEFINE x == a.parts
        <4>2. x \in Seq(Seq(C))
          BY <4>1
        <4>3. parts \o Append(x, p) = Append(parts \o x, p)
          <5>1. p \in Seq(C)
            BY <3>2
          <5> DEFINE T == Seq(C)
          <5>2. x \in Seq(T) /\ p \in T /\ parts \in Seq(T)
            BY <4>2, <5>1
          <5> HIDE DEF x, T, all, S, Good, N, a
          <5> QED BY <5>2, AppendAfter
        <4> QED BY <3>3, <4>3
      <3>5. \E new : Laid(s, all(n + 1), sep, r, new)
        <4>1. PICK old : Laid(s, all(n), sep, (p \o sep) \o r, old)
          BY <1>5, <3>2
        <4>2. all(n) \in Seq(Seq(C))
          BY <1>3, <2>1
        <4>3. \E new : Laid(s, Append(all(n), p), sep, r, new)
          <5> HIDE DEF all
          <5> QED BY <4>1, <4>2, LaidMore
        <4> QED BY <3>4, <4>3
      <3>6. Cleanly(all(n + 1), sep)
        <4> DEFINE A == all(n)
                   B == all(n + 1)
        <4>1. A \in Seq(Seq(C)) /\ B = Append(A, p) /\ Cleanly(A, sep)
          BY <1>3, <1>5, <2>1, <3>4
        <4> HIDE DEF A, B
        <4>2. /\ B \in Seq(Seq(C)) /\ Len(B) = Len(A) + 1 /\ Len(A) \in Nat
              /\ \A i \in 1..Len(A) : B[i] = A[i]
              /\ B[Len(A) + 1] = p
          BY <4>1, AppendProperties, LenProperties
        <4>3. DOMAIN A = 1..Len(A) /\ DOMAIN B = 1..Len(A) + 1
          BY <4>1, <4>2, LenProperties
        <4>4. ASSUME NEW k \in DOMAIN B PROVE At(B[k] \o sep, sep) = {Len(B[k]) + 1}
          <5>1. CASE k \in DOMAIN A
            BY <4>1, <4>2, <4>3, <5>1 DEF Cleanly
          <5>2. CASE k = Len(A) + 1
            BY <3>2, <4>2, <5>2
          <5>3. k \in DOMAIN A \/ k = Len(A) + 1
            BY <4>2, <4>3
          <5> QED BY <5>1, <5>2, <5>3
        <4>5. Cleanly(B, sep)
          BY <4>4 DEF Cleanly
        <4> QED BY <4>5 DEF B
      <3>7. Len(r) + (n + 1) <= N
        <4>1. Len(a.rest) + n <= N
          BY <1>5, <2>4
        <4>2. (p \o sep) \in Seq(C) /\ Len(p \o sep) = Len(p) + Len(sep) /\ Len(p) \in Nat
          BY Both
        <4>3. Len(a.rest) = Len(p \o sep) + Len(r) /\ Len(r) \in Nat
          BY <3>2, <4>2, Both
        <4> QED BY <1>2, <2>1, <4>1, <4>2, <4>3
      <3> QED BY <3>3, <3>5, <3>6, <3>7
    <2> QED BY <2>3, <2>4
  <1>6. Good(N)
    <2>1. 0 \in S
      BY <1>2, <1>4
    <2>2. \A n \in 0..N - 1 : n \in S => n + 1 \in S
      <3>1. ASSUME NEW n \in 0..N - 1, n \in S PROVE n + 1 \in S
        <4>1. n + 1 \in 0..N
          BY <1>2
        <4>2. Good(n + 1)
          BY <1>5, <3>1
        <4> HIDE DEF Good
        <4> QED BY <4>1, <4>2
      <3> QED BY <3>1
    <2>3. 0..N \subseteq S
      <3> HIDE DEF S
      <3> QED BY <1>2, <2>1, <2>2, UpTo
    <2>4. N \in S
      <3> HIDE DEF S
      <3>1. N \in 0..N
        BY <1>2
      <3> QED BY <2>3, <3>1
    <2> QED BY <2>4
  <1>7. N \in 0..N
    BY <1>2
  <1>8. At(loop[N].rest, sep) = {}
    <2>1. SUFFICES ASSUME Len(loop[N].rest) + N <= N PROVE At(loop[N].rest, sep) = {}
      BY <1>6
    <2>2. loop[N].rest \in Seq(C) /\ Len(loop[N].rest) = 0
      BY <1>2, <1>3, <1>7, <2>1
    <2>3. At(loop[N].rest, sep) \subseteq 1..Len(loop[N].rest)
      BY <2>2, AtDef
    <2> QED BY <2>2, <2>3
  <1>9. Reads(s, all(N), sep, loop[N].rest)
    <2> HIDE DEF all
    <2> QED BY <1>6, <1>8, ReadsDef
  <1> QED BY <1>1, <1>3, <1>7, <1>9

-----------------------------------------------------------------------------
(* There is one way to read a text.                                        *)

\* The first sep after the o-th character begins at e.
FirstAfter(s, sep, o, e) == e \in At(s, sep) /\ e > o /\ \A j \in At(s, sep) : j > o => e <= j

LEMMA PartEnds ==
    ASSUME NEW C, NEW s \in Seq(C), NEW sep \in Seq(C), Len(sep) > 0, NEW p \in Seq(C),
           NEW o \in Nat, NEW n \in Nat, n = o + Len(p) + Len(sep), n <= Len(s),
           SubSeq(s, o + 1, n) = p \o sep, At(p \o sep, sep) = {Len(p) + 1}
    PROVE  FirstAfter(s, sep, o, o + Len(p) + 1)
  <1> DEFINE q == p \o sep
             e == o + Len(p) + 1
  <1>1. Len(s) \in Nat /\ Len(sep) \in Nat /\ Len(p) \in Nat
    BY LenProperties
  <1>2. /\ q \in Seq(C) /\ Len(q) = Len(p) + Len(sep)
        /\ \A i \in 1..Len(sep) : q[Len(p) + i] = sep[i]
    BY Both
  <1>3. \A i \in 1..n - o : q[i] = s[o + i]
    <2>1. o <= n
      BY <1>1
    <2>2. \A i \in 1..n - o : SubSeq(s, o + 1, n)[i] = s[o + i]
      BY <2>1, Slice
    <2> QED BY <2>2
  <1>4. n - o = Len(q)
    BY <1>1, <1>2
  <1>5. At(q, sep) = {Len(p) + 1}
    OBVIOUS
  <1> HIDE DEF q
  <1>6. e \in At(s, sep)
    <2>1. ASSUME NEW j \in 1..Len(sep) PROVE s[e + j - 1] = sep[j]
      <3>1. Len(p) + j \in 1..n - o /\ o + (Len(p) + j) = e + j - 1
        BY <1>1
      <3>2. q[Len(p) + j] = s[o + (Len(p) + j)]
        BY <1>3, <3>1
      <3> QED BY <1>2, <3>1, <3>2
    <2>2. e \in Int /\ e >= 1 /\ e + Len(sep) - 1 <= Len(s)
      BY <1>1
    <2> HIDE DEF e
    <2> QED BY <2>1, <2>2, AtDef
  <1>7. ASSUME NEW j \in At(s, sep), j > o, ~(e <= j) PROVE FALSE
    <2>1. At(s, sep) \subseteq 1..Len(s)
      BY AtDef
    <2>2. j \in Int
      BY <2>1
    <2>3. \A i \in 1..Len(sep) : s[j + i - 1] = sep[i]
      BY <1>7, <2>2, AtDef
    <2> DEFINE x == j - o
    <2>4. x \in Int /\ x >= 1 /\ x + Len(sep) - 1 <= Len(q) /\ x <= Len(p)
      BY <1>1, <1>2, <1>7, <2>2
    <2>5. ASSUME NEW i \in 1..Len(sep) PROVE q[x + i - 1] = sep[i]
      <3>1. x + i - 1 \in 1..n - o /\ o + (x + i - 1) = j + i - 1
        BY <1>1, <1>4, <2>2, <2>4
      <3>2. q[x + i - 1] = s[o + (x + i - 1)]
        <4> HIDE DEF x
        <4> QED BY <1>3, <3>1
      <3> QED BY <2>3, <3>1, <3>2
    <2> HIDE DEF x
    <2>6. q \in Seq(C)
      BY <1>2
    <2>7. x \in At(q, sep)
      BY <2>4, <2>5, <2>6, AtDef
    <2> QED BY <1>1, <1>5, <2>4, <2>7
  <1>8. e > o
    BY <1>1
  <1> QED BY <1>6, <1>7, <1>8 DEF FirstAfter

LEMMA LastEnds ==
    ASSUME NEW C, NEW s \in Seq(C), NEW sep \in Seq(C), Len(sep) > 0,
           NEW o \in Nat, o <= Len(s), At(SubSeq(s, o + 1, Len(s)), sep) = {}
    PROVE  \A j \in At(s, sep) : ~(j > o)
  <1> DEFINE q == SubSeq(s, o + 1, Len(s))
  <1>1. Len(s) \in Nat /\ Len(sep) \in Nat
    BY LenProperties
  <1>2. q \in Seq(C) /\ Len(q) = Len(s) - o /\ \A i \in 1..Len(s) - o : q[i] = s[o + i]
    <2>1. Len(s) <= Len(s)
      BY <1>1
    <2> QED BY <1>1, <2>1, Slice
  <1>3. At(q, sep) = {}
    OBVIOUS
  <1> HIDE DEF q
  <1> SUFFICES ASSUME NEW j \in At(s, sep), j > o PROVE FALSE
    OBVIOUS
  <1>4. At(s, sep) \subseteq 1..Len(s)
    BY AtDef
  <1>5. j \in Int /\ j + Len(sep) - 1 <= Len(s) /\ \A i \in 1..Len(sep) : s[j + i - 1] = sep[i]
    BY <1>4, AtDef
  <1> DEFINE x == j - o
  <1>6. x \in Int /\ x >= 1 /\ x + Len(sep) - 1 <= Len(q)
    BY <1>1, <1>2, <1>5
  <1>7. ASSUME NEW i \in 1..Len(sep) PROVE q[x + i - 1] = sep[i]
    <2>1. x + i - 1 \in 1..Len(s) - o /\ o + (x + i - 1) = j + i - 1
      BY <1>1, <1>2, <1>5, <1>6
    <2>2. q[x + i - 1] = s[o + (x + i - 1)]
      <3> HIDE DEF x
      <3> QED BY <1>2, <2>1
    <2> QED BY <1>5, <2>1, <2>2
  <1> HIDE DEF x
  <1>8. q \in Seq(C)
    BY <1>2
  <1>9. x \in At(q, sep)
    BY <1>6, <1>7, <1>8, AtDef
  <1> QED BY <1>3, <1>9

\* Where the parts of a reading end.
EndsAt(s, p, sep, l, at) ==
    /\ at[1] = 0
    /\ \A k \in 1..Len(p) : /\ FirstAfter(s, sep, at[k], at[k] + Len(p[k]) + 1)
                            /\ at[k + 1] = at[k] + Len(p[k]) + Len(sep)
                            /\ SubSeq(s, at[k] + 1, at[k + 1]) = p[k] \o sep
    /\ \A k \in 1..Len(p) + 1 : at[k] \in Nat
    /\ \A j \in At(s, sep) : ~(j > at[Len(p) + 1])
    /\ SubSeq(s, at[Len(p) + 1] + 1, Len(s)) = l

LEMMA Ends ==
    ASSUME NEW C, NEW s \in Seq(C), NEW sep \in Seq(C), Len(sep) > 0,
           NEW p \in Seq(Seq(C)), NEW l, NEW at,
           Laid(s, p, sep, l, at), Cleanly(p, sep), At(l, sep) = {}
    PROVE  EndsAt(s, p, sep, l, at)
  <1>1. Len(s) \in Nat /\ Len(p) \in Nat /\ DOMAIN p = 1..Len(p)
    BY LenProperties
  <1>2. at \in [1..Len(p) + 1 -> 0..Len(s)] /\ at[1] = 0
    BY DEF Laid
  <1>3. \A k \in 1..Len(p) + 1 : at[k] \in 0..Len(s)
    BY <1>2
  <1>4. ASSUME NEW k \in 1..Len(p)
        PROVE  /\ FirstAfter(s, sep, at[k], at[k] + Len(p[k]) + 1)
               /\ at[k + 1] = at[k] + Len(p[k]) + Len(sep)
               /\ SubSeq(s, at[k] + 1, at[k + 1]) = p[k] \o sep
    <2>1. at[k + 1] = at[k] + Len(p[k]) + Len(sep) /\ SubSeq(s, at[k] + 1, at[k + 1]) = p[k] \o sep
      BY <1>1 DEF Laid
    <2>2. At(p[k] \o sep, sep) = {Len(p[k]) + 1}
      BY <1>1 DEF Cleanly
    <2>3. p[k] \in Seq(C)
      BY ElementOfSeq
    <2>4. k \in 1..Len(p) + 1 /\ k + 1 \in 1..Len(p) + 1
      BY <1>1
    <2>5. at[k] \in Nat /\ at[k + 1] \in Nat /\ at[k + 1] <= Len(s)
      BY <1>1, <1>3, <2>4
    <2> QED BY <2>1, <2>2, <2>3, <2>5, PartEnds
  <1>5. \A j \in At(s, sep) : ~(j > at[Len(p) + 1])
    <2>1. Len(p) + 1 \in 1..Len(p) + 1
      BY <1>1
    <2>2. at[Len(p) + 1] \in Nat /\ at[Len(p) + 1] <= Len(s)
      BY <1>1, <1>3, <2>1
    <2>3. At(SubSeq(s, at[Len(p) + 1] + 1, Len(s)), sep) = {}
      BY DEF Laid
    <2> QED BY <2>2, <2>3, LastEnds
  <1>6. \A k \in 1..Len(p) + 1 : at[k] \in Nat
    BY <1>1, <1>3
  <1>7. SubSeq(s, at[Len(p) + 1] + 1, Len(s)) = l
    BY DEF Laid
  <1> QED BY <1>2, <1>4, <1>5, <1>6, <1>7 DEF EndsAt

\* Two readings of a text are one.
LEMMA OneReading ==
    ASSUME NEW C, NEW s \in Seq(C), NEW sep \in Seq(C), Len(sep) > 0,
           NEW p \in Seq(Seq(C)), NEW l, NEW q \in Seq(Seq(C)), NEW m,
           Reads(s, p, sep, l), Reads(s, q, sep, m)
    PROVE  p = q /\ l = m
  <1>1. PICK at : Laid(s, p, sep, l, at)
    BY ReadsDef
  <1>2. PICK bt : Laid(s, q, sep, m, bt)
    BY ReadsDef
  <1>3. Cleanly(p, sep) /\ At(l, sep) = {} /\ Cleanly(q, sep) /\ At(m, sep) = {}
    BY ReadsDef
  <1> DEFINE N == Len(p)
             M == Len(q)
  <1>4. /\ at[1] = 0
        /\ \A k \in 1..N : /\ FirstAfter(s, sep, at[k], at[k] + Len(p[k]) + 1)
                           /\ at[k + 1] = at[k] + Len(p[k]) + Len(sep)
                           /\ SubSeq(s, at[k] + 1, at[k + 1]) = p[k] \o sep
        /\ \A k \in 1..N + 1 : at[k] \in Nat
        /\ \A j \in At(s, sep) : ~(j > at[N + 1])
        /\ SubSeq(s, at[N + 1] + 1, Len(s)) = l
    <2>1. EndsAt(s, p, sep, l, at)
      BY <1>1, <1>3, Ends
    <2> QED BY <2>1 DEF EndsAt
  <1>5. /\ bt[1] = 0
        /\ \A k \in 1..M : /\ FirstAfter(s, sep, bt[k], bt[k] + Len(q[k]) + 1)
                           /\ bt[k + 1] = bt[k] + Len(q[k]) + Len(sep)
                           /\ SubSeq(s, bt[k] + 1, bt[k + 1]) = q[k] \o sep
        /\ \A k \in 1..M + 1 : bt[k] \in Nat
        /\ \A j \in At(s, sep) : ~(j > bt[M + 1])
        /\ SubSeq(s, bt[M + 1] + 1, Len(s)) = m
    <2>1. EndsAt(s, q, sep, m, bt)
      BY <1>2, <1>3, Ends
    <2> QED BY <2>1 DEF EndsAt
  <1>6. N \in Nat /\ M \in Nat /\ Len(sep) \in Nat
    BY LenProperties
  <1>7. \A k \in 1..N : p[k] \in Seq(C) /\ Len(p[k]) \in Nat
    BY ElementOfSeq, LenProperties
  <1>8. \A k \in 1..M : q[k] \in Seq(C) /\ Len(q[k]) \in Nat
    BY ElementOfSeq, LenProperties
  <1>9. \A k \in 1..N : k \in 1..M /\ at[k] = bt[k] => Len(p[k]) = Len(q[k]) /\ at[k + 1] = bt[k + 1]
    <2> SUFFICES ASSUME NEW k \in 1..N, k \in 1..M, at[k] = bt[k]
                 PROVE  Len(p[k]) = Len(q[k]) /\ at[k + 1] = bt[k + 1]
      OBVIOUS
    <2>1. /\ FirstAfter(s, sep, at[k], at[k] + Len(p[k]) + 1)
          /\ FirstAfter(s, sep, at[k], at[k] + Len(q[k]) + 1)
      BY <1>4, <1>5
    <2>2. at[k] \in Nat
      BY <1>4, <1>6
    <2>3. /\ at[k] + Len(p[k]) + 1 <= at[k] + Len(q[k]) + 1
          /\ at[k] + Len(q[k]) + 1 <= at[k] + Len(p[k]) + 1
      BY <2>1 DEF FirstAfter
    <2>4. Len(p[k]) \in Nat /\ Len(q[k]) \in Nat
      BY <1>7, <1>8
    <2>5. Len(p[k]) = Len(q[k])
      BY <2>2, <2>3, <2>4, SMTT(30)
    <2>6. at[k + 1] = at[k] + Len(p[k]) + Len(sep) /\ bt[k + 1] = bt[k] + Len(q[k]) + Len(sep)
      BY <1>4, <1>5
    <2> QED BY <2>5, <2>6
  <1> DEFINE Same(n) == n <= M /\ at[n + 1] = bt[n + 1]
             S == {n \in 0..N : Same(n)}
  <1>10. 0..N \subseteq S
    <2>1. 0 \in S
      <3>1. at[0 + 1] = bt[0 + 1]
        BY <1>4, <1>5
      <3> QED BY <1>6, <3>1
    <2>2. ASSUME NEW n \in 0..N - 1, n \in S PROVE n + 1 \in S
      <3>1. n \in Nat /\ n <= M /\ at[n + 1] = bt[n + 1] /\ n + 1 \in 1..N
        BY <1>6, <2>2
      <3>2. n + 1 <= M
        <4>1. SUFFICES ASSUME n = M PROVE FALSE
          BY <1>6, <3>1
        <4>2. FirstAfter(s, sep, at[n + 1], at[n + 1] + Len(p[n + 1]) + 1)
          BY <1>4, <3>1
        <4>3. \A j \in At(s, sep) : ~(j > bt[n + 1])
          BY <1>5, <4>1
        <4> QED BY <3>1, <4>2, <4>3 DEF FirstAfter
      <3>3. n + 1 \in 1..M
        BY <1>6, <3>1, <3>2
      <3>4. at[(n + 1) + 1] = bt[(n + 1) + 1]
        BY <1>9, <3>1, <3>3
      <3>5. n + 1 \in 0..N
        BY <1>6
      <3> QED BY <3>2, <3>4, <3>5
    <2> HIDE DEF S
    <2> QED BY <1>6, <2>1, <2>2, UpTo
  <1>11. \A n \in 0..N : n <= M /\ at[n + 1] = bt[n + 1]
    BY <1>10
  <1>12. N <= M /\ at[N + 1] = bt[N + 1]
    <2>1. N \in 0..N
      BY <1>6
    <2> QED BY <1>11, <2>1
  <1>13. N = M
    <2>1. SUFFICES ASSUME N < M PROVE FALSE
      BY <1>6, <1>12
    <2>2. N + 1 \in 1..M
      BY <1>6, <2>1
    <2>3. FirstAfter(s, sep, bt[N + 1], bt[N + 1] + Len(q[N + 1]) + 1)
      BY <1>5, <2>2
    <2> QED BY <1>4, <1>12, <2>3 DEF FirstAfter
  <1>14. ASSUME NEW k \in 1..N PROVE p[k] = q[k]
    <2>1. k - 1 \in 0..N /\ k + 0 \in 0..N /\ (k - 1) + 1 = k /\ k \in 1..M
      BY <1>6, <1>13
    <2>2. at[k] = bt[k]
      BY <1>11, <2>1
    <2>3. at[k + 1] = bt[k + 1]
      BY <1>9, <2>1, <2>2
    <2>4. p[k] \o sep = q[k] \o sep
      <3>1. SubSeq(s, at[k] + 1, at[k + 1]) = p[k] \o sep /\ SubSeq(s, bt[k] + 1, bt[k + 1]) = q[k] \o sep
        BY <1>4, <1>5, <2>1
      <3> QED BY <2>2, <2>3, <3>1
    <2>5. p[k] \in Seq(C) /\ q[k] \in Seq(C)
      BY <1>7, <1>8, <2>1
    <2> QED BY <2>4, <2>5, ConcatSimplifications
  <1>15. p = q
    <2> DEFINE T == Seq(C)
    <2>1. p \in Seq(T) /\ q \in Seq(T) /\ Len(p) = Len(q) /\ \A k \in 1..Len(p) : p[k] = q[k]
      BY <1>13, <1>14
    <2> HIDE DEF T, N, M
    <2> QED BY <2>1, SeqEqual
  <1>16. l = m
    BY <1>4, <1>5, <1>12, <1>13
  <1> QED BY <1>15, <1>16

\* The loop on a text of its own.
LEMMA CutIsReading ==
    ASSUME NEW C, NEW s \in Seq(C), NEW sep \in Seq(C), Len(sep) > 0
    PROVE  /\ cutAll(s, sep).parts \in Seq(Seq(C)) /\ cutAll(s, sep).rest \in Seq(C)
           /\ Reads(s, cutAll(s, sep).parts, sep, cutAll(s, sep).rest)
  <1> DEFINE none0 == <<>>
             at == [k \in 1..1 |-> 0]
             T == Seq(C)
  <1>1. none0 \in Seq(T) /\ Len(none0) = 0 /\ DOMAIN none0 = 1..0
    <2>1. none0 \in Seq(T)
      BY EmptySeq, Zenon
    <2> QED BY <2>1
  <1>2. Laid(s, none0, sep, s, at)
    <2>1. SubSeq(s, 1, Len(s)) = s
      BY SubSeqFull
    <2>2. Len(s) \in Nat
      BY LenProperties
    <2>3. at \in [1..Len(none0) + 1 -> 0..Len(s)] /\ at[1] = 0 /\ Len(none0) + 1 = 1
      BY <1>1, <2>2
    <2> HIDE DEF none0, at
    <2>4. SubSeq(s, at[Len(none0) + 1] + 1, Len(s)) = s
      BY <2>1, <2>3
    <2> QED BY <1>1, <2>3, <2>4 DEF Laid
  <1>3. Cleanly(none0, sep)
    BY <1>1 DEF Cleanly
  <1> DEFINE c == cutAll(s, sep)
  <1>4. c \in Pieces(C) /\ Reads(s, none0 \o c.parts, sep, c.rest)
    <2> HIDE DEF none0, at, c
    <2>1. none0 \in Seq(Seq(C))
      BY <1>1
    <2> QED BY <1>2, <1>3, <2>1, CutAllReads DEF c
  <1>5. c.parts \in Seq(T) /\ c.rest \in Seq(C)
    BY <1>4 DEF Pieces
  <1>6. none0 \o c.parts = c.parts
    <2> HIDE DEF c, T
    <2> QED BY <1>5, ConcatEmptySeq
  <1> QED BY <1>4, <1>5, <1>6

\* Whatever reads a text at its newlines has split it.
LEMMA SplitIs ==
    ASSUME NEW C, nl \in C, NEW s \in Seq(C), NEW p \in Seq(Seq(C)), NEW l, Reads(s, p, <<nl>>, l)
    PROVE  Split(s) = Append(p, l)
  <1> DEFINE sep == <<nl>>
             c == cutAll(s, sep)
  <1>1. sep \in Seq(C) /\ Len(sep) > 0
    OBVIOUS
  <1>2. Split(s) = Append(c.parts, c.rest)
    BY DEF Split
  <1> HIDE DEF sep
  <1>3. c.parts \in Seq(Seq(C)) /\ Reads(s, c.parts, sep, c.rest)
    BY <1>1, CutIsReading
  <1>4. Reads(s, p, sep, l)
    BY DEF sep
  <1> HIDE DEF c
  <1>5. c.parts = p /\ c.rest = l
    BY <1>1, <1>3, <1>4, OneReading
  <1> QED BY <1>2, <1>5

\* A text without carriage returns has the same lines either way.
LEMMA SplitCrIs ==
    ASSUME NEW C, nl \in C, cr \notin C, NEW s \in Seq(C)
    PROVE  SplitCr(s) = Split(s)
  <1> DEFINE sep == <<nl>>
             c == cutAll(s, sep)
             T == Seq(C)
             ls == Split(s)
  <1>1. sep \in Seq(C) /\ Len(sep) > 0
    OBVIOUS
  <1>2. ls = Append(c.parts, c.rest)
    BY DEF Split
  <1> HIDE DEF sep
  <1>3. c.parts \in Seq(T) /\ c.rest \in T
    BY <1>1, CutIsReading
  <1> HIDE DEF c
  <1>4. ls \in Seq(T)
    <2> HIDE DEF ls, T
    <2> QED BY <1>2, <1>3, AppendProperties
  <1>5. ASSUME NEW i \in 1..Len(ls) PROVE DropCr(ls[i]) = ls[i]
    <2>1. ls[i] \in Seq(C)
      <3> HIDE DEF ls
      <3> QED BY <1>4, ElementOfSeq
    <2> DEFINE u == ls[i]
    <2> HIDE DEF u
    <2>2. u \in Seq(C)
      BY <2>1 DEF u
    <2>3. ~EndsWith(u, cr)
      <3>1. SUFFICES ASSUME u # <<>>, Last(u) = cr PROVE FALSE
        BY DEF EndsWith
      <3>2. Len(u) \in 1..Len(u)
        BY <2>2, <3>1, EmptySeq, LenProperties
      <3>3. u[Len(u)] \in C
        BY <2>2, <3>2, ElementOfSeq
      <3> QED BY <3>1, <3>3 DEF Last
    <2>4. DropCr(u) = u
      BY <2>3 DEF DropCr
    <2> QED BY <2>4 DEF u
  <1>6. DOMAIN ls = 1..Len(ls) /\ ls = [i \in DOMAIN ls |-> ls[i]]
    <2> HIDE DEF ls, T
    <2>1. ls \in [1..Len(ls) -> T] /\ DOMAIN ls = 1..Len(ls)
      BY <1>4, LenProperties
    <2> QED BY <2>1
  <1>7. SplitCr(s) = [i \in DOMAIN ls |-> IF i < Len(ls) THEN DropCr(ls[i]) ELSE ls[i]]
    BY DEF SplitCr
  <1> HIDE DEF ls
  <1>8. SplitCr(s) = [i \in DOMAIN ls |-> ls[i]]
    BY <1>5, <1>6, <1>7
  <1> QED BY <1>6, <1>8 DEF ls
-----------------------------------------------------------------------------
(* The readers.                                                            *)

Sym == Char \cup {nl}

\* What the page shows once the run is over, with the last line kept.
Shown(s) == IF Last(Split(s)) = <<>> THEN Front(Split(s)) ELSE Split(s)

ReadersInv ==
    /\ text \in Seq(Sym) /\ buf \in Seq(Sym) /\ rest \in Seq(Sym)
    /\ frames \in Seq(Seq(Sym)) /\ lines \in Seq(Seq(Sym))
    /\ done \in {"no", "kept", "lost"}
    /\ Reads(text, frames, <<nl, nl>>, buf)
    /\ done = "no" => Reads(text, lines, <<nl>>, rest)
    /\ done = "kept" => lines = Shown(text)

\* A chunk for a reader: whatever sep is, it goes on where it was.
LEMMA ReadOn ==
    ASSUME NEW C, NEW s \in Seq(C), NEW sep \in Seq(C), Len(sep) > 0, NEW c \in Seq(C),
           NEW parts \in Seq(Seq(C)), NEW last \in Seq(C), Reads(s, parts, sep, last)
    PROVE  LET f == cutAll(last \o c, sep)
           IN  /\ f.rest \in Seq(C) /\ parts \o f.parts \in Seq(Seq(C))
               /\ Reads(s \o c, parts \o f.parts, sep, f.rest)
  <1>1. PICK at : Laid(s, parts, sep, last, at)
    BY ReadsDef
  <1>2. Cleanly(parts, sep)
    BY ReadsDef
  <1>3. Laid(s \o c, parts, sep, last \o c, at)
    BY <1>1, LaidLonger
  <1> DEFINE t == s \o c
             b == last \o c
  <1>4. t \in Seq(C) /\ b \in Seq(C)
    BY ConcatProperties
  <1>5. Laid(t, parts, sep, b, at)
    BY <1>3
  <1> HIDE DEF t, b
  <1>6. /\ cutAll(b, sep) \in Pieces(C)
        /\ parts \o cutAll(b, sep).parts \in Seq(Seq(C))
        /\ Reads(t, parts \o cutAll(b, sep).parts, sep, cutAll(b, sep).rest)
    BY <1>2, <1>4, <1>5, CutAllReads
  <1>7. cutAll(b, sep).rest \in Seq(C)
    BY <1>6 DEF Pieces
  <1> QED BY <1>6, <1>7 DEF t, b

LEMMA ReadsNothing ==
    ASSUME NEW C, NEW sep \in Seq(C), Len(sep) > 0
    PROVE  Reads(<<>>, <<>>, sep, <<>>)
  <1> DEFINE e == <<>>
             at == [k \in 1..1 |-> 0]
  <1>1. e \in Seq(C) /\ Len(e) = 0 /\ DOMAIN e = 1..0
    <2>1. e \in Seq(C)
      BY EmptySeq, Zenon
    <2> QED BY <2>1
  <1>2. SubSeq(e, 1, 0) = e
    OBVIOUS
  <1>3. at \in [1..Len(e) + 1 -> 0..Len(e)] /\ at[1] = 0 /\ Len(e) + 1 = 1
    BY <1>1
  <1> HIDE DEF e, at
  <1>4. SubSeq(e, at[Len(e) + 1] + 1, Len(e)) = e
    BY <1>1, <1>2, <1>3
  <1>5. Laid(e, e, sep, e, at)
    BY <1>1, <1>3, <1>4 DEF Laid
  <1>6. Cleanly(e, sep)
    BY <1>1 DEF Cleanly
  <1>7. At(e, sep) = {}
    <2>1. At(e, sep) \subseteq 1..Len(e)
      BY <1>1, AtDef
    <2> QED BY <1>1, <2>1
  <1>8. Reads(e, e, sep, e)
    BY <1>5, <1>6, <1>7, ReadsDef
  <1> QED BY <1>8 DEF e

LEMMA Seps == /\ <<nl>> \in Seq(Sym) /\ Len(<<nl>>) > 0
              /\ <<nl, nl>> \in Seq(Sym) /\ Len(<<nl, nl>>) > 0
  BY DEF Sym

LEMMA ReadersInit == ReaderInit => ReadersInv
  <1> SUFFICES ASSUME ReaderInit PROVE ReadersInv
    OBVIOUS
  <1>1. <<>> \in Seq(Sym) /\ <<>> \in Seq(Seq(Sym))
    BY EmptySeq, Zenon
  <1>2. Reads(<<>>, <<>>, <<nl, nl>>, <<>>) /\ Reads(<<>>, <<>>, <<nl>>, <<>>)
    BY Seps, ReadsNothing
  <1> QED BY <1>1, <1>2, Zenon DEF ReaderInit, ReadersInv

LEMMA ReadersChunk ==
    ASSUME ReadersInv, NEW n \in Nat, NEW c \in [1..n -> Char], Chunk(c)
    PROVE  ReadersInv'
  <1>1. c \in Seq(Sym)
    <2>1. c \in Seq(Char)
      BY SeqDef
    <2> QED BY <2>1, SeqMonotonic DEF Sym
  <1>2. done = "no" /\ done' = "no" /\ text' = text \o c
    BY DEF Chunk
  <1>3. text' \in Seq(Sym)
    BY <1>1, <1>2, ConcatProperties DEF ReadersInv
  <1>4. buf' \in Seq(Sym) /\ frames' \in Seq(Seq(Sym)) /\ Reads(text', frames', <<nl, nl>>, buf')
    <2> DEFINE f == cutAll(buf \o c, <<nl, nl>>)
    <2>1. frames' = frames \o f.parts /\ buf' = f.rest
      BY DEF Chunk, Frames
    <2>2. /\ text \in Seq(Sym) /\ frames \in Seq(Seq(Sym)) /\ buf \in Seq(Sym)
          /\ Reads(text, frames, <<nl, nl>>, buf)
      BY DEF ReadersInv
    <2>3. /\ f.rest \in Seq(Sym) /\ frames \o f.parts \in Seq(Seq(Sym))
          /\ Reads(text \o c, frames \o f.parts, <<nl, nl>>, f.rest)
      BY <1>1, <2>2, Seps, ReadOn
    <2> HIDE DEF f
    <2> QED BY <1>2, <2>1, <2>3
  <1>5. rest' \in Seq(Sym) /\ lines' \in Seq(Seq(Sym)) /\ Reads(text', lines', <<nl>>, rest')
    <2> DEFINE f == cutAll(rest \o c, <<nl>>)
    <2>1. lines' = lines \o f.parts /\ rest' = f.rest
      BY DEF Chunk, flushLines
    <2>2. /\ text \in Seq(Sym) /\ lines \in Seq(Seq(Sym)) /\ rest \in Seq(Sym)
          /\ Reads(text, lines, <<nl>>, rest)
      BY <1>2 DEF ReadersInv
    <2>3. /\ f.rest \in Seq(Sym) /\ lines \o f.parts \in Seq(Seq(Sym))
          /\ Reads(text \o c, lines \o f.parts, <<nl>>, f.rest)
      BY <1>1, <2>2, Seps, ReadOn
    <2> HIDE DEF f
    <2> QED BY <1>2, <2>1, <2>3
  <1> QED BY <1>2, <1>3, <1>4, <1>5 DEF ReadersInv

\* The last line is shown, unless it was lost.
LEMMA LastShown ==
    ASSUME ReadersInv, done = "no"
    PROVE  Shown(text) = IF rest = <<>> THEN lines ELSE Append(lines, rest)
  <1> DEFINE T == Seq(Sym)
  <1>1. lines \in Seq(T) /\ rest \in T /\ text \in Seq(Sym) /\ Reads(text, lines, <<nl>>, rest)
    BY DEF ReadersInv
  <1>2. Split(text) = Append(lines, rest)
    <2>1. nl \in Sym
      BY DEF Sym
    <2> QED BY <1>1, <2>1, SplitIs
  <1> DEFINE a == Append(lines, rest)
  <1> HIDE DEF T
  <1>3. a \in Seq(T) /\ Len(a) = Len(lines) + 1 /\ a[Len(lines) + 1] = rest /\ Len(lines) \in Nat
        /\ \A i \in 1..Len(lines) : a[i] = lines[i]
    BY <1>1, AppendProperties, LenProperties
  <1>4. Last(a) = rest
    BY <1>3 DEF Last
  <1>5. Front(a) = lines
    <2>1. Front(a) = SubSeq(a, 0 + 1, Len(lines))
      BY <1>3 DEF Front
    <2>2. SubSeq(a, 0 + 1, Len(lines)) = lines
      <3>1. Len(lines) = Len(lines) - 0 /\ \A i \in 1..Len(lines) : lines[i] = a[0 + i]
        BY <1>3
      <3>2. a \in Seq(T) /\ 0 \in Nat /\ Len(lines) \in Nat /\ 0 <= Len(lines) /\ Len(lines) <= Len(a)
        BY <1>3
      <3> HIDE DEF a
      <3> QED BY <1>1, <3>1, <3>2, SliceIs
    <2> QED BY <2>1, <2>2
  <1> QED BY <1>2, <1>4, <1>5 DEF Shown

LEMMA ReadersFinished == ASSUME ReadersInv, Finished PROVE ReadersInv'
  <1>1. done = "no" /\ UNCHANGED <<text, frames, buf>> /\ rest' = <<>>
    BY DEF Finished
  <1>2. <<>> \in Seq(Sym)
    BY EmptySeq, Zenon
  <1>3. lines \in Seq(Seq(Sym)) /\ rest \in Seq(Sym)
    BY DEF ReadersInv
  <1>4. Append(lines, rest) \in Seq(Seq(Sym)) /\ Append(lines, <<>>) \in Seq(Seq(Sym))
    <2> DEFINE T == Seq(Sym)
               e == <<>>
    <2>1. lines \in Seq(T) /\ rest \in T /\ e \in T
      BY <1>2, <1>3
    <2> HIDE DEF T, e
    <2>2. Append(lines, rest) \in Seq(T) /\ Append(lines, e) \in Seq(T)
      BY <2>1, AppendProperties
    <2> QED BY <2>2 DEF T, e
  <1>5. lines' \in Seq(Seq(Sym)) /\ done' \in {"kept", "lost"} /\ (done' = "kept" => lines' = Shown(text))
    <2>1. CASE rest = <<>> /\ done' = "kept" /\ UNCHANGED lines
      BY <1>1, <1>3, <2>1, LastShown
    <2>2. CASE rest # <<>> /\ done' = "kept" /\ lines' = Append(lines, rest)
      BY <1>1, <1>4, <2>2, LastShown
    <2>3. CASE rest # <<>> /\ done' = "lost" /\ lines' = Append(lines, <<>>)
      BY <1>4, <2>3
    <2> QED BY <2>1, <2>2, <2>3 DEF Finished
  <1>6. Shown(text)' = Shown(text)
    BY <1>1 DEF Shown, Split
  <1> QED BY <1>1, <1>2, <1>5, <1>6 DEF ReadersInv

LEMMA ReadersNext == ReadersInv /\ [Read]_readerVars => ReadersInv'
  <1> SUFFICES ASSUME ReadersInv, [Read]_readerVars PROVE ReadersInv'
    OBVIOUS
  <1>1. CASE Finished
    BY <1>1, ReadersFinished
  <1>2. CASE \E n \in 1..MaxChunk : \E c \in [1..n -> Char] : Chunk(c)
    <2>1. PICK n \in 1..MaxChunk : \E c \in [1..n -> Char] : Chunk(c)
      BY <1>2
    <2>2. PICK c \in [1..n -> Char] : Chunk(c)
      BY <2>1
    <2>3. n \in Nat
      BY <2>1, BoundsAssumption
    <2> QED BY <2>2, <2>3, ReadersChunk
  <1>3. CASE UNCHANGED readerVars
    BY <1>3 DEF readerVars, ReadersInv, Shown
  <1> QED BY <1>1, <1>2, <1>3 DEF Read

\* Every chunk and the end of a run keep what the readers have read so far.
THEOREM ReadersInvariance == ReaderSpec => []ReadersInv
  BY ReadersInit, ReadersNext, PTL DEF ReaderSpec

\* However the bytes of a stream and of a program's output are cut into chunks,
\* the frames and the lines are those of the whole text, and the lines of a run
\* that is over are those of its stored output.
THEOREM ReadsExactlyHolds == ReaderSpec => []ReadsExactly
  <1>1. ReadersInv => ReadsExactly
    <2> SUFFICES ASSUME ReadersInv, done = "kept", ~Contains(text, cr) PROVE lines = RowLines(text)
      BY DEF ReadersInv, ReadsExactly
    <2> DEFINE C == Sym \ {cr}
    <2>1. text \in Seq(C)
      <3>1. text \in Seq(Sym) /\ Len(text) \in Nat /\ text \in [1..Len(text) -> Sym]
        BY LenProperties DEF ReadersInv
      <3>2. \A i \in 1..Len(text) : text[i] # cr
        BY DEF Contains
      <3>3. text \in [1..Len(text) -> C]
        BY <3>1, <3>2
      <3> HIDE DEF C
      <3> QED BY <3>1, <3>3, SeqDef
    <2>2. nl \in C /\ cr \notin C
      BY DEF Sym, nl, cr
    <2>3. SplitCr(text) = Split(text)
      <3> HIDE DEF C
      <3> QED BY <2>1, <2>2, SplitCrIs
    <2>4. lines = Shown(text)
      BY DEF ReadersInv
    <2> QED BY <2>3, <2>4 DEF RowLines, Shown
  <1> QED BY <1>1, ReadersInvariance, PTL

-----------------------------------------------------------------------------
(* Texts put together.                                                     *)

\* Induction over texts, for the set of those with a property.
LEMMA Longer ==
    ASSUME NEW C, NEW S, <<>> \in S, \A s \in Seq(C), c \in C : s \in S => Append(s, c) \in S
    PROVE  Seq(C) \subseteq S
  <1>1. SUFFICES ASSUME NEW t \in Seq(C) PROVE t \in S
    OBVIOUS
  <1> DEFINE N == Len(t)
             U == {n \in Nat : \A s \in Seq(C) : Len(s) = n => s \in S}
  <1>2. N \in Nat
    BY LenProperties
  <1>3. 0 \in U
    <2>1. ASSUME NEW s \in Seq(C), Len(s) = 0 PROVE s \in S
      BY <2>1, EmptySeq
    <2> QED BY <2>1
  <1>4. ASSUME NEW n \in 0..N - 1, n \in U PROVE n + 1 \in U
    <2>1. ASSUME NEW s \in Seq(C), Len(s) = n + 1 PROVE s \in S
      <3>1. s # <<>>
        BY <2>1, EmptySeq
      <3>2. PICK u \in Seq(C), c \in C : s = Append(u, c)
        BY <3>1, SequenceEmptyOrAppend
      <3>3. Len(u) = n
        BY <2>1, <3>2, AppendProperties, LenProperties
      <3>4. u \in S
        BY <1>4, <3>3
      <3> QED BY <3>2, <3>4
    <2>2. n + 1 \in Nat
      OBVIOUS
    <2> QED BY <2>1, <2>2
  <1>5. 0..N \subseteq U
    <2> HIDE DEF U, N
    <2> QED BY <1>2, <1>3, <1>4, UpTo
  <1>6. N \in U
    <2> HIDE DEF U
    <2> QED BY <1>2, <1>5
  <1> QED BY <1>6

\* The texts of e, one after the other.
IsFlat(f, e) == f[0] = <<>> /\ \A n \in 1..Len(e) : f[n] = f[n - 1] \o e[n]

LEMMA FlatRounds ==
    ASSUME NEW C, NEW e \in Seq(Seq(C))
    PROVE  \E f \in [0..Len(e) -> Seq(C)] : IsFlat(f, e) /\ FlattenSeq(e) = f[Len(e)]
  <1> DEFINE T == Seq(C)
             N == Len(e)
             z == <<>>
             d == [n \in 1..N |-> [a \in T |-> a \o e[n]]]
             E(f) == [i \in 1..N |-> IF i = 1 THEN e[i] ELSE f[i - 1] \o e[i]]
             fl == CHOOSE f : f = E(f)
  <1>1. N \in Nat /\ e \in [1..N -> T]
    <2>1. e \in Seq(T)
      OBVIOUS
    <2> HIDE DEF T
    <2> QED BY <2>1, LenProperties
  <1>2. z \in T
    BY EmptySeq, Zenon
  <1>3. \A u, v \in T : u \o v \in T
    BY ConcatProperties
  <1>4. \A u \in T : z \o u = u
    BY ConcatEmptySeq
  <1>5. d \in [1..N -> [T -> T]]
    <2> HIDE DEF T, N
    <2> QED BY <1>1, <1>3
  <1> HIDE DEF T, z
  <1>6. \E g \in [0..N -> T] : Rounds(g, z, N, d)
    <2> HIDE DEF N, d
    <2> QED BY <1>1, <1>2, <1>5, Runs
  <1>7. PICK g \in [0..N -> T] : g[0] = z /\ \A n \in 1..N : g[n] = d[n][g[n - 1]]
    BY <1>6 DEF Rounds
  <1>8. \A n \in 1..N : g[n] = g[n - 1] \o e[n]
    <2> HIDE DEF N
    <2>1. ASSUME NEW n \in 1..N PROVE g[n] = g[n - 1] \o e[n]
      <3>1. n - 1 \in 0..N
        BY <1>1
      <3>2. g[n - 1] \in T
        BY <3>1
      <3> QED BY <1>7, <3>2
    <2> QED BY <2>1
  <1>9. CASE N = 0
    <2>1. e = z /\ FlattenSeq(e) = e
      <3>1. FlattenSeq(e) = e
        BY <1>9, Zenon DEF FlattenSeq
      <3>2. e = z
        BY <1>9, EmptySeq DEF z
      <3> QED BY <3>1, <3>2
    <2>2. IsFlat(g, e)
      BY <1>7, <1>8 DEF IsFlat, z
    <2> QED BY <1>7, <1>9, <2>1, <2>2 DEF T
  <1>10. CASE N # 0
    <2> DEFINE h == [i \in 1..N |-> g[i]]
    <2>1. h = E(h)
      <3> HIDE DEF N
      <3>1. ASSUME NEW i \in 1..N PROVE h[i] = IF i = 1 THEN e[i] ELSE h[i - 1] \o e[i]
        <4>1. CASE i = 1
          <5>1. h[1] = g[0] \o e[1] /\ e[1] \in T
            BY <1>1, <1>8, <4>1
          <5> QED BY <1>4, <1>7, <4>1, <5>1
        <4>2. CASE i # 1
          <5>1. i - 1 \in 1..N
            BY <1>1, <4>2
          <5> QED BY <1>8, <4>2, <5>1
        <4> QED BY <4>1, <4>2
      <3> HIDE DEF h
      <3>2. h = [i \in 1..N |-> h[i]]
        BY DEF h
      <3> QED BY <3>1, <3>2
    <2>2. fl = E(fl)
      <3>1. \E f : f = E(f)
        BY <2>1
      <3> HIDE DEF E
      <3> QED BY <3>1
    <2>3. FlattenSeq(e) = fl[N]
      BY <1>10, Zenon DEF FlattenSeq
    <2> HIDE DEF fl
    <2>4. \A i \in 1..N : fl[i] = IF i = 1 THEN e[i] ELSE fl[i - 1] \o e[i]
      <3> HIDE DEF N
      <3> QED BY <2>2, Zenon
    <2> DEFINE S == {n \in 0..N : n = 0 \/ fl[n] = g[n]}
    <2>5. 0..N \subseteq S
      <3> HIDE DEF N
      <3>1. 0 \in S
        BY <1>1
      <3>2. ASSUME NEW n \in 0..N - 1, n \in S PROVE n + 1 \in S
        <4>1. n + 1 \in 1..N /\ (n + 1) - 1 = n /\ n + 1 \in 0..N
          BY <1>1
        <4>2. g[n + 1] = g[n] \o e[n + 1]
          BY <1>8, <4>1
        <4>3. CASE n = 0
          <5>1. fl[1] = e[1] /\ e[1] \in T
            BY <1>1, <2>4, <4>1, <4>3
          <5>2. g[1] = z \o e[1]
            <6>1. n + 1 = 1
              BY <4>3
            <6>2. g[1] = g[0] \o e[1]
              BY <4>2, <4>3, <6>1
            <6> QED BY <1>7, <6>2
          <5>3. fl[1] = g[1]
            BY <1>4, <5>1, <5>2
          <5> QED BY <4>1, <4>3, <5>3
        <4>4. CASE n # 0
          <5>1. fl[n] = g[n]
            BY <3>2, <4>4
          <5>2. fl[n + 1] = fl[(n + 1) - 1] \o e[n + 1]
            <6>1. n + 1 # 1
              BY <4>4
            <6> QED BY <2>4, <4>1, <6>1
          <5>3. fl[n + 1] = g[n] \o e[n + 1]
            BY <4>1, <5>1, <5>2
          <5> QED BY <4>1, <4>2, <5>3
        <4> QED BY <4>3, <4>4
      <3> HIDE DEF S
      <3> QED BY <1>1, <3>1, <3>2, UpTo
    <2>6. fl[N] = g[N]
      <3> HIDE DEF N
      <3>1. N \in S
        BY <1>1, <2>5
      <3> QED BY <1>10, <3>1
    <2>7. IsFlat(g, e)
      BY <1>7, <1>8 DEF IsFlat, z
    <2> QED BY <1>7, <2>3, <2>6, <2>7 DEF T
  <1> QED BY <1>9, <1>10

LEMMA FlatType ==
    ASSUME NEW C, NEW e \in Seq(Seq(C))
    PROVE  FlattenSeq(e) \in Seq(C)
  <1>1. PICK f \in [0..Len(e) -> Seq(C)] : FlattenSeq(e) = f[Len(e)]
    BY FlatRounds
  <1>2. Len(e) \in Nat
    <2> DEFINE T == Seq(C)
    <2>1. e \in Seq(T)
      OBVIOUS
    <2> HIDE DEF T
    <2> QED BY <2>1, LenProperties
  <1>3. Len(e) \in 0..Len(e)
    BY <1>2
  <1> QED BY <1>1, <1>3

LEMMA FlatEmpty == FlattenSeq(<<>>) = <<>>
  BY Zenon DEF FlattenSeq

LEMMA FlatAppend ==
    ASSUME NEW C, NEW e \in Seq(Seq(C)), NEW x \in Seq(C)
    PROVE  FlattenSeq(Append(e, x)) = FlattenSeq(e) \o x
  <1> DEFINE T == Seq(C)
             N == Len(e)
             y == Append(e, x)
  <1>1. /\ y \in Seq(T) /\ Len(y) = N + 1 /\ y[N + 1] = x /\ N \in Nat
        /\ \A i \in 1..N : y[i] = e[i]
    <2>1. e \in Seq(T) /\ x \in T
      OBVIOUS
    <2> HIDE DEF T
    <2> QED BY <2>1, AppendProperties, LenProperties
  <1> HIDE DEF y
  <1>2. PICK f \in [0..Len(e) -> Seq(C)] : IsFlat(f, e) /\ FlattenSeq(e) = f[Len(e)]
    BY FlatRounds
  <1>3. PICK g \in [0..Len(y) -> Seq(C)] : IsFlat(g, y) /\ FlattenSeq(y) = g[Len(y)]
    BY <1>1, FlatRounds
  <1> HIDE DEF T
  <1> DEFINE S == {n \in 0..N : f[n] = g[n]}
  <1>4. 0..N \subseteq S
    <2>1. 0 \in S
      BY <1>1, <1>2, <1>3 DEF IsFlat
    <2>2. ASSUME NEW n \in 0..N - 1, n \in S PROVE n + 1 \in S
      <3>1. n + 1 \in 1..N /\ n + 1 \in 1..Len(y) /\ (n + 1) - 1 = n /\ n + 1 \in 0..N
        BY <1>1
      <3>2. f[n + 1] = f[n] \o e[n + 1]
        BY <1>2, <3>1 DEF IsFlat
      <3>3. g[n + 1] = g[n] \o y[n + 1]
        BY <1>3, <3>1 DEF IsFlat
      <3> QED BY <1>1, <2>2, <3>1, <3>2, <3>3
    <2> HIDE DEF S, N
    <2> QED BY <1>1, <2>1, <2>2, UpTo
  <1>5. f[N] = g[N]
    <2>1. N \in 0..N
      BY <1>1
    <2> QED BY <1>4, <2>1
  <1>6. g[N + 1] = g[N] \o x
    <2>1. N + 1 \in 1..Len(y) /\ (N + 1) - 1 = N
      BY <1>1
    <2>2. g[N + 1] = g[N] \o y[N + 1]
      BY <1>3, <2>1 DEF IsFlat
    <2> QED BY <1>1, <2>2
  <1> QED BY <1>1, <1>2, <1>3, <1>5, <1>6 DEF y

-----------------------------------------------------------------------------
(* The diff.                                                               *)

\* A table whose entries are computed from those with a smaller measure exists:
\* computing all of it over and over, from any table, leaves it as it is in the
\* end.
Lower(D, V, mu, st) ==
    \A p \in D : \A f, g \in [D -> V] :
        (\A q \in D : mu[q] < mu[p] => f[q] = g[q]) => st[p][f] = st[p][g]

Filled(f, D, st) == \A p \in D : f[p] = st[p][f]

LEMMA Table ==
    ASSUME NEW D, NEW V, NEW v0 \in V, NEW N \in Nat, NEW mu \in [D -> 0..N],
           NEW st \in [D -> [[D -> V] -> V]], Lower(D, V, mu, st)
    PROVE  \E f \in [D -> V] : Filled(f, D, st)
  <1> DEFINE A == [D -> V]
             M == N + 2
             a0 == [p \in D |-> v0]
             all == [f \in A |-> [p \in D |-> st[p][f]]]
             d == [n \in 1..M |-> all]
  <1>1. M \in Nat /\ a0 \in A
    OBVIOUS
  <1>2. all \in [A -> A]
    OBVIOUS
  <1>3. d \in [1..M -> [A -> A]]
    <2> HIDE DEF A, all, M
    <2> QED BY <1>2
  <1>4. \E g \in [0..M -> A] : Rounds(g, a0, M, d)
    <2> HIDE DEF A, M, d, a0
    <2> QED BY <1>1, <1>3, Runs
  <1>5. PICK g \in [0..M -> A] : \A n \in 1..M : g[n] = d[n][g[n - 1]]
    BY <1>4 DEF Rounds
  <1>6. ASSUME NEW n \in 0..N + 1 PROVE g[n] \in A /\ g[n + 1] \in A /\ \A p \in D : g[n + 1][p] = st[p][g[n]]
    <2>1. n \in 0..M /\ n + 1 \in 1..M /\ (n + 1) - 1 = n /\ n + 1 \in 0..M
      OBVIOUS
    <2>2. g[n] \in A /\ g[n + 1] \in A
      <3> HIDE DEF A, M
      <3> QED BY <2>1
    <2>3. g[n + 1] = all[g[n]]
      <3> HIDE DEF A, M, all
      <3> QED BY <1>5, <2>1
    <2> QED BY <2>2, <2>3
  <1> HIDE DEF A, d, a0, all, M
  <1> DEFINE S == {n \in 0..N + 1 : \A p \in D : mu[p] < n => g[n + 1][p] = g[n][p]}
  <1>7. 0 \in S
    OBVIOUS
  <1>8. ASSUME NEW n \in 0..(N + 1) - 1, n \in S PROVE n + 1 \in S
    <2>1. n \in 0..N + 1 /\ n + 1 \in 0..N + 1
      OBVIOUS
    <2>2. ASSUME NEW p \in D, mu[p] < n + 1 PROVE g[(n + 1) + 1][p] = g[n + 1][p]
      <3>1. ASSUME NEW q \in D, mu[q] < mu[p] PROVE g[n + 1][q] = g[n][q]
        <4>1. mu[q] < n
          BY <2>2, <3>1
        <4> QED BY <1>8, <4>1
      <3>2. g[n] \in [D -> V] /\ g[n + 1] \in [D -> V]
        BY <1>6, <2>1 DEF A
      <3>3. st[p][g[n + 1]] = st[p][g[n]]
        BY <3>1, <3>2 DEF Lower
      <3>4. g[(n + 1) + 1][p] = st[p][g[n + 1]] /\ g[n + 1][p] = st[p][g[n]]
        BY <1>6, <2>1
      <3> QED BY <3>3, <3>4
    <2> QED BY <2>1, <2>2
  <1>9. 0..N + 1 \subseteq S
    <2>1. N + 1 \in Nat
      OBVIOUS
    <2> HIDE DEF S
    <2> QED BY <1>7, <1>8, <2>1, UpTo
  <1>10. N + 1 \in 0..N + 1
    OBVIOUS
  <1>11. ASSUME NEW p \in D PROVE g[N + 1][p] = st[p][g[N + 1]]
    <2>1. mu[p] < N + 1
      OBVIOUS
    <2>2. g[(N + 1) + 1][p] = g[N + 1][p]
      BY <1>9, <1>10, <2>1
    <2> QED BY <1>6, <1>10, <2>2
  <1>12. g[N + 1] \in [D -> V]
    BY <1>6, <1>10 DEF A
  <1> QED BY <1>11, <1>12 DEF Filled

LEMMA LcsDef ==
    ASSUME NEW V, NEW a \in Seq(V), NEW b \in Seq(V)
    PROVE  \A i \in 1..Len(a) + 1, j \in 1..Len(b) + 1 :
              LET dp == Lcs(a, b)
              IN  /\ dp[<<i, j>>] \in Nat
                  /\ dp[<<i, j>>] = IF i > Len(a) \/ j > Len(b) THEN 0
                                    ELSE IF a[i] = b[j] THEN dp[<<i + 1, j + 1>>] + 1
                                    ELSE Larger(dp[<<i + 1, j>>], dp[<<i, j + 1>>])
  <1> DEFINE m == Len(a)
             n == Len(b)
             D == (1..m + 1) \X (1..n + 1)
             X(f, p) == IF p[1] > m \/ p[2] > n THEN 0
                        ELSE IF a[p[1]] = b[p[2]] THEN f[<<p[1] + 1, p[2] + 1>>] + 1
                        ELSE Larger(f[<<p[1] + 1, p[2]>>], f[<<p[1], p[2] + 1>>])
             mu == [p \in D |-> ((m + 1) - p[1]) + ((n + 1) - p[2])]
             st == [p \in D |-> [f \in [D -> Nat] |-> X(f, p)]]
             E(f) == [p \in D |-> X(f, p)]
             dp == CHOOSE f : f = E(f)
             N == m + n
  <1>1. m \in Nat /\ n \in Nat /\ N \in Nat
    BY LenProperties
  <1> HIDE DEF m, n
  <1>2. mu \in [D -> 0..N]
    BY <1>1
  <1>3. ASSUME NEW p \in D, ~(p[1] > m \/ p[2] > n)
        PROVE  /\ <<p[1] + 1, p[2] + 1>> \in D /\ <<p[1] + 1, p[2]>> \in D /\ <<p[1], p[2] + 1>> \in D
               /\ mu[<<p[1] + 1, p[2] + 1>>] < mu[p] /\ mu[<<p[1] + 1, p[2]>>] < mu[p]
               /\ mu[<<p[1], p[2] + 1>>] < mu[p]
    <2>1. /\ p[1] \in 1..m /\ p[2] \in 1..n /\ p[1] + 1 \in 1..m + 1 /\ p[2] + 1 \in 1..n + 1
          /\ p[1] \in 1..m + 1 /\ p[2] \in 1..n + 1
      BY <1>1, <1>3
    <2>2. <<p[1] + 1, p[2] + 1>> \in D /\ <<p[1] + 1, p[2]>> \in D /\ <<p[1], p[2] + 1>> \in D
      BY <2>1
    <2>3. /\ mu[<<p[1] + 1, p[2] + 1>>] = ((m + 1) - (p[1] + 1)) + ((n + 1) - (p[2] + 1))
          /\ mu[<<p[1] + 1, p[2]>>] = ((m + 1) - (p[1] + 1)) + ((n + 1) - p[2])
          /\ mu[<<p[1], p[2] + 1>>] = ((m + 1) - p[1]) + ((n + 1) - (p[2] + 1))
          /\ mu[p] = ((m + 1) - p[1]) + ((n + 1) - p[2])
      <3> HIDE DEF D
      <3> QED BY <2>2
    <2> DEFINE i == p[1]
               j == p[2]
    <2>4. /\ ((m + 1) - (i + 1)) + ((n + 1) - (j + 1)) < ((m + 1) - i) + ((n + 1) - j)
          /\ ((m + 1) - (i + 1)) + ((n + 1) - j) < ((m + 1) - i) + ((n + 1) - j)
          /\ ((m + 1) - i) + ((n + 1) - (j + 1)) < ((m + 1) - i) + ((n + 1) - j)
      <3>1. i \in Int /\ j \in Int
        BY <2>1
      <3> HIDE DEF i, j
      <3> QED BY <1>1, <3>1
    <2> HIDE DEF D, mu
    <2> QED BY <2>2, <2>3, <2>4
  <1> HIDE DEF D, mu, N
  <1>4. ASSUME NEW p \in D, NEW f \in [D -> Nat] PROVE X(f, p) \in Nat
    BY <1>1, <1>3 DEF Larger
  <1>5. st \in [D -> [[D -> Nat] -> Nat]]
    <2> HIDE DEF X
    <2> QED BY <1>4
  <1>6. ASSUME NEW p \in D, NEW f \in [D -> Nat], NEW g \in [D -> Nat],
               \A q \in D : mu[q] < mu[p] => f[q] = g[q]
        PROVE  st[p][f] = st[p][g]
    <2>1. X(f, p) = X(g, p)
      BY <1>3, <1>6
    <2> HIDE DEF X
    <2> QED BY <2>1
  <1>7. \E f \in [D -> Nat] : Filled(f, D, st)
    <2> HIDE DEF st, X
    <2>1. Lower(D, Nat, mu, st)
      BY <1>6 DEF Lower
    <2>2. 0 \in Nat
      OBVIOUS
    <2> QED BY <1>1, <1>2, <1>5, <2>1, <2>2, Table
  <1>8. dp = E(dp)
    <2>1. PICK f \in [D -> Nat] : \A p \in D : f[p] = X(f, p)
      <3> HIDE DEF X
      <3> QED BY <1>7 DEF Filled
    <2>2. f = E(f)
      <3> HIDE DEF X
      <3> QED BY <2>1
    <2> HIDE DEF E
    <2> QED BY <2>2
  <1>9. Lcs(a, b) = dp
    BY Zenon DEF Lcs, m, n, D
  <1> HIDE DEF dp
  <1>10. \A p \in D : dp[p] = X(dp, p)
    <2> HIDE DEF X
    <2> QED BY <1>8, Zenon
  <1>15. ASSUME NEW p \in D
         PROVE  /\ p[1] > m \/ p[2] > n => dp[p] = 0
                /\ ~(p[1] > m \/ p[2] > n) =>
                      dp[p] = IF a[p[1]] = b[p[2]] THEN dp[<<p[1] + 1, p[2] + 1>>] + 1
                              ELSE Larger(dp[<<p[1] + 1, p[2]>>], dp[<<p[1], p[2] + 1>>])
    <2>1. dp[p] = X(dp, p)
      BY <1>10
    <2> QED BY <2>1, Zenon
  <1> DEFINE S == {k \in 0..N : \A p \in D : mu[p] <= k => dp[p] \in Nat}
  <1>11. 0..N \subseteq S
    <2>1. 0 \in S
      <3>1. ASSUME NEW p \in D, mu[p] <= 0 PROVE dp[p] \in Nat
        <4>1. p[1] > m \/ p[2] > n
          <5>1. SUFFICES ASSUME ~(p[1] > m \/ p[2] > n) PROVE FALSE
            OBVIOUS
          <5> DEFINE q == <<p[1] + 1, p[2] + 1>>
          <5>2. q \in D /\ mu[q] < mu[p]
            BY <1>3, <5>1
          <5> HIDE DEF q
          <5> QED BY <1>1, <1>2, <3>1, <5>2
        <4>2. dp[p] = 0
          BY <1>15, <4>1, Zenon
        <4> QED BY <4>2
      <3> QED BY <1>1, <3>1
    <2>2. ASSUME NEW k \in 0..N - 1, k \in S PROVE k + 1 \in S
      <3>1. ASSUME NEW p \in D, mu[p] <= k + 1 PROVE dp[p] \in Nat
        <4>1. CASE p[1] > m \/ p[2] > n
          <5>1. dp[p] = 0
            BY <1>15, <4>1, Zenon
          <5> QED BY <5>1
        <4>2. CASE ~(p[1] > m \/ p[2] > n)
          <5>1. \A q \in D : mu[q] < mu[p] => dp[q] \in Nat
            BY <1>1, <1>2, <2>2, <3>1
          <5> HIDE DEF S
          <5>2. /\ dp[<<p[1] + 1, p[2] + 1>>] \in Nat /\ dp[<<p[1] + 1, p[2]>>] \in Nat
                /\ dp[<<p[1], p[2] + 1>>] \in Nat
            BY <1>3, <4>2, <5>1
          <5>3. dp[p] = IF a[p[1]] = b[p[2]] THEN dp[<<p[1] + 1, p[2] + 1>>] + 1
                        ELSE Larger(dp[<<p[1] + 1, p[2]>>], dp[<<p[1], p[2] + 1>>])
            BY <1>15, <4>2
          <5> QED BY <5>2, <5>3 DEF Larger
        <4> QED BY <4>1, <4>2
      <3> QED BY <1>1, <3>1
    <2> HIDE DEF S
    <2> QED BY <1>1, <2>1, <2>2, UpTo
  <1>12. \A p \in D : dp[p] \in Nat
    <2>1. ASSUME NEW p \in D PROVE dp[p] \in Nat
      <3>1. mu[p] \in 0..N /\ mu[p] <= mu[p]
        BY <1>1, <1>2
      <3> QED BY <1>11, <3>1
    <2> QED BY <2>1
  <1>13. ASSUME NEW i \in 1..m + 1, NEW j \in 1..n + 1
         PROVE  /\ dp[<<i, j>>] \in Nat
                /\ dp[<<i, j>>] = IF i > m \/ j > n THEN 0
                                  ELSE IF a[i] = b[j] THEN dp[<<i + 1, j + 1>>] + 1
                                  ELSE Larger(dp[<<i + 1, j>>], dp[<<i, j + 1>>])
    <2>1. <<i, j>> \in D /\ <<i, j>>[1] = i /\ <<i, j>>[2] = j
      BY DEF D
    <2> QED BY <1>10, <1>12, <2>1
  <1> QED BY <1>9, <1>13 DEF m, n

\* A text put together from what h makes of each element of s.
Mapped(h, s) == [i \in DOMAIN s |-> h[s[i]]]

FlatMap(h, s) == FlattenSeq(Mapped(h, s))

LEMMA SameRange ==
    ASSUME NEW p \in Nat, NEW q \in Nat, 1..p = 1..q
    PROVE  p = q
  <1>1. p > q => p \in 1..p /\ p \notin 1..q
    OBVIOUS
  <1>2. q > p => q \in 1..q /\ q \notin 1..p
    OBVIOUS
  <1> QED BY <1>1, <1>2

LEMMA MapSeq ==
    ASSUME NEW V, NEW T, NEW h \in [V -> T], NEW s \in Seq(V)
    PROVE  Mapped(h, s) \in Seq(T) /\ Len(Mapped(h, s)) = Len(s)
  <1> DEFINE m == [i \in DOMAIN s |-> h[s[i]]]
  <1>1. Len(s) \in Nat /\ DOMAIN s = 1..Len(s) /\ \A i \in 1..Len(s) : s[i] \in V
    BY LenProperties, ElementOfSeq
  <1>2. m \in [1..Len(s) -> T]
    BY <1>1
  <1> HIDE DEF m
  <1>3. m \in Seq(T)
    BY <1>1, <1>2, SeqDef
  <1>4. Len(m) = Len(s)
    <2>1. DOMAIN m = 1..Len(m) /\ DOMAIN m = 1..Len(s) /\ Len(m) \in Nat
      BY <1>2, <1>3, LenProperties
    <2> QED BY <1>1, <2>1, SameRange
  <1> QED BY <1>3, <1>4 DEF m, Mapped

LEMMA MapAppend ==
    ASSUME NEW V, NEW T, NEW h \in [V -> T], NEW s \in Seq(V), NEW x \in V
    PROVE  Mapped(h, Append(s, x)) = Append(Mapped(h, s), h[x])
  <1> DEFINE N == Len(s)
             y == Append(s, x)
             m == [i \in DOMAIN s |-> h[s[i]]]
             k == [i \in DOMAIN y |-> h[y[i]]]
             w == Append(m, h[x])
  <1>1. N \in Nat /\ DOMAIN s = 1..N /\ h[x] \in T
    BY LenProperties
  <1>2. y \in Seq(V) /\ Len(y) = N + 1 /\ y[N + 1] = x /\ \A i \in 1..N : y[i] = s[i]
    BY AppendProperties
  <1>3. DOMAIN y = 1..N + 1
    BY <1>2, LenProperties
  <1>4. m \in Seq(T) /\ Len(m) = N
    BY MapSeq DEF Mapped
  <1>5. k \in Seq(T) /\ Len(k) = N + 1
    <2> HIDE DEF y
    <2> QED BY <1>2, MapSeq DEF Mapped
  <1>6. \A i \in 1..N : m[i] = h[s[i]]
    BY <1>1
  <1>7. \A i \in 1..N + 1 : k[i] = h[y[i]]
    BY <1>3
  <1> HIDE DEF m, k, y
  <1>8. w \in Seq(T) /\ Len(w) = N + 1 /\ w[N + 1] = h[x] /\ \A i \in 1..N : w[i] = m[i]
    BY <1>1, <1>4, AppendProperties
  <1> HIDE DEF w
  <1>9. ASSUME NEW i \in 1..N + 1 PROVE k[i] = w[i]
    <2>1. CASE i \in 1..N
      BY <1>2, <1>6, <1>7, <1>8, <2>1
    <2>2. CASE i = N + 1
      BY <1>2, <1>7, <1>8, <2>2
    <2>3. i \in 1..N \/ i = N + 1
      BY <1>1
    <2> QED BY <2>1, <2>2, <2>3
  <1>10. k = w
    BY <1>5, <1>8, <1>9, SeqEqual
  <1> QED BY <1>10 DEF k, w, m, y, Mapped

LEMMA FlatMapType ==
    ASSUME NEW V, NEW C, NEW h \in [V -> Seq(C)], NEW s \in Seq(V)
    PROVE  FlatMap(h, s) \in Seq(C)
  <1>1. Mapped(h, s) \in Seq(Seq(C))
    BY MapSeq
  <1> QED BY <1>1, FlatType DEF FlatMap

LEMMA FlatMapEmpty == \A h : FlatMap(h, <<>>) = <<>>
  <1> SUFFICES ASSUME NEW h PROVE FlatMap(h, <<>>) = <<>>
    OBVIOUS
  <1>1. Mapped(h, <<>>) = <<>>
    BY DEF Mapped
  <1> QED BY <1>1, FlatEmpty, Zenon DEF FlatMap

LEMMA FlatMapAppend ==
    ASSUME NEW V, NEW C, NEW h \in [V -> Seq(C)], NEW s \in Seq(V), NEW x \in V
    PROVE  FlatMap(h, Append(s, x)) = FlatMap(h, s) \o h[x]
  <1>1. Mapped(h, s) \in Seq(Seq(C)) /\ Mapped(h, Append(s, x)) = Append(Mapped(h, s), h[x])
    BY MapSeq, MapAppend
  <1>2. h[x] \in Seq(C)
    OBVIOUS
  <1> QED BY <1>1, <1>2, FlatAppend DEF FlatMap

LEMMA FlatMapConcat ==
    ASSUME NEW V, NEW C, NEW h \in [V -> Seq(C)], NEW s \in Seq(V), NEW t \in Seq(V)
    PROVE  FlatMap(h, s \o t) = FlatMap(h, s) \o FlatMap(h, t)
  <1> DEFINE S == {u \in Seq(V) : FlatMap(h, s \o u) = FlatMap(h, s) \o FlatMap(h, u)}
  <1>1. <<>> \in S
    <2>1. s \o <<>> = s /\ FlatMap(h, s) \o <<>> = FlatMap(h, s) 
      BY ConcatEmptySeq, FlatMapType
    <2>2. <<>> \in Seq(V)
      BY EmptySeq, Zenon
    <2>3. FlatMap(h, <<>>) = <<>>
      BY FlatMapEmpty
    <2>4. FlatMap(h, s \o <<>>) = FlatMap(h, s) \o FlatMap(h, <<>>)
      BY <2>1, <2>3
    <2> QED BY <2>2, <2>4
  <1>2. ASSUME NEW u \in Seq(V), NEW x \in V, u \in S PROVE Append(u, x) \in S
    <2>1. s \o Append(u, x) = Append(s \o u, x) /\ s \o u \in Seq(V) /\ Append(u, x) \in Seq(V)
      BY AppendAfter, ConcatProperties, AppendProperties
    <2>2. FlatMap(h, Append(s \o u, x)) = FlatMap(h, s \o u) \o h[x]
      BY <2>1, FlatMapAppend
    <2>3. FlatMap(h, Append(u, x)) = FlatMap(h, u) \o h[x]
      BY FlatMapAppend
    <2>4. FlatMap(h, s \o u) = FlatMap(h, s) \o FlatMap(h, u)
      BY <1>2
    <2>5. (FlatMap(h, s) \o FlatMap(h, u)) \o h[x] = FlatMap(h, s) \o (FlatMap(h, u) \o h[x])
      <3>1. FlatMap(h, s) \in Seq(C) /\ FlatMap(h, u) \in Seq(C) /\ h[x] \in Seq(C)
        BY FlatMapType
      <3> QED BY <3>1, ConcatAssociative
    <2>6. FlatMap(h, s \o Append(u, x)) = FlatMap(h, s) \o FlatMap(h, Append(u, x))
      BY <2>1, <2>2, <2>3, <2>4, <2>5
    <2> QED BY <2>1, <2>6
  <1>3. Seq(V) \subseteq S
    <2> HIDE DEF S
    <2> QED BY <1>1, <1>2, Longer
  <1> QED BY <1>3

\* The lines of a diff, and one more.
DLine(V) == [kind : {"same", "del", "add"}, text : V]

SideOf(V, K) == [l \in DLine(V) |-> IF l.kind \in K THEN <<l.text>> ELSE <<>>]

LEMMA SideIs ==
    ASSUME NEW V, NEW K, NEW d \in Seq(DLine(V))
    PROVE  /\ SideOf(V, K) \in [DLine(V) -> Seq(V)]
           /\ Side(d, K) = FlatMap(SideOf(V, K), d) /\ Side(d, K) \in Seq(V)
  <1> DEFINE L == DLine(V)
             h == SideOf(V, K)
  <1>1. h \in [L -> Seq(V)]
    <2>1. ASSUME NEW l \in L PROVE (IF l.kind \in K THEN <<l.text>> ELSE <<>>) \in Seq(V)
      <3>1. l.text \in V
        BY DEF DLine
      <3> QED BY <3>1
    <2> QED BY <2>1 DEF SideOf
  <1>2. Side(d, K) = FlatMap(h, d)
    <2>1. DOMAIN d = 1..Len(d) /\ \A n \in 1..Len(d) : d[n] \in L
      BY LenProperties, ElementOfSeq
    <2>2. [n \in DOMAIN d |-> IF d[n].kind \in K THEN <<d[n].text>> ELSE <<>>] = Mapped(h, d)
      BY <2>1 DEF Mapped, SideOf
    <2> QED BY <2>2, Zenon DEF Side, FlatMap
  <1> QED BY <1>1, <1>2, FlatMapType

LEMMA SideAppend ==
    ASSUME NEW V, NEW d \in Seq(DLine(V)), NEW x \in DLine(V), NEW K
    PROVE  /\ x.kind \in K => Side(Append(d, x), K) = Append(Side(d, K), x.text)
           /\ x.kind \notin K => Side(Append(d, x), K) = Side(d, K)
  <1> DEFINE h == SideOf(V, K)
  <1>1. Append(d, x) \in Seq(DLine(V))
    BY AppendProperties
  <1>2. x.text \in V
    BY DEF DLine
  <1>3. h[x] = IF x.kind \in K THEN <<x.text>> ELSE <<>>
    BY DEF SideOf
  <1> HIDE DEF h
  <1>4. Side(d, K) \in Seq(V)
    BY SideIs
  <1>5. Side(Append(d, x), K) = Side(d, K) \o h[x]
    <2>1. h \in [DLine(V) -> Seq(V)] /\ Side(d, K) = FlatMap(h, d) /\ Side(Append(d, x), K) = FlatMap(h, Append(d, x))
      BY <1>1, SideIs DEF h
    <2> QED BY <2>1, FlatMapAppend
  <1>6. CASE x.kind \in K
    <2>1. Append(Side(d, K), x.text) = Side(d, K) \o <<x.text>>
      BY <1>2, <1>4, AppendIsConcat
    <2> QED BY <1>3, <1>5, <1>6, <2>1
  <1>7. CASE x.kind \notin K
    <2>1. Side(d, K) \o <<>> = Side(d, K)
      BY <1>4, ConcatEmptySeq
    <2> QED BY <1>3, <1>5, <1>7, <2>1
  <1> QED BY <1>6, <1>7

\* No common subsequence is longer than the table says: from its k-th line on it
\* lies in the lines from i and j on.
LEMMA LcsBest ==
    ASSUME NEW V, NEW a \in Seq(V), NEW b \in Seq(V), NEW n \in Nat,
           NEW f \in Rising(n, a), NEW g \in Rising(n, b), \A k \in 1..n : a[f[k]] = b[g[k]]
    PROVE  n <= Lcs(a, b)[<<1, 1>>]
  <1> DEFINE p == Len(a)
             q == Len(b)
             dp == Lcs(a, b)
             N == p + q
             Q(i, j) == \A k \in 1..n + 1 :
                           (\A l \in k..n : f[l] >= i /\ g[l] >= j) => (n + 1) - k <= dp[<<i, j>>]
             S == {m \in 0..N : \A i \in 1..p + 1, j \in 1..q + 1 :
                                   ((p + 1) - i) + ((q + 1) - j) <= m => Q(i, j)}
  <1>1. p \in Nat /\ q \in Nat /\ N \in Nat /\ DOMAIN a = 1..p /\ DOMAIN b = 1..q
    BY LenProperties
  <1>2. /\ f \in [1..n -> 1..p] /\ g \in [1..n -> 1..q]
        /\ \A k, l \in 1..n : k < l => f[k] < f[l] /\ g[k] < g[l]
    BY <1>1 DEF Rising
  <1>3. ASSUME NEW i \in 1..p + 1, NEW j \in 1..q + 1
        PROVE  /\ dp[<<i, j>>] \in Nat
               /\ dp[<<i, j>>] = IF i > p \/ j > q THEN 0
                                 ELSE IF a[i] = b[j] THEN dp[<<i + 1, j + 1>>] + 1
                                 ELSE Larger(dp[<<i + 1, j>>], dp[<<i, j + 1>>])
    BY LcsDef
  <1> HIDE DEF p, q, dp
  <1>13. ASSUME NEW i \in 1..p + 1, NEW j \in 1..q + 1 PROVE dp[<<i, j>>] \in Nat
    BY <1>3
  <1>14. ASSUME NEW i \in 1..p + 1, NEW j \in 1..q + 1, i <= p, j <= q
         PROVE  /\ a[i] = b[j] => dp[<<i, j>>] = dp[<<i + 1, j + 1>>] + 1
                /\ a[i] # b[j] => dp[<<i, j>>] = Larger(dp[<<i + 1, j>>], dp[<<i, j + 1>>])
    <2>1. ~(i > p \/ j > q)
      BY <1>1, <1>14
    <2> QED BY <1>3, <2>1, Zenon
  \* The remaining lines are none, or both texts have lines left.
  <1>4. ASSUME NEW i \in 1..p + 1, NEW j \in 1..q + 1, NEW k \in 1..n + 1,
               \A l \in k..n : f[l] >= i /\ g[l] >= j, k # n + 1
        PROVE  /\ k \in 1..n /\ f[k] \in 1..p /\ g[k] \in 1..q /\ f[k] >= i /\ g[k] >= j
               /\ i \in 1..p /\ j \in 1..q /\ ~(i > p \/ j > q)
               /\ i + 1 \in 1..p + 1 /\ j + 1 \in 1..q + 1
    <2>1. k \in 1..n /\ k \in k..n
      BY <1>4
    <2>2. f[k] \in 1..p /\ g[k] \in 1..q /\ f[k] >= i /\ g[k] >= j
      BY <1>2, <1>4, <2>1
    <2> QED BY <1>1, <2>1, <2>2
  \* They lie after i and j, where those match.
  <1>5. ASSUME NEW i \in 1..p + 1, NEW j \in 1..q + 1, i <= p, j <= q, a[i] = b[j], Q(i + 1, j + 1) PROVE Q(i, j)
    <2> SUFFICES ASSUME NEW k \in 1..n + 1, \A l \in k..n : f[l] >= i /\ g[l] >= j
                 PROVE  (n + 1) - k <= dp[<<i, j>>]
      OBVIOUS
    <2>1. CASE k = n + 1
      <3>1. dp[<<i, j>>] \in Nat /\ (n + 1) - k = 0
        BY <1>13, <2>1
      <3> QED BY <3>1
    <2>2. CASE k # n + 1
      <3>1. k \in 1..n /\ f[k] \in 1..p /\ g[k] \in 1..q /\ f[k] >= i /\ g[k] >= j
        BY <1>4, <2>2
      <3>2. ASSUME NEW l \in k + 1..n PROVE f[l] >= i + 1 /\ g[l] >= j + 1
        <4>1. l \in 1..n /\ k < l
          BY <3>1
        <4>2. f[k] < f[l] /\ g[k] < g[l] /\ f[l] \in 1..p /\ g[l] \in 1..q
          BY <1>2, <3>1, <4>1
        <4> QED BY <3>1, <4>2
      <3>3. k + 1 \in 1..n + 1
        BY <3>1
      <3>4. (n + 1) - (k + 1) <= dp[<<i + 1, j + 1>>]
        BY <1>5, <3>2, <3>3
      <3>5. i + 1 \in 1..p + 1 /\ j + 1 \in 1..q + 1
        BY <1>1, <1>5
      <3>6. dp[<<i, j>>] = dp[<<i + 1, j + 1>>] + 1 /\ dp[<<i + 1, j + 1>>] \in Nat
        BY <1>5, <1>13, <1>14, <3>5
      <3> QED BY <3>4, <3>6
    <2> QED BY <2>1, <2>2
  \* They lie after i, or after j, where those differ.
  <1>6. ASSUME NEW i \in 1..p + 1, NEW j \in 1..q + 1, i <= p, j <= q, a[i] # b[j], Q(i + 1, j), Q(i, j + 1)
        PROVE  Q(i, j)
    <2> SUFFICES ASSUME NEW k \in 1..n + 1, \A l \in k..n : f[l] >= i /\ g[l] >= j
                 PROVE  (n + 1) - k <= dp[<<i, j>>]
      OBVIOUS
    <2>1. CASE k = n + 1
      <3>1. dp[<<i, j>>] \in Nat /\ (n + 1) - k = 0
        BY <1>13, <2>1
      <3> QED BY <3>1
    <2>2. CASE k # n + 1
      <3>1. k \in 1..n /\ f[k] \in 1..p /\ g[k] \in 1..q /\ f[k] >= i /\ g[k] >= j
        BY <1>4, <2>2
      <3>2. f[k] > i \/ g[k] > j
        <4>1. a[f[k]] = b[g[k]]
          BY <3>1
        <4>2. ~(f[k] = i /\ g[k] = j)
          BY <1>6, <4>1
        <4> QED BY <3>1, <4>2
      <3>3. ASSUME NEW l \in k..n PROVE f[l] >= f[k] /\ g[l] >= g[k] /\ f[l] \in 1..p /\ g[l] \in 1..q
        <4>1. l \in 1..n /\ (k < l \/ k = l)
          BY <3>1
        <4> QED BY <1>2, <3>1, <4>1
      <3>4. i + 1 \in 1..p + 1 /\ j + 1 \in 1..q + 1
        BY <1>1, <1>6
      <3>5. /\ dp[<<i, j>>] = Larger(dp[<<i + 1, j>>], dp[<<i, j + 1>>])
            /\ dp[<<i + 1, j>>] \in Nat /\ dp[<<i, j + 1>>] \in Nat
        BY <1>6, <1>13, <1>14, <3>4
      <3>6. dp[<<i, j>>] >= dp[<<i + 1, j>>] /\ dp[<<i, j>>] >= dp[<<i, j + 1>>]
        BY <3>5 DEF Larger
      <3>7. CASE f[k] > i
        <4>1. \A l \in k..n : f[l] >= i + 1 /\ g[l] >= j
          BY <3>1, <3>3, <3>7
        <4>2. (n + 1) - k <= dp[<<i + 1, j>>]
          BY <1>6, <4>1
        <4>3. dp[<<i, j>>] \in Nat
          BY <1>13
        <4> QED BY <3>5, <3>6, <4>2, <4>3
      <3>8. CASE g[k] > j
        <4>1. \A l \in k..n : f[l] >= i /\ g[l] >= j + 1
          BY <3>1, <3>3, <3>8
        <4>2. (n + 1) - k <= dp[<<i, j + 1>>]
          BY <1>6, <4>1
        <4>3. dp[<<i, j>>] \in Nat
          BY <1>13
        <4> QED BY <3>5, <3>6, <4>2, <4>3
      <3> QED BY <3>2, <3>7, <3>8
    <2> QED BY <2>1, <2>2
  \* They are none, where a text is over.
  <1>7. ASSUME NEW i \in 1..p + 1, NEW j \in 1..q + 1, i > p \/ j > q PROVE Q(i, j)
    <2> SUFFICES ASSUME NEW k \in 1..n + 1, \A l \in k..n : f[l] >= i /\ g[l] >= j
                 PROVE  (n + 1) - k <= dp[<<i, j>>]
      OBVIOUS
    <2>1. k = n + 1
      BY <1>4, <1>7
    <2>2. dp[<<i, j>>] \in Nat /\ (n + 1) - k = 0
      BY <1>13, <2>1
    <2> QED BY <2>2
  <1> HIDE DEF Q
  <1>8. 0 \in S
    <2>1. ASSUME NEW i \in 1..p + 1, NEW j \in 1..q + 1, ((p + 1) - i) + ((q + 1) - j) <= 0 PROVE Q(i, j)
      <3>1. i > p
        BY <1>1, <2>1
      <3> QED BY <1>7, <3>1
    <2> QED BY <1>1, <2>1
  <1>9. ASSUME NEW m \in 0..N - 1, m \in S PROVE m + 1 \in S
    <2>1. ASSUME NEW i \in 1..p + 1, NEW j \in 1..q + 1, ((p + 1) - i) + ((q + 1) - j) <= m + 1 PROVE Q(i, j)
      <3>1. CASE i > p \/ j > q
        BY <1>7, <3>1
      <3>2. CASE i <= p /\ j <= q
        <4>1. i + 1 \in 1..p + 1 /\ j + 1 \in 1..q + 1
          BY <1>1, <3>2
        <4>2. /\ ((p + 1) - (i + 1)) + ((q + 1) - (j + 1)) <= m
              /\ ((p + 1) - (i + 1)) + ((q + 1) - j) <= m
              /\ ((p + 1) - i) + ((q + 1) - (j + 1)) <= m
          BY <1>1, <2>1
        <4>3. Q(i + 1, j + 1) /\ Q(i + 1, j) /\ Q(i, j + 1)
          BY <1>9, <4>1, <4>2
        <4> QED BY <1>5, <1>6, <3>2, <4>3
      <3>3. (i > p \/ j > q) \/ (i <= p /\ j <= q)
        BY <1>1
      <3> QED BY <3>1, <3>2, <3>3
    <2> QED BY <1>1, <2>1
  <1>10. 0..N \subseteq S
    <2> HIDE DEF S, N
    <2> QED BY <1>1, <1>8, <1>9, UpTo
  <1>11. Q(1, 1)
    <2>1. N \in 0..N /\ 1 \in 1..p + 1 /\ 1 \in 1..q + 1 /\ ((p + 1) - 1) + ((q + 1) - 1) <= N
      BY <1>1
    <2>2. N \in S
      BY <1>10, <2>1
    <2> QED BY <2>1, <2>2
  <1>12. (n + 1) - 1 <= dp[<<1, 1>>]
    <2>1. 1 \in 1..n + 1 /\ \A l \in 1..n : f[l] >= 1 /\ g[l] >= 1
      BY <1>2
    <2> QED BY <1>11, <2>1 DEF Q
  <1> QED BY <1>12 DEF dp

\* The first i elements, and the first i - 1.
LEMMA OneMore ==
    ASSUME NEW V, NEW s \in Seq(V), NEW i \in 1..Len(s)
    PROVE  /\ SubSeq(s, 1, i - 1) \in Seq(V) /\ s[i] \in V
           /\ SubSeq(s, 1, i) = Append(SubSeq(s, 1, i - 1), s[i])
  <1>1. Len(s) \in Nat
    BY LenProperties
  <1>2. 1 \in 1..Len(s) /\ i \in 1..Len(s) /\ i - 1 \in Int /\ i - 1 <= Len(s) /\ 1 <= (i - 1) + 1
    BY <1>1
  <1>3. SubSeq(s, 1, i) = SubSeq(s, 1, i - 1) \o <<s[i]>>
    BY <1>2, SubSeqRecursiveSecond
  <1>4. SubSeq(s, 1, i - 1) \in Seq(V) /\ s[i] \in V
    BY <1>2, SubText, ElementOfSeq
  <1> QED BY <1>3, <1>4, AppendIsConcat

\* Where the walk is, and what it has written.
Walked(V, a, b) == [i : 1..Len(a) + 1, j : 1..Len(b) + 1, out : Seq(DLine(V))]

DiffInv(w, a, b) ==
    /\ Side(w.out, {"same", "del"}) = SubSeq(a, 1, w.i - 1)
    /\ Side(w.out, {"same", "add"}) = SubSeq(b, 1, w.j - 1)
    /\ Len(Side(w.out, {"same"})) + Lcs(a, b)[<<w.i, w.j>>] = Lcs(a, b)[<<1, 1>>]

WalkOn(w, x, a, b) ==
    \/ x = w /\ w.i = Len(a) + 1 /\ w.j = Len(b) + 1
    \/ x.i + x.j >= w.i + w.j + 1

LEMMA WalkStep ==
    ASSUME NEW V, NEW a \in Seq(V), NEW b \in Seq(V), NEW w \in Walked(V, a, b)
    PROVE  LET x == walk(w, a, b, Lcs(a, b))
           IN  /\ x \in Walked(V, a, b)
               /\ WalkOn(w, x, a, b)
               /\ DiffInv(w, a, b) => DiffInv(x, a, b)
  <1> DEFINE p == Len(a)
             q == Len(b)
             dp == Lcs(a, b)
             i == w.i
             j == w.j
             out == w.out
             x == walk(w, a, b, dp)
             L == DLine(V)
  <1>1. p \in Nat /\ q \in Nat
    BY LenProperties
  <1>2. i \in 1..p + 1 /\ j \in 1..q + 1 /\ out \in Seq(L) /\ w = [i |-> i, j |-> j, out |-> out]
    BY DEF Walked
  <1>3. ASSUME NEW u \in 1..p + 1, NEW v \in 1..q + 1
        PROVE
           /\ dp[<<u, v>>] \in Nat
           /\ dp[<<u, v>>] = IF u > p \/ v > q THEN 0
                             ELSE IF a[u] = b[v] THEN dp[<<u + 1, v + 1>>] + 1
                             ELSE Larger(dp[<<u + 1, v>>], dp[<<u, v + 1>>])
    BY LcsDef
  <1>4. dp[<<i, j>>] \in Nat
    BY <1>2, <1>3
  <1>5. ASSUME NEW K PROVE Side(out, K) \in Seq(V) /\ Len(Side(out, K)) \in Nat
    <2>1. Side(out, K) \in Seq(V)
      <3>1. out \in Seq(DLine(V))
        BY <1>2
      <3> HIDE DEF out
      <3> QED BY <3>1, SideIs
    <2> QED BY <2>1, LenProperties
  <1> DEFINE Sd == {"same", "del"}
             Sa == {"same", "add"}
             Ss == {"same"}
  \* A line that both have.
  <1>6. CASE i <= p /\ j <= q /\ a[i] = b[j]
    <2> DEFINE l == [kind |-> "same", text |-> a[i]]
    <2>1. x = [i |-> i + 1, j |-> j + 1, out |-> Append(out, l)]
      BY <1>6, Zenon DEF walk
    <2> HIDE DEF x, i, j, out, p, q, dp
    <2>2. i \in 1..p /\ j \in 1..q /\ i + 1 \in 1..p + 1 /\ j + 1 \in 1..q + 1
      BY <1>1, <1>2, <1>6
    <2>3. /\ SubSeq(a, 1, i - 1) \in Seq(V) /\ a[i] \in V /\ SubSeq(a, 1, i) = Append(SubSeq(a, 1, i - 1), a[i])
          /\ SubSeq(b, 1, j - 1) \in Seq(V) /\ b[j] \in V /\ SubSeq(b, 1, j) = Append(SubSeq(b, 1, j - 1), b[j])
      BY <2>2, OneMore DEF p, q
    <2>4. l \in DLine(V) /\ l.kind = "same" /\ l.text = a[i]
      BY <2>3 DEF DLine
    <2> HIDE DEF l
    <2>5. Append(out, l) \in Seq(L)
      BY <1>2, <2>4, AppendProperties
    <2>6. x \in Walked(V, a, b)
      BY <2>1, <2>2, <2>5 DEF Walked, p, q
    <2>7. x.i + x.j >= i + j + 1
      BY <1>1, <1>2, <2>1
    <2>8. /\ Side(x.out, Sd) = Append(Side(out, Sd), a[i]) /\ Side(x.out, Sa) = Append(Side(out, Sa), a[i])
          /\ Side(x.out, Ss) = Append(Side(out, Ss), a[i])
      <3>1. out \in Seq(DLine(V)) /\ l.kind \in Sd /\ l.kind \in Sa /\ l.kind \in Ss
        BY <1>2, <2>4
      <3> HIDE DEF Sd, Sa, Ss
      <3> QED BY <2>1, <2>4, <3>1, SideAppend
    <2>9. Len(Side(x.out, Ss)) = Len(Side(out, Ss)) + 1
      BY <1>5, <2>3, <2>8, AppendProperties
    <2>10. dp[<<i, j>>] = dp[<<i + 1, j + 1>>] + 1 /\ dp[<<i + 1, j + 1>>] \in Nat
      <3>1. ~(i > p \/ j > q)
        BY <1>1, <2>2
      <3>2. dp[<<i + 1, j + 1>>] \in Nat
        BY <1>3, <2>2
      <3> QED BY <1>2, <1>3, <1>6, <3>1, <3>2, Zenon
    <2>11. x.i - 1 = i /\ x.j - 1 = j
      BY <1>1, <1>2, <2>1
    <2>12. ASSUME DiffInv(w, a, b) PROVE DiffInv(x, a, b)
      <3>1. /\ Side(out, Sd) = SubSeq(a, 1, i - 1) /\ Side(out, Sa) = SubSeq(b, 1, j - 1)
            /\ Len(Side(out, Ss)) + dp[<<i, j>>] = dp[<<1, 1>>]
        BY <2>12 DEF DiffInv, i, j, out, dp
      <3>2. Side(x.out, Sd) = SubSeq(a, 1, x.i - 1)
        BY <2>3, <2>8, <2>11, <3>1
      <3>3. Side(x.out, Sa) = SubSeq(b, 1, x.j - 1)
        BY <1>6, <2>3, <2>8, <2>11, <3>1
      <3>4. Len(Side(x.out, Ss)) + dp[<<x.i, x.j>>] = dp[<<1, 1>>]
        <4>1. Len(Side(out, Ss)) \in Nat
          BY <1>5
        <4>2. dp[<<x.i, x.j>>] = dp[<<i + 1, j + 1>>]
          BY <2>1
        <4>3. (Len(Side(out, Ss)) + 1) + dp[<<i + 1, j + 1>>] = Len(Side(out, Ss)) + (dp[<<i + 1, j + 1>>] + 1)
          <5> DEFINE A == Len(Side(out, Ss))
                     B == dp[<<i + 1, j + 1>>]
          <5>1. A \in Nat /\ B \in Nat
            BY <2>10, <4>1
          <5> HIDE DEF A, B
          <5>2. (A + 1) + B = A + (B + 1)
            BY <5>1
          <5> QED BY <5>2 DEF A, B
        <4> QED BY <2>9, <2>10, <3>1, <4>2, <4>3
      <3> QED BY <3>2, <3>3, <3>4 DEF DiffInv, dp
    <2> QED BY <2>6, <2>7, <2>12 DEF x, i, j, dp, WalkOn
  \* A line that only a has.
  <1>7. CASE ~(i <= p /\ j <= q /\ a[i] = b[j]) /\ i <= p /\ (j > q \/ GoDel(dp, i, j))
    <2> DEFINE l == [kind |-> "del", text |-> a[i]]
    <2>1. x = [i |-> i + 1, j |-> j + 0, out |-> Append(out, l)]
      BY <1>7, Zenon DEF walk
    <2> HIDE DEF x, i, j, out, p, q, dp
    <2>2. i \in 1..p /\ i + 1 \in 1..p + 1 /\ j + 0 = j
      BY <1>1, <1>2, <1>7
    <2>3. SubSeq(a, 1, i - 1) \in Seq(V) /\ a[i] \in V /\ SubSeq(a, 1, i) = Append(SubSeq(a, 1, i - 1), a[i])
      BY <2>2, OneMore DEF p
    <2>4. l \in DLine(V) /\ l.kind = "del" /\ l.text = a[i]
      BY <2>3 DEF DLine
    <2> HIDE DEF l
    <2>5. Append(out, l) \in Seq(L)
      BY <1>2, <2>4, AppendProperties
    <2>6. x \in Walked(V, a, b)
      BY <1>2, <2>1, <2>2, <2>5 DEF Walked, p, q
    <2>7. x.i + x.j >= i + j + 1
      BY <1>1, <1>2, <2>1
    <2>8. /\ Side(x.out, Sd) = Append(Side(out, Sd), a[i]) /\ Side(x.out, Sa) = Side(out, Sa)
          /\ Side(x.out, Ss) = Side(out, Ss)
      <3>1. out \in Seq(DLine(V)) /\ l.kind \in Sd /\ l.kind \notin Sa /\ l.kind \notin Ss
        BY <1>2, <2>4
      <3> HIDE DEF Sd, Sa, Ss
      <3> QED BY <2>1, <2>4, <3>1, SideAppend
    <2>9. dp[<<i, j>>] = dp[<<i + 1, j>>]
      <3>1. CASE j > q
        <4>1. dp[<<i, j>>] = 0 /\ dp[<<i + 1, j>>] = 0
          BY <1>2, <1>3, <2>2, <3>1, Zenon
        <4> QED BY <4>1
      <3>2. CASE ~(j > q)
        <4>1. ~(i > p \/ j > q) /\ a[i] # b[j] /\ j + 1 \in 1..q + 1
          BY <1>1, <1>2, <1>7, <2>2, <3>2
        <4>2. dp[<<i, j>>] = Larger(dp[<<i + 1, j>>], dp[<<i, j + 1>>])
          BY <1>2, <1>3, <4>1, Zenon
        <4>3. dp[<<i + 1, j>>] >= dp[<<i, j + 1>>]
          BY <1>7, <3>2 DEF GoDel
        <4> QED BY <4>2, <4>3 DEF Larger
      <3> QED BY <3>1, <3>2
    <2>11. x.i - 1 = i /\ x.j = j /\ x.i = i + 1
      BY <1>1, <1>2, <2>1
    <2>12. ASSUME DiffInv(w, a, b) PROVE DiffInv(x, a, b)
      <3>1. /\ Side(out, Sd) = SubSeq(a, 1, i - 1) /\ Side(out, Sa) = SubSeq(b, 1, j - 1)
            /\ Len(Side(out, Ss)) + dp[<<i, j>>] = dp[<<1, 1>>]
        BY <2>12 DEF DiffInv, i, j, out, dp
      <3>2. Side(x.out, Sd) = SubSeq(a, 1, x.i - 1)
        BY <2>3, <2>8, <2>11, <3>1
      <3>3. Side(x.out, Sa) = SubSeq(b, 1, x.j - 1)
        BY <2>8, <2>11, <3>1
      <3>4. Len(Side(x.out, Ss)) + dp[<<x.i, x.j>>] = dp[<<1, 1>>]
        BY <2>8, <2>9, <2>11, <3>1
      <3> QED BY <3>2, <3>3, <3>4 DEF DiffInv, dp
    <2> QED BY <2>6, <2>7, <2>12 DEF x, i, j, dp, WalkOn
  \* A line that only b has.
  <1>8. CASE ~(i <= p /\ j <= q /\ a[i] = b[j]) /\ ~(i <= p /\ (j > q \/ GoDel(dp, i, j))) /\ j <= q
    <2> DEFINE l == [kind |-> "add", text |-> b[j]]
    <2>1. x = [i |-> i + 0, j |-> j + 1, out |-> Append(out, l)]
      BY <1>8, Zenon DEF walk
    <2> HIDE DEF x, i, j, out, p, q, dp
    <2>2. j \in 1..q /\ j + 1 \in 1..q + 1 /\ i + 0 = i
      BY <1>1, <1>2, <1>8
    <2>3. SubSeq(b, 1, j - 1) \in Seq(V) /\ b[j] \in V /\ SubSeq(b, 1, j) = Append(SubSeq(b, 1, j - 1), b[j])
      BY <2>2, OneMore DEF q
    <2>4. l \in DLine(V) /\ l.kind = "add" /\ l.text = b[j]
      BY <2>3 DEF DLine
    <2> HIDE DEF l
    <2>5. Append(out, l) \in Seq(L)
      BY <1>2, <2>4, AppendProperties
    <2>6. x \in Walked(V, a, b)
      BY <1>2, <2>1, <2>2, <2>5 DEF Walked, p, q
    <2>7. x.i + x.j >= i + j + 1
      BY <1>1, <1>2, <2>1
    <2>8. /\ Side(x.out, Sd) = Side(out, Sd) /\ Side(x.out, Sa) = Append(Side(out, Sa), b[j])
          /\ Side(x.out, Ss) = Side(out, Ss)
      <3>1. out \in Seq(DLine(V)) /\ l.kind \notin Sd /\ l.kind \in Sa /\ l.kind \notin Ss
        BY <1>2, <2>4
      <3> HIDE DEF Sd, Sa, Ss
      <3> QED BY <2>1, <2>4, <3>1, SideAppend
    <2>9. dp[<<i, j>>] = dp[<<i, j + 1>>]
      <3>1. CASE i > p
        <4>1. dp[<<i, j>>] = 0 /\ dp[<<i, j + 1>>] = 0
          BY <1>2, <1>3, <2>2, <3>1, Zenon
        <4> QED BY <4>1
      <3>2. CASE ~(i > p)
        <4>1. ~(i > p \/ j > q) /\ a[i] # b[j] /\ i + 1 \in 1..p + 1 /\ i <= p
          BY <1>1, <1>2, <1>8, <2>2, <3>2
        <4>2. dp[<<i, j>>] = Larger(dp[<<i + 1, j>>], dp[<<i, j + 1>>])
          BY <1>2, <1>3, <4>1, Zenon
        <4>3. ~(dp[<<i + 1, j>>] >= dp[<<i, j + 1>>])
          BY <1>8, <4>1 DEF GoDel
        <4> QED BY <4>2, <4>3 DEF Larger
      <3> QED BY <3>1, <3>2
    <2>11. x.j - 1 = j /\ x.i = i /\ x.j = j + 1
      BY <1>1, <1>2, <2>1
    <2>12. ASSUME DiffInv(w, a, b) PROVE DiffInv(x, a, b)
      <3>1. /\ Side(out, Sd) = SubSeq(a, 1, i - 1) /\ Side(out, Sa) = SubSeq(b, 1, j - 1)
            /\ Len(Side(out, Ss)) + dp[<<i, j>>] = dp[<<1, 1>>]
        BY <2>12 DEF DiffInv, i, j, out, dp
      <3>2. Side(x.out, Sd) = SubSeq(a, 1, x.i - 1)
        BY <2>8, <2>11, <3>1
      <3>3. Side(x.out, Sa) = SubSeq(b, 1, x.j - 1)
        BY <2>3, <2>8, <2>11, <3>1
      <3>4. Len(Side(x.out, Ss)) + dp[<<x.i, x.j>>] = dp[<<1, 1>>]
        BY <2>8, <2>9, <2>11, <3>1
      <3> QED BY <3>2, <3>3, <3>4 DEF DiffInv, dp
    <2> QED BY <2>6, <2>7, <2>12 DEF x, i, j, dp, WalkOn
  \* Both texts are over.
  <1>9. CASE ~(i <= p /\ j <= q /\ a[i] = b[j]) /\ ~(i <= p /\ (j > q \/ GoDel(dp, i, j))) /\ ~(j <= q)
    <2>1. x = w
      BY <1>9, Zenon DEF walk
    <2>2. i = p + 1 /\ j = q + 1
      <3> HIDE DEF i, j, p, q, dp
      <3> QED BY <1>1, <1>2, <1>9
    <2> QED BY <2>1, <2>2 DEF WalkOn
  <1> QED BY <1>6, <1>7, <1>8, <1>9

\* The walk and its rounds.
IsWalk(loop, a, b) ==
    /\ Diff(a, b) = loop[Len(a) + Len(b)].out
    /\ loop[0] = [i |-> 1, j |-> 1, out |-> <<>>]
    /\ \A n \in 1..Len(a) + Len(b) : loop[n] = walk(loop[n - 1], a, b, Lcs(a, b))

LEMMA DiffRounds ==
    ASSUME NEW V, NEW a \in Seq(V), NEW b \in Seq(V)
    PROVE  \E loop \in [0..Len(a) + Len(b) -> Walked(V, a, b)] : IsWalk(loop, a, b)
  <1> DEFINE a0 == [i |-> 1, j |-> 1, out |-> <<>>]
             N == Len(a) + Len(b)
             A == Walked(V, a, b)
             step(w) == walk(w, a, b, Lcs(a, b))
             d == [n \in 1..N |-> [w \in A |-> step(w)]]
             E(f) == [n \in 0..N |-> IF n = 0 THEN a0 ELSE step(f[n - 1])]
             loop == CHOOSE f : f = E(f)
  <1>1. N \in Nat /\ Len(a) \in Nat /\ Len(b) \in Nat
    BY LenProperties
  <1>2. a0 \in A
    <2>1. <<>> \in Seq(DLine(V))
      BY EmptySeq, Zenon
    <2>2. 1 \in 1..Len(a) + 1 /\ 1 \in 1..Len(b) + 1
      BY <1>1
    <2> QED BY <2>1, <2>2 DEF Walked
  <1>3. \A w \in A : step(w) \in A
    BY WalkStep
  <1>9. Diff(a, b) = loop[N].out
    BY Zenon DEF Diff
  <1> HIDE DEF A, N, a0, step
  <1>4. d \in [1..N -> [A -> A]]
    BY <1>3
  <1>5. \E g \in [0..N -> A] : Rounds(g, a0, N, d)
    <2> HIDE DEF d, E, loop
    <2> QED BY <1>1, <1>2, <1>4, Runs
  <1>6. PICK g \in [0..N -> A] : g[0] = a0 /\ \A n \in 1..N : g[n] = d[n][g[n - 1]]
    BY <1>5 DEF Rounds
  <1>7. g = E(g)
    <2>1. ASSUME NEW n \in 0..N PROVE g[n] = IF n = 0 THEN a0 ELSE step(g[n - 1])
      <3>1. CASE n = 0
        BY <1>6, <3>1
      <3>2. CASE n # 0
        <4>1. n \in 1..N /\ n - 1 \in 0..N
          BY <1>1, <3>2
        <4>2. g[n - 1] \in A
          BY <4>1
        <4> QED BY <1>6, <3>2, <4>1, <4>2
      <3> QED BY <3>1, <3>2
    <2> QED BY <2>1, Zenon
  <1>8. loop = E(loop)
    <2>1. \E f : f = E(f)
      BY <1>7
    <2> HIDE DEF E
    <2> QED BY <2>1
  <1> HIDE DEF loop
  <1> DEFINE S == {n \in 0..N : loop[n] \in A}
  <1>10. loop[0] = a0 /\ \A n \in 1..N : loop[n] = step(loop[n - 1])
    <2>1. \A n \in 0..N : loop[n] = IF n = 0 THEN a0 ELSE step(loop[n - 1])
      BY <1>8, Zenon
    <2> QED BY <1>1, <2>1
  <1>11. 0..N \subseteq S
    <2>1. 0 \in S
      BY <1>1, <1>2, <1>10
    <2>2. \A n \in 0..N - 1 : n \in S => n + 1 \in S
      BY <1>1, <1>3, <1>10
    <2> HIDE DEF S
    <2> QED BY <1>1, <2>1, <2>2, UpTo
  <1>12. loop \in [0..N -> A]
    <2>1. loop = [n \in 0..N |-> loop[n]]
      <3>1. E(loop) = [n \in 0..N |-> E(loop)[n]]
        OBVIOUS
      <3> HIDE DEF E
      <3> QED BY <1>8, <3>1
    <2> QED BY <1>11, <2>1
  <1>13. IsWalk(loop, a, b)
    BY <1>9, <1>10 DEF IsWalk, N, a0, step
  <1> QED BY <1>12, <1>13 DEF N, A

\* What a diff is, for any two texts.
LEMMA DiffIs ==
    ASSUME NEW V, NEW a \in Seq(V), NEW b \in Seq(V)
    PROVE  /\ Side(Diff(a, b), {"same", "del"}) = a
           /\ Side(Diff(a, b), {"same", "add"}) = b
           /\ Len(Side(Diff(a, b), {"same"})) = Lcs(a, b)[<<1, 1>>]
  <1> DEFINE p == Len(a)
             q == Len(b)
             N == p + q
             A == Walked(V, a, b)
             step(w) == walk(w, a, b, Lcs(a, b))
             z == <<>>
  <1>1. p \in Nat /\ q \in Nat /\ N \in Nat
    BY LenProperties
  <1>2. PICK loop \in [0..N -> A] :
           /\ Diff(a, b) = loop[N].out
           /\ loop[0] = [i |-> 1, j |-> 1, out |-> z]
           /\ \A n \in 1..N : loop[n] = step(loop[n - 1])
    <2>1. \E loop \in [0..N -> A] : IsWalk(loop, a, b)
      BY DiffRounds
    <2> QED BY <2>1 DEF IsWalk
  <1>3. ASSUME NEW w \in A
        PROVE step(w) \in A /\ WalkOn(w, step(w), a, b) /\ (DiffInv(w, a, b) => DiffInv(step(w), a, b))
    BY WalkStep
  <1>4. DiffInv(loop[0], a, b)
    <2>1. \A K : Side(z, K) = z
      <3>1. ASSUME NEW K PROVE Side(z, K) = z
        <4>1. [n \in DOMAIN z |-> IF z[n].kind \in K THEN <<z[n].text>> ELSE <<>>] = z
          OBVIOUS
        <4> QED BY <4>1, FlatEmpty, Zenon DEF Side
      <3> QED BY <3>1
    <2>2. SubSeq(a, 1, 1 - 1) = z /\ SubSeq(b, 1, 1 - 1) = z
      BY SubSeqEmpty
    <2>3. Len(z) = 0
      OBVIOUS
    <2>4. Lcs(a, b)[<<1, 1>>] \in Nat
      <3>1. 1 \in 1..Len(a) + 1 /\ 1 \in 1..Len(b) + 1
        BY <1>1
      <3> QED BY <3>1, LcsDef
    <2>5. loop[0].i = 1 /\ loop[0].j = 1 /\ loop[0].out = z
      BY <1>2
    <2> DEFINE o == loop[0]
    <2>6. o.i = 1 /\ o.j = 1 /\ o.out = z
      BY <2>5
    <2> HIDE DEF z, o
    <2>7. Side(o.out, {"same", "del"}) = SubSeq(a, 1, o.i - 1) /\ Side(o.out, {"same", "add"}) = SubSeq(b, 1, o.j - 1)
      BY <2>1, <2>2, <2>6
    <2>8. Len(Side(o.out, {"same"})) = 0 /\ Lcs(a, b)[<<o.i, o.j>>] = Lcs(a, b)[<<1, 1>>]
      BY <2>1, <2>3, <2>6
    <2>9. Len(Side(o.out, {"same"})) + Lcs(a, b)[<<o.i, o.j>>] = Lcs(a, b)[<<1, 1>>]
      BY <2>4, <2>8
    <2> QED BY <2>7, <2>9 DEF DiffInv, o
  <1> HIDE DEF step
  <1> DEFINE Done(w) == w.i = p + 1 /\ w.j = q + 1
             S == {n \in 0..N : /\ DiffInv(loop[n], a, b)
                                /\ Done(loop[n]) \/ loop[n].i + loop[n].j >= n + 2}
  <1>5. ASSUME NEW n \in 0..N PROVE loop[n] \in A /\ loop[n].i \in 1..p + 1 /\ loop[n].j \in 1..q + 1
    BY DEF Walked
  <1>6. 0 \in S
    BY <1>1, <1>2, <1>4
  <1> HIDE DEF A, N, p, q, z
  <1>7. ASSUME NEW n \in 0..N - 1, n \in S PROVE n + 1 \in S
    <2> DEFINE w == loop[n]
               x == loop[n + 1]
    <2>1. n \in 0..N /\ n + 1 \in 0..N /\ n + 1 \in 1..N /\ (n + 1) - 1 = n
      BY <1>1
    <2>2. w \in A /\ w.i \in 1..p + 1 /\ w.j \in 1..q + 1
      BY <1>5, <2>1
    <2>3. x \in A /\ x.i \in 1..p + 1 /\ x.j \in 1..q + 1
      BY <1>5, <2>1
    <2>4. x = step(w)
      BY <1>2, <2>1
    <2>5. DiffInv(w, a, b) /\ (Done(w) \/ w.i + w.j >= n + 2)
      BY <1>7
    <2> HIDE DEF w, x
    <2>6. WalkOn(w, x, a, b) /\ DiffInv(x, a, b)
      BY <1>3, <2>2, <2>4, <2>5
    <2>7. (x = w /\ Done(w)) \/ x.i + x.j >= w.i + w.j + 1
      BY <2>6 DEF WalkOn, p, q
    <2>8. Done(x) \/ x.i + x.j >= (n + 1) + 2
      <3>1. CASE x = w /\ Done(w)
        BY <3>1
      <3>2. CASE x.i + x.j >= w.i + w.j + 1 /\ Done(w)
        BY <1>1, <2>2, <2>3, <3>2
      <3>3. CASE x.i + x.j >= w.i + w.j + 1 /\ w.i + w.j >= n + 2
        BY <2>2, <2>3, <3>3
      <3> QED BY <2>5, <2>7, <3>1, <3>2, <3>3
    <2> QED BY <2>1, <2>6, <2>8 DEF x
  <1>8. 0..N \subseteq S
    <2> HIDE DEF S
    <2> QED BY <1>1, <1>6, <1>7, UpTo
  <1> DEFINE w == loop[N]
  <1>9. N \in 0..N
    BY <1>1
  <1>10. DiffInv(w, a, b) /\ (Done(w) \/ w.i + w.j >= N + 2)
    BY <1>8, <1>9
  <1>11. w.i \in 1..p + 1 /\ w.j \in 1..q + 1
    BY <1>5, <1>9
  <1> HIDE DEF w
  <1>12. w.i = p + 1 /\ w.j = q + 1
    BY <1>1, <1>10, <1>11 DEF N
  <1>13. SubSeq(a, 1, w.i - 1) = a /\ SubSeq(b, 1, w.j - 1) = b
    <2>1. w.i - 1 = p /\ w.j - 1 = q
      BY <1>1, <1>12
    <2> QED BY <2>1, SubSeqFull DEF p, q
  <1>14. Lcs(a, b)[<<w.i, w.j>>] = 0
    <2>1. p + 1 \in 1..p + 1 /\ q + 1 \in 1..q + 1 /\ (p + 1 > p \/ q + 1 > q)
      BY <1>1
    <2>2. ASSUME NEW i \in 1..p + 1, NEW j \in 1..q + 1, i > p \/ j > q PROVE Lcs(a, b)[<<i, j>>] = 0
      <3>1. i \in 1..Len(a) + 1 /\ j \in 1..Len(b) + 1 /\ (i > Len(a) \/ j > Len(b))
        BY <2>2 DEF p, q
      <3>2. /\ Lcs(a, b)[<<i, j>>] \in Nat
            /\ Lcs(a, b)[<<i, j>>] = IF i > Len(a) \/ j > Len(b) THEN 0
                                     ELSE IF a[i] = b[j] THEN Lcs(a, b)[<<i + 1, j + 1>>] + 1
                                     ELSE Larger(Lcs(a, b)[<<i + 1, j>>], Lcs(a, b)[<<i, j + 1>>])
        BY <3>1, LcsDef
      <3> QED BY <3>1, <3>2, Zenon
    <2>3. Lcs(a, b)[<<p + 1, q + 1>>] = 0
      BY <2>1, <2>2
    <2> QED BY <1>12, <2>3
  <1>15. w.out = Diff(a, b)
    BY <1>2 DEF w
  <1>16. /\ Side(w.out, {"same", "del"}) = a /\ Side(w.out, {"same", "add"}) = b
         /\ Len(Side(w.out, {"same"})) + 0 = Lcs(a, b)[<<1, 1>>]
    BY <1>10, <1>13, <1>14 DEF DiffInv
  <1>17. Len(Side(w.out, {"same"})) \in Nat
    <2>1. w.out \in Seq(DLine(V))
      BY <1>9 DEF A, Walked, w
    <2>2. Side(w.out, {"same"}) \in Seq(V)
      BY <2>1, SideIs
    <2> QED BY <2>2, LenProperties
  <1> QED BY <1>15, <1>16, <1>17

\* The lines of a text.
LEMMA SplitType ==
    ASSUME NEW C, nl \in C, NEW s \in Seq(C)
    PROVE  Split(s) \in Seq(Seq(C)) /\ SplitCr(s) \in Seq(Seq(C))
  <1> DEFINE sep == <<nl>>
             c == cutAll(s, sep)
             T == Seq(C)
             ls == Split(s)
             cs == SplitCr(s)
  <1>1. sep \in Seq(C) /\ Len(sep) > 0
    OBVIOUS
  <1>2. ls = Append(c.parts, c.rest)
    BY DEF Split
  <1>3. cs = [i \in DOMAIN ls |-> IF i < Len(ls) THEN DropCr(ls[i]) ELSE ls[i]]
    BY DEF SplitCr
  <1> HIDE DEF sep, ls, cs
  <1>4. c.parts \in Seq(T) /\ c.rest \in T
    BY <1>1, CutIsReading
  <1> HIDE DEF c
  <1>5. \A l \in T : DropCr(l) \in T
    <2>1. ASSUME NEW l \in T PROVE DropCr(l) \in T
      <3>1. CASE EndsWith(l, cr)
        <4>1. Len(l) \in Nat /\ l # <<>>
          BY <3>1, LenProperties DEF EndsWith
        <4>2. Len(l) - 1 \in Int /\ Len(l) - 1 <= Len(l) /\ 1 <= (Len(l) - 1) + 1
          BY <4>1, EmptySeq
        <4>3. SubSeq(l, 1, Len(l) - 1) \in Seq(C)
          BY <4>2, SubText
        <4> QED BY <3>1, <4>3 DEF DropCr, Front
      <3>2. CASE ~EndsWith(l, cr)
        BY <3>2 DEF DropCr
      <3> QED BY <3>1, <3>2
    <2> QED BY <2>1
  <1> HIDE DEF T
  <1>6. ls \in Seq(T)
    BY <1>2, <1>4, AppendProperties
  <1>7. DOMAIN ls = 1..Len(ls) /\ Len(ls) \in Nat /\ \A i \in 1..Len(ls) : ls[i] \in T
    BY <1>6, LenProperties, ElementOfSeq
  <1>8. cs \in [1..Len(ls) -> T]
    BY <1>3, <1>5, <1>7
  <1>9. cs \in Seq(T)
    BY <1>7, <1>8, SeqDef
  <1> QED BY <1>6, <1>9 DEF T, ls, cs

\* The two texts that the one that arrived is cut into.
LEMMA CutTypes ==
    ASSUME ReadersInv, NEW c \in Cuts
    PROVE  c[1] \in Seq(Sym) /\ c[2] \in Seq(Sym)
  <1>1. PICK k \in 0..Len(text) : c = <<SubSeq(text, 1, k), SubSeq(text, k + 1, Len(text))>>
    BY DEF Cuts
  <1>2. text \in Seq(Sym) /\ Len(text) \in Nat
    BY LenProperties DEF ReadersInv
  <1>3. k \in Nat /\ 0 \in Nat /\ 0 <= k /\ k <= Len(text) /\ Len(text) <= Len(text)
    BY <1>1, <1>2
  <1>4. SubSeq(text, 0 + 1, k) \in Seq(Sym) /\ SubSeq(text, k + 1, Len(text)) \in Seq(Sym)
    BY <1>2, <1>3, Slice
  <1> QED BY <1>1, <1>4

\* Whatever the two texts, the diff is exact: each side is read back, and no more
\* lines could have been marked as unchanged.
THEOREM DiffExactHolds == ReaderSpec => []DiffExact
  <1>1. ASSUME ReadersInv, NEW c \in Cuts
        PROVE  LET a == SplitCr(c[1])
                   b == SplitCr(c[2])
                   d == lineDiff(c[1], c[2])
               IN  /\ Side(d, {"same", "del"}) = a
                   /\ Side(d, {"same", "add"}) = b
                   /\ \A n \in 1..Len(a) : \A f \in Rising(n, a), g \in Rising(n, b) :
                         (\A k \in 1..n : a[f[k]] = b[g[k]]) => n <= Len(Side(d, {"same"}))
    <2> DEFINE T == Seq(Sym)
               a == SplitCr(c[1])
               b == SplitCr(c[2])
    <2>1. nl \in Sym
      BY DEF Sym
    <2>2. a \in Seq(T) /\ b \in Seq(T)
      BY <1>1, <2>1, CutTypes, SplitType
    <2>3. lineDiff(c[1], c[2]) = Diff(a, b)
      BY DEF lineDiff
    <2> HIDE DEF a, b, T
    <2>4. /\ Side(Diff(a, b), {"same", "del"}) = a
          /\ Side(Diff(a, b), {"same", "add"}) = b
          /\ Len(Side(Diff(a, b), {"same"})) = Lcs(a, b)[<<1, 1>>]
      BY <2>2, DiffIs
    <2>5. ASSUME NEW n \in 1..Len(a), NEW f \in Rising(n, a), NEW g \in Rising(n, b),
                 \A k \in 1..n : a[f[k]] = b[g[k]]
          PROVE  n <= Len(Side(Diff(a, b), {"same"}))
      <3>1. n \in Nat
        OBVIOUS
      <3>2. n <= Lcs(a, b)[<<1, 1>>]
        BY <2>2, <2>5, <3>1, LcsBest
      <3> QED BY <2>4, <3>2
    <2> QED BY <2>3, <2>4, <2>5 DEF a, b
  <1>2. ReadersInv => DiffExact
    BY <1>1 DEF DiffExact
  <1> QED BY <1>2, ReadersInvariance, PTL

-----------------------------------------------------------------------------
(* The comparison modes.                                                   *)

\* The words read, and the one that has begun.
Reading(C) == [words : Seq(Seq(C)), word : Seq(C)]

LEMMA ReadType ==
    ASSUME NEW C, NEW w \in Reading(C)
    PROVE  /\ break(w) \in Reading(C) /\ break(w).word = <<>> /\ break(break(w)) = break(w)
           /\ \A c \in C : read(w, c) \in Reading(C)
  <1> DEFINE T == Seq(C)
             z == <<>>
  <1>1. w.words \in Seq(T) /\ w.word \in T /\ z \in T
    BY EmptySeq, Zenon DEF Reading
  <1>2. Append(w.words, w.word) \in Seq(T)
    <2> HIDE DEF T
    <2> QED BY <1>1, AppendProperties
  <1>3. break(w) \in Reading(C) /\ break(w).word = z
    <2>1. CASE w.word = z
      BY <2>1 DEF break
    <2>2. CASE w.word # z
      <3>1. break(w) = [words |-> Append(w.words, w.word), word |-> z]
        BY <2>2, Zenon DEF break
      <3> QED BY <1>1, <1>2, <3>1 DEF Reading
    <2> QED BY <2>1, <2>2
  <1>4. break(break(w)) = break(w)
    <2> DEFINE b == break(w)
    <2>1. b.word = <<>>
      BY <1>3
    <2> HIDE DEF b
    <2>2. break(b) = b
      BY <2>1 DEF break
    <2> QED BY <2>2 DEF b
  <1>5. ASSUME NEW c \in C PROVE read(w, c) \in Reading(C)
    <2>1. CASE c \in White
      BY <1>3, <2>1 DEF read
    <2>2. CASE c \notin White
      <3>1. Append(w.word, c) \in T
        BY <1>1, AppendProperties
      <3>2. read(w, c) = [w EXCEPT !.word = Append(w.word, c)]
        BY <2>2 DEF read
      <3> QED BY <1>1, <3>1, <3>2 DEF Reading
    <2> QED BY <2>1, <2>2
  <1> QED BY <1>3, <1>4, <1>5

IsReadAll(w, s) ==
    /\ readAll(s) = w[Len(s)]
    /\ w[0] = [words |-> <<>>, word |-> <<>>]
    /\ \A n \in 1..Len(s) : w[n] = read(w[n - 1], s[n])

LEMMA ReadAllRounds ==
    ASSUME NEW C, NEW s \in Seq(C)
    PROVE  \E w \in [0..Len(s) -> Reading(C)] : IsReadAll(w, s)
  <1> DEFINE a0 == [words |-> <<>>, word |-> <<>>]
             N == Len(s)
             A == Reading(C)
             d == [n \in 1..N |-> [w \in A |-> read(w, s[n])]]
             E(f) == [n \in 0..N |-> IF n = 0 THEN a0 ELSE read(f[n - 1], s[n])]
             loop == CHOOSE f : f = E(f)
  <1>1. N \in Nat /\ \A n \in 1..N : s[n] \in C
    BY LenProperties, ElementOfSeq
  <1>2. a0 \in A
    <2>1. <<>> \in Seq(Seq(C)) /\ <<>> \in Seq(C)
      BY EmptySeq, Zenon
    <2> QED BY <2>1 DEF Reading
  <1>3. \A n \in 1..N : \A w \in A : read(w, s[n]) \in A
    BY <1>1, ReadType
  <1>9. readAll(s) = loop[N]
    BY Zenon DEF readAll
  <1> HIDE DEF A, N, a0
  <1>4. d \in [1..N -> [A -> A]]
    BY <1>3
  <1>5. \E g \in [0..N -> A] : Rounds(g, a0, N, d)
    <2> HIDE DEF d, E, loop
    <2> QED BY <1>1, <1>2, <1>4, Runs
  <1>6. PICK g \in [0..N -> A] : g[0] = a0 /\ \A n \in 1..N : g[n] = d[n][g[n - 1]]
    BY <1>5 DEF Rounds
  <1>7. g = E(g)
    <2>1. ASSUME NEW n \in 0..N PROVE g[n] = IF n = 0 THEN a0 ELSE read(g[n - 1], s[n])
      <3>1. CASE n = 0
        BY <1>6, <3>1
      <3>2. CASE n # 0
        <4>1. n \in 1..N /\ n - 1 \in 0..N
          BY <1>1, <3>2
        <4>2. g[n - 1] \in A
          BY <4>1
        <4> QED BY <1>6, <3>2, <4>1, <4>2
      <3> QED BY <3>1, <3>2
    <2> QED BY <2>1, Zenon
  <1>8. loop = E(loop)
    <2>1. \E f : f = E(f)
      BY <1>7
    <2> HIDE DEF E
    <2> QED BY <2>1
  <1> HIDE DEF loop
  <1> DEFINE S == {n \in 0..N : loop[n] \in A}
  <1>10. loop[0] = a0 /\ \A n \in 1..N : loop[n] = read(loop[n - 1], s[n])
    <2>1. \A n \in 0..N : loop[n] = IF n = 0 THEN a0 ELSE read(loop[n - 1], s[n])
      BY <1>8, Zenon
    <2> QED BY <1>1, <2>1
  <1>11. 0..N \subseteq S
    <2>1. 0 \in S
      BY <1>1, <1>2, <1>10
    <2>2. \A n \in 0..N - 1 : n \in S => n + 1 \in S
      BY <1>1, <1>3, <1>10
    <2> HIDE DEF S
    <2> QED BY <1>1, <2>1, <2>2, UpTo
  <1>12. loop \in [0..N -> A]
    <2>1. loop = [n \in 0..N |-> loop[n]]
      <3>1. E(loop) = [n \in 0..N |-> E(loop)[n]]
        OBVIOUS
      <3> HIDE DEF E
      <3> QED BY <1>8, <3>1
    <2> QED BY <1>11, <2>1
  <1>13. IsReadAll(loop, s)
    BY <1>9, <1>10 DEF IsReadAll, N, a0
  <1> QED BY <1>12, <1>13 DEF N, A

LEMMA ReadAllType ==
    ASSUME NEW C, NEW s \in Seq(C)
    PROVE  readAll(s) \in Reading(C)
  <1>1. PICK w \in [0..Len(s) -> Reading(C)] : IsReadAll(w, s)
    BY ReadAllRounds
  <1>2. Len(s) \in 0..Len(s)
    <2>1. Len(s) \in Nat
      BY LenProperties
    <2> QED BY <2>1
  <1> QED BY <1>1, <1>2 DEF IsReadAll

LEMMA ReadAllEmpty == readAll(<<>>) = [words |-> <<>>, word |-> <<>>]
  <1>1. <<>> \in Seq({}) /\ Len(<<>>) = 0
    BY EmptySeq, Zenon
  <1>2. PICK w : IsReadAll(w, <<>>)
    BY <1>1, ReadAllRounds
  <1> QED BY <1>1, <1>2 DEF IsReadAll

LEMMA ReadAllAppend ==
    ASSUME NEW C, NEW s \in Seq(C), NEW c \in C
    PROVE  readAll(Append(s, c)) = read(readAll(s), c)
  <1> DEFINE N == Len(s)
             y == Append(s, c)
  <1>1. /\ y \in Seq(C) /\ Len(y) = N + 1 /\ y[N + 1] = c /\ N \in Nat
        /\ \A i \in 1..N : y[i] = s[i]
    BY AppendProperties, LenProperties
  <1> HIDE DEF y
  <1>2. PICK f \in [0..Len(s) -> Reading(C)] : IsReadAll(f, s)
    BY ReadAllRounds
  <1>3. PICK g \in [0..Len(y) -> Reading(C)] : IsReadAll(g, y)
    BY <1>1, ReadAllRounds
  <1> DEFINE S == {n \in 0..N : f[n] = g[n]}
  <1>4. 0..N \subseteq S
    <2>1. 0 \in S
      BY <1>1, <1>2, <1>3 DEF IsReadAll
    <2>2. ASSUME NEW n \in 0..N - 1, n \in S PROVE n + 1 \in S
      <3>1. n + 1 \in 1..N /\ n + 1 \in 1..Len(y) /\ (n + 1) - 1 = n /\ n + 1 \in 0..N
        BY <1>1
      <3>2. f[n + 1] = read(f[n], s[n + 1])
        BY <1>2, <3>1 DEF IsReadAll
      <3>3. g[n + 1] = read(g[n], y[n + 1])
        BY <1>3, <3>1 DEF IsReadAll
      <3> QED BY <1>1, <2>2, <3>1, <3>2, <3>3
    <2> HIDE DEF S, N
    <2> QED BY <1>1, <2>1, <2>2, UpTo
  <1>5. f[N] = g[N]
    <2>1. N \in 0..N
      BY <1>1
    <2> QED BY <1>4, <2>1
  <1>6. g[N + 1] = read(g[N], c)
    <2>1. N + 1 \in 1..Len(y) /\ (N + 1) - 1 = N
      BY <1>1
    <2>2. g[N + 1] = read(g[N], y[N + 1])
      BY <1>3, <2>1 DEF IsReadAll
    <2> QED BY <1>1, <2>2
  <1> QED BY <1>1, <1>2, <1>3, <1>5, <1>6 DEF y, IsReadAll

\* What is left of a text without its white space, one character after the other.
Visible(C) == [c \in C |-> IF c \in White THEN <<>> ELSE <<c>>]

LEMMA StripIs ==
    ASSUME NEW C, NEW s \in Seq(C)
    PROVE  /\ Visible(C) \in [C -> Seq(C)]
           /\ Strip(s) = FlatMap(Visible(C), s) /\ Strip(s) \in Seq(C)
  <1> DEFINE h == Visible(C)
  <1>1. h \in [C -> Seq(C)]
    <2>1. ASSUME NEW c \in C PROVE (IF c \in White THEN <<>> ELSE <<c>>) \in Seq(C)
      OBVIOUS
    <2> QED BY <2>1 DEF Visible
  <1>2. Strip(s) = FlatMap(h, s)
    <2>1. DOMAIN s = 1..Len(s) /\ \A i \in 1..Len(s) : s[i] \in C
      BY LenProperties, ElementOfSeq
    <2> DEFINE I == {i \in DOMAIN s : s[i] \notin White}
    <2>2. [i \in DOMAIN s |-> IF i \in I THEN <<s[i]>> ELSE <<>>] = Mapped(h, s)
      BY <2>1 DEF Mapped, Visible
    <2> QED BY <2>2, Zenon DEF Strip, Keep, FlatMap
  <1> QED BY <1>1, <1>2, FlatMapType

LEMMA StripEmpty == Strip(<<>>) = <<>>
  <1>1. <<>> \in Seq({})
    BY EmptySeq, Zenon
  <1> QED BY <1>1, StripIs, FlatMapEmpty

LEMMA StripAppend ==
    ASSUME NEW C, NEW s \in Seq(C), NEW c \in C
    PROVE  /\ c \in White => Strip(Append(s, c)) = Strip(s)
           /\ c \notin White => Strip(Append(s, c)) = Append(Strip(s), c)
  <1> DEFINE h == Visible(C)
  <1>1. Append(s, c) \in Seq(C)
    BY AppendProperties
  <1>2. h[c] = IF c \in White THEN <<>> ELSE <<c>>
    BY DEF Visible
  <1> HIDE DEF h
  <1>3. Strip(s) \in Seq(C)
    BY StripIs
  <1>4. Strip(Append(s, c)) = Strip(s) \o h[c]
    <2>1. h \in [C -> Seq(C)] /\ Strip(s) = FlatMap(h, s) /\ Strip(Append(s, c)) = FlatMap(h, Append(s, c))
      BY <1>1, StripIs DEF h
    <2> QED BY <2>1, FlatMapAppend
  <1>5. CASE c \in White
    <2>1. Strip(s) \o <<>> = Strip(s)
      BY <1>3, ConcatEmptySeq
    <2> QED BY <1>2, <1>4, <1>5, <2>1
  <1>6. CASE c \notin White
    <2>1. Append(Strip(s), c) = Strip(s) \o <<c>>
      BY <1>3, AppendIsConcat
    <2> QED BY <1>2, <1>4, <1>6, <2>1
  <1> QED BY <1>5, <1>6

LEMMA StripConcat ==
    ASSUME NEW C, NEW s \in Seq(C), NEW t \in Seq(C)
    PROVE  Strip(s \o t) = Strip(s) \o Strip(t)
  <1>1. s \o t \in Seq(C)
    BY ConcatProperties
  <1> DEFINE h == Visible(C)
  <1>2. /\ h \in [C -> Seq(C)] /\ Strip(s) = FlatMap(h, s) /\ Strip(t) = FlatMap(h, t)
        /\ Strip(s \o t) = FlatMap(h, s \o t)
    BY <1>1, StripIs
  <1> HIDE DEF h
  <1> QED BY <1>2, FlatMapConcat

\* What a word's end adds.
LEMMA BreakFlat ==
    ASSUME NEW C, NEW w \in Reading(C)
    PROVE  FlattenSeq(break(w).words) = FlattenSeq(w.words) \o w.word
  <1>1. w.words \in Seq(Seq(C)) /\ w.word \in Seq(C)
    BY DEF Reading
  <1>2. CASE w.word = <<>>
    <2>1. FlattenSeq(w.words) \o <<>> = FlattenSeq(w.words)
      BY <1>1, FlatType, ConcatEmptySeq
    <2>2. break(w) = w
      BY <1>2 DEF break
    <2> QED BY <1>2, <2>1, <2>2
  <1>3. CASE w.word # <<>>
    <2>1. break(w).words = Append(w.words, w.word)
      BY <1>3 DEF break
    <2> QED BY <1>1, <2>1, FlatAppend
  <1> QED BY <1>2, <1>3

\* The words of a text, one after the other, are the text without white space.
LEMMA WordsFlat ==
    ASSUME NEW C, NEW s \in Seq(C)
    PROVE  Strip(s) = FlattenSeq(Words(s))
  <1> DEFINE F(t) == FlattenSeq(readAll(t).words) \o readAll(t).word
             S == {t \in Seq(C) : Strip(t) = F(t)}
  <1>1. <<>> \in S
    <2>1. readAll(<<>>).words = <<>> /\ readAll(<<>>).word = <<>>
      BY ReadAllEmpty
    <2>2. <<>> \o <<>> = <<>>
      OBVIOUS
    <2>3. <<>> \in Seq(C)
      BY EmptySeq, Zenon
    <2>4. Strip(<<>>) = F(<<>>)
      BY <2>1, <2>2, StripEmpty, FlatEmpty
    <2> QED BY <2>3, <2>4
  <1>2. ASSUME NEW t \in Seq(C), NEW c \in C, t \in S PROVE Append(t, c) \in S
    <2> DEFINE w == readAll(t)
               x == readAll(Append(t, c))
    <2>1. w \in Reading(C) /\ x = read(w, c) /\ Append(t, c) \in Seq(C)
      BY ReadAllType, ReadAllAppend, AppendProperties
    <2>2. Strip(t) = FlattenSeq(w.words) \o w.word
      BY <1>2
    <2> HIDE DEF w, x
    <2>3. w.words \in Seq(Seq(C)) /\ w.word \in Seq(C)
      BY <2>1 DEF Reading
    <2>4. Strip(Append(t, c)) = FlattenSeq(x.words) \o x.word
      <3>1. CASE c \in White
        <4>1. x = break(w)
          BY <2>1, <3>1 DEF read
        <4>2. x.word = <<>> /\ FlattenSeq(x.words) = FlattenSeq(w.words) \o w.word
          BY <2>1, <4>1, ReadType, BreakFlat
        <4>3. FlattenSeq(x.words) \o <<>> = FlattenSeq(x.words)
          <5>1. x.words \in Seq(Seq(C))
            BY <2>1, <4>1, ReadType DEF Reading
          <5> QED BY <5>1, FlatType, ConcatEmptySeq
        <4>4. Strip(Append(t, c)) = Strip(t)
          BY <3>1, StripAppend
        <4> QED BY <2>2, <4>2, <4>3, <4>4
      <3>2. CASE c \notin White
        <4>1. x.words = w.words /\ x.word = Append(w.word, c)
          BY <2>1, <3>2 DEF read, Reading
        <4>2. Strip(Append(t, c)) = Append(Strip(t), c)
          BY <3>2, StripAppend
        <4>3. FlattenSeq(w.words) \o Append(w.word, c) = Append(FlattenSeq(w.words) \o w.word, c)
          <5> DEFINE A == FlattenSeq(w.words)
                     B == w.word
          <5>1. A \in Seq(C) /\ B \in Seq(C)
            BY <2>3, FlatType
          <5> HIDE DEF A, B
          <5>2. A \o Append(B, c) = Append(A \o B, c)
            BY <5>1, AppendAfter
          <5> QED BY <5>2 DEF A, B
        <4> QED BY <2>2, <4>1, <4>2, <4>3
      <3> QED BY <3>1, <3>2
    <2>5. Strip(Append(t, c)) = F(Append(t, c))
      BY <2>4 DEF x
    <2> QED BY <2>1, <2>5
  <1>3. Strip(s) = F(s)
    <2>1. Seq(C) \subseteq S
      <3> HIDE DEF S
      <3> QED BY <1>1, <1>2, Longer
    <2> QED BY <2>1
  <1> DEFINE all == break(readAll(s)).words
  <1>4. FlattenSeq(all) = F(s)
    BY ReadAllType, BreakFlat
  <1>5. CASE all = <<>>
    <2>1. Words(s) = << <<>> >>
      BY <1>5 DEF Words
    <2>2. << <<>> >> = Append(<<>>, <<>>)
      OBVIOUS
    <2>3. FlattenSeq(Append(<<>>, <<>>)) = FlattenSeq(<<>>) \o <<>>
      <3>1. <<>> \in Seq(Seq(C)) /\ <<>> \in Seq(C)
        BY EmptySeq, Zenon
      <3> QED BY <3>1, FlatAppend
    <2>4. <<>> \o <<>> = <<>>
      OBVIOUS
    <2> QED BY <1>3, <1>4, <1>5, <2>1, <2>2, <2>3, <2>4, FlatEmpty
  <1>6. CASE all # <<>>
    <2>1. Words(s) = all
      BY <1>6 DEF Words
    <2> QED BY <1>3, <1>4, <2>1
  <1> QED BY <1>5, <1>6

\* White space at the end of a text changes no word.
LEMMA WordsWhite ==
    ASSUME NEW C, NEW s \in Seq(C), NEW c \in C, c \in White
    PROVE  Words(Append(s, c)) = Words(s)
  <1>1. readAll(s) \in Reading(C) /\ readAll(Append(s, c)) = break(readAll(s))
    BY ReadAllType, ReadAllAppend DEF read
  <1>2. break(break(readAll(s))) = break(readAll(s))
    BY <1>1, ReadType
  <1> QED BY <1>1, <1>2 DEF Words

\* A text without the white space it ends in.
LEMMA WordsFront ==
    ASSUME NEW C, NEW s \in Seq(C), NEW c \in White, EndsWith(s, c)
    PROVE  Front(s) \in Seq(C) /\ Words(Front(s)) = Words(s) /\ Strip(Front(s)) = Strip(s)
  <1>1. s # <<>> /\ Last(s) = c
    BY DEF EndsWith
  <1>2. PICK u \in Seq(C), x \in C : s = Append(u, x)
    BY <1>1, SequenceEmptyOrAppend
  <1>3. Len(u) \in Nat /\ Len(s) = Len(u) + 1 /\ s[Len(u) + 1] = x /\ \A i \in 1..Len(u) : s[i] = u[i]
    BY <1>2, AppendProperties, LenProperties
  <1>4. x = c
    BY <1>1, <1>3 DEF Last
  <1>5. Front(s) = u
    <2>1. Front(s) = SubSeq(s, 0 + 1, Len(u))
      BY <1>3 DEF Front
    <2>2. 0 \in Nat /\ 0 <= Len(u) /\ Len(u) <= Len(s) /\ Len(u) = Len(u) - 0
          /\ \A i \in 1..Len(u) : u[i] = s[0 + i]
      BY <1>3
    <2>3. SubSeq(s, 0 + 1, Len(u)) = u
      BY <1>3, <2>2, SliceIs
    <2> QED BY <2>1, <2>3
  <1> QED BY <1>2, <1>4, <1>5, WordsWhite, StripAppend

\* The blanks that norm leaves out are white, and so is what comes next.
LEMMA GoesWhite ==
    ASSUME NEW C, NEW s \in Seq(C), NEW i \in 1..Len(s), Goes(s, i)
    PROVE  i < Len(s) /\ s[i] \in White /\ s[i + 1] \in White
  <1>1. Len(s) \in Nat
    BY LenProperties
  <1>2. PICK j \in i + 1..Len(s) : /\ \A k \in i..j - 1 : s[k] \in Blank
                                   /\ s[j] = nl \/ (s[j] = cr /\ j < Len(s) /\ s[j + 1] = nl)
    BY DEF Goes
  <1>3. i < Len(s) /\ i \in i..j - 1
    BY <1>1, <1>2
  <1>4. s[i] \in White
    BY <1>2, <1>3 DEF White
  <1>5. CASE j = i + 1
    BY <1>2, <1>3, <1>4, <1>5 DEF White
  <1>6. CASE j # i + 1
    <2>1. i + 1 \in i..j - 1
      BY <1>1, <1>2, <1>6
    <2> QED BY <1>2, <1>3, <1>4, <2>1 DEF White
  <1> QED BY <1>5, <1>6

\* Leaving out white space before white space changes no word: the words read so
\* far are the same, or only the end of one is still to be read.
LEMMA WordsKeep ==
    ASSUME NEW C, NEW s \in Seq(C), NEW I,
           \A i \in 1..Len(s) : i \notin I => i < Len(s) /\ s[i] \in White /\ s[i + 1] \in White
    PROVE  Keep(s, I) \in Seq(C) /\ Words(Keep(s, I)) = Words(s)
  <1> DEFINE N == Len(s)
             e == [i \in DOMAIN s |-> IF i \in I THEN <<s[i]>> ELSE <<>>]
             T == Seq(C)
  <1>1. N \in Nat /\ DOMAIN s = 1..N /\ \A i \in 1..N : s[i] \in C
    BY LenProperties, ElementOfSeq
  <1>2. e \in [1..N -> T]
    <2>1. ASSUME NEW i \in 1..N PROVE (IF i \in I THEN <<s[i]>> ELSE <<>>) \in Seq(C)
      <3>1. s[i] \in C
        BY <1>1
      <3> QED BY <3>1
    <2> QED BY <1>1, <2>1
  <1>3. e \in Seq(T) /\ Len(e) = N
    <2> HIDE DEF e, T, N
    <2>1. e \in Seq(T)
      BY <1>1, <1>2, SeqDef
    <2>2. DOMAIN e = 1..Len(e) /\ DOMAIN e = 1..N /\ Len(e) \in Nat
      BY <1>2, <2>1, LenProperties
    <2> QED BY <1>1, <2>1, <2>2, SameRange
  <1>4. /\ \A i \in 1..N : i \in I => e[i] = <<s[i]>>
        /\ \A i \in 1..N : i \notin I => e[i] = <<>>
    BY <1>1
  <1>5. Keep(s, I) = FlattenSeq(e)
    BY Zenon DEF Keep
  <1> HIDE DEF e
  <1>6. PICK f \in [0..Len(e) -> Seq(C)] : IsFlat(f, e) /\ FlattenSeq(e) = f[Len(e)]
    BY <1>3, FlatRounds
  <1>7. PICK w \in [0..Len(s) -> Reading(C)] : IsReadAll(w, s)
    BY ReadAllRounds
  <1> HIDE DEF N, T
  <1>8. ASSUME NEW n \in 0..N PROVE f[n] \in Seq(C) /\ w[n] \in Reading(C) /\ readAll(f[n]) \in Reading(C)
    <2>1. f[n] \in Seq(C)
      BY <1>3, <1>6
    <2>2. w[n] \in Reading(C)
      BY <1>7 DEF N
    <2> QED BY <2>1, <2>2, ReadAllType
  <1> DEFINE R(n) == readAll(f[n])
             S == {n \in 0..N : w[n] = R(n) \/ (w[n] = break(R(n)) /\ n < N /\ s[n + 1] \in White)}
  <1>9. 0 \in S
    <2>1. f[0] = <<>>
      BY <1>6 DEF IsFlat
    <2>2. w[0] = R(0)
      BY <1>7, <2>1, ReadAllEmpty DEF IsReadAll
    <2> HIDE DEF R
    <2> QED BY <1>1, <2>2
  <1>10. ASSUME NEW n \in 0..N - 1, n \in S PROVE n + 1 \in S
    <2> DEFINE c == s[n + 1]
               r == R(n)
    <2>1. n \in 0..N /\ n + 1 \in 0..N /\ n + 1 \in 1..N /\ (n + 1) - 1 = n
      BY <1>1
    <2>2. c \in C
      BY <1>1, <2>1
    <2>3. w[n + 1] = read(w[n], c)
      BY <1>7, <2>1 DEF IsReadAll, N
    <2>4. f[n + 1] = f[n] \o e[n + 1]
      BY <1>3, <1>6, <2>1 DEF IsFlat
    <2>5. f[n] \in Seq(C) /\ w[n] \in Reading(C) /\ r \in Reading(C)
      BY <1>8, <2>1
    <2>6. w[n] = r \/ (w[n] = break(r) /\ c \in White)
      BY <1>10
    <2>7. break(break(r)) = break(r)
      <3> HIDE DEF r
      <3> QED BY <2>5, ReadType
    <2>8. CASE n + 1 \in I
      <3>1. f[n + 1] = Append(f[n], c)
        <4>1. f[n] \o <<c>> = Append(f[n], c)
          BY <2>2, <2>5, AppendIsConcat
        <4> QED BY <1>4, <2>1, <2>4, <2>8, <4>1
      <3>2. R(n + 1) = read(r, c)
        BY <2>2, <2>5, <3>1, ReadAllAppend
      <3> HIDE DEF r, c, R
      <3>3. w[n + 1] = read(r, c)
        BY <2>3, <2>6, <2>7 DEF read
      <3> QED BY <2>1, <3>2, <3>3
    <2>9. CASE n + 1 \notin I
      <3>1. n + 1 < N /\ c \in White /\ s[(n + 1) + 1] \in White
        BY <2>1, <2>9 DEF N
      <3>2. f[n + 1] = f[n]
        <4>1. f[n] \o <<>> = f[n]
          BY <2>5, ConcatEmptySeq
        <4> QED BY <1>4, <2>1, <2>4, <2>9, <4>1
      <3>3. R(n + 1) = r
        BY <3>2
      <3> HIDE DEF r, c, R
      <3>4. w[n + 1] = break(r)
        BY <2>3, <2>6, <2>7, <3>1 DEF read
      <3> QED BY <2>1, <3>1, <3>3, <3>4
    <2> QED BY <2>8, <2>9
  <1>11. 0..N \subseteq S
    <2> HIDE DEF S
    <2> QED BY <1>1, <1>9, <1>10, UpTo
  <1>12. w[N] = R(N)
    <2>1. N \in 0..N /\ ~(N < N)
      BY <1>1
    <2> QED BY <1>11, <2>1
  <1>13. readAll(s) = readAll(Keep(s, I))
    BY <1>3, <1>5, <1>6, <1>7, <1>12 DEF IsReadAll, N
  <1>14. Keep(s, I) \in Seq(C)
    BY <1>3, <1>5, FlatType DEF T
  <1> QED BY <1>13, <1>14 DEF Words

\* norm changes no word.
LEMMA WordsNorm ==
    ASSUME NEW C, NEW s \in Seq(C)
    PROVE  Words(norm(s)) = Words(s)
  <1> DEFINE I == {i \in DOMAIN s : ~Goes(s, i)}
             t == Keep(s, I)
  <1>1. ASSUME NEW i \in 1..Len(s), i \notin I PROVE i < Len(s) /\ s[i] \in White /\ s[i + 1] \in White
    <2>1. Goes(s, i)
      BY <1>1, LenProperties
    <2> QED BY <2>1, GoesWhite
  <1>2. norm(s) = IF EndsWith(t, nl) THEN DropCr(Front(t)) ELSE t
    BY DEF norm
  <1> HIDE DEF I
  <1>3. t \in Seq(C) /\ Words(t) = Words(s)
    BY <1>1, WordsKeep
  <1> HIDE DEF t
  <1>4. nl \in White /\ cr \in White
    BY DEF White
  <1>5. CASE ~EndsWith(t, nl)
    BY <1>2, <1>3, <1>5
  <1>6. CASE EndsWith(t, nl)
    <2> DEFINE u == Front(t)
    <2>1. u \in Seq(C) /\ Words(u) = Words(t)
      BY <1>3, <1>4, <1>6, WordsFront
    <2>2. norm(s) = DropCr(u)
      BY <1>2, <1>6
    <2> HIDE DEF u
    <2>3. CASE EndsWith(u, cr)
      BY <1>3, <1>4, <2>1, <2>2, <2>3, WordsFront DEF DropCr
    <2>4. CASE ~EndsWith(u, cr)
      BY <1>3, <2>1, <2>2, <2>4 DEF DropCr
    <2> QED BY <2>3, <2>4
  <1> QED BY <1>5, <1>6

\* Whatever a stricter mode accepts, the next one accepts.
THEOREM ModesOrderedHolds == ReaderSpec => []ModesOrdered
  <1>1. ASSUME ReadersInv, NEW c \in Cuts
        PROVE  /\ compare(c[1], c[2], "exact") => compare(c[1], c[2], "trim")
               /\ compare(c[1], c[2], "trim") => compare(c[1], c[2], "tokens")
               /\ compare(c[1], c[2], "tokens") => compare(c[1], c[2], "ignore-ws")
    <2> DEFINE x == c[1]
               y == c[2]
    <2>1. x \in Seq(Sym) /\ y \in Seq(Sym)
      BY <1>1, CutTypes
    <2> HIDE DEF x, y
    <2>2. norm(x) = norm(y) => Words(x) = Words(y)
      <3>1. Words(norm(x)) = Words(x) /\ Words(norm(y)) = Words(y)
        BY <2>1, WordsNorm
      <3> QED BY <3>1
    <2>3. Words(x) = Words(y) => Strip(x) = Strip(y)
      <3>1. Strip(x) = FlattenSeq(Words(x)) /\ Strip(y) = FlattenSeq(Words(y))
        BY <2>1, WordsFlat
      <3> QED BY <3>1
    <2>4. /\ compare(x, y, "exact") => compare(x, y, "trim")
          /\ compare(x, y, "trim") => compare(x, y, "tokens")
          /\ compare(x, y, "tokens") => compare(x, y, "ignore-ws")
      BY <2>2, <2>3 DEF compare, SameWords
    <2> QED BY <2>4 DEF x, y
  <1>2. ReadersInv => ModesOrdered
    BY <1>1 DEF ModesOrdered
  <1> QED BY <1>2, ReadersInvariance, PTL
-----------------------------------------------------------------------------
(* The formatter.                                                          *)

LEMMA SeqMono ==
    ASSUME NEW C, NEW D, D \subseteq C
    PROVE  Seq(D) \subseteq Seq(C)
  BY SeqDef

\* A text in which each place of s has become a text of its own.
IsRewrite(f, e, n) == f[0] = <<>> /\ FlattenSeq(e) = f[n] /\ \A i \in 1..n : f[i] = f[i - 1] \o e[i]

LEMMA Rewrite ==
    ASSUME NEW C, NEW n \in Nat, NEW e \in [1..n -> Seq(C)]
    PROVE  /\ FlattenSeq(e) \in Seq(C)
           /\ \E f \in [0..n -> Seq(C)] : IsRewrite(f, e, n)
  <1> DEFINE T == Seq(C)
  <1>1. e \in Seq(T) /\ Len(e) = n
    <2>1. e \in [1..n -> T]
      OBVIOUS
    <2> HIDE DEF T
    <2>2. e \in Seq(T)
      BY <2>1, SeqDef
    <2>3. DOMAIN e = 1..Len(e) /\ DOMAIN e = 1..n /\ Len(e) \in Nat
      BY <2>1, <2>2, LenProperties
    <2> QED BY <2>2, <2>3, SameRange
  <1>2. e \in Seq(Seq(C))
    BY <1>1
  <1>3. PICK f \in [0..Len(e) -> Seq(C)] : IsFlat(f, e) /\ FlattenSeq(e) = f[Len(e)]
    BY <1>2, FlatRounds
  <1>4. IsRewrite(f, e, n)
    BY <1>1, <1>3, Zenon DEF IsFlat, IsRewrite
  <1> QED BY <1>1, <1>2, <1>3, <1>4, FlatType

\* Nothing was rewritten.
LEMMA RewriteSame ==
    ASSUME NEW C, NEW s \in Seq(C), NEW e, e = [i \in DOMAIN s |-> <<s[i]>>]
    PROVE  FlattenSeq(e) = s
  <1> DEFINE N == Len(s)
  <1>1. N \in Nat /\ DOMAIN s = 1..N /\ \A i \in 1..N : s[i] \in C
    BY LenProperties, ElementOfSeq
  <1>2. e \in [1..N -> Seq(C)] /\ \A i \in 1..N : e[i] = <<s[i]>>
    <2>1. ASSUME NEW i \in 1..N PROVE <<s[i]>> \in Seq(C)
      <3>1. s[i] \in C
        BY <1>1
      <3> QED BY <3>1
    <2> QED BY <1>1, <2>1
  <1> HIDE DEF N
  <1>3. PICK f \in [0..N -> Seq(C)] : IsRewrite(f, e, N)
    BY <1>1, <1>2, Rewrite
  <1> DEFINE S == {n \in 0..N : f[n] = SubSeq(s, 1, n)}
  <1>4. 0 \in S
    <2>1. SubSeq(s, 1, 0) = <<>>
      BY SubSeqEmpty
    <2> QED BY <1>1, <1>3, <2>1 DEF IsRewrite
  <1>5. ASSUME NEW n \in 0..N - 1, n \in S PROVE n + 1 \in S
    <2>1. n + 1 \in 1..N /\ n + 1 \in 0..N /\ (n + 1) - 1 = n /\ n \in 0..N /\ n <= N /\ n \in Nat
      BY <1>1
    <2>2. f[n + 1] = f[n] \o <<s[n + 1]>>
      BY <1>2, <1>3, <2>1 DEF IsRewrite
    <2>3. SubSeq(s, 1, n + 1) = Append(SubSeq(s, 1, n), s[n + 1])
      BY <2>1, OneMore DEF N
    <2>4. f[n] = SubSeq(s, 1, n) /\ f[n] \in Seq(C) /\ s[n + 1] \in C
      BY <1>1, <1>3, <1>5, <2>1
    <2>5. Append(f[n], s[n + 1]) = f[n] \o <<s[n + 1]>>
      BY <2>4, AppendIsConcat
    <2>6. f[n + 1] = SubSeq(s, 1, n + 1)
      BY <2>2, <2>3, <2>4, <2>5
    <2> QED BY <2>1, <2>6
  <1>6. N \in S
    <2>1. N \in 0..N
      BY <1>1
    <2> HIDE DEF S
    <2>2. 0..N \subseteq S
      BY <1>1, <1>4, <1>5, UpTo
    <2> QED BY <2>1, <2>2
  <1>7. SubSeq(s, 1, N) = s
    BY SubSeqFull DEF N
  <1> QED BY <1>3, <1>6, <1>7 DEF IsRewrite

\* What is visible was not rewritten.
LEMMA RewriteStrip ==
    ASSUME NEW C, NEW s \in Seq(C), NEW e \in [1..Len(s) -> Seq(C)],
           \A i \in 1..Len(s) : Strip(e[i]) = Strip(<<s[i]>>)
    PROVE  Strip(FlattenSeq(e)) = Strip(s)
  <1> DEFINE N == Len(s)
  <1>1. N \in Nat /\ DOMAIN s = 1..N /\ \A i \in 1..N : s[i] \in C
    BY LenProperties, ElementOfSeq
  <1>2. e \in [1..N -> Seq(C)] /\ \A i \in 1..N : Strip(e[i]) = Strip(<<s[i]>>)
    OBVIOUS
  <1> HIDE DEF N
  <1>3. PICK f \in [0..N -> Seq(C)] : IsRewrite(f, e, N)
    BY <1>1, <1>2, Rewrite
  <1> DEFINE S == {n \in 0..N : Strip(f[n]) = Strip(SubSeq(s, 1, n))}
  <1>4. 0 \in S
    <2>1. SubSeq(s, 1, 0) = <<>>
      BY SubSeqEmpty
    <2>2. f[0] = SubSeq(s, 1, 0) /\ 0 \in 0..N
      BY <1>1, <1>3, <2>1 DEF IsRewrite
    <2>3. Strip(f[0]) = Strip(SubSeq(s, 1, 0))
      BY <2>2
    <2> QED BY <2>2, <2>3
  <1>5. ASSUME NEW n \in 0..N - 1, n \in S PROVE n + 1 \in S
    <2> DEFINE u == SubSeq(s, 1, n)
               c == s[n + 1]
    <2>1. n + 1 \in 1..N /\ n + 1 \in 0..N /\ (n + 1) - 1 = n /\ n \in 0..N /\ n <= N /\ n \in Nat
      BY <1>1
    <2>2. f[n + 1] = f[n] \o e[n + 1] /\ f[n] \in Seq(C) /\ e[n + 1] \in Seq(C) /\ c \in C
      BY <1>1, <1>2, <1>3, <2>1 DEF IsRewrite
    <2>3. SubSeq(s, 1, n + 1) = Append(u, c)
      BY <2>1, OneMore DEF N
    <2>4. u \in Seq(C)
      BY <2>1, SubText DEF N
    <2>5. Strip(f[n]) = Strip(u)
      BY <1>5
    <2> HIDE DEF u, c
    <2>6. Append(u, c) = u \o <<c>> /\ <<c>> \in Seq(C)
      BY <2>2, <2>4, AppendIsConcat
    <2>7. Strip(f[n + 1]) = Strip(f[n]) \o Strip(e[n + 1])
      BY <2>2, StripConcat
    <2>8. Strip(u \o <<c>>) = Strip(u) \o Strip(<<c>>)
      BY <2>4, <2>6, StripConcat
    <2>9. Strip(e[n + 1]) = Strip(<<c>>)
      BY <1>2, <2>1 DEF c
    <2>10. Strip(f[n + 1]) = Strip(SubSeq(s, 1, n + 1))
      BY <2>3, <2>5, <2>6, <2>7, <2>8, <2>9
    <2> QED BY <2>1, <2>10
  <1>6. N \in S
    <2>1. N \in 0..N
      BY <1>1
    <2> HIDE DEF S
    <2>2. 0..N \subseteq S
      BY <1>1, <1>4, <1>5, UpTo
    <2> QED BY <2>1, <2>2
  <1>7. SubSeq(s, 1, N) = s
    BY SubSeqFull DEF N
  <1> QED BY <1>3, <1>6, <1>7 DEF IsRewrite

\* What h makes nothing of may be left out at the end.
LEMMA FlatMapFront ==
    ASSUME NEW V, NEW C, NEW h \in [V -> Seq(C)], NEW s \in Seq(V), NEW k \in 0..Len(s),
           \A j \in k + 1..Len(s) : h[s[j]] = <<>>
    PROVE  SubSeq(s, 1, k) \in Seq(V) /\ FlatMap(h, SubSeq(s, 1, k)) = FlatMap(h, s)
  <1> DEFINE N == Len(s)
             M == N - k
             w == FlatMap(h, SubSeq(s, 1, k))
             S == {n \in 0..M : FlatMap(h, SubSeq(s, 1, k + n)) = w}
  <1>1. N \in Nat /\ DOMAIN s = 1..N /\ M \in Nat /\ \A i \in 1..N : s[i] \in V
    BY LenProperties, ElementOfSeq
  <1>2. ASSUME NEW n \in 0..N PROVE SubSeq(s, 1, n) \in Seq(V)
    BY <1>1, SubText
  <1>3. 0 \in S
    <2>1. k + 0 = k
      BY <1>1
    <2> QED BY <1>1, <2>1
  <1>4. ASSUME NEW n \in 0..M - 1, n \in S PROVE n + 1 \in S
    <2> DEFINE m == k + n
               u == SubSeq(s, 1, m)
    <2>1. /\ n + 1 \in 0..M /\ m \in 0..N /\ m + 1 \in 1..N /\ m + 1 \in k + 1..N
          /\ (m + 1) - 1 = m /\ k + (n + 1) = m + 1
      BY <1>1
    <2>2. u \in Seq(V) /\ s[m + 1] \in V
      BY <1>1, <1>2, <2>1
    <2>3. SubSeq(s, 1, m + 1) = Append(u, s[m + 1])
      <3> HIDE DEF m
      <3> QED BY <2>1, OneMore
    <2>4. FlatMap(h, u) = w
      BY <1>4
    <2>5. h[s[m + 1]] = <<>>
      BY <2>1
    <2> HIDE DEF u, m, w
    <2>6. FlatMap(h, Append(u, s[m + 1])) = FlatMap(h, u) \o <<>>
      <3> DEFINE c == s[m + 1]
      <3>1. c \in V /\ h[c] = <<>>
        BY <2>2, <2>5
      <3> HIDE DEF c
      <3>2. FlatMap(h, Append(u, c)) = FlatMap(h, u) \o h[c]
        BY <2>2, <3>1, FlatMapAppend
      <3> QED BY <3>1, <3>2 DEF c
    <2>7. FlatMap(h, u) \o <<>> = FlatMap(h, u)
      BY <2>2, FlatMapType, ConcatEmptySeq
    <2>8. FlatMap(h, SubSeq(s, 1, k + (n + 1))) = w
      BY <2>1, <2>3, <2>4, <2>6, <2>7
    <2> QED BY <2>1, <2>8
  <1>5. M \in S
    <2>1. M \in 0..M
      BY <1>1
    <2> HIDE DEF S, M
    <2>2. 0..M \subseteq S
      BY <1>1, <1>3, <1>4, UpTo
    <2> QED BY <2>1, <2>2
  <1>6. k + M = N /\ SubSeq(s, 1, N) = s
    BY <1>1, SubSeqFull
  <1> HIDE DEF M, N
  <1> QED BY <1>2, <1>5, <1>6 DEF N

\* A line and the newline that ends it.
WithNl(D) == [l \in Seq(D) |-> Append(l, nl)]

LEMMA JoinIs ==
    ASSUME NEW D, NEW C, D \subseteq C, nl \in C, NEW p \in Seq(Seq(D))
    PROVE  /\ WithNl(D) \in [Seq(D) -> Seq(C)]
           /\ Join(p) = FlatMap(WithNl(D), p) /\ Join(p) \in Seq(C)
  <1> DEFINE h == WithNl(D)
             T == Seq(D)
  <1>1. h \in [Seq(D) -> Seq(C)]
    <2>1. ASSUME NEW l \in Seq(D) PROVE Append(l, nl) \in Seq(C)
      <3>1. l \in Seq(C)
        BY SeqMono
      <3> QED BY <3>1, AppendProperties
    <2> QED BY <2>1 DEF WithNl
  <1>2. [i \in DOMAIN p |-> Append(p[i], nl)] = Mapped(h, p)
    <2>1. p \in Seq(T)
      OBVIOUS
    <2>2. \A l \in T : h[l] = Append(l, nl)
      BY DEF WithNl
    <2> HIDE DEF T, h
    <2>3. DOMAIN p = 1..Len(p) /\ \A i \in 1..Len(p) : p[i] \in T
      BY <2>1, LenProperties, ElementOfSeq
    <2>4. ASSUME NEW i \in DOMAIN p PROVE Append(p[i], nl) = h[p[i]]
      BY <2>2, <2>3
    <2> QED BY <2>4 DEF Mapped
  <1>3. Join(p) = FlatMap(h, p)
    BY <1>2, Zenon DEF Join, FlatMap
  <1> HIDE DEF h
  <1>4. FlatMap(h, p) \in Seq(C)
    BY <1>1, FlatMapType
  <1> QED BY <1>1, <1>3, <1>4 DEF h

LEMMA JoinEmpty == Join(<<>>) = <<>>
  <1>1. <<>> \in Seq(Seq({}))
    BY EmptySeq, Zenon
  <1>2. Join(<<>>) = FlatMap(WithNl({}), <<>>)
    BY <1>1, JoinIs
  <1> QED BY <1>2, FlatMapEmpty

LEMMA JoinAppend ==
    ASSUME NEW D, NEW C, D \subseteq C, nl \in C, NEW p \in Seq(Seq(D)), NEW l \in Seq(D)
    PROVE  Join(Append(p, l)) = Join(p) \o Append(l, nl)
  <1> DEFINE h == WithNl(D)
             T == Seq(D)
  <1>1. Append(p, l) \in Seq(Seq(D))
    <2>1. p \in Seq(T) /\ l \in T
      OBVIOUS
    <2> HIDE DEF T
    <2>2. Append(p, l) \in Seq(T)
      BY <2>1, AppendProperties
    <2> QED BY <2>2 DEF T
  <1>2. h \in [T -> Seq(C)] /\ h[l] = Append(l, nl) /\ p \in Seq(T) /\ l \in T
    BY JoinIs DEF WithNl
  <1>3. Join(p) = FlatMap(h, p) /\ Join(Append(p, l)) = FlatMap(h, Append(p, l))
    BY <1>1, JoinIs
  <1> HIDE DEF h, T
  <1>4. FlatMap(h, Append(p, l)) = FlatMap(h, p) \o h[l]
    BY <1>2, FlatMapAppend
  <1> QED BY <1>2, <1>3, <1>4

\* Every text is lines and then a last one.
InLines(D, u) == \E p \in Seq(Seq(D)), l \in Seq(D) : u = Join(p) \o l

LEMMA Lined ==
    ASSUME NEW D, NEW C, C = D \cup {nl}, NEW u \in Seq(C)
    PROVE  InLines(D, u)
  <1> DEFINE T == Seq(D)
             S == {v \in Seq(C) : \E p \in Seq(T), l \in T : v = Join(p) \o l}
             z == <<>>
  <1>1. z \in Seq(T) /\ z \in T /\ z \in Seq(C)
    BY EmptySeq, Zenon
  <1>2. \A p \in Seq(T) : Join(p) \in Seq(C)
    BY JoinIs
  <1>3. z \in S
    <2>1. Join(z) \o z = z
      <3>1. Join(z) = z
        BY JoinEmpty
      <3>2. z \o z = z
        OBVIOUS
      <3> QED BY <3>1, <3>2
    <2> HIDE DEF T, z
    <2> QED BY <1>1, <2>1
  <1>4. ASSUME NEW v \in Seq(C), NEW c \in C, v \in S PROVE Append(v, c) \in S
    <2>1. PICK p \in Seq(T), l \in T : v = Join(p) \o l
      BY <1>4
    <2>2. l \in Seq(C) /\ Join(p) \in Seq(C)
      BY <1>2, <2>1, SeqMono
    <2>3. Append(v, c) = Join(p) \o Append(l, c)
      <3> DEFINE J == Join(p)
      <3>1. J \in Seq(C)
        BY <2>2
      <3> HIDE DEF J
      <3>2. J \o Append(l, c) = Append(J \o l, c)
        BY <2>2, <3>1, AppendAfter
      <3> QED BY <2>1, <3>2 DEF J
    <2>4. Append(v, c) \in Seq(C)
      BY AppendProperties
    <2>5. CASE c = nl
      <3> DEFINE q == Append(p, l)
      <3>1. q \in Seq(T)
        <4> HIDE DEF T
        <4> QED BY <2>1, AppendProperties
      <3>2. Join(q) = Join(p) \o Append(l, nl)
        BY <2>1, JoinAppend
      <3>3. Join(q) \in Seq(C)
        BY <1>2, <3>1
      <3> HIDE DEF q, T
      <3>4. Join(q) \o z = Join(q)
        BY <3>3, ConcatEmptySeq
      <3>5. Append(v, c) = Join(q) \o z
        BY <2>3, <2>5, <3>2, <3>4
      <3> HIDE DEF z
      <3> QED BY <1>1, <2>4, <3>1, <3>5
    <2>6. CASE c # nl
      <3>1. c \in D
        BY <2>6
      <3>2. Append(l, c) \in T
        BY <2>1, <3>1, AppendProperties
      <3> HIDE DEF T
      <3> QED BY <2>1, <2>3, <2>4, <3>2
    <2> QED BY <2>5, <2>6
  <1>5. u \in S
    <2> HIDE DEF S
    <2>1. <<>> \in S
      BY <1>3
    <2>2. Seq(C) \subseteq S
      BY <1>4, <2>1, Longer
    <2> QED BY <2>2
  <1> QED BY <1>5 DEF InLines

\* Where the newlines are.
LEMMA NlAt ==
    ASSUME NEW C, nl \in C, NEW t \in Seq(C), NEW i \in Int
    PROVE  i \in At(t, <<nl>>) <=> i >= 1 /\ i <= Len(t) /\ t[i] = nl
  <1> DEFINE sep == <<nl>>
  <1>1. sep \in Seq(C) /\ Len(sep) > 0 /\ Len(sep) = 1 /\ sep[1] = nl
    OBVIOUS
  <1>2. Len(t) \in Nat
    BY LenProperties
  <1> HIDE DEF sep
  <1>3. i \in At(t, sep) <=>
            /\ i >= 1 /\ i + Len(sep) - 1 <= Len(t)
            /\ \A j \in 1..Len(sep) : t[i + j - 1] = sep[j]
    <2>1. sep \in Seq(C) /\ Len(sep) > 0
      BY <1>1
    <2> QED BY <2>1, AtDef
  <1>4. i + Len(sep) - 1 = i
    BY <1>1
  <1>5. (\A j \in 1..Len(sep) : t[i + j - 1] = sep[j]) <=> t[i] = nl
    <2>1. 1..Len(sep) = {1} /\ i + 1 - 1 = i
      BY <1>1
    <2> QED BY <1>1, <2>1
  <1> QED BY <1>2, <1>3, <1>4, <1>5 DEF sep

\* A line without newlines.
LEMMA NoNl ==
    ASSUME NEW D, NEW C, D \subseteq C, nl \in C, nl \notin D, NEW l \in Seq(D)
    PROVE  At(l, <<nl>>) = {} /\ At(l \o <<nl>>, <<nl>>) = {Len(l) + 1}
  <1> DEFINE sep == <<nl>>
             q == l \o sep
  <1>1. sep \in Seq(C) /\ Len(sep) = 1 /\ sep[1] = nl /\ l \in Seq(C)
    BY SeqMono
  <1>2. Len(l) \in Nat /\ \A i \in 1..Len(l) : l[i] \in D
    BY LenProperties, ElementOfSeq
  <1> HIDE DEF sep
  <1>3. q \in Seq(C) /\ Len(q) = Len(l) + 1 /\ q[Len(l) + 1] = nl /\ \A i \in 1..Len(l) : q[i] = l[i]
    <2>1. /\ q \in Seq(C) /\ Len(q) = Len(l) + Len(sep)
          /\ \A i \in 1..Len(l) : q[i] = l[i]
          /\ \A i \in 1..Len(sep) : q[Len(l) + i] = sep[i]
      BY <1>1, Both
    <2>2. 1 \in 1..Len(sep)
      BY <1>1
    <2>3. q[Len(l) + 1] = sep[1]
      BY <2>1, <2>2
    <2> HIDE DEF q
    <2> QED BY <1>1, <2>1, <2>3
  <1> HIDE DEF q
  <1>4. ASSUME NEW t \in Seq(C), NEW i \in Int
        PROVE  i \in At(t, sep) <=> i >= 1 /\ i <= Len(t) /\ t[i] = nl
    BY NlAt DEF sep
  <1>5. At(l, sep) \subseteq Int /\ At(q, sep) \subseteq Int
    <2>1. Len(sep) > 0
      BY <1>1
    <2>2. At(l, sep) \subseteq 1..Len(l) /\ At(q, sep) \subseteq 1..Len(q)
      BY <1>1, <1>3, <2>1, AtDef
    <2> QED BY <2>2
  <1>6. At(l, sep) = {}
    <2>1. ASSUME NEW i \in At(l, sep) PROVE FALSE
      <3>1. i \in Int
        BY <1>5
      <3>2. i \in 1..Len(l) /\ l[i] = nl
        BY <1>1, <1>2, <1>4, <3>1
      <3> QED BY <1>2, <3>2
    <2> QED BY <2>1
  <1>7. At(q, sep) = {Len(l) + 1}
    <2>1. Len(l) + 1 \in At(q, sep)
      <3>1. Len(l) + 1 \in Int /\ Len(l) + 1 >= 1 /\ Len(l) + 1 <= Len(q)
        BY <1>2, <1>3
      <3> QED BY <1>3, <1>4, <3>1
    <2>2. ASSUME NEW i \in At(q, sep) PROVE i = Len(l) + 1
      <3>1. i \in Int
        BY <1>5
      <3>2. i >= 1 /\ i <= Len(l) + 1 /\ q[i] = nl
        BY <1>3, <1>4, <3>1
      <3>3. i \in 1..Len(l) => FALSE
        BY <1>2, <1>3, <3>2
      <3> QED BY <1>2, <3>1, <3>2, <3>3
    <2> QED BY <2>1, <2>2
  <1> QED BY <1>6, <1>7 DEF sep, q

\* Lines are where they were put.
LEMMA JoinLaid ==
    ASSUME NEW D, NEW C, D \subseteq C, nl \in C, NEW p \in Seq(Seq(D))
    PROVE  \E at : Laid(Join(p), p, <<nl>>, <<>>, at)
  <1> DEFINE T == Seq(D)
             z == <<>>
             sep == <<nl>>
             S == {q \in Seq(T) : \E at : Laid(Join(q), q, sep, z, at)}
  <1>1. z \in Seq(T) /\ z \in Seq(C) /\ z \in T /\ sep \in Seq(C) /\ Len(sep) > 0
    <2>1. z \in Seq(T) /\ z \in Seq(C) /\ z \in T
      BY EmptySeq, Zenon
    <2>2. sep \in Seq(C) /\ Len(sep) > 0
      OBVIOUS
    <2> QED BY <2>1, <2>2
  <1>2. z \in S
    <2>1. Reads(z, z, sep, z)
      BY <1>1, ReadsNothing
    <2>2. \E at : Laid(z, z, sep, z, at)
      BY <2>1, ReadsDef
    <2>3. Join(z) = z
      BY JoinEmpty
    <2> HIDE DEF T, sep, z
    <2> QED BY <1>1, <2>2, <2>3
  <1>3. ASSUME NEW q \in Seq(T), NEW l \in T, q \in S PROVE Append(q, l) \in S
    <2>1. PICK at : Laid(Join(q), q, sep, z, at)
      BY <1>3
    <2> DEFINE c == Append(l, nl)
    <2>2. Join(q) \in Seq(C) /\ Join(Append(q, l)) = Join(q) \o c
      BY JoinIs, JoinAppend
    <2>3. l \in Seq(C)
      BY SeqMono
    <2>4. q \in Seq(Seq(C))
      <3>1. Seq(D) \subseteq Seq(C)
        BY SeqMono
      <3> DEFINE U == Seq(C)
      <3>2. T \subseteq U
        BY <3>1
      <3> HIDE DEF T, U
      <3>3. q \in Seq(U)
        BY <3>2, SeqMono
      <3> QED BY <3>3 DEF U
    <2>5. c \in Seq(C) /\ c = l \o sep
      BY <2>3, AppendProperties, AppendIsConcat
    <2>6. z \o c = (l \o sep) \o z
      <3> HIDE DEF c, sep
      <3>1. z \o c = c /\ c \o z = c
        BY <2>5, ConcatEmptySeq
      <3> QED BY <2>5, <3>1
    <2>7. Append(q, l) \in Seq(T)
      <3> HIDE DEF T
      <3> QED BY AppendProperties
    <2> HIDE DEF T, sep, z, c
    <2>8. Laid(Join(q) \o c, q, sep, z \o c, at)
      BY <1>1, <2>1, <2>2, <2>4, <2>5, LaidLonger
    <2>9. Laid(Join(q) \o c, q, sep, (l \o sep) \o z, at)
      BY <2>6, <2>8
    <2>10. Join(q) \o c \in Seq(C)
      BY <2>2, <2>5, ConcatProperties
    <2>11. \E new : Laid(Join(q) \o c, Append(q, l), sep, z, new)
      BY <1>1, <2>3, <2>4, <2>9, <2>10, LaidMore
    <2>12. \E new : Laid(Join(Append(q, l)), Append(q, l), sep, z, new)
      BY <2>2, <2>11
    <2> QED BY <2>7, <2>12
  <1>4. p \in S
    <2> HIDE DEF S
    <2>1. <<>> \in S
      BY <1>2
    <2>2. p \in Seq(T)
      OBVIOUS
    <2> HIDE DEF T
    <2>3. Seq(T) \subseteq S
      BY <1>3, <2>1, Longer
    <2> QED BY <2>2, <2>3
  <1> QED BY <1>4

\* The lines that were joined are those it is split into.
LEMMA SplitJoin ==
    ASSUME NEW D, NEW C, D \subseteq C, nl \in C, nl \notin D, NEW p \in Seq(Seq(D)), NEW l \in Seq(D)
    PROVE  Split(Join(p) \o l) = Append(p, l)
  <1> DEFINE T == Seq(D)
             U == Seq(C)
             z == <<>>
             sep == <<nl>>
             J == Join(p)
             s == J \o l
  <1>1. z \in Seq(C) /\ sep \in Seq(C) /\ Len(sep) > 0
    <2>1. z \in Seq(C)
      BY EmptySeq, Zenon
    <2> QED BY <2>1
  <1>2. J \in Seq(C) /\ l \in Seq(C)
    BY JoinIs, SeqMono
  <1>3. p \in Seq(U) /\ p \in Seq(T)
    <2>1. T \subseteq U /\ p \in Seq(T)
      BY SeqMono
    <2> HIDE DEF T, U
    <2> QED BY <2>1, SeqMono
  <1>4. PICK at : Laid(J, p, sep, z, at)
    BY JoinLaid
  <1>5. Cleanly(p, sep)
    <2>1. ASSUME NEW k \in DOMAIN p PROVE At(p[k] \o sep, sep) = {Len(p[k]) + 1}
      <3>1. p[k] \in T
        <4> HIDE DEF T
        <4> QED BY <1>3, ElementOfSeq, LenProperties
      <3> QED BY <3>1, NoNl
    <2> QED BY <2>1 DEF Cleanly
  <1>6. At(l, sep) = {}
    BY NoNl
  <1> HIDE DEF J, sep, z
  <1>7. Laid(s, p, sep, z \o l, at)
    BY <1>1, <1>2, <1>3, <1>4, LaidLonger
  <1>8. z \o l = l
    BY <1>2, ConcatEmptySeq DEF z
  <1>9. s \in Seq(C)
    BY <1>2, ConcatProperties
  <1> HIDE DEF s
  <1>10. Reads(s, p, sep, l)
    BY <1>5, <1>6, <1>7, <1>8, ReadsDef
  <1>11. Split(s) = Append(p, l)
    <2>1. p \in Seq(Seq(C))
      BY <1>3
    <2>2. Reads(s, p, <<nl>>, l)
      BY <1>10 DEF sep
    <2> QED BY <1>9, <2>1, <2>2, SplitIs
  <1> QED BY <1>11 DEF s, J

\* The last of some places.
LEMMA Greatest ==
    ASSUME NEW N \in Nat, NEW T, T \subseteq 1..N, T # {}
    PROVE  \E x \in T : \A y \in T : y <= x
  <1> DEFINE U == {k \in Nat : \A y \in T : y <= k}
  <1>1. N \in U
    OBVIOUS
  <1>2. PICK x \in U : \A k \in U : x <= k
    <2>1. U \subseteq Nat /\ U # {}
      BY <1>1
    <2> HIDE DEF U
    <2> QED BY <2>1, Least
  <1>3. x \in T
    <2>1. SUFFICES ASSUME x \notin T PROVE FALSE
      OBVIOUS
    <2>2. PICK y \in T : TRUE
      OBVIOUS
    <2>3. y \in 1..N /\ y <= x
      BY <1>2, <2>2
    <2>4. x - 1 \in U
      <3>1. x \in Nat /\ x >= 1 /\ x - 1 \in Nat
        BY <1>2, <2>3
      <3>2. ASSUME NEW t \in T PROVE t <= x - 1
        <4>1. t <= x /\ t # x /\ t \in Nat
          BY <1>2, <2>1
        <4> QED BY <3>1, <4>1
      <3> QED BY <3>1, <3>2
    <2>5. x <= x - 1 /\ x \in Nat
      BY <1>2, <2>4
    <2> QED BY <2>5
  <1> QED BY <1>2, <1>3

\* Up to place k, after which there is nothing but what is in E.
UpToLast(s, r, E, k) ==
    /\ k \in 0..Len(s) /\ r = SubSeq(s, 1, k)
    /\ k > 0 => s[k] \notin E
    /\ \A j \in k + 1..Len(s) : s[j] \in E

LEMMA TrimIs ==
    ASSUME NEW D, NEW l \in Seq(D)
    PROVE  \E k : UpToLast(l, TrimEnd(l), Blank, k)
  <1> DEFINE n == {i \in DOMAIN l : l[i] \notin Blank}
             x == CHOOSE i \in n : \A j \in n : j <= i
             k == IF n = {} THEN 0 ELSE x
             N == Len(l)
  <1>1. N \in Nat /\ DOMAIN l = 1..N
    BY LenProperties
  <1>2. TrimEnd(l) = SubSeq(l, 1, k)
    BY Zenon DEF TrimEnd
  <1>3. \A j \in 1..N : j \in n <=> l[j] \notin Blank
    BY <1>1
  <1>4. n \subseteq 1..N
    BY <1>1
  <1>5. CASE n = {}
    <2>1. k = 0 /\ \A j \in 1..N : l[j] \in Blank
      BY <1>3, <1>5
    <2> HIDE DEF n, k
    <2>2. UpToLast(l, TrimEnd(l), Blank, 0)
      BY <1>1, <1>2, <2>1 DEF UpToLast
    <2> QED BY <2>2
  <1>6. CASE n # {}
    <2> HIDE DEF n
    <2>1. \E i \in n : \A j \in n : j <= i
      BY <1>1, <1>4, <1>6, Greatest
    <2>2. x \in n /\ \A j \in n : j <= x
      BY <2>1
    <2>3. k = x
      BY <1>6
    <2> HIDE DEF x, k
    <2>4. x \in 1..N /\ l[x] \notin Blank
      BY <1>3, <1>4, <2>2
    <2>5. ASSUME NEW j \in x + 1..N PROVE l[j] \in Blank
      <3>1. j \in 1..N /\ ~(j <= x)
        BY <1>1, <2>4
      <3> QED BY <1>3, <2>2, <3>1
    <2>6. x \in 0..N /\ x > 0
      BY <1>1, <2>4
    <2>7. UpToLast(l, TrimEnd(l), Blank, x)
      BY <1>2, <2>3, <2>4, <2>5, <2>6 DEF UpToLast
    <2> QED BY <2>7
  <1> QED BY <1>5, <1>6

\* A line that ends in no blank stays as it is.
LEMMA TrimSame ==
    ASSUME NEW D, NEW l \in Seq(D), Len(l) > 0 => l[Len(l)] \notin Blank
    PROVE  TrimEnd(l) = l
  <1> DEFINE N == Len(l)
  <1>1. N \in Nat
    BY LenProperties
  <1>2. PICK k : UpToLast(l, TrimEnd(l), Blank, k)
    BY TrimIs
  <1>3. k \in 0..N /\ TrimEnd(l) = SubSeq(l, 1, k) /\ \A j \in k + 1..N : l[j] \in Blank
    BY <1>2 DEF UpToLast
  <1>4. k = N
    <2>1. SUFFICES ASSUME k # N PROVE FALSE
      OBVIOUS
    <2>2. N \in k + 1..N /\ N > 0
      BY <1>1, <1>3, <2>1
    <2> QED BY <1>3, <2>2
  <1> QED BY <1>3, <1>4, SubSeqFull

\* Trimming takes nothing that can be seen.
LEMMA TrimStrip ==
    ASSUME NEW D, NEW l \in Seq(D)
    PROVE  /\ TrimEnd(l) \in Seq(D) /\ Strip(TrimEnd(l)) = Strip(l)
           /\ TrimEnd(TrimEnd(l)) = TrimEnd(l)
  <1> DEFINE r == TrimEnd(l)
             h == Visible(D)
  <1>1. Len(l) \in Nat /\ DOMAIN l = 1..Len(l) /\ \A i \in 1..Len(l) : l[i] \in D
    BY LenProperties, ElementOfSeq
  <1>2. PICK k : UpToLast(l, r, Blank, k)
    BY TrimIs
  <1>3. /\ k \in 0..Len(l) /\ r = SubSeq(l, 1, k) /\ (k > 0 => l[k] \notin Blank)
        /\ \A j \in k + 1..Len(l) : l[j] \in Blank
    BY <1>2 DEF UpToLast
  <1> HIDE DEF r
  <1>4. h \in [D -> Seq(D)]
    BY StripIs
  <1>5. ASSUME NEW j \in k + 1..Len(l) PROVE h[l[j]] = <<>>
    <2>1. l[j] \in D /\ l[j] \in White
      BY <1>1, <1>3 DEF White
    <2> QED BY <2>1 DEF Visible
  <1> HIDE DEF h
  <1>6. r \in Seq(D) /\ FlatMap(h, r) = FlatMap(h, l)
    <2>1. k \in 0..Len(l)
      BY <1>3
    <2>2. \A j \in k + 1..Len(l) : h[l[j]] = <<>>
      BY <1>5
    <2>3. SubSeq(l, 1, k) \in Seq(D) /\ FlatMap(h, SubSeq(l, 1, k)) = FlatMap(h, l)
      BY <1>4, <2>1, <2>2, FlatMapFront
    <2> QED BY <1>3, <2>3
  <1>7. Strip(r) = FlatMap(h, r) /\ Strip(l) = FlatMap(h, l)
    BY <1>6, StripIs DEF h
  <1>8. TrimEnd(r) = r
    <2>1. Len(r) = k /\ (k > 0 => r[k] = l[k])
      <3>1. /\ Len(SubSeq(l, 1, k)) = k - 1 + 1
            /\ \A i \in 1..k - 1 + 1 : SubSeq(l, 1, k)[i] = l[1 + i - 1]
        BY <1>1, <1>3, SubText
      <3>2. k - 1 + 1 = k /\ 1 + k - 1 = k /\ (k > 0 => k \in 1..k - 1 + 1)
        BY <1>1, <1>3
      <3> QED BY <1>3, <3>1, <3>2
    <2> QED BY <1>3, <1>6, <2>1, TrimSame
  <1> QED BY <1>6, <1>7, <1>8 DEF r

\* Every tab has something before it that is no blank.
Clean(r) == \A i \in 1..Len(r) : r[i] = "tab" => \E j \in 1..i : r[j] \notin Blank

\* The indentation of such a line has no tabs.
LEMMA IndentSame ==
    ASSUME NEW D, NEW r \in Seq(D), Clean(r)
    PROVE  Indent(r) = r
  <1> DEFINE e == [i \in DOMAIN r |->
                      IF r[i] = "tab" /\ \A j \in 1..i : r[j] \in Blank
                      THEN <<"sp", "sp", "sp", "sp">> ELSE <<r[i]>>]
             g == [i \in DOMAIN r |-> <<r[i]>>]
  <1>1. DOMAIN r = 1..Len(r)
    BY LenProperties
  <1>2. ASSUME NEW i \in DOMAIN r PROVE e[i] = g[i]
    BY <1>1 DEF Clean
  <1>3. e = g
    <2>1. e = [i \in DOMAIN r |-> e[i]] /\ g = [i \in DOMAIN r |-> g[i]]
      OBVIOUS
    <2> HIDE DEF e, g
    <2> QED BY <1>2, <2>1
  <1>4. FlattenSeq(g) = r
    BY RewriteSame
  <1>5. Indent(r) = FlattenSeq(e)
    BY Zenon DEF Indent
  <1> HIDE DEF e, g
  <1> QED BY <1>3, <1>4, <1>5

LEMMA CleanFront ==
    ASSUME NEW D, NEW r \in Seq(D), Clean(r), NEW k \in 0..Len(r)
    PROVE  Clean(SubSeq(r, 1, k))
  <1> DEFINE q == SubSeq(r, 1, k)
  <1>1. Len(r) \in Nat
    BY LenProperties
  <1>2. Len(q) = k /\ \A i \in 1..k : q[i] = r[i]
    <2>1. /\ Len(q) = k - 1 + 1
          /\ \A i \in 1..k - 1 + 1 : q[i] = r[1 + i - 1]
      BY <1>1, SubText
    <2> HIDE DEF q
    <2> QED BY <1>1, <2>1
  <1> HIDE DEF q
  <1>3. ASSUME NEW i \in 1..Len(q), q[i] = "tab" PROVE \E j \in 1..i : q[j] \notin Blank
    <2>1. i \in 1..k /\ i \in 1..Len(r) /\ r[i] = "tab"
      BY <1>1, <1>2, <1>3
    <2>2. PICK j \in 1..i : r[j] \notin Blank
      BY <2>1 DEF Clean
    <2>3. j \in 1..k
      BY <2>1, <2>2
    <2> QED BY <1>2, <2>2, <2>3
  <1>4. Clean(q)
    BY <1>3 DEF Clean
  <1> QED BY <1>4 DEF q

\* What the indentation has become after n characters.
Indented(l, r, n) ==
    /\ Clean(r)
    /\ (\A j \in 1..n : l[j] \in Blank) => \A i \in 1..Len(r) : r[i] = "sp"
    /\ (\E j \in 1..n : l[j] \notin Blank) => \E i \in 1..Len(r) : r[i] \notin Blank

LEMMA IndentStep ==
    ASSUME NEW D, NEW l \in Seq(D), NEW n \in Nat, n < Len(l), NEW r \in Seq(D), NEW x \in Seq(D),
           Indented(l, r, n),
           \/ /\ \A j \in 1..n + 1 : l[j] \in Blank
              /\ \A i \in 1..Len(x) : x[i] = "sp"
           \/ /\ Len(x) = 1 /\ x[1] = l[n + 1]
              /\ l[n + 1] = "tab" => \E j \in 1..n + 1 : l[j] \notin Blank
    PROVE  Indented(l, r \o x, n + 1)
  <1> DEFINE q == r \o x
             N == Len(r)
             M == Len(x)
  <1>1. N \in Nat /\ M \in Nat
    BY LenProperties
  <1>2. Len(q) = N + M /\ (\A i \in 1..N : q[i] = r[i]) /\ \A i \in 1..M : q[N + i] = x[i]
    BY Both
  <1>3. ASSUME NEW i \in 1..N + M PROVE i \in 1..N \/ \E j \in 1..M : i = N + j
    <2> HIDE DEF N, M
    <2>1. CASE i > N
      <3> DEFINE j == i - N
      <3>1. j \in 1..M /\ i = N + j
        BY <1>1, <2>1
      <3> HIDE DEF j
      <3> QED BY <3>1
    <2>2. CASE ~(i > N)
      BY <1>1, <2>2
    <2> QED BY <2>1, <2>2
  <1> HIDE DEF q, N, M
  <1>4. 1..n \subseteq 1..n + 1 /\ n + 1 \in 1..n + 1 /\ \A j \in 1..n + 1 : j \in 1..n \/ j = n + 1
    OBVIOUS
  <1>5. CASE /\ \A j \in 1..n + 1 : l[j] \in Blank
             /\ \A i \in 1..Len(x) : x[i] = "sp"
    <2>1. \A i \in 1..N : r[i] = "sp"
      BY <1>4, <1>5 DEF Indented, N
    <2>2. \A i \in 1..Len(q) : q[i] = "sp"
      <3>1. ASSUME NEW i \in 1..N + M PROVE q[i] = "sp"
        <4>1. CASE i \in 1..N
          BY <1>2, <2>1, <4>1
        <4>2. ASSUME NEW j \in 1..M, i = N + j PROVE q[i] = "sp"
          BY <1>2, <1>5, <4>2 DEF M
        <4> QED BY <1>3, <4>1, <4>2
      <3> QED BY <1>2, <3>1
    <2>3. Clean(q)
      BY <2>2 DEF Clean
    <2> QED BY <1>5, <2>2, <2>3 DEF Indented, q
  <1>6. CASE /\ Len(x) = 1 /\ x[1] = l[n + 1]
             /\ l[n + 1] = "tab" => \E j \in 1..n + 1 : l[j] \notin Blank
    <2> DEFINE c == l[n + 1]
    <2>1. M = 1 /\ Len(q) = N + 1 /\ q[N + 1] = c
      <3>1. M = 1 /\ 1 \in 1..M /\ x[1] = c
        BY <1>6 DEF M
      <3> HIDE DEF c
      <3> QED BY <1>2, <3>1
    <2>2. \A i \in 1..N + 1 : i \in 1..N \/ i = N + 1
      BY <1>1
    <2>3. 1..N \subseteq 1..N + 1 /\ N + 1 \in 1..N + 1 /\ \A i \in 1..N : 1..i \subseteq 1..N
      BY <1>1
    <2>4. (\E j \in 1..n : l[j] \notin Blank) => \E i \in 1..N : q[i] \notin Blank
      BY <1>2 DEF Indented, N
    <2>5. Clean(q)
      <3>1. ASSUME NEW i \in 1..N, q[i] = "tab" PROVE \E j \in 1..i : q[j] \notin Blank
        <4>1. i \in 1..Len(r) /\ r[i] = "tab"
          BY <1>2, <3>1 DEF N
        <4>2. PICK j \in 1..i : r[j] \notin Blank
          BY <4>1 DEF Indented, Clean
        <4> QED BY <1>2, <2>3, <4>2
      <3>2. ASSUME q[N + 1] = "tab" PROVE \E j \in 1..N + 1 : q[j] \notin Blank
        <4>1. c = "tab"
          BY <2>1, <3>2
        <4>2. c \in Blank
          BY <4>1 DEF Blank
        <4>3. \E j \in 1..n : l[j] \notin Blank
          BY <1>4, <1>6, <4>1, <4>2
        <4> QED BY <2>3, <2>4, <4>3
      <3> QED BY <2>1, <2>2, <3>1, <3>2 DEF Clean
    <2>6. (\A j \in 1..n + 1 : l[j] \in Blank) => \A i \in 1..Len(q) : q[i] = "sp"
      <3>1. SUFFICES ASSUME \A j \in 1..n + 1 : l[j] \in Blank PROVE \A i \in 1..N + 1 : q[i] = "sp"
        BY <2>1
      <3>2. c = "sp"
        <4>1. c \in Blank /\ c # "tab"
          BY <1>4, <1>6, <3>1
        <4> QED BY <4>1 DEF Blank
      <3>3. \A i \in 1..N : q[i] = "sp"
        BY <1>2, <1>4, <3>1 DEF Indented, N
      <3> QED BY <2>1, <2>2, <3>2, <3>3
    <2>7. (\E j \in 1..n + 1 : l[j] \notin Blank) => \E i \in 1..Len(q) : q[i] \notin Blank
      <3>1. SUFFICES ASSUME NEW j \in 1..n + 1, l[j] \notin Blank PROVE \E i \in 1..N + 1 : q[i] \notin Blank
        BY <2>1
      <3>2. CASE j = n + 1
        BY <2>1, <2>3, <3>1, <3>2
      <3>3. CASE j \in 1..n
        BY <2>3, <2>4, <3>1, <3>3
      <3> QED BY <1>4, <3>2, <3>3
    <2> QED BY <2>5, <2>6, <2>7 DEF Indented, q
  <1> QED BY <1>5, <1>6

\* The indentation, after which no tab is left in it.
LEMMA IndentClean ==
    ASSUME NEW D, "sp" \in D, NEW l \in Seq(D)
    PROVE  Indent(l) \in Seq(D) /\ Clean(Indent(l)) /\ Strip(Indent(l)) = Strip(l)
  <1> DEFINE N == Len(l)
             four == <<"sp", "sp", "sp", "sp">>
             goes(i) == l[i] = "tab" /\ \A j \in 1..i : l[j] \in Blank
             e == [i \in DOMAIN l |-> IF goes(i) THEN four ELSE <<l[i]>>]
  <1>1. N \in Nat /\ DOMAIN l = 1..N /\ \A i \in 1..N : l[i] \in D
    BY LenProperties, ElementOfSeq
  <1>2. four \in Seq(D) /\ Len(four) = 4 /\ \A i \in 1..4 : four[i] = "sp"
    OBVIOUS
  <1>3. Indent(l) = FlattenSeq(e)
    BY Zenon DEF Indent
  <1> HIDE DEF four
  <1>4. \A i \in 1..N : (goes(i) => e[i] = four) /\ (~goes(i) => e[i] = <<l[i]>>)
    BY <1>1
  <1>5. e \in [1..N -> Seq(D)]
    <2>1. ASSUME NEW i \in 1..N PROVE <<l[i]>> \in Seq(D)
      <3>1. l[i] \in D
        BY <1>1
      <3> QED BY <3>1
    <2> HIDE DEF goes
    <2> QED BY <1>1, <1>2, <2>1
  <1> HIDE DEF e, N
  <1>6. Strip(FlattenSeq(e)) = Strip(l)
    <2>1. ASSUME NEW i \in 1..N PROVE Strip(e[i]) = Strip(<<l[i]>>)
      <3>1. CASE goes(i)
        <4>1. Strip(<<l[i]>>) = <<>>
          <5>1. "tab" \in White /\ l[i] = "tab"
            BY <3>1 DEF White, Blank
          <5>2. <<>> \in Seq({"tab"})
            BY EmptySeq, Zenon
          <5>3. <<l[i]>> = Append(<<>>, "tab")
            BY <5>1
          <5> QED BY <5>1, <5>2, <5>3, StripAppend, StripEmpty
        <4>2. Strip(four) = <<>>
          <5> DEFINE B == {"sp"}
                     s0 == <<>>
                     s1 == Append(s0, "sp")
                     s2 == Append(s1, "sp")
                     s3 == Append(s2, "sp")
          <5>1. "sp" \in White /\ "sp" \in B
            BY DEF White, Blank
          <5>2. s0 \in Seq(B)
            BY EmptySeq, Zenon
          <5>3. four = Append(s3, "sp")
            BY DEF four
          <5>4. s1 \in Seq(B) /\ s2 \in Seq(B) /\ s3 \in Seq(B)
            OBVIOUS
          <5> HIDE DEF s3
          <5>5. Strip(four) = Strip(s3)
            BY <5>1, <5>3, <5>4, StripAppend
          <5> HIDE DEF s2
          <5>6. Strip(s3) = Strip(s2)
            BY <5>1, <5>4, StripAppend DEF s3
          <5> HIDE DEF s1
          <5>7. Strip(s2) = Strip(s1)
            BY <5>1, <5>4, StripAppend DEF s2
          <5> HIDE DEF s0, B
          <5>8. Strip(s1) = Strip(s0)
            BY <5>1, <5>2, StripAppend DEF s1
          <5> QED BY <5>5, <5>6, <5>7, <5>8, StripEmpty DEF s0
        <4> QED BY <1>4, <3>1, <4>1, <4>2
      <3>2. CASE ~goes(i)
        BY <1>4, <3>2
      <3> QED BY <3>1, <3>2
    <2> QED BY <1>5, <2>1, RewriteStrip DEF N
  <1>7. PICK f \in [0..N -> Seq(D)] : IsRewrite(f, e, N)
    BY <1>1, <1>5, Rewrite
  <1> DEFINE S == {n \in 0..N : Indented(l, f[n], n)}
  <1>8. 0 \in S
    <2>1. f[0] = <<>>
      BY <1>7 DEF IsRewrite
    <2>2. Indented(l, <<>>, 0)
      BY DEF Indented, Clean
    <2> QED BY <1>1, <2>1, <2>2
  <1>9. ASSUME NEW n \in 0..N - 1, n \in S PROVE n + 1 \in S
    <2>1. n + 1 \in 1..N /\ n + 1 \in 0..N /\ (n + 1) - 1 = n /\ n \in 0..N /\ n < N /\ n \in Nat
      BY <1>1
    <2> DEFINE x == e[n + 1]
    <2>2. f[n + 1] = f[n] \o x /\ f[n] \in Seq(D) /\ x \in Seq(D) /\ Indented(l, f[n], n)
      BY <1>5, <1>7, <1>9, <2>1 DEF IsRewrite
    <2>3. \/ /\ \A j \in 1..n + 1 : l[j] \in Blank
             /\ \A i \in 1..Len(x) : x[i] = "sp"
          \/ /\ Len(x) = 1 /\ x[1] = l[n + 1]
             /\ l[n + 1] = "tab" => \E j \in 1..n + 1 : l[j] \notin Blank
      <3>1. CASE goes(n + 1)
        <4>1. x = four
          BY <1>4, <2>1, <3>1
        <4> QED BY <1>2, <3>1, <4>1
      <3>2. CASE ~goes(n + 1)
        <4>1. x = <<l[n + 1]>>
          BY <1>4, <2>1, <3>2
        <4> QED BY <3>2, <4>1
      <3> QED BY <3>1, <3>2
    <2> HIDE DEF x
    <2>4. Indented(l, f[n] \o x, n + 1)
      BY <2>1, <2>2, <2>3, IndentStep DEF N
    <2> QED BY <2>1, <2>2, <2>4
  <1>10. N \in S
    <2>1. N \in 0..N
      BY <1>1
    <2> HIDE DEF S
    <2>2. 0..N \subseteq S
      BY <1>1, <1>8, <1>9, UpTo
    <2> QED BY <2>1, <2>2
  <1>11. Clean(FlattenSeq(e))
    BY <1>7, <1>10 DEF IsRewrite, Indented
  <1>12. FlattenSeq(e) \in Seq(D)
    BY <1>1, <1>5, Rewrite
  <1> QED BY <1>3, <1>6, <1>11, <1>12

\* One line of the formatter.
Tidy(D) == [l \in Seq(D) |-> TrimEnd(Indent(l))]

LEMMA TidyLine ==
    ASSUME NEW D, "sp" \in D, NEW l \in Seq(D)
    PROVE  /\ TrimEnd(Indent(l)) \in Seq(D) /\ Strip(TrimEnd(Indent(l))) = Strip(l)
           /\ TrimEnd(Indent(TrimEnd(Indent(l)))) = TrimEnd(Indent(l))
  <1> DEFINE m == Indent(l)
             r == TrimEnd(m)
  <1>1. m \in Seq(D) /\ Clean(m) /\ Strip(m) = Strip(l)
    BY IndentClean
  <1> HIDE DEF m
  <1>2. r \in Seq(D) /\ Strip(r) = Strip(m) /\ TrimEnd(r) = r
    BY <1>1, TrimStrip
  <1>3. PICK k : UpToLast(m, r, Blank, k)
    BY <1>1, TrimIs
  <1>4. k \in 0..Len(m) /\ r = SubSeq(m, 1, k)
    BY <1>3 DEF UpToLast
  <1> HIDE DEF r
  <1>5. Clean(r)
    BY <1>1, <1>4, CleanFront
  <1>6. Indent(r) = r
    BY <1>2, <1>5, IndentSame
  <1> QED BY <1>1, <1>2, <1>6 DEF m, r

\* The lines that are kept: up to the last that is not empty, and the first.
LEMMA DropIs ==
    ASSUME NEW T, NEW ls \in Seq(T), Len(ls) > 0
    PROVE  \E k \in 1..Len(ls) :
              /\ DropEmpty(ls) = SubSeq(ls, 1, k)
              /\ k = 1 \/ ls[k] # <<>>
              /\ \A j \in k + 1..Len(ls) : ls[j] = <<>>
  <1> DEFINE n == {i \in DOMAIN ls : ls[i] # <<>>} \cup {1}
             x == CHOOSE i \in n : \A j \in n : j <= i
             N == Len(ls)
  <1>1. N \in Nat /\ N > 0 /\ DOMAIN ls = 1..N
    BY LenProperties
  <1>2. DropEmpty(ls) = SubSeq(ls, 1, x)
    BY Zenon DEF DropEmpty
  <1>3. n \subseteq 1..N /\ n # {}
    BY <1>1
  <1>4. \A j \in 1..N : j \in n <=> j = 1 \/ ls[j] # <<>>
    BY <1>1
  <1> HIDE DEF n
  <1>5. \E i \in n : \A j \in n : j <= i
    BY <1>1, <1>3, Greatest
  <1>6. x \in n /\ \A j \in n : j <= x
    BY <1>5
  <1> HIDE DEF x
  <1>7. x \in 1..N /\ (x = 1 \/ ls[x] # <<>>)
    BY <1>3, <1>4, <1>6
  <1>8. ASSUME NEW j \in x + 1..N PROVE ls[j] = <<>>
    <2>1. j \in 1..N /\ ~(j <= x)
      BY <1>1, <1>7
    <2> QED BY <1>4, <1>6, <2>1
  <1> QED BY <1>2, <1>7, <1>8

\* The empty line after the last newline is dropped, and nothing else.
LEMMA DropLast ==
    ASSUME NEW T, <<>> \in T, NEW d \in Seq(T), Len(d) > 0, Len(d) = 1 \/ d[Len(d)] # <<>>
    PROVE  DropEmpty(Append(d, <<>>)) = d
  <1> DEFINE z == <<>>
             w == Append(d, z)
             N == Len(d)
  <1>1. N \in Nat /\ N > 0 /\ (N = 1 \/ d[N] # z)
    BY LenProperties
  <1>2. w \in Seq(T) /\ Len(w) = N + 1 /\ w[N + 1] = z /\ \A i \in 1..N : w[i] = d[i]
    BY AppendProperties
  <1> HIDE DEF w
  <1>3. PICK k \in 1..Len(w) :
              /\ DropEmpty(w) = SubSeq(w, 1, k)
              /\ k = 1 \/ w[k] # z
              /\ \A j \in k + 1..Len(w) : w[j] = z
    <2>1. Len(w) > 0
      BY <1>1, <1>2
    <2> QED BY <1>2, <2>1, DropIs
  <1> HIDE DEF z, N
  <1>4. k = N
    <2>1. k # N + 1
      BY <1>1, <1>2, <1>3
    <2>2. k < N => FALSE
      <3>1. SUFFICES ASSUME k < N PROVE FALSE
        OBVIOUS
      <3>2. N \in k + 1..Len(w) /\ N \in 1..N
        BY <1>1, <1>2, <1>3, <3>1
      <3>3. d[N] = z
        BY <1>2, <1>3, <3>2
      <3>4. N = 1
        BY <1>1, <3>3
      <3> QED BY <1>3, <3>1, <3>4
    <2> QED BY <1>1, <1>2, <1>3, <2>1, <2>2
  <1>5. SubSeq(w, 1, N) = d
    <2>1. N \in Nat /\ 0 <= N /\ N <= Len(w) /\ 0 \in Nat /\ Len(d) = N - 0
      BY <1>1, <1>2 DEF N
    <2>2. \A i \in 1..Len(d) : d[i] = w[0 + i]
      BY <1>1, <1>2 DEF N
    <2>3. SubSeq(w, 0 + 1, N) = d
      BY <1>2, <2>1, <2>2, SliceIs
    <2> QED BY <2>3
  <1> QED BY <1>3, <1>4, <1>5 DEF w, z

\* What can be seen of the lines, one after the other.
Seen(D) == [l \in Seq(D) |-> Strip(l)]

LEMMA SeenIs == \A D : Seen(D) \in [Seq(D) -> Seq(D)] /\ \A l \in Seq(D) : Seen(D)[l] = Strip(l)
  BY StripIs DEF Seen

\* Newlines cannot be seen.
LEMMA JoinStrip ==
    ASSUME NEW D, NEW C, D \subseteq C, nl \in C, NEW p \in Seq(Seq(D)), NEW l \in Seq(D)
    PROVE  Strip(Join(p) \o l) = FlatMap(Seen(D), Append(p, l)) /\ Strip(Join(p)) = FlatMap(Seen(D), p)
  <1> DEFINE T == Seq(D)
             h == Seen(D)
             z == <<>>
             S == {q \in Seq(T) : Strip(Join(q)) = FlatMap(h, q)}
  <1>1. h \in [T -> Seq(D)] /\ \A k \in T : h[k] = Strip(k)
    BY SeenIs
  <1>2. z \in Seq(T)
    BY EmptySeq, Zenon
  <1>3. \A k \in T : k \in Seq(C)
    BY SeqMono
  <1>4. \A q \in Seq(T) : Join(q) \in Seq(C)
    BY JoinIs
  <1> HIDE DEF h
  <1>5. z \in S
    <2>1. Strip(Join(z)) = z /\ FlatMap(h, z) = z
      BY JoinEmpty, StripEmpty, FlatMapEmpty
    <2> HIDE DEF T, z
    <2> QED BY <1>2, <2>1
  <1>6. ASSUME NEW q \in Seq(T), NEW k \in T PROVE FlatMap(h, Append(q, k)) = FlatMap(h, q) \o Strip(k)
    <2> HIDE DEF T
    <2> QED BY <1>1, FlatMapAppend
  <1>7. ASSUME NEW q \in Seq(T), NEW k \in T, q \in S PROVE Append(q, k) \in S
    <2> DEFINE J == Join(q)
               c == Append(k, nl)
    <2>1. Join(Append(q, k)) = J \o c
      BY JoinAppend
    <2>2. J \in Seq(C) /\ k \in Seq(C) /\ c \in Seq(C)
      BY <1>3, <1>4, AppendProperties
    <2>3. Strip(c) = Strip(k)
      <3>1. nl \in White
        BY DEF White
      <3> QED BY <2>2, <3>1, StripAppend
    <2>4. Append(q, k) \in Seq(T)
      <3> HIDE DEF T
      <3> QED BY AppendProperties
    <2>5. Strip(J) = FlatMap(h, q)
      BY <1>7
    <2> HIDE DEF J, c, T
    <2>6. Strip(J \o c) = Strip(J) \o Strip(c)
      BY <2>2, StripConcat
    <2>7. Strip(Join(Append(q, k))) = FlatMap(h, Append(q, k))
      BY <1>6, <2>1, <2>3, <2>5, <2>6
    <2> QED BY <2>4, <2>7
  <1>8. p \in Seq(T) /\ l \in T
    OBVIOUS
  <1>9. p \in S
    <2> HIDE DEF S, T
    <2>1. <<>> \in S
      BY <1>5
    <2>2. Seq(T) \subseteq S
      BY <1>7, <2>1, Longer
    <2> QED BY <1>8, <2>2
  <1>10. Strip(Join(p) \o l) = Strip(Join(p)) \o Strip(l)
    BY <1>3, <1>4, <1>8, StripConcat
  <1> HIDE DEF T
  <1> QED BY <1>6, <1>8, <1>9, <1>10 DEF h

\* Line ends that are newlines already stay.
LEMMA NewlinesSame ==
    ASSUME NEW C, cr \notin C, NEW s \in Seq(C)
    PROVE  Newlines(s) = s
  <1> DEFINE e == [i \in DOMAIN s |->
                      IF s[i] = cr THEN <<nl>>
                      ELSE IF s[i] = nl /\ i > 1 /\ s[i - 1] = cr THEN <<>> ELSE <<s[i]>>]
             g == [i \in DOMAIN s |-> <<s[i]>>]
  <1>1. DOMAIN s = 1..Len(s) /\ Len(s) \in Nat /\ \A i \in 1..Len(s) : s[i] \in C
    BY LenProperties, ElementOfSeq
  <1>2. ASSUME NEW i \in DOMAIN s PROVE e[i] = g[i]
    <2>1. s[i] # cr
      BY <1>1
    <2>2. i > 1 => s[i - 1] # cr
      <3>1. i > 1 => i - 1 \in 1..Len(s)
        BY <1>1
      <3> QED BY <1>1, <3>1
    <2> QED BY <2>1, <2>2
  <1>3. e = g
    <2>1. e = [i \in DOMAIN s |-> e[i]] /\ g = [i \in DOMAIN s |-> g[i]]
      OBVIOUS
    <2> HIDE DEF e, g
    <2> QED BY <1>2, <2>1
  <1>4. FlattenSeq(g) = s
    BY RewriteSame
  <1>5. Newlines(s) = FlattenSeq(e)
    BY Zenon DEF Newlines
  <1> HIDE DEF e, g
  <1> QED BY <1>3, <1>4, <1>5

\* And carriage returns do not.
LEMMA NewlinesOnly ==
    ASSUME NEW A, NEW C, nl \in C, C = A \ {cr}, NEW s \in Seq(A)
    PROVE  Newlines(s) \in Seq(C) /\ Strip(Newlines(s)) = Strip(s)
  <1> DEFINE N == Len(s)
             e == [i \in DOMAIN s |->
                      IF s[i] = cr THEN <<nl>>
                      ELSE IF s[i] = nl /\ i > 1 /\ s[i - 1] = cr THEN <<>> ELSE <<s[i]>>]
             z == <<>>
  <1>1. N \in Nat /\ DOMAIN s = 1..N /\ \A i \in 1..N : s[i] \in A
    BY LenProperties, ElementOfSeq
  <1>2. Newlines(s) = FlattenSeq(e)
    BY Zenon DEF Newlines
  <1>3. z \in Seq(C) /\ z \in Seq(A)
    BY EmptySeq, Zenon
  <1>4. \A i \in 1..N : \/ e[i] = <<nl>> /\ s[i] = cr
                        \/ e[i] = z /\ s[i] = nl
                        \/ e[i] = <<s[i]>> /\ s[i] # cr
    BY <1>1
  <1>5. e \in [1..N -> Seq(C)]
    <2>1. <<nl>> \in Seq(C)
      OBVIOUS
    <2>2. ASSUME NEW i \in 1..N PROVE e[i] \in Seq(C)
      <3>1. s[i] # cr => s[i] \in C
        BY <1>1
      <3>2. s[i] # cr => <<s[i]>> \in Seq(C)
        BY <3>1
      <3> HIDE DEF e, z
      <3> QED BY <1>3, <1>4, <2>1, <3>2
    <2>3. e = [i \in 1..N |-> e[i]]
      BY <1>1
    <2> HIDE DEF e, N
    <2> QED BY <2>2, <2>3
  <1> HIDE DEF e
  <1>6. Seq(C) \subseteq Seq(A)
    BY SeqMono
  <1>7. ASSUME NEW i \in 1..N PROVE Strip(e[i]) = Strip(<<s[i]>>)
    <2>1. ASSUME NEW c \in White PROVE Strip(<<c>>) = z
      <3>1. z \in Seq(White) /\ <<c>> = Append(z, c)
        <4>1. z \in Seq(White)
          BY EmptySeq, Zenon
        <4> QED BY <4>1
      <3> HIDE DEF z
      <3>2. Strip(Append(z, c)) = Strip(z)
        BY <3>1, StripAppend
      <3>3. Strip(z) = z
        BY StripEmpty DEF z
      <3> QED BY <3>1, <3>2, <3>3
    <2>2. Strip(<<nl>>) = z /\ Strip(<<cr>>) = z
      <3>1. nl \in White /\ cr \in White
        BY DEF White
      <3> QED BY <2>1, <3>1
    <2>3. Strip(z) = z
      BY StripEmpty
    <2> HIDE DEF z
    <2>4. CASE e[i] = <<nl>> /\ s[i] = cr
      BY <2>2, <2>4
    <2>5. CASE e[i] = z /\ s[i] = nl
      BY <2>2, <2>3, <2>5
    <2>6. CASE e[i] = <<s[i]>>
      BY <2>6
    <2> QED BY <1>4, <2>4, <2>5, <2>6
  <1>8. Strip(FlattenSeq(e)) = Strip(s)
    <2>1. e \in [1..N -> Seq(A)]
      <3> HIDE DEF N
      <3> QED BY <1>5, <1>6
    <2> QED BY <1>7, <2>1, RewriteStrip
  <1>9. FlattenSeq(e) \in Seq(C)
    <2> HIDE DEF N
    <2> QED BY <1>1, <1>5, Rewrite
  <1> QED BY <1>2, <1>8, <1>9

\* The lines of a formatted text: tidied, and the last one not empty unless it is
\* the only one.
TidyLines(D, d) ==
    /\ d \in Seq(Seq(D)) /\ Len(d) > 0 /\ (Len(d) = 1 \/ d[Len(d)] # <<>>)
    /\ \A i \in 1..Len(d) : TrimEnd(Indent(d[i])) = d[i]

\* The empty lines at the end show nothing.
LEMMA DropSeen ==
    ASSUME NEW T, NEW E, NEW h \in [T -> Seq(E)], <<>> \in T, h[<<>>] = <<>>,
           NEW m \in Seq(T), Len(m) > 0
    PROVE  LET d == DropEmpty(m)
           IN  /\ d \in Seq(T) /\ FlatMap(h, d) = FlatMap(h, m)
               /\ Len(d) > 0 /\ (Len(d) = 1 \/ d[Len(d)] # <<>>)
               /\ \A i \in 1..Len(d) : i \in 1..Len(m) /\ d[i] = m[i]
  <1>1. PICK k \in 1..Len(m) :
              /\ DropEmpty(m) = SubSeq(m, 1, k)
              /\ k = 1 \/ m[k] # <<>>
              /\ \A j \in k + 1..Len(m) : m[j] = <<>>
    BY DropIs
  <1> DEFINE d == SubSeq(m, 1, k)
  <1>2. Len(m) \in Nat /\ k \in 0..Len(m) /\ k \in 1..Len(m)
    BY <1>1, LenProperties
  <1>3. \A j \in k + 1..Len(m) : h[m[j]] = <<>>
    BY <1>1
  <1>4. d \in Seq(T) /\ FlatMap(h, d) = FlatMap(h, m)
    BY <1>2, <1>3, FlatMapFront
  <1>5. Len(d) = k /\ \A i \in 1..k : d[i] = m[i]
    <2>1. /\ Len(d) = k - 1 + 1
          /\ \A i \in 1..k - 1 + 1 : d[i] = m[1 + i - 1]
      BY <1>2, SubText
    <2> HIDE DEF d
    <2> QED BY <1>2, <2>1
  <1> HIDE DEF d
  <1>6. k > 0 /\ k \in 1..k /\ \A i \in 1..k : i \in 1..Len(m)
    BY <1>2
  <1>7. DropEmpty(m) = d
    BY <1>1 DEF d
  <1>8. k = 1 \/ d[k] # <<>>
    BY <1>1, <1>5, <1>6
  <1> QED BY <1>4, <1>5, <1>6, <1>7, <1>8

\* The lines of a text become such lines, which show the same.
LEMMA TidyEach ==
    ASSUME NEW D, "sp" \in D, NEW ls \in Seq(Seq(D)), Len(ls) > 0
    PROVE  LET m == [i \in DOMAIN ls |-> TrimEnd(Indent(ls[i]))]
           IN  TidyLines(D, DropEmpty(m)) /\ FlatMap(Seen(D), DropEmpty(m)) = FlatMap(Seen(D), ls)
  <1> DEFINE T == Seq(D)
             h == Seen(D)
             g == Tidy(D)
             N == Len(ls)
             m == [i \in DOMAIN ls |-> TrimEnd(Indent(ls[i]))]
             d == DropEmpty(m)
             z == <<>>
  <1>1. ASSUME NEW k \in T
        PROVE  /\ g[k] = TrimEnd(Indent(k)) /\ g[k] \in T /\ h[g[k]] = h[k]
               /\ TrimEnd(Indent(g[k])) = g[k]
    <2>1. g[k] = TrimEnd(Indent(k))
      BY DEF Tidy
    <2>2. g[k] \in T /\ Strip(g[k]) = Strip(k) /\ TrimEnd(Indent(g[k])) = g[k]
      <3>1. k \in Seq(D)
        OBVIOUS
      <3>2. /\ TrimEnd(Indent(k)) \in Seq(D) /\ Strip(TrimEnd(Indent(k))) = Strip(k)
            /\ TrimEnd(Indent(TrimEnd(Indent(k)))) = TrimEnd(Indent(k))
        BY <3>1, TidyLine
      <3> HIDE DEF g
      <3> QED BY <2>1, <3>2
    <2> HIDE DEF g
    <2> QED BY <2>1, <2>2, SeenIs
  <1>2. g \in [T -> T]
    <2>1. g = [k \in T |-> g[k]]
      BY DEF Tidy
    <2> HIDE DEF g, T
    <2> QED BY <1>1, <2>1
  <1>3. h \in [T -> Seq(D)] /\ z \in T /\ h[z] = z
    <2>1. z \in T
      BY EmptySeq, Zenon
    <2> QED BY <2>1, SeenIs, StripEmpty
  <1>4. ls \in Seq(T)
    OBVIOUS
  <1> HIDE DEF T, g, h, z
  <1>5. N \in Nat /\ N > 0 /\ DOMAIN ls = 1..N /\ \A i \in 1..N : ls[i] \in T
    BY <1>4, LenProperties, ElementOfSeq
  <1>6. m = Mapped(g, ls) /\ DOMAIN m = 1..N /\ \A i \in 1..N : m[i] = g[ls[i]]
    <2>1. ASSUME NEW i \in DOMAIN ls PROVE TrimEnd(Indent(ls[i])) = g[ls[i]]
      BY <1>1, <1>5
    <2> QED BY <1>5, <2>1 DEF Mapped
  <1> HIDE DEF m
  <1>7. m \in Seq(T) /\ Len(m) = N
    <2>1. Mapped(g, ls) \in Seq(T) /\ Len(Mapped(g, ls)) = Len(ls)
      BY <1>2, <1>4, MapSeq, SMTT(30)
    <2> QED BY <1>6, <2>1
  <1>8. FlatMap(h, m) = FlatMap(h, ls)
    <2>1. Mapped(h, m) = Mapped(h, ls)
      <3>1. ASSUME NEW i \in 1..N PROVE h[m[i]] = h[ls[i]]
        BY <1>1, <1>5, <1>6
      <3> QED BY <1>5, <1>6, <3>1 DEF Mapped
    <2> QED BY <2>1 DEF FlatMap
  <1>9. /\ d \in Seq(T) /\ FlatMap(h, d) = FlatMap(h, m)
        /\ Len(d) > 0 /\ (Len(d) = 1 \/ d[Len(d)] # z)
        /\ \A i \in 1..Len(d) : i \in 1..Len(m) /\ d[i] = m[i]
    <2>1. Len(m) > 0
      BY <1>5, <1>7
    <2>2. h \in [T -> Seq(D)] /\ <<>> \in T /\ h[<<>>] = <<>>
      BY <1>3 DEF z
    <2> QED BY <1>7, <2>1, <2>2, DropSeen DEF z
  <1> HIDE DEF d
  <1>10. ASSUME NEW i \in 1..Len(d) PROVE TrimEnd(Indent(d[i])) = d[i]
    <2>1. i \in 1..N /\ d[i] = g[ls[i]] /\ ls[i] \in T
      BY <1>5, <1>6, <1>7, <1>9
    <2> QED BY <1>1, <2>1
  <1>11. TidyLines(D, d)
    BY <1>9, <1>10 DEF TidyLines, T, z
  <1> QED BY <1>8, <1>9, <1>11 DEF d, m, h

\* Formatting a text yields such lines, which show what the text showed.
LEMMA TidyYields ==
    ASSUME NEW A, nl \in A, "sp" \in A, NEW s \in Seq(A), NEW D, D = A \ {nl, cr}
    PROVE  \E d : TidyLines(D, d) /\ tidyDocument(s) = Join(d) /\ Strip(Join(d)) = Strip(s)
  <1> DEFINE B == A \ {cr}
  <1>1. B = D \cup {nl} /\ nl \in B /\ D \subseteq B /\ nl \notin D /\ "sp" \in D
    BY DEF nl, cr
  <1>2. Newlines(s) \in Seq(B) /\ Strip(Newlines(s)) = Strip(s)
    BY <1>1, NewlinesOnly
  <1>3. PICK C : C = B
    OBVIOUS
  <1>4. C = D \cup {nl} /\ nl \in C /\ D \subseteq C /\ nl \notin D /\ "sp" \in D
    BY <1>1, <1>3
  <1>5. PICK u \in Seq(C) : u = Newlines(s)
    BY <1>2, <1>3
  <1>6. PICK p \in Seq(Seq(D)), l \in Seq(D) : u = Join(p) \o l
    <2>1. C = D \cup {nl}
      BY <1>4
    <2>2. InLines(D, u)
      BY <2>1, Lined
    <2> QED BY <2>2 DEF InLines
  <1>7. Split(u) = Append(p, l) /\ Strip(u) = FlatMap(Seen(D), Append(p, l))
    <2>1. Split(Join(p) \o l) = Append(p, l)
      BY <1>4, <1>6, SplitJoin
    <2>2. Strip(Join(p) \o l) = FlatMap(Seen(D), Append(p, l))
      BY <1>4, <1>6, JoinStrip
    <2> QED BY <1>6, <2>1, <2>2
  <1> DEFINE ls == Append(p, l)
             m == [i \in DOMAIN ls |-> TrimEnd(Indent(ls[i]))]
             d == DropEmpty(m)
  <1>8. ls \in Seq(Seq(D)) /\ Len(ls) > 0
    <2> DEFINE T == Seq(D)
    <2>1. p \in Seq(T) /\ l \in T
      BY <1>6
    <2> HIDE DEF T
    <2>2. ls \in Seq(T) /\ Len(ls) = Len(p) + 1 /\ Len(p) \in Nat
      BY <2>1, AppendProperties, LenProperties
    <2> HIDE DEF ls
    <2> QED BY <2>2 DEF T
  <1> HIDE DEF ls
  <1>9. TidyLines(D, d) /\ FlatMap(Seen(D), d) = FlatMap(Seen(D), ls)
    BY <1>4, <1>8, TidyEach
  <1>10. tidyDocument(s) = Join(d)
    <2>1. tidyDocument(s) = Join(DropEmpty([i \in DOMAIN Split(u) |-> TrimEnd(Indent(Split(u)[i]))]))
      BY <1>5, Zenon DEF tidyDocument
    <2>2. Split(u) = ls
      BY <1>7 DEF ls
    <2> QED BY <2>1, <2>2
  <1> HIDE DEF d
  <1>11. Strip(Join(d)) = FlatMap(Seen(D), d)
    <2>1. d \in Seq(Seq(D))
      BY <1>9 DEF TidyLines
    <2> QED BY <1>4, <1>6, <2>1, JoinStrip
  <1>12. Strip(Join(d)) = Strip(s)
    BY <1>2, <1>5, <1>7, <1>9, <1>11 DEF ls
  <1> QED BY <1>9, <1>10, <1>12

\* Such lines are left as they are.
LEMMA TidyKeeps ==
    ASSUME NEW A, nl \in A, "sp" \in A, NEW D, D = A \ {nl, cr}, NEW d, TidyLines(D, d)
    PROVE  tidyDocument(Join(d)) = Join(d)
  <1> DEFINE C == A \ {cr}
             T == Seq(D)
             t == Join(d)
             z == <<>>
             w == Append(d, z)
             N == Len(d)
             m == [i \in DOMAIN w |-> TrimEnd(Indent(w[i]))]
  <1>1. C = D \cup {nl} /\ nl \in C /\ D \subseteq C /\ nl \notin D /\ "sp" \in D /\ cr \notin C
    BY DEF nl, cr
  <1>2. d \in Seq(T) /\ N > 0 /\ (N = 1 \/ d[N] # z) /\ \A i \in 1..N : TrimEnd(Indent(d[i])) = d[i]
    BY DEF TidyLines
  <1>3. z \in T /\ z \in Seq(D)
    BY EmptySeq, Zenon
  <1>4. t \in Seq(C)
    BY <1>1, <1>2, JoinIs
  <1>5. Newlines(t) = t
    <2> HIDE DEF t, C
    <2> QED BY <1>1, <1>4, NewlinesSame
  <1>6. Split(t) = w
    <2>1. Split(Join(d) \o z) = Append(d, z)
      <3> HIDE DEF z
      <3> QED BY <1>1, <1>2, <1>3, SplitJoin
    <2>2. Join(d) \o z = Join(d)
      BY <1>4, ConcatEmptySeq
    <2> QED BY <2>1, <2>2
  <1>7. TrimEnd(Indent(z)) = z
    <2>1. Clean(z) /\ Len(z) = 0
      BY DEF Clean
    <2> HIDE DEF z
    <2>2. Indent(z) = z
      BY <1>3, <2>1, IndentSame
    <2>3. TrimEnd(z) = z
      <3>1. Len(z) > 0 => z[Len(z)] \notin Blank
        BY <2>1
      <3> QED BY <1>3, <3>1, TrimSame
    <2> QED BY <2>2, <2>3
  <1> HIDE DEF T, t, z
  <1>8. N \in Nat /\ w \in Seq(T) /\ Len(w) = N + 1 /\ w[N + 1] = z /\ \A i \in 1..N : w[i] = d[i]
    BY <1>2, <1>3, AppendProperties, LenProperties
  <1> HIDE DEF w, N
  <1>9. m = w
    <2>1. DOMAIN w = 1..N + 1
      BY <1>8, LenProperties
    <2>2. ASSUME NEW i \in DOMAIN w PROVE TrimEnd(Indent(w[i])) = w[i]
      <3>1. CASE i \in 1..N
        BY <1>2, <1>8, <3>1
      <3>2. CASE i = N + 1
        BY <1>7, <1>8, <3>2
      <3>3. i \in 1..N \/ i = N + 1
        BY <1>8, <2>1
      <3> QED BY <3>1, <3>2, <3>3
    <2>3. w = [i \in DOMAIN w |-> w[i]]
      <3>1. w \in [1..N + 1 -> T]
        BY <1>8, LenProperties
      <3> QED BY <3>1
    <2> QED BY <2>2, <2>3
  <1>10. DropEmpty(w) = d
    <2>1. <<>> \in T /\ Len(d) > 0 /\ (Len(d) = 1 \/ d[Len(d)] # <<>>)
      BY <1>2, <1>3 DEF N, z
    <2> QED BY <1>2, <2>1, DropLast DEF w, z
  <1>11. tidyDocument(t) = Join(DropEmpty(m))
    <2>1. tidyDocument(t) =
            Join(DropEmpty([i \in DOMAIN Split(Newlines(t)) |-> TrimEnd(Indent(Split(Newlines(t))[i]))]))
      BY Zenon DEF tidyDocument
    <2> QED BY <1>5, <1>6, <2>1
  <1> HIDE DEF m
  <1> QED BY <1>9, <1>10, <1>11 DEF t

\* Formatting twice is formatting once, and changes nothing that can be seen,
\* whatever the text that arrived.
THEOREM TidyStableHolds == ReaderSpec => []TidyStable
  <1>1. ReadersInv => TidyStable
    <2>1. SUFFICES ASSUME ReadersInv PROVE TidyStable
      OBVIOUS
    <2> DEFINE A == Sym \cup {nl, "sp"}
               D == A \ {nl, cr}
    <2>2. nl \in A /\ "sp" \in A /\ Sym \subseteq A
      OBVIOUS
    <2>3. text \in Seq(Sym)
      BY <2>1 DEF ReadersInv
    <2>4. text \in Seq(A)
      <3> HIDE DEF A
      <3> QED BY <2>2, <2>3, SeqMono
    <2> HIDE DEF A
    <2>5. PICK d : TidyLines(D, d) /\ tidyDocument(text) = Join(d) /\ Strip(Join(d)) = Strip(text)
      BY <2>2, <2>4, TidyYields
    <2>6. tidyDocument(Join(d)) = Join(d)
      BY <2>2, <2>5, TidyKeeps
    <2> QED BY <2>5, <2>6 DEF TidyStable
  <1> QED BY <1>1, ReadersInvariance, PTL
-----------------------------------------------------------------------------
(* Export and import of test cases.                                        *)

\* What the scanner holds.
Held(R, W, F, m) == [rows |-> R, row |-> W, field |-> F, mode |-> m]

Cells(C) == [rows : Seq(Seq(Seq(C))), row : Seq(Seq(C)), field : Seq(C), mode : {"plain", "quoted", "pair"}]

LEMMA ScanHeld ==
    ASSUME NEW R, NEW W, NEW F, NEW c, NEW next
    PROVE  /\ scan(Held(R, W, F, "pair"), c, next) = Held(R, W, F, "quoted")
           /\ c # quote => scan(Held(R, W, F, "quoted"), c, next) = Held(R, W, Append(F, c), "quoted")
           /\ next = quote => scan(Held(R, W, F, "quoted"), quote, next) = Held(R, W, Append(F, quote), "pair")
           /\ next # quote => scan(Held(R, W, F, "quoted"), quote, next) = Held(R, W, F, "plain")
           /\ scan(Held(R, W, F, "plain"), quote, next) = Held(R, W, F, "quoted")
           /\ scan(Held(R, W, F, "plain"), comma, next) = Held(R, Append(W, F), <<>>, "plain")
           /\ scan(Held(R, W, F, "plain"), cr, next) = Held(R, W, F, "plain")
           /\ scan(Held(R, W, F, "plain"), nl, next) = Held(Append(R, Append(W, F)), <<>>, <<>>, "plain")
           /\ c \notin {quote, comma, cr, nl} =>
                scan(Held(R, W, F, "plain"), c, next) = Held(R, W, Append(F, c), "plain")
  <1>1. scan(Held(R, W, F, "pair"), c, next) = Held(R, W, F, "quoted")
    BY DEF scan, Held
  <1>2. c # quote => scan(Held(R, W, F, "quoted"), c, next) = Held(R, W, Append(F, c), "quoted")
    BY DEF scan, Held, put
  <1>3. next = quote => scan(Held(R, W, F, "quoted"), quote, next) = Held(R, W, Append(F, quote), "pair")
    BY DEF scan, Held, put
  <1>4. next # quote => scan(Held(R, W, F, "quoted"), quote, next) = Held(R, W, F, "plain")
    BY DEF scan, Held
  <1>5. scan(Held(R, W, F, "plain"), quote, next) = Held(R, W, F, "quoted")
    BY DEF scan, Held
  <1>6. scan(Held(R, W, F, "plain"), comma, next) = Held(R, Append(W, F), <<>>, "plain")
    BY DEF scan, Held, pushField, quote, comma
  <1>7. scan(Held(R, W, F, "plain"), cr, next) = Held(R, W, F, "plain")
    BY DEF scan, Held, quote, comma, cr
  <1>8. scan(Held(R, W, F, "plain"), nl, next) = Held(Append(R, Append(W, F)), <<>>, <<>>, "plain")
    BY DEF scan, Held, pushField, flushRow, quote, comma, cr, nl
  <1>9. c \notin {quote, comma, cr, nl} =>
          scan(Held(R, W, F, "plain"), c, next) = Held(R, W, Append(F, c), "plain")
    BY DEF scan, Held, put
  <1> QED BY <1>1, <1>2, <1>3, <1>4, <1>5, <1>6, <1>7, <1>8, <1>9

LEMMA ScanType ==
    ASSUME NEW C, NEW a \in Cells(C), NEW c \in C, NEW next
    PROVE  scan(a, c, next) \in Cells(C)
  <1> DEFINE T == Seq(C)
             U == Seq(T)
             V == Seq(U)
             R == a.rows
             W == a.row
             F == a.field
             z == <<>>
  <1>1. a = Held(R, W, F, a.mode) /\ R \in V /\ W \in U /\ F \in T /\ a.mode \in {"plain", "quoted", "pair"}
    BY DEF Cells, Held
  <1>2. ASSUME NEW r \in V, NEW w \in U, NEW f \in T, NEW m \in {"plain", "quoted", "pair"}
        PROVE  Held(r, w, f, m) \in Cells(C)
    BY DEF Held, Cells
  <1>3. z \in T /\ z \in U
    BY EmptySeq, Zenon
  <1>4. Append(F, c) \in T
    BY <1>1, AppendProperties
  <1>5. Append(W, F) \in U
    <2> HIDE DEF T, W, F
    <2> QED BY <1>1, AppendProperties
  <1>6. Append(R, Append(W, F)) \in V
    <2> HIDE DEF U, W, F, R
    <2> QED BY <1>1, <1>5, AppendProperties
  <1> HIDE DEF T, U, V, R, W, F, z
  <1>7. CASE a.mode = "pair"
    BY <1>1, <1>2, <1>7, ScanHeld
  <1>8. CASE a.mode = "quoted"
    <2>1. CASE c # quote
      BY <1>1, <1>2, <1>4, <1>8, <2>1, ScanHeld
    <2>2. CASE c = quote /\ next = quote
      BY <1>1, <1>2, <1>4, <1>8, <2>2, ScanHeld
    <2>3. CASE c = quote /\ next # quote
      BY <1>1, <1>2, <1>4, <1>8, <2>3, ScanHeld
    <2> QED BY <2>1, <2>2, <2>3
  <1>9. CASE a.mode = "plain"
    <2>1. CASE c = quote
      BY <1>1, <1>2, <1>9, <2>1, ScanHeld
    <2>2. CASE c = comma
      <3>1. scan(a, c, next) = Held(R, Append(W, F), z, "plain")
        BY <1>1, <1>9, <2>2, ScanHeld DEF z
      <3> QED BY <1>1, <1>2, <1>3, <1>5, <3>1
    <2>3. CASE c = cr
      BY <1>1, <1>2, <1>9, <2>3, ScanHeld
    <2>4. CASE c = nl
      <3>1. scan(a, c, next) = Held(Append(R, Append(W, F)), z, z, "plain")
        BY <1>1, <1>9, <2>4, ScanHeld DEF z
      <3> QED BY <1>1, <1>2, <1>3, <1>6, <3>1
    <2>5. CASE c \notin {quote, comma, cr, nl}
      BY <1>1, <1>2, <1>4, <1>9, <2>5, ScanHeld
    <2> QED BY <2>1, <2>2, <2>3, <2>4, <2>5
  <1> QED BY <1>1, <1>7, <1>8, <1>9

Start == [rows |-> <<>>, row |-> <<>>, field |-> <<>>, mode |-> "plain"]

\* What it holds after s, when next is the character that follows.
Scanned(s, next) ==
    LET loop[n \in 0..Len(s)] ==
          IF n = 0 THEN [rows |-> <<>>, row |-> <<>>, field |-> <<>>, mode |-> "plain"]
          ELSE scan(loop[n - 1], s[n], IF n < Len(s) THEN s[n + 1] ELSE next)
    IN  loop[Len(s)]

LEMMA ScanAllIs == \A s : scanAll(s) = Scanned(s, "eof")
  BY Zenon DEF scanAll, Scanned

Follows(s, n, next) == IF n < Len(s) THEN s[n + 1] ELSE next

IsScan(w, s, next) ==
    /\ Scanned(s, next) = w[Len(s)]
    /\ w[0] = Start
    /\ \A n \in 1..Len(s) : w[n] = scan(w[n - 1], s[n], Follows(s, n, next))

LEMMA ScanRounds ==
    ASSUME NEW C, NEW s \in Seq(C), NEW next
    PROVE  \E w \in [0..Len(s) -> Cells(C)] : IsScan(w, s, next)
  <1> DEFINE a0 == [rows |-> <<>>, row |-> <<>>, field |-> <<>>, mode |-> "plain"]
             N == Len(s)
             A == Cells(C)
             x(n) == IF n < Len(s) THEN s[n + 1] ELSE next
             d == [n \in 1..N |-> [w \in A |-> scan(w, s[n], x(n))]]
             E(f) == [n \in 0..N |-> IF n = 0 THEN a0 ELSE scan(f[n - 1], s[n], x(n))]
             loop == CHOOSE f : f = E(f)
  <1>1. N \in Nat /\ \A n \in 1..N : s[n] \in C
    BY LenProperties, ElementOfSeq
  <1>2. a0 \in A
    <2>1. <<>> \in Seq(Seq(Seq(C))) /\ <<>> \in Seq(Seq(C)) /\ <<>> \in Seq(C)
      BY EmptySeq, Zenon
    <2> QED BY <2>1 DEF Cells
  <1>9. Scanned(s, next) = loop[N]
    BY Zenon DEF Scanned
  <1>14. \A n : x(n) = Follows(s, n, next)
    BY DEF Follows
  <1> HIDE DEF x
  <1>3. \A n \in 1..N : \A w \in A : scan(w, s[n], x(n)) \in A
    BY <1>1, ScanType
  <1> HIDE DEF A, N, a0
  <1>4. d \in [1..N -> [A -> A]]
    BY <1>3
  <1>5. \E g \in [0..N -> A] : Rounds(g, a0, N, d)
    <2> HIDE DEF d, E, loop
    <2> QED BY <1>1, <1>2, <1>4, Runs
  <1>6. PICK g \in [0..N -> A] : g[0] = a0 /\ \A n \in 1..N : g[n] = d[n][g[n - 1]]
    BY <1>5 DEF Rounds
  <1>7. g = E(g)
    <2>1. ASSUME NEW n \in 0..N PROVE g[n] = IF n = 0 THEN a0 ELSE scan(g[n - 1], s[n], x(n))
      <3>1. CASE n = 0
        BY <1>6, <3>1
      <3>2. CASE n # 0
        <4>1. n \in 1..N /\ n - 1 \in 0..N
          BY <1>1, <3>2
        <4>2. g[n - 1] \in A
          BY <4>1
        <4> QED BY <1>6, <3>2, <4>1, <4>2
      <3> QED BY <3>1, <3>2
    <2> QED BY <2>1, Zenon
  <1>8. loop = E(loop)
    <2>1. \E f : f = E(f)
      BY <1>7
    <2> HIDE DEF E
    <2> QED BY <2>1
  <1> HIDE DEF loop
  <1> DEFINE S == {n \in 0..N : loop[n] \in A}
  <1>10. loop[0] = a0 /\ \A n \in 1..N : loop[n] = scan(loop[n - 1], s[n], x(n))
    <2>1. \A n \in 0..N : loop[n] = IF n = 0 THEN a0 ELSE scan(loop[n - 1], s[n], x(n))
      BY <1>8, Zenon
    <2> QED BY <1>1, <2>1
  <1>11. 0..N \subseteq S
    <2>1. 0 \in S
      BY <1>1, <1>2, <1>10
    <2>2. \A n \in 0..N - 1 : n \in S => n + 1 \in S
      BY <1>1, <1>3, <1>10
    <2> HIDE DEF S
    <2> QED BY <1>1, <2>1, <2>2, UpTo
  <1>12. loop \in [0..N -> A]
    <2>1. loop = [n \in 0..N |-> loop[n]]
      <3>1. E(loop) = [n \in 0..N |-> E(loop)[n]]
        OBVIOUS
      <3> HIDE DEF E
      <3> QED BY <1>8, <3>1
    <2> QED BY <1>11, <2>1
  <1>13. IsScan(loop, s, next)
    BY <1>9, <1>10, <1>14 DEF IsScan, N, a0, Start
  <1> QED BY <1>12, <1>13 DEF N, A

LEMMA ScannedEmpty == \A next : Scanned(<<>>, next) = Start
  <1> SUFFICES ASSUME NEW next PROVE Scanned(<<>>, next) = Start
    OBVIOUS
  <1>1. <<>> \in Seq({}) /\ Len(<<>>) = 0
    BY EmptySeq, Zenon
  <1>2. PICK w : IsScan(w, <<>>, next)
    BY <1>1, ScanRounds
  <1> QED BY <1>1, <1>2 DEF IsScan

LEMMA ScannedAppend ==
    ASSUME NEW C, NEW s \in Seq(C), NEW c \in C, NEW next
    PROVE  Scanned(Append(s, c), next) = scan(Scanned(s, c), c, next)
  <1> DEFINE N == Len(s)
             y == Append(s, c)
  <1>1. /\ y \in Seq(C) /\ Len(y) = N + 1 /\ y[N + 1] = c /\ N \in Nat
        /\ \A i \in 1..N : y[i] = s[i]
    BY AppendProperties, LenProperties
  <1> HIDE DEF y
  <1>2. PICK f \in [0..Len(s) -> Cells(C)] : IsScan(f, s, c)
    BY ScanRounds
  <1>3. PICK g \in [0..Len(y) -> Cells(C)] : IsScan(g, y, next)
    BY <1>1, ScanRounds
  <1> DEFINE S == {n \in 0..N : f[n] = g[n]}
  <1>4. 0..N \subseteq S
    <2>1. 0 \in S
      BY <1>1, <1>2, <1>3 DEF IsScan
    <2>2. ASSUME NEW n \in 0..N - 1, n \in S PROVE n + 1 \in S
      <3>1. n + 1 \in 1..N /\ n + 1 \in 1..Len(y) /\ (n + 1) - 1 = n /\ n + 1 \in 0..N
        BY <1>1
      <3>2. f[n + 1] = scan(f[n], s[n + 1], Follows(s, n + 1, c))
        BY <1>2, <3>1 DEF IsScan
      <3>3. g[n + 1] = scan(g[n], y[n + 1], Follows(y, n + 1, next))
        BY <1>3, <3>1 DEF IsScan
      <3>4. Follows(s, n + 1, c) = Follows(y, n + 1, next)
        <4>1. CASE n + 1 < N
          <5>1. n + 1 < Len(y) /\ n + 2 \in 1..N /\ (n + 1) + 1 = n + 2
            BY <1>1, <4>1
          <5> QED BY <1>1, <4>1, <5>1 DEF Follows
        <4>2. CASE ~(n + 1 < N)
          <5>1. n + 1 < Len(y) /\ (n + 1) + 1 = N + 1
            BY <1>1, <3>1, <4>2
          <5> QED BY <1>1, <4>2, <5>1 DEF Follows
        <4> QED BY <4>1, <4>2
      <3> QED BY <1>1, <2>2, <3>1, <3>2, <3>3, <3>4
    <2> HIDE DEF S, N
    <2> QED BY <1>1, <2>1, <2>2, UpTo
  <1>5. f[N] = g[N]
    <2>1. N \in 0..N
      BY <1>1
    <2> QED BY <1>4, <2>1
  <1>6. g[N + 1] = scan(g[N], c, next)
    <2>1. N + 1 \in 1..Len(y) /\ (N + 1) - 1 = N
      BY <1>1
    <2>2. g[N + 1] = scan(g[N], y[N + 1], Follows(y, N + 1, next))
      BY <1>3, <2>1 DEF IsScan
    <2>3. Follows(y, N + 1, next) = next
      BY <1>1 DEF Follows
    <2> QED BY <1>1, <2>2, <2>3
  <1> QED BY <1>1, <1>2, <1>3, <1>5, <1>6 DEF y, IsScan

\* The scanner holds x after u, whatever follows; or whatever but a quote follows.
Settled(u, x) == \A next : Scanned(u, next) = x

Ready(u, x) == \A next : next # quote => Scanned(u, next) = x

LEMMA SettledReady == \A u, x : Settled(u, x) => Ready(u, x)
  BY DEF Settled, Ready

\* One character outside quotes.
LEMMA PlainStep ==
    ASSUME NEW C, NEW u \in Seq(C), NEW c \in C, NEW R, NEW W, NEW F, Ready(u, Held(R, W, F, "plain"))
    PROVE  /\ c = comma => Settled(Append(u, c), Held(R, Append(W, F), <<>>, "plain"))
           /\ c = cr => Settled(Append(u, c), Held(R, W, F, "plain"))
           /\ c = nl => Settled(Append(u, c), Held(Append(R, Append(W, F)), <<>>, <<>>, "plain"))
           /\ c \notin {quote, comma, cr, nl} => Settled(Append(u, c), Held(R, W, Append(F, c), "plain"))
  <1> DEFINE x == Held(R, W, F, "plain")
  <1>1. c # quote => \A next : Scanned(Append(u, c), next) = scan(x, c, next)
    BY ScannedAppend DEF Ready
  <1>2. comma # quote /\ cr # quote /\ nl # quote
    BY DEF comma, quote, cr, nl
  <1>3. /\ c = comma => \A next : scan(x, c, next) = Held(R, Append(W, F), <<>>, "plain")
        /\ c = cr => \A next : scan(x, c, next) = x
        /\ c = nl => \A next : scan(x, c, next) = Held(Append(R, Append(W, F)), <<>>, <<>>, "plain")
        /\ c \notin {quote, comma, cr, nl} => \A next : scan(x, c, next) = Held(R, W, Append(F, c), "plain")
    BY ScanHeld
  <1> HIDE DEF x
  <1>4. c \notin {quote, comma, cr, nl} => c # quote
    OBVIOUS
  <1>5. c = comma => Settled(Append(u, c), Held(R, Append(W, F), <<>>, "plain"))
    BY <1>1, <1>2, <1>3 DEF Settled
  <1>6. c = cr => Settled(Append(u, c), x)
    BY <1>1, <1>2, <1>3 DEF Settled
  <1>7. c = nl => Settled(Append(u, c), Held(Append(R, Append(W, F)), <<>>, <<>>, "plain"))
    BY <1>1, <1>2, <1>3 DEF Settled
  <1>8. c \notin {quote, comma, cr, nl} => Settled(Append(u, c), Held(R, W, Append(F, c), "plain"))
    BY <1>1, <1>3, <1>4 DEF Settled
  <1> QED BY <1>5, <1>6, <1>7, <1>8 DEF x

\* A quote opens, a pair is one, and the next closes.
LEMMA QuoteStep ==
    ASSUME NEW C, NEW u \in Seq(C), quote \in C, NEW R, NEW W, NEW F
    PROVE  /\ Settled(u, Held(R, W, F, "plain")) => Settled(Append(u, quote), Held(R, W, F, "quoted"))
           /\ Settled(u, Held(R, W, F, "quoted")) =>
                /\ Settled(Append(Append(u, quote), quote), Held(R, W, Append(F, quote), "quoted"))
                /\ Ready(Append(u, quote), Held(R, W, F, "plain"))
                /\ \A c \in C : c # quote => Settled(Append(u, c), Held(R, W, Append(F, c), "quoted"))
  <1>1. ASSUME Settled(u, Held(R, W, F, "plain")) PROVE Settled(Append(u, quote), Held(R, W, F, "quoted"))
    <2>1. ASSUME NEW next PROVE Scanned(Append(u, quote), next) = Held(R, W, F, "quoted")
      <3>1. Scanned(Append(u, quote), next) = scan(Held(R, W, F, "plain"), quote, next)
        BY <1>1, ScannedAppend DEF Settled
      <3> QED BY <3>1, ScanHeld
    <2> QED BY <2>1 DEF Settled
  <1>2. ASSUME Settled(u, Held(R, W, F, "quoted"))
        PROVE  /\ Settled(Append(Append(u, quote), quote), Held(R, W, Append(F, quote), "quoted"))
               /\ Ready(Append(u, quote), Held(R, W, F, "plain"))
               /\ \A c \in C : c # quote => Settled(Append(u, c), Held(R, W, Append(F, c), "quoted"))
    <2> DEFINE v == Append(u, quote)
    <2>1. v \in Seq(C)
      BY AppendProperties
    <2>2. \A next : Scanned(v, next) = scan(Held(R, W, F, "quoted"), quote, next)
      BY <1>2, ScannedAppend DEF Settled
    <2> HIDE DEF v
    <2>3. Scanned(v, quote) = Held(R, W, Append(F, quote), "pair")
      BY <2>2, ScanHeld
    <2>4. Settled(Append(v, quote), Held(R, W, Append(F, quote), "quoted"))
      <3>1. ASSUME NEW next PROVE Scanned(Append(v, quote), next) = Held(R, W, Append(F, quote), "quoted")
        <4>1. Scanned(Append(v, quote), next) = scan(Held(R, W, Append(F, quote), "pair"), quote, next)
          BY <2>1, <2>3, ScannedAppend
        <4> QED BY <4>1, ScanHeld
      <3> QED BY <3>1 DEF Settled
    <2>5. Ready(v, Held(R, W, F, "plain"))
      <3>1. ASSUME NEW next, next # quote PROVE Scanned(v, next) = Held(R, W, F, "plain")
        BY <2>2, <3>1, ScanHeld
      <3> QED BY <3>1 DEF Ready
    <2>6. ASSUME NEW c \in C, c # quote PROVE Settled(Append(u, c), Held(R, W, Append(F, c), "quoted"))
      <3>1. ASSUME NEW next PROVE Scanned(Append(u, c), next) = Held(R, W, Append(F, c), "quoted")
        <4>1. Scanned(Append(u, c), next) = scan(Held(R, W, F, "quoted"), c, next)
          BY <1>2, ScannedAppend DEF Settled
        <4> QED BY <2>6, <4>1, ScanHeld
      <3> QED BY <3>1 DEF Settled
    <2> QED BY <2>4, <2>5, <2>6 DEF v
  <1> QED BY <1>1, <1>2

\* A cell without its carriage returns.
NoCr(s) == Keep(s, {i \in DOMAIN s : s[i] # cr})

DropsCr(C) == [c \in C |-> IF c = cr THEN <<>> ELSE <<c>>]

LEMMA NoCrIs ==
    ASSUME NEW C, NEW s \in Seq(C)
    PROVE  DropsCr(C) \in [C -> Seq(C)] /\ NoCr(s) = FlatMap(DropsCr(C), s) /\ NoCr(s) \in Seq(C)
  <1> DEFINE h == DropsCr(C)
  <1>1. h \in [C -> Seq(C)]
    <2>1. ASSUME NEW c \in C PROVE (IF c = cr THEN <<>> ELSE <<c>>) \in Seq(C)
      OBVIOUS
    <2> QED BY <2>1 DEF DropsCr
  <1>2. NoCr(s) = FlatMap(h, s)
    <2>1. DOMAIN s = 1..Len(s) /\ \A i \in 1..Len(s) : s[i] \in C
      BY LenProperties, ElementOfSeq
    <2> DEFINE I == {i \in DOMAIN s : s[i] # cr}
    <2>2. [i \in DOMAIN s |-> IF i \in I THEN <<s[i]>> ELSE <<>>] = Mapped(h, s)
      BY <2>1 DEF Mapped, DropsCr
    <2> QED BY <2>2, Zenon DEF NoCr, Keep, FlatMap
  <1> QED BY <1>1, <1>2, FlatMapType

LEMMA NoCrEmpty == NoCr(<<>>) = <<>>
  <1>1. <<>> \in Seq({})
    BY EmptySeq, Zenon
  <1> QED BY <1>1, NoCrIs, FlatMapEmpty

LEMMA NoCrAppend ==
    ASSUME NEW C, NEW s \in Seq(C), NEW c \in C
    PROVE  /\ c = cr => NoCr(Append(s, c)) = NoCr(s)
           /\ c # cr => NoCr(Append(s, c)) = Append(NoCr(s), c)
  <1> DEFINE h == DropsCr(C)
  <1>1. Append(s, c) \in Seq(C)
    BY AppendProperties
  <1>2. h[c] = IF c = cr THEN <<>> ELSE <<c>>
    BY DEF DropsCr
  <1> HIDE DEF h
  <1>3. NoCr(s) \in Seq(C)
    BY NoCrIs
  <1>4. NoCr(Append(s, c)) = NoCr(s) \o h[c]
    <2>1. h \in [C -> Seq(C)] /\ NoCr(s) = FlatMap(h, s) /\ NoCr(Append(s, c)) = FlatMap(h, Append(s, c))
      BY <1>1, NoCrIs DEF h
    <2> QED BY <2>1, FlatMapAppend
  <1>5. CASE c = cr
    <2>1. NoCr(s) \o <<>> = NoCr(s)
      BY <1>3, ConcatEmptySeq
    <2> QED BY <1>2, <1>4, <1>5, <2>1
  <1>6. CASE c # cr
    <2>1. Append(NoCr(s), c) = NoCr(s) \o <<c>>
      BY <1>3, AppendIsConcat
    <2> QED BY <1>2, <1>4, <1>6, <2>1
  <1> QED BY <1>5, <1>6

\* A cell that needs no quotes.
LEMMA PlainCell ==
    ASSUME NEW C, NEW u \in Seq(C), NEW R, NEW W, NEW s \in Seq(C \ {quote, comma, nl}),
           Settled(u, Held(R, W, <<>>, "plain"))
    PROVE  Ready(u \o s, Held(R, W, NoCr(s), "plain"))
  <1> DEFINE D == C \ {quote, comma, nl}
             S == {t \in Seq(D) : Ready(u \o t, Held(R, W, NoCr(t), "plain"))}
             z == <<>>
  <1>1. z \in S
    <2>1. u \o z = u
      BY ConcatEmptySeq
    <2>2. NoCr(z) = z
      BY NoCrEmpty
    <2>3. Ready(u, Held(R, W, z, "plain"))
      BY SettledReady
    <2>4. z \in Seq(D)
      BY EmptySeq, Zenon
    <2> HIDE DEF z, D
    <2> QED BY <2>1, <2>2, <2>3, <2>4
  <1>2. ASSUME NEW t \in Seq(D), NEW c \in D, t \in S PROVE Append(t, c) \in S
    <2> DEFINE v == u \o t
               F == NoCr(t)
    <2>1. t \in Seq(C) /\ c \in C /\ c \notin {quote, comma, nl}
      BY SeqMono
    <2>2. v \in Seq(C)
      BY <2>1, ConcatProperties
    <2>3. u \o Append(t, c) = Append(v, c)
      BY <2>1, AppendAfter
    <2>4. Ready(v, Held(R, W, F, "plain"))
      BY <1>2
    <2> HIDE DEF v, F
    <2>5. CASE c = cr
      <3>1. Settled(Append(v, c), Held(R, W, F, "plain"))
        BY <2>1, <2>2, <2>4, <2>5, PlainStep
      <3>2. NoCr(Append(t, c)) = F
        BY <2>1, <2>5, NoCrAppend DEF F
      <3> QED BY <2>3, <3>1, <3>2, SettledReady, AppendProperties
    <2>6. CASE c # cr
      <3>1. Settled(Append(v, c), Held(R, W, Append(F, c), "plain"))
        <4>1. c \notin {quote, comma, cr, nl}
          BY <2>1, <2>6
        <4> QED BY <2>1, <2>2, <2>4, <4>1, PlainStep
      <3>2. NoCr(Append(t, c)) = Append(F, c)
        BY <2>1, <2>6, NoCrAppend DEF F
      <3> QED BY <2>3, <3>1, <3>2, SettledReady, AppendProperties
    <2> QED BY <2>5, <2>6
  <1>3. s \in S
    <2>1. s \in Seq(D)
      OBVIOUS
    <2> HIDE DEF S, D
    <2>2. Seq(D) \subseteq S
      BY <1>1, <1>2, Longer
    <2> QED BY <2>1, <2>2
  <1> QED BY <1>3

LEMMA Associative ==
    ASSUME NEW C, NEW a \in Seq(C), NEW b \in Seq(C), NEW c \in Seq(C)
    PROVE  a \o (b \o c) = (a \o b) \o c
  BY ConcatAssociative

\* A character between quotes.
Doubles(C) == [c \in C |-> IF c = quote THEN <<quote, quote>> ELSE <<c>>]

LEMMA QuotedIs ==
    ASSUME NEW C, quote \in C, NEW s \in Seq(C)
    PROVE  /\ Doubles(C) \in [C -> Seq(C)] /\ FlatMap(Doubles(C), s) \in Seq(C)
           /\ Quoted(s) = (<<quote>> \o FlatMap(Doubles(C), s)) \o <<quote>>
  <1> DEFINE h == Doubles(C)
             e == [i \in DOMAIN s |-> IF s[i] = quote THEN <<quote, quote>> ELSE <<s[i]>>]
  <1>1. h \in [C -> Seq(C)]
    <2>1. ASSUME NEW c \in C PROVE (IF c = quote THEN <<quote, quote>> ELSE <<c>>) \in Seq(C)
      OBVIOUS
    <2> QED BY <2>1 DEF Doubles
  <1>2. e = Mapped(h, s)
    <2>1. DOMAIN s = 1..Len(s) /\ \A i \in 1..Len(s) : s[i] \in C
      BY LenProperties, ElementOfSeq
    <2>2. ASSUME NEW i \in DOMAIN s
          PROVE  h[s[i]] = IF s[i] = quote THEN <<quote, quote>> ELSE <<s[i]>>
      BY <2>1 DEF Doubles
    <2> HIDE DEF h
    <2> QED BY <2>2 DEF Mapped
  <1>3. Quoted(s) = (<<quote>> \o FlattenSeq(e)) \o <<quote>>
    BY Zenon DEF Quoted
  <1> HIDE DEF h, e
  <1>4. FlattenSeq(e) = FlatMap(h, s)
    BY <1>2 DEF FlatMap
  <1>5. FlatMap(h, s) \in Seq(C)
    BY <1>1, FlatMapType
  <1> QED BY <1>1, <1>3, <1>4, <1>5 DEF h

\* Quoting makes a text longer.
LEMMA QuotedLonger ==
    ASSUME NEW C, quote \in C, NEW s \in Seq(C)
    PROVE  Quoted(s) # s /\ Quoted(s) \in Seq(C)
  <1> DEFINE h == Doubles(C)
             S == {t \in Seq(C) : Len(FlatMap(h, t)) >= Len(t)}
             q == <<quote>>
  <1>1. h \in [C -> Seq(C)]
    BY QuotedIs
  <1>2. ASSUME NEW c \in C PROVE h[c] \in Seq(C) /\ Len(h[c]) >= 1
    <2>1. CASE c = quote
      <3>1. h[c] = <<quote, quote>>
        BY <2>1 DEF Doubles
      <3> QED BY <3>1
    <2>2. CASE c # quote
      <3>1. h[c] = <<c>>
        BY <2>2 DEF Doubles
      <3> QED BY <3>1
    <2> QED BY <2>1, <2>2
  <1> HIDE DEF h
  <1>3. <<>> \in S
    <2>1. <<>> \in Seq(C)
      BY EmptySeq, Zenon
    <2>2. FlatMap(h, <<>>) = <<>>
      BY FlatMapEmpty
    <2>3. Len(FlatMap(h, <<>>)) >= Len(<<>>)
      BY <2>2
    <2> QED BY <2>1, <2>3
  <1>4. ASSUME NEW t \in Seq(C), NEW c \in C, t \in S PROVE Append(t, c) \in S
    <2> DEFINE f == FlatMap(h, t)
               y == Append(t, c)
               g == h[c]
    <2>1. FlatMap(h, y) = f \o g /\ f \in Seq(C) /\ g \in Seq(C) /\ Len(g) >= 1
      BY <1>1, <1>2, FlatMapAppend, FlatMapType
    <2>2. y \in Seq(C) /\ Len(y) = Len(t) + 1 /\ Len(t) \in Nat
      BY AppendProperties, LenProperties
    <2>3. Len(f) >= Len(t)
      BY <1>4
    <2> HIDE DEF f, y, g
    <2>4. Len(f \o g) = Len(f) + Len(g) /\ Len(f) \in Nat /\ Len(g) \in Nat
      BY <2>1, Both
    <2>5. Len(f \o g) >= Len(y)
      BY <2>1, <2>2, <2>3, <2>4
    <2>6. Len(FlatMap(h, y)) >= Len(y)
      BY <2>1, <2>5
    <2> QED BY <2>2, <2>6 DEF y
  <1>5. s \in S
    <2> HIDE DEF S
    <2>1. Seq(C) \subseteq S
      BY <1>3, <1>4, Longer
    <2> QED BY <2>1
  <1> DEFINE f == FlatMap(h, s)
  <1>6. f \in Seq(C) /\ Len(f) >= Len(s) /\ Len(s) \in Nat
    BY <1>1, <1>5, FlatMapType, LenProperties
  <1>7. q \in Seq(C) /\ Len(q) = 1
    OBVIOUS
  <1>8. Quoted(s) = (q \o f) \o q
    BY QuotedIs DEF h
  <1> HIDE DEF f, q
  <1>9. q \o f \in Seq(C) /\ Len(q \o f) = 1 + Len(f) /\ Len(f) \in Nat
    <2>1. q \in Seq(C) /\ f \in Seq(C)
      BY <1>6, <1>7
    <2>2. q \o f \in Seq(C) /\ Len(q \o f) = Len(q) + Len(f) /\ Len(f) \in Nat
      BY <2>1, Both
    <2> QED BY <1>7, <2>2
  <1>10. (q \o f) \o q \in Seq(C) /\ Len((q \o f) \o q) = Len(q \o f) + 1
    BY <1>7, <1>9, Both
  <1>11. Len(Quoted(s)) > Len(s)
    BY <1>6, <1>8, <1>9, <1>10
  <1> QED BY <1>6, <1>8, <1>10, <1>11

LEMMA QuotedCell ==
    ASSUME NEW C, quote \in C, NEW u \in Seq(C), NEW R, NEW W, NEW s \in Seq(C),
           Settled(u, Held(R, W, <<>>, "plain"))
    PROVE  Ready(u \o Quoted(s), Held(R, W, s, "plain"))
  <1> DEFINE h == Doubles(C)
             v == Append(u, quote)
             S == {t \in Seq(C) : Settled(v \o FlatMap(h, t), Held(R, W, t, "quoted"))}
             z == <<>>
  <1>1. h \in [C -> Seq(C)]
    BY QuotedIs
  <1>2. v \in Seq(C) /\ Settled(v, Held(R, W, <<>>, "quoted"))
    BY AppendProperties, QuoteStep
  <1>3. ASSUME NEW c \in C PROVE (c = quote => h[c] = <<quote, quote>>) /\ (c # quote => h[c] = <<c>>)
    BY DEF Doubles
  <1> HIDE DEF h, v
  <1>4. z \in S
    <2>1. v \o z = v
      BY <1>2, ConcatEmptySeq
    <2>2. FlatMap(h, z) = z
      BY FlatMapEmpty
    <2>3. z \in Seq(C)
      BY EmptySeq, Zenon
    <2>4. Settled(v, Held(R, W, z, "quoted"))
      BY <1>2
    <2> HIDE DEF z
    <2> QED BY <2>1, <2>2, <2>3, <2>4
  <1>5. ASSUME NEW t \in Seq(C), NEW c \in C, t \in S PROVE Append(t, c) \in S
    <2> DEFINE f == FlatMap(h, t)
               w == v \o f
    <2>1. f \in Seq(C) /\ FlatMap(h, Append(t, c)) = f \o h[c] /\ h[c] \in Seq(C)
      BY <1>1, FlatMapType, FlatMapAppend
    <2>2. Settled(w, Held(R, W, t, "quoted"))
      BY <1>5
    <2>3. Append(t, c) \in Seq(C)
      BY AppendProperties
    <2> HIDE DEF f
    <2>4. w \in Seq(C)
      BY <1>2, <2>1, ConcatProperties
    <2>5. v \o (f \o h[c]) = w \o h[c]
      <3> DEFINE g == h[c]
      <3>1. v \in Seq(C) /\ f \in Seq(C) /\ g \in Seq(C)
        BY <1>2, <2>1
      <3> HIDE DEF g, S, w
      <3>2. v \o (f \o g) = (v \o f) \o g
        BY <3>1, Associative, SMTT(30)
      <3> QED BY <3>2 DEF g, w
    <2> HIDE DEF w
    <2>6. CASE c = quote
      <3>1. w \o <<quote, quote>> = Append(Append(w, quote), quote)
        <4>1. <<quote, quote>> = Append(<<quote>>, quote)
          OBVIOUS
        <4>2. <<quote>> \in Seq(C)
          OBVIOUS
        <4>3. w \o Append(<<quote>>, quote) = Append(w \o <<quote>>, quote)
          BY <2>4, <4>2, AppendAfter
        <4>4. w \o <<quote>> = Append(w, quote)
          BY <2>4, AppendIsConcat
        <4> QED BY <4>1, <4>3, <4>4
      <3>2. Settled(Append(Append(w, quote), quote), Held(R, W, Append(t, quote), "quoted"))
        BY <2>2, <2>4, QuoteStep
      <3>3. v \o FlatMap(h, Append(t, c)) = Append(Append(w, quote), quote)
        BY <1>3, <2>1, <2>5, <2>6, <3>1
      <3> QED BY <2>3, <2>6, <3>2, <3>3
    <2>7. CASE c # quote
      <3>1. w \o <<c>> = Append(w, c)
        BY <2>4, AppendIsConcat
      <3>2. Settled(Append(w, c), Held(R, W, Append(t, c), "quoted"))
        BY <2>2, <2>4, <2>7, QuoteStep
      <3>3. v \o FlatMap(h, Append(t, c)) = Append(w, c)
        BY <1>3, <2>1, <2>5, <2>7, <3>1
      <3> QED BY <2>3, <3>2, <3>3
    <2> QED BY <2>6, <2>7
  <1>6. Settled(v \o FlatMap(h, s), Held(R, W, s, "quoted"))
    <2>1. s \in S
      <3> HIDE DEF S
      <3>1. Seq(C) \subseteq S
        BY <1>4, <1>5, Longer
      <3> QED BY <3>1
    <2> QED BY <2>1
  <1> DEFINE f == FlatMap(h, s)
             q == <<quote>>
             w == v \o f
  <1>7. f \in Seq(C) /\ q \in Seq(C) /\ Quoted(s) = (q \o f) \o q
    <2>1. q \in Seq(C)
      OBVIOUS
    <2>2. f \in Seq(C) /\ Quoted(s) = (<<quote>> \o FlatMap(Doubles(C), s)) \o <<quote>>
      BY QuotedIs DEF h
    <2> QED BY <2>1, <2>2 DEF h
  <1>8. v = u \o q
    BY AppendIsConcat DEF v
  <1>9. w \in Seq(C)
    BY <1>2, <1>7, ConcatProperties
  <1>10. Append(w, quote) = w \o q
    BY <1>9, AppendIsConcat
  <1>11. Ready(Append(w, quote), Held(R, W, s, "plain"))
    <2> HIDE DEF w
    <2>1. Settled(w, Held(R, W, s, "quoted"))
      BY <1>6 DEF w
    <2> QED BY <1>9, <2>1, QuoteStep
  <1> HIDE DEF f, q
  <1>12. u \o ((q \o f) \o q) = w \o q
    <2>1. q \o f \in Seq(C)
      BY <1>7, ConcatProperties
    <2>4. u \in Seq(C) /\ q \in Seq(C) /\ f \in Seq(C)
      BY <1>7
    <2>2. u \o ((q \o f) \o q) = (u \o (q \o f)) \o q
      <3> DEFINE p == q \o f
      <3>1. p \in Seq(C)
        BY <2>1
      <3> HIDE DEF p
      <3>2. u \o (p \o q) = (u \o p) \o q
        BY <2>4, <3>1, Associative
      <3> QED BY <3>2 DEF p
    <2>3. u \o (q \o f) = (u \o q) \o f
      BY <2>4, Associative
    <2> QED BY <1>8, <2>2, <2>3
  <1> HIDE DEF w
  <1>13. u \o Quoted(s) = Append(w, quote)
    BY <1>7, <1>10, <1>12
  <1> QED BY <1>11, <1>13

\* What comes back of a cell.
BackCell(s) == IF esc(s) = s THEN NoCr(s) ELSE s

LEMMA EscCell ==
    ASSUME NEW C, quote \in C, NEW s \in Seq(C)
    PROVE  /\ esc(s) \in Seq(C) /\ BackCell(s) \in Seq(C)
           /\ \A u \in Seq(C) : \A R, W :
                Settled(u, Held(R, W, <<>>, "plain")) => Ready(u \o esc(s), Held(R, W, BackCell(s), "plain"))
  <1>1. CASE \E c \in {quote, comma, nl} : Contains(s, c)
    <2>1. esc(s) = Quoted(s) /\ Quoted(s) # s /\ Quoted(s) \in Seq(C)
      BY <1>1, QuotedLonger DEF esc
    <2>2. BackCell(s) = s
      BY <2>1 DEF BackCell
    <2>3. ASSUME NEW u \in Seq(C), NEW R, NEW W, Settled(u, Held(R, W, <<>>, "plain"))
          PROVE  Ready(u \o esc(s), Held(R, W, BackCell(s), "plain"))
      BY <2>1, <2>2, <2>3, QuotedCell
    <2> QED BY <2>1, <2>2, <2>3
  <1>2. CASE ~ \E c \in {quote, comma, nl} : Contains(s, c)
    <2>1. esc(s) = s
      BY <1>2 DEF esc
    <2>2. BackCell(s) = NoCr(s) /\ NoCr(s) \in Seq(C)
      BY <2>1, NoCrIs DEF BackCell
    <2>3. s \in Seq(C \ {quote, comma, nl})
      <3>1. Len(s) \in Nat /\ DOMAIN s = 1..Len(s) /\ s \in [1..Len(s) -> C]
        BY LenProperties
      <3>2. ASSUME NEW i \in 1..Len(s) PROVE s[i] \in C \ {quote, comma, nl}
        <4>1. s[i] \in C
          BY <3>1
        <4>2. Contains(s, s[i])
          BY DEF Contains
        <4> QED BY <1>2, <4>1, <4>2
      <3>3. s \in [1..Len(s) -> C \ {quote, comma, nl}]
        BY <3>1, <3>2
      <3> QED BY <3>1, <3>3, SeqDef
    <2>4. ASSUME NEW u \in Seq(C), NEW R, NEW W, Settled(u, Held(R, W, <<>>, "plain"))
          PROVE  Ready(u \o esc(s), Held(R, W, BackCell(s), "plain"))
      BY <2>1, <2>2, <2>3, <2>4, PlainCell
    <2> QED BY <2>1, <2>2, <2>4
  <1> QED BY <1>1, <1>2

\* A test case, its line in the file, and what comes back of it.
TCase(C) == [stdin : Seq(C), expected : Seq(C)]

LineOf(C) == [t \in TCase(C) |-> esc(t.stdin) \o <<comma>> \o esc(t.expected) \o <<nl>>]

BackRow(C) == [t \in TCase(C) |-> <<BackCell(t.stdin), BackCell(t.expected)>>]

LEMMA TwoCells == \A x, y : Append(Append(<<>>, x), y) = <<x, y>>
  <1> SUFFICES ASSUME NEW x, NEW y PROVE Append(Append(<<>>, x), y) = <<x, y>>
    OBVIOUS
  <1> DEFINE S == {x, y}
             p == Append(<<>>, x)
             q == Append(p, y)
             r == <<x, y>>
  <1>1. <<>> \in Seq(S) /\ Len(<<>>) = 0
    BY EmptySeq, Zenon
  <1>2. p \in Seq(S) /\ Len(p) = 1 /\ p[1] = x
    BY <1>1, AppendProperties
  <1> HIDE DEF p
  <1>3. q \in Seq(S) /\ Len(q) = 2 /\ q[1] = x /\ q[2] = y
    <2>1. y \in S
      OBVIOUS
    <2> HIDE DEF S
    <2>2. q \in Seq(S) /\ Len(q) = Len(p) + 1 /\ q[Len(p) + 1] = y /\ \A i \in 1..Len(p) : q[i] = p[i]
      <3>1. p \in Seq(S)
        BY <1>2
      <3> QED BY <2>1, <3>1, AppendProperties
    <2> HIDE DEF q
    <2> QED BY <1>2, <2>2
  <1> HIDE DEF q
  <1>4. r \in Seq(S) /\ Len(r) = 2 /\ r[1] = x /\ r[2] = y
    OBVIOUS
  <1> HIDE DEF r
  <1>5. \A i \in 1..2 : q[i] = r[i]
    BY <1>3, <1>4
  <1>6. q = r
    BY <1>3, <1>4, <1>5, SeqEqual
  <1> QED BY <1>6 DEF p, q, r

LEMMA RowStep ==
    ASSUME NEW C, {quote, comma, nl} \subseteq C, NEW t \in TCase(C)
    PROVE  /\ LineOf(C)[t] \in Seq(C)
           /\ \A u \in Seq(C) : \A R : Settled(u, Held(R, <<>>, <<>>, "plain")) =>
                Settled(u \o LineOf(C)[t], Held(Append(R, BackRow(C)[t]), <<>>, <<>>, "plain"))
  <1> DEFINE a == t.stdin
             b == t.expected
             x == esc(a)
             y == esc(b)
             p == <<comma>>
             q == <<nl>>
             z == <<>>
  <1>1. a \in Seq(C) /\ b \in Seq(C) /\ quote \in C /\ comma \in C /\ nl \in C
    BY DEF TCase
  <1>2. LineOf(C)[t] = ((x \o p) \o y) \o q /\ BackRow(C)[t] = <<BackCell(a), BackCell(b)>>
    BY DEF LineOf, BackRow
  <1>3. p \in Seq(C) /\ q \in Seq(C)
    BY <1>1
  <1> HIDE DEF a, b
  <1>4. x \in Seq(C) /\ y \in Seq(C)
    BY <1>1, EscCell
  <1>5. ASSUME NEW u \in Seq(C), NEW R, NEW W, NEW s \in Seq(C), Settled(u, Held(R, W, <<>>, "plain"))
        PROVE  Ready(u \o esc(s), Held(R, W, BackCell(s), "plain"))
    BY <1>1, <1>5, EscCell
  <1>6. \A u \in Seq(C) : Append(u, comma) = u \o p /\ Append(u, nl) = u \o q
    BY <1>1, AppendIsConcat
  <1> HIDE DEF p, q
  <1>7. x \o p \in Seq(C) /\ (x \o p) \o y \in Seq(C)
    <2> HIDE DEF x, y
    <2>1. x \o p \in Seq(C)
      BY <1>3, <1>4, ConcatProperties
    <2> QED BY <1>4, <2>1, ConcatProperties
  <1>8. LineOf(C)[t] \in Seq(C)
    <2> DEFINE v == (x \o p) \o y
    <2>1. v \in Seq(C)
      BY <1>7
    <2> HIDE DEF v
    <2>2. v \o q \in Seq(C)
      BY <1>3, <2>1, ConcatProperties
    <2> QED BY <1>2, <2>2 DEF v
  <1>9. ASSUME NEW u \in Seq(C), NEW R, Settled(u, Held(R, <<>>, <<>>, "plain"))
        PROVE  Settled(u \o LineOf(C)[t], Held(Append(R, BackRow(C)[t]), <<>>, <<>>, "plain"))
    <2> DEFINE u1 == u \o x
               u2 == Append(u1, comma)
               u3 == u2 \o y
               u4 == Append(u3, nl)
               A == BackCell(a)
               B == BackCell(b)
    <2>1. Ready(u1, Held(R, <<>>, A, "plain"))
      BY <1>1, <1>5, <1>9
    <2>2. u1 \in Seq(C)
      <3> HIDE DEF x
      <3> QED BY <1>4, ConcatProperties
    <2> HIDE DEF u1
    <2>3. u2 \in Seq(C) /\ Settled(u2, Held(R, Append(<<>>, A), <<>>, "plain"))
      BY <1>1, <2>1, <2>2, AppendProperties, PlainStep
    <2> HIDE DEF u2
    <2>4. Ready(u3, Held(R, Append(<<>>, A), B, "plain"))
      BY <1>1, <1>5, <2>3
    <2>5. u3 \in Seq(C)
      <3> HIDE DEF y
      <3> QED BY <1>4, <2>3, ConcatProperties
    <2> HIDE DEF u3, A, B
    <2>6. Settled(u4, Held(Append(R, Append(Append(<<>>, A), B)), <<>>, <<>>, "plain"))
      BY <1>1, <2>4, <2>5, PlainStep
    <2>7. Append(Append(<<>>, A), B) = <<A, B>>
      BY TwoCells
    <2>8. u4 = u \o LineOf(C)[t]
      <3> HIDE DEF x, y
      <3>1. u4 = u3 \o q /\ u2 = u1 \o p
        BY <1>6, <2>2, <2>5 DEF u2
      <3>2. u1 \o p = u \o (x \o p)
        <4>1. u \o (x \o p) = (u \o x) \o p
          BY <1>3, <1>4, Associative
        <4> QED BY <4>1 DEF u1
      <3>3. u3 = u \o ((x \o p) \o y)
        <4> DEFINE w == x \o p
        <4>1. w \in Seq(C)
          BY <1>7
        <4>2. u2 = u \o w
          BY <3>1, <3>2
        <4> HIDE DEF w
        <4>3. u \o (w \o y) = (u \o w) \o y
          BY <1>4, <4>1, Associative
        <4> QED BY <4>2, <4>3 DEF w, u3
      <3>4. u4 = u \o (((x \o p) \o y) \o q)
        <4> DEFINE w == (x \o p) \o y
        <4>1. w \in Seq(C)
          BY <1>7
        <4>2. u3 = u \o w
          BY <3>3
        <4> HIDE DEF w, u4
        <4>3. u \o (w \o q) = (u \o w) \o q
          BY <1>3, <4>1, Associative
        <4> QED BY <3>1, <4>2, <4>3 DEF w
      <3> QED BY <1>2, <3>4
    <2>9. BackRow(C)[t] = <<A, B>>
      BY <1>2 DEF A, B
    <2> QED BY <2>6, <2>7, <2>8, <2>9
  <1> QED BY <1>8, <1>9

\* The header, and the rows of the file.
Header == <<"stdin", comma, "expected", nl>>

HeaderRow == << <<"stdin">>, <<"expected">> >>

LEMMA HeaderScan ==
    Settled(Header, Held(<<HeaderRow>>, <<>>, <<>>, "plain"))
  <1> DEFINE C == {"stdin", comma, "expected", nl}
             z == <<>>
             u1 == Append(z, "stdin")
             u2 == Append(u1, comma)
             u3 == Append(u2, "expected")
             u4 == Append(u3, nl)
             W == Append(z, Append(z, "stdin"))
  <1>1. Settled(z, Held(z, z, z, "plain")) /\ z \in Seq(C)
    <2>1. z \in Seq(C)
      BY EmptySeq, Zenon
    <2>2. Start = Held(z, z, z, "plain")
      BY DEF Start, Held
    <2> QED BY <2>1, <2>2, ScannedEmpty DEF Settled
  <1>2. u1 \in Seq(C) /\ u2 \in Seq(C) /\ u3 \in Seq(C)
    <2>1. u1 \in Seq(C)
      BY <1>1, AppendProperties
    <2> HIDE DEF u1
    <2>2. u2 \in Seq(C)
      BY <2>1, AppendProperties
    <2> HIDE DEF u2
    <2>3. u3 \in Seq(C)
      BY <2>2, AppendProperties
    <2> QED BY <2>1, <2>2, <2>3
  <1>3. /\ "stdin" \in C /\ "stdin" \notin {quote, comma, cr, nl}
        /\ "expected" \in C /\ "expected" \notin {quote, comma, cr, nl}
        /\ comma \in C /\ nl \in C
    BY DEF quote, comma, cr, nl
  <1>4. Header = u4
    BY DEF Header
  <1>5. Append(W, Append(z, "expected")) = HeaderRow
    <2>1. Append(z, "stdin") = <<"stdin">> /\ Append(z, "expected") = <<"expected">>
      OBVIOUS
    <2> QED BY <2>1, TwoCells DEF HeaderRow
  <1>6. Append(z, HeaderRow) = <<HeaderRow>>
    OBVIOUS
  <1> HIDE DEF C
  <1>7. Settled(u1, Held(z, z, Append(z, "stdin"), "plain"))
    BY <1>1, <1>3, SettledReady, PlainStep
  <1> HIDE DEF u1
  <1>8. Settled(u2, Held(z, W, z, "plain"))
    BY <1>2, <1>3, <1>7, SettledReady, PlainStep
  <1> HIDE DEF u2, W
  <1>9. Settled(u3, Held(z, W, Append(z, "expected"), "plain"))
    BY <1>2, <1>3, <1>8, SettledReady, PlainStep
  <1> HIDE DEF u3
  <1>10. Settled(u4, Held(Append(z, Append(W, Append(z, "expected"))), z, z, "plain"))
    BY <1>2, <1>3, <1>9, SettledReady, PlainStep
  <1> QED BY <1>4, <1>5, <1>6, <1>10

\* The alphabet of a file.
InFile(C) == {quote, comma, nl, "stdin", "expected"} \subseteq C

LEMMA FileIs ==
    ASSUME NEW C, InFile(C), NEW ts \in Seq(TCase(C))
    PROVE  /\ LineOf(C) \in [TCase(C) -> Seq(C)] /\ exportCSV(ts) = Header \o FlatMap(LineOf(C), ts)
           /\ BackRow(C) \in [TCase(C) -> Seq(Seq(C))]
  <1> DEFINE K == TCase(C)
             h == LineOf(C)
             g == BackRow(C)
             e == [i \in DOMAIN ts |-> esc(ts[i].stdin) \o <<comma>> \o esc(ts[i].expected) \o <<nl>>]
             T == Seq(C)
  <1>1. {quote, comma, nl} \subseteq C
    BY DEF InFile
  <1>2. h \in [K -> Seq(C)]
    <2>1. ASSUME NEW t \in K PROVE h[t] \in Seq(C)
      BY <1>1, RowStep
    <2>2. h = [t \in K |-> h[t]]
      BY DEF LineOf
    <2> HIDE DEF h, K
    <2> QED BY <2>1, <2>2
  <1>3. g \in [K -> Seq(Seq(C))]
    <2>1. ASSUME NEW t \in K PROVE g[t] \in Seq(T)
      <3>1. t.stdin \in Seq(C) /\ t.expected \in Seq(C) /\ quote \in C
        BY <1>1 DEF TCase
      <3>2. BackCell(t.stdin) \in T /\ BackCell(t.expected) \in T
        BY <3>1, EscCell
      <3>3. g[t] = <<BackCell(t.stdin), BackCell(t.expected)>>
        BY DEF BackRow
      <3> HIDE DEF g, T
      <3> QED BY <3>2, <3>3
    <2>2. g = [t \in K |-> g[t]]
      BY DEF BackRow
    <2> HIDE DEF g, K
    <2> QED BY <2>1, <2>2
  <1>4. e = Mapped(h, ts)
    <2>1. DOMAIN ts = 1..Len(ts) /\ \A i \in 1..Len(ts) : ts[i] \in K
      BY LenProperties, ElementOfSeq
    <2>2. \A t \in K : h[t] = esc(t.stdin) \o <<comma>> \o esc(t.expected) \o <<nl>>
      BY DEF LineOf
    <2> HIDE DEF h, K
    <2>3. ASSUME NEW i \in DOMAIN ts
          PROVE  h[ts[i]] = esc(ts[i].stdin) \o <<comma>> \o esc(ts[i].expected) \o <<nl>>
      <3>1. ts[i] \in K
        BY <2>1
      <3> QED BY <2>2, <3>1, Zenon
    <2>4. e = [i \in DOMAIN ts |-> h[ts[i]]]
      BY <2>3, Zenon
    <2> QED BY <2>4 DEF Mapped
  <1>5. exportCSV(ts) = Header \o FlattenSeq(e)
    BY Zenon DEF exportCSV, Header
  <1> HIDE DEF e
  <1>6. exportCSV(ts) = Header \o FlatMap(h, ts)
    BY <1>4, <1>5 DEF FlatMap
  <1> QED BY <1>2, <1>3, <1>6

LEMMA FileScan ==
    ASSUME NEW C, InFile(C), NEW ts \in Seq(TCase(C))
    PROVE  Settled(exportCSV(ts), Held(<<HeaderRow>> \o Mapped(BackRow(C), ts), <<>>, <<>>, "plain"))
  <1> DEFINE K == TCase(C)
             h == LineOf(C)
             g == BackRow(C)
             U == Seq(Seq(C))
             z == <<>>
             hd == <<HeaderRow>>
             M(l) == Mapped(g, l)
             S == {l \in Seq(K) : Settled(Header \o FlatMap(h, l), Held(hd \o M(l), <<>>, <<>>, "plain"))}
  <1>1. h \in [K -> Seq(C)] /\ g \in [K -> U]
    BY FileIs
  <1>2. Header \in Seq(C) /\ hd \in Seq(U)
    <2>1. "stdin" \in C /\ "expected" \in C /\ comma \in C /\ nl \in C
      BY DEF InFile
    <2>2. Header \in Seq(C)
      BY <2>1 DEF Header
    <2>3. <<"stdin">> \in Seq(C) /\ <<"expected">> \in Seq(C)
      BY <2>1
    <2>4. HeaderRow \in U
      <3> DEFINE T == Seq(C)
                 a == <<"stdin">>
                 b == <<"expected">>
      <3>1. a \in T /\ b \in T
        BY <2>3
      <3> HIDE DEF T, a, b
      <3>2. <<a, b>> \in Seq(T)
        BY <3>1
      <3> QED BY <3>2 DEF T, a, b, HeaderRow
    <2> HIDE DEF U
    <2>5. hd \in Seq(U)
      BY <2>4
    <2> QED BY <2>2, <2>5
  <1>3. ASSUME NEW t \in K, NEW u \in Seq(C), NEW R, Settled(u, Held(R, <<>>, <<>>, "plain"))
        PROVE  Settled(u \o h[t], Held(Append(R, g[t]), <<>>, <<>>, "plain"))
    <2>1. {quote, comma, nl} \subseteq C
      BY DEF InFile
    <2> QED BY <1>3, <2>1, RowStep
  <1> HIDE DEF K, h, g, U, hd
  <1>4. z \in S
    <2>1. z \in Seq(K)
      BY EmptySeq, Zenon
    <2>2. FlatMap(h, z) = z
      BY FlatMapEmpty
    <2>3. M(z) = z
      BY DEF Mapped
    <2>4. Header \o z = Header /\ hd \o z = hd
      BY <1>2, ConcatEmptySeq
    <2>5. Settled(Header, Held(hd, <<>>, <<>>, "plain"))
      BY HeaderScan DEF hd
    <2> HIDE DEF z, M
    <2> QED BY <2>1, <2>2, <2>3, <2>4, <2>5
  <1>5. ASSUME NEW l \in Seq(K), NEW t \in K, l \in S PROVE Append(l, t) \in S
    <2> DEFINE f == FlatMap(h, l)
               u == Header \o f
               R == hd \o M(l)
    <2>1. f \in Seq(C) /\ FlatMap(h, Append(l, t)) = f \o h[t] /\ h[t] \in Seq(C)
      BY <1>1, FlatMapType, FlatMapAppend
    <2>2. M(l) \in Seq(U) /\ M(Append(l, t)) = Append(M(l), g[t]) /\ g[t] \in U
      BY <1>1, MapSeq, MapAppend
    <2>3. Settled(u, Held(R, <<>>, <<>>, "plain"))
      BY <1>5
    <2> HIDE DEF f, M
    <2>4. u \in Seq(C)
      BY <1>2, <2>1, ConcatProperties
    <2>5. Header \o (f \o h[t]) = u \o h[t]
      <3> DEFINE k == h[t]
      <3>1. k \in Seq(C)
        BY <2>1
      <3> HIDE DEF k
      <3>2. Header \o (f \o k) = (Header \o f) \o k
        BY <1>2, <2>1, <3>1, Associative
      <3> QED BY <3>2 DEF k
    <2>6. hd \o Append(M(l), g[t]) = Append(R, g[t])
      <3> DEFINE m == M(l)
                 k == g[t]
      <3>1. m \in Seq(U) /\ k \in U
        BY <2>2
      <3> HIDE DEF m, k
      <3>2. hd \o Append(m, k) = Append(hd \o m, k)
        BY <1>2, <3>1, AppendAfter
      <3> QED BY <3>2 DEF m, k
    <2> HIDE DEF u, R
    <2>7. Settled(u \o h[t], Held(Append(R, g[t]), <<>>, <<>>, "plain"))
      BY <1>3, <2>3, <2>4
    <2>8. Append(l, t) \in Seq(K)
      BY AppendProperties
    <2> QED BY <2>1, <2>2, <2>5, <2>6, <2>7, <2>8
  <1>6. ts \in S
    <2>1. ts \in Seq(K)
      BY DEF K
    <2> HIDE DEF S
    <2>2. Seq(K) \subseteq S
      BY <1>4, <1>5, Longer
    <2> QED BY <2>1, <2>2
  <1>7. Settled(Header \o FlatMap(h, ts), Held(hd \o M(ts), <<>>, <<>>, "plain"))
    BY <1>6
  <1> QED BY <1>7, FileIs DEF h, g, hd

\* The cases that say something.
Tells(C) == [t \in TCase(C) |-> IF t.stdin # <<>> \/ t.expected # <<>> THEN <<t>> ELSE <<>>]

BackCase(C) == [t \in TCase(C) |-> [stdin |-> BackCell(t.stdin), expected |-> BackCell(t.expected)]]

LEMMA TellingIs ==
    ASSUME NEW C, NEW ts \in Seq(TCase(C))
    PROVE  /\ Tells(C) \in [TCase(C) -> Seq(TCase(C))] /\ Telling(ts) = FlatMap(Tells(C), ts)
           /\ Telling(ts) \in Seq(TCase(C))
  <1> DEFINE K == TCase(C)
             h == Tells(C)
             z == <<>>
             e == [i \in DOMAIN ts |->
                     IF ts[i].stdin # <<>> \/ ts[i].expected # <<>> THEN <<ts[i]>> ELSE <<>>]
  <1>1. h \in [K -> Seq(K)]
    <2>1. ASSUME NEW t \in K PROVE h[t] \in Seq(K)
      <3>1. h[t] = <<t>> \/ h[t] = z
        BY DEF Tells
      <3>2. z \in Seq(K)
        BY EmptySeq, Zenon
      <3>3. <<t>> \in Seq(K)
        <4> HIDE DEF K
        <4> QED OBVIOUS
      <3> QED BY <3>1, <3>2, <3>3
    <2>2. h = [t \in K |-> h[t]]
      BY DEF Tells
    <2> HIDE DEF h, K
    <2> QED BY <2>1, <2>2
  <1>2. e = Mapped(h, ts)
    <2>1. DOMAIN ts = 1..Len(ts) /\ \A i \in 1..Len(ts) : ts[i] \in K
      BY LenProperties, ElementOfSeq
    <2>2. \A t \in K : h[t] = IF t.stdin # <<>> \/ t.expected # <<>> THEN <<t>> ELSE <<>>
      BY DEF Tells
    <2> HIDE DEF h, K
    <2>3. ASSUME NEW i \in DOMAIN ts
          PROVE  h[ts[i]] = IF ts[i].stdin # <<>> \/ ts[i].expected # <<>> THEN <<ts[i]>> ELSE <<>>
      <3>1. ts[i] \in K
        BY <2>1
      <3> QED BY <2>2, <3>1, Zenon
    <2>4. e = [i \in DOMAIN ts |-> h[ts[i]]]
      BY <2>3, Zenon
    <2> QED BY <2>4 DEF Mapped
  <1>3. Telling(ts) = FlattenSeq(e)
    BY Zenon DEF Telling
  <1> HIDE DEF e
  <1>4. Telling(ts) = FlatMap(h, ts)
    BY <1>2, <1>3 DEF FlatMap
  <1> HIDE DEF h
  <1>5. FlatMap(h, ts) \in Seq(K)
    <2> HIDE DEF K
    <2>1. ts \in Seq(K)
      BY DEF K
    <2> QED BY <1>1, <2>1, FlatMapType
  <1> QED BY <1>1, <1>4, <1>5 DEF h

LEMMA BackIs ==
    ASSUME NEW C, quote \in C
    PROVE  /\ BackCase(C) \in [TCase(C) -> TCase(C)]
           /\ \A t \in TCase(C) : Tells(C)[t] = <<>> => Tells(C)[BackCase(C)[t]] = <<>>
           /\ \A t \in TCase(C) : Tells(C)[t] = <<t>> \/ Tells(C)[t] = <<>>
  <1> DEFINE g == BackCase(C)
             h == Tells(C)
             z == <<>>
  <1>1. ASSUME NEW t \in TCase(C)
        PROVE  /\ g[t] = [stdin |-> BackCell(t.stdin), expected |-> BackCell(t.expected)]
               /\ g[t] \in TCase(C)
    <2>1. t.stdin \in Seq(C) /\ t.expected \in Seq(C)
      BY DEF TCase
    <2>2. BackCell(t.stdin) \in Seq(C) /\ BackCell(t.expected) \in Seq(C)
      BY <2>1, EscCell
    <2>3. g[t] = [stdin |-> BackCell(t.stdin), expected |-> BackCell(t.expected)]
      BY DEF BackCase
    <2> HIDE DEF g
    <2>4. g[t] \in TCase(C)
      BY <2>2, <2>3 DEF TCase
    <2> QED BY <2>3, <2>4
  <1>2. g \in [TCase(C) -> TCase(C)]
    <2>1. g = [t \in TCase(C) |-> g[t]]
      BY DEF BackCase
    <2> HIDE DEF g
    <2> QED BY <1>1, <2>1
  <1>3. BackCell(z) = z
    <2>1. NoCr(z) = z
      BY NoCrEmpty
    <2> QED BY <2>1 DEF BackCell
  <1>4. ASSUME NEW t \in TCase(C)
        PROVE  (h[t] = <<t>> \/ h[t] = z) /\ (h[t] = z <=> t.stdin = z /\ t.expected = z)
    <2>1. h[t] = IF t.stdin # <<>> \/ t.expected # <<>> THEN <<t>> ELSE <<>>
      BY DEF Tells
    <2>2. <<t>> # <<>>
      OBVIOUS
    <2> HIDE DEF h
    <2> QED BY <2>1, <2>2
  <1> HIDE DEF g, h, z
  <1>5. ASSUME NEW t \in TCase(C), h[t] = z PROVE h[g[t]] = z
    <2>1. t.stdin = z /\ t.expected = z
      BY <1>4, <1>5
    <2>2. g[t].stdin = z /\ g[t].expected = z
      <3>1. g[t] = [stdin |-> z, expected |-> z]
        BY <1>1, <1>3, <2>1
      <3> QED BY <3>1
    <2> QED BY <1>1, <1>4, <2>2
  <1> QED BY <1>2, <1>4, <1>5 DEF g, h, z

\* A case that says nothing before it is written says nothing when it is read.
LEMMA TellTwice ==
    ASSUME NEW C, quote \in C, NEW ts \in Seq(TCase(C))
    PROVE  Telling(Mapped(BackCase(C), Telling(ts))) = Telling(Mapped(BackCase(C), ts))
  <1> DEFINE K == TCase(C)
             h == Tells(C)
             g == BackCase(C)
             z == <<>>
             F(l) == FlatMap(h, l)
             B(l) == F(Mapped(g, l))
             S == {l \in Seq(K) : B(F(l)) = B(l)}
  <1>1. h \in [K -> Seq(K)] /\ g \in [K -> K]
    BY TellingIs, BackIs
  <1>2. \A t \in K : (h[t] = <<t>> \/ h[t] = z) /\ (h[t] = z => h[g[t]] = z)
    BY BackIs
  <1> HIDE DEF K, h, g
  <1>3. ASSUME NEW l \in Seq(K) PROVE F(l) \in Seq(K) /\ Mapped(g, l) \in Seq(K) /\ B(l) \in Seq(K)
    <2>1. Mapped(g, l) \in Seq(K)
      BY <1>1, MapSeq
    <2> QED BY <1>1, <2>1, FlatMapType
  <1>4. ASSUME NEW l \in Seq(K), NEW t \in K
        PROVE  F(Append(l, t)) = F(l) \o h[t] /\ B(Append(l, t)) = B(l) \o h[g[t]]
    <2>1. F(Append(l, t)) = F(l) \o h[t]
      BY <1>1, FlatMapAppend
    <2>2. Mapped(g, Append(l, t)) = Append(Mapped(g, l), g[t])
      BY <1>1, MapAppend
    <2> DEFINE m == Mapped(g, l)
               x == g[t]
    <2>3. m \in Seq(K) /\ x \in K
      BY <1>1, <1>3
    <2> HIDE DEF m, x
    <2>4. F(Append(m, x)) = F(m) \o h[x]
      BY <1>1, <2>3, FlatMapAppend
    <2> QED BY <2>1, <2>2, <2>4 DEF m, x
  <1>5. B(z) = z /\ F(z) = z
    <2>1. Mapped(g, z) = z
      BY DEF Mapped
    <2>2. F(z) = z
      BY FlatMapEmpty
    <2> QED BY <2>1, <2>2
  <1>6. z \in S
    <2>1. z \in Seq(K)
      BY EmptySeq, Zenon
    <2> HIDE DEF z, F, B
    <2> QED BY <1>5, <2>1
  <1>7. ASSUME NEW l \in Seq(K), NEW t \in K, l \in S PROVE Append(l, t) \in S
    <2> DEFINE f == F(l)
    <2>1. B(f) = B(l) /\ f \in Seq(K) /\ B(l) \in Seq(K)
      BY <1>3, <1>7
    <2>2. Append(l, t) \in Seq(K)
      BY AppendProperties
    <2>3. F(Append(l, t)) = f \o h[t] /\ B(Append(l, t)) = B(l) \o h[g[t]]
      BY <1>4
    <2>4. B(Append(f, t)) = B(f) \o h[g[t]]
      <3> HIDE DEF f, B, F
      <3> QED BY <1>4, <2>1
    <2> HIDE DEF f, B, F
    <2>5. CASE h[t] = <<t>>
      <3>1. f \o <<t>> = Append(f, t)
        BY <2>1, AppendIsConcat
      <3>2. B(F(Append(l, t))) = B(Append(l, t))
        BY <2>1, <2>3, <2>4, <2>5, <3>1
      <3> QED BY <2>2, <3>2
    <2>6. CASE h[t] = z
      <3>1. h[g[t]] = z
        BY <1>2, <2>6
      <3>2. f \o z = f /\ B(l) \o z = B(l)
        BY <2>1, ConcatEmptySeq
      <3>3. B(F(Append(l, t))) = B(Append(l, t))
        BY <2>1, <2>3, <2>6, <3>1, <3>2
      <3> QED BY <2>2, <3>3
    <2> QED BY <1>2, <2>5, <2>6
  <1>8. ts \in S
    <2>1. ts \in Seq(K)
      BY DEF K
    <2> HIDE DEF S
    <2>2. <<>> \in S
      BY <1>6
    <2>3. Seq(K) \subseteq S
      BY <1>7, <2>2, Longer
    <2> QED BY <2>1, <2>3
  <1>9. B(F(ts)) = B(ts)
    BY <1>8
  <1>10. \A l \in Seq(K) : Telling(l) = F(l)
    BY TellingIs DEF K, h
  <1>11. ts \in Seq(K)
    BY DEF K
  <1>12. Telling(ts) = F(ts) /\ Telling(Mapped(g, ts)) = B(ts) /\ Telling(Mapped(g, F(ts))) = B(F(ts))
    <2>1. F(ts) \in Seq(K) /\ Mapped(g, ts) \in Seq(K)
      BY <1>3, <1>11
    <2>2. Mapped(g, F(ts)) \in Seq(K)
      <3> HIDE DEF F
      <3> QED BY <1>1, <2>1, MapSeq
    <2> QED BY <1>10, <1>11, <2>1, <2>2
  <1> HIDE DEF F, B
  <1> QED BY <1>9, <1>12 DEF g

\* The rows of a file, and the cases they are.
LEMMA ParseIs ==
    ASSUME NEW C, InFile(C), NEW ts \in Seq(TCase(C))
    PROVE  parseCSV(exportCSV(ts)) = Telling(Mapped(BackCase(C), ts))
  <1> DEFINE K == TCase(C)
             s == exportCSV(ts)
             g == BackRow(C)
             M == Mapped(g, ts)
             hd == <<HeaderRow>>
             all == hd \o M
             U == Seq(Seq(C))
             N == Len(ts)
             z == <<>>
  <1>1. scanAll(s) = Held(all, <<>>, <<>>, "plain")
    BY FileScan, ScanAllIs DEF Settled
  <1>2. Rows(s) = all
    <2> DEFINE x == Held(all, <<>>, <<>>, "plain")
    <2>1. x.field = <<>> /\ x.row = <<>> /\ x.rows = all
      BY DEF Held
    <2>2. scanAll(s) = x
      BY <1>1
    <2> HIDE DEF x, s, all
    <2> QED BY <2>1, <2>2 DEF Rows
  <1>3. g \in [K -> U] /\ \A t \in K : g[t] = <<BackCell(t.stdin), BackCell(t.expected)>>
    BY FileIs DEF BackRow
  <1>4. N \in Nat /\ DOMAIN ts = 1..N /\ ts \in Seq(K) /\ \A i \in 1..N : ts[i] \in K
    BY LenProperties, ElementOfSeq
  <1>5. hd \in Seq({HeaderRow}) /\ Len(hd) = 1 /\ hd[1] = HeaderRow
    OBVIOUS
  <1>6. HeaderRow[1] = <<"stdin">>
    BY DEF HeaderRow
  <1> HIDE DEF s, g, hd
  <1>7. M \in Seq(U) /\ Len(M) = N /\ \A i \in 1..N : M[i] = g[ts[i]]
    <2>1. M \in Seq(U) /\ Len(M) = N
      <3> HIDE DEF K, U, N
      <3>1. Mapped(g, ts) \in Seq(U) /\ Len(Mapped(g, ts)) = Len(ts)
        BY <1>3, <1>4, MapSeq
      <3> QED BY <3>1 DEF N
    <2> QED BY <1>4, <2>1 DEF Mapped
  <1> DEFINE V == U \cup {HeaderRow}
  <1> HIDE DEF M, U, K
  <1>8. /\ all \in Seq(V) /\ Len(all) = N + 1 /\ all[1] = HeaderRow
        /\ \A i \in 1..N : all[1 + i] = M[i]
    <2>1. hd \in Seq(V) /\ M \in Seq(V)
      <3>1. {HeaderRow} \subseteq V /\ U \subseteq V
        OBVIOUS
      <3> HIDE DEF V
      <3> QED BY <1>5, <1>7, <3>1, SeqMono
    <2> HIDE DEF V
    <2>2. /\ hd \o M \in Seq(V) /\ Len(hd \o M) = Len(hd) + Len(M)
          /\ \A i \in 1..Len(hd) : (hd \o M)[i] = hd[i]
          /\ \A i \in 1..Len(M) : (hd \o M)[Len(hd) + i] = M[i]
      BY <2>1, Both
    <2> QED BY <1>4, <1>5, <1>7, <2>2
  <1> HIDE DEF all
  <1>9. Tail(all) = M
    <2>1. all # <<>>
      BY <1>4, <1>8
    <2>2. M \in Seq(V)
      <3>1. U \subseteq V
        OBVIOUS
      <3> HIDE DEF V
      <3> QED BY <1>7, <3>1, SeqMono
    <2> HIDE DEF V
    <2>3. Tail(all) \in Seq(V) /\ Len(Tail(all)) = N /\ \A i \in 1..N : Tail(all)[i] = all[i + 1]
      <3>1. /\ Tail(all) \in Seq(V) /\ Len(Tail(all)) = Len(all) - 1
            /\ \A i \in 1..Len(Tail(all)) : Tail(all)[i] = all[i + 1]
        BY <1>8, <2>1, HeadTailProperties
      <3> QED BY <1>4, <1>8, <3>1
    <2>4. \A i \in 1..N : Tail(all)[i] = M[i]
      <3>1. \A i \in 1..N : i + 1 = 1 + i
        BY <1>4
      <3> QED BY <1>8, <2>3, <3>1
    <2> QED BY <1>7, <2>2, <2>3, <2>4, SeqEqual
  <1>10. parseCSV(s) = Telling([i \in DOMAIN M |-> Case(M[i])])
    <2>1. all # <<>> /\ all[1][1] = <<"stdin">>
      BY <1>4, <1>6, <1>8
    <2> DEFINE body == IF all # <<>> /\ all[1][1] = <<"stdin">> THEN Tail(all) ELSE all
    <2>2. body = M
      BY <1>9, <2>1
    <2>3. parseCSV(s) = Telling([i \in DOMAIN body |-> Case(body[i])])
      BY <1>2, Zenon DEF parseCSV
    <2> HIDE DEF body
    <2> QED BY <2>2, <2>3
  <1>11. [i \in DOMAIN M |-> Case(M[i])] = Mapped(BackCase(C), ts)
    <2>1. DOMAIN M = 1..N
      BY <1>7, LenProperties
    <2>2. ASSUME NEW i \in 1..N PROVE Case(M[i]) = BackCase(C)[ts[i]]
      <3> DEFINE t == ts[i]
                 a == BackCell(t.stdin)
                 b == BackCell(t.expected)
      <3>1. t \in K /\ M[i] = <<a, b>>
        BY <1>3, <1>4, <1>7
      <3>2. BackCase(C)[t] = [stdin |-> a, expected |-> b]
        BY <3>1 DEF BackCase, K
      <3> HIDE DEF a, b
      <3>3. Case(<<a, b>>) = [stdin |-> a, expected |-> b]
        BY DEF Case
      <3> QED BY <3>1, <3>2, <3>3
    <2> HIDE DEF N
    <2> QED BY <1>4, <2>1, <2>2 DEF Mapped
  <1> QED BY <1>10, <1>11 DEF s

\* Without a file there is nothing to read.
LEMMA NothingRead == parseCSV(<<>>) = <<>> /\ \A h : Telling(Mapped(h, <<>>)) = <<>>
  <1> DEFINE z == <<>>
  <1>1. z \in Seq({}) /\ Len(z) = 0 /\ DOMAIN z = {}
    OBVIOUS
  <1>2. scanAll(z) = Held(z, z, z, "plain")
    <2>1. PICK w \in [0..Len(z) -> Cells({})] : IsScan(w, z, "eof")
      BY <1>1, ScanRounds
    <2> QED BY <1>1, <2>1, ScanAllIs DEF IsScan, Start, Held
  <1>3. Rows(z) = z
    <2> DEFINE x == Held(z, z, z, "plain")
    <2>1. x.field = z /\ x.row = z /\ x.rows = z
      BY DEF Held
    <2>2. scanAll(z) = x
      BY <1>2
    <2> HIDE DEF x
    <2> QED BY <2>1, <2>2 DEF Rows
  <1>4. Telling(z) = z
    <2>1. [i \in DOMAIN z |-> IF z[i].stdin # <<>> \/ z[i].expected # <<>> THEN <<z[i]>> ELSE <<>>] = z
      BY <1>1
    <2> QED BY <2>1, FlatEmpty, Zenon DEF Telling
  <1>5. [i \in DOMAIN z |-> Case(z[i])] = z /\ \A h : Mapped(h, z) = z
    BY <1>1 DEF Mapped
  <1>6. parseCSV(z) = z
    BY <1>3, <1>4, <1>5, Zenon DEF parseCSV
  <1> QED BY <1>4, <1>5, <1>6, Zenon

\* Cases that are exported and read again come back as they were, but for the
\* carriage returns of the cells without quotes: for the cases made of every text
\* that arrived, cut in two anywhere.
THEOREM CsvRoundTripHolds == ReaderSpec => []CsvRoundTrip
  <1>1. ReadersInv => CsvRoundTrip
    <2>1. SUFFICES ASSUME ReadersInv PROVE CsvRoundTrip
      OBVIOUS
    <2> DEFINE C == Sym \cup {quote, comma, nl, "stdin", "expected"}
    <2>2. InFile(C) /\ quote \in C /\ Sym \subseteq C
      BY DEF InFile
    <2> HIDE DEF C
    <2>4. ASSUME NEW ts \in Seq(TCase(C))
          PROVE  parseCSV(doExport(ts)) = Telling(Mapped(BackCase(C), ts))
      <3>1. Telling(ts) \in Seq(TCase(C))
        BY TellingIs
      <3>2. parseCSV(exportCSV(Telling(ts))) = Telling(Mapped(BackCase(C), Telling(ts)))
        BY <2>2, <3>1, ParseIs
      <3>3. CASE Telling(ts) = <<>>
        BY <2>2, <3>3, TellTwice, NothingRead DEF doExport
      <3>4. CASE Telling(ts) # <<>>
        BY <2>2, <3>2, <3>4, TellTwice DEF doExport
      <3> QED BY <3>3, <3>4
    <2>5. ASSUME NEW a \in Seq(C), NEW b \in Seq(C)
          PROVE  LET ts == <<[stdin |-> a, expected |-> b], [stdin |-> b, expected |-> a]>>
                     want == [i \in DOMAIN ts |-> [stdin |-> BackCell(ts[i].stdin),
                                                   expected |-> BackCell(ts[i].expected)]]
                 IN  parseCSV(doExport(ts)) = Telling(want)
      <3> DEFINE p == [stdin |-> a, expected |-> b]
                 q == [stdin |-> b, expected |-> a]
                 ts == <<p, q>>
                 want == [i \in DOMAIN ts |-> [stdin |-> BackCell(ts[i].stdin),
                                               expected |-> BackCell(ts[i].expected)]]
                 K == TCase(C)
      <3>1. p \in K /\ q \in K
        BY DEF TCase
      <3> HIDE DEF p, q, K
      <3>2. ts \in Seq(K)
        BY <3>1
      <3> HIDE DEF ts
      <3>3. want = Mapped(BackCase(C), ts)
        <4>1. DOMAIN ts = 1..Len(ts) /\ \A i \in 1..Len(ts) : ts[i] \in K
          BY <3>2, LenProperties, ElementOfSeq
        <4>2. \A t \in K : BackCase(C)[t] = [stdin |-> BackCell(t.stdin), expected |-> BackCell(t.expected)]
          BY DEF BackCase, K
        <4>3. ASSUME NEW i \in DOMAIN ts
              PROVE  BackCase(C)[ts[i]] = [stdin |-> BackCell(ts[i].stdin), expected |-> BackCell(ts[i].expected)]
          <5>1. ts[i] \in K
            BY <4>1
          <5> QED BY <4>2, <5>1, Zenon
        <4> QED BY <4>3, Zenon DEF Mapped
      <3>4. parseCSV(doExport(ts)) = Telling(want)
        BY <2>4, <3>2, <3>3 DEF K
      <3> QED BY <3>4, Zenon DEF ts, p, q
    <2>6. ASSUME NEW c \in Cuts PROVE c[1] \in Seq(C) /\ c[2] \in Seq(C)
      <3>1. c[1] \in Seq(Sym) /\ c[2] \in Seq(Sym)
        BY <2>1, CutTypes
      <3> QED BY <2>2, <3>1, SeqMono
    <2> QED BY <2>5, <2>6, Zenon DEF CsvRoundTrip, BackCell, NoCr
  <1> QED BY <1>1, ReadersInvariance, PTL
=============================================================================
