-------------------------- MODULE TestsPanelProofs --------------------------
(* Proofs about TestsPanel, for any sources, texts and files, any number   *)
(* of cases and buckets, and any comparison that accepts equal texts.      *)
EXTENDS TestsPanel, FiniteSetTheorems, SequenceTheorems, TLAPS

-----------------------------------------------------------------------------
(* The inductive invariant.                                                *)

Shape == [stdin : Text, expected : Text, token : Nat,
          status : {"none", "queued", "accepted", "re"}, stdout : Text \cup {Mangled},
          passed : {"none", "pass", "fail", "unchecked"}]

RowShape == [stdin : Text, status : {"queued", "accepted", "re"}, stdout : Text]

BucketShape == [tests : Seq(Shape), mode : Range(Mode), stopOnFail : BOOLEAN]

Blank(t) == t.token = None /\ t.status = "none" /\ t.passed = "none"

DocType ==
    /\ src \in Source /\ hash \in Source \cup {NoSource} /\ draft = src
    /\ mounted \in BOOLEAN

PanelType ==
    /\ tests \in Seq(Shape)
    /\ mode \in Range(Mode) /\ stopOnFail \in BOOLEAN

LoadedType ==
    /\ hydrating \in BOOLEAN /\ (hydrating => mounted)
    /\ loaded \in BucketShape

StoreType ==
    /\ order \in Seq(Source) /\ Len(order) <= MaxBuckets + 1
    /\ \A i, j \in DOMAIN order : order[i] = order[j] => i = j
    /\ failures \in Nat
    /\ bucket \in [Source -> BucketShape]
    /\ last \in [Source -> Seq(Shape)]

RunType ==
    /\ stage \in {"idle", "post", "get", "wait", "final"}
    /\ ctx \in [mode : Range(Mode), stop : BOOLEAN]
    /\ sent \in Seq(Text)
    /\ rows \in Seq(RowShape) /\ listed \in Seq(Nat)
    /\ disturbed \in BOOLEAN /\ stepped \in BOOLEAN

\* What the storage has for a source.
Kept(k) == IF k \in Range(order) THEN bucket[k].tests ELSE <<emptyCase>>

\* The buckets hold no results.
Clean == \A k \in Source : /\ Map(bucket[k].tests, Stripped) = bucket[k].tests
                            /\ Map(last[k], Stripped) = last[k]

\* What is kept for a source are the cases last shown for it, unless they were lost; of
\* the panel's own source this is true again once what was loaded is rendered.
Remembered ==
    /\ \A k \in Source \ lost : k # src \/ ~hydrating => Kept(k) = last[k]
    /\ hydrating => /\ \A i \in DOMAIN loaded.tests : Blank(loaded.tests[i])
                    /\ src \notin lost => loaded.tests = last[src]

\* The rows are those of the batch, listed in their order unless the clock went
\* back; a batch is polled when all of it has been inserted.
Service ==
    /\ Len(rows) <= Len(sent) /\ \A i \in 1..Len(rows) : rows[i].stdin = sent[i]
    /\ Len(listed) = Len(rows) /\ \A i \in 1..Len(listed) : listed[i] \in 1..Len(rows)
    /\ ~stepped => \A i \in 1..Len(listed) : listed[i] = i
    /\ stage \in {"get", "wait", "final"} => Len(rows) = Len(sent)

\* While the POST is under way no case has a result, and unless one was changed
\* the cases are those that were sent.
Posted ==
    stage = "post" =>
        /\ \A i \in DOMAIN tests : Blank(tests[i])
        /\ ~disturbed => sent = BatchSubmitParams(tests)

\* No two cases have the same token, and every token stands for a row.
Paired ==
    /\ \A i \in DOMAIN tests : tests[i].token # None =>
          tests[i].token \in 1..Len(sent) /\ Len(rows) = Len(sent)
    /\ \A i, j \in DOMAIN tests :
          i # j /\ tests[i].token # None => tests[i].token # tests[j].token

\* What a case shows is its own.
Owned(t) ==
    /\ t.passed # "none" => t.token # None
    /\ ~disturbed /\ t.status = "queued" => t.token # None
    /\ ~disturbed /\ t.token # None /\ (Running \/ t.status \notin Live) => t.stdin = sent[t.token]
    /\ ~disturbed /\ ~stepped /\ t.token # None /\ t.status \notin Live =>
          /\ t.status = rows[t.token].status
          /\ rows[t.token].stdout \notin Ambiguous =>
               /\ t.stdout = rows[t.token].stdout
               /\ t.passed \in {"none", Verdict(t, rows[t.token])}
    /\ ~disturbed /\ stage = "final" => t.status # "queued"
    /\ t.passed = "fail" => t.expected # Empty /\ (t.status = "accepted" => t.stdout # t.expected)

AllOwned == \A i \in DOMAIN tests : Owned(tests[i])

Types == DocType /\ PanelType /\ LoadedType /\ StoreType /\ RunType

Inv == Types /\ Clean /\ Remembered /\ Service /\ Posted /\ Paired /\ AllOwned

-----------------------------------------------------------------------------
(* Operators.                                                              *)

LEMMA StrippedCase ==
    ASSUME NEW t, t.stdin \in Text, t.expected \in Text
    PROVE  Stripped(t) \in Shape /\ Blank(Stripped(t))
  BY EmptyAssumption DEF Stripped, emptyCase, Shape, Blank, None

LEMMA StrippedTwice == \A t : Stripped(Stripped(t)) = Stripped(t)
  BY DEF Stripped, emptyCase

\* Cases without their run state.
LEMMA MapStripped ==
    ASSUME NEW s \in Seq(Shape)
    PROVE  /\ Map(s, Stripped) \in Seq(Shape) /\ Len(Map(s, Stripped)) = Len(s)
           /\ Map(Map(s, Stripped), Stripped) = Map(s, Stripped)
           /\ \A i \in DOMAIN Map(s, Stripped) : Blank(Map(s, Stripped)[i])
  <1> DEFINE m == Map(s, Stripped)
  <1>1. DOMAIN s = 1..Len(s) /\ Len(s) \in Nat
    OBVIOUS
  <1>2. m = [i \in 1..Len(s) |-> Stripped(s[i])]
    BY <1>1 DEF Map
  <1>3. \A i \in 1..Len(s) : Stripped(s[i]) \in Shape /\ Blank(Stripped(s[i]))
    <2> SUFFICES ASSUME NEW i \in 1..Len(s) PROVE Stripped(s[i]) \in Shape /\ Blank(Stripped(s[i]))
      OBVIOUS
    <2>0. s[i] \in Shape
      BY ElementOfSeq
    <2>1. s[i].stdin \in Text /\ s[i].expected \in Text
      BY <2>0 DEF Shape
    <2> QED BY <2>1, StrippedCase
  <1>4. m \in Seq(Shape) /\ Len(m) = Len(s) /\ DOMAIN m = 1..Len(s)
    BY <1>1, <1>2, <1>3
  <1>5. Map(m, Stripped) = m
    BY <1>2, <1>4, StrippedTwice DEF Map
  <1> QED BY <1>2, <1>3, <1>4, <1>5

\* The single empty case.
LEMMA EmptyCases ==
    /\ emptyCase \in Shape /\ Blank(emptyCase) /\ <<emptyCase>> \in Seq(Shape)
    /\ Map(<<emptyCase>>, Stripped) = <<emptyCase>>
  <1>1. emptyCase \in Shape /\ Blank(emptyCase)
    BY EmptyAssumption DEF emptyCase, Shape, Blank, None
  <1>2. Stripped(emptyCase) = emptyCase
    BY DEF Stripped, emptyCase
  <1> HIDE DEF emptyCase
  <1> QED BY <1>1, <1>2 DEF Map

\* The keys after a save.
LEMMA KeysProperties ==
    ASSUME StoreType, NEW k \in Source
    PROVE  /\ KeysAfter(k) \in Seq(Source) /\ Len(KeysAfter(k)) <= MaxBuckets + 1
           /\ Range(KeysAfter(k)) \subseteq Range(order) \cup {k}
           /\ k \in Range(KeysAfter(k))
           /\ \A i, j \in DOMAIN KeysAfter(k) : KeysAfter(k)[i] = KeysAfter(k)[j] => i = j
           /\ \A i \in DOMAIN order : order[i] \notin Range(KeysAfter(k)) =>
                 /\ Len(order) > MaxBuckets /\ Len(KeysAfter(k)) = MaxBuckets
                 /\ \A j \in 1..i : order[j] \notin Range(KeysAfter(k))
  <1>1. /\ MaxBuckets \in Nat /\ MaxBuckets >= 1 /\ order \in Seq(Source) /\ Len(order) \in Nat
        /\ DOMAIN order = 1..Len(order)
        /\ \A i, j \in DOMAIN order : order[i] = order[j] => i = j
    BY BoundsAssumption DEF StoreType
  <1>2. CASE k \in Range(order)
    BY <1>1, <1>2 DEF KeysAfter, StoreType, Range
  <1>3. CASE k \notin Range(order) /\ Len(order) > MaxBuckets
    <2> DEFINE a == Len(order) - MaxBuckets + 2
               s == SubSeq(order, a, Len(order))
    <2>1. a \in Nat /\ a >= 1 /\ Len(order) = MaxBuckets + 1 /\ a = 3
      <3>1. Len(order) <= MaxBuckets + 1
        BY DEF StoreType
      <3> DEFINE l == Len(order)
      <3>2. l \in Nat /\ l > MaxBuckets /\ l <= MaxBuckets + 1 /\ MaxBuckets \in Nat
        BY <1>1, <1>3, <3>1
      <3> HIDE DEF l
      <3>3. l = MaxBuckets + 1 /\ l - MaxBuckets + 2 = 3
        BY <3>2
      <3> QED BY <3>3 DEF l
    <2>2. s \in Seq(Source) /\ Len(s) = MaxBuckets - 1
          /\ \A i \in 1..Len(s) : s[i] = order[a + i - 1] /\ a + i - 1 \in DOMAIN order
      BY <1>1, <2>1
    <2>3. KeysAfter(k) = Append(s, k)
      BY <1>3 DEF KeysAfter
    <2> HIDE DEF s, a
    <2> DEFINE K == KeysAfter(k)
    <2>4. /\ K \in Seq(Source) /\ Len(K) = MaxBuckets /\ DOMAIN K = 1..MaxBuckets
          /\ \A i \in 1..MaxBuckets : K[i] = IF i < MaxBuckets THEN order[i + 2] ELSE k
          /\ \A i \in 1..MaxBuckets : i < MaxBuckets => i + 2 \in DOMAIN order
      BY <1>1, <2>1, <2>2, <2>3
    <2> HIDE DEF K
    <2>5. \A i \in DOMAIN order : order[i] # k
      BY <1>3 DEF Range
    <2>6. \A i, j \in DOMAIN K : K[i] = K[j] => i = j
      <3> SUFFICES ASSUME NEW i \in 1..MaxBuckets, NEW j \in 1..MaxBuckets, K[i] = K[j] PROVE i = j
        BY <2>4
      <3>1. CASE i < MaxBuckets /\ j < MaxBuckets
        <4>1. order[i + 2] = order[j + 2] /\ i + 2 \in DOMAIN order /\ j + 2 \in DOMAIN order
          BY <2>4, <3>1
        <4>2. i + 2 = j + 2
          BY <1>1, <4>1
        <4> QED BY <1>1, <4>2
      <3>2. CASE i < MaxBuckets /\ ~(j < MaxBuckets)
        BY <2>4, <2>5, <3>2
      <3>3. CASE ~(i < MaxBuckets) /\ j < MaxBuckets
        BY <2>4, <2>5, <3>3
      <3>4. CASE ~(i < MaxBuckets) /\ ~(j < MaxBuckets)
        BY <1>1, <3>4
      <3> QED BY <3>1, <3>2, <3>3, <3>4
    <2>7. \A i \in DOMAIN order : i > 2 => order[i] \in Range(K)
      <3> SUFFICES ASSUME NEW i \in DOMAIN order, i > 2 PROVE order[i] \in Range(K)
        OBVIOUS
      <3>1. i - 2 \in 1..MaxBuckets /\ i - 2 < MaxBuckets /\ (i - 2) + 2 = i
        BY <1>1, <2>1
      <3>2. K[i - 2] = order[i]
        BY <2>4, <3>1
      <3> QED BY <2>4, <3>1, <3>2 DEF Range
    <2>8. \A i \in DOMAIN order : i <= 2 => order[i] \notin Range(K)
      <3> SUFFICES ASSUME NEW i \in DOMAIN order, i <= 2, NEW j \in 1..MaxBuckets, K[j] = order[i] PROVE FALSE
        BY <2>4 DEF Range
      <3>1. CASE j < MaxBuckets
        <4>1. order[j + 2] = order[i] /\ j + 2 \in DOMAIN order
          BY <2>4, <3>1
        <4>2. j + 2 = i
          BY <1>1, <4>1
        <4> QED BY <1>1, <4>2
      <3>2. CASE ~(j < MaxBuckets)
        BY <2>4, <2>5, <3>2
      <3> QED BY <3>1, <3>2
    <2>9. \A i \in DOMAIN order : order[i] \notin Range(K) => \A j \in 1..i : order[j] \notin Range(K)
      BY <1>1, <2>7, <2>8
    <2>10. Range(K) \subseteq Range(order) \cup {k} /\ k \in Range(K)
      BY <1>1, <2>4 DEF Range
    <2> QED BY <1>1, <1>3, <2>4, <2>6, <2>9, <2>10 DEF K
  <1>4. CASE k \notin Range(order) /\ Len(order) <= MaxBuckets
    <2>1. KeysAfter(k) = Append(order, k)
      BY <1>1, <1>4 DEF KeysAfter
    <2>2. /\ Append(order, k) \in Seq(Source) /\ Len(Append(order, k)) = Len(order) + 1
          /\ DOMAIN Append(order, k) = 1..(Len(order) + 1)
          /\ \A i \in 1..(Len(order) + 1) : Append(order, k)[i] = IF i <= Len(order) THEN order[i] ELSE k
      BY <1>1
    <2> QED BY <1>1, <1>4, <2>1, <2>2 DEF Range
  <1> QED BY <1>1, <1>2, <1>3, <1>4

-----------------------------------------------------------------------------
(* The pairing of cases and tokens.                                        *)

Reals(ts, i) == {k \in 1..i : isReal(ts[k])}

LEMMA RealsFinite ==
    ASSUME NEW ts, NEW i \in Nat
    PROVE  IsFiniteSet(Reals(ts, i)) /\ realIdx(ts, i) = Cardinality(Reals(ts, i)) /\ realIdx(ts, i) \in Nat
  <1>1. IsFiniteSet(1..i)
    BY FS_Interval
  <1>2. IsFiniteSet(Reals(ts, i))
    BY <1>1, FS_Subset DEF Reals
  <1> QED BY <1>2, FS_CardinalityType DEF realIdx, Reals

\* The counter is at least one at a real case and never goes back.
LEMMA CounterBounds ==
    ASSUME NEW ts, NEW n \in Nat, NEW i \in 1..n, isReal(ts[i])
    PROVE  realIdx(ts, i) \in 1..realIdx(ts, n)
  <1>1. i \in Nat /\ i >= 1 /\ i <= n
    OBVIOUS
  <1>2. Reals(ts, i) \subseteq Reals(ts, n) /\ Reals(ts, i) # {}
    BY <1>1 DEF Reals
  <1>3. realIdx(ts, i) <= realIdx(ts, n)
    BY <1>1, <1>2, RealsFinite, FS_Subset
  <1>4. realIdx(ts, i) # 0
    BY <1>1, <1>2, RealsFinite, FS_EmptySet
  <1> QED BY <1>1, <1>3, <1>4, RealsFinite

\* It grows at every real case.
LEMMA CounterGrows ==
    ASSUME NEW ts, NEW i \in Nat, NEW j \in Nat, i < j, isReal(ts[j])
    PROVE  realIdx(ts, i) < realIdx(ts, j)
  <1>1. Reals(ts, i) \cup {j} \subseteq Reals(ts, j) /\ j \notin Reals(ts, i)
    BY DEF Reals
  <1>2. /\ IsFiniteSet(Reals(ts, i) \cup {j})
        /\ Cardinality(Reals(ts, i) \cup {j}) = Cardinality(Reals(ts, i)) + 1
    BY <1>1, RealsFinite, FS_AddElement
  <1>3. Cardinality(Reals(ts, i) \cup {j}) <= Cardinality(Reals(ts, j))
    BY <1>1, <1>2, RealsFinite, FS_Subset
  <1> QED BY <1>2, <1>3, RealsFinite

\* Two real cases never have the same count.
LEMMA CounterDistinct ==
    ASSUME NEW ts, NEW i \in Nat, NEW j \in Nat, i # j, isReal(ts[i]), isReal(ts[j])
    PROVE  realIdx(ts, i) # realIdx(ts, j)
  <1>1. realIdx(ts, i) \in Nat /\ realIdx(ts, j) \in Nat
    BY RealsFinite
  <1>2. CASE i < j
    BY <1>1, <1>2, CounterGrows
  <1>3. CASE j < i
    BY <1>1, <1>3, CounterGrows
  <1> QED BY <1>2, <1>3

\* It takes every value up to the number of real cases.
LEMMA CounterReaches ==
    ASSUME NEW ts, NEW l \in Nat, NEW n \in 1..realIdx(ts, l)
    PROVE  \E i \in 1..l : isReal(ts[i]) /\ realIdx(ts, i) = n
  <1> DEFINE S == Reals(ts, l)
             T == 1..realIdx(ts, l)
             f == [i \in S |-> realIdx(ts, i)]
  <1>1. realIdx(ts, l) \in Nat /\ Cardinality(S) = realIdx(ts, l)
    BY RealsFinite
  <1>2. IsFiniteSet(T) /\ Cardinality(T) = realIdx(ts, l)
    BY <1>1, FS_Interval
  <1>3. \A i \in S : i \in 1..l /\ i \in Nat /\ isReal(ts[i])
    BY DEF Reals
  <1>4. f \in [S -> T]
    BY <1>3, CounterBounds
  <1>5. \A i, j \in S : f[i] = f[j] => i = j
    BY <1>3, CounterDistinct
  <1>6. f \in Injection(S, T)
    <2> HIDE DEF f, S, T
    <2> QED BY <1>4, <1>5 DEF Injection, IsInjective
  <1>7. f \in Surjection(S, T)
    <2> HIDE DEF f, S, T
    <2> QED BY <1>1, <1>2, <1>6, FS_Injection
  <1>8. \E i \in S : f[i] = n
    BY <1>7 DEF Surjection
  <1> QED BY <1>3, <1>8

\* What is posted at the count of a real case is its stdin.
LEMMA SentIsOwn ==
    ASSUME NEW ts \in Seq(Shape)
    PROVE  /\ BatchSubmitParams(ts) \in Seq(Text)
           /\ Len(BatchSubmitParams(ts)) = realIdx(ts, Len(ts))
           /\ \A i \in 1..Len(ts) : isReal(ts[i]) =>
                /\ realIdx(ts, i) \in 1..Len(BatchSubmitParams(ts))
                /\ BatchSubmitParams(ts)[realIdx(ts, i)] = ts[i].stdin
  <1> DEFINE at(n) == CHOOSE i \in DOMAIN ts : isReal(ts[i]) /\ realIdx(ts, i) = n
             m == realIdx(ts, Len(ts))
             b == [n \in 1..m |-> ts[at(n)].stdin]
  <1>1. DOMAIN ts = 1..Len(ts) /\ Len(ts) \in Nat /\ m \in Nat
    BY RealsFinite
  <1>2. BatchSubmitParams(ts) = b
    BY DEF BatchSubmitParams
  <1>3. ASSUME NEW i \in 1..Len(ts), isReal(ts[i])
        PROVE  realIdx(ts, i) \in 1..m /\ at(realIdx(ts, i)) = i
    <2>1. realIdx(ts, i) \in 1..m
      BY <1>1, <1>3, CounterBounds
    <2>2. \A j \in DOMAIN ts : isReal(ts[j]) /\ realIdx(ts, j) = realIdx(ts, i) => j = i
      BY <1>1, <1>3, CounterDistinct
    <2> QED BY <1>1, <1>3, <2>1, <2>2
  <1>4. ASSUME NEW n \in 1..m PROVE ts[at(n)].stdin \in Text
    <2>1. \E i \in DOMAIN ts : isReal(ts[i]) /\ realIdx(ts, i) = n
      BY <1>1, CounterReaches
    <2>2. at(n) \in 1..Len(ts)
      BY <1>1, <2>1
    <2> HIDE DEF at
    <2>3. ts[at(n)] \in Shape
      BY <2>2, ElementOfSeq
    <2> QED BY <2>3 DEF Shape
  <1> HIDE DEF at, m
  <1>5. b \in Seq(Text) /\ Len(b) = m /\ \A n \in 1..m : b[n] = ts[at(n)].stdin
    BY <1>1, <1>4
  <1> HIDE DEF b
  <1> QED BY <1>2, <1>3, <1>5 DEF m

-----------------------------------------------------------------------------
(* A render.                                                               *)

\* How a step that is rendered changes what awaits its render.
Shift ==
    \/ ~hydrating /\ ~hydrating'
    \/ hydrating /\ ~hydrating' /\ (mounted' => src' = src)
    \/ hydrating' /\ mounted' /\ loaded'.tests = Map(Kept(src'), Stripped)

\* What a save does, of which only the oldest buckets may fall victim, or its absence.
Saved ==
    /\ order' \in Seq(Source) /\ Len(order') <= MaxBuckets + 1
    /\ \A i, j \in DOMAIN order' : order'[i] = order'[j] => i = j
    /\ bucket' \in [Source -> BucketShape]
    /\ \A k \in Source : Map(bucket'[k].tests, Stripped) = bucket'[k].tests
    /\ \A i \in DOMAIN order : order[i] \notin Range(order') =>
          /\ Len(order) > MaxBuckets /\ Len(order') = MaxBuckets
          /\ \A j \in 1..i : order[j] \notin Range(order')
    /\ \A k \in Source : k # src' /\ k \in Range(order') => k \in Range(order) /\ bucket'[k] = bucket[k]
    /\ src' \in Range(order) => src' \in Range(order')
    /\ mounted' /\ failures' = failures =>
          src' \in Range(order') /\ bucket'[src'].tests = Map(tests', Stripped)
    /\ ~mounted' => order' = order /\ bucket' = bucket

LEMMA SaveStep ==
    ASSUME DocType', PanelType', StoreType, Clean, Persist
    PROVE  Saved
  <1>0. failures \in Nat
    BY DEF StoreType
  <1>1. CASE UNCHANGED store /\ (mounted' => failures' # failures)
    BY <1>1 DEF store, StoreType, Clean, Range, Saved
  <1>2. ASSUME mounted', order' = KeysAfter(src'), UNCHANGED failures,
               bucket' = [q \in Source |-> IF q = src' THEN Bucket'
                                           ELSE IF q \in Range(KeysAfter(src')) THEN bucket[q] ELSE NoBucket]
        PROVE  Saved
    <2> DEFINE c == Map(tests', Stripped)
               b == [tests |-> c, mode |-> mode', stopOnFail |-> stopOnFail']
    <2>1. src' \in Source /\ tests' \in Seq(Shape) /\ mode' \in Range(Mode) /\ stopOnFail' \in BOOLEAN
      BY DEF DocType, PanelType
    <2>2. c \in Seq(Shape) /\ Map(c, Stripped) = c
      BY <2>1, MapStripped
    <2>3. Bucket' = b
      BY DEF Bucket
    <2> HIDE DEF c
    <2>4. b \in BucketShape /\ b.tests = c
      BY <2>1, <2>2 DEF BucketShape
    <2> HIDE DEF b
    <2>5. /\ order' = KeysAfter(src')
          /\ bucket' = [q \in Source |-> IF q = src' THEN b
                                         ELSE IF q \in Range(KeysAfter(src')) THEN bucket[q] ELSE NoBucket]
      BY <1>2, <2>3
    <2>6. NoBucket \in BucketShape /\ Map(NoBucket.tests, Stripped) = NoBucket.tests
      <3>1. <<>> \in Seq(Shape) /\ Mode[1] \in Range(Mode)
        BY EmptySeq, DataAssumption DEF Range
      <3>2. NoBucket.tests = <<>>
        BY DEF NoBucket
      <3>3. Map(<<>>, Stripped) = <<>>
        BY DEF Map
      <3> QED BY <3>1, <3>2, <3>3 DEF NoBucket, BucketShape
    <2> HIDE DEF NoBucket
    <2>7. bucket' \in [Source -> BucketShape]
      BY <2>4, <2>5, <2>6 DEF StoreType
    <2>8. \A k \in Source : Map(bucket'[k].tests, Stripped) = bucket'[k].tests
      BY <2>2, <2>4, <2>5, <2>6 DEF Clean
    <2>9. bucket'[src'].tests = c
      BY <2>1, <2>4, <2>5
    <2>10. \A k \in Source : k # src' /\ k \in Range(order') => k \in Range(order) /\ bucket'[k] = bucket[k]
      BY <2>1, <2>5, KeysProperties
    <2> QED BY <1>2, <2>1, <2>5, <2>7, <2>8, <2>9, <2>10, KeysProperties DEF Saved, c
  <1>3. \/ UNCHANGED store /\ (mounted' => failures' # failures)
        \/ /\ mounted' /\ order' = KeysAfter(src') /\ UNCHANGED failures
           /\ bucket' = [q \in Source |-> IF q = src' THEN Bucket'
                                          ELSE IF q \in Range(KeysAfter(src')) THEN bucket[q] ELSE NoBucket]
    BY <1>0 DEF Persist, saveBucket
  <1> QED BY <1>1, <1>2, <1>3

LEMMA RenderedStep ==
    ASSUME DocType, DocType', PanelType', LoadedType, LoadedType', StoreType, Clean, Remembered, Shift, Rendered
    PROVE  StoreType' /\ Clean' /\ Remembered'
  <1>0. Saved
    BY SaveStep DEF Rendered
  <1>1. /\ src' \in Source /\ tests' \in Seq(Shape) /\ hydrating' \in BOOLEAN /\ mounted' \in BOOLEAN
        /\ hydrating \in BOOLEAN /\ Range(order) \subseteq Source /\ last \in [Source -> Seq(Shape)]
    BY DEF DocType, PanelType, LoadedType, StoreType, Range
  <1>2. \A k \in Source : last'[k] = IF k = src' /\ mounted' /\ ~hydrating' THEN Map(tests', Stripped)
                                     ELSE IF k \in Range(order) \ Range(order') THEN <<emptyCase>> ELSE last[k]
    BY DEF Rendered, Settled
  <1>3. \A k \in Source : k \notin lost' =>
           \/ k = src' /\ mounted' /\ ~hydrating' /\ failures' = failures
           \/ /\ ~(k = src' /\ mounted' /\ ~hydrating')
              /\ k \notin lost /\ (hydrating /\ (hydrating' \/ ~mounted') => k # src)
    <2> DEFINE left == IF Interrupts THEN lost \cup {src} ELSE lost
    <2>1. lost' = IF ~(mounted' /\ ~hydrating') THEN left
                  ELSE IF failures' = failures THEN left \ {src'} ELSE left \cup {src'}
      BY DEF Rendered, Settled
    <2>2. \A k : k \notin left => k \notin lost /\ (hydrating /\ (hydrating' \/ ~mounted') => k # src)
      BY DEF Interrupts
    <2> HIDE DEF left
    <2> QED BY <2>1, <2>2
  <1>4. StoreType'
    <2>1. last' \in [Source -> Seq(Shape)]
      <3>1. Map(tests', Stripped) \in Seq(Shape) /\ <<emptyCase>> \in Seq(Shape)
        BY <1>1, MapStripped, EmptyCases
      <3> QED BY <1>1, <3>1 DEF Rendered
    <2>2. failures' \in Nat
      BY DEF Rendered, Persist, saveBucket, StoreType
    <2> QED BY <1>0, <2>1, <2>2 DEF Saved, StoreType
  <1>5. Clean'
    <2>1. Map(Map(tests', Stripped), Stripped) = Map(tests', Stripped) /\ Map(<<emptyCase>>, Stripped) = <<emptyCase>>
      BY <1>1, MapStripped, EmptyCases
    <2>2. ASSUME NEW k \in Source PROVE Map(last'[k], Stripped) = last'[k]
      BY <1>2, <2>1 DEF Clean
    <2> QED BY <1>0, <2>2 DEF Saved, Clean
  <1>6. ASSUME NEW k \in Source, k \notin lost', k # src' \/ ~hydrating'
        PROVE  (IF k \in Range(order') THEN bucket'[k].tests ELSE <<emptyCase>>) = last'[k]
    <2>1. CASE k = src' /\ mounted' /\ ~hydrating'
      BY <1>0, <1>2, <1>3, <1>6, <2>1 DEF Saved
    <2>2. CASE ~(k = src' /\ mounted' /\ ~hydrating')
      <3>1. k \notin lost /\ (k # src \/ ~hydrating)
        BY <1>1, <1>3, <1>6, <2>2 DEF Shift
      <3>2. Kept(k) = last[k]
        BY <3>1 DEF Remembered
      <3>3. CASE k \in Range(order')
        BY <1>0, <1>2, <1>6, <2>2, <3>2, <3>3 DEF Saved, Kept
      <3>4. CASE k \notin Range(order')
        BY <1>2, <2>2, <3>2, <3>4 DEF Kept
      <3> QED BY <3>3, <3>4
    <2> QED BY <2>1, <2>2
  <1>7. ASSUME hydrating', src' \notin lost' PROVE loaded'.tests = last'[src']
    <2>1. loaded'.tests = Map(Kept(src'), Stripped)
      BY <1>7 DEF Shift
    <2>2. src' \notin lost /\ (src' # src \/ ~hydrating)
      BY <1>1, <1>3, <1>7
    <2>3. Kept(src') = last[src']
      BY <1>1, <2>2 DEF Remembered
    <2>4. last'[src'] = last[src']
      BY <1>0, <1>1, <1>2, <1>7 DEF Saved
    <2> QED BY <1>1, <2>1, <2>3, <2>4 DEF Clean
  <1>8. ASSUME hydrating' PROVE \A i \in DOMAIN loaded'.tests : Blank(loaded'.tests[i])
    <2>1. Kept(src') \in Seq(Shape)
      BY <1>1, EmptyCases DEF Kept, StoreType, BucketShape
    <2>2. loaded'.tests = Map(Kept(src'), Stripped)
      BY <1>8 DEF Shift
    <2> QED BY <2>1, <2>2, MapStripped
  <1>9. Remembered'
    BY <1>6, <1>7, <1>8 DEF Remembered, Kept, Blank
  <1> QED BY <1>4, <1>5, <1>9

-----------------------------------------------------------------------------
(* Steps that leave the batch and its rows alone.                          *)

\* A case that descends from another, as it was or edited.
Inherits(u, t) ==
    /\ u.token = t.token
    /\ \/ u = t
       \/ u.passed = "none" /\ u.status = "none" /\ (Running => disturbed')
       \/ u.passed = "none" /\ u.stdin = t.stdin /\ u.status = t.status /\ u.stdout = t.stdout

Calm ==
    /\ UNCHANGED <<sent, rows, listed, stepped, ctx>>
    /\ stage' = stage \/ stage' = "idle" \/ (stage = "wait" /\ stage' = "get")
    /\ disturbed' \in BOOLEAN /\ (disturbed => disturbed')
    /\ tests' \in Seq(Shape)
    /\ \A i \in DOMAIN tests' : Blank(tests'[i]) \/ \E k \in DOMAIN tests : Inherits(tests'[i], tests[k])
    /\ \A i, j \in DOMAIN tests' :
          i # j /\ tests'[i].token # None => tests'[i].token # tests'[j].token
    /\ stage = "post" => tests' = tests \/ disturbed' \/ stage' = "idle"

LEMMA CalmService == ASSUME RunType, Service, Calm PROVE RunType' /\ Service'
  <1>1. RunType'
    BY DEF RunType, Calm
  <1>2. Service'
    BY DEF RunType, Service, Calm
  <1> QED BY <1>1, <1>2

LEMMA CalmPosted == ASSUME PanelType, Posted, Calm PROVE Posted'
  <1> SUFFICES ASSUME stage' = "post"
               PROVE  /\ \A i \in DOMAIN tests' : Blank(tests'[i])
                      /\ ~disturbed' => sent' = BatchSubmitParams(tests')
    BY DEF Posted, Blank
  <1>1. stage = "post"
    BY DEF Calm
  <1>2. ~disturbed' => ~disturbed /\ tests' = tests
    BY <1>1 DEF Calm
  <1>3. ~disturbed' => sent' = BatchSubmitParams(tests')
    BY <1>1, <1>2 DEF Posted, Calm
  <1>4. ASSUME NEW i \in DOMAIN tests', NEW k \in DOMAIN tests, Inherits(tests'[i], tests[k])
        PROVE  Blank(tests'[i])
    BY <1>1, <1>4 DEF Posted, Inherits, Blank
  <1> QED BY <1>3, <1>4 DEF Calm

LEMMA CalmPaired == ASSUME PanelType, Paired, Calm PROVE Paired'
  <1>1. ASSUME NEW i \in DOMAIN tests', tests'[i].token # None
        PROVE  tests'[i].token \in 1..Len(sent') /\ Len(rows') = Len(sent')
    <2>1. PICK k \in DOMAIN tests : tests'[i].token = tests[k].token
      BY <1>1 DEF Calm, Blank, Inherits
    <2> QED BY <1>1, <2>1 DEF Paired, Calm
  <1> QED BY <1>1 DEF Paired, Calm

LEMMA CalmOwned == ASSUME PanelType, RunType, Paired, AllOwned, Calm PROVE AllOwned'
  <1> SUFFICES ASSUME NEW i \in DOMAIN tests' PROVE Owned(tests[i])'
    BY DEF AllOwned
  <1>0. /\ sent' = sent /\ rows' = rows /\ stepped' = stepped /\ ctx' = ctx
        /\ ~disturbed' => ~disturbed
        /\ stage' # "idle" => stage # "idle"
        /\ stage' = "final" => stage = "final"
    BY DEF Calm
  <1>1. CASE Blank(tests'[i])
    BY <1>1 DEF Blank, Owned, Live, None
  <1>2. ASSUME NEW k \in DOMAIN tests, Inherits(tests'[i], tests[k]) PROVE Owned(tests[i])'
    <2> DEFINE u == tests'[i]
               t == tests[k]
    <2>0. Owned(t)
      BY DEF AllOwned
    <2>1. CASE u = t
      BY <1>0, <2>0, <2>1 DEF Owned, Running, Verdict
    <2>2. CASE u.token = t.token /\ u.passed = "none" /\ u.status = "none" /\ (Running => disturbed')
      BY <1>0, <2>2 DEF Owned, Running, Live
    <2>3. CASE /\ u.token = t.token /\ u.passed = "none"
               /\ u.stdin = t.stdin /\ u.status = t.status /\ u.stdout = t.stdout
      BY <1>0, <2>0, <2>3 DEF Owned, Running, Verdict
    <2> QED BY <1>2, <2>1, <2>2, <2>3 DEF Inherits
  <1> QED BY <1>1, <1>2 DEF Calm

Same == UNCHANGED <<sent, rows, listed, stepped, ctx>>

\* The cases stay as they are.
LEMMA SameCalm ==
    ASSUME PanelType, RunType, Paired, Same, tests' = tests, disturbed' = disturbed,
           stage' = stage \/ stage' = "idle" \/ (stage = "wait" /\ stage' = "get")
    PROVE  Calm
  <1>1. \A i \in DOMAIN tests' : \E k \in DOMAIN tests : Inherits(tests'[i], tests[k])
    BY DEF Inherits
  <1>2. \A i, j \in DOMAIN tests' :
           i # j /\ tests'[i].token # None => tests'[i].token # tests'[j].token
    BY DEF Paired
  <1>3. tests' \in Seq(Shape) /\ disturbed' \in BOOLEAN /\ (disturbed => disturbed')
    BY DEF PanelType, RunType
  <1> QED BY <1>1, <1>2, <1>3 DEF Calm, Same

\* The panel, state gets other cases, without results.
LEMMA BlankCalm ==
    ASSUME Same, tests' \in Seq(Shape), \A i \in DOMAIN tests' : Blank(tests'[i]),
           disturbed' \in BOOLEAN, disturbed => disturbed',
           stage' = stage \/ stage' = "idle",
           stage = "post" => tests' = tests \/ disturbed' \/ stage' = "idle"
    PROVE  Calm
  <1>1. \A i, j \in DOMAIN tests' :
           i # j /\ tests'[i].token # None => tests'[i].token # tests'[j].token
    BY DEF Blank
  <1> QED BY <1>1 DEF Calm, Same

\* One case is edited.
LEMMA PatchCalm ==
    ASSUME PanelType, RunType, Paired, Same, NEW i \in DOMAIN tests, NEW u \in Shape, patchCase(i, u),
           Inherits(u, tests[i]), stage' = stage, disturbed' \in BOOLEAN, disturbed => disturbed',
           stage = "post" => disturbed'
    PROVE  Calm
  <1>1. tests \in Seq(Shape) /\ tests' = [tests EXCEPT ![i] = u]
    BY DEF PanelType, patchCase
  <1>2. tests' \in Seq(Shape) /\ DOMAIN tests' = DOMAIN tests
    BY <1>1
  <1>3. \A j \in DOMAIN tests' : tests'[j] = IF j = i THEN u ELSE tests[j]
    BY <1>1
  <1>4. \A j \in DOMAIN tests' : Inherits(tests'[j], tests[j])
    BY <1>2, <1>3 DEF Inherits
  <1>5. \A j \in DOMAIN tests' : tests'[j].token = tests[j].token
    BY <1>4 DEF Inherits
  <1>6. \A j, k \in DOMAIN tests' :
           j # k /\ tests'[j].token # None => tests'[j].token # tests'[k].token
    BY <1>2, <1>5 DEF Paired
  <1> QED BY <1>2, <1>4, <1>6 DEF Calm, Same

\* What a bucket, or its absence, gives the panel.
LEMMA HydrateType ==
    ASSUME StoreType, NEW k \in Source, NEW b \in BucketShape
    PROVE  Hydrate(k, b) \in BucketShape /\ Hydrate(k, b).tests = Map(Kept(k), Stripped)
  <1>1. CASE k \in Range(order)
    <2>1. bucket[k] \in BucketShape /\ bucket[k].tests \in Seq(Shape)
      BY DEF StoreType, BucketShape
    <2>2. Map(bucket[k].tests, Stripped) \in Seq(Shape)
      BY <2>1, MapStripped
    <2>3. Hydrate(k, b) = [bucket[k] EXCEPT !.tests = Map(bucket[k].tests, Stripped)]
      BY <1>1, <2>1 DEF Hydrate, BucketShape
    <2> QED BY <1>1, <2>1, <2>2, <2>3 DEF Kept, BucketShape
  <1>2. CASE k \notin Range(order)
    <2>1. Hydrate(k, b) = [b EXCEPT !.tests = <<emptyCase>>]
      BY <1>2 DEF Hydrate
    <2>2. Kept(k) = <<emptyCase>>
      BY <1>2 DEF Kept
    <2> QED BY <2>1, <2>2, EmptyCases DEF BucketShape
  <1> QED BY <1>1, <1>2

LEMMA NoBucketType == NoBucket \in BucketShape
  <1>1. <<>> \in Seq(Shape) /\ Mode[1] \in Range(Mode)
    BY EmptySeq, DataAssumption DEF Range
  <1> QED BY <1>1 DEF NoBucket, BucketShape

\* The steps that give the panel something to render, or render it.
LEMMA SourceUpdates ==
    ASSUME Types, (\E k \in Source : setCode(k)) \/ setRunMode \/ Reload \/ Hydrated
    PROVE  LoadedType' /\ Shift
  <1>0. DocType /\ PanelType /\ LoadedType /\ StoreType
    BY DEF Types
  <1>1. Updated \in BucketShape /\ NoBucket \in BucketShape
    BY <1>0, NoBucketType DEF Updated, PanelType, LoadedType, BucketShape
  <1>2. ASSUME NEW k \in Source, Mount(k), mounted', src' = k PROVE LoadedType' /\ Shift
    <2>1. Hydrate(k, NoBucket) \in BucketShape /\ Hydrate(k, NoBucket).tests = Map(Kept(k), Stripped)
      BY <1>0, <1>1, HydrateType
    <2> QED BY <1>2, <2>1 DEF Mount, LoadedType, Shift
  <1>3. ASSUME NEW k \in Source, setCode(k) PROVE LoadedType' /\ Shift
    <2>1. Hydrate(k, Updated) \in BucketShape /\ Hydrate(k, Updated).tests = Map(Kept(k), Stripped)
      BY <1>0, <1>1, HydrateType
    <2>2. CASE mounted
      BY <1>3, <2>1, <2>2 DEF setCode, LoadedType, Shift
    <2>3. CASE ~mounted
      BY <1>0, <1>3, <2>3 DEF setCode, updates, LoadedType, Shift
    <2> QED BY <2>2, <2>3
  <1>4. CASE setRunMode
    <2>1. CASE mounted
      BY <1>0, <1>1, <1>4, <2>1 DEF setRunMode, Unmount, LoadedType, Shift
    <2>2. CASE ~mounted
      BY <1>0, <1>2, <1>4, <2>2 DEF setRunMode, doc, DocType
    <2> QED BY <2>1, <2>2
  <1>5. CASE Reload
    <2>1. readShareHash \in Source
      BY <1>0 DEF readShareHash, DocType
    <2>2. CASE mounted
      BY <1>2, <1>5, <2>1, <2>2 DEF Reload
    <2>3. CASE ~mounted
      BY <1>0, <1>5, <2>3 DEF Reload, panel, updates, LoadedType, Shift
    <2> QED BY <2>2, <2>3
  <1>6. CASE Hydrated
    BY <1>0, <1>1, <1>6 DEF Hydrated, doc, LoadedType, Shift
  <1> QED BY <1>3, <1>4, <1>5, <1>6

\* The other steps that are rendered.
LEMMA OtherUpdates ==
    ASSUME Types,
           \/ addCase \/ setStopOnFail \/ clearResults \/ clearAll \/ runAll \/ onImportFile
           \/ \E i \in DOMAIN tests : deleteCase(i)
           \/ \E i \in DOMAIN tests, s \in Text : editStdin(i, s) \/ editExpected(i, s)
           \/ \E m \in Range(Mode) : setMode(m)
           \/ Acknowledged \/ pollBatch \/ FinalSync
    PROVE  LoadedType' /\ Shift
  <1>1. ~hydrating /\ UNCHANGED <<updates, mounted>>
    BY DEF addCase, setStopOnFail, clearResults, clearAll, runAll, onImportFile, deleteCase, editStdin,
           editExpected, setMode, Acknowledged, pollBatch, FinalSync, PanelOnly
  <1> QED BY <1>1 DEF Types, LoadedType, Shift, updates

\* The steps that are not.
LEMMA NoUpdates ==
    ASSUME Types, UNCHANGED books, Clean, Remembered,
           Click \/ Wake \/ Fault \/ Serve
    PROVE  LoadedType' /\ StoreType' /\ Clean' /\ Remembered'
  <1>1. UNCHANGED <<src, updates, mounted>>
    BY DEF Click, Fault, Serve, triggerImport, writeShareHash, cancelRun, Wake, PostFails, GetFails,
           importNothing, InsertRow, RowFinishes, PanelOnly, doc, panel
  <1> QED BY <1>1 DEF Types, LoadedType, StoreType, Clean, Remembered, Kept, Blank, updates, books, store

Goal == Calm /\ DocType' /\ PanelType'

\* The switches, the share link, the ends and the turns of the polling loop.
LEMMA QuietStep ==
    ASSUME Types, Paired,
           \/ \E m \in Range(Mode) : setMode(m)
           \/ setStopOnFail \/ Click
           \/ PostFails \/ Wake \/ GetFails \/ importNothing
    PROVE  Goal
  <1> USE DEF Click
  <1>0. DocType /\ PanelType /\ RunType
    BY DEF Types
  <1>1. Same /\ tests' = tests /\ disturbed' = disturbed
    BY DEF setMode, setStopOnFail, triggerImport, writeShareHash, PostFails, Wake, GetFails, cancelRun,
           importNothing, PanelOnly, panel, state, run, service, Same
  <1>2. stage' = stage \/ stage' = "idle" \/ (stage = "wait" /\ stage' = "get")
    BY DEF setMode, setStopOnFail, triggerImport, writeShareHash, PostFails, Wake, GetFails, cancelRun,
           importNothing, PanelOnly, run
  <1>3. DocType'
    BY <1>0 DEF setMode, setStopOnFail, triggerImport, writeShareHash, PostFails, Wake, GetFails, cancelRun,
           importNothing, PanelOnly, doc, DocType
  <1>4. PanelType'
    BY <1>0 DEF setMode, setStopOnFail, triggerImport, writeShareHash, PostFails, Wake, GetFails, cancelRun,
           importNothing, panel, state, PanelType
  <1> QED BY <1>0, <1>1, <1>2, <1>3, <1>4, SameCalm DEF Goal

LEMMA ClearStep ==
    ASSUME Types, clearResults \/ clearAll PROVE Goal
  <1>0. DocType /\ PanelType /\ RunType
    BY DEF Types
  <1>1. tests' \in Seq(Shape) /\ \A i \in DOMAIN tests' : Blank(tests'[i])
    <2>1. CASE tests' = <<emptyCase>>
      <3>1. \A i \in DOMAIN <<emptyCase>> : <<emptyCase>>[i] = emptyCase
        OBVIOUS
      <3> QED BY <2>1, <3>1, EmptyCases
    <2>2. CASE tests' = Map(tests, Stripped)
      BY <1>0, <2>2, MapStripped DEF PanelType
    <2> QED BY <2>1, <2>2 DEF clearResults, clearAll
  <1>2. Same /\ stage' = stage /\ stage # "post" /\ disturbed' = disturbed
    BY DEF clearResults, clearAll, PanelOnly, Running, run, service, Same
  <1>3. DocType' /\ PanelType'
    BY <1>0, <1>1 DEF clearResults, clearAll, PanelOnly, doc, DocType, PanelType
  <1> QED BY <1>0, <1>1, <1>2, <1>3, BlankCalm DEF Goal, RunType

LEMMA AddStep ==
    ASSUME Types, Paired, addCase PROVE Goal
  <1>0. DocType /\ PanelType /\ RunType /\ tests \in Seq(Shape)
    BY DEF Types, PanelType
  <1>1. tests' = Append(tests, emptyCase)
    BY DEF addCase
  <1>2. /\ tests' \in Seq(Shape) /\ DOMAIN tests' = 1..(Len(tests) + 1) /\ DOMAIN tests = 1..Len(tests)
        /\ \A i \in DOMAIN tests' : tests'[i] = IF i <= Len(tests) THEN tests[i] ELSE emptyCase
    BY <1>0, <1>1, EmptyCases
  <1>3. \A i \in DOMAIN tests' : (i \in DOMAIN tests /\ tests'[i] = tests[i])
                                   \/ (i = Len(tests) + 1 /\ tests'[i] = emptyCase)
    BY <1>0, <1>2
  <1>4. emptyCase.token = None /\ Blank(emptyCase)
    BY EmptyCases DEF Blank
  <1>5. \A i \in DOMAIN tests' : Blank(tests'[i]) \/ \E k \in DOMAIN tests : Inherits(tests'[i], tests[k])
    BY <1>3, <1>4 DEF Inherits
  <1>6. \A i, j \in DOMAIN tests' :
           i # j /\ tests'[i].token # None => tests'[i].token # tests'[j].token
    BY <1>3, <1>4 DEF Paired
  <1>7. Same /\ stage' = stage /\ stage # "post" /\ disturbed' = disturbed
    BY DEF addCase, PanelOnly, Running, run, service, Same
  <1>8. DocType' /\ PanelType'
    BY <1>0, <1>2 DEF addCase, PanelOnly, doc, DocType, PanelType
  <1> QED BY <1>0, <1>2, <1>5, <1>6, <1>7, <1>8 DEF Goal, Calm, Same, RunType

LEMMA DeleteStep ==
    ASSUME Types, Paired, NEW d \in DOMAIN tests, deleteCase(d) PROVE Goal
  <1>0. DocType /\ PanelType /\ RunType /\ tests \in Seq(Shape)
    BY DEF Types, PanelType
  <1>1. Same /\ stage' = stage
    BY DEF deleteCase, PanelOnly, run, service, Same
  <1>2. disturbed' \in BOOLEAN /\ (disturbed => disturbed') /\ (stage = "post" => disturbed')
    BY <1>0, Zenon DEF deleteCase, Disturbs, RunType
  <1>3. CASE Len(tests) = 1
    <2>1. tests' = <<emptyCase>>
      BY <1>3 DEF deleteCase
    <2>2. tests' \in Seq(Shape) /\ \A i \in DOMAIN tests' : Blank(tests'[i])
      <3>1. \A i \in DOMAIN <<emptyCase>> : <<emptyCase>>[i] = emptyCase
        OBVIOUS
      <3> QED BY <2>1, <3>1, EmptyCases
    <2>3. DocType' /\ PanelType'
      BY <1>0, <2>2 DEF deleteCase, PanelOnly, doc, DocType, PanelType
    <2> QED BY <1>1, <1>2, <2>2, <2>3, BlankCalm DEF Goal
  <1>4. CASE Len(tests) # 1
    <2> DEFINE n == Len(tests)
               a == SubSeq(tests, 1, d - 1)
               b == SubSeq(tests, d + 1, n)
    <2>1. n \in Nat /\ d \in 1..n /\ DOMAIN tests = 1..n
      BY <1>0
    <2>2. a \in Seq(Shape) /\ Len(a) = d - 1 /\ \A i \in 1..(d - 1) : a[i] = tests[i]
      BY <1>0, <2>1
    <2>3. b \in Seq(Shape) /\ Len(b) = n - d /\ \A i \in 1..(n - d) : b[i] = tests[d + i]
      BY <1>0, <2>1
    <2>4. tests' = a \o b
      BY <1>4 DEF deleteCase, RemoveAt
    <2> HIDE DEF a, b
    <2>5. /\ a \o b \in Seq(Shape) /\ Len(a \o b) = Len(a) + Len(b)
          /\ \A i \in 1..Len(a) + Len(b) : (a \o b)[i] = IF i <= Len(a) THEN a[i] ELSE b[i - Len(a)]
      BY <2>2, <2>3, ConcatProperties, Zenon
    <2>6. tests' \in Seq(Shape) /\ DOMAIN tests' = 1..(n - 1)
      <3>1. tests' \in Seq(Shape) /\ Len(tests') = Len(a) + Len(b)
        BY <2>4, <2>5, Zenon
      <3>2. Len(tests') = n - 1
        BY <2>1, <2>2, <2>3, <3>1
      <3>3. DOMAIN tests' = 1..Len(tests')
        BY <3>1, LenProperties
      <3> QED BY <3>1, <3>2, <3>3
    <2>7. \A i \in DOMAIN tests' : tests'[i] = tests[IF i < d THEN i ELSE i + 1]
      <3> SUFFICES ASSUME NEW i \in 1..(n - 1) PROVE tests'[i] = tests[IF i < d THEN i ELSE i + 1]
        BY <2>6
      <3>1. (a \o b)[i] = IF i <= Len(a) THEN a[i] ELSE b[i - Len(a)]
        BY <2>1, <2>2, <2>3, <2>5, SMTT(30)
      <3>2. CASE i < d
        BY <2>1, <2>2, <2>4, <3>1, <3>2
      <3>3. CASE i >= d
        <4>1. i - (d - 1) \in 1..(n - d) /\ d + (i - (d - 1)) = i + 1 /\ ~(i <= d - 1)
          BY <2>1, <3>3
        <4>2. tests'[i] = b[i - (d - 1)]
          BY <2>2, <2>4, <3>1, <4>1
        <4>3. b[i - (d - 1)] = tests[d + (i - (d - 1))]
          BY <2>3, <4>1
        <4>4. ~(i < d)
          BY <2>1, <3>3
        <4> QED BY <4>1, <4>2, <4>3, <4>4
      <3> QED BY <2>1, <3>2, <3>3
    <2>8. /\ \A i \in DOMAIN tests' : (IF i < d THEN i ELSE i + 1) \in DOMAIN tests
          /\ \A i, j \in DOMAIN tests' : i # j => (IF i < d THEN i ELSE i + 1) # (IF j < d THEN j ELSE j + 1)
      BY <2>1, <2>6
    <2>9. \A i \in DOMAIN tests' : \E k \in DOMAIN tests : Inherits(tests'[i], tests[k])
      BY <2>7, <2>8 DEF Inherits
    <2>10. \A i, j \in DOMAIN tests' :
              i # j /\ tests'[i].token # None => tests'[i].token # tests'[j].token
      BY <2>7, <2>8 DEF Paired
    <2>11. DocType' /\ PanelType'
      BY <1>0, <2>6 DEF deleteCase, PanelOnly, doc, DocType, PanelType
    <2> QED BY <1>1, <1>2, <2>6, <2>9, <2>10, <2>11 DEF Goal, Calm, Same
  <1> QED BY <1>3, <1>4

LEMMA EditStep ==
    ASSUME Types, Paired, NEW i \in DOMAIN tests, NEW s \in Text, editStdin(i, s) \/ editExpected(i, s)
    PROVE  Goal
  <1>0. DocType /\ PanelType /\ RunType /\ tests \in Seq(Shape) /\ tests[i] \in Shape
    BY ElementOfSeq DEF Types, PanelType
  <1>1. Same /\ stage' = stage
    BY DEF editStdin, editExpected, PanelOnly, run, service, Same
  <1>2. disturbed' \in BOOLEAN /\ (disturbed => disturbed') /\ (stage = "post" => disturbed')
    <2>1. CASE editStdin(i, s)
      <3>1. stage = "post" => Running
        BY DEF Running
      <3> QED BY <1>0, <2>1, <3>1, Zenon DEF editStdin, Disturbs, RunType
    <2>2. CASE editExpected(i, s)
      BY <1>0, <2>2, Zenon DEF editExpected, Disturbs, RunType
    <2> QED BY <2>1, <2>2
  <1>3. CASE editStdin(i, s)
    <2> DEFINE u == [tests[i] EXCEPT !.stdin = s, !.passed = "none", !.stdout = Empty, !.status = "none"]
    <2>1. u \in Shape /\ u.token = tests[i].token /\ u.passed = "none" /\ u.status = "none"
      BY <1>0, EmptyAssumption DEF Shape
    <2>2. patchCase(i, u)
      BY <1>3 DEF editStdin
    <2> HIDE DEF u
    <2>3. Running => disturbed'
      BY <1>3, Zenon DEF editStdin, Disturbs
    <2>4. Inherits(u, tests[i])
      BY <2>1, <2>3 DEF Inherits
    <2>5. Calm
      BY <1>0, <1>1, <1>2, <2>1, <2>2, <2>4, PatchCalm
    <2>6. DocType' /\ PanelType'
      BY <1>0, <1>3, <2>5 DEF Calm, editStdin, PanelOnly, doc, DocType, PanelType
    <2> QED BY <2>5, <2>6 DEF Goal
  <1>4. CASE editExpected(i, s)
    <2> DEFINE u == [tests[i] EXCEPT !.expected = s, !.passed = "none"]
    <2>1. /\ u \in Shape /\ u.token = tests[i].token /\ u.passed = "none" /\ u.status = tests[i].status
          /\ u.stdin = tests[i].stdin /\ u.stdout = tests[i].stdout
      BY <1>0 DEF Shape
    <2>2. patchCase(i, u)
      BY <1>4 DEF editExpected
    <2> HIDE DEF u
    <2>3. Inherits(u, tests[i])
      BY <2>1 DEF Inherits
    <2>4. Calm
      BY <1>0, <1>1, <1>2, <2>1, <2>2, <2>3, PatchCalm
    <2>5. DocType' /\ PanelType'
      BY <1>0, <1>4, <2>4 DEF Calm, editExpected, PanelOnly, doc, DocType, PanelType
    <2> QED BY <2>4, <2>5 DEF Goal
  <1> QED BY <1>3, <1>4


LEMMA ImportStep ==
    ASSUME Types, Paired, onImportFile PROVE Goal
  <1>0. DocType /\ PanelType /\ RunType
    BY DEF Types
  <1>1. Same /\ stage' = stage
    BY DEF onImportFile, PanelOnly, run, service, Same
  <1>2. disturbed' \in BOOLEAN /\ (disturbed => disturbed') /\ (stage = "post" => disturbed')
    BY <1>0, Zenon DEF onImportFile, Disturbs, RunType
  <1>3. PICK f \in Imports \ {<<>>} :
          tests' = Map(SubSeq(f, 1, IF Len(f) < MaxCases THEN Len(f) ELSE MaxCases), Stripped)
    BY DEF onImportFile
  <1> DEFINE P == [stdin : Text, expected : Text]
             n == IF Len(f) < MaxCases THEN Len(f) ELSE MaxCases
             g == SubSeq(f, 1, n)
  <1>4. f \in Seq(P) /\ Len(f) \in Nat /\ n \in 0..Len(f)
    <2>1. f \in Seq(P)
      BY DataAssumption
    <2>2. Len(f) \in Nat /\ MaxCases \in Nat
      BY <2>1, BoundsAssumption, LenProperties
    <2> HIDE DEF P
    <2> QED BY <2>1, <2>2
  <1>5. g \in Seq(P) /\ DOMAIN g = 1..Len(g) /\ Len(g) \in Nat
    <2> HIDE DEF P, n
    <2>1. \A i \in 1..n : f[i] \in P
      BY <1>4, ElementOfSeq
    <2>2. g \in Seq(P)
      BY <1>4, <2>1, SubSeqProperties
    <2> QED BY <2>2, LenProperties
  <1>6. tests' = Map(g, Stripped)
    BY <1>3
  <1> HIDE DEF g
  <1>7. tests' = [i \in 1..Len(g) |-> Stripped(g[i])]
    BY <1>5, <1>6 DEF Map
  <1>8. \A i \in 1..Len(g) : Stripped(g[i]) \in Shape /\ Blank(Stripped(g[i]))
    <2> SUFFICES ASSUME NEW i \in 1..Len(g) PROVE Stripped(g[i]) \in Shape /\ Blank(Stripped(g[i]))
      OBVIOUS
    <2>1. g[i] \in P
      BY <1>5, ElementOfSeq
    <2> QED BY <2>1, StrippedCase
  <1>9. tests' \in Seq(Shape) /\ \A i \in DOMAIN tests' : Blank(tests'[i])
    BY <1>5, <1>7, <1>8
  <1>10. DocType' /\ PanelType'
    BY <1>0, <1>9 DEF onImportFile, PanelOnly, doc, DocType, PanelType
  <1> QED BY <1>1, <1>2, <1>9, <1>10, BlankCalm DEF Goal

\* Another source, another mode of the page, another page.
LEMMA SourceStep ==
    ASSUME Types, Paired, Remembered, (\E k \in Source : setCode(k)) \/ setRunMode \/ Reload \/ Hydrated PROVE Goal
  <1>0. DocType /\ PanelType /\ LoadedType /\ RunType
    BY DEF Types
  <1>1. ASSUME UNCHANGED state, Same, DocType', disturbed' = disturbed, stage' \in {stage, "idle"} PROVE Goal
    <2>1. UNCHANGED <<tests, mode, stopOnFail>>
      BY <1>1 DEF state
    <2>2. Calm
      BY <1>0, <1>1, <2>1, SameCalm
    <2> QED BY <1>0, <1>1, <2>1, <2>2 DEF Goal, PanelType
  <1>2. ASSUME NEW k, Mount(k), Same, DocType', disturbed' = disturbed, stage' = "idle" PROVE Goal
    <2>1. /\ tests' = <<emptyCase>> /\ <<emptyCase>> \in Seq(Shape)
          /\ \A i \in DOMAIN <<emptyCase>> : <<emptyCase>>[i] = emptyCase
      BY <1>2, EmptyCases DEF Mount
    <2>2. tests' \in Seq(Shape) /\ \A i \in DOMAIN tests' : Blank(tests'[i])
      BY <2>1, EmptyCases
    <2>3. mode' \in Range(Mode) /\ stopOnFail' \in BOOLEAN
      BY <1>2, DataAssumption DEF Mount, Range
    <2> QED BY <1>0, <1>2, <2>2, <2>3, BlankCalm DEF Goal, PanelType, RunType
  <1>3. CASE \E k \in Source : setCode(k)
    <2>1. PICK k \in Source : setCode(k)
      BY <1>3
    <2>2. Same /\ stage' = stage /\ DocType' /\ UNCHANGED state /\ disturbed' = disturbed
      BY <1>0, <2>1 DEF setCode, run, service, Same, DocType
    <2> QED BY <1>1, <2>2
  <1>4. CASE setRunMode
    <2>1. Same /\ stage' = "idle" /\ disturbed' = disturbed /\ DocType'
      BY <1>0, <1>4 DEF setRunMode, doc, service, Same, DocType
    <2>2. UNCHANGED state \/ Mount(src)
      BY <1>4 DEF setRunMode, Unmount
    <2> QED BY <1>1, <1>2, <2>1, <2>2
  <1>5. CASE Reload
    <2>0. readShareHash \in Source
      BY <1>0 DEF readShareHash, DocType
    <2>1. Same /\ stage' = "idle" /\ disturbed' = disturbed /\ DocType'
      BY <1>0, <1>5, <2>0 DEF Reload, service, Same, DocType
    <2>2. UNCHANGED state \/ Mount(src')
      BY <1>5 DEF Reload, panel
    <2> QED BY <1>1, <1>2, <2>1, <2>2
  <1>6. CASE Hydrated
    <2>1. Same /\ stage' = stage /\ DocType'
      BY <1>0, <1>6 DEF Hydrated, doc, run, service, Same, DocType
    <2>2. tests' \in Seq(Shape) /\ mode' \in Range(Mode) /\ stopOnFail' \in BOOLEAN
      BY <1>0, <1>6 DEF Hydrated, LoadedType, BucketShape
    <2>3. \A i \in DOMAIN tests' : Blank(tests'[i])
      BY <1>6 DEF Hydrated, Remembered
    <2>4. disturbed' \in BOOLEAN /\ (disturbed => disturbed') /\ (stage = "post" => disturbed')
      BY <1>0, <1>6, Zenon DEF Hydrated, Disturbs, RunType
    <2> QED BY <2>1, <2>2, <2>3, <2>4, BlankCalm DEF Goal, PanelType
  <1> QED BY <1>3, <1>4, <1>5, <1>6

-----------------------------------------------------------------------------
(* Steps of a batch.                                                       *)

RunGoal == DocType' /\ PanelType' /\ RunType' /\ Service' /\ Posted' /\ Paired' /\ AllOwned'

\* What is posted does not depend on the results of an earlier run.
LEMMA SentOfStripped ==
    ASSUME NEW ts \in Seq(Shape)
    PROVE  BatchSubmitParams(Map(ts, Stripped)) = BatchSubmitParams(ts)
  <1> DEFINE m == Map(ts, Stripped)
             l == Len(ts)
  <1>1. l \in Nat /\ m \in Seq(Shape) /\ Len(m) = l /\ DOMAIN ts = 1..l
    BY MapStripped, LenProperties
  <1>2. \A i \in 1..l : m[i].stdin = ts[i].stdin /\ m[i].expected = ts[i].expected
    BY <1>1 DEF Map, Stripped, emptyCase
  <1> HIDE DEF m
  <1>3. \A i \in 1..l : isReal(m[i]) <=> isReal(ts[i])
    BY <1>2 DEF isReal
  <1>4. \A i \in 0..l : realIdx(m, i) = realIdx(ts, i)
    <2> SUFFICES ASSUME NEW i \in 0..l PROVE realIdx(m, i) = realIdx(ts, i)
      OBVIOUS
    <2>1. 1..i \subseteq 1..l
      BY <1>1
    <2>2. {k \in 1..i : isReal(m[k])} = {k \in 1..i : isReal(ts[k])}
      BY <1>3, <2>1
    <2> QED BY <2>2 DEF realIdx
  <1> DEFINE b == BatchSubmitParams(ts)
             c == BatchSubmitParams(m)
             n == realIdx(ts, l)
  <1>5. b \in Seq(Text) /\ Len(b) = n /\ c \in Seq(Text) /\ Len(c) = n /\ n \in Nat
    BY <1>1, <1>4, SentIsOwn, RealsFinite, SMTT(30)
  <1>6. ASSUME NEW k \in 1..n PROVE b[k] = c[k]
    <2>1. PICK i \in 1..l : isReal(ts[i]) /\ realIdx(ts, i) = k
      BY <1>1, CounterReaches
    <2>2. b[k] = ts[i].stdin
      BY <2>1, SentIsOwn
    <2>3. isReal(m[i]) /\ realIdx(m, i) = k
      BY <1>1, <1>3, <1>4, <2>1
    <2>4. c[k] = m[i].stdin
      BY <1>1, <2>1, <2>3, SentIsOwn
    <2> QED BY <1>2, <2>1, <2>2, <2>4
  <1> HIDE DEF b, c, n
  <1>7. b = c
    BY <1>5, <1>6
  <1> QED BY <1>7 DEF b, c, m

LEMMA RunAllStep == ASSUME Types, runAll PROVE RunGoal
  <1>0. DocType /\ PanelType /\ RunType /\ tests \in Seq(Shape)
    BY DEF Types, PanelType
  <1>1. tests' = Map(tests, Stripped)
    BY DEF runAll
  <1>2. tests' \in Seq(Shape) /\ \A i \in DOMAIN tests' : Blank(tests'[i])
    BY <1>0, <1>1, MapStripped
  <1>3. sent' = BatchSubmitParams(tests') /\ sent' \in Seq(Text)
    BY <1>0, <1>1, SentOfStripped, SentIsOwn DEF runAll
  <1>4. stage' = "post" /\ rows' = <<>> /\ listed' = <<>> /\ stepped' = FALSE /\ disturbed' = FALSE
    BY DEF runAll
  <1>5. DocType' /\ PanelType'
    BY <1>0, <1>2 DEF runAll, doc, DocType, PanelType
  <1>6. RunType'
    <2>1. ctx' = [mode |-> mode, stop |-> stopOnFail]
      BY DEF runAll
    <2>2. ctx' \in [mode : Range(Mode), stop : BOOLEAN]
      BY <1>0, <2>1 DEF PanelType
    <2>3. rows' \in Seq(RowShape) /\ listed' \in Seq(Nat)
      BY <1>4, EmptySeq, Zenon
    <2>4. disturbed' \in BOOLEAN /\ stepped' \in BOOLEAN
      BY <1>4
    <2>5. stage' \in {"idle", "post", "get", "wait", "final"}
      BY <1>4
    <2> QED BY <1>3, <2>2, <2>3, <2>4, <2>5 DEF RunType
  <1>7. Service'
    BY <1>3, <1>4 DEF Service
  <1>8. Posted' /\ Paired'
    BY <1>2, <1>3 DEF Posted, Paired, Blank
  <1>9. AllOwned'
    BY <1>2, <1>4 DEF AllOwned, Owned, Blank, Live
  <1> QED BY <1>5, <1>6, <1>7, <1>8, <1>9 DEF RunGoal

\* The tokens of the answer.
LEMMA PairProperties ==
    ASSUME NEW ts \in Seq(Shape), \A i \in DOMAIN ts : Blank(ts[i]), sent \in Seq(Text), NEW i \in 1..Len(ts)
    PROVE  /\ DOMAIN Pair(ts) = 1..Len(ts) /\ Pair(ts)[i] \in Shape
           /\ Pair(ts)[i].passed = "none" /\ Pair(ts)[i].stdin = ts[i].stdin
           /\ ~isReal(ts[i]) => Blank(Pair(ts)[i])
           /\ isReal(ts[i]) => /\ Pair(ts)[i].status = "queued"
                               /\ Pair(ts)[i].token = IF realIdx(ts, i) <= Len(sent) THEN realIdx(ts, i) ELSE None
  <1> DEFINE n == realIdx(ts, i)
             k == IF n <= Len(sent) THEN n ELSE None
             u == [ts[i] EXCEPT !.status = "queued", !.token = k]
  <1>1. DOMAIN ts = 1..Len(ts) /\ ts[i] \in Shape /\ Blank(ts[i]) /\ i \in Nat
    BY ElementOfSeq
  <1>2. n \in Nat
    BY <1>1, RealsFinite
  <1>3. k \in Nat
    BY <1>2 DEF None
  <1>4. DOMAIN Pair(ts) = 1..Len(ts) /\ Pair(ts)[i] = IF ~isReal(ts[i]) THEN ts[i] ELSE u
    BY <1>1 DEF Pair
  <1> HIDE DEF k
  <1>5. u \in Shape /\ u.status = "queued" /\ u.token = k /\ u.passed = ts[i].passed /\ u.stdin = ts[i].stdin
    BY <1>1, <1>3 DEF Shape
  <1> HIDE DEF u
  <1>6. ts[i].passed = "none"
    BY <1>1 DEF Blank
  <1> QED BY <1>1, <1>4, <1>5, <1>6 DEF k

LEMMA AcknowledgedStep ==
    ASSUME Types, Service, Posted, Acknowledged PROVE RunGoal
  <1>0. DocType /\ PanelType /\ RunType /\ tests \in Seq(Shape) /\ sent \in Seq(Text) /\ Len(sent) \in Nat
    BY LenProperties DEF Types, PanelType, RunType
  <1>1. \A i \in DOMAIN tests : Blank(tests[i])
    BY DEF Posted, Acknowledged
  <1>2. tests' = Pair(tests) /\ DOMAIN tests = 1..Len(tests) /\ Len(tests) \in Nat
    BY <1>0, LenProperties DEF Acknowledged
  <1>3. /\ sent' = sent /\ rows' = rows /\ disturbed' = disturbed /\ stage' \in {"idle", "get"}
        /\ Len(rows) = Len(sent) /\ stage = "post"
    BY DEF Acknowledged, service
  <1>4. DOMAIN tests' = 1..Len(tests)
    BY <1>2 DEF Pair
  <1>5. \A i \in 1..Len(tests) :
           /\ tests'[i] \in Shape /\ tests'[i].passed = "none" /\ tests'[i].stdin = tests[i].stdin
           /\ ~isReal(tests[i]) => Blank(tests'[i])
           /\ isReal(tests[i]) =>
                /\ tests'[i].status = "queued"
                /\ tests'[i].token = IF realIdx(tests, i) <= Len(sent) THEN realIdx(tests, i) ELSE None
    BY <1>0, <1>1, <1>2, PairProperties
  <1>6. tests' \in Seq(Shape)
    <2>1. tests' = [i \in 1..Len(tests) |-> tests'[i]]
      BY <1>2 DEF Pair
    <2>2. tests' \in [1..Len(tests) -> Shape]
      BY <1>5, <2>1, Zenon
    <2> QED BY <1>2, <2>2, SeqDef
  <1>7. DocType' /\ PanelType'
    BY <1>0, <1>6 DEF Acknowledged, doc, DocType, PanelType
  <1>8. RunType' /\ Service' /\ Posted'
    BY <1>0, <1>3 DEF Acknowledged, service, RunType, Service, Posted
  <1>9. \A i \in 1..Len(tests) : isReal(tests[i]) => realIdx(tests, i) \in 1..realIdx(tests, Len(tests))
    BY <1>2, CounterBounds
  <1>10. realIdx(tests, Len(tests)) \in Nat
    BY <1>2, RealsFinite
  <1>11. Paired'
    <2>1. ASSUME NEW i \in 1..Len(tests), tests'[i].token # None
          PROVE  /\ isReal(tests[i]) /\ tests'[i].token = realIdx(tests, i)
                 /\ tests'[i].token \in 1..Len(sent)
      <3>1. isReal(tests[i])
        BY <1>5, <2>1 DEF Blank
      <3>2. realIdx(tests, i) \in Nat /\ realIdx(tests, i) >= 1
        BY <1>9, <1>10, <3>1
      <3> QED BY <1>0, <1>5, <2>1, <3>1, <3>2
    <2>2. ASSUME NEW i \in 1..Len(tests), NEW j \in 1..Len(tests), i # j, tests'[i].token # None
          PROVE  tests'[i].token # tests'[j].token
      <3>1. CASE tests'[j].token = None
        BY <2>2, <3>1
      <3>2. CASE tests'[j].token # None
        <4>1. realIdx(tests, i) # realIdx(tests, j)
          BY <2>1, <2>2, <3>2, CounterDistinct
        <4> QED BY <2>1, <2>2, <3>2, <4>1
      <3> QED BY <3>1, <3>2
    <2> QED BY <1>3, <1>4, <2>1, <2>2 DEF Paired
  <1>12. AllOwned'
    <2> SUFFICES ASSUME NEW i \in 1..Len(tests) PROVE Owned(tests[i])'
      BY <1>4 DEF AllOwned
    <2>1. CASE ~isReal(tests[i])
      BY <1>5, <2>1 DEF Owned, Blank, Live
    <2>2. CASE isReal(tests[i])
      <3>1. ~disturbed' => tests'[i].token # None /\ tests'[i].stdin = sent'[tests'[i].token]
        <4> SUFFICES ASSUME ~disturbed' PROVE tests'[i].token # None /\ tests'[i].stdin = sent'[tests'[i].token]
          OBVIOUS
        <4>1. sent = BatchSubmitParams(tests)
          BY <1>3 DEF Posted
        <4>2. realIdx(tests, i) \in 1..Len(sent) /\ sent[realIdx(tests, i)] = tests[i].stdin
          BY <1>0, <2>2, <4>1, SentIsOwn
        <4>3. tests'[i].token = realIdx(tests, i) /\ realIdx(tests, i) # None
          BY <1>0, <1>5, <2>2, <4>2 DEF None
        <4> QED BY <1>3, <1>5, <4>2, <4>3
      <3>2. tests'[i].status = "queued" /\ tests'[i].passed = "none"
        BY <1>5, <2>2
      <3> QED BY <1>3, <3>1, <3>2 DEF Owned, Live
    <2> QED BY <2>1, <2>2
  <1> QED BY <1>7, <1>8, <1>11, <1>12 DEF RunGoal

\* What a view makes of a case.
LEMMA ViewedCase ==
    ASSUME Types, Service, Paired, NEW i \in 1..Len(tests)
    PROVE  /\ DOMAIN applyView(tests) = 1..Len(tests)
           /\ tests[i].token = None => applyView(tests)[i] = tests[i]
           /\ tests[i].token # None =>
                \E k \in 1..Len(rows) :
                  /\ k = listed[tests[i].token] /\ rows[k] \in RowShape
                  /\ applyView(tests)[i] = [tests[i] EXCEPT !.status = rows[k].status,
                                                           !.stdout = decode(rows[k].stdout),
                                                           !.passed = Verdict(tests[i], rows[k])]
  <1>0. tests \in Seq(Shape) /\ DOMAIN tests = 1..Len(tests) /\ rows \in Seq(RowShape) /\ listed \in Seq(Nat)
    BY DEF Types, PanelType, RunType
  <1>1. DOMAIN applyView(tests) = 1..Len(tests)
    BY <1>0 DEF applyView, Map
  <1>2. applyView(tests)[i] =
           IF tests[i].token = None THEN tests[i]
           ELSE [tests[i] EXCEPT !.status = View(tests[i].token).status,
                                 !.stdout = decode(View(tests[i].token).stdout),
                                 !.passed = Verdict(tests[i], View(tests[i].token))]
    BY <1>0 DEF applyView, Map
  <1>3. ASSUME tests[i].token # None
        PROVE  /\ listed[tests[i].token] \in 1..Len(rows)
               /\ View(tests[i].token) = rows[listed[tests[i].token]]
    <2> DEFINE n == tests[i].token
    <2>1. n \in 1..Len(sent) /\ Len(rows) = Len(sent) /\ Len(listed) = Len(rows) /\ DOMAIN listed = 1..Len(listed)
      BY <1>0, <1>3 DEF Paired, Service
    <2> HIDE DEF n
    <2>2. n \in DOMAIN listed /\ listed[n] \in 1..Len(rows)
      BY <2>1 DEF Service
    <2>3. View(n) = rows[listed[n]]
      BY <2>2 DEF View, BatchView, Map
    <2> QED BY <2>2, <2>3 DEF n
  <1>4. \A k \in 1..Len(rows) : rows[k] \in RowShape
    BY <1>0, ElementOfSeq
  <1> QED BY <1>1, <1>2, <1>3, <1>4

\* A case said to fail has an expected output, and did not produce it.
LEMMA FailMeansDifference ==
    ASSUME NEW t \in Shape, NEW row \in RowShape, ctx.mode \in Range(Mode), Verdict(t, row) = "fail"
    PROVE  /\ t.expected # Empty
           /\ row.status = "accepted" => decode(row.stdout) # t.expected
  <1>1. t.expected \in Text
    BY DEF Shape
  <1>2. t.expected # Empty
    BY DEF Verdict
  <1>3. ASSUME row.status = "accepted", decode(row.stdout) = t.expected PROVE FALSE
    <2>1. compare(t.expected, t.expected, ctx.mode)
      BY <1>1, CompareAssumption
    <2>2. Verdict(t, row) = "pass"
      BY <1>2, <1>3, <2>1 DEF Verdict, Live
    <2> QED BY <2>2
  <1> QED BY <1>2, <1>3

\* No row is pending.
LEMMA NonePending ==
    ASSUME rows \in Seq(RowShape), pending = 0
    PROVE  \A k \in 1..Len(rows) : rows[k].status # "queued"
  <1> DEFINE Q == {k \in DOMAIN rows : rows[k].status \in {"queued"}}
  <1>1. DOMAIN rows = 1..Len(rows) /\ Len(rows) \in Nat
    OBVIOUS
  <1>2. pending = Cardinality(Q)
    BY DEF pending, BatchView, summarise
  <1>3. IsFiniteSet(Q)
    <2>1. IsFiniteSet(1..Len(rows)) /\ Q \subseteq 1..Len(rows)
      BY <1>1, FS_Interval
    <2> QED BY <2>1, FS_Subset
  <1>4. Q = {}
    BY <1>2, <1>3, FS_EmptySet
  <1> QED BY <1>1, <1>4

\* One turn of the polling loop, and the last look at the batch.
LEMMA ViewStep ==
    ASSUME Types, Service, Paired, AllOwned, pollBatch \/ FinalSync PROVE RunGoal
  <1>0. /\ DocType /\ PanelType /\ RunType /\ tests \in Seq(Shape) /\ Len(tests) \in Nat
        /\ DOMAIN tests = 1..Len(tests)
    BY LenProperties DEF Types, PanelType
  <1>1. /\ Same /\ disturbed' = disturbed /\ tests' = applyView(tests)
        /\ stage \in {"get", "final"} /\ stage' \in {"idle", "wait", "final"}
    BY DEF pollBatch, FinalSync, service, Same
  <1>2. stage' = "final" => \A k \in 1..Len(rows) : rows[k].status # "queued"
    BY <1>0, NonePending DEF pollBatch, FinalSync, RunType
  <1>3. \A i \in 1..Len(tests) :
           /\ tests[i].token = None => tests'[i] = tests[i]
           /\ tests[i].token # None =>
                \E k \in 1..Len(rows) :
                  /\ k = listed[tests[i].token] /\ rows[k] \in RowShape
                  /\ tests'[i] = [tests[i] EXCEPT !.status = rows[k].status,
                                                  !.stdout = decode(rows[k].stdout),
                                                  !.passed = Verdict(tests[i], rows[k])]
    BY <1>1, ViewedCase
  <1>4. \A i \in 1..Len(tests) : tests[i] \in Shape
    BY <1>0, ElementOfSeq
  <1>5. \A i \in 1..Len(tests) : tests[i].token # None =>
           \E k \in 1..Len(rows) :
              /\ k = listed[tests[i].token] /\ rows[k] \in RowShape
              /\ tests'[i] \in Shape /\ tests'[i].token = tests[i].token
              /\ tests'[i].stdin = tests[i].stdin /\ tests'[i].expected = tests[i].expected
              /\ tests'[i].status = rows[k].status /\ tests'[i].stdout = decode(rows[k].stdout)
              /\ tests'[i].passed = Verdict(tests[i], rows[k])
    <2> SUFFICES ASSUME NEW i \in 1..Len(tests), tests[i].token # None
                 PROVE  \E k \in 1..Len(rows) :
                          /\ k = listed[tests[i].token] /\ rows[k] \in RowShape
                          /\ tests'[i] \in Shape /\ tests'[i].token = tests[i].token
                          /\ tests'[i].stdin = tests[i].stdin /\ tests'[i].expected = tests[i].expected
                          /\ tests'[i].status = rows[k].status /\ tests'[i].stdout = decode(rows[k].stdout)
                          /\ tests'[i].passed = Verdict(tests[i], rows[k])
      OBVIOUS
    <2>1. PICK k \in 1..Len(rows) :
              /\ k = listed[tests[i].token] /\ rows[k] \in RowShape
              /\ tests'[i] = [tests[i] EXCEPT !.status = rows[k].status,
                                              !.stdout = decode(rows[k].stdout),
                                              !.passed = Verdict(tests[i], rows[k])]
      BY <1>3
    <2> DEFINE row == rows[k]
               d == decode(row.stdout)
               v == Verdict(tests[i], row)
    <2>2. row.status \in {"queued", "accepted", "re"} /\ row.stdout \in Text
      BY <2>1 DEF RowShape
    <2>3. d \in Text \cup {Mangled} /\ v \in {"none", "pass", "fail", "unchecked"}
      BY <2>2 DEF decode, Verdict
    <2>4. tests'[i] = [tests[i] EXCEPT !.status = row.status, !.stdout = d, !.passed = v]
      BY <2>1
    <2> HIDE DEF d, v
    <2>5. /\ tests'[i] \in Shape /\ tests'[i].token = tests[i].token
          /\ tests'[i].stdin = tests[i].stdin /\ tests'[i].expected = tests[i].expected
          /\ tests'[i].status = row.status /\ tests'[i].stdout = d /\ tests'[i].passed = v
      BY <1>4, <2>2, <2>3, <2>4 DEF Shape
    <2> QED BY <2>1, <2>5 DEF d, v
  <1>6. \A i \in 1..Len(tests) : tests'[i] \in Shape /\ tests'[i].token = tests[i].token
    BY <1>3, <1>4, <1>5
  <1>7. DOMAIN tests' = 1..Len(tests)
    BY <1>0, <1>1 DEF applyView, Map
  <1>8. tests' \in Seq(Shape)
    <2>1. tests' = [i \in 1..Len(tests) |-> tests'[i]]
      BY <1>0, <1>1 DEF applyView, Map
    <2>2. tests' \in [1..Len(tests) -> Shape]
      BY <1>6, <2>1, Zenon
    <2> QED BY <1>0, <2>2, SeqDef
  <1>9. DocType' /\ PanelType'
    BY <1>0, <1>8 DEF pollBatch, FinalSync, doc, DocType, PanelType
  <1>10. RunType'
    BY <1>0, <1>1 DEF Same, RunType
  <1>11. Service' /\ Posted'
    BY <1>1 DEF Same, Service, Posted
  <1>12. Paired'
    BY <1>0, <1>1, <1>6, <1>7 DEF Same, Paired
  <1>13. AllOwned'
    <2> SUFFICES ASSUME NEW i \in 1..Len(tests) PROVE Owned(tests[i])'
      BY <1>7 DEF AllOwned
    <2>0. Owned(tests[i])
      BY <1>0 DEF AllOwned
    <2>1. CASE tests[i].token = None
      <3>1. tests'[i] = tests[i]
        BY <1>3, <2>1
      <3> QED BY <1>1, <2>0, <2>1, <3>1 DEF Owned, Same
    <2>2. CASE tests[i].token # None
      <3> DEFINE n == tests[i].token
      <3>1. PICK k \in 1..Len(rows) :
              /\ k = listed[n] /\ rows[k] \in RowShape
              /\ tests'[i] \in Shape /\ tests'[i].token = n
              /\ tests'[i].stdin = tests[i].stdin /\ tests'[i].expected = tests[i].expected
              /\ tests'[i].status = rows[k].status /\ tests'[i].stdout = decode(rows[k].stdout)
              /\ tests'[i].passed = Verdict(tests[i], rows[k])
        BY <1>5, <2>2
      <3>2. sent' = sent /\ rows' = rows /\ stepped' = stepped /\ ctx' = ctx /\ disturbed' = disturbed
        BY <1>1 DEF Same
      <3>3. ~disturbed => tests[i].stdin = sent[n]
        BY <1>1, <2>0, <2>2 DEF Owned, Running
      <3>4. ~stepped => k = n
        BY <1>0, <2>2, <3>1 DEF Paired, Service
      <3>5. rows[k].stdout \notin Ambiguous => decode(rows[k].stdout) = rows[k].stdout
        BY DEF decode
      <3>6. Verdict(tests[i], rows[k])' = Verdict(tests[i], rows[k])
        BY <3>1, <3>2 DEF Verdict
      <3>7. tests'[i].passed = "fail" =>
              tests'[i].expected # Empty /\ (tests'[i].status = "accepted" => tests'[i].stdout # tests'[i].expected)
        <4>1. ctx.mode \in Range(Mode)
          BY <1>0 DEF RunType
        <4> QED BY <1>4, <3>1, <4>1, FailMeansDifference
      <3>8. stage' = "final" => tests'[i].status # "queued"
        BY <1>2, <3>1
      <3>9. /\ tests'[i].token # None
            /\ ~disturbed' => tests'[i].stdin = sent'[tests'[i].token]
        BY <2>2, <3>1, <3>2, <3>3
      <3>10. ~stepped' =>
               /\ tests'[i].status = rows'[tests'[i].token].status
               /\ rows'[tests'[i].token].stdout \notin Ambiguous =>
                    /\ tests'[i].stdout = rows'[tests'[i].token].stdout
                    /\ tests'[i].passed = Verdict(tests[i], rows[tests[i].token])'
        <4> SUFFICES ASSUME ~stepped' PROVE
               /\ tests'[i].status = rows'[tests'[i].token].status
               /\ rows'[tests'[i].token].stdout \notin Ambiguous =>
                    /\ tests'[i].stdout = rows'[tests'[i].token].stdout
                    /\ tests'[i].passed = Verdict(tests[i], rows[tests[i].token])'
          OBVIOUS
        <4>1. k = n /\ tests'[i].token = k
          BY <3>1, <3>2, <3>4
        <4>2. Verdict(tests[i], rows[tests[i].token])' = Verdict(tests[i], rows[k])
          BY <3>1, <3>2, <4>1 DEF Verdict
        <4> QED BY <3>1, <3>2, <3>5, <4>1, <4>2
      <3> QED BY <3>7, <3>8, <3>9, <3>10 DEF Owned
    <2> QED BY <2>1, <2>2
  <1> QED BY <1>9, <1>10, <1>11, <1>12, <1>13 DEF RunGoal

\* The service inserts a row of the batch.
LEMMA InsertStep ==
    ASSUME Types, Service, Posted, InsertRow PROVE RunGoal
  <1> DEFINE n == Len(rows) + 1
             r == [stdin |-> sent[n], status |-> "queued", stdout |-> Empty]
  <1>0. /\ DocType /\ PanelType /\ RunType /\ sent \in Seq(Text) /\ rows \in Seq(RowShape) /\ listed \in Seq(Nat)
        /\ Len(rows) \in Nat /\ Len(sent) \in Nat /\ Len(listed) = Len(rows) /\ DOMAIN tests = 1..Len(tests)
    BY LenProperties DEF Types, PanelType, RunType, Service
  <1>1. stage = "post" /\ n \in 1..Len(sent) /\ rows' = Append(rows, r)
    BY <1>0 DEF InsertRow
  <1>2. /\ tests' = tests /\ mode' = mode /\ stopOnFail' = stopOnFail
        /\ stage' = stage /\ ctx' = ctx /\ sent' = sent /\ disturbed' = disturbed
        /\ src' = src /\ draft' = draft /\ hash' = hash /\ mounted' = mounted
    BY DEF InsertRow, doc, panel, state, run
  <1>3. (listed' = Append(listed, n) /\ stepped' = stepped) \/ (listed' = <<n>> \o listed /\ stepped' = TRUE)
    BY DEF InsertRow
  <1>4. r \in RowShape /\ r.stdin = sent[n]
    <2>1. sent[n] \in Text
      BY <1>0, <1>1, ElementOfSeq
    <2> QED BY <2>1, EmptyAssumption DEF RowShape
  <1> HIDE DEF r
  <1>5. /\ rows' \in Seq(RowShape) /\ Len(rows') = n
        /\ \A i \in 1..n : rows'[i] = IF i < n THEN rows[i] ELSE r
    BY <1>0, <1>1, <1>4
  <1>6. \A i \in 1..n : rows'[i].stdin = sent[i]
    BY <1>0, <1>4, <1>5 DEF Service
  <1>7. /\ listed' \in Seq(Nat) /\ Len(listed') = n
        /\ \A i \in 1..n : listed'[i] \in 1..n
        /\ ~stepped' => \A i \in 1..n : listed'[i] = i
        /\ stepped' \in BOOLEAN
    <2>1. CASE listed' = Append(listed, n) /\ stepped' = stepped
      <3>1. /\ listed' \in Seq(Nat) /\ Len(listed') = n
            /\ \A i \in 1..n : listed'[i] = IF i < n THEN listed[i] ELSE n
        BY <1>0, <2>1
      <3>2. stepped' \in BOOLEAN
        BY <1>0, <2>1 DEF RunType
      <3> QED BY <1>0, <2>1, <3>1, <3>2 DEF Service
    <2>2. CASE listed' = <<n>> \o listed /\ stepped' = TRUE
      <3>1. <<n>> \in Seq(Nat) /\ Len(<<n>>) = 1 /\ <<n>>[1] = n
        BY <1>0
      <3>2. /\ listed' \in Seq(Nat) /\ Len(listed') = 1 + Len(listed)
            /\ \A i \in 1..(1 + Len(listed)) : listed'[i] = IF i <= 1 THEN <<n>>[i] ELSE listed[i - 1]
        BY <1>0, <2>2, <3>1, ConcatProperties
      <3>3. \A i \in 1..n : listed'[i] \in 1..n
        <4> SUFFICES ASSUME NEW i \in 1..n PROVE listed'[i] \in 1..n
          OBVIOUS
        <4>1. CASE i = 1
          BY <1>0, <3>1, <3>2, <4>1
        <4>2. CASE i # 1
          <5>1. i - 1 \in 1..Len(listed) /\ i \in 1..(1 + Len(listed)) /\ ~(i <= 1)
            BY <1>0, <4>2
          <5>2. listed'[i] = listed[i - 1]
            BY <3>2, <5>1
          <5>3. listed[i - 1] \in 1..Len(rows)
            BY <5>1 DEF Service
          <5> QED BY <1>0, <5>2, <5>3
        <4> QED BY <4>1, <4>2
      <3> QED BY <1>0, <2>2, <3>2, <3>3
    <2> QED BY <1>3, <2>1, <2>2
  <1>8. DocType' /\ PanelType'
    BY <1>0, <1>2 DEF DocType, PanelType
  <1>9. RunType'
    BY <1>0, <1>2, <1>5, <1>7 DEF RunType
  <1>10. Service'
    BY <1>0, <1>1, <1>2, <1>5, <1>6, <1>7 DEF Service
  <1>11. \A i \in DOMAIN tests : Blank(tests[i])
    BY <1>1 DEF Posted
  <1>12. Posted' /\ Paired'
    BY <1>1, <1>2, <1>11 DEF Posted, Paired, Blank
  <1>13. AllOwned'
    <2> SUFFICES ASSUME NEW i \in DOMAIN tests PROVE Owned(tests[i])'
      BY <1>2 DEF AllOwned
    <2> QED BY <1>2, <1>11 DEF Owned, Blank, Live
  <1> QED BY <1>8, <1>9, <1>10, <1>12, <1>13 DEF RunGoal

\* A worker finishes a row: no case shows it yet.
LEMMA FinishStep ==
    ASSUME Types, Service, Posted, Paired, AllOwned, NEW i \in DOMAIN rows, RowFinishes(i) PROVE RunGoal
  <1>0. /\ DocType /\ PanelType /\ RunType /\ rows \in Seq(RowShape) /\ DOMAIN rows = 1..Len(rows)
        /\ rows[i] \in RowShape
    BY ElementOfSeq DEF Types, RunType
  <1>1. /\ tests' = tests /\ mode' = mode /\ stopOnFail' = stopOnFail
        /\ stage' = stage /\ ctx' = ctx /\ sent' = sent /\ disturbed' = disturbed
        /\ listed' = listed /\ stepped' = stepped
        /\ src' = src /\ draft' = draft /\ hash' = hash /\ mounted' = mounted
    BY DEF RowFinishes, doc, panel, state, run
  <1>2. PICK o \in Outcome : rows' = [rows EXCEPT ![i].status = o.status, ![i].stdout = o.stdout]
    BY DEF RowFinishes
  <1>3. o.status \in {"accepted", "re"} /\ o.stdout \in Text
    BY DataAssumption
  <1> DEFINE r == [rows[i] EXCEPT !.status = o.status, !.stdout = o.stdout]
  <1>4. r \in RowShape /\ r.stdin = rows[i].stdin
    BY <1>0, <1>3 DEF RowShape
  <1>5. rows' = [rows EXCEPT ![i] = r]
    BY <1>0, <1>2 DEF RowShape
  <1> HIDE DEF r
  <1>6. /\ rows' \in Seq(RowShape) /\ Len(rows') = Len(rows)
        /\ \A k \in 1..Len(rows) : rows'[k] = IF k = i THEN r ELSE rows[k]
    BY <1>0, <1>4, <1>5
  <1>7. \A k \in 1..Len(rows) : rows'[k].stdin = rows[k].stdin
    BY <1>4, <1>6
  <1>8. DocType' /\ PanelType'
    BY <1>0, <1>1 DEF DocType, PanelType
  <1>9. RunType'
    BY <1>0, <1>1, <1>6 DEF RunType
  <1>10. Service'
    BY <1>0, <1>1, <1>6, <1>7 DEF Service
  <1>11. Posted' /\ Paired'
    BY <1>1, <1>6 DEF Posted, Paired, Blank
  <1>12. AllOwned'
    <2> SUFFICES ASSUME NEW c \in DOMAIN tests PROVE Owned(tests[c])'
      BY <1>1 DEF AllOwned
    <2>0. Owned(tests[c])
      BY DEF AllOwned
    <2>1. ASSUME ~disturbed, ~stepped, tests[c].token # None, tests[c].status \notin Live
          PROVE  rows'[tests[c].token] = rows[tests[c].token]
      <3>1. tests[c].token \in 1..Len(rows)
        BY <2>1 DEF Paired
      <3>2. tests[c].status = rows[tests[c].token].status
        BY <2>0, <2>1 DEF Owned
      <3>3. tests[c].token # i
        BY <2>1, <3>2 DEF RowFinishes, Live
      <3> QED BY <1>6, <3>1, <3>3
    <2> QED BY <1>1, <2>0, <2>1 DEF Owned, Running, Verdict
  <1> QED BY <1>8, <1>9, <1>10, <1>11, <1>12 DEF RunGoal

-----------------------------------------------------------------------------
(* The invariance.                                                         *)

LEMMA InitInv == Init => Inv
  <1> SUFFICES ASSUME Init PROVE Inv
    OBVIOUS
  <1>0. Snippet \in Source /\ Mode[1] \in Range(Mode)
    BY EmptyAssumption, DataAssumption DEF Range
  <1>1. /\ tests = <<emptyCase>> /\ src = Snippet /\ hydrating = FALSE /\ loaded = NoBucket
        /\ lost = {} /\ failures \in Nat
    BY BoundsAssumption DEF Init
  <1>2. tests \in Seq(Shape) /\ (\A i \in DOMAIN tests : Blank(tests[i])) /\ Map(tests, Stripped) = tests
    <2>1. \A i \in DOMAIN <<emptyCase>> : <<emptyCase>>[i] = emptyCase
      OBVIOUS
    <2> QED BY <1>1, <2>1, EmptyCases
  <1> DEFINE b == [NoBucket EXCEPT !.tests = tests]
  <1>3. /\ b \in BucketShape /\ NoBucket \in BucketShape /\ b.tests = tests
        /\ Map(NoBucket.tests, Stripped) = NoBucket.tests
    <2>1. NoBucket.tests = <<>> /\ Map(<<>>, Stripped) = <<>>
      BY DEF NoBucket, Map
    <2> HIDE DEF NoBucket
    <2> QED BY <1>2, <2>1, NoBucketType DEF BucketShape
  <1>4. DocType /\ PanelType /\ LoadedType
    BY <1>0, <1>1, <1>2, <1>3 DEF Init, DocType, PanelType, LoadedType
  <1>5. /\ \/ order = <<src>> /\ bucket = [k \in Source |-> IF k = src THEN b ELSE NoBucket]
           \/ order = <<>> /\ bucket = [k \in Source |-> NoBucket]
        /\ last = [k \in Source |-> tests]
    BY <1>1 DEF Init
  <1> HIDE DEF b, NoBucket
  <1>6. /\ order \in Seq(Source) /\ Len(order) <= 1 /\ Range(order) \subseteq {src}
        /\ \A i, j \in DOMAIN order : order[i] = order[j] => i = j
    <2>1. /\ <<src>> \in Seq(Source) /\ Len(<<src>>) = 1 /\ <<src>>[1] = src
          /\ <<>> \in Seq(Source) /\ Len(<<>>) = 0
      BY <1>0, <1>1
    <2>2. CASE order = <<src>>
      BY <2>1, <2>2 DEF Range
    <2>3. CASE order = <<>>
      BY <2>1, <2>3 DEF Range
    <2> QED BY <1>5, <2>2, <2>3
  <1>7. StoreType
    <2>1. bucket \in [Source -> BucketShape] /\ last \in [Source -> Seq(Shape)]
      BY <1>2, <1>3, <1>5
    <2>2. Len(order) <= MaxBuckets + 1
      BY <1>6, BoundsAssumption
    <2> QED BY <1>1, <1>6, <2>1, <2>2 DEF StoreType
  <1>8. Clean /\ Remembered
    <2>1. Clean
      BY <1>2, <1>3, <1>5 DEF Clean
    <2>2. ASSUME NEW k \in Source PROVE Kept(k) = last[k]
      BY <1>1, <1>3, <1>5, <1>6 DEF Kept, Range
    <2> QED BY <1>1, <2>1, <2>2 DEF Remembered
  <1>9. /\ stage = "idle" /\ ctx = Idle /\ sent = <<>> /\ rows = <<>> /\ listed = <<>>
        /\ disturbed = FALSE /\ stepped = FALSE
    BY DEF Init
  <1>10. RunType
    <2>1. ctx \in [mode : Range(Mode), stop : BOOLEAN]
      BY <1>0, <1>9 DEF Idle
    <2>2. sent \in Seq(Text) /\ rows \in Seq(RowShape) /\ listed \in Seq(Nat)
      BY <1>9, EmptySeq, Zenon
    <2>3. disturbed \in BOOLEAN /\ stepped \in BOOLEAN
      BY <1>9
    <2> QED BY <1>9, <2>1, <2>2, <2>3 DEF RunType
  <1>11. Service
    BY <1>9 DEF Service
  <1>12. Posted /\ Paired
    BY <1>2, <1>9 DEF Posted, Paired, Blank
  <1>13. AllOwned
    BY <1>2, <1>9 DEF AllOwned, Owned, Blank, Live
  <1> QED BY <1>4, <1>7, <1>8, <1>10, <1>11, <1>12, <1>13 DEF Inv, Types

\* A step is one that leaves the batch alone or one of the batch.
LEMMA ActionStep == ASSUME Inv, Next PROVE Goal \/ RunGoal
  <1>0. Types /\ Remembered /\ Service /\ Posted /\ Paired /\ AllOwned
    BY DEF Inv
  <1>1. CASE Edit
    BY <1>0, <1>1, QuietStep, ClearStep, AddStep, DeleteStep, EditStep, SourceStep, RunAllStep DEF Edit
  <1>2. CASE Loop
    BY <1>0, <1>2, AcknowledgedStep, ViewStep, QuietStep DEF Loop
  <1>3. CASE Fault \/ Click
    BY <1>0, <1>3, QuietStep DEF Fault
  <1>4. CASE Serve
    BY <1>0, <1>4, InsertStep, FinishStep DEF Serve
  <1>5. CASE onImportFile \/ Hydrated
    BY <1>0, <1>5, ImportStep, SourceStep
  <1> QED BY <1>1, <1>2, <1>3, <1>4, <1>5 DEF Next, User

\* A step is rendered, or one of which the storage hears nothing.
LEMMA StepKinds ==
    ASSUME Types, Next
    PROVE  \/ LoadedType' /\ Shift /\ Rendered
           \/ UNCHANGED books /\ (Click \/ Wake \/ Fault \/ Serve)
  <1>1. CASE Edit /\ Rendered
    BY <1>1, SourceUpdates, OtherUpdates DEF Edit
  <1>2. CASE (Acknowledged \/ pollBatch \/ FinalSync \/ Hydrated \/ onImportFile) /\ Rendered
    BY <1>2, SourceUpdates, OtherUpdates
  <1>3. CASE UNCHANGED books /\ (Click \/ Wake \/ Fault \/ Serve)
    BY <1>3
  <1> QED BY <1>1, <1>2, <1>3 DEF Next, User, Loop

LEMMA NextInv == ASSUME Inv, [Next]_vars PROVE Inv'
  <1>1. CASE Next
    <2>1. DocType' /\ PanelType' /\ RunType' /\ Service' /\ Posted' /\ Paired' /\ AllOwned'
      <3>1. CASE Goal
        BY <3>1, CalmService, CalmPosted, CalmPaired, CalmOwned DEF Goal, Inv, Types
      <3>2. CASE RunGoal
        BY <3>2 DEF RunGoal
      <3> QED BY <1>1, <3>1, <3>2, ActionStep
    <2>2. LoadedType' /\ StoreType' /\ Clean' /\ Remembered'
      <3>1. Types /\ Clean /\ Remembered
        BY DEF Inv
      <3>2. CASE LoadedType' /\ Shift /\ Rendered
        BY <2>1, <3>1, <3>2, RenderedStep DEF Types
      <3>3. CASE UNCHANGED books /\ (Click \/ Wake \/ Fault \/ Serve)
        BY <3>1, <3>3, NoUpdates
      <3> QED BY <1>1, <3>1, <3>2, <3>3, StepKinds
    <2> QED BY <2>1, <2>2 DEF Inv, Types
  <1>2. CASE UNCHANGED vars
    <2>1. /\ src' = src /\ draft' = draft /\ hash' = hash /\ mounted' = mounted
          /\ tests' = tests /\ mode' = mode /\ stopOnFail' = stopOnFail
          /\ order' = order /\ bucket' = bucket /\ last' = last /\ lost' = lost /\ failures' = failures
          /\ hydrating' = hydrating /\ loaded' = loaded
          /\ stage' = stage /\ ctx' = ctx /\ sent' = sent
          /\ rows' = rows /\ listed' = listed /\ stepped' = stepped /\ disturbed' = disturbed
      BY <1>2 DEF vars, doc, panel, state, updates, books, store, run, service
    <2>2. Types'
      BY <2>1 DEF Inv, Types, DocType, PanelType, LoadedType, StoreType, RunType
    <2>3. Clean' /\ Remembered' /\ Service' /\ Posted' /\ Paired'
      BY <2>1 DEF Inv, Clean, Remembered, Kept, Service, Posted, Paired, Blank
    <2>4. AllOwned'
      BY <2>1 DEF Inv, AllOwned, Owned, Running, Verdict
    <2> QED BY <2>2, <2>3, <2>4 DEF Inv
  <1> QED BY <1>1, <1>2

\* The cases, the buckets, the invocation of runAll and the rows of the service
\* stay in step: a token stands for one row of one case, and what a case shows
\* is its own.
THEOREM Invariance == Spec => []Inv
  <1>1. Inv /\ [Next]_vars => Inv'
    BY NextInv
  <1> QED BY InitInv, <1>1, PTL DEF Spec

-----------------------------------------------------------------------------
(* What the panel shows.                                                   *)

Marked(m) == {i \in DOMAIN tests : tests[i].passed = m}

\* Every mark belongs to a case that was sent, and no two to the same.
LEMMA MarksCounted ==
    ASSUME Inv PROVE summary["pass"] + summary["fail"] + summary["unchecked"] <= Len(sent)
  <1> DEFINE P == Marked("pass")
             F == Marked("fail")
             U == Marked("unchecked")
             M == (P \cup F) \cup U
             f == [i \in M |-> tests[i].token]
  <1>0. /\ tests \in Seq(Shape) /\ sent \in Seq(Text) /\ DOMAIN tests = 1..Len(tests)
        /\ Len(tests) \in Nat /\ Len(sent) \in Nat
    BY LenProperties DEF Inv, Types, PanelType, RunType
  <1>1. /\ summary["pass"] = Cardinality(P) /\ summary["fail"] = Cardinality(F)
        /\ summary["unchecked"] = Cardinality(U)
    BY DEF summary, Marked
  <1>2. ASSUME NEW i \in M PROVE i \in DOMAIN tests /\ tests[i].token # None /\ tests[i].token \in 1..Len(sent)
    <2>1. i \in DOMAIN tests /\ tests[i].passed # "none"
      BY <1>2 DEF Marked
    <2>2. tests[i].token # None
      BY <2>1 DEF Inv, AllOwned, Owned
    <2> QED BY <2>1, <2>2 DEF Inv, Paired
  <1>3. IsFiniteSet(1..Len(sent)) /\ Cardinality(1..Len(sent)) = Len(sent)
    <2> SUFFICES ASSUME NEW n \in Nat PROVE IsFiniteSet(1..n) /\ Cardinality(1..n) = n
      BY <1>0, Zenon
    <2> QED BY FS_Interval
  <1>4. f \in Injection(M, 1..Len(sent))
    <2>1. f \in [M -> 1..Len(sent)]
      BY <1>2
    <2>2. \A i, j \in M : f[i] = f[j] => i = j
      BY <1>2 DEF Inv, Paired
    <2> HIDE DEF f, M
    <2> QED BY <2>1, <2>2 DEF Injection, IsInjective
  <1>5. IsFiniteSet(M) /\ Cardinality(M) <= Len(sent)
    <2> HIDE DEF f, M
    <2> QED BY <1>3, <1>4, FS_Injection
  <1>6. IsFiniteSet(P) /\ IsFiniteSet(F) /\ IsFiniteSet(U) /\ IsFiniteSet(P \cup F)
    BY <1>5, FS_Subset
  <1>7. P \cap F = {} /\ (P \cup F) \cap U = {}
    BY DEF Marked
  <1> HIDE DEF P, F, U
  <1>8. Cardinality({}) = 0 /\ Cardinality(P) \in Nat /\ Cardinality(F) \in Nat /\ Cardinality(U) \in Nat
        /\ Cardinality(P \cup F) \in Nat
    BY <1>6, FS_EmptySet, FS_CardinalityType
  <1>9. Cardinality(P \cup F) = Cardinality(P) + Cardinality(F)
    <2> DEFINE c == Cardinality(P \cap F)
    <2>1. Cardinality(P \cup F) = Cardinality(P) + Cardinality(F) - c
      BY <1>6, FS_Union, Zenon
    <2>2. c = 0
      BY <1>7, <1>8, Zenon
    <2> HIDE DEF c
    <2> QED BY <1>8, <2>1, <2>2
  <1>10. Cardinality(M) = Cardinality(P \cup F) + Cardinality(U)
    <2> DEFINE c == Cardinality((P \cup F) \cap U)
    <2>1. Cardinality((P \cup F) \cup U) = Cardinality(P \cup F) + Cardinality(U) - c
      BY <1>6, FS_Union, Zenon
    <2>2. c = 0
      BY <1>7, <1>8, Zenon
    <2> HIDE DEF c
    <2> QED BY <1>8, <2>1, <2>2
  <1> QED BY <1>0, <1>1, <1>5, <1>8, <1>9, <1>10

LEMMA InvShows == Inv => VerdictsOwnInput
  <1> SUFFICES ASSUME Inv PROVE VerdictsOwnInput
    OBVIOUS
  <1>0. tests \in Seq(Shape) /\ DOMAIN tests = 1..Len(tests)
    BY DEF Inv, Types, PanelType
  <1>1. \A t \in Range(tests) :
           Owned(t) /\ t \in Shape /\ (t.token # None => t.token \in 1..Len(rows) /\ rows[t.token].stdin = sent[t.token])
    <2> SUFFICES ASSUME NEW i \in DOMAIN tests
                 PROVE  /\ Owned(tests[i]) /\ tests[i] \in Shape
                        /\ tests[i].token # None =>
                             tests[i].token \in 1..Len(rows) /\ rows[tests[i].token].stdin = sent[tests[i].token]
      BY DEF Range
    <2>1. Owned(tests[i])
      BY DEF Inv, AllOwned
    <2>2. tests[i] \in Shape
      BY <1>0, ElementOfSeq
    <2>3. ASSUME tests[i].token # None
          PROVE  tests[i].token \in 1..Len(rows) /\ rows[tests[i].token].stdin = sent[tests[i].token]
      BY <2>3 DEF Inv, Paired, Service
    <2> QED BY <2>1, <2>2, <2>3
  <1>2. ASSUME ~disturbed, ~stepped, NEW t \in Range(tests), t.token # None, t.status \notin Live
        PROVE  /\ t.stdin = rows[t.token].stdin /\ t.status = rows[t.token].status
               /\ rows[t.token].stdout \notin Ambiguous =>
                    /\ t.stdout = rows[t.token].stdout
                    /\ t.passed \in {"none", Verdict(t, rows[t.token])}
    BY <1>1, <1>2 DEF Owned
  <1>3. ASSUME ~disturbed, stage = "final", NEW t \in Range(tests) PROVE verdictText(t) # "queued"
    BY <1>1, <1>3 DEF Owned, verdictText
  <1>4. ASSUME NEW t \in Range(tests), verdictText(t) = "fail"
        PROVE  showDiff(t) /\ (t.status = "accepted" => t.stdout # t.expected)
    <2>1. t.status # "fail"
      BY <1>1 DEF Shape
    <2>2. t.passed = "fail"
      BY <1>4, <2>1 DEF verdictText
    <2> QED BY <1>1, <2>2 DEF Owned, showDiff
  <1> QED BY <1>2, <1>3, <1>4, MarksCounted DEF VerdictsOwnInput

\* A case that shows a result shows that of its own stdin, with the verdict of its
\* own expected output; none is left queued when the loop ends by itself, and
\* no more verdicts are counted than cases were sent (runAll, applyView, pollBatch,
\* TestCaseRow, the listing of routes/batches.rs).
THEOREM VerdictsOwnInputHolds == Spec => []VerdictsOwnInput
  BY InvShows, Invariance, PTL

-----------------------------------------------------------------------------
(* What comes back.                                                        *)

\* Only the render of what was loaded settles a panel.
LEMMA Settles ==
    ASSUME Types, Next, ~Settled, Settled' PROVE Hydrated
  <1> USE DEF Settled
  <1>0. hydrating \in BOOLEAN /\ mounted \in BOOLEAN
    BY DEF Types, DocType, LoadedType
  <1>1. CASE Edit
    <2>1. CASE setRunMode
      BY <1>0, <2>1 DEF setRunMode, Mount
    <2>2. CASE Reload
      BY <1>0, <2>2 DEF Reload, Mount
    <2>3. ASSUME NEW k \in Source, setCode(k) PROVE FALSE
      BY <1>0, <2>3 DEF setCode
    <2>4. CASE ~(setRunMode \/ Reload \/ \E k \in Source : setCode(k))
      <3>1. UNCHANGED <<mounted, updates>>
        BY <1>1, <2>4 DEF Edit, addCase, setStopOnFail, clearResults, clearAll, deleteCase, editStdin,
                          editExpected, setMode, runAll, PanelOnly
      <3> QED BY <3>1 DEF updates
    <2> QED BY <2>1, <2>2, <2>3, <2>4
  <1>2. CASE Click \/ Loop \/ Fault \/ Serve \/ onImportFile
    <2>1. UNCHANGED <<mounted, updates>>
      BY <1>2 DEF Click, triggerImport, writeShareHash, cancelRun, Loop, Acknowledged, pollBatch, FinalSync,
                  Wake, Fault, PostFails, GetFails, importNothing, Serve, InsertRow, RowFinishes,
                  onImportFile, PanelOnly, panel
    <2> QED BY <2>1 DEF updates
  <1> QED BY <1>1, <1>2 DEF Next, User

\* Coming back to a source brings back the cases last shown for it, unless they were
\* not saved or the panel left the source before it had rendered them; only the oldest
\* buckets are dropped; a reload keeps the source unless the address bar holds another
\* (the hydrate and persist effects, saveBucket, readShareHash).
THEOREM WorkComesBackHolds == Spec => WorkComesBack
  <1> DEFINE A == /\ ~Settled /\ Settled' /\ src' \notin lost => tests' = last[src']
                  /\ \A i \in DOMAIN order : order[i] \notin Range(order') =>
                        /\ Len(order) > MaxBuckets /\ Len(order') = MaxBuckets
                        /\ \A j \in 1..i : order[j] \notin Range(order')
                  /\ Len(order') <= MaxBuckets + 1
                  /\ Reload /\ hash \in {NoSource, src} => src' = src
  <1>1. Inv /\ Inv' /\ [Next]_vars => [A]_vars
    <2> SUFFICES ASSUME Inv, Inv', Next PROVE A
      OBVIOUS
    <2>0. Types /\ DocType /\ StoreType /\ Clean /\ Remembered /\ DocType' /\ PanelType'
      BY DEF Inv, Types
    <2>1. Len(order') <= MaxBuckets + 1
      BY DEF Inv, Types, StoreType
    <2>2. ASSUME Reload, hash \in {NoSource, src} PROVE src' = src
      BY <2>0, <2>2 DEF Reload, readShareHash, DocType
    <2>3. ASSUME ~Settled, Settled', src' \notin lost PROVE tests' = last[src']
      <3>1. Hydrated
        BY <2>0, <2>3, Settles
      <3>2. src' = src /\ hydrating /\ tests' = loaded.tests
        BY <3>1 DEF Hydrated, doc
      <3> QED BY <2>0, <2>3, <3>2 DEF Remembered
    <2>4. \A i \in DOMAIN order : order[i] \notin Range(order') =>
             /\ Len(order) > MaxBuckets /\ Len(order') = MaxBuckets
             /\ \A j \in 1..i : order[j] \notin Range(order')
      <3>1. CASE Rendered
        BY <2>0, <3>1, SaveStep DEF Rendered, Saved
      <3>2. CASE UNCHANGED books
        BY <3>2 DEF books, store, Range
      <3> QED BY <2>0, <3>1, <3>2, StepKinds
    <2> QED BY <2>1, <2>2, <2>3, <2>4
  <1> QED BY <1>1, Invariance, PTL DEF Spec, WorkComesBack

=============================================================================
