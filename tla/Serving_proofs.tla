----------------------------- MODULE Serving_proofs -----------------------------
(***************************************************************************)
(* Proofs about Serving, for any bodies and any division into chunks, any  *)
(* number of retries and any bound of the prelude.                         *)
(***************************************************************************)
EXTENDS Serving, TLAPS, WellFoundedInduction, SequenceTheorems

-----------------------------------------------------------------------------
(* Sequences put together place by place *)

\* A set of numbers that is not empty has a least one.
LEMMA LeastIsThere ==
    ASSUME NEW S, S \subseteq Nat, S # {}
    PROVE  \E i \in S : \A j \in S : i <= j
<1>1. PICK i \in S : \A j \in S : ~(<<j, i>> \in OpToRel(<, Nat))
    BY NatLessThanWellFounded, WFMin
<1>2. ASSUME NEW j \in S PROVE i <= j
  <2>1. ~(j < i)
      BY <1>1 DEF OpToRel
  <2> QED
      BY <2>1
<1> QED
    BY <1>2

\* Induction up to a number, over the numbers of which something holds.
LEMMA Climb ==
    ASSUME NEW n \in Nat, NEW Good, 0 \in Good, \A m \in 1 .. n : m - 1 \in Good => m \in Good
    PROVE  \A m \in 0 .. n : m \in Good
<1> DEFINE Bad == {m \in 0 .. n : m \notin Good}
<1>1. SUFFICES ASSUME Bad # {} PROVE FALSE
    OBVIOUS
<1>2. Bad \subseteq Nat
    OBVIOUS
<1>3. PICK m \in Bad : \A j \in Bad : m <= j
    BY <1>1, <1>2, LeastIsThere
<1>4. m \in 1 .. n /\ m \notin Good
    BY <1>3
<1>5. m - 1 \in 0 .. n /\ ~(m <= m - 1)
    BY <1>4
<1>6. m - 1 \in Good
    BY <1>3, <1>5
<1> QED
    BY <1>4, <1>6

\* What Joined computes on the way, as far as place n.
Joins(s, S, n, f) ==
    f = [k \in 0 .. n |->
            IF k = 0 THEN <<>> ELSE IF k \in S THEN f[k - 1] \o s[k] ELSE f[k - 1]]

LEMMA JoinsStep ==
    ASSUME NEW s, NEW S, NEW n \in Nat, NEW f, Joins(s, S, n, f)
    PROVE  /\ f[0] = <<>>
           /\ \A k \in 1 .. n : f[k] = IF k \in S THEN f[k - 1] \o s[k] ELSE f[k - 1]
<1>1. \A k \in 0 .. n :
         f[k] = IF k = 0 THEN <<>> ELSE IF k \in S THEN f[k - 1] \o s[k] ELSE f[k - 1]
    BY DEF Joins
<1>2. 0 \in 0 .. n /\ \A k \in 1 .. n : k \in 0 .. n /\ k # 0
    OBVIOUS
<1> QED
    BY <1>1, <1>2

\* The function that Joined defines is there.
LEMMA JoinsExists ==
    ASSUME NEW s, NEW S, NEW n \in Nat
    PROVE  \E f : Joins(s, S, n, f)
<1> DEFINE Good == {m \in 0 .. n : \E f : Joins(s, S, m, f)}
<1>1. 0 \in Good
  <2>1. Joins(s, S, 0, [k \in 0 .. 0 |-> <<>>])
      BY DEF Joins
  <2> QED
      BY <2>1
<1>2. ASSUME NEW m \in 1 .. n, m - 1 \in Good PROVE m \in Good
  <2>1. PICK f : Joins(s, S, m - 1, f)
      BY <1>2
  <2> DEFINE last == IF m \in S THEN f[m - 1] \o s[m] ELSE f[m - 1]
             g == [k \in 0 .. m |-> IF k = m THEN last ELSE f[k]]
  <2>2. \A k \in 0 .. m - 1 :
           f[k] = IF k = 0 THEN <<>> ELSE IF k \in S THEN f[k - 1] \o s[k] ELSE f[k - 1]
      BY <2>1 DEF Joins
  <2>3. /\ \A k \in 0 .. m - 1 : g[k] = f[k]
        /\ g[m] = last
      OBVIOUS
  <2>4. g = [k \in 0 .. m |-> g[k]]
      OBVIOUS
  <2> HIDE DEF g
  <2>5. ASSUME NEW k \in 0 .. m
        PROVE  g[k] = IF k = 0 THEN <<>> ELSE IF k \in S THEN g[k - 1] \o s[k] ELSE g[k - 1]
    <3>1. CASE k = 0
        BY <3>1, <2>2, <2>3
    <3>2. CASE k # 0 /\ k # m
      <4>1. k \in 0 .. m - 1 /\ k - 1 \in 0 .. m - 1
          BY <3>2
      <4>2. f[k] = IF k \in S THEN f[k - 1] \o s[k] ELSE f[k - 1]
          BY <4>1, <3>2, <2>2
      <4>3. g[k] = f[k] /\ g[k - 1] = f[k - 1]
          BY <4>1, <2>3
      <4> QED
          BY <4>2, <4>3, <3>2
    <3>3. CASE k = m
        BY <3>3, <2>3
    <3> QED
        BY <3>1, <3>2, <3>3
  <2>6. Joins(s, S, m, g)
      BY <2>4, <2>5 DEF Joins
  <2> QED
      BY <2>6
<1>3. \A m \in 0 .. n : m \in Good
  <2> HIDE DEF Good
  <2> QED
      BY <1>1, <1>2, Climb
<1> QED
    BY <1>3

\* So the function is what its definition says.
LEMMA JoinedIs ==
    ASSUME NEW s, NEW S, Len(s) \in Nat
    PROVE  \E f : Joins(s, S, Len(s), f) /\ Joined(s, S) = f[Len(s)]
<1> DEFINE f == CHOOSE f : Joins(s, S, Len(s), f)
<1>1. Joins(s, S, Len(s), f)
    BY JoinsExists
<1>2. Joined(s, S) = f[Len(s)]
    BY DEF Joined, Joins
<1> QED
    BY <1>1, <1>2

\* What it joins up to a place depends on nothing after it.
LEMMA JoinsAgree ==
    ASSUME NEW n \in Nat, NEW s, NEW S, NEW f, Joins(s, S, n, f),
           NEW m \in n .. n + 1, NEW t, NEW T, NEW g, Joins(t, T, m, g),
           \A k \in 1 .. n : t[k] = s[k] /\ (k \in T <=> k \in S)
    PROVE  \A k \in 0 .. n : g[k] = f[k]
<1> DEFINE Good == {k \in 0 .. n : g[k] = f[k]}
<1>1. 0 \in Good
    BY JoinsStep
<1>2. ASSUME NEW k \in 1 .. n, k - 1 \in Good PROVE k \in Good
  <2>1. f[k] = IF k \in S THEN f[k - 1] \o s[k] ELSE f[k - 1]
      BY JoinsStep
  <2>2. g[k] = IF k \in T THEN g[k - 1] \o t[k] ELSE g[k - 1]
      BY JoinsStep
  <2> QED
      BY <2>1, <2>2, <1>2
<1>3. \A k \in 0 .. n : k \in Good
  <2> HIDE DEF Good
  <2> QED
      BY <1>1, <1>2, Climb
<1> QED
    BY <1>3

\* Joining is sequential, and a sequence of sequences joins to a sequence.
LEMMA JoinedIsSeq ==
    ASSUME NEW X, NEW s \in Seq(Seq(X)), NEW S
    PROVE  Joined(s, S) \in Seq(X)
<1> DEFINE n == Len(s)
<1>1. n \in Nat
    OBVIOUS
<1>2. ASSUME NEW k \in 1 .. n PROVE s[k] \in Seq(X)
    OBVIOUS
<1>3. PICK f : Joins(s, S, n, f) /\ Joined(s, S) = f[n]
    BY <1>1, JoinedIs
<1> HIDE DEF n
<1>4. Joins(s, S, n, f)
    BY <1>3
<1>5. f[0] = <<>>
    BY <1>1, <1>4, JoinsStep
<1> DEFINE Good == {k \in 0 .. n : f[k] \in Seq(X)}
<1>6. 0 \in Good
  <2>1. <<>> \in Seq(X)
      OBVIOUS
  <2>2. f[0] \in Seq(X)
      BY <1>5, <2>1, Zenon
  <2>3. 0 \in 0 .. n
      BY <1>1
  <2> QED
      BY <2>2, <2>3, Zenon
<1>7. ASSUME NEW k \in 1 .. n, k - 1 \in Good PROVE k \in Good
  <2>1. f[k] = IF k \in S THEN f[k - 1] \o s[k] ELSE f[k - 1]
      BY <1>1, <1>4, JoinsStep
  <2>2. s[k] \in Seq(X) /\ f[k - 1] \in Seq(X)
      BY <1>2, <1>7
  <2>3. f[k] \in Seq(X)
      BY <2>1, <2>2
  <2> QED
      BY <1>1, <2>3
<1>8. \A k \in 0 .. n : k \in Good
  <2> HIDE DEF Good
  <2> QED
      BY <1>1, <1>6, <1>7, Climb
<1>9. n \in 0 .. n
    BY <1>1
<1> QED
    BY <1>3, <1>8, <1>9

LEMMA JoinedAppend ==
    ASSUME NEW X, NEW s \in Seq(X), NEW S, NEW x, NEW T,
           \A k \in 1 .. Len(s) : k \in T <=> k \in S
    PROVE  Joined(Append(s, x), T) =
              IF Len(s) + 1 \in T THEN Joined(s, S) \o x ELSE Joined(s, S)
<1> DEFINE n == Len(s)
           t == Append(s, x)
<1>1. n \in Nat
    OBVIOUS
<1>2. Len(t) = n + 1 /\ t[n + 1] = x
    OBVIOUS
<1>3. \A k \in 1 .. n : t[k] = s[k] /\ (k \in T <=> k \in S)
    OBVIOUS
<1>4. PICK f : Joins(s, S, n, f) /\ Joined(s, S) = f[n]
    BY <1>1, JoinedIs
<1> HIDE DEF t, n
<1>5. PICK g : Joins(t, T, n + 1, g) /\ Joined(t, T) = g[n + 1]
    BY <1>1, <1>2, JoinedIs
<1>6. Joins(s, S, n, f) /\ Joins(t, T, n + 1, g)
    BY <1>4, <1>5
<1>7. n + 1 \in n .. n + 1 /\ n + 1 \in Nat /\ n + 1 \in 1 .. n + 1 /\ n + 1 - 1 = n /\ n \in 0 .. n
    BY <1>1
<1>8. g[n] = f[n]
    BY <1>1, <1>3, <1>6, <1>7, JoinsAgree
<1>9. g[n + 1] = IF n + 1 \in T THEN g[n] \o t[n + 1] ELSE g[n]
    BY <1>1, <1>6, <1>7, JoinsStep
<1> QED
    BY <1>2, <1>4, <1>5, <1>8, <1>9 DEF n, t

LEMMA JoinedNothing ==
    ASSUME NEW S
    PROVE  Joined(<<>>, S) = <<>>
<1>1. Len(<<>>) = 0
    OBVIOUS
<1>2. PICK f : Joins(<<>>, S, 0, f) /\ Joined(<<>>, S) = f[0]
    BY <1>1, JoinedIs
<1> QED
    BY <1>2, JoinsStep

-----------------------------------------------------------------------------
(* Lists of lines *)

Line == Nat \ {0}

\* A sequence that lists the lines of a set in their order.
Lists(s, S) ==
    /\ s \in Seq(Line)
    /\ \A j, k \in 1 .. Len(s) : j < k => s[j] < s[k]
    /\ \A i : i \in S <=> \E k \in 1 .. Len(s) : s[k] = i

LEMMA ListsNothing == Lists(<<>>, {})
BY DEF Lists

LEMMA ListsOne ==
    ASSUME NEW i \in Line
    PROVE  Lists(<<i>>, {i})
<1>1. <<i>> \in Seq(Line) /\ Len(<<i>>) = 1 /\ <<i>>[1] = i
    OBVIOUS
<1>2. 1 .. Len(<<i>>) = {1}
    BY <1>1
<1>3. \A j, k \in 1 .. Len(<<i>>) : ~(j < k)
    BY <1>2
<1>4. \A j : j \in {i} <=> \E k \in {1} : <<i>>[k] = j
    BY <1>1
<1> QED
    BY <1>1, <1>2, <1>3, <1>4 DEF Lists

LEMMA ListsMore ==
    ASSUME NEW s, NEW S, Lists(s, S), NEW t, NEW T, Lists(t, T),
           \A a \in S, b \in T : a < b
    PROVE  Lists(s \o t, S \cup T)
<1> DEFINE u == s \o t
           m == Len(s)
           n == Len(t)
<1>1. s \in Seq(Line) /\ t \in Seq(Line)
    BY DEF Lists
<1>2. /\ u \in Seq(Line) /\ m \in Nat /\ n \in Nat /\ Len(u) = m + n
      /\ \A k \in 1 .. m : u[k] = s[k]
      /\ \A k \in 1 .. n : u[m + k] = t[k]
    BY <1>1
<1>3. /\ \A k \in 1 .. m : s[k] \in S
      /\ \A k \in 1 .. n : t[k] \in T
    BY DEF Lists
<1> HIDE DEF u, m, n
<1>4. ASSUME NEW k \in 1 .. m + n, k > m PROVE k - m \in 1 .. n /\ u[k] = t[k - m]
  <2>1. k - m \in 1 .. n /\ m + (k - m) = k
      BY <1>2, <1>4
  <2> QED
      BY <2>1, <1>2
<1>5. ASSUME NEW j \in 1 .. m + n, NEW k \in 1 .. m + n, j < k PROVE u[j] < u[k]
  <2>1. CASE k <= m
    <3>1. j \in 1 .. m /\ k \in 1 .. m
        BY <2>1, <1>5, <1>2
    <3> QED
        BY <3>1, <1>2, <1>5 DEF Lists, m
  <2>2. CASE j <= m /\ k > m
    <3>1. j \in 1 .. m
        BY <2>2, <1>2
    <3>2. u[j] \in S /\ u[k] \in T
        BY <3>1, <2>2, <1>2, <1>3, <1>4
    <3> QED
        BY <3>2
  <2>3. CASE j > m
    <3>1. k > m /\ j - m < k - m
        BY <2>3, <1>2, <1>5
    <3>2. j - m \in 1 .. n /\ k - m \in 1 .. n /\ u[j] = t[j - m] /\ u[k] = t[k - m]
        BY <3>1, <2>3, <1>4
    <3> QED
        BY <3>1, <3>2 DEF Lists, n
  <2> QED
      BY <2>1, <2>2, <2>3, <1>2
<1>6. ASSUME NEW i \in S \cup T PROVE \E k \in 1 .. m + n : u[k] = i
  <2>1. CASE i \in S
    <3>1. PICK k \in 1 .. m : s[k] = i
        BY <2>1 DEF Lists, m
    <3> QED
        BY <3>1, <1>2
  <2>2. CASE i \in T
    <3>1. PICK k \in 1 .. n : t[k] = i
        BY <2>2 DEF Lists, n
    <3>2. m + k \in 1 .. m + n
        BY <1>2
    <3> QED
        BY <3>1, <3>2, <1>2
  <2> QED
      BY <2>1, <2>2
<1>7. ASSUME NEW k \in 1 .. m + n PROVE u[k] \in S \cup T
  <2>1. CASE k <= m
      BY <2>1, <1>2, <1>3
  <2>2. CASE k > m
      BY <2>2, <1>3, <1>4
  <2> QED
      BY <2>1, <2>2, <1>2
<1> QED
    BY <1>2, <1>5, <1>6, <1>7 DEF Lists, u

\* Some of the numbers up to n, picked from all of them.
LEMMA PickedLists ==
    ASSUME NEW n \in Nat, NEW S \in SUBSET (1 .. n)
    PROVE  Lists(Picked([i \in 1 .. n |-> i], S), S)
<1> DEFINE id == [i \in 1 .. n |-> i]
           s == [k \in DOMAIN id |-> <<id[k]>>]
<1>1. s \in Seq(Seq(Nat)) /\ Len(s) = n /\ \A k \in 1 .. n : s[k] = <<k>>
    OBVIOUS
<1>2. Picked(id, S) = Joined(s, S)
    BY DEF Picked
<1> HIDE DEF s, id
<1>3. PICK f : Joins(s, S, n, f) /\ Joined(s, S) = f[n]
    BY <1>1, JoinedIs
<1>4. Joins(s, S, n, f)
    BY <1>3
<1>5. f[0] = <<>>
    BY <1>4, JoinsStep
<1> DEFINE Good == {k \in 0 .. n : Lists(f[k], S \cap (1 .. k))}
<1>6. 0 \in Good
  <2>1. S \cap (1 .. 0) = {}
      OBVIOUS
  <2>2. Lists(f[0], S \cap (1 .. 0))
      BY <1>5, <2>1, ListsNothing, Zenon
  <2>3. 0 \in 0 .. n
      OBVIOUS
  <2> QED
      BY <2>2, <2>3, Zenon
<1>7. ASSUME NEW k \in 1 .. n, k - 1 \in Good PROVE k \in Good
  <2>1. f[k] = IF k \in S THEN f[k - 1] \o <<k>> ELSE f[k - 1]
    <3>1. f[k] = IF k \in S THEN f[k - 1] \o s[k] ELSE f[k - 1]
        BY <1>4, JoinsStep
    <3>2. s[k] = <<k>>
        BY <1>1
    <3> QED
        BY <3>1, <3>2, Zenon
  <2>2. Lists(f[k - 1], S \cap (1 .. k - 1))
      BY <1>7, Zenon
  <2>3. CASE k \in S
    <3>1. Lists(<<k>>, {k})
      <4>1. k \in Line
          BY DEF Line
      <4> QED
          BY <4>1, ListsOne
    <3>2. \A a \in S \cap (1 .. k - 1), b \in {k} : a < b
        OBVIOUS
    <3>3. S \cap (1 .. k) = (S \cap (1 .. k - 1)) \cup {k}
        BY <2>3
    <3>4. Lists(f[k - 1] \o <<k>>, (S \cap (1 .. k - 1)) \cup {k})
        BY <2>2, <3>1, <3>2, ListsMore
    <3>5. f[k] = f[k - 1] \o <<k>>
        BY <2>1, <2>3
    <3>6. k \in 0 .. n
        OBVIOUS
    <3> QED
        BY <3>3, <3>4, <3>5, <3>6, Zenon
  <2>4. CASE k \notin S
    <3>1. S \cap (1 .. k) = S \cap (1 .. k - 1)
        BY <2>4
    <3>2. f[k] = f[k - 1]
        BY <2>1, <2>4
    <3>3. k \in 0 .. n
        OBVIOUS
    <3> QED
        BY <2>2, <3>1, <3>2, <3>3, Zenon
  <2> QED
      BY <2>3, <2>4
<1>8. \A k \in 0 .. n : k \in Good
  <2> HIDE DEF Good
  <2> QED
      BY <1>6, <1>7, Climb
<1>9. n \in 0 .. n /\ S \cap (1 .. n) = S
  <2>1. n \in 0 .. n
      OBVIOUS
  <2>2. S \cap (1 .. n) = S
      OBVIOUS
  <2> QED
      BY <2>1, <2>2
<1>10. Lists(f[n], S)
  <2>1. Lists(f[n], S \cap (1 .. n))
      BY <1>8, <1>9, Zenon
  <2> QED
      BY <2>1, <1>9, Zenon
<1> QED
    BY <1>2, <1>3, <1>10, Zenon DEF id

-----------------------------------------------------------------------------
(* Types *)

Usages == {Nothing} \cup (Nat \X Nat)

ServingTypes ==
    /\ route \in Routes /\ stage \in Stages
    /\ attempt \in 0 .. MaxRetries + 1
    /\ body \in [lines : Seq(LineKinds), closed : BOOLEAN]
    /\ at \in Nat /\ from \in 0 .. at
    /\ prelude \in Seq(Line) /\ due \in Seq(Line)
    /\ taken \in Seq(Nat \X Line)
    /\ handover \in [at : Nat, ending : {None, "over", "broken", "overflow"}]

\* Nothing is recorded before a request ends, and then once.
RecordedAtTheEnd ==
    /\ Len(records) \in 0 .. 1 /\ executed \in 0 .. 1
    /\ stage # "done" => records = <<>> /\ executed = 0

LEMMA DecodeLists ==
    ASSUME ServingTypes, NEW f \in Nat, NEW t \in Nat
    PROVE  Lists(Decode(f, t),
                 {i \in DOMAIN body.lines : f <= 3 * (i - 1) /\ 3 * i <= t /\ IsEvent(i)})
<1> DEFINE n == Len(body.lines)
           S == {i \in DOMAIN body.lines : f <= 3 * (i - 1) /\ 3 * i <= t /\ IsEvent(i)}
<1>1. n \in Nat /\ DOMAIN body.lines = 1 .. n
    BY DEF ServingTypes
<1>2. S \in SUBSET (1 .. n)
    BY <1>1
<1>3. Decode(f, t) = Picked([i \in 1 .. n |-> i], S)
    BY <1>1, Zenon DEF Decode
<1> HIDE DEF n, S
<1>4. Lists(Decode(f, t), S)
    BY <1>1, <1>2, <1>3, PickedLists
<1> QED
    BY <1>4 DEF S

LEMMA DecodeType ==
    ASSUME ServingTypes, NEW f \in Nat, NEW t \in Nat
    PROVE  Decode(f, t) \in Seq(Line)
BY DecodeLists DEF Lists

LEMMA KeepBound ==
    ASSUME NEW t \in Nat, NEW f \in 0 .. t
    PROVE  Keep(f, t) \in 0 .. t
BY DEF Keep

LEMMA LengthType ==
    ASSUME ServingTypes
    PROVE  Length \in Int
BY DEF ServingTypes, Length

LEMMA ServingInitTypes == Init => ServingTypes /\ RecordedAtTheEnd
<1>1. <<>> \in Seq(LineKinds) /\ <<>> \in Seq(Line) /\ <<>> \in Seq(Nat \X Line) /\ Len(<<>>) = 0
    OBVIOUS
<1>2. NoBody \in [lines : Seq(LineKinds), closed : BOOLEAN]
    BY <1>1 DEF NoBody
<1>3. 0 \in 0 .. MaxRetries + 1
    BY ServingAssumption
<1> SUFFICES ASSUME Init PROVE ServingTypes /\ RecordedAtTheEnd
    OBVIOUS
<1>4. ServingTypes
    BY <1>1, <1>2, <1>3 DEF Init, ServingTypes, Stages, None
<1> QED
    BY <1>1, <1>4 DEF Init, RecordedAtTheEnd

\* Committing, and dispatching once more.
LEMMA DecideTypes ==
    ASSUME ServingTypes, NEW lines \in Seq(Line), NEW content \in BOOLEAN, NEW live \in BOOLEAN,
           Decide(lines, content, live), at' \in Nat, at <= at'
    PROVE  /\ attempt' \in 0 .. MaxRetries + 1 /\ stage' \in {"serve", "close", "dispatch"}
           /\ body' \in [lines : Seq(LineKinds), closed : BOOLEAN]
           /\ from' \in 0 .. at' /\ due' \in Seq(Line) /\ taken' = taken
           /\ handover' \in [at : Nat, ending : {None, "over", "broken", "overflow"}]
<1>1. CASE content \/ OutOfRetries
    BY <1>1 DEF ServingTypes, Decide, Commit
<1>2. CASE ~(content \/ OutOfRetries)
  <2>1. DispatchAgain /\ attempt # MaxRetries + 1
      BY <1>2 DEF Decide, OutOfRetries
  <2>2. attempt' \in 0 .. MaxRetries + 1
      BY <2>1, ServingAssumption DEF ServingTypes, DispatchAgain
  <2>3. <<>> \in Seq(LineKinds)
      OBVIOUS
  <2>4. from' \in 0 .. at'
      BY <2>1 DEF ServingTypes, DispatchAgain, reply
  <2> QED
      BY <2>1, <2>2, <2>3, <2>4 DEF ServingTypes, DispatchAgain, reply, NoBody
<1> QED
    BY <1>1, <1>2

LEMMA ServingStepTypes ==
    ASSUME ServingTypes, [Next]_vars
    PROVE  ServingTypes'
<1> USE DEF ServingTypes, transfer, reply
<1>1. CASE RejectBody
    BY <1>1 DEF RejectBody, Stages
<1>2. CASE CannotConvert
    BY <1>2 DEF CannotConvert, Stages
<1>3. CASE Prepare
  <2>1. 1 \in 0 .. MaxRetries + 1
      BY ServingAssumption
  <2> QED
      BY <1>3, <2>1 DEF Prepare, Stages
<1>4. CASE DispatchFails
    BY <1>4 DEF DispatchFails, Stages
<1>5. CASE DispatchAnswers
  <2>1. PICK lines \in Bodies, closed \in BOOLEAN :
           body' = [lines |-> lines, closed |-> closed \/ lines = <<>>]
      BY <1>5 DEF DispatchAnswers
  <2>2. body' \in [lines : Seq(LineKinds), closed : BOOLEAN]
      BY <2>1, ServingAssumption
  <2>3. <<>> \in Seq(Line)
      OBVIOUS
  <2> QED
      BY <1>5, <2>2, <2>3 DEF DispatchAnswers, Stages
<1>6. CASE PreludeChunk
  <2> DEFINE lines == prelude \o Decode(from, at')
             content == \E k \in DOMAIN lines : ShowsContent(lines[k])
  <2>1. at' \in Nat /\ at < at' /\ from \in Nat
      BY <1>6, LengthType DEF PreludeChunk
  <2>2. lines \in Seq(Line)
      BY <2>1, DecodeType
  <2>3. from \in 0 .. at' /\ Keep(from, at') \in 0 .. at'
    <3>1. from \in 0 .. at'
        BY <2>1
    <3> QED
        BY <2>1, <3>1, KeepBound
  <2> HIDE DEF lines, content
  <2>4. CASE Overflows(from, at')
    <3>1. prelude' = prelude /\ route' = route /\ Decide(prelude, FALSE, FALSE)
        BY <1>6, <2>4 DEF PreludeChunk
    <3>2. prelude \in Seq(Line) /\ at <= at'
        BY <2>1
    <3> HIDE DEF ServingTypes
    <3>3. /\ attempt' \in 0 .. MaxRetries + 1 /\ stage' \in {"serve", "close", "dispatch"}
          /\ body' \in [lines : Seq(LineKinds), closed : BOOLEAN]
          /\ from' \in 0 .. at' /\ due' \in Seq(Line) /\ taken' = taken
          /\ handover' \in [at : Nat, ending : {None, "over", "broken", "overflow"}]
        BY <2>1, <3>1, <3>2, DecideTypes
    <3> QED
        BY <2>1, <3>1, <3>3 DEF Stages, ServingTypes
  <2>5. CASE ~Overflows(from, at') /\ (content \/ Len(lines) >= MaxPrelude)
    <3>1. prelude' = lines /\ route' = route /\ Decide(lines, content, TRUE)
        BY <1>6, <2>5 DEF PreludeChunk, lines, content
    <3>2. at <= at' /\ content \in BOOLEAN
        BY <2>1 DEF content
    <3> HIDE DEF ServingTypes
    <3>3. /\ attempt' \in 0 .. MaxRetries + 1 /\ stage' \in {"serve", "close", "dispatch"}
          /\ body' \in [lines : Seq(LineKinds), closed : BOOLEAN]
          /\ from' \in 0 .. at' /\ due' \in Seq(Line) /\ taken' = taken
          /\ handover' \in [at : Nat, ending : {None, "over", "broken", "overflow"}]
        BY <2>1, <2>2, <3>1, <3>2, DecideTypes
    <3> QED
        BY <2>1, <2>2, <3>1, <3>3 DEF Stages, ServingTypes
  <2>6. CASE ~Overflows(from, at') /\ ~(content \/ Len(lines) >= MaxPrelude)
    <3>1. /\ prelude' = lines /\ route' = route /\ from' = Keep(from, at')
          /\ UNCHANGED <<stage, attempt, body, reply>>
        BY <1>6, <2>6 DEF PreludeChunk, lines, content
    <3> QED
        BY <2>1, <2>2, <2>3, <3>1
  <2> QED
      BY <2>4, <2>5, <2>6
<1>7. CASE PreludeStops
  <2>1. PICK live \in BOOLEAN : Decide(prelude, FALSE, live)
      BY <1>7 DEF PreludeStops
  <2>2. at' = at /\ prelude' = prelude /\ route' = route
      BY <1>7 DEF PreludeStops
  <2>3. prelude \in Seq(Line) /\ at' \in Nat /\ at <= at'
      BY <2>2
  <2> HIDE DEF ServingTypes
  <2>4. /\ attempt' \in 0 .. MaxRetries + 1 /\ stage' \in {"serve", "close", "dispatch"}
        /\ body' \in [lines : Seq(LineKinds), closed : BOOLEAN]
        /\ from' \in 0 .. at' /\ due' \in Seq(Line) /\ taken' = taken
        /\ handover' \in [at : Nat, ending : {None, "over", "broken", "overflow"}]
      BY <2>1, <2>3, DecideTypes
  <2> QED
      BY <2>2, <2>3, <2>4 DEF Stages, ServingTypes
<1>8. CASE Translate
  <2>1. Head(due) \in Line /\ Tail(due) \in Seq(Line)
      BY <1>8 DEF Translate
  <2>2. <<attempt, Head(due)>> \in Nat \X Line
      BY <2>1
  <2> QED
      BY <1>8, <2>1, <2>2 DEF Translate
<1>9. CASE TailChunk
  <2>1. at' \in Nat /\ at < at' /\ from \in Nat
      BY <1>9, LengthType DEF TailChunk
  <2>2. Decode(from, at') \in Seq(Line)
      BY <2>1, DecodeType
  <2>3. from \in 0 .. at' /\ Keep(from, at') \in 0 .. at'
    <3>1. from \in 0 .. at'
        BY <2>1
    <3> QED
        BY <2>1, <3>1, KeepBound
  <2> QED
      BY <1>9, <2>1, <2>2, <2>3 DEF TailChunk, Stages
<1>10. CASE TailStops
  <2>1. Leftover \in Seq(Line)
    <3>1. from \div 3 + 1 \in Line
        BY DEF Line
    <3> QED
        BY <3>1 DEF Leftover
  <2> QED
      BY <1>10, <2>1 DEF TailStops, Stages
<1>11. CASE Close
    BY <1>11 DEF Close, Stages
<1>12. CASE Vanish
    BY <1>12 DEF Vanish, Stages
<1>13. CASE Terminated \/ UNCHANGED vars
    BY <1>13 DEF Terminated, vars
<1> QED
    BY <1>1, <1>2, <1>3, <1>4, <1>5, <1>6, <1>7, <1>8, <1>9, <1>10, <1>11, <1>12, <1>13 DEF Next

LEMMA ServingStepRecords ==
    ASSUME ServingTypes, RecordedAtTheEnd, [Next]_vars
    PROVE  RecordedAtTheEnd'
<1> USE DEF RecordedAtTheEnd, transfer, reply, Record
<1>1. \A x : Len(Append(<<>>, x)) = 1
    OBVIOUS
<1>2. CASE RejectBody
    BY <1>1, <1>2 DEF RejectBody
<1>3. CASE CannotConvert
    BY <1>3 DEF CannotConvert
<1>4. CASE Prepare
    BY <1>1, <1>4 DEF Prepare
<1>5. CASE DispatchFails
    BY <1>1, <1>5 DEF DispatchFails
<1>6. CASE DispatchAnswers
    BY <1>6 DEF DispatchAnswers
<1>7. CASE PreludeChunk \/ PreludeStops \/ Translate \/ TailChunk \/ TailStops
    BY <1>7 DEF PreludeChunk, PreludeStops, Translate, TailChunk, TailStops
<1>8. CASE Close
    BY <1>1, <1>8 DEF Close
<1>9. CASE Vanish
    BY <1>9 DEF Vanish
<1>10. CASE Terminated \/ UNCHANGED vars
    BY <1>10 DEF Terminated, vars
<1> QED
    BY <1>2, <1>3, <1>4, <1>5, <1>6, <1>7, <1>8, <1>9, <1>10 DEF Next

\* The types, and at most one record and one completed turn.
THEOREM ServingTypeCorrect == Spec => []TypeOK
<1>1. Init => ServingTypes /\ RecordedAtTheEnd
    BY ServingInitTypes
<1>2. ServingTypes /\ RecordedAtTheEnd /\ [Next]_vars => (ServingTypes /\ RecordedAtTheEnd)'
    BY ServingStepTypes, ServingStepRecords
<1>3. ServingTypes /\ RecordedAtTheEnd => TypeOK
  <2>1. \A n \in 0 .. 1 : n <= 1
      OBVIOUS
  <2> QED
      BY <2>1 DEF ServingTypes, RecordedAtTheEnd, TypeOK
<1> QED
    BY <1>1, <1>2, <1>3, PTL DEF Spec

-----------------------------------------------------------------------------
(* The lines *)

\* The units of the lines received whole.
Whole(n) == 3 * (n \div 3)

\* What a decoder has read, and what it holds; which lines were given on.
LinesInduct ==
    /\ stage \in {"new", "dispatch", "prelude"} => taken = <<>>
    /\ \A k \in DOMAIN taken : taken[k][1] = attempt
    /\ stage \in {"prelude", "serve"} => at <= Length
    /\ stage = "prelude" =>
          /\ from = Whole(at)
          /\ Lists(prelude, {i \in DOMAIN body.lines : IsEvent(i) /\ 3 * i <= at})
    /\ stage = "serve" =>
          /\ handover.at <= at
          /\ from = IF Whole(at) > handover.at THEN Whole(at) ELSE handover.at
          /\ Lists(Sent, {i \in DOMAIN body.lines : IsEvent(i) /\ 3 * i <= at /\ ~Cut(i)})
    /\ (stage = "close" \/ Served) /\ ~Endless =>
          Lists(Sent, {i \in DOMAIN body.lines : IsEvent(i) /\ 3 * i - 1 <= at /\ ~Cut(i)})

LEMMA HeadMoves ==
    ASSUME NEW X, NEW s \in Seq(X), NEW t \in Seq(X), t # <<>>
    PROVE  Append(s, Head(t)) \o Tail(t) = s \o t
<1>1. Head(t) \in X /\ Tail(t) \in Seq(X) /\ t = <<Head(t)>> \o Tail(t)
    BY HeadTailProperties, ConcatProperties
<1>2. Append(s, Head(t)) = s \o <<Head(t)>>
    BY <1>1, AppendIsConcat
<1>3. <<Head(t)>> \in Seq(X)
    BY <1>1
<1>4. (s \o <<Head(t)>>) \o Tail(t) = s \o (<<Head(t)>> \o Tail(t))
    BY <1>1, <1>3, ConcatAssociative
<1> QED
    BY <1>1, <1>2, <1>4

\* Nothing is lost between what is due and what was given.
LEMMA TranslateSends ==
    ASSUME ServingTypes, Translate
    PROVE  Sent' = Sent
<1> DEFINE a == [k \in DOMAIN taken |-> taken[k][2]]
           b == [k \in DOMAIN taken' |-> taken'[k][2]]
           x == Head(due)
<1>1. /\ taken \in Seq(Nat \X Line) /\ due \in Seq(Line) /\ due # <<>>
      /\ x \in Line /\ Tail(due) \in Seq(Line)
    BY DEF ServingTypes, Translate
<1>2. due' = Tail(due) /\ taken' = Append(taken, <<attempt, x>>)
    BY DEF Translate
<1>3. b = Append(a, x)
    BY <1>1, <1>2
<1>4. a \in Seq(Line)
    BY <1>1
<1>5. Sent = a \o due /\ Sent' = b \o Tail(due)
    BY <1>2 DEF Sent
<1> HIDE DEF a, b
<1> QED
    BY <1>1, <1>3, <1>4, <1>5, HeadMoves

\* Errors are never status 200, so only Close serves.
LEMMA ErrorsAreErrors ==
    ASSUME NEW error \in PrepareErrors \cup DispatchErrors, NEW mode \in Modes
    PROVE  ErrorStatus(error, mode) # 200
BY DEF PrepareErrors, DispatchErrors, Modes, ErrorStatus

LEMMA OnlyCloseServes ==
    ASSUME ServingTypes, RecordedAtTheEnd, Next, Served'
    PROVE  Close \/ Terminated
<1>1. SUFFICES ASSUME ~Close, ~Terminated PROVE FALSE
    OBVIOUS
<1>2. stage' = "done"
    BY DEF Served
<1>3. stage # "done" /\ records = <<>>
    BY <1>1, <1>2 DEF Next, RejectBody, CannotConvert, Prepare, DispatchFails, DispatchAnswers, PreludeChunk,
       PreludeStops, Translate, TailChunk, TailStops, Vanish, RecordedAtTheEnd
<1>4. ASSUME NEW status, status # 200, Record(status, Nothing) PROVE FALSE
  <2>1. records' = <<Entry(status, Nothing)>>
      BY <1>3, <1>4 DEF Record
  <2>2. \A k \in DOMAIN records' : records'[k].status = status
      BY <2>1 DEF Entry
  <2> QED
      BY <2>2, <1>4 DEF Served
<1>5. RejectBody \/ Prepare \/ DispatchFails
  <2>1. ~CannotConvert
      BY <1>3 DEF CannotConvert, Served
  <2>2. ASSUME Decide(prelude, FALSE, FALSE) \/ (\E live \in BOOLEAN : Decide(prelude, FALSE, live))
               \/ (\E lines, content : Decide(lines, content, TRUE))
        PROVE  FALSE
      BY <1>2, <2>2 DEF Decide, Commit, DispatchAgain
  <2>3. ~PreludeChunk /\ ~PreludeStops
      BY <1>2, <1>3, <2>2 DEF PreludeChunk, PreludeStops
  <2> QED
      BY <1>1, <1>2, <1>3, <2>1, <2>3 DEF Next, DispatchAnswers, Translate, TailChunk, TailStops, Vanish
<1>6. ~RejectBody
  <2>1. \A status \in {400, 413, 415, 422} : status # 200
      OBVIOUS
  <2> QED
      BY <1>4, <2>1 DEF RejectBody
<1>7. ~Prepare
    BY <1>2, <1>4, ErrorsAreErrors DEF Prepare
<1>8. ~DispatchFails
    BY <1>4, ErrorsAreErrors DEF DispatchFails
<1> QED
    BY <1>5, <1>6, <1>7, <1>8

LEMMA WholeBound ==
    ASSUME NEW n \in Nat
    PROVE  /\ Whole(n) \in 0 .. n /\ n < Whole(n) + 3
           /\ \A i \in Nat : 3 * i <= n <=> 3 * i <= Whole(n)
           /\ \A i \in Nat : Whole(n) <= 3 * (i - 1) <=> n < 3 * i
           /\ \A m \in 0 .. n : Whole(m) <= Whole(n)
BY DEF Whole

\* The end of the prelude.
LEMMA DecideLines ==
    ASSUME ServingTypes, ServingTypes', LinesInduct, stage = "prelude", at <= at', at' <= Length,
           NEW lines, NEW content, NEW live, Decide(lines, content, live),
           \/ Lists(lines, {i \in DOMAIN body.lines : IsEvent(i) /\ 3 * i <= at'})
           \/ ~live /\ (body' = body => Endless')
    PROVE  LinesInduct'
<1>1. CASE DispatchAgain
    BY <1>1 DEF DispatchAgain, LinesInduct, Served, reply
<1>2. CASE Commit(lines, live)
  <2>1. /\ taken' = <<>> /\ due' = lines /\ from' = at' /\ handover'.at = at' /\ body' = body
        /\ stage' = IF live THEN "serve" ELSE "close"
      BY <1>2 DEF Commit, LinesInduct
  <2>2. Sent' = lines
    <3>1. [k \in DOMAIN taken' |-> taken'[k][2]] = <<>>
        BY <2>1
    <3>2. due' \in Seq(Line)
        BY DEF ServingTypes
    <3> QED
        BY <2>1, <3>1, <3>2, ConcatEmptySeq DEF Sent
  <2>3. at' \in Nat /\ DOMAIN body.lines \subseteq Nat
      BY DEF ServingTypes
  <2>4. /\ handover'.at <= at'
        /\ from' = IF Whole(at') > handover'.at THEN Whole(at') ELSE handover'.at
    <3>1. ~(Whole(at') > at')
        BY <2>3, WholeBound
    <3> QED
        BY <2>1, <2>3, <3>1
  <2>5. \A i \in Nat : Cut(i)' <=> 3 * (i - 1) < at' /\ at' < 3 * i
      BY <2>1 DEF Cut
  <2>6. \A i : IsEvent(i)' <=> IsEvent(i)
      BY <2>1 DEF IsEvent
  <2>7. {i \in DOMAIN body.lines : IsEvent(i) /\ 3 * i <= at'} =
        {i \in DOMAIN body'.lines : IsEvent(i)' /\ 3 * i <= at' /\ ~Cut(i)'}
      BY <2>1, <2>3, <2>5, <2>6
  <2>8. {i \in DOMAIN body.lines : IsEvent(i) /\ 3 * i <= at'} =
        {i \in DOMAIN body'.lines : IsEvent(i)' /\ 3 * i - 1 <= at' /\ ~Cut(i)'}
      BY <2>1, <2>3, <2>5, <2>6
  <2>9. stage' \notin {"new", "dispatch", "prelude"} /\ ~Served'
      BY <2>1 DEF Served
  <2>10. \A k \in DOMAIN taken' : taken'[k][1] = attempt'
      BY <2>1
  <2>11. CASE live
    <3>1. Lists(Sent', {i \in DOMAIN body'.lines : IsEvent(i)' /\ 3 * i <= at' /\ ~Cut(i)'})
        BY <2>2, <2>7, <2>11
    <3>2. at' <= Length'
        BY <2>1 DEF Length
    <3> QED
        BY <3>1, <3>2, <2>1, <2>4, <2>9, <2>10, <2>11 DEF LinesInduct
  <2>12. CASE ~live
    <3>1. ~Endless' => Lists(Sent', {i \in DOMAIN body'.lines : IsEvent(i)' /\ 3 * i - 1 <= at' /\ ~Cut(i)'})
        BY <2>1, <2>2, <2>8
    <3> QED
        BY <3>1, <2>1, <2>9, <2>10, <2>12 DEF LinesInduct
  <2> QED
      BY <2>11, <2>12
<1> QED
    BY <1>1, <1>2 DEF Decide

LEMMA PreludeLines ==
    ASSUME ServingTypes, ServingTypes', LinesInduct, PreludeChunk
    PROVE  LinesInduct'
<1> DEFINE lines == prelude \o Decode(from, at')
           content == \E k \in DOMAIN lines : ShowsContent(lines[k])
           Got(n) == {i \in DOMAIN body.lines : IsEvent(i) /\ 3 * i <= n}
<1>1. /\ at' \in Nat /\ at < at' /\ from \in Nat /\ at \in Nat /\ DOMAIN body.lines \subseteq Nat
      /\ stage = "prelude"
    BY LengthType DEF PreludeChunk, ServingTypes
<1>2. Lists(lines, Got(at'))
  <2> DEFINE D == {i \in DOMAIN body.lines : from <= 3 * (i - 1) /\ 3 * i <= at' /\ IsEvent(i)}
  <2>1. from = Whole(at) /\ Lists(prelude, Got(at))
      BY <1>1 DEF LinesInduct
  <2>2. Lists(Decode(from, at'), D)
      BY <1>1, DecodeLists
  <2>3. \A i \in Nat : from <= 3 * (i - 1) <=> at < 3 * i
      BY <1>1, <2>1, WholeBound
  <2>4. Got(at) \cup D = Got(at')
      BY <1>1, <2>3
  <2>5. \A a \in Got(at), b \in D : a < b
    <3> SUFFICES ASSUME NEW a \in Got(at), NEW b \in D PROVE a < b
        OBVIOUS
    <3>1. a \in Nat /\ b \in Nat /\ 3 * a <= at /\ at < 3 * b
        BY <1>1, <2>3
    <3> QED
        BY <1>1, <3>1
  <2> HIDE DEF D, Got
  <2> QED
      BY <2>1, <2>2, <2>4, <2>5, ListsMore
<1> HIDE DEF lines, content
<1>3. CASE Overflows(from, at')
  <2>1. Decide(prelude, FALSE, FALSE)
      BY <1>3 DEF PreludeChunk
  <2>2. body' = body => Endless'
    <3>1. PICK k \in from + 1 .. at' : k % 3 = 2 /\ body.lines[k \div 3 + 1] = "endless"
        BY <1>3 DEF Overflows
    <3>2. k \div 3 + 1 \in DOMAIN body.lines /\ 3 * (k \div 3 + 1) - 1 <= at'
      <4>1. k \in Nat /\ k <= at' /\ k = 3 * (k \div 3) + 2
          BY <1>1, <3>1
      <4>2. at' <= Length
          BY <1>1, LengthType DEF PreludeChunk
      <4>3. Length <= 3 * Len(body.lines) /\ Len(body.lines) \in Nat
          BY DEF Length, ServingTypes
      <4>4. k \div 3 + 1 \in 1 .. Len(body.lines)
          BY <4>1, <4>2, <4>3, <1>1, LengthType
      <4> QED
          BY <4>1, <4>4, <1>1 DEF ServingTypes
    <3> QED
        BY <3>1, <3>2 DEF Endless
  <2>3. at <= at' /\ at' <= Length
      BY <1>1, LengthType DEF PreludeChunk
  <2> QED
      BY <1>1, <2>1, <2>2, <2>3, DecideLines
<1>4. CASE ~Overflows(from, at') /\ (content \/ Len(lines) >= MaxPrelude)
  <2>1. Decide(lines, content, TRUE)
      BY <1>4 DEF PreludeChunk, lines, content
  <2>2. at <= at' /\ at' <= Length
      BY <1>1, LengthType DEF PreludeChunk
  <2> QED
      BY <1>1, <1>2, <2>1, <2>2, DecideLines
<1>5. CASE ~Overflows(from, at') /\ ~(content \/ Len(lines) >= MaxPrelude)
  <2>1. prelude' = lines /\ from' = Keep(from, at') /\ UNCHANGED <<stage, attempt, body, reply>>
      BY <1>5 DEF PreludeChunk, lines, content
  <2>2. from' = Whole(at')
    <3>1. from = Whole(at)
        BY <1>1 DEF LinesInduct
    <3>2. at \in 0 .. at'
        BY <1>1
    <3>3. Whole(at) <= Whole(at') /\ Whole(at) \in Nat /\ Whole(at') \in Nat
        BY <1>1, <3>2, WholeBound
    <3>4. Keep(from, at') = IF Whole(at') > Whole(at) THEN Whole(at') ELSE Whole(at)
        BY <3>1 DEF Keep, Whole
    <3> HIDE DEF Whole
    <3> QED
        BY <2>1, <3>3, <3>4
  <2>3. Lists(prelude', {i \in DOMAIN body'.lines : IsEvent(i)' /\ 3 * i <= at'})
      BY <1>2, <2>1 DEF IsEvent
  <2>4. at' <= Length'
    <3>1. at' <= Length
        BY <1>1, LengthType DEF PreludeChunk
    <3>2. Length' = Length
        BY <2>1 DEF Length
    <3> QED
        BY <3>1, <3>2
  <2> QED
      BY <1>1, <2>1, <2>2, <2>3, <2>4 DEF LinesInduct, reply, Served
<1> QED
    BY <1>3, <1>4, <1>5

LEMMA TailLines ==
    ASSUME ServingTypes, ServingTypes', LinesInduct, TailChunk
    PROVE  LinesInduct'
<1> DEFINE h == handover.at
           Got(n) == {i \in DOMAIN body.lines : IsEvent(i) /\ 3 * i <= n /\ ~Cut(i)}
<1>1. /\ at' \in Nat /\ at < at' /\ from \in Nat /\ at \in Nat /\ DOMAIN body.lines \subseteq Nat
      /\ stage = "serve" /\ due = <<>> /\ h \in Nat
    BY LengthType DEF TailChunk, ServingTypes
<1>2. UNCHANGED <<body, taken, attempt>>
    BY DEF TailChunk
<1>3. CASE Overflows(from, at')
  <2>1. stage' = "close"
      BY <1>3 DEF TailChunk
  <2>2. Endless'
    <3>1. PICK k \in from + 1 .. at' : k % 3 = 2 /\ body.lines[k \div 3 + 1] = "endless"
        BY <1>3 DEF Overflows
    <3>2. k \div 3 + 1 \in DOMAIN body.lines /\ 3 * (k \div 3 + 1) - 1 <= at'
      <4>1. k \in Nat /\ k <= at' /\ k = 3 * (k \div 3) + 2
          BY <1>1, <3>1
      <4>2. at' <= Length
          BY <1>1, LengthType DEF TailChunk
      <4>3. Length <= 3 * Len(body.lines) /\ Len(body.lines) \in Nat
          BY DEF Length, ServingTypes
      <4>4. k \div 3 + 1 \in 1 .. Len(body.lines)
          BY <4>1, <4>2, <4>3, <1>1, LengthType
      <4> QED
          BY <4>1, <4>4, <1>1 DEF ServingTypes
    <3> QED
        BY <1>2, <3>1, <3>2 DEF Endless
  <2> QED
      BY <1>2, <2>1, <2>2 DEF LinesInduct
<1>4. CASE ~Overflows(from, at')
  <2> DEFINE D == {i \in DOMAIN body.lines : from <= 3 * (i - 1) /\ 3 * i <= at' /\ IsEvent(i)}
  <2>1. due' = Decode(from, at') /\ from' = Keep(from, at') /\ UNCHANGED <<stage, handover>>
      BY <1>4 DEF TailChunk
  <2>2. /\ h <= at /\ Lists(Sent, Got(at))
        /\ from = IF Whole(at) > h THEN Whole(at) ELSE h
      BY <1>1 DEF LinesInduct
  <2>3. Lists(Decode(from, at'), D)
      BY <1>1, DecodeLists
  <2>4. Sent' = Sent \o Decode(from, at')
    <3> DEFINE a == [k \in DOMAIN taken |-> taken[k][2]]
    <3>1. a \in Seq(Line)
      <4>1. taken \in Seq(Nat \X Line)
          BY DEF ServingTypes
      <4> QED
          BY <4>1
    <3>2. Sent = a
        BY <1>1, <3>1, ConcatEmptySeq DEF Sent
    <3> QED
        BY <1>2, <2>1, <3>2 DEF Sent
  <2>5. Whole(at) \in 0 .. at /\ Whole(at') \in 0 .. at' /\ Whole(at) <= Whole(at')
    <3>1. at \in 0 .. at'
        BY <1>1
    <3> QED
        BY <1>1, <3>1, WholeBound
  <2>6. \A i \in Nat : Whole(at) <= 3 * (i - 1) <=> at < 3 * i
      BY <1>1, WholeBound
  <2>7. \A i \in Nat : Cut(i) <=> 3 * (i - 1) < h /\ h < 3 * i
      BY DEF Cut
  <2>8. \A i \in Nat : from <= 3 * (i - 1) <=> at < 3 * i /\ ~Cut(i)
    <3> SUFFICES ASSUME NEW i \in Nat PROVE from <= 3 * (i - 1) <=> at < 3 * i /\ ~Cut(i)
        OBVIOUS
    <3>1. from <= 3 * (i - 1) <=> Whole(at) <= 3 * (i - 1) /\ h <= 3 * (i - 1)
        BY <1>1, <2>2, <2>5
    <3>2. at < 3 * i => (~Cut(i) <=> h <= 3 * (i - 1))
        BY <1>1, <2>2, <2>7
    <3> QED
        BY <2>6, <3>1, <3>2
  <2>9. Got(at) \cup D = Got(at')
      BY <1>1, <2>8
  <2>10. \A a \in Got(at), b \in D : a < b
    <3> SUFFICES ASSUME NEW a \in Got(at), NEW b \in D PROVE a < b
        OBVIOUS
    <3>1. a \in Nat /\ b \in Nat /\ 3 * a <= at /\ at < 3 * b
        BY <1>1, <2>8
    <3> QED
        BY <1>1, <3>1
  <2>11. Lists(Sent', Got(at'))
    <3> HIDE DEF D, Got
    <3> QED
        BY <2>2, <2>3, <2>4, <2>9, <2>10, ListsMore
  <2>12. Lists(Sent', {i \in DOMAIN body'.lines : IsEvent(i)' /\ 3 * i <= at' /\ ~Cut(i)'})
      BY <1>2, <2>1, <2>11 DEF IsEvent, Cut
  <2>13. from' = IF Whole(at') > handover'.at THEN Whole(at') ELSE handover'.at
    <3>1. Keep(from, at') = IF Whole(at') > from THEN Whole(at') ELSE from
        BY DEF Keep, Whole
    <3> HIDE DEF Whole
    <3> QED
        BY <1>1, <2>1, <2>2, <2>5, <3>1
  <2>14. handover'.at <= at'
      BY <1>1, <2>1, <2>2
  <2>15. at' <= Length'
    <3>1. at' <= Length
        BY <1>1, LengthType DEF TailChunk
    <3>2. Length' = Length
        BY <1>2 DEF Length
    <3> QED
        BY <3>1, <3>2
  <2> QED
      BY <1>1, <1>2, <2>1, <2>12, <2>13, <2>14, <2>15 DEF LinesInduct, Served
<1> QED
    BY <1>3, <1>4

LEMMA StopsLines ==
    ASSUME ServingTypes, ServingTypes', LinesInduct, TailStops
    PROVE  LinesInduct'
<1> DEFINE h == handover.at
           Got == {i \in DOMAIN body.lines : IsEvent(i) /\ 3 * i <= at /\ ~Cut(i)}
           Had == {i \in DOMAIN body.lines : IsEvent(i) /\ 3 * i - 1 <= at /\ ~Cut(i)}
           L == {i \in DOMAIN body.lines : IsEvent(i) /\ 3 * i - 1 = at /\ ~Cut(i)}
<1>1. /\ from \in Nat /\ at \in Nat /\ DOMAIN body.lines = 1 .. Len(body.lines) /\ Len(body.lines) \in Nat
      /\ stage = "serve" /\ due = <<>> /\ h \in Nat
    BY DEF TailStops, ServingTypes
<1>2. UNCHANGED <<body, taken, attempt, at, from>> /\ due' = Leftover /\ stage' = "close" /\ handover'.at = h
    BY DEF TailStops, ServingTypes, transfer
<1>3. /\ h <= at /\ Lists(Sent, Got)
      /\ from = IF Whole(at) > h THEN Whole(at) ELSE h
    BY <1>1 DEF LinesInduct
<1>4. Lists(Leftover, L)
  <2> DEFINE i == from \div 3 + 1
  <2>1. Whole(at) \in 0 .. at /\ at < Whole(at) + 3
      BY <1>1, WholeBound
  <2>2. i \in Nat /\ (at <= 3 * Len(body.lines) /\ 3 * i - 1 = at => i \in 1 .. Len(body.lines))
      BY <1>1
  <2>3. at <= 3 * Len(body.lines)
    <3>1. at <= Length
        BY <1>1 DEF LinesInduct
    <3> QED
        BY <1>1, <3>1 DEF Length
  <2>4. CASE from % 3 = 0 /\ at - from = 2
    <3>1. 3 * i - 1 = at /\ h <= 3 * (i - 1)
      <4>1. from = 3 * (i - 1)
          BY <1>1, <2>4
      <4>2. h <= from
          BY <1>1, <1>3, <2>1
      <4> HIDE DEF i
      <4> QED
          BY <1>1, <2>2, <2>4, <4>1, <4>2
    <3>2. i \in 1 .. Len(body.lines) /\ ~Cut(i)
        BY <1>1, <2>2, <2>3, <3>1 DEF Cut
    <3>3. \A j \in Nat : 3 * j - 1 = at => j = i
        BY <2>2, <3>1
    <3>4. L = IF IsEvent(i) THEN {i} ELSE {}
        BY <1>1, <3>1, <3>2, <3>3
    <3>5. Leftover = IF IsEvent(i) THEN <<i>> ELSE <<>>
        BY <2>4 DEF Leftover
    <3>6. i \in Line
        BY <3>2, <1>1 DEF Line
    <3>7. Lists(<<i>>, {i})
        BY <3>6, ListsOne
    <3> HIDE DEF i, L
    <3> QED
        BY <3>4, <3>5, <3>7, ListsNothing
  <2>5. CASE ~(from % 3 = 0 /\ at - from = 2)
    <3>1. Leftover = <<>>
        BY <2>5 DEF Leftover
    <3>2. ASSUME NEW j \in 1 .. Len(body.lines), 3 * j - 1 = at PROVE Cut(j)
      <4>1. Whole(at) = 3 * (j - 1)
          BY <1>1, <3>2 DEF Whole
      <4>2. ~(Whole(at) >= h)
        <5>1. SUFFICES ASSUME Whole(at) >= h PROVE FALSE
            BY <1>1
        <5>2. from = 3 * (j - 1)
            BY <1>1, <1>3, <4>1, <5>1
        <5> QED
            BY <1>1, <2>5, <3>2, <5>2
      <4> QED
          BY <1>1, <1>3, <3>2, <4>1, <4>2 DEF Cut
    <3>3. L = {}
        BY <1>1, <3>2
    <3> QED
        BY <3>1, <3>3, ListsNothing
  <2> QED
      BY <2>4, <2>5
<1>5. Got \cup L = Had /\ \A a \in Got, b \in L : a < b
  <2>1. \A i \in Nat : 3 * i - 1 <= at <=> 3 * i <= at \/ 3 * i - 1 = at
      BY <1>1
  <2>2. Got \cup L = Had
      BY <1>1, <2>1
  <2>3. \A a, b \in Nat : 3 * a <= at /\ 3 * b - 1 = at => a < b
      BY <1>1
  <2> QED
      BY <1>1, <2>2, <2>3
<1>6. Sent' = Sent \o Leftover
  <2> DEFINE a == [k \in DOMAIN taken |-> taken[k][2]]
  <2>1. a \in Seq(Line)
    <3>1. taken \in Seq(Nat \X Line)
        BY DEF ServingTypes
    <3> QED
        BY <3>1
  <2>2. Sent = a
      BY <1>1, <2>1, ConcatEmptySeq DEF Sent
  <2> QED
      BY <1>2, <2>2 DEF Sent
<1>7. Lists(Sent', Had)
  <2> HIDE DEF Got, L, Had
  <2> QED
      BY <1>3, <1>4, <1>5, <1>6, ListsMore
<1>8. Lists(Sent', {i \in DOMAIN body'.lines : IsEvent(i)' /\ 3 * i - 1 <= at' /\ ~Cut(i)'})
    BY <1>2, <1>7 DEF IsEvent, Cut
<1>9. \A k \in DOMAIN taken' : taken'[k][1] = attempt'
    BY <1>2 DEF LinesInduct
<1> QED
    BY <1>2, <1>8, <1>9 DEF LinesInduct, Served

LEMMA LinesStep ==
    ASSUME ServingTypes, ServingTypes', RecordedAtTheEnd, LinesInduct, [Next]_vars
    PROVE  LinesInduct'
<1>1. CASE RejectBody \/ CannotConvert \/ Prepare \/ DispatchFails \/ Vanish
  <2>1. ~Served'
    <3>1. ~Close /\ ~Terminated
        BY <1>1 DEF RejectBody, CannotConvert, Prepare, DispatchFails, Vanish, Close, Terminated, vars
    <3> QED
        BY <1>1, <3>1, OnlyCloseServes DEF Next
  <2>2. taken' = taken /\ stage' \in {"done", "gone", "dispatch"}
      BY <1>1 DEF RejectBody, CannotConvert, Prepare, DispatchFails, Vanish, reply
  <2>3. attempt' = attempt \/ taken = <<>>
      BY <1>1 DEF RejectBody, CannotConvert, Prepare, DispatchFails, Vanish, LinesInduct
  <2>4. stage' = "dispatch" => taken = <<>>
      BY <1>1 DEF RejectBody, CannotConvert, Prepare, DispatchFails, Vanish, LinesInduct
  <2>5. \A k \in DOMAIN taken' : taken'[k][1] = attempt'
      BY <2>2, <2>3 DEF LinesInduct
  <2> QED
      BY <2>1, <2>2, <2>4, <2>5 DEF LinesInduct
<1>2. CASE DispatchAnswers
  <2>1. /\ stage = "dispatch" /\ stage' = "prelude" /\ at' = 0 /\ from' = 0 /\ prelude' = <<>>
        /\ taken' = taken /\ attempt' = attempt
      BY <1>2 DEF DispatchAnswers, reply
  <2>2. taken = <<>>
      BY <2>1 DEF LinesInduct
  <2>3. 0 <= Length'
    <3>1. PICK lines \in Bodies, closed \in BOOLEAN :
             body' = [lines |-> lines, closed |-> closed \/ lines = <<>>]
        BY <1>2 DEF DispatchAnswers
    <3>2. lines \in Seq(LineKinds)
        BY ServingAssumption
    <3>3. Len(lines) \in Nat /\ (Len(lines) = 0 => lines = <<>>)
        BY <3>2
    <3>4. body'.lines = lines /\ (lines = <<>> => body'.closed)
        BY <3>1
    <3>5. Length' = 3 * Len(lines) - IF body'.closed THEN 0 ELSE 1
        BY <3>4 DEF Length
    <3>6. Len(lines) > 0 \/ body'.closed
        BY <3>3, <3>4
    <3> QED
        BY <3>3, <3>5, <3>6
  <2>4. from' = Whole(at')
      BY <2>1 DEF Whole
  <2>5. Lists(prelude', {i \in DOMAIN body'.lines : IsEvent(i)' /\ 3 * i <= at'})
    <3>1. DOMAIN body'.lines = 1 .. Len(body'.lines) /\ Len(body'.lines) \in Nat
        BY DEF ServingTypes
    <3>2. \A i \in 1 .. Len(body'.lines) : ~(3 * i <= 0)
        BY <3>1
    <3>3. {i \in DOMAIN body'.lines : IsEvent(i)' /\ 3 * i <= at'} = {}
        BY <2>1, <3>1, <3>2
    <3> QED
        BY <2>1, <3>3, ListsNothing
  <2>6. at' <= Length' /\ \A k \in DOMAIN taken' : taken'[k][1] = attempt'
      BY <2>1, <2>2, <2>3
  <2> QED
      BY <2>1, <2>2, <2>4, <2>5, <2>6 DEF LinesInduct, Served
<1>3. CASE PreludeChunk
    BY <1>3, PreludeLines
<1>4. CASE PreludeStops
  <2>1. PICK live \in BOOLEAN : Decide(prelude, FALSE, live)
      BY <1>4 DEF PreludeStops
  <2>2. stage = "prelude" /\ at' = at /\ at <= at'
      BY <1>4 DEF PreludeStops, ServingTypes
  <2>3. /\ at' <= Length
        /\ Lists(prelude, {i \in DOMAIN body.lines : IsEvent(i) /\ 3 * i <= at'})
      BY <2>2 DEF LinesInduct
  <2> QED
      BY <2>1, <2>2, <2>3, DecideLines
<1>5. CASE Translate
  <2>1. UNCHANGED <<stage, attempt, body, at, from, prelude, handover>> /\ stage \in {"serve", "close"}
      BY <1>5 DEF Translate, transfer
  <2>2. Sent' = Sent
      BY <1>5, TranslateSends
  <2>3. \A k \in DOMAIN taken' : taken'[k][1] = attempt'
    <3>1. taken' = Append(taken, <<attempt, Head(due)>>) /\ taken \in Seq(Nat \X Line)
        BY <1>5 DEF Translate, ServingTypes
    <3>2. ASSUME NEW k \in DOMAIN taken' PROVE taken'[k][1] = attempt'
      <4>1. k \in DOMAIN taken \/ taken'[k] = <<attempt, Head(due)>>
          BY <3>1
      <4>2. k \in DOMAIN taken => taken'[k] = taken[k]
          BY <3>1
      <4> QED
          BY <2>1, <4>1, <4>2 DEF LinesInduct
    <3> QED
        BY <3>2
  <2>4. ~Served' /\ ~Served
      BY <2>1 DEF Served
  <2> QED
      BY <2>1, <2>2, <2>3, <2>4 DEF LinesInduct, Length, Cut, IsEvent, Endless
<1>6. CASE TailChunk
    BY <1>6, TailLines
<1>7. CASE TailStops
    BY <1>7, StopsLines
<1>8. CASE Close
  <2>1. /\ UNCHANGED <<attempt, body, at, handover, taken, due>>
        /\ stage = "close" /\ stage' = "done"
      BY <1>8 DEF Close, transfer
  <2> QED
      BY <2>1 DEF LinesInduct, Sent, Cut, IsEvent, Endless
<1>9. CASE Terminated \/ UNCHANGED vars
  <2>1. UNCHANGED vars
      BY <1>9 DEF Terminated
  <2>2. UNCHANGED <<stage, attempt, body, at, from, prelude, due, taken, handover, records>>
      BY <2>1 DEF vars, transfer, reply
  <2>3. Sent' = Sent /\ Endless' = Endless /\ Length' = Length /\ Served' = Served
      BY <2>2 DEF Sent, Endless, Length, Served
  <2>4. \A i : IsEvent(i)' = IsEvent(i) /\ Cut(i)' = Cut(i)
      BY <2>2 DEF IsEvent, Cut
  <2> QED
      BY <2>2, <2>3, <2>4 DEF LinesInduct
<1> QED
    BY <1>1, <1>2, <1>3, <1>4, <1>5, <1>6, <1>7, <1>8, <1>9 DEF Next

\* Every line received whole reaches the client's reply once and in order,
\* however the body is cut, but for the line cut at the end of the prelude.
THEOREM LinesReachTheReply == Spec => []WholeLinesInOrder
<1> DEFINE Inv == ServingTypes /\ RecordedAtTheEnd /\ LinesInduct
<1>1. Init => Inv
  <2>1. Init => taken = <<>> /\ stage = "new"
      BY DEF Init
  <2> QED
      BY <2>1, ServingInitTypes DEF LinesInduct, Served
<1>2. Inv /\ [Next]_vars => Inv'
    BY ServingStepTypes, ServingStepRecords, LinesStep
<1>3. Inv => WholeLinesInOrder
  <2> SUFFICES ASSUME Inv, Served \/ stage \in {"serve", "close"}, ~Endless PROVE WholeLinesInOrder
      BY DEF WholeLinesInOrder
  <2>1. /\ DOMAIN body.lines \subseteq Nat /\ at \in Int
        /\ stage = "serve" => ReceivedLines = {i \in DOMAIN body.lines : IsEvent(i) /\ 3 * i <= at}
        /\ stage # "serve" => ReceivedLines = {i \in DOMAIN body.lines : IsEvent(i) /\ 3 * i - 1 <= at}
      BY DEF ReceivedLines, ServingTypes
  <2>2. Lists(Sent, {i \in ReceivedLines : ~Cut(i)})
    <3>1. CASE stage = "serve"
      <4>1. {i \in ReceivedLines : ~Cut(i)} =
               {i \in DOMAIN body.lines : IsEvent(i) /\ 3 * i <= at /\ ~Cut(i)}
          BY <2>1, <3>1
      <4> QED
          BY <3>1, <4>1 DEF LinesInduct
    <3>2. CASE stage # "serve"
      <4>1. {i \in ReceivedLines : ~Cut(i)} =
               {i \in DOMAIN body.lines : IsEvent(i) /\ 3 * i - 1 <= at /\ ~Cut(i)}
          BY <2>1, <3>2
      <4> QED
          BY <3>2, <4>1 DEF LinesInduct
    <3> QED
        BY <3>1, <3>2
  <2>3. DOMAIN Sent = 1 .. Len(Sent)
      BY <2>2 DEF Lists
  <2>4. {Sent[k] : k \in DOMAIN Sent} = {i \in ReceivedLines : ~Cut(i)}
      BY <2>2, <2>3 DEF Lists
  <2> QED
      BY <2>2, <2>3, <2>4 DEF Lists, WholeLinesInOrder, LinesInduct
<1> QED
    BY <1>1, <1>2, <1>3, PTL DEF Spec

-----------------------------------------------------------------------------
(* Events *)

Spots == Nat \X Nat \X Nat
Pieces == PartsAt(Spots)
Reasons == {None, "STOP", "MAX_TOKENS"}

Events == [parts : Seq(Pieces), finish : Reasons, usage : Usages]
Accumulators == [parts : Seq(Pieces), usage : Usages, finish : Reasons]

\* A line that every consumer hears.
Heard(i) == i \in DOMAIN body.lines /\ IsEvent(i) /\ body.lines[i] # "odd"

LEMMA EventType ==
    ASSUME ServingTypes, NEW i, Heard(i)
    PROVE  Event(i) \in Events
<1> DEFINE kind == body.lines[i]
           Part(j, text, thought, call, sig) ==
              [text |-> text, thought |-> thought, call |-> call, sig |-> sig, at |-> <<attempt, i, j>>]
<1>1. i \in Nat /\ attempt \in Nat
    BY DEF ServingTypes, Heard
<1>2. kind \in {"text", "blank", "thinking", "signed", "tool", "pair", "unnamed", "last", "cutoff"}
    BY DEF ServingTypes, Heard, IsEvent, LineKinds
<1>3. ASSUME NEW j \in {1, 2}, NEW text \in {None, "empty", "blank", "words"}, NEW thought \in BOOLEAN,
             NEW call \in {None, "named", "blank", "unnamed"}, NEW sig \in BOOLEAN
      PROVE  Part(j, text, thought, call, sig) \in Pieces
  <2>1. <<attempt, i, j>> \in Spots
      BY <1>1 DEF Spots
  <2> QED
      BY <2>1 DEF Pieces, PartsAt
<1> HIDE DEF kind, Part
<1>4. ASSUME NEW p \in Pieces, NEW q \in Pieces
      PROVE  <<p>> \in Seq(Pieces) /\ <<p, q>> \in Seq(Pieces) /\ <<>> \in Seq(Pieces)
    OBVIOUS
<1>5. /\ kind = "text" => Parts(i) = <<Part(1, "words", FALSE, None, FALSE)>>
      /\ kind = "blank" => Parts(i) = <<Part(1, "blank", FALSE, None, FALSE)>>
      /\ kind = "thinking" => Parts(i) = <<Part(1, "words", TRUE, None, FALSE)>>
      /\ kind = "signed" => Parts(i) = <<Part(1, "empty", TRUE, None, TRUE)>>
      /\ kind = "tool" => Parts(i) = <<Part(1, None, FALSE, "named", TRUE)>>
      /\ kind = "pair" => Parts(i) = <<Part(1, "words", FALSE, None, TRUE),
                                       Part(2, None, FALSE, "blank", FALSE)>>
      /\ kind = "unnamed" => Parts(i) = <<Part(1, None, FALSE, "unnamed", TRUE)>>
      /\ kind = "last" => Parts(i) = <<Part(1, "empty", FALSE, None, TRUE)>>
      /\ kind = "cutoff" => Parts(i) = <<>>
    BY DEF kind, Part, Parts
<1>6. Parts(i) \in Seq(Pieces)
  <2>1. /\ "words" \in {None, "empty", "blank", "words"} /\ "blank" \in {None, "empty", "blank", "words"}
        /\ "empty" \in {None, "empty", "blank", "words"} /\ None \in {None, "empty", "blank", "words"}
        /\ "named" \in {None, "named", "blank", "unnamed"} /\ "unnamed" \in {None, "named", "blank", "unnamed"}
        /\ "blank" \in {None, "named", "blank", "unnamed"} /\ None \in {None, "named", "blank", "unnamed"}
      OBVIOUS
  <2>2. CASE kind = "cutoff"
    <3>1. <<>> \in Seq(Pieces)
        OBVIOUS
    <3> QED
        BY <1>5, <2>2, <3>1
  <2>3. CASE kind = "pair"
    <3>1. Part(1, "words", FALSE, None, TRUE) \in Pieces /\ Part(2, None, FALSE, "blank", FALSE) \in Pieces
        BY <1>3, <2>1
    <3> QED
        BY <1>4, <1>5, <2>3, <3>1
  <2>4. CASE kind \notin {"cutoff", "pair"}
    <3>1. \E text \in {None, "empty", "blank", "words"}, thought \in BOOLEAN,
             call \in {None, "named", "blank", "unnamed"}, sig \in BOOLEAN :
             Parts(i) = <<Part(1, text, thought, call, sig)>>
        BY <1>2, <1>5, <2>1, <2>4
    <3> QED
        BY <1>3, <1>4, <3>1
  <2> QED
      BY <2>2, <2>3, <2>4
<1>7. Event(i).finish \in Reasons
    BY DEF Event, Reasons
<1>8. Event(i).usage \in Usages
    BY <1>1 DEF Event, Usages
<1>9. Event(i) = [parts |-> Parts(i), finish |-> Event(i).finish, usage |-> Event(i).usage]
    BY DEF Event
<1> QED
    BY <1>6, <1>7, <1>8, <1>9 DEF Events

LEMMA AbsorbType ==
    ASSUME NEW acc \in Accumulators, NEW e \in Events
    PROVE  Absorb(acc, e) \in Accumulators
BY DEF Accumulators, Events, Absorb, Newest

LEMMA NewAccumulatorType == NewAccumulator \in Accumulators
<1>1. <<>> \in Seq(Pieces)
    OBVIOUS
<1> QED
    BY <1>1 DEF NewAccumulator, Accumulators, Usages, Reasons

-----------------------------------------------------------------------------
(* Picking from a sequence that grows *)

LEMMA Singletons ==
    ASSUME NEW X, NEW s \in Seq(X)
    PROVE  [k \in DOMAIN s |-> <<s[k]>>] \in Seq(Seq(X))
<1> DEFINE a == [k \in DOMAIN s |-> <<s[k]>>]
           Y == Seq(X)
<1>1. \A k \in 1 .. Len(s) : <<s[k]>> \in Y
    OBVIOUS
<1>2. a = [k \in 1 .. Len(s) |-> <<s[k]>>] /\ Len(s) \in Nat
    OBVIOUS
<1> HIDE DEF Y
<1>3. a \in Seq(Y)
    BY <1>1, <1>2
<1> QED
    BY <1>3 DEF Y

LEMMA PickedType ==
    ASSUME NEW X, NEW s \in Seq(X), NEW S
    PROVE  Picked(s, S) \in Seq(X)
BY Singletons, JoinedIsSeq DEF Picked

LEMMA PickedAppend ==
    ASSUME NEW X, NEW s \in Seq(X), NEW S, NEW x \in X, NEW T,
           \A k \in 1 .. Len(s) : k \in T <=> k \in S
    PROVE  Picked(Append(s, x), T) =
              IF Len(s) + 1 \in T THEN Append(Picked(s, S), x) ELSE Picked(s, S)
<1> DEFINE a == [k \in DOMAIN s |-> <<s[k]>>]
           b == [k \in DOMAIN Append(s, x) |-> <<Append(s, x)[k]>>]
<1>1. a \in Seq(Seq(X)) /\ Len(a) = Len(s)
  <2>1. Len(a) = Len(s)
      OBVIOUS
  <2> QED
      BY <2>1, Singletons
<1>2. b = Append(a, <<x>>)
    OBVIOUS
<1>3. Picked(s, S) = Joined(a, S) /\ Picked(Append(s, x), T) = Joined(b, T)
    BY DEF Picked
<1>4. Picked(s, S) \in Seq(X)
    BY PickedType
<1> HIDE DEF a, b
<1>5. Joined(b, T) = IF Len(s) + 1 \in T THEN Joined(a, S) \o <<x>> ELSE Joined(a, S)
    BY <1>1, <1>2, JoinedAppend
<1>6. Append(Picked(s, S), x) = Picked(s, S) \o <<x>>
    BY <1>4, AppendIsConcat
<1> QED
    BY <1>3, <1>5, <1>6

LEMMA OfKindType ==
    ASSUME NEW parts \in Seq(Pieces), NEW kind
    PROVE  OfKind(parts, kind) \in Seq(Pieces)
BY PickedType DEF OfKind

LEMMA OfKindAppend ==
    ASSUME NEW parts \in Seq(Pieces), NEW p \in Pieces, NEW kind
    PROVE  OfKind(Append(parts, p), kind) =
              IF Classify(p) = kind THEN Append(OfKind(parts, kind), p) ELSE OfKind(parts, kind)
<1> DEFINE more == Append(parts, p)
           S == {i \in DOMAIN parts : Classify(parts[i]) = kind}
           T == {i \in DOMAIN more : Classify(more[i]) = kind}
<1>1. /\ Len(parts) \in Nat /\ DOMAIN more = 1 .. Len(parts) + 1 /\ DOMAIN parts = 1 .. Len(parts)
      /\ more[Len(parts) + 1] = p /\ \A k \in 1 .. Len(parts) : more[k] = parts[k]
    OBVIOUS
<1>2. \A k \in 1 .. Len(parts) : k \in T <=> k \in S
    BY <1>1
<1>3. Len(parts) + 1 \in T <=> Classify(p) = kind
    BY <1>1
<1> HIDE DEF S, T, more
<1>4. Picked(Append(parts, p), T) =
         IF Len(parts) + 1 \in T THEN Append(Picked(parts, S), p) ELSE Picked(parts, S)
    BY <1>2, PickedAppend
<1> QED
    BY <1>3, <1>4 DEF OfKind, S, T, more

\* The signatures that a sequence of parts leaves.
Kept(parts) ==
    LET kept == Picked(parts, {i \in DOMAIN parts : parts[i].sig})
    IN [i \in DOMAIN kept |-> SignatureOf(kept[i])]

LEMMA KeptAppend ==
    ASSUME NEW parts \in Seq(Pieces), NEW p \in Pieces
    PROVE  Kept(Append(parts, p)) = Kept(parts) \o CaptureSignature(p)
<1> DEFINE more == Append(parts, p)
           S == {i \in DOMAIN parts : parts[i].sig}
           T == {i \in DOMAIN more : more[i].sig}
           a == Picked(parts, S)
           b == Picked(more, T)
<1>1. /\ Len(parts) \in Nat /\ DOMAIN more = 1 .. Len(parts) + 1 /\ DOMAIN parts = 1 .. Len(parts)
      /\ more[Len(parts) + 1] = p /\ \A k \in 1 .. Len(parts) : more[k] = parts[k]
    OBVIOUS
<1>2. \A k \in 1 .. Len(parts) : k \in T <=> k \in S
    BY <1>1
<1>3. Len(parts) + 1 \in T <=> p.sig
    BY <1>1
<1>4. a \in Seq(Pieces)
    BY PickedType
<1>5. b = IF p.sig THEN Append(a, p) ELSE a
  <2> HIDE DEF S, T
  <2> QED
      BY <1>2, <1>3, PickedAppend
<1>6. Kept(parts) = [i \in DOMAIN a |-> SignatureOf(a[i])] /\ Kept(more) = [i \in DOMAIN b |-> SignatureOf(b[i])]
    BY DEF Kept
<1> HIDE DEF a, b, more
<1>7. Kept(parts) \in Seq({SignatureOf(q) : q \in Pieces})
    BY <1>4, <1>6
<1>8. CASE p.sig
  <2>1. Kept(more) = Append(Kept(parts), SignatureOf(p))
      BY <1>4, <1>5, <1>6, <1>8
  <2> QED
      BY <2>1, <1>7, <1>8, AppendIsConcat DEF CaptureSignature, more
<1>9. CASE ~p.sig
    BY <1>5, <1>6, <1>7, <1>9, ConcatEmptySeq DEF CaptureSignature, more
<1> QED
    BY <1>8, <1>9

LEMMA PlacesAppend ==
    ASSUME NEW parts \in Seq(Pieces), NEW p \in Pieces
    PROVE  Places(Append(parts, p)) = Append(Places(parts), p.at)
BY DEF Places

-----------------------------------------------------------------------------
(* StreamTranslator *)

Ids == {"upstream", "generated"} \X Spots
Whatever == Spots \cup (Nat \X Ids) \cup {"tool_calls", "length", "content_filter", "stop"} \cup Usages
ChunkKinds == {"thinking", "text", "tool", "finish", "usage"}
Chunks == [kind : ChunkKinds, what : Whatever, role : BOOLEAN]
Marks == {SignatureOf(p) : p \in Pieces}

Translators ==
    [includeUsage : BOOLEAN, role : BOOLEAN, finished : BOOLEAN, finish : Reasons, usage : Usages,
     calls : Nat, out : Seq(Chunks), signed : Seq(Marks)]

\* The calls of a reply as a stream announces them.
Numbered(tools) == [k \in DOMAIN tools |-> <<k - 1, ToolCallId(tools[k])>>]

\* What a translator has said of the parts it was given.
ChatSays(t, parts) ==
    /\ t \in Translators /\ ~t.finished
    /\ Whats(t.out, "thinking") = Places(OfKind(parts, "thinking"))
    /\ Whats(t.out, "text") = Places(OfKind(parts, "text"))
    /\ Whats(t.out, "tool") = Numbered(OfKind(parts, "tool"))
    /\ Whats(t.out, "finish") = <<>> /\ Whats(t.out, "usage") = <<>>
    /\ t.calls = Len(OfKind(parts, "tool"))
    /\ t.signed = Kept(parts)
    /\ t.role <=> t.out # <<>>
    /\ \A k \in DOMAIN t.out : t.out[k].role <=> k = 1

LEMMA WhatsAppend ==
    ASSUME NEW out \in Seq(Chunks), NEW c \in Chunks, NEW kind
    PROVE  Whats(Append(out, c), kind) =
              IF c.kind = kind THEN Append(Whats(out, kind), c.what) ELSE Whats(out, kind)
<1> DEFINE more == Append(out, c)
           a == [k \in DOMAIN out |-> <<out[k].what>>]
           b == [k \in DOMAIN more |-> <<more[k].what>>]
           S == {k \in DOMAIN out : out[k].kind = kind}
           T == {k \in DOMAIN more : more[k].kind = kind}
           w == [k \in DOMAIN out |-> out[k].what]
<1>1. /\ Len(out) \in Nat /\ DOMAIN more = 1 .. Len(out) + 1 /\ DOMAIN out = 1 .. Len(out)
      /\ more[Len(out) + 1] = c /\ \A k \in 1 .. Len(out) : more[k] = out[k]
    OBVIOUS
<1>2. \A k \in 1 .. Len(out) : k \in T <=> k \in S
    BY <1>1
<1>3. Len(out) + 1 \in T <=> c.kind = kind
    BY <1>1
<1>4. w \in Seq(Whatever) /\ Len(w) = Len(out) /\ DOMAIN w = DOMAIN out
  <2>1. \A k \in 1 .. Len(out) : out[k].what \in Whatever
    <3>1. \A x \in Chunks : x.what \in Whatever
        BY DEF Chunks
    <3>2. \A k \in 1 .. Len(out) : out[k] \in Chunks
        OBVIOUS
    <3> QED
        BY <3>1, <3>2
  <2> QED
      BY <2>1
<1>5. a = [k \in DOMAIN w |-> <<w[k]>>]
    BY <1>4
<1>6. a \in Seq(Seq(Whatever)) /\ Len(a) = Len(out)
  <2>1. Len(a) = Len(out)
      OBVIOUS
  <2> HIDE DEF a, w
  <2> QED
      BY <2>1, <1>4, <1>5, Singletons
<1>7. b = Append(a, <<c.what>>)
    BY <1>1
<1>8. Whats(out, kind) = Joined(a, S) /\ Whats(more, kind) = Joined(b, T)
    BY DEF Whats
<1> HIDE DEF a, b, S, T, more
<1>9. Whats(out, kind) \in Seq(Whatever)
    BY <1>6, <1>8, JoinedIsSeq
<1>10. Joined(b, T) = IF Len(out) + 1 \in T THEN Joined(a, S) \o <<c.what>> ELSE Joined(a, S)
    BY <1>2, <1>6, <1>7, JoinedAppend
<1>11. c.what \in Whatever
    BY DEF Chunks
<1>12. Append(Whats(out, kind), c.what) = Whats(out, kind) \o <<c.what>>
    BY <1>9, <1>11, AppendIsConcat
<1> QED
    BY <1>3, <1>8, <1>10, <1>12 DEF more

LEMMA ChunkAdds ==
    ASSUME NEW t \in Translators, NEW kind \in ChunkKinds, NEW what \in Whatever
    PROVE  LET u == Chunk(t, kind, what)
               c == [kind |-> kind, what |-> what, role |-> ~t.role]
           IN /\ u \in Translators /\ c \in Chunks
              /\ u.out = Append(t.out, c) /\ u.role = TRUE
              /\ u.includeUsage = t.includeUsage /\ u.finished = t.finished
              /\ u.finish = t.finish /\ u.usage = t.usage /\ u.calls = t.calls /\ u.signed = t.signed
<1> DEFINE c == [kind |-> kind, what |-> what, role |-> ~t.role]
           more == Append(t.out, c)
<1>1. c \in Chunks
    BY DEF Chunks, Translators
<1>2. Chunk(t, kind, what) = [t EXCEPT !.role = TRUE, !.out = more]
    BY DEF Chunk
<1> HIDE DEF c
<1>3. more \in Seq(Chunks)
    BY <1>1 DEF Translators
<1> HIDE DEF more
<1>4. /\ Chunk(t, kind, what) \in Translators
      /\ Chunk(t, kind, what).out = more
    BY <1>2, <1>3 DEF Translators
<1>5. /\ Chunk(t, kind, what).role = TRUE
      /\ Chunk(t, kind, what).includeUsage = t.includeUsage /\ Chunk(t, kind, what).finished = t.finished
      /\ Chunk(t, kind, what).finish = t.finish /\ Chunk(t, kind, what).usage = t.usage
      /\ Chunk(t, kind, what).calls = t.calls /\ Chunk(t, kind, what).signed = t.signed
    BY <1>2 DEF Translators
<1> QED
    BY <1>1, <1>4, <1>5 DEF more, c

LEMMA PieceTypes ==
    ASSUME NEW p \in Pieces
    PROVE  /\ Classify(p) \in {"tool", "thinking", "text", "signature", "empty"}
           /\ p.at \in Spots /\ ToolCallId(p) \in Ids
           /\ CaptureSignature(p) \in Seq(Marks)
<1>1. p.text \in {None, "empty", "blank", "words"} /\ p.call \in {None, "named", "blank", "unnamed"}
      /\ p.at \in Spots /\ p.sig \in BOOLEAN /\ p.thought \in BOOLEAN
    BY DEF Pieces, PartsAt
<1>2. Classify(p) \in {"tool", "thinking", "text", "signature", "empty"}
    BY <1>1 DEF Classify
<1>3. ToolCallId(p) \in Ids
    BY <1>1 DEF ToolCallId, Ids
<1>4. CaptureSignature(p) \in Seq(Marks)
  <2>1. SignatureOf(p) \in Marks
      BY Zenon DEF Marks
  <2> QED
      BY <2>1 DEF CaptureSignature
<1> QED
    BY <1>1, <1>2, <1>3, <1>4

\* A chunk is said, and the first one bears the role.
LEMMA ChunkSays ==
    ASSUME NEW t \in Translators, t.role <=> t.out # <<>>, \A k \in DOMAIN t.out : t.out[k].role <=> k = 1,
           NEW kind \in ChunkKinds, NEW what \in Whatever
    PROVE  LET u == Chunk(t, kind, what)
           IN /\ u.role /\ u.out # <<>> /\ \A k \in DOMAIN u.out : u.out[k].role <=> k = 1
              /\ \A other : Whats(u.out, other) =
                    IF kind = other THEN Append(Whats(t.out, other), what) ELSE Whats(t.out, other)
<1> DEFINE u == Chunk(t, kind, what)
           c == [kind |-> kind, what |-> what, role |-> ~t.role]
<1>1. c \in Chunks /\ u.out = Append(t.out, c) /\ u.role = TRUE
    BY ChunkAdds
<1>2. t.out \in Seq(Chunks)
    BY DEF Translators
<1>3. c.kind = kind /\ c.what = what /\ (c.role <=> t.out = <<>>)
    OBVIOUS
<1> HIDE DEF u, c
<1>4. ASSUME NEW other
      PROVE  Whats(u.out, other) =
                IF kind = other THEN Append(Whats(t.out, other), what) ELSE Whats(t.out, other)
  <2>1. Whats(Append(t.out, c), other) =
           IF c.kind = other THEN Append(Whats(t.out, other), c.what) ELSE Whats(t.out, other)
      BY <1>1, <1>2, WhatsAppend
  <2> QED
      BY <1>1, <1>3, <2>1
<1>5. /\ DOMAIN u.out = 1 .. Len(t.out) + 1 /\ Len(t.out) \in Nat /\ DOMAIN t.out = 1 .. Len(t.out)
      /\ u.out[Len(t.out) + 1] = c /\ \A k \in 1 .. Len(t.out) : u.out[k] = t.out[k]
    BY <1>1, <1>2
<1>6. t.out = <<>> <=> Len(t.out) = 0
    BY <1>2
<1>7. c.role <=> Len(t.out) + 1 = 1
    BY <1>3, <1>5, <1>6
<1>8. ASSUME NEW k \in DOMAIN u.out PROVE u.out[k].role <=> k = 1
  <2>1. CASE k = Len(t.out) + 1
      BY <2>1, <1>5, <1>7
  <2>2. CASE k \in 1 .. Len(t.out)
      BY <2>2, <1>5
  <2> QED
      BY <2>1, <2>2, <1>5
<1>9. u.out # <<>>
  <2>1. 1 \in DOMAIN u.out
      BY <1>5
  <2> QED
      BY <2>1
<1> QED
    BY <1>1, <1>4, <1>8, <1>9 DEF u

LEMMA NumberedAppend ==
    ASSUME NEW tools \in Seq(Pieces), NEW p \in Pieces
    PROVE  Numbered(Append(tools, p)) = Append(Numbered(tools), <<Len(tools), ToolCallId(p)>>)
<1> DEFINE Id(q) == ToolCallId(q)
           a == [k \in DOMAIN tools |-> <<k - 1, Id(tools[k])>>]
           b == [k \in DOMAIN Append(tools, p) |-> <<k - 1, Id(Append(tools, p)[k])>>]
<1> HIDE DEF Id
<1>1. b = Append(a, <<Len(tools), Id(p)>>)
  <2> DEFINE n == Len(tools)
  <2>1. n \in Nat /\ DOMAIN tools = 1 .. n /\ DOMAIN Append(tools, p) = 1 .. n + 1
      OBVIOUS
  <2>2. Append(tools, p)[n + 1] = p /\ \A k \in 1 .. n : Append(tools, p)[k] = tools[k]
      OBVIOUS
  <2> HIDE DEF n
  <2>3. a \in Seq({<<k - 1, Id(tools[k])>> : k \in 1 .. n}) /\ Len(a) = n
      BY <2>1
  <2>4. /\ DOMAIN Append(a, <<n, Id(p)>>) = 1 .. n + 1
        /\ Append(a, <<n, Id(p)>>)[n + 1] = <<n, Id(p)>>
        /\ \A k \in 1 .. n : Append(a, <<n, Id(p)>>)[k] = a[k]
        /\ Append(a, <<n, Id(p)>>) = [k \in 1 .. n + 1 |-> Append(a, <<n, Id(p)>>)[k]]
      BY <2>1, <2>3
  <2>5. ASSUME NEW k \in 1 .. n + 1 PROVE b[k] = Append(a, <<n, Id(p)>>)[k]
    <3>1. CASE k = n + 1
        BY <3>1, <2>1, <2>2, <2>4
    <3>2. CASE k \in 1 .. n
        BY <3>2, <2>1, <2>2, <2>4
    <3> QED
        BY <2>1, <3>1, <3>2
  <2>6. b = [k \in 1 .. n + 1 |-> b[k]]
      BY <2>1
  <2> HIDE DEF a, b
  <2> QED
      BY <2>4, <2>5, <2>6 DEF n
<1>2. Numbered(tools) = a /\ Numbered(Append(tools, p)) = b /\ Id(p) = ToolCallId(p)
    BY DEF Numbered, Id
<1> HIDE DEF a, b
<1> QED
    BY <1>1, <1>2

\* A part is said, its signature kept, and nothing else changes.
LEMMA OnPartSays ==
    ASSUME NEW t, NEW parts \in Seq(Pieces), ChatSays(t, parts), NEW p \in Pieces
    PROVE  /\ ChatSays(OnPart(t, p), Append(parts, p))
           /\ OnPart(t, p).usage = t.usage /\ OnPart(t, p).finish = t.finish
           /\ OnPart(t, p).includeUsage = t.includeUsage
<1> DEFINE more == Append(parts, p)
           signed == t.signed \o CaptureSignature(p)
           u == [t EXCEPT !.signed = signed]
           v == OnPart(t, p)
           k == Classify(p)
<1>1. /\ k \in {"tool", "thinking", "text", "signature", "empty"}
      /\ p.at \in Spots /\ ToolCallId(p) \in Ids /\ CaptureSignature(p) \in Seq(Marks)
    BY PieceTypes
<1>2. t \in Translators /\ ~t.finished /\ (t.role <=> t.out # <<>>)
      /\ \A j \in DOMAIN t.out : t.out[j].role <=> j = 1
    BY DEF ChatSays
<1>3. signed = Kept(more)
    BY KeptAppend DEF ChatSays
<1>4. ASSUME NEW kind PROVE OfKind(more, kind) = IF k = kind THEN Append(OfKind(parts, kind), p) ELSE OfKind(parts, kind)
    BY OfKindAppend
<1>5. ASSUME NEW kind PROVE OfKind(parts, kind) \in Seq(Pieces)
    BY OfKindType
<1>6. v = CASE k \in {"thinking", "text"} -> Chunk(u, k, p.at)
            [] k = "tool" -> Chunk([u EXCEPT !.calls = @ + 1], "tool", <<u.calls, ToolCallId(p)>>)
            [] k \in {"signature", "empty"} -> u
    BY DEF OnPart
<1>7. signed \in Seq(Marks)
    BY <1>1, <1>2 DEF Translators
<1> HIDE DEF signed, more, v, k
<1>8. /\ u \in Translators /\ u.signed = signed /\ u.out = t.out /\ u.role = t.role /\ u.calls = t.calls
      /\ u.usage = t.usage /\ u.finish = t.finish /\ u.includeUsage = t.includeUsage
      /\ u.finished = t.finished
    BY <1>2, <1>7 DEF Translators
<1> HIDE DEF u
<1>9. CASE k \in {"thinking", "text"}
  <2>1. v = Chunk(u, k, p.at)
      BY <1>6, <1>9
  <2>2. k \in ChunkKinds /\ p.at \in Whatever
      BY <1>1, <1>9 DEF ChunkKinds, Whatever
  <2>3. /\ v \in Translators /\ v.finished = u.finished /\ v.finish = u.finish /\ v.usage = u.usage
        /\ v.calls = u.calls /\ v.signed = u.signed /\ v.includeUsage = u.includeUsage
      BY <1>8, <2>1, <2>2, ChunkAdds
  <2>4. /\ v.role /\ v.out # <<>> /\ \A j \in DOMAIN v.out : v.out[j].role <=> j = 1
        /\ \A other : Whats(v.out, other) =
              IF k = other THEN Append(Whats(t.out, other), p.at) ELSE Whats(t.out, other)
    <3> DEFINE what == p.at
    <3>1. (u.role <=> u.out # <<>>) /\ \A j \in DOMAIN u.out : u.out[j].role <=> j = 1
        BY <1>2, <1>8
    <3>3. u \in Translators /\ what \in Whatever
        BY <1>8, <2>2
    <3>4. k \in ChunkKinds
        BY <2>2
    <3> HIDE DEF what
    <3>2. /\ Chunk(u, k, what).role /\ Chunk(u, k, what).out # <<>>
          /\ \A j \in DOMAIN Chunk(u, k, what).out : Chunk(u, k, what).out[j].role <=> j = 1
          /\ \A other : Whats(Chunk(u, k, what).out, other) =
                IF k = other THEN Append(Whats(u.out, other), what) ELSE Whats(u.out, other)
        BY <3>1, <3>3, <3>4, ChunkSays
    <3> QED
        BY <1>8, <2>1, <3>2 DEF what
  <2>5. ASSUME NEW kind \in {"thinking", "text"} PROVE Whats(v.out, kind) = Places(OfKind(more, kind))
    <3>1. Whats(t.out, kind) = Places(OfKind(parts, kind))
        BY DEF ChatSays
    <3>2. Places(Append(OfKind(parts, kind), p)) = Append(Places(OfKind(parts, kind)), p.at)
        BY <1>5, PlacesAppend
    <3> QED
        BY <1>4, <2>4, <3>1, <3>2
  <2>6. OfKind(more, "tool") = OfKind(parts, "tool")
      BY <1>4, <1>9
  <2>7. Whats(v.out, "tool") = Numbered(OfKind(more, "tool"))
      BY <1>9, <2>4, <2>6 DEF ChatSays
  <2>8. Whats(v.out, "finish") = <<>> /\ Whats(v.out, "usage") = <<>>
      BY <1>9, <2>4 DEF ChatSays
  <2>9. v.calls = Len(OfKind(more, "tool")) /\ v.signed = Kept(more)
      BY <1>3, <1>8, <2>3, <2>6 DEF ChatSays
  <2> QED
      BY <1>2, <1>8, <2>3, <2>4, <2>5, <2>7, <2>8, <2>9 DEF ChatSays, v, more
<1>10. CASE k = "tool"
  <2> DEFINE w == [u EXCEPT !.calls = @ + 1]
             what == <<u.calls, ToolCallId(p)>>
  <2>1. v = Chunk(w, "tool", what)
      BY <1>6, <1>10
  <2>2. /\ w \in Translators /\ w.signed = u.signed /\ w.out = u.out /\ w.role = u.role /\ w.calls = u.calls + 1
        /\ w.usage = u.usage /\ w.finish = u.finish /\ w.includeUsage = u.includeUsage
        /\ w.finished = u.finished
      BY <1>8 DEF Translators
  <2>3. "tool" \in ChunkKinds /\ what \in Whatever
      BY <1>1, <1>8 DEF ChunkKinds, Whatever, Translators
  <2> HIDE DEF w, what
  <2>4. /\ v \in Translators /\ v.finished = w.finished /\ v.finish = w.finish /\ v.usage = w.usage
        /\ v.calls = w.calls /\ v.signed = w.signed /\ v.includeUsage = w.includeUsage
      BY <2>1, <2>2, <2>3, ChunkAdds
  <2>5. /\ v.role /\ v.out # <<>> /\ \A j \in DOMAIN v.out : v.out[j].role <=> j = 1
        /\ \A other : Whats(v.out, other) =
              IF "tool" = other THEN Append(Whats(t.out, other), what) ELSE Whats(t.out, other)
    <3>1. (w.role <=> w.out # <<>>) /\ \A j \in DOMAIN w.out : w.out[j].role <=> j = 1
        BY <1>2, <1>8, <2>2
    <3>2. /\ Chunk(w, "tool", what).role /\ Chunk(w, "tool", what).out # <<>>
          /\ \A j \in DOMAIN Chunk(w, "tool", what).out : Chunk(w, "tool", what).out[j].role <=> j = 1
          /\ \A other : Whats(Chunk(w, "tool", what).out, other) =
                IF "tool" = other THEN Append(Whats(w.out, other), what) ELSE Whats(w.out, other)
        BY <2>2, <2>3, <3>1, ChunkSays
    <3> QED
        BY <1>8, <2>1, <2>2, <3>2
  <2>6. OfKind(more, "tool") = Append(OfKind(parts, "tool"), p)
      BY <1>4, <1>10
  <2>7. Whats(v.out, "tool") = Numbered(OfKind(more, "tool"))
    <3>1. what = <<Len(OfKind(parts, "tool")), ToolCallId(p)>>
        BY <1>8 DEF what, ChatSays
    <3>2. Whats(t.out, "tool") = Numbered(OfKind(parts, "tool"))
        BY DEF ChatSays
    <3> QED
        BY <1>5, <2>5, <2>6, <3>1, <3>2, NumberedAppend
  <2>8. /\ Whats(v.out, "finish") = <<>> /\ Whats(v.out, "usage") = <<>>
        /\ Whats(v.out, "thinking") = Places(OfKind(more, "thinking"))
        /\ Whats(v.out, "text") = Places(OfKind(more, "text"))
      BY <1>4, <1>10, <2>5 DEF ChatSays
  <2>9. v.calls = Len(OfKind(more, "tool")) /\ v.signed = Kept(more)
    <3>1. Len(Append(OfKind(parts, "tool"), p)) = Len(OfKind(parts, "tool")) + 1
        BY <1>5
    <3> QED
        BY <1>3, <1>8, <2>2, <2>4, <2>6, <3>1 DEF ChatSays
  <2> QED
      BY <1>2, <1>8, <2>2, <2>4, <2>5, <2>7, <2>8, <2>9 DEF ChatSays, v, more
<1>11. CASE k \in {"signature", "empty"}
  <2>1. v = u
      BY <1>6, <1>11
  <2>2. OfKind(more, "tool") = OfKind(parts, "tool") /\ OfKind(more, "text") = OfKind(parts, "text")
        /\ OfKind(more, "thinking") = OfKind(parts, "thinking")
      BY <1>4, <1>11
  <2> QED
      BY <1>2, <1>3, <1>8, <2>1, <2>2 DEF ChatSays, v, more
<1> QED
    BY <1>1, <1>9, <1>10, <1>11

LEMMA PrefixGrows ==
    ASSUME NEW X, NEW a \in Seq(X), NEW b \in Seq(X), NEW k \in 1 .. Len(b)
    PROVE  /\ a \o SubSeq(b, 1, k - 1) \in Seq(X)
           /\ a \o SubSeq(b, 1, k) = Append(a \o SubSeq(b, 1, k - 1), b[k])
<1> DEFINE c == SubSeq(b, 1, k - 1)
           d == SubSeq(b, 1, k)
<1>1. /\ c \in Seq(X) /\ Len(c) = k - 1 /\ \A j \in 1 .. k - 1 : c[j] = b[j]
      /\ d \in Seq(X) /\ Len(d) = k /\ \A j \in 1 .. k : d[j] = b[j]
    OBVIOUS
<1>2. b[k] \in X
    OBVIOUS
<1> HIDE DEF c, d
<1>3. d = Append(c, b[k])
    BY <1>1, <1>2
<1>4. d = c \o <<b[k]>> /\ <<b[k]>> \in Seq(X)
    BY <1>1, <1>2, <1>3, AppendIsConcat
<1>5. a \o d = (a \o c) \o <<b[k]>> /\ a \o c \in Seq(X)
    BY <1>1, <1>4, ConcatAssociative, ConcatProperties
<1>6. (a \o c) \o <<b[k]>> = Append(a \o c, b[k])
    BY <1>2, <1>5, AppendIsConcat
<1> QED
    BY <1>5, <1>6 DEF c, d

LEMMA PrefixEnds ==
    ASSUME NEW X, NEW a \in Seq(X), NEW b \in Seq(X)
    PROVE  a \o SubSeq(b, 1, 0) = a /\ a \o SubSeq(b, 1, Len(b)) = a \o b
<1>1. SubSeq(b, 1, 0) = <<>> /\ SubSeq(b, 1, Len(b)) = b
    OBVIOUS
<1> QED
    BY <1>1, ConcatEmptySeq

\* What OnResponse computes on the way, as far as part n.
Translates(u, parts, n, f) ==
    f = [k \in 0 .. n |-> IF k = 0 THEN u ELSE OnPart(f[k - 1], parts[k])]

LEMMA TranslatesStep ==
    ASSUME NEW u, NEW parts, NEW n \in Nat, NEW f, Translates(u, parts, n, f)
    PROVE  f[0] = u /\ \A k \in 1 .. n : f[k] = OnPart(f[k - 1], parts[k])
<1>1. \A k \in 0 .. n : f[k] = IF k = 0 THEN u ELSE OnPart(f[k - 1], parts[k])
    BY DEF Translates
<1>2. 0 \in 0 .. n /\ \A k \in 1 .. n : k \in 0 .. n /\ k # 0
    OBVIOUS
<1> QED
    BY <1>1, <1>2

LEMMA TranslatesExists ==
    ASSUME NEW u, NEW parts, NEW n \in Nat
    PROVE  \E f : Translates(u, parts, n, f)
<1> DEFINE Good == {m \in 0 .. n : \E f : Translates(u, parts, m, f)}
<1>1. 0 \in Good
  <2>1. Translates(u, parts, 0, [k \in 0 .. 0 |-> u])
      BY DEF Translates
  <2> QED
      BY <2>1
<1>2. ASSUME NEW m \in 1 .. n, m - 1 \in Good PROVE m \in Good
  <2>1. PICK f : Translates(u, parts, m - 1, f)
      BY <1>2
  <2> DEFINE g == [k \in 0 .. m |-> IF k = m THEN OnPart(f[m - 1], parts[m]) ELSE f[k]]
  <2>2. f[0] = u /\ \A k \in 1 .. m - 1 : f[k] = OnPart(f[k - 1], parts[k])
      BY <2>1, TranslatesStep
  <2>3. (\A k \in 0 .. m - 1 : g[k] = f[k]) /\ g[m] = OnPart(f[m - 1], parts[m])
      OBVIOUS
  <2>4. g = [k \in 0 .. m |-> g[k]]
      OBVIOUS
  <2> HIDE DEF g
  <2>5. ASSUME NEW k \in 0 .. m PROVE g[k] = IF k = 0 THEN u ELSE OnPart(g[k - 1], parts[k])
    <3>1. CASE k = 0
        BY <3>1, <2>2, <2>3
    <3>2. CASE k # 0 /\ k # m
      <4>1. k \in 1 .. m - 1 /\ k \in 0 .. m - 1 /\ k - 1 \in 0 .. m - 1
          BY <3>2
      <4> QED
          BY <4>1, <2>2, <2>3, <3>2
    <3>3. CASE k = m
      <4>1. m - 1 \in 0 .. m - 1
          OBVIOUS
      <4> QED
          BY <3>3, <4>1, <2>3
    <3> QED
        BY <3>1, <3>2, <3>3
  <2>6. Translates(u, parts, m, g)
      BY <2>4, <2>5 DEF Translates
  <2> QED
      BY <2>6
<1>3. \A m \in 0 .. n : m \in Good
  <2> HIDE DEF Good
  <2> QED
      BY <1>1, <1>2, Climb
<1> QED
    BY <1>3

\* A new translator has said nothing.
LEMMA NewTranslatorSays ==
    ASSUME NEW usage \in BOOLEAN
    PROVE  ChatSays(NewTranslator(usage), <<>>)
<1> DEFINE t == NewTranslator(usage)
<1>1. t \in Translators /\ t.out = <<>> /\ t.signed = <<>> /\ t.calls = 0 /\ t.role = FALSE
      /\ t.finished = FALSE
  <2>1. <<>> \in Seq(Chunks) /\ <<>> \in Seq(Marks)
      OBVIOUS
  <2>2. None \in Reasons /\ Nothing \in Usages
      BY DEF Reasons, Usages
  <2> QED
      BY <2>1, <2>2 DEF NewTranslator, Translators, Nothing
<1> HIDE DEF t
<1>2. ASSUME NEW kind PROVE Whats(<<>>, kind) = <<>>
  <2>1. [k \in DOMAIN <<>> |-> <<(<<>>)[k].what>>] = <<>>
      OBVIOUS
  <2> QED
      BY <2>1, JoinedNothing, Zenon DEF Whats
<1>3. ASSUME NEW S PROVE Picked(<<>>, S) = <<>>
  <2>1. [k \in DOMAIN <<>> |-> <<(<<>>)[k]>>] = <<>>
      OBVIOUS
  <2> QED
      BY <2>1, JoinedNothing, Zenon DEF Picked
<1>4. ASSUME NEW kind PROVE OfKind(<<>>, kind) = <<>>
    BY <1>3 DEF OfKind
<1>5. Kept(<<>>) = <<>>
  <2>1. Picked(<<>>, {i \in DOMAIN <<>> : (<<>>)[i].sig}) = <<>>
      BY <1>3
  <2> QED
      BY <2>1 DEF Kept
<1>6. Places(<<>>) = <<>> /\ Numbered(<<>>) = <<>> /\ Len(<<>>) = 0
    BY DEF Places, Numbered
<1> QED
    BY <1>1, <1>2, <1>4, <1>5, <1>6 DEF ChatSays, t

LEMMA OnResponseIs ==
    ASSUME NEW t, NEW e, NEW parts, parts = e.parts, Len(parts) \in Nat, NEW u,
           u = [t EXCEPT !.usage = Newest(@, e.usage, Nothing), !.finish = Newest(@, e.finish, None)]
    PROVE  \E f : Translates(u, parts, Len(parts), f) /\ OnResponse(t, e) = f[Len(parts)]
<1> DEFINE f == CHOOSE f : Translates(u, parts, Len(parts), f)
<1>1. Translates(u, parts, Len(parts), f)
    BY TranslatesExists
<1>2. OnResponse(t, e) = f[Len(parts)]
    BY Zenon DEF OnResponse, Translates
<1> QED
    BY <1>1, <1>2

\* An event is said, part after part.
LEMMA OnResponseSays ==
    ASSUME NEW t, NEW parts \in Seq(Pieces), ChatSays(t, parts), NEW e \in Events
    PROVE  /\ ChatSays(OnResponse(t, e), parts \o e.parts)
           /\ OnResponse(t, e).usage = Newest(t.usage, e.usage, Nothing)
           /\ OnResponse(t, e).finish = Newest(t.finish, e.finish, None)
           /\ OnResponse(t, e).includeUsage = t.includeUsage
<1> DEFINE usage == Newest(t.usage, e.usage, Nothing)
           finish == Newest(t.finish, e.finish, None)
           u == [t EXCEPT !.usage = usage, !.finish = finish]
           said == e.parts
           n == Len(said)
           Upto(k) == parts \o SubSeq(said, 1, k)
<1>1. said \in Seq(Pieces) /\ n \in Nat /\ e.usage \in Usages /\ e.finish \in Reasons
    BY DEF Events
<1>2. t \in Translators
    BY DEF ChatSays
<1>3. usage \in Usages /\ finish \in Reasons
    BY <1>1, <1>2 DEF Newest, Translators
<1>4. PICK f : Translates(u, said, n, f) /\ OnResponse(t, e) = f[n]
  <2>1. u = [t EXCEPT !.usage = Newest(@, e.usage, Nothing), !.finish = Newest(@, e.finish, None)]
      BY <1>2 DEF Translators
  <2> HIDE DEF u
  <2> QED
      BY <1>1, <2>1, OnResponseIs
<1> HIDE DEF usage, finish
<1>5. /\ u \in Translators /\ u.usage = usage /\ u.finish = finish /\ u.includeUsage = t.includeUsage
      /\ u.finished = t.finished /\ u.out = t.out /\ u.role = t.role /\ u.calls = t.calls
      /\ u.signed = t.signed
    BY <1>2, <1>3 DEF Translators
<1> HIDE DEF u
<1>6. ChatSays(u, parts)
    BY <1>5 DEF ChatSays
<1>7. Translates(u, said, n, f) /\ n \in Nat
    BY <1>1, <1>4
<1> HIDE DEF said, n
<1>8. f[0] = u /\ \A k \in 1 .. n : f[k] = OnPart(f[k - 1], said[k])
    BY <1>7, TranslatesStep
<1> DEFINE Good == {k \in 0 .. n : /\ ChatSays(f[k], Upto(k))
                                   /\ f[k].usage = usage /\ f[k].finish = finish
                                   /\ f[k].includeUsage = t.includeUsage}
<1>9. 0 \in Good
  <2>1. Upto(0) = parts
      BY <1>1, PrefixEnds
  <2> HIDE DEF Upto
  <2>2. ChatSays(f[0], Upto(0))
      BY <2>1, <1>6, <1>8, Zenon
  <2>3. f[0].usage = usage /\ f[0].finish = finish /\ f[0].includeUsage = t.includeUsage
      BY <1>5, <1>8
  <2>4. 0 \in 0 .. n
      BY <1>1
  <2> QED
      BY <2>2, <2>3, <2>4, Zenon
<1>10. ASSUME NEW k \in 1 .. n, k - 1 \in Good PROVE k \in Good
  <2>1. Upto(k) = Append(Upto(k - 1), said[k]) /\ Upto(k - 1) \in Seq(Pieces)
      BY <1>1, PrefixGrows DEF n
  <2>2. said[k] \in Pieces
      BY <1>1 DEF n
  <2> HIDE DEF Upto
  <2>3. ChatSays(f[k - 1], Upto(k - 1))
      BY <1>10
  <2>4. /\ ChatSays(OnPart(f[k - 1], said[k]), Append(Upto(k - 1), said[k]))
        /\ OnPart(f[k - 1], said[k]).usage = f[k - 1].usage
        /\ OnPart(f[k - 1], said[k]).finish = f[k - 1].finish
        /\ OnPart(f[k - 1], said[k]).includeUsage = f[k - 1].includeUsage
      BY <2>1, <2>2, <2>3, OnPartSays
  <2>5. f[k] = OnPart(f[k - 1], said[k])
      BY <1>8
  <2>6. ChatSays(f[k], Upto(k))
      BY <2>1, <2>4, <2>5, Zenon
  <2>7. f[k].usage = usage /\ f[k].finish = finish /\ f[k].includeUsage = t.includeUsage
      BY <2>4, <2>5, <1>10
  <2>8. k \in 0 .. n
      BY <1>1
  <2> QED
      BY <2>6, <2>7, <2>8, Zenon
<1>11. \A k \in 0 .. n : k \in Good
  <2> HIDE DEF Good
  <2> QED
      BY <1>1, <1>9, <1>10, Climb
<1>12. n \in Good
    BY <1>1, <1>11
<1>13. Upto(n) = parts \o said
    BY <1>1, PrefixEnds DEF n
<1> HIDE DEF Upto
<1>14. ChatSays(f[n], parts \o said)
    BY <1>12, <1>13, Zenon
<1>15. f[n].usage = usage /\ f[n].finish = finish /\ f[n].includeUsage = t.includeUsage
    BY <1>12
<1> QED
    BY <1>4, <1>14, <1>15, Zenon DEF usage, finish, said

-----------------------------------------------------------------------------
(* ResponsesStream: what its events say *)

Items == {"message", "reasoning", "function_call"} \X Nat
Outputs == [id : Items, text : Seq(Spots \cup Ids)]
Uttered == Spots \cup Ids \cup Outputs
FrameTypes ==
    {"created", "in_progress", "item.added", "part.added", "text.delta", "text.done", "item.done",
     "arguments.delta", "arguments.done", "reasoning.delta", "completed"}
Frames ==
    [type : FrameTypes, number : Nat, item : {Nothing} \cup Items, index : Nat, what : Seq(Uttered)]

Streams ==
    [sequence : Nat, index : Nat, message : {Nothing} \cup Items, text : Seq(Spots),
     reasoning : {Nothing} \cup Items, output : Seq(Outputs), usage : Usages, started : BOOLEAN,
     out : Seq(Frames)]

\* What the events of a type say.
Say(s, type) == Told(s.out, OfType(s.out, type))

\* What the events of a type say about an item.
SayOf(s, type, id) == Told(s.out, OfItem(s.out, id) \cap OfType(s.out, type))

\* A stream with the same open items, output and usage.
SameState(s, u) ==
    /\ u.index = s.index /\ u.message = s.message /\ u.text = s.text /\ u.reasoning = s.reasoning
    /\ u.output = s.output /\ u.usage = s.usage /\ u.started = s.started

LEMMA WhatsAreSequences ==
    ASSUME NEW out \in Seq(Frames)
    PROVE  [k \in DOMAIN out |-> out[k].what] \in Seq(Seq(Uttered))
<1> DEFINE Y == Seq(Uttered)
<1>1. \A x \in Frames : x.what \in Y
    BY DEF Frames
<1> HIDE DEF Y
<1>2. [k \in DOMAIN out |-> out[k].what] \in Seq(Y)
    BY <1>1
<1> QED
    BY <1>2 DEF Y

LEMMA ToldAppend ==
    ASSUME NEW out \in Seq(Frames), NEW x \in Frames, NEW S, NEW T,
           \A k \in 1 .. Len(out) : k \in T <=> k \in S
    PROVE  /\ Told(out, S) \in Seq(Uttered)
           /\ Told(Append(out, x), T) =
                 IF Len(out) + 1 \in T THEN Told(out, S) \o x.what ELSE Told(out, S)
<1> DEFINE more == Append(out, x)
           a == [k \in DOMAIN out |-> out[k].what]
           b == [k \in DOMAIN more |-> more[k].what]
           Y == Seq(Uttered)
<1>1. /\ Len(out) \in Nat /\ DOMAIN more = 1 .. Len(out) + 1 /\ DOMAIN out = 1 .. Len(out)
      /\ more[Len(out) + 1] = x /\ \A k \in 1 .. Len(out) : more[k] = out[k]
    OBVIOUS
<1>2. a \in Seq(Y) /\ Len(a) = Len(out)
  <2>1. Len(a) = Len(out)
      OBVIOUS
  <2> QED
      BY <2>1, WhatsAreSequences
<1>3. b = Append(a, x.what)
  <2>1. a = [k \in 1 .. Len(out) |-> out[k].what]
      BY <1>1
  <2>2. b = [k \in 1 .. Len(out) + 1 |-> IF k = Len(out) + 1 THEN x.what ELSE out[k].what]
      BY <1>1
  <2> HIDE DEF more, b, Y
  <2> QED
      BY <1>1, <1>2, <2>1, <2>2
<1>4. Told(out, S) = Joined(a, S) /\ Told(more, T) = Joined(b, T)
    BY DEF Told
<1> HIDE DEF a, b, more
<1>5. Joined(a, S) \in Seq(Uttered)
    BY <1>2, JoinedIsSeq
<1> HIDE DEF Y
<1>6. Joined(b, T) = IF Len(out) + 1 \in T THEN Joined(a, S) \o x.what ELSE Joined(a, S)
  <2> DEFINE w == x.what
  <2>1. b = Append(a, w) /\ \A k \in 1 .. Len(a) : k \in T <=> k \in S
      BY <1>2, <1>3
  <2> HIDE DEF w
  <2>2. Joined(Append(a, w), T) = IF Len(a) + 1 \in T THEN Joined(a, S) \o w ELSE Joined(a, S)
      BY <1>2, <2>1, JoinedAppend
  <2> QED
      BY <1>2, <2>1, <2>2 DEF w
<1> QED
    BY <1>4, <1>5, <1>6 DEF more

\* An event is appended, and nothing else but the number changes.
LEMMA EmitAdds ==
    ASSUME NEW s \in Streams, NEW type \in FrameTypes, NEW item \in {Nothing} \cup Items,
           NEW what \in Seq(Uttered)
    PROVE  LET u == Emit(s, type, item, what)
               x == [type |-> type, number |-> s.sequence, item |-> item,
                     index |-> IF item = Nothing THEN 0 ELSE s.index, what |-> what]
           IN /\ u \in Streams /\ x \in Frames /\ u.out = Append(s.out, x)
              /\ u.sequence = s.sequence + 1 /\ SameState(s, u)
<1> DEFINE x == [type |-> type, number |-> s.sequence, item |-> item,
                 index |-> IF item = Nothing THEN 0 ELSE s.index, what |-> what]
           more == Append(s.out, x)
           next == s.sequence + 1
           u == Emit(s, type, item, what)
<1>1. x \in Frames
    BY DEF Frames, Streams
<1>2. u = [s EXCEPT !.sequence = next, !.out = more]
    BY DEF Emit
<1> HIDE DEF x, u
<1>3. more \in Seq(Frames) /\ next \in Nat
    BY <1>1 DEF Streams
<1> HIDE DEF more, next
<1>4. u \in Streams /\ u.out = more /\ u.sequence = next
    BY <1>2, <1>3 DEF Streams
<1>5. SameState(s, u)
    BY <1>2 DEF Streams, SameState
<1> QED
    BY <1>1, <1>4, <1>5 DEF more, next, x, u

LEMMA EmitTells ==
    ASSUME NEW s \in Streams, NEW type \in FrameTypes, NEW item \in {Nothing} \cup Items,
           NEW what \in Seq(Uttered), NEW other \in FrameTypes
    PROVE  /\ other = type => Say(Emit(s, type, item, what), other) = Say(s, other) \o what
           /\ other # type => Say(Emit(s, type, item, what), other) = Say(s, other)
<1> DEFINE u == Emit(s, type, item, what)
           x == [type |-> type, number |-> s.sequence, item |-> item,
                 index |-> IF item = Nothing THEN 0 ELSE s.index, what |-> what]
           n == Len(s.out)
<1>1. x \in Frames /\ u.out = Append(s.out, x)
    BY EmitAdds
<1>2. x.type = type /\ x.item = item /\ x.what = what
    OBVIOUS
<1>3. s.out \in Seq(Frames)
    BY DEF Streams
<1>4. /\ DOMAIN u.out = 1 .. n + 1 /\ n \in Nat /\ DOMAIN s.out = 1 .. n
      /\ u.out[n + 1] = x /\ \A k \in 1 .. n : u.out[k] = s.out[k]
    BY <1>1, <1>3
<1> HIDE DEF u, x, n
<1> DEFINE S == OfType(s.out, other)
           T == OfType(u.out, other)
<1>5. (\A k \in 1 .. n : k \in T <=> k \in S) /\ (n + 1 \in T <=> other = type)
    BY <1>2, <1>4 DEF OfType, OfItem
<1> HIDE DEF S, T
<1>6. Told(Append(s.out, x), T) = IF n + 1 \in T THEN Told(s.out, S) \o x.what ELSE Told(s.out, S)
    BY <1>1, <1>3, <1>5, ToldAppend DEF n
<1>7. Say(u, other) = Told(u.out, T) /\ Say(s, other) = Told(s.out, S)
    BY DEF Say, SayOf, S, T
<1> QED
    BY <1>1, <1>2, <1>5, <1>6, <1>7 DEF u

LEMMA EmitTellsOf ==
    ASSUME NEW s \in Streams, NEW type \in FrameTypes, NEW item \in {Nothing} \cup Items,
           NEW what \in Seq(Uttered), NEW other, NEW id
    PROVE  /\ other = type /\ id = item =>
                 SayOf(Emit(s, type, item, what), other, id) = SayOf(s, other, id) \o what
           /\ other # type \/ id # item =>
                 SayOf(Emit(s, type, item, what), other, id) = SayOf(s, other, id)
<1> DEFINE u == Emit(s, type, item, what)
           x == [type |-> type, number |-> s.sequence, item |-> item,
                 index |-> IF item = Nothing THEN 0 ELSE s.index, what |-> what]
           n == Len(s.out)
<1>1. x \in Frames /\ u.out = Append(s.out, x)
    BY EmitAdds
<1>2. x.type = type /\ x.item = item /\ x.what = what
    OBVIOUS
<1>3. s.out \in Seq(Frames)
    BY DEF Streams
<1>4. /\ DOMAIN u.out = 1 .. n + 1 /\ n \in Nat /\ DOMAIN s.out = 1 .. n
      /\ u.out[n + 1] = x /\ \A k \in 1 .. n : u.out[k] = s.out[k]
    BY <1>1, <1>3
<1> HIDE DEF u, x, n
<1> DEFINE S == OfItem(s.out, id) \cap OfType(s.out, other)
           T == OfItem(u.out, id) \cap OfType(u.out, other)
<1>5. (\A k \in 1 .. n : k \in T <=> k \in S) /\ (n + 1 \in T <=> other = type /\ id = item)
    BY <1>2, <1>4 DEF OfType, OfItem
<1> HIDE DEF S, T
<1>6. Told(Append(s.out, x), T) = IF n + 1 \in T THEN Told(s.out, S) \o x.what ELSE Told(s.out, S)
    BY <1>1, <1>3, <1>5, ToldAppend DEF n
<1>7. SayOf(u, other, id) = Told(u.out, T) /\ SayOf(s, other, id) = Told(s.out, S)
    BY DEF Say, SayOf, S, T
<1> QED
    BY <1>1, <1>2, <1>5, <1>6, <1>7 DEF u

-----------------------------------------------------------------------------
(* ResponsesStream: the order of its events *)

Announced(out, id) == \E k \in DOMAIN out : out[k].type = "item.added" /\ out[k].item = id
Ended(out, id) == \E k \in DOMAIN out : out[k].type = "item.done" /\ out[k].item = id

\* Every event about an item bears this index.
Indexed(out, id, i) == \A k \in DOMAIN out : out[k].item = id => out[k].index = i

\* Only reasoning so far.
Reasoned(out) == \A k \in DOMAIN out : out[k].item # Nothing => out[k].item[1] = "reasoning"

\* An item is announced by the event its id is numbered after, before its
\* other events, and ended by its last one.
Orderly(s) ==
    /\ s.sequence = Len(s.out)
    /\ \A k \in DOMAIN s.out :
          LET x == s.out[k]
          IN /\ x.number = k - 1 /\ (k = 1 <=> x.type = "created") /\ x.type # "completed"
             /\ x.type \in {"item.added", "item.done"} => x.item # Nothing
             /\ x.item # Nothing =>
                   /\ x.item[2] <= k - 1 /\ (x.type = "item.added" <=> x.item[2] = k - 1)
                   /\ \E j \in 1 .. k : s.out[j].type = "item.added" /\ s.out[j].item = x.item
                   /\ ~\E j \in 1 .. k - 1 : s.out[j].type = "item.done" /\ s.out[j].item = x.item

LEMMA EmitMoves ==
    ASSUME NEW s \in Streams, NEW type \in FrameTypes, NEW item \in {Nothing} \cup Items,
           NEW what \in Seq(Uttered)
    PROVE  LET u == Emit(s, type, item, what)
           IN /\ \A id : Announced(u.out, id) <=>
                    Announced(s.out, id) \/ (type = "item.added" /\ id = item)
              /\ \A id : Ended(u.out, id) <=> Ended(s.out, id) \/ (type = "item.done" /\ id = item)
              /\ \A id \in Items : \A i : Indexed(u.out, id, i) <=>
                    Indexed(s.out, id, i) /\ (id = item => i = s.index)
              /\ Reasoned(u.out) <=> Reasoned(s.out) /\ (item # Nothing => item[1] = "reasoning")
              /\ ReasoningFirst(u.out) <=>
                    ReasoningFirst(s.out) /\ (type = "reasoning.delta" => Reasoned(s.out))
<1> DEFINE u == Emit(s, type, item, what)
           x == [type |-> type, number |-> s.sequence, item |-> item,
                 index |-> IF item = Nothing THEN 0 ELSE s.index, what |-> what]
           n == Len(s.out)
<1>1. x \in Frames /\ u.out = Append(s.out, x)
    BY EmitAdds
<1>2. x.type = type /\ x.item = item /\ (item # Nothing => x.index = s.index)
    OBVIOUS
<1>3. s.out \in Seq(Frames)
    BY DEF Streams
<1>4. /\ DOMAIN u.out = 1 .. n + 1 /\ n \in Nat /\ DOMAIN s.out = 1 .. n
      /\ u.out[n + 1] = x /\ \A k \in 1 .. n : u.out[k] = s.out[k]
    BY <1>1, <1>3
<1> HIDE DEF u, x, n
<1>5. \A k : k \in 1 .. n + 1 <=> k \in 1 .. n \/ k = n + 1
    BY <1>4
<1>6. ASSUME NEW id
      PROVE  Announced(u.out, id) <=> Announced(s.out, id) \/ (type = "item.added" /\ id = item)
  <2>1. ASSUME NEW k \in DOMAIN u.out, u.out[k].type = "item.added", u.out[k].item = id
        PROVE  Announced(s.out, id) \/ (type = "item.added" /\ id = item)
    <3>1. CASE k \in 1 .. n
      <4>1. k \in DOMAIN s.out /\ s.out[k] = u.out[k]
          BY <1>4, <3>1
      <4> QED
          BY <2>1, <4>1 DEF Announced
    <3>2. CASE k = n + 1
        BY <1>2, <1>4, <2>1, <3>2
    <3> QED
        BY <1>4, <1>5, <3>1, <3>2
  <2>2. ASSUME NEW k \in DOMAIN s.out, s.out[k].type = "item.added", s.out[k].item = id
        PROVE  Announced(u.out, id)
    <3>1. k \in DOMAIN u.out /\ u.out[k] = s.out[k]
        BY <1>4, <1>5
    <3> QED
        BY <2>2, <3>1 DEF Announced
  <2>3. ASSUME type = "item.added", id = item PROVE Announced(u.out, id)
    <3>1. n + 1 \in DOMAIN u.out
        BY <1>4, <1>5
    <3> QED
        BY <1>2, <1>4, <2>3, <3>1 DEF Announced
  <2> QED
      BY <2>1, <2>2, <2>3 DEF Announced
<1>7. ASSUME NEW id
      PROVE  Ended(u.out, id) <=> Ended(s.out, id) \/ (type = "item.done" /\ id = item)
  <2>1. ASSUME NEW k \in DOMAIN u.out, u.out[k].type = "item.done", u.out[k].item = id
        PROVE  Ended(s.out, id) \/ (type = "item.done" /\ id = item)
    <3>1. CASE k \in 1 .. n
      <4>1. k \in DOMAIN s.out /\ s.out[k] = u.out[k]
          BY <1>4, <3>1
      <4> QED
          BY <2>1, <4>1 DEF Ended
    <3>2. CASE k = n + 1
        BY <1>2, <1>4, <2>1, <3>2
    <3> QED
        BY <1>4, <1>5, <3>1, <3>2
  <2>2. ASSUME NEW k \in DOMAIN s.out, s.out[k].type = "item.done", s.out[k].item = id
        PROVE  Ended(u.out, id)
    <3>1. k \in DOMAIN u.out /\ u.out[k] = s.out[k]
        BY <1>4, <1>5
    <3> QED
        BY <2>2, <3>1 DEF Ended
  <2>3. ASSUME type = "item.done", id = item PROVE Ended(u.out, id)
    <3>1. n + 1 \in DOMAIN u.out
        BY <1>4, <1>5
    <3> QED
        BY <1>2, <1>4, <2>3, <3>1 DEF Ended
  <2> QED
      BY <2>1, <2>2, <2>3 DEF Ended
<1>8. ASSUME NEW id \in Items, NEW i
      PROVE  Indexed(u.out, id, i) <=> Indexed(s.out, id, i) /\ (id = item => i = s.index)
  <2>1. id # Nothing
      BY DEF Items, Nothing
  <2> QED
      BY <1>2, <1>4, <1>5, <2>1 DEF Indexed
<1>9. Reasoned(u.out) <=> Reasoned(s.out) /\ (item # Nothing => item[1] = "reasoning")
    BY <1>2, <1>4, <1>5 DEF Reasoned
<1>10. ReasoningFirst(u.out) <=>
          ReasoningFirst(s.out) /\ (type = "reasoning.delta" => Reasoned(s.out))
  <2>1. ASSUME ReasoningFirst(u.out) PROVE ReasoningFirst(s.out)
      BY <1>4, <1>5, <2>1 DEF ReasoningFirst
  <2>2. ASSUME ReasoningFirst(u.out), type = "reasoning.delta" PROVE Reasoned(s.out)
    <3>1. \A j \in 1 .. n : j < n + 1
        BY <1>4
    <3> QED
        BY <1>2, <1>4, <1>5, <2>2, <3>1 DEF ReasoningFirst, Reasoned
  <2>3. ASSUME ReasoningFirst(s.out), type = "reasoning.delta" => Reasoned(s.out),
               NEW j \in DOMAIN u.out, NEW k \in DOMAIN u.out, j < k,
               u.out[k].type = "reasoning.delta", u.out[j].item # Nothing
        PROVE  u.out[j].item[1] = "reasoning"
    <3>1. j \in 1 .. n
        BY <1>4, <2>3
    <3>2. CASE k \in 1 .. n
        BY <1>4, <2>3, <3>1, <3>2 DEF ReasoningFirst
    <3>3. CASE k = n + 1
        BY <1>2, <1>4, <2>3, <3>1, <3>3 DEF Reasoned
    <3> QED
        BY <1>4, <1>5, <3>2, <3>3
  <2> QED
      BY <2>1, <2>2, <2>3 DEF ReasoningFirst
<1> QED
    BY <1>6, <1>7, <1>8, <1>9, <1>10 DEF u

\* What may be emitted next.
Allowed(s, type, item) ==
    /\ type # "completed" /\ (type = "created" <=> s.out = <<>>)
    /\ type \in {"item.added", "item.done"} => item # Nothing
    /\ item # Nothing =>
          IF type = "item.added" THEN item[2] = s.sequence
                                 ELSE Announced(s.out, item) /\ ~Ended(s.out, item)

\* Whatever was announced is numbered below the sequence.
LEMMA AnnouncedEarlier ==
    ASSUME NEW s \in Streams, Orderly(s), NEW id \in Items, Announced(s.out, id)
    PROVE  id[2] < s.sequence
<1>1. PICK k \in DOMAIN s.out : s.out[k].type = "item.added" /\ s.out[k].item = id
    BY DEF Announced
<1>2. s.out \in Seq(Frames)
    BY DEF Streams
<1>3. k \in 1 .. Len(s.out) /\ Len(s.out) \in Nat
    BY <1>2
<1>4. id[2] <= k - 1 /\ id[2] \in Nat
    BY <1>1 DEF Orderly, Items, Nothing
<1> QED
    BY <1>3, <1>4 DEF Orderly

LEMMA EmitOrderly ==
    ASSUME NEW s \in Streams, NEW type \in FrameTypes, NEW item \in {Nothing} \cup Items,
           NEW what \in Seq(Uttered), Orderly(s), Allowed(s, type, item)
    PROVE  Orderly(Emit(s, type, item, what)) /\ Emit(s, type, item, what).out # <<>>
<1> DEFINE u == Emit(s, type, item, what)
           x == [type |-> type, number |-> s.sequence, item |-> item,
                 index |-> IF item = Nothing THEN 0 ELSE s.index, what |-> what]
           n == Len(s.out)
<1>1. x \in Frames /\ u \in Streams /\ u.out = Append(s.out, x) /\ u.sequence = s.sequence + 1
    BY EmitAdds
<1>2. x.type = type /\ x.item = item /\ x.number = s.sequence
    OBVIOUS
<1>3. s.out \in Seq(Frames) /\ s.sequence = n
    BY DEF Streams, Orderly
<1>4. /\ DOMAIN u.out = 1 .. n + 1 /\ n \in Nat /\ DOMAIN s.out = 1 .. n /\ Len(u.out) = n + 1
      /\ u.out[n + 1] = x /\ \A k \in 1 .. n : u.out[k] = s.out[k]
      /\ s.out = <<>> <=> n = 0
    BY <1>1, <1>3
<1> HIDE DEF u, x, n
<1>5. u.sequence = Len(u.out)
    BY <1>1, <1>3, <1>4
<1>6. ASSUME NEW k \in 1 .. n
      PROVE  /\ u.out[k].number = k - 1 /\ (k = 1 <=> u.out[k].type = "created")
             /\ u.out[k].type # "completed"
             /\ u.out[k].type \in {"item.added", "item.done"} => u.out[k].item # Nothing
             /\ u.out[k].item # Nothing =>
                   /\ u.out[k].item[2] <= k - 1
                   /\ u.out[k].type = "item.added" <=> u.out[k].item[2] = k - 1
                   /\ \E j \in 1 .. k : u.out[j].type = "item.added" /\ u.out[j].item = u.out[k].item
                   /\ ~\E j \in 1 .. k - 1 : u.out[j].type = "item.done" /\ u.out[j].item = u.out[k].item
  <2>1. u.out[k] = s.out[k] /\ \A j \in 1 .. k : u.out[j] = s.out[j]
      BY <1>4
  <2>2. \A j \in 1 .. k - 1 : u.out[j] = s.out[j]
      BY <1>4
  <2>3. k \in DOMAIN s.out
      BY <1>4
  <2>4. /\ s.out[k].number = k - 1 /\ (k = 1 <=> s.out[k].type = "created")
        /\ s.out[k].type # "completed"
        /\ s.out[k].type \in {"item.added", "item.done"} => s.out[k].item # Nothing
        /\ s.out[k].item # Nothing =>
              /\ s.out[k].item[2] <= k - 1
              /\ s.out[k].type = "item.added" <=> s.out[k].item[2] = k - 1
              /\ \E j \in 1 .. k : s.out[j].type = "item.added" /\ s.out[j].item = s.out[k].item
              /\ ~\E j \in 1 .. k - 1 : s.out[j].type = "item.done" /\ s.out[j].item = s.out[k].item
      BY <2>3 DEF Orderly
  <2>5. /\ (\E j \in 1 .. k : s.out[j].type = "item.added" /\ s.out[j].item = s.out[k].item)
           => \E j \in 1 .. k : u.out[j].type = "item.added" /\ u.out[j].item = u.out[k].item
        /\ (\E j \in 1 .. k - 1 : u.out[j].type = "item.done" /\ u.out[j].item = u.out[k].item)
           => \E j \in 1 .. k - 1 : s.out[j].type = "item.done" /\ s.out[j].item = s.out[k].item
      BY <2>1, <2>2
  <2> QED
      BY <2>1, <2>4, <2>5
<1>7. x.number = n /\ (n + 1 = 1 <=> x.type = "created") /\ x.type # "completed"
      /\ (x.type \in {"item.added", "item.done"} => x.item # Nothing)
    BY <1>2, <1>3, <1>4 DEF Allowed
<1>8. ASSUME item # Nothing
      PROVE  /\ x.item[2] <= n /\ (x.type = "item.added" <=> x.item[2] = n)
             /\ \E j \in 1 .. n + 1 : u.out[j].type = "item.added" /\ u.out[j].item = x.item
             /\ ~\E j \in 1 .. n : u.out[j].type = "item.done" /\ u.out[j].item = x.item
  <2>1. item \in Items /\ item[2] \in Nat
      BY <1>8 DEF Items
  <2>2. CASE type = "item.added"
    <3>1. item[2] = n
        BY <1>3, <1>8, <2>2 DEF Allowed
    <3>2. ~\E j \in 1 .. n : u.out[j].item = item
      <4>1. SUFFICES ASSUME NEW j \in 1 .. n, u.out[j].item = item PROVE FALSE
          OBVIOUS
      <4>2. u.out[j].item[2] <= j - 1
          BY <1>6, <1>8, <4>1
      <4>3. ~(n <= j - 1)
          BY <1>4
      <4> QED
          BY <3>1, <4>1, <4>2, <4>3
    <3>3. n + 1 \in 1 .. n + 1
        BY <1>4
    <3> QED
        BY <1>2, <1>4, <2>2, <3>1, <3>2, <3>3
  <2>3. CASE type # "item.added"
    <3>1. Announced(s.out, item) /\ ~Ended(s.out, item)
        BY <1>8, <2>3 DEF Allowed
    <3>2. item[2] < n
        BY <1>3, <2>1, <3>1, AnnouncedEarlier
    <3>3. \E j \in 1 .. n : u.out[j].type = "item.added" /\ u.out[j].item = item
        BY <1>4, <3>1 DEF Announced
    <3>4. ~\E j \in 1 .. n : u.out[j].type = "item.done" /\ u.out[j].item = item
        BY <1>4, <3>1 DEF Ended
    <3> QED
        BY <1>2, <1>4, <2>1, <2>3, <3>2, <3>3, <3>4
  <2> QED
      BY <2>2, <2>3
<1>9. n + 1 - 1 = n
    BY <1>4
<1>10. \A k \in DOMAIN u.out : k \in 1 .. n \/ k = n + 1
    BY <1>4
<1>11. Orderly(u)
  <2> SUFFICES ASSUME NEW k \in DOMAIN u.out
               PROVE  /\ u.out[k].number = k - 1 /\ (k = 1 <=> u.out[k].type = "created")
                      /\ u.out[k].type # "completed"
                      /\ u.out[k].type \in {"item.added", "item.done"} => u.out[k].item # Nothing
                      /\ u.out[k].item # Nothing =>
                            /\ u.out[k].item[2] <= k - 1
                            /\ u.out[k].type = "item.added" <=> u.out[k].item[2] = k - 1
                            /\ \E j \in 1 .. k : u.out[j].type = "item.added" /\ u.out[j].item = u.out[k].item
                            /\ ~\E j \in 1 .. k - 1 : u.out[j].type = "item.done" /\ u.out[j].item = u.out[k].item
      BY <1>5 DEF Orderly
  <2>1. CASE k \in 1 .. n
      BY <1>6, <2>1
  <2>2. CASE k = n + 1
      BY <1>2, <1>4, <1>7, <1>8, <1>9, <2>2
  <2> QED
      BY <1>10, <2>1, <2>2
<1>12. u.out # <<>>
  <2>1. n + 1 \in DOMAIN u.out
      BY <1>4
  <2> QED
      BY <2>1
<1> QED
    BY <1>11, <1>12 DEF u

-----------------------------------------------------------------------------
(* ResponsesStream: its operations *)

\* What emitting an event does.
Emitted(s, u, type, item, what) ==
    /\ u \in Streams /\ Orderly(u) /\ u.out # <<>> /\ u.sequence = s.sequence + 1 /\ SameState(s, u)
    /\ Say(u, type) = Say(s, type) \o what
    /\ \A other \in FrameTypes : other # type => Say(u, other) = Say(s, other)
    /\ SayOf(u, type, item) = SayOf(s, type, item) \o what
    /\ \A other, id : other # type \/ id # item => SayOf(u, other, id) = SayOf(s, other, id)
    /\ \A id : Announced(u.out, id) <=> Announced(s.out, id) \/ (type = "item.added" /\ id = item)
    /\ \A id : Ended(u.out, id) <=> Ended(s.out, id) \/ (type = "item.done" /\ id = item)
    /\ \A id \in Items : \A i : Indexed(u.out, id, i) <=>
          Indexed(s.out, id, i) /\ (id = item => i = s.index)
    /\ Reasoned(u.out) <=> Reasoned(s.out) /\ (item # Nothing => item[1] = "reasoning")
    /\ ReasoningFirst(u.out) <=> ReasoningFirst(s.out) /\ (type = "reasoning.delta" => Reasoned(s.out))

LEMMA EmitGoes ==
    ASSUME NEW s \in Streams, NEW type \in FrameTypes, NEW item \in {Nothing} \cup Items,
           NEW what \in Seq(Uttered), Orderly(s), Allowed(s, type, item)
    PROVE  Emitted(s, Emit(s, type, item, what), type, item, what)
<1> DEFINE u == Emit(s, type, item, what)
<1>1. u \in Streams /\ u.sequence = s.sequence + 1 /\ SameState(s, u)
    BY EmitAdds
<1>2. Orderly(u) /\ u.out # <<>>
    BY EmitOrderly
<1>3. /\ Say(u, type) = Say(s, type) \o what
      /\ \A other \in FrameTypes : other # type => Say(u, other) = Say(s, other)
    BY EmitTells
<1>5. /\ SayOf(u, type, item) = SayOf(s, type, item) \o what
      /\ \A other, id : other # type \/ id # item => SayOf(u, other, id) = SayOf(s, other, id)
    BY EmitTellsOf
<1>4. /\ \A id : Announced(u.out, id) <=> Announced(s.out, id) \/ (type = "item.added" /\ id = item)
      /\ \A id : Ended(u.out, id) <=> Ended(s.out, id) \/ (type = "item.done" /\ id = item)
      /\ \A id \in Items : \A i : Indexed(u.out, id, i) <=>
            Indexed(s.out, id, i) /\ (id = item => i = s.index)
      /\ Reasoned(u.out) <=> Reasoned(s.out) /\ (item # Nothing => item[1] = "reasoning")
      /\ ReasoningFirst(u.out) <=> ReasoningFirst(s.out) /\ (type = "reasoning.delta" => Reasoned(s.out))
    BY EmitMoves
<1> HIDE DEF u
<1> QED
    BY <1>1, <1>2, <1>3, <1>4, <1>5, Zenon DEF Emitted, u

LEMMA SayType ==
    ASSUME NEW s \in Streams, NEW type
    PROVE  Say(s, type) \in Seq(Uttered)
<1> DEFINE S == OfType(s.out, type)
           x == [type |-> "created", number |-> 0, item |-> Nothing, index |-> 0, what |-> <<>>]
<1>1. s.out \in Seq(Frames) /\ x \in Frames
  <2>1. <<>> \in Seq(Uttered)
      OBVIOUS
  <2> QED
      BY <2>1 DEF Streams, Frames, FrameTypes
<1> HIDE DEF S, x
<1>2. Told(s.out, S) \in Seq(Uttered)
    BY <1>1, ToldAppend
<1> QED
    BY <1>2 DEF Say, S

\* Between two parts: the open message and the reasoning are announced and not
\* ended, every other item but the reasoning is, and what is still to be said of
\* the message is its text.
Standing(s) ==
    /\ s \in Streams /\ Orderly(s) /\ (s.started <=> s.out # <<>>)
    /\ IF s.message = Nothing THEN s.text = <<>>
       ELSE /\ s.message[1] = "message" /\ Announced(s.out, s.message) /\ ~Ended(s.out, s.message)
            /\ SayOf(s, "text.delta", s.message) = s.text
            /\ SayOf(s, "text.done", s.message) = <<>>
    /\ s.reasoning # Nothing =>
          /\ s.reasoning[1] = "reasoning"
          /\ Announced(s.out, s.reasoning) /\ ~Ended(s.out, s.reasoning)
    /\ \A id \in Items :
          /\ Announced(s.out, id) => id[1] = "reasoning" \/ id = s.message \/ Ended(s.out, id)
          /\ id # s.message => SayOf(s, "text.delta", id) = SayOf(s, "text.done", id)
          /\ ~Announced(s.out, id) =>
                /\ SayOf(s, "text.delta", id) = <<>> /\ SayOf(s, "text.done", id) = <<>>
                /\ \A i : Indexed(s.out, id, i)
    /\ \A m, n \in DOMAIN s.output : s.output[m].id = s.output[n].id => m = n
    /\ \A n \in DOMAIN s.output : Announced(s.out, s.output[n].id) /\ s.output[n].id # s.message

\* As long as reasoning comes first, every item has its place in the output.
Placed(s) ==
    ReasoningFirst(s.out) =>
       /\ \A id \in Items : Announced(s.out, id) /\ id # s.message =>
             \E n \in DOMAIN s.output : s.output[n].id = id /\ Indexed(s.out, id, n - 1)
       /\ s.message # Nothing =>
             s.index = Len(s.output) /\ Indexed(s.out, s.message, Len(s.output))
       /\ s.reasoning # Nothing /\ Reasoned(s.out) =>
             s.index + 1 \in DOMAIN s.output /\ s.output[s.index + 1].id = s.reasoning

\* The same was said.
SaysAs(s, u) ==
    \A type \in {"text.delta", "text.done", "arguments.done", "reasoning.delta"} : Say(u, type) = Say(s, type)

\* An item of the next number is new.
LEMMA NextIsNew ==
    ASSUME NEW s, Standing(s), NEW type
    PROVE  LET id == NewItem(s, type)
           IN /\ id[1] = type /\ id[2] = s.sequence /\ s.sequence \in Nat
              /\ type \in {"message", "reasoning", "function_call"} => id \in Items
              /\ id # Nothing /\ id # s.message /\ id # s.reasoning
              /\ id \in Items => ~Announced(s.out, id) /\ ~Ended(s.out, id)
              /\ \A n \in DOMAIN s.output : s.output[n].id # id
<1> DEFINE id == NewItem(s, type)
<1>1. s \in Streams /\ Orderly(s)
    BY DEF Standing
<1>2. id = <<type, s.sequence>> /\ id[1] = type /\ id[2] = s.sequence /\ s.sequence \in Nat
    BY <1>1 DEF NewItem, Streams
<1> HIDE DEF id
<1>3. type \in {"message", "reasoning", "function_call"} => id \in Items
    BY <1>2 DEF Items
<1>4. ASSUME NEW other \in Items, Announced(s.out, other) PROVE other # id
  <2>1. other[2] < s.sequence
      BY <1>1, <1>4, AnnouncedEarlier
  <2> QED
      BY <1>2, <2>1
<1>5. id # Nothing
    BY <1>2 DEF Nothing
<1>6. id # s.message /\ id # s.reasoning
  <2>1. s.message \in {Nothing} \cup Items /\ s.reasoning \in {Nothing} \cup Items
      BY <1>1 DEF Streams
  <2> QED
      BY <1>4, <1>5, <2>1 DEF Standing
<1>7. ASSUME id \in Items PROVE ~Announced(s.out, id) /\ ~Ended(s.out, id)
  <2>1. ~Announced(s.out, id)
      BY <1>4, <1>7
  <2>2. ASSUME NEW k \in DOMAIN s.out, s.out[k].type = "item.done", s.out[k].item = id PROVE FALSE
    <3>1. \E j \in 1 .. k : s.out[j].type = "item.added" /\ s.out[j].item = id
        BY <1>1, <1>5, <2>2 DEF Orderly
    <3>2. s.out \in Seq(Frames)
        BY <1>1 DEF Streams
    <3>3. \A j \in 1 .. k : j \in DOMAIN s.out
        BY <3>2
    <3> QED
        BY <2>1, <3>1, <3>3 DEF Announced
  <2> QED
      BY <2>1, <2>2 DEF Ended
<1>8. ASSUME NEW n \in DOMAIN s.output PROVE s.output[n].id # id
  <2>1. s.output \in Seq(Outputs)
      BY <1>1 DEF Streams
  <2>2. s.output[n].id \in Items
    <3>1. s.output[n] \in Outputs
        BY <2>1
    <3>2. \A x \in Outputs : x.id \in Items
        BY DEF Outputs
    <3> QED
        BY <3>1, <3>2
  <2> QED
      BY <1>4, <2>2 DEF Standing
<1> QED
    BY <1>2, <1>3, <1>5, <1>6, <1>7, <1>8 DEF id

Spoken == {"text.delta", "text.done", "arguments.done", "reasoning.delta"}

LEMMA SpokenTypes ==
    /\ Spoken \subseteq FrameTypes
    /\ \A type \in {"item.added", "part.added", "arguments.delta", "item.done"} :
          type \in FrameTypes /\ type \notin Spoken /\ type # "created" /\ type # "completed"
    /\ <<>> \in Seq(Uttered)
<1>1. <<>> \in Seq(Uttered)
    OBVIOUS
<1> QED
    BY <1>1 DEF Spoken, FrameTypes

\* A change of what has not been said is no change of the events.
LEMMA SameEvents ==
    ASSUME NEW s, NEW a, a.out = s.out, a.sequence = s.sequence
    PROVE  /\ Orderly(s) => Orderly(a)
           /\ \A type : Say(a, type) = Say(s, type)
           /\ \A type, id : SayOf(a, type, id) = SayOf(s, type, id)
BY DEF Orderly, Say, SayOf

LEMMA NextIndexIs ==
    ASSUME NEW s \in Streams
    PROVE  /\ NextIndex(s) \in Streams
           /\ NextIndex(s).out = s.out /\ NextIndex(s).sequence = s.sequence
           /\ NextIndex(s).index = Len(s.output) /\ NextIndex(s).message = s.message
           /\ NextIndex(s).text = s.text /\ NextIndex(s).reasoning = s.reasoning
           /\ NextIndex(s).output = s.output /\ NextIndex(s).usage = s.usage
           /\ NextIndex(s).started = s.started
<1> DEFINE n == Len(s.output)
<1>1. n \in Nat
    BY DEF Streams
<1>2. NextIndex(s) = [s EXCEPT !.index = n]
    BY DEF NextIndex
<1> HIDE DEF n
<1>3. [s EXCEPT !.index = n] \in Streams
    BY <1>1 DEF Streams
<1> QED
    BY <1>2, <1>3 DEF Streams, n

\* Two events announce an item.
LEMMA MessageOpens ==
    ASSUME NEW s, Standing(s), Placed(s), s.out # <<>>
    PROVE  LET u == OpenMessage(s)
           IN /\ Standing(u) /\ Placed(u) /\ u.out # <<>> /\ u.message # Nothing
              /\ SaysAs(s, u) /\ u.text = s.text /\ u.usage = s.usage
<1> DEFINE id == NewItem(s, "message")
           r == NextIndex(s)
           a == [r EXCEPT !.message = id]
           b == Emit(a, "item.added", id, <<>>)
           u == Emit(b, "part.added", id, <<>>)
           top == Len(s.output)
<1>1. CASE s.message # Nothing
    BY <1>1 DEF OpenMessage, SaysAs
<1>2. CASE s.message = Nothing
  <2>1. OpenMessage(s) = u
      BY <1>2 DEF OpenMessage
  <2>2. s \in Streams /\ Orderly(s) /\ s.text = <<>>
      BY <1>2 DEF Standing
  <2>3. /\ id[1] = "message" /\ id[2] = s.sequence /\ id \in Items /\ id # Nothing
        /\ id # s.reasoning /\ ~Announced(s.out, id) /\ ~Ended(s.out, id)
        /\ \A n \in DOMAIN s.output : s.output[n].id # id
      BY NextIsNew
  <2> HIDE DEF id
  <2>4. r \in Streams /\ r.out = s.out /\ r.sequence = s.sequence /\ r.index = top /\ r.text = s.text
        /\ r.reasoning = s.reasoning /\ r.output = s.output /\ r.usage = s.usage /\ r.started = s.started
      BY <2>2, NextIndexIs
  <2> HIDE DEF r, top
  <2>5. a \in Streams
      BY <2>3, <2>4 DEF Streams
  <2>6. a.out = s.out /\ a.sequence = s.sequence /\ a.index = top /\ a.text = s.text /\ a.message = id
        /\ a.reasoning = s.reasoning /\ a.output = s.output /\ a.usage = s.usage /\ a.started = s.started
      BY <2>4 DEF Streams
  <2> HIDE DEF a
  <2>7. /\ Orderly(a) /\ \A type : Say(a, type) = Say(s, type)
        /\ \A type, i : SayOf(a, type, i) = SayOf(s, type, i)
      BY <2>2, <2>6, SameEvents
  <2>8. Emitted(a, b, "item.added", id, <<>>)
    <3>1. Allowed(a, "item.added", id)
        BY <2>3, <2>6 DEF Allowed
    <3> QED
        BY <2>3, <2>5, <2>7, <3>1, EmitGoes, SpokenTypes
  <2> HIDE DEF b
  <2>9. Emitted(b, u, "part.added", id, <<>>)
    <3>1. Allowed(b, "part.added", id)
        BY <2>3, <2>6, <2>8 DEF Allowed, Emitted
    <3>2. b \in Streams /\ Orderly(b)
        BY <2>8 DEF Emitted
    <3> QED
        BY <2>3, <3>1, <3>2, EmitGoes, SpokenTypes
  <2> HIDE DEF u
  <2>10. /\ u \in Streams /\ Orderly(u) /\ u.out # <<>>
         /\ u.index = top /\ u.message = id /\ u.text = s.text /\ u.reasoning = s.reasoning
         /\ u.output = s.output /\ u.usage = s.usage /\ u.started = s.started
      BY <2>6, <2>8, <2>9 DEF Emitted, SameState
  <2>11. SaysAs(s, u)
      BY <2>7, <2>8, <2>9, SpokenTypes DEF Emitted, SaysAs, Spoken
  <2>12. \A type \in {"text.delta", "text.done"} : \A i : SayOf(u, type, i) = SayOf(s, type, i)
      BY <2>7, <2>8, <2>9 DEF Emitted
  <2>13. \A i : Announced(u.out, i) <=> Announced(s.out, i) \/ i = id
      BY <2>6, <2>8, <2>9 DEF Emitted
  <2>14. \A i : Ended(u.out, i) <=> Ended(s.out, i)
      BY <2>6, <2>8, <2>9 DEF Emitted
  <2>15. \A i \in Items : \A n : Indexed(u.out, i, n) <=> Indexed(s.out, i, n) /\ (i = id => n = top)
      BY <2>6, <2>8, <2>9 DEF Emitted, SameState
  <2>16. ~Reasoned(u.out) /\ (ReasoningFirst(u.out) <=> ReasoningFirst(s.out))
      BY <2>3, <2>6, <2>8, <2>9 DEF Emitted
  <2>17. Standing(u)
    <3>1. \A i \in Items :
             /\ Announced(u.out, i) => i[1] = "reasoning" \/ i = u.message \/ Ended(u.out, i)
             /\ i # u.message => SayOf(u, "text.delta", i) = SayOf(u, "text.done", i)
             /\ ~Announced(u.out, i) =>
                   /\ SayOf(u, "text.delta", i) = <<>> /\ SayOf(u, "text.done", i) = <<>>
                   /\ \A n : Indexed(u.out, i, n)
      <4> SUFFICES ASSUME NEW i \in Items
                   PROVE  /\ Announced(u.out, i) => i[1] = "reasoning" \/ i = u.message \/ Ended(u.out, i)
                          /\ i # u.message => SayOf(u, "text.delta", i) = SayOf(u, "text.done", i)
                          /\ ~Announced(u.out, i) =>
                                /\ SayOf(u, "text.delta", i) = <<>> /\ SayOf(u, "text.done", i) = <<>>
                                /\ \A n : Indexed(u.out, i, n)
          OBVIOUS
      <4>1. i # s.message
          BY <1>2 DEF Items, Nothing
      <4> QED
          BY <4>1, <2>10, <2>12, <2>13, <2>14, <2>15 DEF Standing
    <3>2. /\ u.message[1] = "message" /\ Announced(u.out, u.message) /\ ~Ended(u.out, u.message)
          /\ SayOf(u, "text.delta", u.message) = u.text
          /\ SayOf(u, "text.done", u.message) = <<>>
      <4>1. SayOf(s, "text.delta", id) = <<>> /\ SayOf(s, "text.done", id) = <<>>
          BY <2>3 DEF Standing
      <4> QED
          BY <4>1, <2>2, <2>3, <2>10, <2>12, <2>13, <2>14
    <3>3. u.reasoning # Nothing =>
             u.reasoning[1] = "reasoning" /\ Announced(u.out, u.reasoning) /\ ~Ended(u.out, u.reasoning)
        BY <2>10, <2>13, <2>14 DEF Standing
    <3>4. /\ \A m, n \in DOMAIN u.output : u.output[m].id = u.output[n].id => m = n
          /\ \A n \in DOMAIN u.output : Announced(u.out, u.output[n].id) /\ u.output[n].id # u.message
        BY <2>3, <2>10, <2>13 DEF Standing
    <3>5. u.started <=> u.out # <<>>
        BY <2>10 DEF Standing
    <3> QED
        BY <2>3, <2>10, <3>1, <3>2, <3>3, <3>4, <3>5 DEF Standing
  <2>18. Placed(u)
    <3> SUFFICES ASSUME ReasoningFirst(s.out)
                 PROVE  /\ \A i \in Items : Announced(u.out, i) /\ i # u.message =>
                              \E n \in DOMAIN u.output : u.output[n].id = i /\ Indexed(u.out, i, n - 1)
                        /\ u.index = Len(u.output) /\ Indexed(u.out, u.message, Len(u.output))
        BY <2>16 DEF Placed
    <3>1. ASSUME NEW i \in Items, Announced(u.out, i), i # u.message
          PROVE  \E n \in DOMAIN u.output : u.output[n].id = i /\ Indexed(u.out, i, n - 1)
      <4>1. Announced(s.out, i) /\ i # s.message /\ i # id
        <5>1. i # s.message
            BY <1>2 DEF Items, Nothing
        <5> QED
            BY <5>1, <2>10, <2>13, <3>1
      <4>2. PICK n \in DOMAIN s.output : s.output[n].id = i /\ Indexed(s.out, i, n - 1)
          BY <4>1 DEF Placed
      <4>3. Indexed(u.out, i, n - 1)
          BY <4>1, <4>2, <2>15
      <4>4. n \in DOMAIN u.output /\ u.output[n].id = i
          BY <4>2, <2>10
      <4> QED
          BY <4>3, <4>4
    <3>2. u.index = Len(u.output) /\ Indexed(u.out, u.message, Len(u.output))
      <4>1. Indexed(s.out, id, top)
          BY <2>3 DEF Standing
      <4> QED
          BY <4>1, <2>3, <2>10, <2>15 DEF top
    <3> QED
        BY <3>1, <3>2
  <2> QED
      BY <2>1, <2>3, <2>10, <2>11, <2>17, <2>18
<1> QED
    BY <1>1, <1>2

LEMMA ItemsAreThere == \A id \in Items : id # Nothing
BY DEF Items, Nothing

LEMMA ReasonedTells ==
    ASSUME NEW out, Reasoned(out), NEW id, id # Nothing, Announced(out, id)
    PROVE  id[1] = "reasoning"
BY DEF Reasoned, Announced

\* Text is said of the open message.
LEMMA TextGoes ==
    ASSUME NEW s, Standing(s), Placed(s), s.out # <<>>, s.message # Nothing, NEW spot \in Spots
    PROVE  LET u == Emit([s EXCEPT !.text = Append(@, spot)], "text.delta", s.message, <<spot>>)
           IN /\ Standing(u) /\ Placed(u) /\ u.out # <<>> /\ u.usage = s.usage
              /\ u.text = s.text \o <<spot>> /\ Say(u, "text.delta") = Say(s, "text.delta") \o <<spot>>
              /\ \A type \in Spoken \ {"text.delta"} : Say(u, type) = Say(s, type)
<1> DEFINE text == Append(s.text, spot)
           a == [s EXCEPT !.text = text]
           what == <<spot>>
           m == s.message
           u == Emit(a, "text.delta", m, what)
<1>1. s \in Streams /\ Orderly(s) /\ s.text \in Seq(Spots)
    BY DEF Standing, Streams
<1>2. text \in Seq(Spots) /\ text = s.text \o what
    BY <1>1, AppendIsConcat
<1>3. what \in Seq(Uttered) /\ m \in Items /\ m # Nothing
  <2>1. spot \in Uttered
      BY DEF Uttered
  <2> QED
      BY <1>1, <2>1 DEF Streams
<1> HIDE DEF text, what
<1>4. a \in Streams
    BY <1>1, <1>2 DEF Streams
<1>5. a.out = s.out /\ a.sequence = s.sequence /\ a.index = s.index /\ a.text = text /\ a.message = m
      /\ a.reasoning = s.reasoning /\ a.output = s.output /\ a.usage = s.usage /\ a.started = s.started
    BY <1>1 DEF Streams
<1>6. [s EXCEPT !.text = Append(@, spot)] = a
    BY DEF text
<1> HIDE DEF a
<1>7. /\ Orderly(a) /\ \A type : Say(a, type) = Say(s, type)
      /\ \A type, i : SayOf(a, type, i) = SayOf(s, type, i)
    BY <1>1, <1>5, SameEvents
<1>8. /\ m[1] = "message" /\ Announced(s.out, m) /\ ~Ended(s.out, m)
      /\ SayOf(s, "text.delta", m) = s.text /\ SayOf(s, "text.done", m) = <<>>
    BY <1>3 DEF Standing
<1>9. Emitted(a, u, "text.delta", m, what)
  <2>1. Allowed(a, "text.delta", m)
      BY <1>3, <1>5, <1>8 DEF Allowed
  <2>2. "text.delta" \in FrameTypes
      BY DEF FrameTypes
  <2> QED
      BY <1>3, <1>4, <1>7, <2>1, <2>2, EmitGoes
<1> HIDE DEF u, m
<1>10. /\ u \in Streams /\ Orderly(u) /\ u.out # <<>>
       /\ u.index = s.index /\ u.message = m /\ u.text = text /\ u.reasoning = s.reasoning
       /\ u.output = s.output /\ u.usage = s.usage /\ u.started = s.started
    BY <1>5, <1>9 DEF Emitted, SameState
<1>11. /\ Say(u, "text.delta") = Say(s, "text.delta") \o what
       /\ \A type \in Spoken \ {"text.delta"} : Say(u, type) = Say(s, type)
    BY <1>7, <1>9, SpokenTypes DEF Emitted
<1>12. /\ SayOf(u, "text.delta", m) = text
       /\ \A i : SayOf(u, "text.done", i) = SayOf(s, "text.done", i)
       /\ \A i : i # m => SayOf(u, "text.delta", i) = SayOf(s, "text.delta", i)
  <2>1. SayOf(u, "text.delta", m) = SayOf(a, "text.delta", m) \o what
      BY <1>9 DEF Emitted
  <2> QED
      BY <1>2, <1>7, <1>8, <1>9, <2>1 DEF Emitted
<1>13. \A i : (Announced(u.out, i) <=> Announced(s.out, i)) /\ (Ended(u.out, i) <=> Ended(s.out, i))
    BY <1>5, <1>9 DEF Emitted
<1>14. \A i \in Items : \A n : Indexed(u.out, i, n) <=> Indexed(s.out, i, n) /\ (i = m => n = s.index)
    BY <1>5, <1>9 DEF Emitted
<1>15. ~Reasoned(s.out) /\ ~Reasoned(u.out) /\ (ReasoningFirst(u.out) <=> ReasoningFirst(s.out))
  <2>1. ~Reasoned(s.out)
      BY <1>3, <1>8, ReasonedTells
  <2> QED
      BY <1>5, <1>9, <2>1 DEF Emitted
<1>16. Standing(u)
  <2>1. \A i \in Items :
           /\ Announced(u.out, i) => i[1] = "reasoning" \/ i = u.message \/ Ended(u.out, i)
           /\ i # u.message => SayOf(u, "text.delta", i) = SayOf(u, "text.done", i)
           /\ ~Announced(u.out, i) =>
                 /\ SayOf(u, "text.delta", i) = <<>> /\ SayOf(u, "text.done", i) = <<>>
                 /\ \A n : Indexed(u.out, i, n)
    <3> SUFFICES ASSUME NEW i \in Items
                 PROVE  /\ Announced(u.out, i) => i[1] = "reasoning" \/ i = u.message \/ Ended(u.out, i)
                        /\ i # u.message => SayOf(u, "text.delta", i) = SayOf(u, "text.done", i)
                        /\ ~Announced(u.out, i) =>
                              /\ SayOf(u, "text.delta", i) = <<>> /\ SayOf(u, "text.done", i) = <<>>
                              /\ \A n : Indexed(u.out, i, n)
        OBVIOUS
    <3>1. Announced(u.out, i) => i[1] = "reasoning" \/ i = u.message \/ Ended(u.out, i)
        BY <1>10, <1>13 DEF Standing, m
    <3>2. i # u.message => SayOf(u, "text.delta", i) = SayOf(u, "text.done", i)
        BY <1>10, <1>12 DEF Standing, m
    <3>3. ~Announced(u.out, i) =>
             /\ SayOf(u, "text.delta", i) = <<>> /\ SayOf(u, "text.done", i) = <<>>
             /\ \A n : Indexed(u.out, i, n)
        BY <1>8, <1>12, <1>13, <1>14 DEF Standing
    <3> QED
        BY <3>1, <3>2, <3>3
  <2>2. /\ u.message[1] = "message" /\ Announced(u.out, u.message) /\ ~Ended(u.out, u.message)
        /\ SayOf(u, "text.delta", u.message) = u.text
        /\ SayOf(u, "text.done", u.message) = <<>>
      BY <1>8, <1>10, <1>12, <1>13
  <2>3. u.reasoning # Nothing =>
           u.reasoning[1] = "reasoning" /\ Announced(u.out, u.reasoning) /\ ~Ended(u.out, u.reasoning)
      BY <1>10, <1>13 DEF Standing
  <2>4. /\ \A k, n \in DOMAIN u.output : u.output[k].id = u.output[n].id => k = n
        /\ \A n \in DOMAIN u.output : Announced(u.out, u.output[n].id) /\ u.output[n].id # u.message
      BY <1>10, <1>13 DEF Standing, m
  <2>5. u.started <=> u.out # <<>>
      BY <1>10 DEF Standing
  <2> QED
      BY <1>3, <1>10, <2>1, <2>2, <2>3, <2>4, <2>5 DEF Standing
<1>17. Placed(u)
  <2> SUFFICES ASSUME ReasoningFirst(s.out)
               PROVE  /\ \A i \in Items : Announced(u.out, i) /\ i # u.message =>
                            \E n \in DOMAIN u.output : u.output[n].id = i /\ Indexed(u.out, i, n - 1)
                      /\ u.index = Len(u.output) /\ Indexed(u.out, u.message, Len(u.output))
      BY <1>15 DEF Placed
  <2>1. ASSUME NEW i \in Items, Announced(u.out, i), i # u.message
        PROVE  \E n \in DOMAIN u.output : u.output[n].id = i /\ Indexed(u.out, i, n - 1)
    <3>1. Announced(s.out, i) /\ i # s.message /\ i # m
        BY <1>10, <1>13, <2>1 DEF m
    <3>2. PICK n \in DOMAIN s.output : s.output[n].id = i /\ Indexed(s.out, i, n - 1)
        BY <3>1 DEF Placed
    <3>3. Indexed(u.out, i, n - 1)
        BY <3>1, <3>2, <1>14
    <3> QED
        BY <3>2, <3>3, <1>10
  <2>2. u.index = Len(u.output) /\ Indexed(u.out, u.message, Len(u.output))
    <3>1. s.index = Len(s.output) /\ Indexed(s.out, m, Len(s.output))
        BY <1>3 DEF Placed, m
    <3> QED
        BY <3>1, <1>3, <1>10, <1>14
  <2> QED
      BY <2>1, <2>2
<1>18. u.text = s.text \o what
    BY <1>2, <1>10
<1> QED
    BY <1>6, <1>10, <1>11, <1>16, <1>17, <1>18 DEF u, what, m

\* The message is closed with its text, and takes its place in the output.
LEMMA MessageCloses ==
    ASSUME NEW s, Standing(s), Placed(s), s.out # <<>>
    PROVE  LET u == CloseMessage(s)
           IN /\ Standing(u) /\ Placed(u) /\ u.out # <<>> /\ u.message = Nothing /\ u.text = <<>>
              /\ u.usage = s.usage
              /\ Say(u, "text.done") = Say(s, "text.done") \o s.text
              /\ \A type \in Spoken \ {"text.done"} : Say(u, type) = Say(s, type)
<1> DEFINE m == s.message
           text == s.text
           a == [s EXCEPT !.message = Nothing, !.text = <<>>]
           b == Emit(a, "text.done", m, text)
           c == Emit(b, "item.done", m, text)
           last == [id |-> m, text |-> text]
           more == Append(s.output, last)
           u == [c EXCEPT !.output = more]
           top == Len(s.output)
<1>1. s \in Streams /\ Orderly(s) /\ s.output \in Seq(Outputs) /\ text \in Seq(Spots)
    BY DEF Standing, Streams
<1>2. CASE s.message = Nothing
  <2>1. CloseMessage(s) = s /\ s.text = <<>>
      BY <1>2 DEF CloseMessage, Standing
  <2>2. Say(s, "text.done") \in Seq(Uttered)
      BY <1>1, SayType
  <2>3. Say(s, "text.done") \o <<>> = Say(s, "text.done")
      BY <2>2, ConcatEmptySeq
  <2> QED
      BY <1>2, <2>1, <2>3
<1>3. CASE s.message # Nothing
  <2>1. m \in Items /\ m # Nothing
      BY <1>1, <1>3 DEF Streams
  <2>2. text \in Seq(Uttered) /\ <<>> \in Seq(Spots)
      BY <1>1 DEF Uttered
  <2>3. last \in Outputs /\ last.id = m
    <3>1. text \in Seq(Spots \cup Ids)
        BY <1>1
    <3> QED
        BY <2>1, <3>1 DEF Outputs
  <2>4. /\ m[1] = "message" /\ Announced(s.out, m) /\ ~Ended(s.out, m)
        /\ SayOf(s, "text.delta", m) = text /\ SayOf(s, "text.done", m) = <<>>
        /\ m # s.reasoning
      BY <1>3 DEF Standing
  <2> HIDE DEF last
  <2>5. /\ more \in Seq(Outputs) /\ DOMAIN more = 1 .. top + 1 /\ more[top + 1] = last
        /\ \A n \in 1 .. top : more[n] = s.output[n]
        /\ DOMAIN s.output = 1 .. top /\ top \in Nat
      BY <1>1, <2>3
  <2> HIDE DEF more, top
  <2>6. a \in Streams
      BY <1>1, <2>2 DEF Streams
  <2>7. a.out = s.out /\ a.sequence = s.sequence /\ a.index = s.index /\ a.text = <<>> /\ a.message = Nothing
        /\ a.reasoning = s.reasoning /\ a.output = s.output /\ a.usage = s.usage /\ a.started = s.started
      BY <1>1 DEF Streams
  <2> HIDE DEF a, text
  <2>8. /\ Orderly(a) /\ \A type : Say(a, type) = Say(s, type)
        /\ \A type, i : SayOf(a, type, i) = SayOf(s, type, i)
      BY <1>1, <2>7, SameEvents
  <2>9. Emitted(a, b, "text.done", m, text)
    <3>1. Allowed(a, "text.done", m)
        BY <2>1, <2>4, <2>7 DEF Allowed
    <3>2. "text.done" \in FrameTypes
        BY DEF FrameTypes
    <3> QED
        BY <2>1, <2>2, <2>6, <2>8, <3>1, <3>2, EmitGoes
  <2> HIDE DEF b
  <2>10. Emitted(b, c, "item.done", m, text)
    <3>1. Allowed(b, "item.done", m)
        BY <2>1, <2>4, <2>7, <2>9 DEF Allowed, Emitted
    <3>2. b \in Streams /\ Orderly(b)
        BY <2>9 DEF Emitted
    <3> QED
        BY <2>1, <2>2, <3>1, <3>2, EmitGoes, SpokenTypes
  <2> HIDE DEF c
  <2>11. /\ c \in Streams /\ Orderly(c) /\ c.out # <<>>
         /\ c.index = s.index /\ c.message = Nothing /\ c.text = <<>> /\ c.reasoning = s.reasoning
         /\ c.output = s.output /\ c.usage = s.usage /\ c.started = s.started
      BY <2>7, <2>9, <2>10 DEF Emitted, SameState
  <2>12. u \in Streams /\ u.output = more /\ u.out = c.out /\ u.sequence = c.sequence
         /\ u.index = s.index /\ u.message = Nothing /\ u.text = <<>> /\ u.reasoning = s.reasoning
         /\ u.usage = s.usage /\ u.started = s.started
      BY <2>5, <2>11 DEF Streams
  <2>13. CloseMessage(s) = u
    <3>1. [c EXCEPT !.output = Append(@, [id |-> s.message, text |-> s.text])] = u
        BY <2>11 DEF more, last, m, text
    <3> QED
        BY <1>3, <3>1 DEF CloseMessage, a, b, c, m, text
  <2> HIDE DEF u, m
  <2>14. /\ Orderly(u) /\ \A type : Say(u, type) = Say(c, type)
         /\ \A type, i : SayOf(u, type, i) = SayOf(c, type, i)
      BY <2>11, <2>12, SameEvents
  <2>15. /\ Say(u, "text.done") = Say(s, "text.done") \o text
         /\ \A type \in Spoken \ {"text.done"} : Say(u, type) = Say(s, type)
    <3>1. /\ Say(b, "text.done") = Say(s, "text.done") \o text
          /\ \A type \in Spoken \ {"text.done"} : Say(b, type) = Say(s, type)
        BY <2>8, <2>9, SpokenTypes DEF Emitted
    <3>2. \A type \in Spoken : Say(c, type) = Say(b, type)
        BY <2>10, SpokenTypes DEF Emitted
    <3>3. "text.done" \in Spoken
        BY DEF Spoken
    <3> QED
        BY <2>14, <3>1, <3>2, <3>3
  <2>16. /\ SayOf(u, "text.done", m) = text
         /\ \A i : SayOf(u, "text.delta", i) = SayOf(s, "text.delta", i)
         /\ \A i : i # m => SayOf(u, "text.done", i) = SayOf(s, "text.done", i)
    <3>1. \A type \in {"text.delta", "text.done"} : \A i : SayOf(u, type, i) = SayOf(b, type, i)
        BY <2>10, <2>14 DEF Emitted
    <3>2. SayOf(b, "text.done", m) = SayOf(a, "text.done", m) \o text
        BY <2>9 DEF Emitted
    <3>3. SayOf(a, "text.done", m) \o text = text
        BY <2>2, <2>4, <2>8, ConcatEmptySeq DEF m
    <3>4. /\ \A i : SayOf(b, "text.delta", i) = SayOf(s, "text.delta", i)
          /\ \A i : i # m => SayOf(b, "text.done", i) = SayOf(s, "text.done", i)
        BY <2>8, <2>9 DEF Emitted
    <3> QED
        BY <3>1, <3>2, <3>3, <3>4
  <2>17. \A i : Announced(u.out, i) <=> Announced(s.out, i)
      BY <2>7, <2>9, <2>10, <2>12 DEF Emitted
  <2>18. \A i : Ended(u.out, i) <=> Ended(s.out, i) \/ i = m
      BY <2>7, <2>9, <2>10, <2>12 DEF Emitted
  <2>19. \A i \in Items : \A n : Indexed(u.out, i, n) <=> Indexed(s.out, i, n) /\ (i = m => n = s.index)
      BY <2>7, <2>9, <2>10, <2>12 DEF Emitted, SameState
  <2>20. ~Reasoned(u.out) /\ (ReasoningFirst(u.out) <=> ReasoningFirst(s.out))
    <3>1. ~Reasoned(s.out)
        BY <2>1, <2>4, ReasonedTells DEF m
    <3> QED
        BY <3>1, <2>7, <2>9, <2>10, <2>12 DEF Emitted
  <2>21. Standing(u)
    <3>1. \A i \in Items :
             /\ Announced(u.out, i) => i[1] = "reasoning" \/ i = u.message \/ Ended(u.out, i)
             /\ i # u.message => SayOf(u, "text.delta", i) = SayOf(u, "text.done", i)
             /\ ~Announced(u.out, i) =>
                   /\ SayOf(u, "text.delta", i) = <<>> /\ SayOf(u, "text.done", i) = <<>>
                   /\ \A n : Indexed(u.out, i, n)
      <4> SUFFICES ASSUME NEW i \in Items
                   PROVE  /\ Announced(u.out, i) => i[1] = "reasoning" \/ Ended(u.out, i)
                          /\ SayOf(u, "text.delta", i) = SayOf(u, "text.done", i)
                          /\ ~Announced(u.out, i) =>
                                /\ SayOf(u, "text.delta", i) = <<>> /\ SayOf(u, "text.done", i) = <<>>
                                /\ \A n : Indexed(u.out, i, n)
          OBVIOUS
      <4>1. Announced(u.out, i) => i[1] = "reasoning" \/ Ended(u.out, i)
          BY <2>17, <2>18 DEF Standing, m
      <4>2. SayOf(u, "text.delta", i) = SayOf(u, "text.done", i)
          BY <2>4, <2>16 DEF Standing, m
      <4>3. ~Announced(u.out, i) =>
               /\ SayOf(u, "text.delta", i) = <<>> /\ SayOf(u, "text.done", i) = <<>>
               /\ \A n : Indexed(u.out, i, n)
          BY <2>4, <2>16, <2>17, <2>19 DEF Standing, m
      <4> QED
          BY <4>1, <4>2, <4>3
    <3>2. u.reasoning # Nothing =>
             u.reasoning[1] = "reasoning" /\ Announced(u.out, u.reasoning) /\ ~Ended(u.out, u.reasoning)
        BY <2>4, <2>12, <2>17, <2>18 DEF Standing
    <3>3. \A n \in DOMAIN u.output : Announced(u.out, u.output[n].id) /\ u.output[n].id # u.message
      <4> SUFFICES ASSUME NEW n \in DOMAIN u.output
                   PROVE  Announced(u.out, u.output[n].id) /\ u.output[n].id # u.message
          OBVIOUS
      <4>1. CASE n \in 1 .. top
        <5>1. Announced(s.out, s.output[n].id) /\ u.output[n] = s.output[n]
            BY <2>5, <2>12, <4>1 DEF Standing
        <5>2. ~Announced(s.out, Nothing)
            BY <1>1 DEF Orderly, Announced
        <5> QED
            BY <2>12, <2>17, <5>1, <5>2
      <4>2. CASE n = top + 1
          BY <2>1, <2>3, <2>4, <2>5, <2>12, <2>17, <4>2 DEF m
      <4> QED
          BY <2>5, <2>12, <4>1, <4>2
    <3>4. \A k, n \in DOMAIN u.output : u.output[k].id = u.output[n].id => k = n
      <4>1. \A n \in 1 .. top : u.output[n].id # m /\ u.output[n] = s.output[n]
          BY <2>5, <2>12 DEF Standing, m
      <4>2. u.output[top + 1].id = m
          BY <2>3, <2>5, <2>12
      <4>3. \A k, n \in 1 .. top : s.output[k].id = s.output[n].id => k = n
          BY <2>5 DEF Standing
      <4>4. \A n \in DOMAIN u.output : n \in 1 .. top \/ n = top + 1
          BY <2>5, <2>12
      <4> QED
          BY <4>1, <4>2, <4>3, <4>4
    <3>5. u.started <=> u.out # <<>>
        BY <2>11, <2>12 DEF Standing
    <3> QED
        BY <2>12, <2>14, <3>1, <3>2, <3>3, <3>4, <3>5 DEF Standing
  <2>22. Placed(u)
    <3> SUFFICES ASSUME ReasoningFirst(s.out)
                 PROVE  \A i \in Items : Announced(u.out, i) =>
                              \E n \in DOMAIN u.output : u.output[n].id = i /\ Indexed(u.out, i, n - 1)
        BY <2>12, <2>20 DEF Placed
    <3> SUFFICES ASSUME NEW i \in Items, Announced(s.out, i)
                 PROVE  \E n \in DOMAIN u.output : u.output[n].id = i /\ Indexed(u.out, i, n - 1)
        BY <2>17
    <3>1. CASE i # m
      <4>1. PICK n \in DOMAIN s.output : s.output[n].id = i /\ Indexed(s.out, i, n - 1)
          BY <3>1 DEF Placed, m
      <4>2. Indexed(u.out, i, n - 1)
          BY <3>1, <4>1, <2>19
      <4>3. n \in DOMAIN u.output /\ u.output[n] = s.output[n]
          BY <4>1, <2>5, <2>12
      <4> QED
          BY <4>1, <4>2, <4>3
    <3>2. CASE i = m
      <4>1. s.index = top /\ Indexed(s.out, m, top)
          BY <2>1 DEF Placed, m, top
      <4> DEFINE n == top + 1
      <4>2. Indexed(u.out, m, n - 1)
          BY <4>1, <2>1, <2>5, <2>19
      <4>3. n \in DOMAIN u.output /\ u.output[n].id = m
          BY <2>3, <2>5, <2>12
      <4> HIDE DEF n
      <4> QED
          BY <3>2, <4>2, <4>3
    <3> QED
        BY <3>1, <3>2
  <2> QED
      BY <2>11, <2>12, <2>13, <2>15, <2>21, <2>22 DEF text
<1> QED
    BY <1>2, <1>3

LEMMA CallIds ==
    ASSUME NEW p \in Pieces
    PROVE  ResponsesCallId(p) \in Ids
BY PieceTypes DEF ResponsesCallId, Ids

\* A call is announced, said and ended, and takes its place in the output.
LEMMA CallGoes ==
    ASSUME NEW s, Standing(s), Placed(s), s.out # <<>>, s.message = Nothing, NEW p \in Pieces
    PROVE  LET u == OpenCall(s, p)
           IN /\ Standing(u) /\ Placed(u) /\ u.out # <<>> /\ u.message = Nothing /\ u.text = s.text
              /\ u.usage = s.usage
              /\ Say(u, "arguments.done") = Say(s, "arguments.done") \o <<ResponsesCallId(p)>>
              /\ \A type \in Spoken \ {"arguments.done"} : Say(u, type) = Say(s, type)
<1> DEFINE id == NewItem(s, "function_call")
           call == <<ResponsesCallId(p)>>
           r == NextIndex(s)
           a == Emit(r, "item.added", id, <<>>)
           b == Emit(a, "arguments.delta", id, call)
           c == Emit(b, "arguments.done", id, call)
           d == Emit(c, "item.done", id, call)
           last == [id |-> id, text |-> call]
           more == Append(s.output, last)
           u == [d EXCEPT !.output = more]
           top == Len(s.output)
<1>1. s \in Streams /\ Orderly(s) /\ s.output \in Seq(Outputs) /\ s.text = <<>>
    BY DEF Standing, Streams
<1>2. /\ id[1] = "function_call" /\ id[2] = s.sequence /\ id \in Items /\ id # Nothing
      /\ id # s.reasoning /\ ~Announced(s.out, id) /\ ~Ended(s.out, id)
      /\ \A n \in DOMAIN s.output : s.output[n].id # id
    BY NextIsNew
<1>3. call \in Seq(Uttered) /\ call \in Seq(Spots \cup Ids)
    BY CallIds DEF Uttered
<1>4. OpenCall(s, p) = [d EXCEPT !.output = Append(@, last)]
    BY DEF OpenCall
<1> HIDE DEF id, call
<1>5. last \in Outputs /\ last.id = id
    BY <1>2, <1>3 DEF Outputs
<1> HIDE DEF last
<1>6. /\ more \in Seq(Outputs) /\ DOMAIN more = 1 .. top + 1 /\ more[top + 1] = last
      /\ \A n \in 1 .. top : more[n] = s.output[n]
      /\ DOMAIN s.output = 1 .. top /\ top \in Nat
    BY <1>1, <1>5
<1>7. r \in Streams /\ r.out = s.out /\ r.sequence = s.sequence /\ r.index = top /\ r.text = s.text
      /\ r.message = Nothing
      /\ r.reasoning = s.reasoning /\ r.output = s.output /\ r.usage = s.usage /\ r.started = s.started
    BY <1>1, NextIndexIs
<1> HIDE DEF r
<1>8. /\ Orderly(r) /\ \A type : Say(r, type) = Say(s, type)
      /\ \A type, i : SayOf(r, type, i) = SayOf(s, type, i)
    BY <1>1, <1>7, SameEvents
<1>9. Emitted(r, a, "item.added", id, <<>>)
  <2>1. Allowed(r, "item.added", id)
      BY <1>2, <1>7 DEF Allowed
  <2> QED
      BY <1>2, <1>7, <1>8, <2>1, EmitGoes, SpokenTypes
<1> HIDE DEF a
<1>10. Emitted(a, b, "arguments.delta", id, call)
  <2>1. Allowed(a, "arguments.delta", id)
      BY <1>2, <1>7, <1>9 DEF Allowed, Emitted
  <2>2. a \in Streams /\ Orderly(a)
      BY <1>9 DEF Emitted
  <2> QED
      BY <1>2, <1>3, <2>1, <2>2, EmitGoes, SpokenTypes
<1> HIDE DEF b
<1>11. Emitted(b, c, "arguments.done", id, call)
  <2>1. Allowed(b, "arguments.done", id)
      BY <1>2, <1>7, <1>9, <1>10 DEF Allowed, Emitted
  <2>2. b \in Streams /\ Orderly(b)
      BY <1>10 DEF Emitted
  <2>3. "arguments.done" \in FrameTypes
      BY DEF FrameTypes
  <2> QED
      BY <1>2, <1>3, <2>1, <2>2, <2>3, EmitGoes
<1> HIDE DEF c
<1>12. Emitted(c, d, "item.done", id, call)
  <2>1. Allowed(c, "item.done", id)
      BY <1>2, <1>7, <1>9, <1>10, <1>11 DEF Allowed, Emitted
  <2>2. c \in Streams /\ Orderly(c)
      BY <1>11 DEF Emitted
  <2> QED
      BY <1>2, <1>3, <2>1, <2>2, EmitGoes, SpokenTypes
<1> HIDE DEF d
<1>13. /\ d \in Streams /\ Orderly(d) /\ d.out # <<>>
       /\ d.index = top /\ d.message = Nothing /\ d.text = s.text /\ d.reasoning = s.reasoning
       /\ d.output = s.output /\ d.usage = s.usage /\ d.started = s.started
    BY <1>7, <1>9, <1>10, <1>11, <1>12 DEF Emitted, SameState
<1>14. OpenCall(s, p) = u
    BY <1>4, <1>13
<1> HIDE DEF more, top
<1>15. u \in Streams /\ u.output = more /\ u.out = d.out /\ u.sequence = d.sequence
       /\ u.index = top /\ u.message = Nothing /\ u.text = s.text /\ u.reasoning = s.reasoning
       /\ u.usage = s.usage /\ u.started = s.started
    BY <1>6, <1>13 DEF Streams
<1> HIDE DEF u
<1>16. /\ Orderly(u) /\ \A type : Say(u, type) = Say(d, type)
       /\ \A type, i : SayOf(u, type, i) = SayOf(d, type, i)
    BY <1>13, <1>15, SameEvents
<1>17. /\ Say(u, "arguments.done") = Say(s, "arguments.done") \o call
       /\ \A type \in Spoken \ {"arguments.done"} : Say(u, type) = Say(s, type)
  <2>1. \A type \in Spoken : Say(b, type) = Say(s, type)
      BY <1>8, <1>9, <1>10, SpokenTypes DEF Emitted
  <2>2. /\ Say(c, "arguments.done") = Say(b, "arguments.done") \o call
        /\ \A type \in Spoken \ {"arguments.done"} : Say(c, type) = Say(b, type)
      BY <1>11, SpokenTypes DEF Emitted
  <2>3. \A type \in Spoken : Say(d, type) = Say(c, type)
      BY <1>12, SpokenTypes DEF Emitted
  <2>4. "arguments.done" \in Spoken
      BY DEF Spoken
  <2> QED
      BY <1>16, <2>1, <2>2, <2>3, <2>4
<1>18. \A type \in {"text.delta", "text.done"} : \A i : SayOf(u, type, i) = SayOf(s, type, i)
  <2>1. \A type \in {"text.delta", "text.done"} : \A i : SayOf(b, type, i) = SayOf(s, type, i)
      BY <1>8, <1>9, <1>10 DEF Emitted
  <2>2. \A type \in {"text.delta", "text.done"} : \A i : SayOf(d, type, i) = SayOf(b, type, i)
      BY <1>11, <1>12 DEF Emitted
  <2> QED
      BY <1>16, <2>1, <2>2
<1>19. \A i : Announced(u.out, i) <=> Announced(s.out, i) \/ i = id
  <2>1. \A i : Announced(b.out, i) <=> Announced(s.out, i) \/ i = id
      BY <1>7, <1>9, <1>10 DEF Emitted
  <2>2. \A i : Announced(u.out, i) <=> Announced(b.out, i)
      BY <1>11, <1>12, <1>15 DEF Emitted
  <2> QED
      BY <2>1, <2>2
<1>20. \A i : Ended(u.out, i) <=> Ended(s.out, i) \/ i = id
  <2>1. \A i : Ended(c.out, i) <=> Ended(s.out, i)
      BY <1>7, <1>9, <1>10, <1>11 DEF Emitted
  <2> QED
      BY <1>12, <1>15, <2>1 DEF Emitted
<1>21. \A i \in Items : \A n : Indexed(u.out, i, n) <=> Indexed(s.out, i, n) /\ (i = id => n = top)
  <2>1. \A i \in Items : \A n : Indexed(b.out, i, n) <=> Indexed(s.out, i, n) /\ (i = id => n = top)
      BY <1>7, <1>9, <1>10 DEF Emitted, SameState
  <2>2. b.index = top /\ c.index = top
      BY <1>7, <1>9, <1>10, <1>11 DEF Emitted, SameState
  <2>3. \A i \in Items : \A n : Indexed(u.out, i, n) <=> Indexed(b.out, i, n) /\ (i = id => n = top)
      BY <1>11, <1>12, <1>15, <2>2 DEF Emitted
  <2> QED
      BY <2>1, <2>3
<1>22. ~Reasoned(u.out) /\ (ReasoningFirst(u.out) <=> ReasoningFirst(s.out))
  <2>1. ~Reasoned(b.out) /\ (ReasoningFirst(b.out) <=> ReasoningFirst(s.out))
      BY <1>2, <1>7, <1>9, <1>10 DEF Emitted
  <2>2. ~Reasoned(u.out) /\ (ReasoningFirst(u.out) <=> ReasoningFirst(b.out))
      BY <1>11, <1>12, <1>15, <2>1 DEF Emitted
  <2> QED
      BY <2>1, <2>2
<1>23. Standing(u)
  <2>1. \A i \in Items :
           /\ Announced(u.out, i) => i[1] = "reasoning" \/ i = u.message \/ Ended(u.out, i)
           /\ i # u.message => SayOf(u, "text.delta", i) = SayOf(u, "text.done", i)
           /\ ~Announced(u.out, i) =>
                 /\ SayOf(u, "text.delta", i) = <<>> /\ SayOf(u, "text.done", i) = <<>>
                 /\ \A n : Indexed(u.out, i, n)
    <3> SUFFICES ASSUME NEW i \in Items
                 PROVE  /\ Announced(u.out, i) => i[1] = "reasoning" \/ Ended(u.out, i)
                        /\ SayOf(u, "text.delta", i) = SayOf(u, "text.done", i)
                        /\ ~Announced(u.out, i) =>
                              /\ SayOf(u, "text.delta", i) = <<>> /\ SayOf(u, "text.done", i) = <<>>
                              /\ \A n : Indexed(u.out, i, n)
        OBVIOUS
    <3>1. i # s.message
        BY ItemsAreThere
    <3>2. Announced(u.out, i) => i[1] = "reasoning" \/ Ended(u.out, i)
        BY <1>19, <1>20, <3>1 DEF Standing
    <3>3. SayOf(u, "text.delta", i) = SayOf(u, "text.done", i)
        BY <1>18, <3>1 DEF Standing
    <3>4. ~Announced(u.out, i) =>
             /\ SayOf(u, "text.delta", i) = <<>> /\ SayOf(u, "text.done", i) = <<>>
             /\ \A n : Indexed(u.out, i, n)
        BY <1>18, <1>19, <1>21 DEF Standing
    <3> QED
        BY <3>2, <3>3, <3>4
  <2>2. u.reasoning # Nothing =>
           u.reasoning[1] = "reasoning" /\ Announced(u.out, u.reasoning) /\ ~Ended(u.out, u.reasoning)
      BY <1>2, <1>15, <1>19, <1>20 DEF Standing
  <2>3. \A n \in DOMAIN u.output : Announced(u.out, u.output[n].id) /\ u.output[n].id # u.message
    <3> SUFFICES ASSUME NEW n \in DOMAIN u.output
                 PROVE  Announced(u.out, u.output[n].id) /\ u.output[n].id # u.message
        OBVIOUS
    <3>1. CASE n \in 1 .. top
      <4>1. Announced(s.out, s.output[n].id) /\ s.output[n].id # s.message /\ u.output[n] = s.output[n]
          BY <1>6, <1>15, <3>1 DEF Standing
      <4> QED
          BY <1>15, <1>19, <4>1
    <3>2. CASE n = top + 1
        BY <1>2, <1>5, <1>6, <1>15, <1>19, <3>2
    <3> QED
        BY <1>6, <1>15, <3>1, <3>2
  <2>4. \A k, n \in DOMAIN u.output : u.output[k].id = u.output[n].id => k = n
    <3>1. \A n \in 1 .. top : u.output[n].id # id /\ u.output[n] = s.output[n]
        BY <1>2, <1>6, <1>15
    <3>2. u.output[top + 1].id = id
        BY <1>5, <1>6, <1>15
    <3>3. \A k, n \in 1 .. top : s.output[k].id = s.output[n].id => k = n
        BY <1>6 DEF Standing
    <3>4. \A n \in DOMAIN u.output : n \in 1 .. top \/ n = top + 1
        BY <1>6, <1>15
    <3> QED
        BY <3>1, <3>2, <3>3, <3>4
  <2>5. u.started <=> u.out # <<>>
      BY <1>13, <1>15 DEF Standing
  <2>6. u.message = Nothing /\ u.text = <<>>
      BY <1>1, <1>15
  <2> QED
      BY <1>15, <1>16, <2>1, <2>2, <2>3, <2>4, <2>5, <2>6 DEF Standing
<1>24. Placed(u)
  <2> SUFFICES ASSUME ReasoningFirst(s.out)
               PROVE  \A i \in Items : Announced(u.out, i) =>
                            \E n \in DOMAIN u.output : u.output[n].id = i /\ Indexed(u.out, i, n - 1)
      BY <1>15, <1>22 DEF Placed
  <2> SUFFICES ASSUME NEW i \in Items, Announced(u.out, i)
               PROVE  \E n \in DOMAIN u.output : u.output[n].id = i /\ Indexed(u.out, i, n - 1)
      OBVIOUS
  <2>1. CASE i # id
    <3>1. i # s.message
        BY ItemsAreThere
    <3>2. Announced(s.out, i)
        BY <1>19, <2>1
    <3>3. PICK n \in DOMAIN s.output : s.output[n].id = i /\ Indexed(s.out, i, n - 1)
        BY <3>1, <3>2 DEF Placed
    <3>4. Indexed(u.out, i, n - 1)
        BY <2>1, <3>3, <1>21
    <3>5. n \in DOMAIN u.output /\ u.output[n] = s.output[n]
        BY <3>3, <1>6, <1>15
    <3> QED
        BY <3>3, <3>4, <3>5
  <2>2. CASE i = id
    <3> DEFINE n == top + 1
    <3>1. n - 1 = top
        BY <1>6
    <3>2. Indexed(s.out, id, top)
        BY <1>2 DEF Standing
    <3>3. Indexed(u.out, id, n - 1)
        BY <1>2, <1>21, <3>1, <3>2
    <3>4. n \in DOMAIN u.output /\ u.output[n].id = id
        BY <1>5, <1>6, <1>15
    <3> HIDE DEF n
    <3> QED
        BY <2>2, <3>3, <3>4
  <2> QED
      BY <2>1, <2>2
<1> QED
    BY <1>13, <1>14, <1>15, <1>17, <1>23, <1>24 DEF call

LEMMA NoMessageReasoned ==
    ASSUME NEW s, Standing(s), Reasoned(s.out)
    PROVE  s.message = Nothing
<1>1. ASSUME s.message # Nothing PROVE FALSE
  <2>1. s.message[1] = "message" /\ Announced(s.out, s.message)
      BY <1>1 DEF Standing
  <2>2. s.message[1] = "reasoning"
      BY <1>1, <2>1, ReasonedTells
  <2> QED
      BY <2>1, <2>2
<1> QED
    BY <1>1

\* More of the reasoning.
LEMMA ThinkingGoesOn ==
    ASSUME NEW s, Standing(s), Placed(s), s.out # <<>>, s.reasoning # Nothing, NEW spot \in Spots
    PROVE  LET u == Emit(s, "reasoning.delta", s.reasoning, <<spot>>)
           IN /\ Standing(u) /\ Placed(u) /\ u.out # <<>> /\ u.usage = s.usage /\ u.text = s.text
              /\ Say(u, "reasoning.delta") = Say(s, "reasoning.delta") \o <<spot>>
              /\ \A type \in Spoken \ {"reasoning.delta"} : Say(u, type) = Say(s, type)
<1> DEFINE what == <<spot>>
           id == s.reasoning
           u == Emit(s, "reasoning.delta", id, what)
<1>1. s \in Streams /\ Orderly(s)
    BY DEF Standing
<1>2. what \in Seq(Uttered) /\ id \in Items /\ id # Nothing
  <2>1. spot \in Uttered
      BY DEF Uttered
  <2> QED
      BY <1>1, <2>1 DEF Streams
<1>3. id[1] = "reasoning" /\ Announced(s.out, id) /\ ~Ended(s.out, id)
    BY DEF Standing
<1> HIDE DEF what
<1>4. Emitted(s, u, "reasoning.delta", id, what)
  <2>1. Allowed(s, "reasoning.delta", id)
      BY <1>2, <1>3 DEF Allowed
  <2>2. "reasoning.delta" \in FrameTypes
      BY DEF FrameTypes
  <2> QED
      BY <1>1, <1>2, <2>1, <2>2, EmitGoes
<1> HIDE DEF u, id
<1>5. /\ u \in Streams /\ Orderly(u) /\ u.out # <<>>
      /\ u.index = s.index /\ u.message = s.message /\ u.text = s.text /\ u.reasoning = s.reasoning
      /\ u.output = s.output /\ u.usage = s.usage /\ u.started = s.started
    BY <1>4 DEF Emitted, SameState
<1>6. /\ Say(u, "reasoning.delta") = Say(s, "reasoning.delta") \o what
      /\ \A type \in Spoken \ {"reasoning.delta"} : Say(u, type) = Say(s, type)
    BY <1>4, SpokenTypes DEF Emitted
<1>7. \A type \in {"text.delta", "text.done"} : \A i : SayOf(u, type, i) = SayOf(s, type, i)
    BY <1>4 DEF Emitted
<1>8. \A i : (Announced(u.out, i) <=> Announced(s.out, i)) /\ (Ended(u.out, i) <=> Ended(s.out, i))
    BY <1>4 DEF Emitted
<1>9. \A i \in Items : \A n : Indexed(u.out, i, n) <=> Indexed(s.out, i, n) /\ (i = id => n = s.index)
    BY <1>4 DEF Emitted
<1>10. ReasoningFirst(u.out) => ReasoningFirst(s.out) /\ Reasoned(s.out)
    BY <1>4 DEF Emitted
<1>11. Standing(u)
  <2>1. \A i \in Items :
           /\ Announced(u.out, i) => i[1] = "reasoning" \/ i = u.message \/ Ended(u.out, i)
           /\ i # u.message => SayOf(u, "text.delta", i) = SayOf(u, "text.done", i)
           /\ ~Announced(u.out, i) =>
                 /\ SayOf(u, "text.delta", i) = <<>> /\ SayOf(u, "text.done", i) = <<>>
                 /\ \A n : Indexed(u.out, i, n)
    <3> SUFFICES ASSUME NEW i \in Items
                 PROVE  /\ Announced(u.out, i) => i[1] = "reasoning" \/ i = u.message \/ Ended(u.out, i)
                        /\ i # u.message => SayOf(u, "text.delta", i) = SayOf(u, "text.done", i)
                        /\ ~Announced(u.out, i) =>
                              /\ SayOf(u, "text.delta", i) = <<>> /\ SayOf(u, "text.done", i) = <<>>
                              /\ \A n : Indexed(u.out, i, n)
        OBVIOUS
    <3>1. Announced(u.out, i) => i[1] = "reasoning" \/ i = u.message \/ Ended(u.out, i)
        BY <1>5, <1>8 DEF Standing
    <3>2. i # u.message => SayOf(u, "text.delta", i) = SayOf(u, "text.done", i)
        BY <1>5, <1>7 DEF Standing
    <3>3. ~Announced(u.out, i) =>
             /\ SayOf(u, "text.delta", i) = <<>> /\ SayOf(u, "text.done", i) = <<>>
             /\ \A n : Indexed(u.out, i, n)
        BY <1>3, <1>7, <1>8, <1>9 DEF Standing
    <3> QED
        BY <3>1, <3>2, <3>3
  <2>2. IF u.message = Nothing THEN u.text = <<>>
        ELSE /\ u.message[1] = "message" /\ Announced(u.out, u.message) /\ ~Ended(u.out, u.message)
             /\ SayOf(u, "text.delta", u.message) = u.text
             /\ SayOf(u, "text.done", u.message) = <<>>
      BY <1>5, <1>7, <1>8 DEF Standing
  <2>3. u.reasoning # Nothing =>
           u.reasoning[1] = "reasoning" /\ Announced(u.out, u.reasoning) /\ ~Ended(u.out, u.reasoning)
      BY <1>5, <1>8 DEF Standing
  <2>4. /\ \A k, n \in DOMAIN u.output : u.output[k].id = u.output[n].id => k = n
        /\ \A n \in DOMAIN u.output : Announced(u.out, u.output[n].id) /\ u.output[n].id # u.message
      BY <1>5, <1>8 DEF Standing
  <2>5. u.started <=> u.out # <<>>
      BY <1>5 DEF Standing
  <2> QED
      BY <1>5, <2>1, <2>2, <2>3, <2>4, <2>5 DEF Standing
<1>12. Placed(u)
  <2> SUFFICES ASSUME ReasoningFirst(s.out), Reasoned(s.out)
               PROVE  /\ \A i \in Items : Announced(u.out, i) =>
                            \E n \in DOMAIN u.output : u.output[n].id = i /\ Indexed(u.out, i, n - 1)
                      /\ u.message = Nothing
                      /\ u.index + 1 \in DOMAIN u.output /\ u.output[u.index + 1].id = u.reasoning
      BY <1>10 DEF Placed
  <2>1. s.message = Nothing
      BY NoMessageReasoned
  <2>2. s.index + 1 \in DOMAIN s.output /\ s.output[s.index + 1].id = id
      BY <1>2 DEF Placed, id
  <2>3. ASSUME NEW i \in Items, Announced(u.out, i)
        PROVE  \E n \in DOMAIN u.output : u.output[n].id = i /\ Indexed(u.out, i, n - 1)
    <3>1. Announced(s.out, i) /\ i # s.message
        BY <1>8, <2>1, <2>3, ItemsAreThere
    <3>2. PICK n \in DOMAIN s.output : s.output[n].id = i /\ Indexed(s.out, i, n - 1)
        BY <3>1 DEF Placed
    <3>3. i = id => n - 1 = s.index
      <4>1. i = id => n = s.index + 1
          BY <2>2, <3>2 DEF Standing
      <4>2. s.index \in Nat
          BY <1>1 DEF Streams
      <4> QED
          BY <4>1, <4>2
    <3>4. Indexed(u.out, i, n - 1)
        BY <1>9, <3>2, <3>3
    <3> QED
        BY <1>5, <3>2, <3>4
  <2> QED
      BY <1>5, <2>1, <2>2, <2>3 DEF id
<1> QED
    BY <1>5, <1>6, <1>11, <1>12 DEF u, what, id

\* The reasoning begins, and takes its place in the output.
LEMMA ThinkingBegins ==
    ASSUME NEW s, Standing(s), Placed(s), s.out # <<>>, s.reasoning = Nothing, NEW spot \in Spots
    PROVE  LET v == OpenReasoning(s)
               u == Emit(v, "reasoning.delta", v.reasoning, <<spot>>)
           IN /\ Standing(u) /\ Placed(u) /\ u.out # <<>> /\ u.usage = s.usage /\ u.text = s.text
              /\ Say(u, "reasoning.delta") = Say(s, "reasoning.delta") \o <<spot>>
              /\ \A type \in Spoken \ {"reasoning.delta"} : Say(u, type) = Say(s, type)
<1> DEFINE what == <<spot>>
           id == NewItem(s, "reasoning")
           r == NextIndex(s)
           a == [r EXCEPT !.reasoning = id]
           b == Emit(a, "item.added", id, <<>>)
           last == [id |-> id, text |-> <<>>]
           more == Append(s.output, last)
           c == [b EXCEPT !.output = more]
           u == Emit(c, "reasoning.delta", id, what)
           top == Len(s.output)
<1>1. s \in Streams /\ Orderly(s) /\ s.output \in Seq(Outputs)
    BY DEF Standing, Streams
<1>2. /\ id[1] = "reasoning" /\ id[2] = s.sequence /\ id \in Items /\ id # Nothing
      /\ id # s.message /\ ~Announced(s.out, id) /\ ~Ended(s.out, id)
      /\ \A n \in DOMAIN s.output : s.output[n].id # id
    BY NextIsNew
<1>3. what \in Seq(Uttered) /\ <<>> \in Seq(Spots \cup Ids)
  <2>1. spot \in Uttered
      BY DEF Uttered
  <2> QED
      BY <2>1
<1>4. OpenReasoning(s) = [b EXCEPT !.output = Append(@, last)]
    BY DEF OpenReasoning
<1> HIDE DEF id, what
<1>5. last \in Outputs /\ last.id = id
    BY <1>2, <1>3 DEF Outputs
<1> HIDE DEF last
<1>6. /\ more \in Seq(Outputs) /\ DOMAIN more = 1 .. top + 1 /\ more[top + 1] = last
      /\ \A n \in 1 .. top : more[n] = s.output[n]
      /\ DOMAIN s.output = 1 .. top /\ top \in Nat
    BY <1>1, <1>5
<1>7. r \in Streams /\ r.out = s.out /\ r.sequence = s.sequence /\ r.index = top /\ r.text = s.text
      /\ r.message = s.message
      /\ r.output = s.output /\ r.usage = s.usage /\ r.started = s.started
    BY <1>1, NextIndexIs
<1> HIDE DEF r
<1>8. a \in Streams /\ a.out = s.out /\ a.sequence = s.sequence /\ a.index = top /\ a.text = s.text
      /\ a.message = s.message /\ a.reasoning = id
      /\ a.output = s.output /\ a.usage = s.usage /\ a.started = s.started
    BY <1>2, <1>7 DEF Streams
<1> HIDE DEF a
<1>9. /\ Orderly(a) /\ \A type : Say(a, type) = Say(s, type)
      /\ \A type, i : SayOf(a, type, i) = SayOf(s, type, i)
    BY <1>1, <1>8, SameEvents
<1>10. Emitted(a, b, "item.added", id, <<>>)
  <2>1. Allowed(a, "item.added", id)
      BY <1>2, <1>8 DEF Allowed
  <2> QED
      BY <1>2, <1>8, <1>9, <2>1, EmitGoes, SpokenTypes
<1> HIDE DEF b
<1>11. /\ b \in Streams /\ Orderly(b) /\ b.out # <<>>
       /\ b.index = top /\ b.message = s.message /\ b.text = s.text /\ b.reasoning = id
       /\ b.output = s.output /\ b.usage = s.usage /\ b.started = s.started
    BY <1>8, <1>10 DEF Emitted, SameState
<1>12. OpenReasoning(s) = c
    BY <1>4, <1>11
<1> HIDE DEF more
<1>13. c \in Streams /\ c.output = more /\ c.out = b.out /\ c.sequence = b.sequence
       /\ c.index = top /\ c.message = s.message /\ c.text = s.text /\ c.reasoning = id
       /\ c.usage = s.usage /\ c.started = s.started
    BY <1>6, <1>11 DEF Streams
<1> HIDE DEF c
<1>14. /\ Orderly(c) /\ \A type : Say(c, type) = Say(b, type)
       /\ \A type, i : SayOf(c, type, i) = SayOf(b, type, i)
    BY <1>11, <1>13, SameEvents
<1>15. Emitted(c, u, "reasoning.delta", id, what)
  <2>1. Allowed(c, "reasoning.delta", id)
      BY <1>2, <1>8, <1>10, <1>13 DEF Allowed, Emitted
  <2>2. "reasoning.delta" \in FrameTypes
      BY DEF FrameTypes
  <2> QED
      BY <1>2, <1>3, <1>13, <1>14, <2>1, <2>2, EmitGoes
<1> HIDE DEF u, top
<1>16. /\ u \in Streams /\ Orderly(u) /\ u.out # <<>>
       /\ u.index = top /\ u.message = s.message /\ u.text = s.text /\ u.reasoning = id
       /\ u.output = more /\ u.usage = s.usage /\ u.started = s.started
    BY <1>13, <1>15 DEF Emitted, SameState
<1>17. /\ Say(u, "reasoning.delta") = Say(s, "reasoning.delta") \o what
       /\ \A type \in Spoken \ {"reasoning.delta"} : Say(u, type) = Say(s, type)
  <2>1. \A type \in Spoken : Say(c, type) = Say(s, type)
      BY <1>9, <1>10, <1>14, SpokenTypes DEF Emitted
  <2>2. /\ Say(u, "reasoning.delta") = Say(c, "reasoning.delta") \o what
        /\ \A type \in Spoken \ {"reasoning.delta"} : Say(u, type) = Say(c, type)
      BY <1>15, SpokenTypes DEF Emitted
  <2>3. "reasoning.delta" \in Spoken
      BY DEF Spoken
  <2> QED
      BY <2>1, <2>2, <2>3
<1>18. \A type \in {"text.delta", "text.done"} : \A i : SayOf(u, type, i) = SayOf(s, type, i)
    BY <1>9, <1>10, <1>14, <1>15 DEF Emitted
<1>19. \A i : Announced(u.out, i) <=> Announced(s.out, i) \/ i = id
    BY <1>8, <1>10, <1>13, <1>15 DEF Emitted
<1>20. \A i : Ended(u.out, i) <=> Ended(s.out, i)
    BY <1>8, <1>10, <1>13, <1>15 DEF Emitted
<1>21. \A i \in Items : \A n : Indexed(u.out, i, n) <=> Indexed(s.out, i, n) /\ (i = id => n = top)
    BY <1>8, <1>10, <1>13, <1>15 DEF Emitted
<1>22. ReasoningFirst(u.out) => ReasoningFirst(s.out) /\ Reasoned(s.out)
    BY <1>8, <1>10, <1>13, <1>15 DEF Emitted
<1>23. Standing(u)
  <2>1. \A i \in Items :
           /\ Announced(u.out, i) => i[1] = "reasoning" \/ i = u.message \/ Ended(u.out, i)
           /\ i # u.message => SayOf(u, "text.delta", i) = SayOf(u, "text.done", i)
           /\ ~Announced(u.out, i) =>
                 /\ SayOf(u, "text.delta", i) = <<>> /\ SayOf(u, "text.done", i) = <<>>
                 /\ \A n : Indexed(u.out, i, n)
    <3> SUFFICES ASSUME NEW i \in Items
                 PROVE  /\ Announced(u.out, i) => i[1] = "reasoning" \/ i = u.message \/ Ended(u.out, i)
                        /\ i # u.message => SayOf(u, "text.delta", i) = SayOf(u, "text.done", i)
                        /\ ~Announced(u.out, i) =>
                              /\ SayOf(u, "text.delta", i) = <<>> /\ SayOf(u, "text.done", i) = <<>>
                              /\ \A n : Indexed(u.out, i, n)
        OBVIOUS
    <3>1. Announced(u.out, i) => i[1] = "reasoning" \/ i = u.message \/ Ended(u.out, i)
        BY <1>2, <1>16, <1>19, <1>20 DEF Standing
    <3>2. i # u.message => SayOf(u, "text.delta", i) = SayOf(u, "text.done", i)
        BY <1>16, <1>18 DEF Standing
    <3>3. ~Announced(u.out, i) =>
             /\ SayOf(u, "text.delta", i) = <<>> /\ SayOf(u, "text.done", i) = <<>>
             /\ \A n : Indexed(u.out, i, n)
        BY <1>18, <1>19, <1>21 DEF Standing
    <3> QED
        BY <3>1, <3>2, <3>3
  <2>2. IF u.message = Nothing THEN u.text = <<>>
        ELSE /\ u.message[1] = "message" /\ Announced(u.out, u.message) /\ ~Ended(u.out, u.message)
             /\ SayOf(u, "text.delta", u.message) = u.text
             /\ SayOf(u, "text.done", u.message) = <<>>
      BY <1>16, <1>18, <1>19, <1>20 DEF Standing
  <2>3. u.reasoning[1] = "reasoning" /\ Announced(u.out, u.reasoning) /\ ~Ended(u.out, u.reasoning)
      BY <1>2, <1>16, <1>19, <1>20
  <2>4. \A n \in DOMAIN u.output : Announced(u.out, u.output[n].id) /\ u.output[n].id # u.message
    <3> SUFFICES ASSUME NEW n \in DOMAIN u.output
                 PROVE  Announced(u.out, u.output[n].id) /\ u.output[n].id # u.message
        OBVIOUS
    <3>1. CASE n \in 1 .. top
      <4>1. Announced(s.out, s.output[n].id) /\ s.output[n].id # s.message /\ u.output[n] = s.output[n]
          BY <1>6, <1>16, <3>1 DEF Standing
      <4> QED
          BY <1>16, <1>19, <4>1
    <3>2. CASE n = top + 1
        BY <1>2, <1>5, <1>6, <1>16, <1>19, <3>2
    <3> QED
        BY <1>6, <1>16, <3>1, <3>2
  <2>5. \A k, n \in DOMAIN u.output : u.output[k].id = u.output[n].id => k = n
    <3>1. \A n \in 1 .. top : u.output[n].id # id /\ u.output[n] = s.output[n]
        BY <1>2, <1>6, <1>16
    <3>2. u.output[top + 1].id = id
        BY <1>5, <1>6, <1>16
    <3>3. \A k, n \in 1 .. top : s.output[k].id = s.output[n].id => k = n
        BY <1>6 DEF Standing
    <3>4. \A n \in DOMAIN u.output : n \in 1 .. top \/ n = top + 1
        BY <1>6, <1>16
    <3> QED
        BY <3>1, <3>2, <3>3, <3>4
  <2>6. u.started <=> u.out # <<>>
      BY <1>16 DEF Standing
  <2> QED
      BY <1>16, <2>1, <2>2, <2>3, <2>4, <2>5, <2>6 DEF Standing
<1>24. Placed(u)
  <2> SUFFICES ASSUME ReasoningFirst(s.out), Reasoned(s.out)
               PROVE  /\ \A i \in Items : Announced(u.out, i) =>
                            \E n \in DOMAIN u.output : u.output[n].id = i /\ Indexed(u.out, i, n - 1)
                      /\ u.message = Nothing
                      /\ u.index + 1 \in DOMAIN u.output /\ u.output[u.index + 1].id = u.reasoning
      BY <1>22 DEF Placed
  <2>1. s.message = Nothing
      BY NoMessageReasoned
  <2>2. u.index + 1 \in DOMAIN u.output /\ u.output[u.index + 1].id = u.reasoning
      BY <1>5, <1>6, <1>16
  <2>3. ASSUME NEW i \in Items, Announced(u.out, i), i # id
        PROVE  \E n \in DOMAIN u.output : u.output[n].id = i /\ Indexed(u.out, i, n - 1)
    <3>1. Announced(s.out, i) /\ i # s.message
        BY <1>19, <2>1, <2>3, ItemsAreThere
    <3>2. PICK n \in DOMAIN s.output : s.output[n].id = i /\ Indexed(s.out, i, n - 1)
        BY <3>1 DEF Placed
    <3>3. Indexed(u.out, i, n - 1)
        BY <1>21, <2>3, <3>2
    <3>4. n \in DOMAIN u.output /\ u.output[n] = s.output[n]
        BY <3>2, <1>6, <1>16
    <3> QED
        BY <3>2, <3>3, <3>4
  <2>4. \E n \in DOMAIN u.output : u.output[n].id = id /\ Indexed(u.out, id, n - 1)
    <3> DEFINE n == top + 1
    <3>1. n - 1 = top
        BY <1>6
    <3>2. Indexed(s.out, id, top)
        BY <1>2 DEF Standing
    <3>3. Indexed(u.out, id, n - 1)
        BY <1>2, <1>21, <3>1, <3>2
    <3>4. n \in DOMAIN u.output /\ u.output[n].id = id
        BY <1>5, <1>6, <1>16
    <3> HIDE DEF n
    <3> QED
        BY <3>3, <3>4
  <2>5. u.message = Nothing
      BY <1>16, <2>1
  <2> QED
      BY <2>2, <2>3, <2>4, <2>5
<1> QED
    BY <1>12, <1>13, <1>16, <1>17, <1>23, <1>24 DEF u, what

\* A new stream has said nothing.
LEMMA ToldNothing == \A S : Told(<<>>, S) = <<>>
<1>1. [k \in DOMAIN <<>> |-> (<<>>)[k].what] = <<>>
    OBVIOUS
<1> QED
    BY <1>1, JoinedNothing, Zenon DEF Told

LEMMA NewStreamStands ==
    LET s == NewResponsesStream
    IN /\ Standing(s) /\ Placed(s) /\ s.usage = Nothing /\ s.text = <<>>
       /\ \A type : Say(s, type) = <<>>
<1> DEFINE s == NewResponsesStream
<1>1. /\ s \in Streams /\ s.out = <<>> /\ s.message = Nothing /\ s.text = <<>> /\ s.reasoning = Nothing
      /\ s.output = <<>> /\ s.usage = Nothing /\ s.started = FALSE /\ s.sequence = 0
  <2>1. <<>> \in Seq(Spots) /\ <<>> \in Seq(Outputs) /\ <<>> \in Seq(Frames)
      OBVIOUS
  <2>2. Nothing \in Usages
      BY DEF Usages
  <2> QED
      BY <2>1, <2>2 DEF NewResponsesStream, Streams, Nothing
<1> HIDE DEF s
<1>2. DOMAIN s.out = {} /\ DOMAIN s.output = {} /\ Len(s.out) = 0
    BY <1>1
<1>3. \A type : Say(s, type) = <<>>
    BY <1>1, ToldNothing DEF Say
<1>4. \A type, id : SayOf(s, type, id) = <<>>
    BY <1>1, ToldNothing DEF SayOf
<1>5. \A id : ~Announced(s.out, id) /\ ~Ended(s.out, id) /\ \A i : Indexed(s.out, id, i)
    BY <1>2 DEF Announced, Ended, Indexed
<1>6. Orderly(s)
    BY <1>1, <1>2 DEF Orderly
<1>7. Standing(s)
    BY <1>1, <1>2, <1>4, <1>5, <1>6 DEF Standing
<1>8. Placed(s)
    BY <1>1, <1>5 DEF Placed
<1> QED
    BY <1>1, <1>3, <1>7, <1>8 DEF s

\* The opening events are about no item.
LEMMA StartGoes ==
    ASSUME NEW s, Standing(s), Placed(s)
    PROVE  LET u == Start(s)
           IN /\ Standing(u) /\ Placed(u) /\ u.out # <<>> /\ u.usage = s.usage /\ u.text = s.text
              /\ \A type \in Spoken : Say(u, type) = Say(s, type)
<1> DEFINE a == [s EXCEPT !.started = TRUE]
           b == Emit(a, "created", Nothing, <<>>)
           u == Emit(b, "in_progress", Nothing, <<>>)
<1>1. s \in Streams /\ Orderly(s)
    BY DEF Standing
<1>2. CASE s.started
  <2>1. Start(s) = s /\ s.out # <<>>
      BY <1>2 DEF Start, Standing
  <2> QED
      BY <2>1
<1>3. CASE ~s.started
  <2>1. Start(s) = u /\ s.out = <<>>
      BY <1>3 DEF Start, Standing
  <2>2. a \in Streams
      BY <1>1 DEF Streams
  <2>3. a.out = s.out /\ a.sequence = s.sequence /\ a.index = s.index /\ a.text = s.text
        /\ a.message = s.message /\ a.reasoning = s.reasoning /\ a.output = s.output
        /\ a.usage = s.usage /\ a.started = TRUE
      BY <1>1 DEF Streams
  <2> HIDE DEF a
  <2>4. /\ Orderly(a) /\ \A type : Say(a, type) = Say(s, type)
        /\ \A type, i : SayOf(a, type, i) = SayOf(s, type, i)
      BY <1>1, <2>3, SameEvents
  <2>5. <<>> \in Seq(Uttered) /\ "created" \in FrameTypes /\ "in_progress" \in FrameTypes
      BY SpokenTypes DEF FrameTypes
  <2>6. "created" \notin Spoken /\ "in_progress" \notin Spoken
      BY DEF Spoken
  <2>7. Emitted(a, b, "created", Nothing, <<>>)
    <3>1. Allowed(a, "created", Nothing)
        BY <2>1, <2>3 DEF Allowed
    <3> QED
        BY <2>2, <2>4, <2>5, <3>1, EmitGoes
  <2> HIDE DEF b
  <2>8. Emitted(b, u, "in_progress", Nothing, <<>>)
    <3>1. Allowed(b, "in_progress", Nothing)
        BY <2>7 DEF Allowed, Emitted
    <3>2. b \in Streams /\ Orderly(b)
        BY <2>7 DEF Emitted
    <3> QED
        BY <2>5, <3>1, <3>2, EmitGoes
  <2> HIDE DEF u
  <2>9. /\ u \in Streams /\ Orderly(u) /\ u.out # <<>>
        /\ u.index = s.index /\ u.message = s.message /\ u.text = s.text /\ u.reasoning = s.reasoning
        /\ u.output = s.output /\ u.usage = s.usage /\ u.started = TRUE
      BY <2>3, <2>7, <2>8 DEF Emitted, SameState
  <2>10. \A type \in Spoken : Say(u, type) = Say(s, type)
      BY <2>4, <2>6, <2>7, <2>8, SpokenTypes DEF Emitted
  <2>11. \A type \in {"text.delta", "text.done"} : \A i : SayOf(u, type, i) = SayOf(s, type, i)
      BY <2>4, <2>7, <2>8 DEF Emitted
  <2>12. \A i : (Announced(u.out, i) <=> Announced(s.out, i)) /\ (Ended(u.out, i) <=> Ended(s.out, i))
      BY <2>3, <2>7, <2>8 DEF Emitted
  <2>13. \A i \in Items : \A n : Indexed(u.out, i, n) <=> Indexed(s.out, i, n)
      BY <2>3, <2>7, <2>8, ItemsAreThere DEF Emitted
  <2>14. ReasoningFirst(s.out)
      BY <2>1 DEF ReasoningFirst
  <2>15. s.message = Nothing /\ s.reasoning = Nothing /\ \A i : ~Announced(s.out, i)
    <3>1. DOMAIN s.out = {}
        BY <2>1
    <3>2. \A i : ~Announced(s.out, i)
        BY <3>1 DEF Announced
    <3> QED
        BY <3>2 DEF Standing
  <2>16. Standing(u)
    <3>1. \A i \in Items :
             /\ Announced(u.out, i) => i[1] = "reasoning" \/ i = u.message \/ Ended(u.out, i)
             /\ i # u.message => SayOf(u, "text.delta", i) = SayOf(u, "text.done", i)
             /\ ~Announced(u.out, i) =>
                   /\ SayOf(u, "text.delta", i) = <<>> /\ SayOf(u, "text.done", i) = <<>>
                   /\ \A n : Indexed(u.out, i, n)
        BY <2>9, <2>11, <2>12, <2>13, <2>15 DEF Standing
    <3>2. u.text = <<>>
        BY <2>9, <2>15 DEF Standing
    <3>3. /\ \A m, n \in DOMAIN u.output : u.output[m].id = u.output[n].id => m = n
          /\ \A n \in DOMAIN u.output : Announced(u.out, u.output[n].id) /\ u.output[n].id # u.message
        BY <2>9, <2>12 DEF Standing
    <3> QED
        BY <2>9, <2>15, <3>1, <3>2, <3>3 DEF Standing
  <2>17. Placed(u)
      BY <2>9, <2>12, <2>15 DEF Placed
  <2> QED
      BY <2>1, <2>9, <2>10, <2>16, <2>17
<1> QED
    BY <1>2, <1>3

Called(tools) == [k \in DOMAIN tools |-> ResponsesCallId(tools[k])]

LEMMA CalledAppend ==
    ASSUME NEW tools \in Seq(Pieces), NEW p \in Pieces
    PROVE  Called(Append(tools, p)) = Called(tools) \o <<ResponsesCallId(p)>>
<1> DEFINE more == Append(tools, p)
           n == Len(tools)
           id == ResponsesCallId(p)
           a == Called(tools)
           b == Called(more)
<1>1. /\ n \in Nat /\ DOMAIN more = 1 .. n + 1 /\ DOMAIN tools = 1 .. n
      /\ more[n + 1] = p /\ \A k \in 1 .. n : more[k] = tools[k] /\ tools[k] \in Pieces
    OBVIOUS
<1>2. id \in Ids
    BY CallIds
<1>3. DOMAIN a = 1 .. n /\ DOMAIN b = 1 .. n + 1
    BY <1>1 DEF Called
<1>4. \A k \in 1 .. n : a[k] \in Ids /\ b[k] = a[k]
    BY <1>1, CallIds DEF Called
<1>5. b[n + 1] = id
    BY <1>1 DEF Called
<1>6. a \in Seq(Ids) /\ b = Append(a, id)
  <2>1. a = [k \in 1 .. n |-> a[k]]
      BY <1>1 DEF Called
  <2>2. b = [k \in 1 .. n + 1 |-> b[k]]
      BY <1>1 DEF Called
  <2> HIDE DEF a, b, n, more, id
  <2>3. a \in [1 .. n -> Ids]
      BY <1>3, <1>4, <2>1
  <2>4. a \in Seq(Ids) /\ Len(a) = n
    <3>1. a \in Seq(Ids)
        BY <1>1, <2>3
    <3> QED
        BY <1>1, <3>1, <1>3
  <2>5. b \in Seq(Ids) /\ Len(b) = n + 1
    <3>1. \A k \in 1 .. n + 1 : b[k] \in Ids
        BY <1>1, <1>2, <1>4, <1>5
    <3>2. b \in [1 .. n + 1 -> Ids] /\ n + 1 \in Nat
        BY <1>1, <2>2, <3>1
    <3>3. b \in Seq(Ids)
        BY <3>2
    <3> QED
        BY <1>1, <1>3, <3>3
  <2>6. /\ Append(a, id) \in Seq(Ids) /\ Len(Append(a, id)) = n + 1 /\ Append(a, id)[n + 1] = id
        /\ \A k \in 1 .. n : Append(a, id)[k] = a[k]
      BY <1>2, <2>4
  <2>7. \A k \in 1 .. n + 1 : b[k] = Append(a, id)[k]
      BY <1>1, <1>4, <1>5, <2>6
  <2> QED
      BY <2>4, <2>5, <2>6, <2>7, SeqEqual
<1> HIDE DEF a, b, n, more, id
<1>7. b = a \o <<id>>
    BY <1>2, <1>6, AppendIsConcat
<1> QED
    BY <1>7 DEF a, b, more, id

\* What a stream has said of the parts it was given, and what is still to be
\* repeated when its message ends.
ResponsesSays(s, parts) ==
    /\ Say(s, "text.delta") = Places(OfKind(parts, "text"))
    /\ Say(s, "text.done") \o s.text = Places(OfKind(parts, "text"))
    /\ Say(s, "arguments.done") = Called(OfKind(parts, "tool"))
    /\ Say(s, "reasoning.delta") = Places(OfKind(parts, "thinking"))

LEMMA ResponsesPartSays ==
    ASSUME NEW s, Standing(s), Placed(s), s.out # <<>>, NEW parts \in Seq(Pieces), ResponsesSays(s, parts),
           NEW p \in Pieces
    PROVE  LET u == ResponsesPart(s, p)
           IN /\ Standing(u) /\ Placed(u) /\ u.out # <<>> /\ u.usage = s.usage
              /\ ResponsesSays(u, Append(parts, p))
<1> DEFINE u == ResponsesPart(s, p)
           k == Classify(p)
           more == Append(parts, p)
           spot == p.at
           what == <<spot>>
<1>1. k \in {"tool", "thinking", "text", "signature", "empty"} /\ spot \in Spots
    BY PieceTypes
<1>2. s.text \in Seq(Uttered) /\ what \in Seq(Uttered)
  <2>1. s.text \in Seq(Spots)
      BY DEF Standing, Streams
  <2> QED
      BY <1>1, <2>1 DEF Uttered
<1>3. \A type : Say(s, type) \in Seq(Uttered)
  <2>1. s \in Streams
      BY DEF Standing
  <2> QED
      BY <2>1, SayType
<1>4. ASSUME NEW kind, k = kind
      PROVE  /\ OfKind(more, kind) = Append(OfKind(parts, kind), p)
             /\ Places(OfKind(more, kind)) = Places(OfKind(parts, kind)) \o what
             /\ Called(OfKind(more, kind)) = Called(OfKind(parts, kind)) \o <<ResponsesCallId(p)>>
  <2>1. OfKind(more, kind) = Append(OfKind(parts, kind), p)
      BY <1>4, OfKindAppend
  <2>2. OfKind(parts, kind) \in Seq(Pieces)
      BY OfKindType
  <2>3. Places(OfKind(more, kind)) = Append(Places(OfKind(parts, kind)), spot)
      BY <2>1, <2>2, PlacesAppend
  <2>4. Places(OfKind(parts, kind)) \in Seq(Spots)
    <3> DEFINE list == OfKind(parts, kind)
    <3>1. list \in Seq(Pieces)
        BY <2>2
    <3> HIDE DEF list
    <3>2. Len(list) \in Nat /\ DOMAIN list = 1 .. Len(list) /\ \A j \in 1 .. Len(list) : list[j] \in Pieces
        BY <3>1
    <3>3. \A j \in 1 .. Len(list) : list[j].at \in Spots
        BY <3>2, PieceTypes
    <3>4. Places(list) \in Seq(Spots)
        BY <3>2, <3>3 DEF Places
    <3> QED
        BY <3>4 DEF list
  <2>5. Called(OfKind(more, kind)) = Called(OfKind(parts, kind)) \o <<ResponsesCallId(p)>>
      BY <2>1, <2>2, CalledAppend
  <2> QED
      BY <1>1, <2>1, <2>3, <2>4, <2>5, AppendIsConcat
<1>5. ASSUME NEW kind, k # kind PROVE OfKind(more, kind) = OfKind(parts, kind)
    BY <1>5, OfKindAppend
<1> HIDE DEF k, more, what
<1>6. CASE k = "text"
  <2> DEFINE v == OpenMessage(s)
  <2>1. u = Emit([v EXCEPT !.text = Append(@, spot)], "text.delta", v.message, what)
      BY <1>6 DEF ResponsesPart, k, what
  <2>2. /\ Standing(v) /\ Placed(v) /\ v.out # <<>> /\ v.message # Nothing
        /\ SaysAs(s, v) /\ v.text = s.text /\ v.usage = s.usage
      BY MessageOpens
  <2> HIDE DEF v, u, spot
  <2>3. /\ Standing(u) /\ Placed(u) /\ u.out # <<>> /\ u.usage = v.usage
        /\ u.text = v.text \o what /\ Say(u, "text.delta") = Say(v, "text.delta") \o what
        /\ \A type \in Spoken \ {"text.delta"} : Say(u, type) = Say(v, type)
      BY <1>1, <2>1, <2>2, TextGoes DEF what
  <2>4. /\ Say(u, "text.delta") = Say(s, "text.delta") \o what /\ Say(u, "text.done") = Say(s, "text.done")
        /\ Say(u, "arguments.done") = Say(s, "arguments.done")
        /\ Say(u, "reasoning.delta") = Say(s, "reasoning.delta")
        /\ u.text = s.text \o what
      BY <2>2, <2>3 DEF SaysAs, Spoken
  <2>5. Say(u, "text.done") \o u.text = (Say(s, "text.done") \o s.text) \o what
    <3>0. Say(s, "text.done") \in Seq(Uttered)
        BY <1>3
    <3>1. Say(s, "text.done") \o (s.text \o what) = (Say(s, "text.done") \o s.text) \o what
      <4> DEFINE done == Say(s, "text.done")
                 open == s.text
      <4>1. done \in Seq(Uttered) /\ open \in Seq(Uttered)
          BY <1>2, <3>0
      <4>0. what \in Seq(Uttered)
          BY <1>2
      <4> HIDE DEF done, open
      <4>2. (done \o open) \o what = done \o (open \o what)
          BY <4>0, <4>1, ConcatAssociative
      <4> QED
          BY <4>2 DEF done, open
    <3> QED
        BY <2>4, <3>1, Zenon
  <2>6. ResponsesSays(u, more)
    <3>1. Places(OfKind(more, "text")) = Places(OfKind(parts, "text")) \o what
        BY <1>4, <1>6
    <3>2. /\ OfKind(more, "tool") = OfKind(parts, "tool")
          /\ OfKind(more, "thinking") = OfKind(parts, "thinking")
        BY <1>5, <1>6
    <3> QED
        BY <2>4, <2>5, <3>1, <3>2, Zenon DEF ResponsesSays
  <2> QED
      BY <2>2, <2>3, <2>6 DEF more, u
<1>7. CASE k = "thinking"
  <2>1. /\ Standing(u) /\ Placed(u) /\ u.out # <<>> /\ u.usage = s.usage /\ u.text = s.text
        /\ Say(u, "reasoning.delta") = Say(s, "reasoning.delta") \o what
        /\ \A type \in Spoken \ {"reasoning.delta"} : Say(u, type) = Say(s, type)
    <3> DEFINE v == OpenReasoning(s)
    <3>1. u = Emit(v, "reasoning.delta", v.reasoning, what)
        BY <1>7 DEF ResponsesPart, k, what
    <3> HIDE DEF u, spot
    <3>2. CASE s.reasoning # Nothing
      <4>1. v = s
          BY <3>2 DEF OpenReasoning
      <4> QED
          BY <1>1, <3>1, <3>2, <4>1, ThinkingGoesOn DEF what
    <3>3. CASE s.reasoning = Nothing
        BY <1>1, <3>1, <3>3, ThinkingBegins DEF what
    <3> QED
        BY <3>2, <3>3
  <2> HIDE DEF u
  <2>2. /\ Say(u, "text.delta") = Say(s, "text.delta") /\ Say(u, "text.done") = Say(s, "text.done")
        /\ Say(u, "arguments.done") = Say(s, "arguments.done")
      BY <2>1 DEF Spoken
  <2>3. ResponsesSays(u, more)
    <3>1. Places(OfKind(more, "thinking")) = Places(OfKind(parts, "thinking")) \o what
        BY <1>4, <1>7
    <3>2. /\ OfKind(more, "tool") = OfKind(parts, "tool")
          /\ OfKind(more, "text") = OfKind(parts, "text")
        BY <1>5, <1>7
    <3> QED
        BY <2>1, <2>2, <3>1, <3>2, Zenon DEF ResponsesSays
  <2> QED
      BY <2>1, <2>3 DEF more, u
<1>8. CASE k = "tool"
  <2> DEFINE v == CloseMessage(s)
  <2>1. u = OpenCall(v, p)
      BY <1>8 DEF ResponsesPart, k
  <2>2. /\ Standing(v) /\ Placed(v) /\ v.out # <<>> /\ v.message = Nothing /\ v.text = <<>>
        /\ v.usage = s.usage
        /\ Say(v, "text.done") = Say(s, "text.done") \o s.text
        /\ \A type \in Spoken \ {"text.done"} : Say(v, type) = Say(s, type)
      BY MessageCloses
  <2> HIDE DEF v, u
  <2>3. /\ Standing(u) /\ Placed(u) /\ u.out # <<>> /\ u.text = v.text /\ u.usage = v.usage
        /\ Say(u, "arguments.done") = Say(v, "arguments.done") \o <<ResponsesCallId(p)>>
        /\ \A type \in Spoken \ {"arguments.done"} : Say(u, type) = Say(v, type)
      BY <2>1, <2>2, CallGoes
  <2>4. /\ Say(u, "text.delta") = Say(s, "text.delta")
        /\ Say(u, "text.done") = Say(s, "text.done") \o s.text
        /\ Say(u, "arguments.done") = Say(s, "arguments.done") \o <<ResponsesCallId(p)>>
        /\ Say(u, "reasoning.delta") = Say(s, "reasoning.delta")
        /\ u.text = <<>>
      BY <2>2, <2>3 DEF Spoken
  <2>5. Say(u, "text.done") \o u.text = Say(s, "text.done") \o s.text
    <3>1. Say(s, "text.done") \o s.text \in Seq(Uttered)
        BY <1>2, <1>3, ConcatProperties
    <3>2. (Say(s, "text.done") \o s.text) \o <<>> = Say(s, "text.done") \o s.text
        BY <3>1, ConcatEmptySeq
    <3> QED
        BY <2>4, <3>2, Zenon
  <2>6. ResponsesSays(u, more)
    <3>1. Called(OfKind(more, "tool")) = Called(OfKind(parts, "tool")) \o <<ResponsesCallId(p)>>
        BY <1>4, <1>8
    <3>2. /\ OfKind(more, "text") = OfKind(parts, "text")
          /\ OfKind(more, "thinking") = OfKind(parts, "thinking")
        BY <1>5, <1>8
    <3> QED
        BY <2>4, <2>5, <3>1, <3>2, Zenon DEF ResponsesSays
  <2> QED
      BY <2>2, <2>3, <2>6 DEF more, u
<1>9. CASE k \in {"signature", "empty"}
  <2>1. u = s
      BY <1>9 DEF ResponsesPart, k
  <2>2. /\ OfKind(more, "text") = OfKind(parts, "text") /\ OfKind(more, "tool") = OfKind(parts, "tool")
        /\ OfKind(more, "thinking") = OfKind(parts, "thinking")
      BY <1>5, <1>9
  <2>3. ResponsesSays(s, more)
      BY <2>2, Zenon DEF ResponsesSays
  <2> QED
      BY <2>1, <2>3 DEF more
<1> QED
    BY <1>1, <1>6, <1>7, <1>8, <1>9

\* What ResponsesOnResponse computes on the way, as far as part n.
Responds(u, parts, n, f) ==
    f = [k \in 0 .. n |-> IF k = 0 THEN u ELSE ResponsesPart(f[k - 1], parts[k])]

LEMMA RespondsStep ==
    ASSUME NEW u, NEW parts, NEW n \in Nat, NEW f, Responds(u, parts, n, f)
    PROVE  f[0] = u /\ \A k \in 1 .. n : f[k] = ResponsesPart(f[k - 1], parts[k])
<1>1. \A k \in 0 .. n : f[k] = IF k = 0 THEN u ELSE ResponsesPart(f[k - 1], parts[k])
    BY DEF Responds
<1>2. 0 \in 0 .. n /\ \A k \in 1 .. n : k \in 0 .. n /\ k # 0
    OBVIOUS
<1> QED
    BY <1>1, <1>2

LEMMA RespondsExists ==
    ASSUME NEW u, NEW parts, NEW n \in Nat
    PROVE  \E f : Responds(u, parts, n, f)
<1> DEFINE Good == {m \in 0 .. n : \E f : Responds(u, parts, m, f)}
<1>1. 0 \in Good
  <2>1. Responds(u, parts, 0, [k \in 0 .. 0 |-> u])
      BY DEF Responds
  <2> QED
      BY <2>1
<1>2. ASSUME NEW m \in 1 .. n, m - 1 \in Good PROVE m \in Good
  <2>1. PICK f : Responds(u, parts, m - 1, f)
      BY <1>2
  <2> DEFINE g == [k \in 0 .. m |-> IF k = m THEN ResponsesPart(f[m - 1], parts[m]) ELSE f[k]]
  <2>2. f[0] = u /\ \A k \in 1 .. m - 1 : f[k] = ResponsesPart(f[k - 1], parts[k])
      BY <2>1, RespondsStep
  <2>3. (\A k \in 0 .. m - 1 : g[k] = f[k]) /\ g[m] = ResponsesPart(f[m - 1], parts[m])
      OBVIOUS
  <2>4. g = [k \in 0 .. m |-> g[k]]
      OBVIOUS
  <2> HIDE DEF g
  <2>5. ASSUME NEW k \in 0 .. m PROVE g[k] = IF k = 0 THEN u ELSE ResponsesPart(g[k - 1], parts[k])
    <3>1. CASE k = 0
        BY <3>1, <2>2, <2>3
    <3>2. CASE k # 0 /\ k # m
      <4>1. k \in 1 .. m - 1 /\ k \in 0 .. m - 1 /\ k - 1 \in 0 .. m - 1
          BY <3>2
      <4> QED
          BY <4>1, <2>2, <2>3, <3>2
    <3>3. CASE k = m
      <4>1. m - 1 \in 0 .. m - 1
          OBVIOUS
      <4> QED
          BY <3>3, <4>1, <2>3
    <3> QED
        BY <3>1, <3>2, <3>3
  <2>6. Responds(u, parts, m, g)
      BY <2>4, <2>5 DEF Responds
  <2> QED
      BY <2>6
<1>3. \A m \in 0 .. n : m \in Good
  <2> HIDE DEF Good
  <2> QED
      BY <1>1, <1>2, Climb
<1> QED
    BY <1>3

LEMMA ResponsesOnResponseIs ==
    ASSUME NEW s, NEW e, NEW parts, parts = e.parts, Len(parts) \in Nat, NEW u,
           u = Start([s EXCEPT !.usage = Newest(@, e.usage, Nothing)])
    PROVE  \E f : Responds(u, parts, Len(parts), f) /\ ResponsesOnResponse(s, e) = f[Len(parts)]
<1> DEFINE f == CHOOSE f : Responds(u, parts, Len(parts), f)
<1>1. Responds(u, parts, Len(parts), f)
    BY RespondsExists
<1>2. ResponsesOnResponse(s, e) = f[Len(parts)]
    BY Zenon DEF ResponsesOnResponse, Responds
<1> QED
    BY <1>1, <1>2

\* An event is said, part after part.
LEMMA ResponsesOnResponseSays ==
    ASSUME NEW s, Standing(s), Placed(s), NEW parts \in Seq(Pieces), ResponsesSays(s, parts), NEW e \in Events
    PROVE  LET v == ResponsesOnResponse(s, e)
           IN /\ Standing(v) /\ Placed(v) /\ v.out # <<>> /\ v.usage = Newest(s.usage, e.usage, Nothing)
              /\ ResponsesSays(v, parts \o e.parts)
<1> DEFINE usage == Newest(s.usage, e.usage, Nothing)
           a == [s EXCEPT !.usage = usage]
           u == Start(a)
           said == e.parts
           n == Len(said)
           Upto(k) == parts \o SubSeq(said, 1, k)
<1>1. said \in Seq(Pieces) /\ n \in Nat /\ e.usage \in Usages
    BY DEF Events
<1>2. s \in Streams
    BY DEF Standing
<1>3. usage \in Usages
    BY <1>1, <1>2 DEF Newest, Streams
<1>4. PICK f : Responds(u, said, n, f) /\ ResponsesOnResponse(s, e) = f[n]
  <2>1. a = [s EXCEPT !.usage = Newest(@, e.usage, Nothing)]
      BY <1>2 DEF Streams
  <2> HIDE DEF a
  <2>2. u = Start([s EXCEPT !.usage = Newest(@, e.usage, Nothing)])
      BY <2>1
  <2> HIDE DEF u
  <2> QED
      BY <1>1, <2>2, ResponsesOnResponseIs
<1> HIDE DEF usage
<1>5. /\ a \in Streams /\ a.usage = usage /\ a.out = s.out /\ a.sequence = s.sequence /\ a.index = s.index
      /\ a.text = s.text /\ a.message = s.message /\ a.reasoning = s.reasoning /\ a.output = s.output
      /\ a.started = s.started
    BY <1>2, <1>3 DEF Streams
<1> HIDE DEF a
<1>6. /\ Orderly(a) /\ \A type : Say(a, type) = Say(s, type)
      /\ \A type, i : SayOf(a, type, i) = SayOf(s, type, i)
  <2>1. Orderly(s)
      BY DEF Standing
  <2> QED
      BY <2>1, <1>5, SameEvents
<1>7. Standing(a) /\ Placed(a)
  <2>1. Standing(a)
      BY <1>5, <1>6 DEF Standing
  <2>2. Placed(a)
      BY <1>5 DEF Placed
  <2> QED
      BY <2>1, <2>2
<1>8. /\ Standing(u) /\ Placed(u) /\ u.out # <<>> /\ u.usage = usage /\ u.text = s.text
      /\ \A type \in Spoken : Say(u, type) = Say(s, type)
    BY <1>5, <1>6, <1>7, StartGoes
<1> HIDE DEF u
<1>9. ResponsesSays(u, parts)
  <2>1. /\ Say(u, "text.delta") = Say(s, "text.delta") /\ Say(u, "text.done") = Say(s, "text.done")
        /\ Say(u, "arguments.done") = Say(s, "arguments.done")
        /\ Say(u, "reasoning.delta") = Say(s, "reasoning.delta")
      BY <1>8 DEF Spoken
  <2> QED
      BY <1>8, <2>1, Zenon DEF ResponsesSays
<1>10. Responds(u, said, n, f) /\ n \in Nat
    BY <1>1, <1>4
<1> HIDE DEF said, n
<1>11. f[0] = u /\ \A k \in 1 .. n : f[k] = ResponsesPart(f[k - 1], said[k])
  <2>1. Responds(u, said, n, f)
      BY <1>10
  <2>2. n \in Nat
      BY <1>10
  <2>3. f[0] = u
      BY <2>1, <2>2, RespondsStep
  <2>4. ASSUME NEW k \in 1 .. n PROVE f[k] = ResponsesPart(f[k - 1], said[k])
      BY <2>1, <2>2, RespondsStep
  <2> QED
      BY <2>3, <2>4
<1> DEFINE Good == {k \in 0 .. n : /\ Standing(f[k]) /\ Placed(f[k]) /\ f[k].out # <<>>
                                   /\ f[k].usage = usage /\ ResponsesSays(f[k], Upto(k))}
<1>12. 0 \in Good
  <2>1. Upto(0) = parts
      BY <1>1, PrefixEnds
  <2> HIDE DEF Upto
  <2>2. ResponsesSays(f[0], Upto(0))
      BY <2>1, <1>9, <1>11, Zenon
  <2>3. 0 \in 0 .. n
      BY <1>1
  <2> QED
      BY <1>8, <1>11, <2>2, <2>3, Zenon
<1>13. ASSUME NEW k \in 1 .. n, k - 1 \in Good PROVE k \in Good
  <2> DEFINE g == f[k - 1]
             done == Upto(k - 1)
             p == said[k]
  <2>1. Upto(k) = Append(done, p) /\ done \in Seq(Pieces)
      BY <1>1, PrefixGrows DEF n
  <2>2. p \in Pieces
      BY <1>1 DEF n
  <2> HIDE DEF Upto
  <2>3. Standing(g) /\ Placed(g) /\ g.out # <<>> /\ g.usage = usage /\ ResponsesSays(g, done)
      BY <1>13
  <2>4. f[k] = ResponsesPart(g, p)
      BY <1>11
  <2> HIDE DEF g, done, p
  <2>5. /\ Standing(ResponsesPart(g, p)) /\ Placed(ResponsesPart(g, p)) /\ ResponsesPart(g, p).out # <<>>
        /\ ResponsesPart(g, p).usage = g.usage /\ ResponsesSays(ResponsesPart(g, p), Append(done, p))
      BY <2>1, <2>2, <2>3, ResponsesPartSays
  <2>6. ResponsesSays(f[k], Upto(k))
      BY <2>1, <2>4, <2>5, Zenon
  <2>7. Standing(f[k]) /\ Placed(f[k]) /\ f[k].out # <<>> /\ f[k].usage = usage
      BY <2>3, <2>4, <2>5
  <2>8. k \in 0 .. n
      BY <1>1
  <2> QED
      BY <2>6, <2>7, <2>8, Zenon
<1>14. \A k \in 0 .. n : k \in Good
  <2> HIDE DEF Good
  <2> QED
      BY <1>1, <1>12, <1>13, Climb
<1>15. n \in Good
    BY <1>1, <1>14
<1>16. Upto(n) = parts \o said
    BY <1>1, PrefixEnds DEF n
<1> HIDE DEF Upto
<1>17. ResponsesSays(f[n], parts \o said)
    BY <1>15, <1>16, Zenon
<1>18. Standing(f[n]) /\ Placed(f[n]) /\ f[n].out # <<>> /\ f[n].usage = usage
    BY <1>15
<1> QED
    BY <1>4, <1>17, <1>18, Zenon DEF usage, said, n

-----------------------------------------------------------------------------
(* ResponsesStream: its end *)

LEMMA NewStreamSays == ResponsesSays(NewResponsesStream, <<>>)
<1> DEFINE s == NewResponsesStream
<1>1. s.text = <<>> /\ \A type : Say(s, type) = <<>>
    BY NewStreamStands
<1>2. \A kind : OfKind(<<>>, kind) = <<>>
  <2>1. [k \in DOMAIN <<>> |-> <<(<<>>)[k]>>] = <<>>
      OBVIOUS
  <2>2. ASSUME NEW S PROVE Picked(<<>>, S) = <<>>
      BY <2>1, JoinedNothing, Zenon DEF Picked
  <2> QED
      BY <2>2 DEF OfKind
<1>3. Places(<<>>) = <<>> /\ Called(<<>>) = <<>> /\ <<>> \o <<>> = <<>>
    BY DEF Places, Called
<1> HIDE DEF s
<1> QED
    BY <1>1, <1>2, <1>3 DEF ResponsesSays, s

\* The order of the events, whether or not the last one has been sent.
InOrder(out, served) ==
    \A k \in DOMAIN out :
       /\ out[k].number = k - 1
       /\ k = 1 <=> out[k].type = "created"
       /\ out[k].type = "completed" => k = Len(out) /\ served
       /\ out[k].item # Nothing =>
             /\ out[k].type = "item.added" <=> ~\E j \in 1 .. k - 1 : out[j].item = out[k].item
             /\ ~\E j \in 1 .. k - 1 : out[j].type = "item.done" /\ out[j].item = out[k].item

LEMMA OrderlyInOrder ==
    ASSUME NEW s \in Streams, Orderly(s)
    PROVE  /\ InOrder(s.out, FALSE)
           /\ \A k \in DOMAIN s.out : s.out[k].type # "completed"
<1>1. s.out \in Seq(Frames)
    BY DEF Streams
<1>2. DOMAIN s.out = 1 .. Len(s.out) /\ Len(s.out) \in Nat
    BY <1>1
<1>3. ASSUME NEW k \in DOMAIN s.out, s.out[k].item # Nothing
      PROVE  s.out[k].type = "item.added" <=> ~\E j \in 1 .. k - 1 : s.out[j].item = s.out[k].item
  <2> DEFINE id == s.out[k].item
  <2>1. /\ id[2] <= k - 1 /\ (s.out[k].type = "item.added" <=> id[2] = k - 1)
        /\ \E j \in 1 .. k : s.out[j].type = "item.added" /\ s.out[j].item = id
      BY <1>3 DEF Orderly
  <2>2. ASSUME NEW j \in 1 .. k - 1, s.out[j].item = id, s.out[k].type = "item.added" PROVE FALSE
    <3>1. j \in DOMAIN s.out /\ s.out[j].item # Nothing
        BY <1>2, <1>3, <2>2
    <3>2. s.out[j].item[2] <= j - 1
        BY <3>1 DEF Orderly
    <3>3. k - 1 <= j - 1
        BY <2>1, <2>2, <3>2
    <3> QED
        BY <1>2, <3>3
  <2>3. ASSUME s.out[k].type # "item.added" PROVE \E j \in 1 .. k - 1 : s.out[j].item = id
    <3>1. PICK j \in 1 .. k : s.out[j].type = "item.added" /\ s.out[j].item = id
        BY <2>1
    <3>2. j \in 1 .. k - 1
        BY <1>2, <2>3, <3>1
    <3> QED
        BY <3>1, <3>2
  <2> QED
      BY <2>2, <2>3
<1> QED
    BY <1>3 DEF Orderly, InOrder

\* An item is closed with what was said of it, and has its place.
ClosedItem(u, id) ==
    /\ id[1] = "message" => SayOf(u, "text.delta", id) = SayOf(u, "text.done", id)
    /\ id[1] # "reasoning" => Ended(u.out, id)
    /\ ReasoningFirst(u.out) =>
          \A j \in DOMAIN u.out : u.out[j].item = id =>
             u.out[j].index = (CHOOSE n \in DOMAIN u.output : u.output[n].id = id) - 1

Closed(u) == \A k \in DOMAIN u.out : u.out[k].type = "item.added" => ClosedItem(u, u.out[k].item)

\* What any event changes, told as one fact about two streams.
Changed(s, u, type, item) ==
    /\ \A other, id : other # type \/ id # item => SayOf(u, other, id) = SayOf(s, other, id)
    /\ \A id : Announced(u.out, id) <=> Announced(s.out, id) \/ (type = "item.added" /\ id = item)
    /\ \A id : Ended(u.out, id) <=> Ended(s.out, id) \/ (type = "item.done" /\ id = item)
    /\ \A id \in Items : \A i : Indexed(u.out, id, i) <=>
          Indexed(s.out, id, i) /\ (id = item => i = s.index)
    /\ ReasoningFirst(u.out) <=> ReasoningFirst(s.out) /\ (type = "reasoning.delta" => Reasoned(s.out))

LEMMA EmitChanges ==
    ASSUME NEW s \in Streams, NEW type \in FrameTypes, NEW item \in {Nothing} \cup Items,
           NEW what \in Seq(Uttered)
    PROVE  Changed(s, Emit(s, type, item, what), type, item)
<1> DEFINE u == Emit(s, type, item, what)
<1>1. /\ SayOf(u, type, item) = SayOf(s, type, item) \o what
      /\ \A other, id : other # type \/ id # item => SayOf(u, other, id) = SayOf(s, other, id)
    BY EmitTellsOf
<1>2. /\ \A id : Announced(u.out, id) <=> Announced(s.out, id) \/ (type = "item.added" /\ id = item)
      /\ \A id : Ended(u.out, id) <=> Ended(s.out, id) \/ (type = "item.done" /\ id = item)
      /\ \A id \in Items : \A i : Indexed(u.out, id, i) <=>
            Indexed(s.out, id, i) /\ (id = item => i = s.index)
      /\ Reasoned(u.out) <=> Reasoned(s.out) /\ (item # Nothing => item[1] = "reasoning")
      /\ ReasoningFirst(u.out) <=> ReasoningFirst(s.out) /\ (type = "reasoning.delta" => Reasoned(s.out))
    BY EmitMoves
<1> HIDE DEF u
<1> QED
    BY <1>1, <1>2, Zenon DEF Changed, u

LEMMA FinishGoes ==
    ASSUME NEW s, Standing(s), Placed(s), NEW parts \in Seq(Pieces), ResponsesSays(s, parts)
    PROVE  LET u == ResponsesFinish(s)
           IN /\ InOrder(u.out, TRUE) /\ Closed(u) /\ u.usage = s.usage
              /\ Say(u, "text.delta") = Places(OfKind(parts, "text"))
              /\ Say(u, "text.done") = Places(OfKind(parts, "text"))
              /\ Say(u, "arguments.done") = Called(OfKind(parts, "tool"))
              /\ Say(u, "reasoning.delta") = Places(OfKind(parts, "thinking"))
<1> DEFINE r == Start(s)
           v == CloseMessage(r)
           output == v.output
           u == Emit(v, "completed", Nothing, output)
           x == [type |-> "completed", number |-> v.sequence, item |-> Nothing, index |-> 0, what |-> output]
           n == Len(v.out)
<1>1. ResponsesFinish(s) = u
    BY DEF ResponsesFinish
<1>2. /\ Standing(r) /\ Placed(r) /\ r.out # <<>> /\ r.usage = s.usage /\ r.text = s.text
      /\ \A type \in Spoken : Say(r, type) = Say(s, type)
    BY StartGoes
<1> HIDE DEF r
<1>3. /\ Standing(v) /\ Placed(v) /\ v.out # <<>> /\ v.message = Nothing /\ v.text = <<>>
      /\ v.usage = r.usage
      /\ Say(v, "text.done") = Say(r, "text.done") \o r.text
      /\ \A type \in Spoken \ {"text.done"} : Say(v, type) = Say(r, type)
    BY <1>2, MessageCloses
<1> HIDE DEF v
<1>4. v \in Streams /\ Orderly(v)
    BY <1>3 DEF Standing
<1>5. output \in Seq(Uttered)
  <2>1. output \in Seq(Outputs)
      BY <1>4 DEF Streams
  <2> HIDE DEF output
  <2> QED
      BY <2>1 DEF Uttered
<1> HIDE DEF output
<1>6. "completed" \in FrameTypes /\ "completed" \notin Spoken /\ Spoken \subseteq FrameTypes
    BY DEF FrameTypes, Spoken
<1>7. u \in Streams /\ x \in Frames /\ u.out = Append(v.out, x) /\ SameState(v, u)
    BY <1>4, <1>5, <1>6, EmitAdds
<1>8. x.type = "completed" /\ x.item = Nothing /\ x.number = v.sequence
    OBVIOUS
<1> DEFINE type == "completed"
           none == Nothing
<1>9. v \in Streams /\ type \in FrameTypes /\ none \in {Nothing} \cup Items /\ output \in Seq(Uttered)
    BY <1>4, <1>5, <1>6
<1> HIDE DEF type, none
<1>10. u = Emit(v, type, none, output)
    BY DEF type, none
<1>11. \A other \in FrameTypes : other # "completed" => Say(u, other) = Say(v, other)
  <2>1. ASSUME NEW other \in FrameTypes, other # type
        PROVE  Say(Emit(v, type, none, output), other) = Say(v, other)
      BY <1>9, <2>1, EmitTells
  <2> QED
      BY <1>10, <2>1 DEF type
<1>12. Changed(v, u, type, none)
    BY <1>9, <1>10, EmitChanges
<1> HIDE DEF u, x
<1>13. \A other, id : id # Nothing => SayOf(u, other, id) = SayOf(v, other, id)
    BY <1>12 DEF Changed, none
<1>14. /\ \A id : Announced(u.out, id) <=> Announced(v.out, id)
       /\ \A id : Ended(u.out, id) <=> Ended(v.out, id)
       /\ \A id \in Items : \A i : Indexed(u.out, id, i) <=> Indexed(v.out, id, i)
       /\ ReasoningFirst(u.out) <=> ReasoningFirst(v.out)
  <2>1. type # "item.added" /\ type # "item.done" /\ type # "reasoning.delta" /\ \A id \in Items : id # none
      BY ItemsAreThere DEF type, none
  <2> QED
      BY <1>12, <2>1 DEF Changed
<1>15. /\ DOMAIN u.out = 1 .. n + 1 /\ n \in Nat /\ DOMAIN v.out = 1 .. n /\ Len(u.out) = n + 1 /\ n # 0
       /\ u.out[n + 1] = x /\ \A k \in 1 .. n : u.out[k] = v.out[k]
  <2>1. v.out \in Seq(Frames)
      BY <1>4 DEF Streams
  <2> QED
      BY <1>3, <1>7, <2>1
<1>16. v.sequence = n
    BY <1>4 DEF Orderly
<1> HIDE DEF n
<1>17. InOrder(u.out, TRUE)
  <2>1. InOrder(v.out, FALSE) /\ \A k \in DOMAIN v.out : v.out[k].type # "completed"
      BY <1>4, OrderlyInOrder
  <2> SUFFICES ASSUME NEW k \in 1 .. n + 1
               PROVE  /\ u.out[k].number = k - 1
                      /\ k = 1 <=> u.out[k].type = "created"
                      /\ u.out[k].type = "completed" => k = Len(u.out)
                      /\ u.out[k].item # Nothing =>
                            /\ u.out[k].type = "item.added" <=>
                                  ~\E j \in 1 .. k - 1 : u.out[j].item = u.out[k].item
                            /\ ~\E j \in 1 .. k - 1 : u.out[j].type = "item.done" /\ u.out[j].item = u.out[k].item
      BY <1>15 DEF InOrder
  <2>2. CASE k \in 1 .. n
    <3>1. u.out[k] = v.out[k] /\ \A j \in 1 .. k - 1 : u.out[j] = v.out[j]
        BY <1>15, <2>2
    <3>2. k \in DOMAIN v.out
        BY <1>15, <2>2
    <3>3. /\ v.out[k].number = k - 1
          /\ k = 1 <=> v.out[k].type = "created"
          /\ v.out[k].type # "completed"
          /\ v.out[k].item # Nothing =>
                /\ v.out[k].type = "item.added" <=>
                      ~\E j \in 1 .. k - 1 : v.out[j].item = v.out[k].item
                /\ ~\E j \in 1 .. k - 1 : v.out[j].type = "item.done" /\ v.out[j].item = v.out[k].item
        BY <2>1, <3>2 DEF InOrder
    <3> QED
        BY <3>1, <3>3
  <2>3. CASE k = n + 1
    <3>1. k # 1 /\ k - 1 = n /\ u.out[k] = x
        BY <1>15, <2>3
    <3> QED
        BY <1>8, <1>15, <1>16, <2>3, <3>1
  <2> QED
      BY <1>15, <2>2, <2>3
<1>18. Closed(u)
  <2> SUFFICES ASSUME NEW k \in DOMAIN u.out, u.out[k].type = "item.added"
               PROVE  ClosedItem(u, u.out[k].item)
      BY DEF Closed
  <2> DEFINE id == u.out[k].item
  <2>1. Announced(v.out, id)
    <3>1. Announced(u.out, id)
        BY DEF Announced
    <3> QED
        BY <1>14, <3>1
  <2> HIDE DEF id
  <2>2. id \in Items /\ id # Nothing
    <3>1. PICK j \in DOMAIN v.out : v.out[j].type = "item.added" /\ v.out[j].item = id
        BY <2>1 DEF Announced
    <3>2. id # Nothing
        BY <1>4, <3>1 DEF Orderly
    <3>3. v.out \in Seq(Frames)
        BY <1>4 DEF Streams
    <3>4. v.out[j] \in Frames
        BY <3>3
    <3> QED
        BY <3>1, <3>2, <3>4 DEF Frames
  <2>3. SayOf(u, "text.delta", id) = SayOf(u, "text.done", id)
      BY <1>3, <1>13, <2>2 DEF Standing
  <2>4. id[1] # "reasoning" => Ended(u.out, id)
      BY <1>3, <1>14, <2>1, <2>2 DEF Standing
  <2>5. ASSUME ReasoningFirst(u.out), NEW j \in DOMAIN u.out, u.out[j].item = id
        PROVE  u.out[j].index = (CHOOSE m \in DOMAIN u.output : u.output[m].id = id) - 1
    <3>1. PICK m \in DOMAIN v.output : v.output[m].id = id /\ Indexed(v.out, id, m - 1)
        BY <1>3, <1>14, <2>1, <2>2, <2>5 DEF Placed
    <3>2. Indexed(u.out, id, m - 1) /\ u.output = v.output
        BY <1>7, <1>14, <2>2, <3>1 DEF SameState
    <3>3. u.out[j].index = m - 1
        BY <2>5, <3>2 DEF Indexed
    <3>4. \A i \in DOMAIN u.output : u.output[i].id = id => i = m
        BY <1>3, <3>1, <3>2 DEF Standing
    <3>5. (CHOOSE i \in DOMAIN u.output : u.output[i].id = id) = m
        BY <3>1, <3>2, <3>4
    <3> QED
        BY <3>3, <3>5
  <2> QED
      BY <2>3, <2>4, <2>5 DEF ClosedItem, id
<1>19. u.usage = s.usage
    BY <1>2, <1>3, <1>7 DEF SameState
<1>20. /\ Say(u, "text.delta") = Say(s, "text.delta")
       /\ Say(u, "text.done") = Say(s, "text.done") \o s.text
       /\ Say(u, "arguments.done") = Say(s, "arguments.done")
       /\ Say(u, "reasoning.delta") = Say(s, "reasoning.delta")
    BY <1>2, <1>3, <1>6, <1>11 DEF Spoken
<1> QED
    BY <1>1, <1>17, <1>18, <1>19, <1>20 DEF ResponsesSays

\* At the end of a stream: the finish reason, and the usage if it was asked for.
LEMMA TranslatorFinishSays ==
    ASSUME NEW t, NEW parts \in Seq(Pieces), ChatSays(t, parts)
    PROVE  LET u == TranslatorFinish(t)
           IN /\ \A kind \in {"thinking", "text", "tool"} : Whats(u.out, kind) = Whats(t.out, kind)
              /\ Whats(u.out, "finish") = <<MapFinishReason(t.finish, t.calls > 0)>>
              /\ Whats(u.out, "usage") =
                    IF t.includeUsage /\ t.usage # Nothing THEN <<t.usage>> ELSE <<>>
              /\ \A k \in DOMAIN u.out : u.out[k].role <=> k = 1
              /\ u.signed = t.signed /\ u.usage = t.usage
<1> DEFINE a == [t EXCEPT !.finished = TRUE]
           reason == MapFinishReason(t.finish, t.calls > 0)
           b == Chunk(a, "finish", reason)
           c == [kind |-> "usage", what |-> t.usage, role |-> FALSE]
           more == Append(b.out, c)
           u == TranslatorFinish(t)
<1>1. t \in Translators /\ ~t.finished /\ (t.role <=> t.out # <<>>)
      /\ \A k \in DOMAIN t.out : t.out[k].role <=> k = 1
    BY DEF ChatSays
<1>2. Whats(t.out, "finish") = <<>> /\ Whats(t.out, "usage") = <<>>
    BY DEF ChatSays
<1>3. u = IF t.includeUsage /\ t.usage # Nothing THEN [b EXCEPT !.out = Append(@, c)] ELSE b
    BY <1>1 DEF TranslatorFinish
<1>4. t.finish \in Reasons /\ t.calls \in Nat /\ t.usage \in Usages /\ t.signed \in Seq(Marks)
    BY <1>1 DEF Translators
<1>5. reason \in Whatever
  <2>1. MapFinishReason(t.finish, t.calls > 0) \in {"tool_calls", "length", "content_filter", "stop"}
      BY <1>4 DEF MapFinishReason, Reasons, None
  <2> HIDE DEF reason
  <2> QED
      BY <2>1 DEF Whatever, reason
<1> HIDE DEF reason, u
<1>6. a \in Translators /\ a.out = t.out /\ a.role = t.role /\ a.signed = t.signed /\ a.usage = t.usage
    BY <1>1 DEF Translators
<1> HIDE DEF a
<1>7. "finish" \in ChunkKinds /\ "usage" \in ChunkKinds
    BY DEF ChunkKinds
<1>8. /\ \A k \in DOMAIN b.out : b.out[k].role <=> k = 1
      /\ b.out # <<>>
      /\ \A other : Whats(b.out, other) =
            IF "finish" = other THEN Append(Whats(t.out, other), reason) ELSE Whats(t.out, other)
    BY <1>1, <1>5, <1>6, <1>7, ChunkSays
<1>9. b \in Translators /\ b.usage = t.usage /\ b.signed = t.signed
    BY <1>5, <1>6, <1>7, ChunkAdds
<1> HIDE DEF b
<1>10. Append(<<>>, reason) = <<reason>>
    OBVIOUS
<1>11. /\ Whats(b.out, "finish") = <<reason>>
       /\ Whats(b.out, "usage") = <<>>
       /\ \A kind \in {"thinking", "text", "tool"} : Whats(b.out, kind) = Whats(t.out, kind)
    BY <1>2, <1>8, <1>10
<1>12. CASE ~(t.includeUsage /\ t.usage # Nothing)
  <2>1. u = b
      BY <1>3, <1>12
  <2> QED
      BY <1>8, <1>9, <1>11, <1>12, <2>1 DEF u, reason
<1>13. CASE t.includeUsage /\ t.usage # Nothing
  <2>1. c \in Chunks
    <3>1. t.usage \in Whatever
        BY <1>4 DEF Whatever
    <3> QED
        BY <1>7, <3>1 DEF Chunks
  <2>2. c.kind = "usage" /\ c.what = t.usage /\ c.role = FALSE
      OBVIOUS
  <2> HIDE DEF c
  <2>3. b.out \in Seq(Chunks) /\ more \in Seq(Chunks)
      BY <1>9, <2>1 DEF Translators
  <2>4. /\ DOMAIN more = 1 .. Len(b.out) + 1 /\ Len(b.out) \in Nat /\ Len(b.out) # 0
        /\ more[Len(b.out) + 1] = c /\ \A k \in 1 .. Len(b.out) : more[k] = b.out[k]
        /\ DOMAIN b.out = 1 .. Len(b.out)
      BY <1>8, <2>1, <2>3
  <2>5. \A kind : Whats(more, kind) =
            IF c.kind = kind THEN Append(Whats(b.out, kind), c.what) ELSE Whats(b.out, kind)
      BY <2>1, <2>3, WhatsAppend
  <2> HIDE DEF more
  <2>6. u = [b EXCEPT !.out = more]
      BY <1>3, <1>9, <1>13 DEF more, Translators
  <2>7. u.out = more /\ u.signed = b.signed /\ u.usage = b.usage
      BY <1>9, <2>6 DEF Translators
  <2>8. \A k \in DOMAIN more : more[k].role <=> k = 1
      BY <1>8, <2>2, <2>4
  <2>9. Append(<<>>, t.usage) = <<t.usage>>
      OBVIOUS
  <2>10. /\ Whats(more, "finish") = <<reason>>
         /\ Whats(more, "usage") = <<t.usage>>
         /\ \A kind \in {"thinking", "text", "tool"} : Whats(more, kind) = Whats(t.out, kind)
      BY <1>11, <2>2, <2>5, <2>9
  <2> QED
      BY <1>9, <1>13, <2>7, <2>8, <2>10 DEF u, reason
<1> QED
    BY <1>12, <1>13

-----------------------------------------------------------------------------
(* The consumer *)

\* Only events are given to a consumer.
DueAreEvents ==
    stage \in {"serve", "close"} =>
        \A k \in DOMAIN due : due[k] \in DOMAIN body.lines /\ IsEvent(due[k])

LEMMA DecideDue ==
    ASSUME ServingTypes, NEW lines, NEW content, NEW live, Decide(lines, content, live),
           \A k \in DOMAIN lines : lines[k] \in DOMAIN body.lines /\ IsEvent(lines[k])
    PROVE  DueAreEvents'
<1>1. CASE DispatchAgain
    BY <1>1 DEF DispatchAgain, DueAreEvents
<1>2. CASE Commit(lines, live)
    BY <1>2 DEF Commit, DueAreEvents, IsEvent
<1> QED
    BY <1>1, <1>2 DEF Decide

LEMMA ListsDomain ==
    ASSUME NEW s, NEW S, Lists(s, S)
    PROVE  \A k \in DOMAIN s : s[k] \in S
BY DEF Lists

LEMMA DueStep ==
    ASSUME ServingTypes, ServingTypes', LinesInduct, DueAreEvents, [Next]_vars
    PROVE  DueAreEvents'
<1>1. CASE RejectBody \/ CannotConvert \/ Prepare \/ DispatchFails \/ DispatchAnswers \/ Close \/ Vanish
    BY <1>1 DEF RejectBody, CannotConvert, Prepare, DispatchFails, DispatchAnswers, Close, Vanish, DueAreEvents
<1>2. CASE PreludeChunk
  <2> DEFINE more == Decode(from, at')
             lines == prelude \o more
             Right(s) == \A k \in DOMAIN s : s[k] \in DOMAIN body.lines /\ IsEvent(s[k])
  <2>1. at' \in Nat /\ from \in Nat /\ stage = "prelude" /\ prelude \in Seq(Line)
      BY <1>2, LengthType DEF PreludeChunk, ServingTypes
  <2>2. Right(prelude)
      BY <2>1, ListsDomain DEF LinesInduct
  <2>3. Right(more)
    <3> DEFINE S == {i \in DOMAIN body.lines : from <= 3 * (i - 1) /\ 3 * i <= at' /\ IsEvent(i)}
    <3>1. Lists(more, S)
        BY <2>1, DecodeLists
    <3> HIDE DEF more
    <3> QED
        BY <3>1, ListsDomain
  <2>4. more \in Seq(Line)
      BY <2>1, DecodeType
  <2> HIDE DEF more
  <2>5. Right(lines)
    <3>1. ASSUME NEW k \in DOMAIN lines
          PROVE  \/ k \in DOMAIN prelude /\ lines[k] = prelude[k]
                 \/ k - Len(prelude) \in DOMAIN more /\ lines[k] = more[k - Len(prelude)]
        BY <2>1, <2>4
    <3> HIDE DEF lines
    <3> QED
        BY <2>2, <2>3, <3>1
  <2>6. \/ stage' = "prelude"
        \/ \E content, live : Decide(prelude, content, live) \/ Decide(lines, content, live)
      BY <1>2 DEF PreludeChunk, more
  <2> HIDE DEF lines
  <2>7. ASSUME NEW content, NEW live, Decide(prelude, content, live) PROVE DueAreEvents'
      BY <2>2, <2>7, DecideDue
  <2>8. ASSUME NEW content, NEW live, Decide(lines, content, live) PROVE DueAreEvents'
      BY <2>5, <2>8, DecideDue
  <2> QED
      BY <2>6, <2>7, <2>8 DEF DueAreEvents
<1>3. CASE PreludeStops
  <2>1. PICK live \in BOOLEAN : Decide(prelude, FALSE, live)
      BY <1>3 DEF PreludeStops
  <2>2. \A k \in DOMAIN prelude : prelude[k] \in DOMAIN body.lines /\ IsEvent(prelude[k])
      BY <1>3, ListsDomain DEF PreludeStops, LinesInduct
  <2> QED
      BY <2>1, <2>2, DecideDue
<1>4. CASE Translate
  <2>1. /\ stage \in {"serve", "close"} /\ due # <<>> /\ due' = Tail(due) /\ body' = body
        /\ due \in Seq(Line)
      BY <1>4 DEF Translate, transfer, ServingTypes
  <2>2. \A k \in DOMAIN Tail(due) : k + 1 \in DOMAIN due /\ Tail(due)[k] = due[k + 1]
      BY <2>1
  <2> QED
      BY <2>1, <2>2 DEF DueAreEvents, IsEvent
<1>5. CASE TailChunk
  <2>1. at' \in Nat /\ from \in Nat /\ body' = body /\ due = <<>>
      BY <1>5, LengthType DEF TailChunk, ServingTypes
  <2> DEFINE more == Decode(from, at')
             S == {i \in DOMAIN body.lines : from <= 3 * (i - 1) /\ 3 * i <= at' /\ IsEvent(i)}
  <2>2. Lists(more, S)
      BY <2>1, DecodeLists
  <2>3. due' = <<>> \/ due' = more
      BY <1>5, <2>1 DEF TailChunk
  <2> HIDE DEF more
  <2>4. \A k \in DOMAIN more : more[k] \in DOMAIN body.lines /\ IsEvent(more[k])
      BY <2>2, ListsDomain
  <2> QED
      BY <2>1, <2>3, <2>4 DEF DueAreEvents, IsEvent
<1>6. CASE TailStops
  <2> DEFINE i == from \div 3 + 1
  <2>1. stage = "serve" /\ due' = Leftover /\ body' = body /\ from \in Nat /\ at \in Nat
      BY <1>6 DEF TailStops, transfer, ServingTypes
  <2>2. at <= 3 * Len(body.lines) /\ Len(body.lines) \in Nat /\ DOMAIN body.lines = 1 .. Len(body.lines)
    <3>1. at <= Length
        BY <2>1 DEF LinesInduct
    <3>2. Len(body.lines) \in Nat /\ DOMAIN body.lines = 1 .. Len(body.lines)
        BY DEF ServingTypes
    <3> QED
        BY <2>1, <3>1, <3>2 DEF Length
  <2>3. from % 3 = 0 /\ at - from = 2 => i \in DOMAIN body.lines
      BY <2>1, <2>2
  <2>4. due' = <<>> \/ (due' = <<i>> /\ i \in DOMAIN body.lines /\ IsEvent(i))
      BY <2>1, <2>3 DEF Leftover
  <2> HIDE DEF i
  <2> QED
      BY <2>1, <2>4 DEF DueAreEvents, IsEvent
<1>7. CASE Terminated \/ UNCHANGED vars
    BY <1>7 DEF Terminated, vars, transfer, reply, DueAreEvents, IsEvent
<1> QED
    BY <1>1, <1>2, <1>3, <1>4, <1>5, <1>6, <1>7 DEF Next

\* The consumer of the route has made of the events what the accumulator has.
Follows ==
    /\ heard \in Accumulators
    /\ consumer.usage = heard.usage
    /\ ~route.stream => consumer = heard
    /\ route.stream /\ route.api = "chat" =>
          /\ ChatSays(consumer, heard.parts)
          /\ consumer.finish = heard.finish /\ consumer.includeUsage = route.usage
    /\ route.stream /\ route.api = "responses" =>
          Standing(consumer) /\ Placed(consumer) /\ ResponsesSays(consumer, heard.parts)

ConsumerFollows == stage \in {"serve", "close"} => Follows

LEMMA CommitFollows ==
    ASSUME ServingTypes, route' = route, consumer' = NewConsumer, heard' = NewAccumulator
    PROVE  Follows'
<1>1. /\ heard' \in Accumulators /\ heard'.parts = <<>> /\ heard'.usage = Nothing /\ heard'.finish = None
    BY NewAccumulatorType DEF NewAccumulator
<1>2. route \in Routes /\ route.api \in {"chat", "responses"} /\ route.stream \in BOOLEAN /\ route.usage \in BOOLEAN
    BY DEF ServingTypes, Routes
<1>3. CASE ~route.stream
  <2>1. consumer' = heard'
      BY <1>3 DEF NewConsumer
  <2> QED
      BY <1>1, <1>3, <2>1 DEF Follows
<1>4. CASE route.stream /\ route.api = "chat"
  <2>1. consumer' = NewTranslator(route.usage)
      BY <1>4 DEF NewConsumer
  <2>2. ChatSays(NewTranslator(route.usage), <<>>)
      BY <1>2, NewTranslatorSays
  <2>3. consumer'.usage = Nothing /\ consumer'.finish = None /\ consumer'.includeUsage = route.usage
      BY <2>1 DEF NewTranslator
  <2>4. ChatSays(consumer', heard'.parts)
      BY <1>1, <2>1, <2>2
  <2> QED
      BY <1>1, <1>4, <2>3, <2>4 DEF Follows
<1>5. CASE route.stream /\ route.api = "responses"
  <2>1. consumer' = NewResponsesStream
      BY <1>5 DEF NewConsumer
  <2>2. Standing(consumer') /\ Placed(consumer') /\ consumer'.usage = Nothing
      BY <2>1, NewStreamStands
  <2>3. ResponsesSays(consumer', heard'.parts)
      BY <1>1, <2>1, NewStreamSays
  <2> QED
      BY <1>1, <1>5, <2>2, <2>3 DEF Follows
<1> QED
    BY <1>2, <1>3, <1>4, <1>5

LEMMA TranslateFollows ==
    ASSUME ServingTypes, DueAreEvents, ConsumerFollows, Translate
    PROVE  Follows'
<1> DEFINE i == Head(due)
           e == Event(i)
<1>1. /\ stage \in {"serve", "close"} /\ due \in Seq(Line) /\ due # <<>> /\ route' = route
      /\ consumer' = Consume(consumer, i) /\ heard' = Hear(heard, i)
    BY DEF Translate, ServingTypes
<1>2. i \in DOMAIN body.lines /\ IsEvent(i)
  <2>1. 1 \in DOMAIN due /\ i = due[1]
      BY <1>1
  <2> QED
      BY <1>1, <2>1 DEF DueAreEvents
<1>3. Follows
    BY <1>1 DEF ConsumerFollows
<1>4. route.api \in {"chat", "responses"} /\ route.stream \in BOOLEAN
    BY DEF ServingTypes, Routes
<1>5. CASE body.lines[i] = "odd"
  <2>1. consumer' = consumer /\ heard' = heard
      BY <1>1, <1>5 DEF Consume, Hear
  <2> QED
      BY <1>1, <1>3, <2>1 DEF Follows
<1>6. CASE body.lines[i] # "odd"
  <2>1. e \in Events
      BY <1>2, <1>6, EventType DEF Heard
  <2>2. heard' = Absorb(heard, e)
      BY <1>1, <1>6 DEF Hear
  <2>3. consumer' = CASE ~route.stream -> Absorb(consumer, e)
                      [] route.stream /\ route.api = "chat" -> OnResponse(consumer, e)
                      [] route.stream /\ route.api = "responses" -> ResponsesOnResponse(consumer, e)
      BY <1>1, <1>4, <1>6 DEF Consume
  <2> HIDE DEF e, i
  <2>4. heard \in Accumulators /\ heard.parts \in Seq(Pieces)
      BY <1>3 DEF Follows, Accumulators
  <2>5. /\ heard' \in Accumulators /\ heard'.parts = heard.parts \o e.parts
        /\ heard'.usage = Newest(heard.usage, e.usage, Nothing)
        /\ heard'.finish = Newest(heard.finish, e.finish, None)
      BY <2>1, <2>2, <2>4, AbsorbType DEF Absorb
  <2>6. CASE ~route.stream
    <3>1. consumer' = heard'
        BY <1>3, <2>2, <2>3, <2>6 DEF Follows
    <3> QED
        BY <1>1, <2>5, <2>6, <3>1 DEF Follows
  <2>7. CASE route.stream /\ route.api = "chat"
    <3>1. consumer' = OnResponse(consumer, e)
        BY <2>3, <2>7
    <3>2. /\ ChatSays(consumer, heard.parts) /\ consumer.finish = heard.finish
          /\ consumer.includeUsage = route.usage /\ consumer.usage = heard.usage
        BY <1>3, <2>7 DEF Follows
    <3>3. /\ ChatSays(OnResponse(consumer, e), heard.parts \o e.parts)
          /\ OnResponse(consumer, e).usage = Newest(consumer.usage, e.usage, Nothing)
          /\ OnResponse(consumer, e).finish = Newest(consumer.finish, e.finish, None)
          /\ OnResponse(consumer, e).includeUsage = consumer.includeUsage
        BY <2>1, <2>4, <3>2, OnResponseSays
    <3>4. ChatSays(consumer', heard'.parts)
        BY <2>5, <3>1, <3>3
    <3>5. /\ consumer'.usage = heard'.usage /\ consumer'.finish = heard'.finish
          /\ consumer'.includeUsage = route.usage
        BY <2>5, <3>1, <3>2, <3>3
    <3> QED
        BY <1>1, <2>5, <2>7, <3>4, <3>5 DEF Follows
  <2>8. CASE route.stream /\ route.api = "responses"
    <3>1. consumer' = ResponsesOnResponse(consumer, e)
        BY <2>3, <2>8
    <3>2. /\ Standing(consumer) /\ Placed(consumer) /\ ResponsesSays(consumer, heard.parts)
          /\ consumer.usage = heard.usage
        BY <1>3, <2>8 DEF Follows
    <3>3. LET v == ResponsesOnResponse(consumer, e)
          IN /\ Standing(v) /\ Placed(v) /\ v.out # <<>> /\ v.usage = Newest(consumer.usage, e.usage, Nothing)
             /\ ResponsesSays(v, heard.parts \o e.parts)
        BY <2>1, <2>4, <3>2, ResponsesOnResponseSays
    <3>4. ResponsesSays(consumer', heard'.parts) /\ Standing(consumer') /\ Placed(consumer')
        BY <2>5, <3>1, <3>3
    <3>5. consumer'.usage = heard'.usage
        BY <2>5, <3>1, <3>2, <3>3
    <3> QED
        BY <1>1, <2>5, <2>8, <3>4, <3>5 DEF Follows
  <2> QED
      BY <1>4, <2>6, <2>7, <2>8
<1> QED
    BY <1>5, <1>6

LEMMA ConsumerStep ==
    ASSUME ServingTypes, DueAreEvents, ConsumerFollows, [Next]_vars
    PROVE  ConsumerFollows'
<1>1. CASE RejectBody \/ CannotConvert \/ Prepare \/ DispatchFails \/ DispatchAnswers \/ Close \/ Vanish
    BY <1>1 DEF RejectBody, CannotConvert, Prepare, DispatchFails, DispatchAnswers, Close, Vanish, ConsumerFollows
<1>2. ASSUME NEW lines, NEW content, NEW live, Decide(lines, content, live), route' = route
      PROVE  ConsumerFollows'
  <2>1. CASE DispatchAgain
      BY <2>1 DEF DispatchAgain, ConsumerFollows
  <2>2. CASE Commit(lines, live)
    <3>1. consumer' = NewConsumer /\ heard' = NewAccumulator
        BY <2>2 DEF Commit
    <3> QED
        BY <1>2, <3>1, CommitFollows DEF ConsumerFollows
  <2> QED
      BY <1>2, <2>1, <2>2 DEF Decide
<1>3. CASE PreludeChunk
  <2>1. route' = route /\ stage = "prelude"
      BY <1>3 DEF PreludeChunk
  <2>2. stage' = stage \/ \E lines, content, live : Decide(lines, content, live)
      BY <1>3 DEF PreludeChunk
  <2> QED
      BY <1>2, <2>1, <2>2 DEF ConsumerFollows
<1>4. CASE PreludeStops
    BY <1>2, <1>4 DEF PreludeStops
<1>5. CASE Translate
    BY <1>5, TranslateFollows DEF ConsumerFollows
<1>6. CASE TailChunk \/ TailStops
  <2>1. UNCHANGED <<route, consumer, heard>> /\ stage \in {"serve", "close"}
      BY <1>6 DEF TailChunk, TailStops
  <2> QED
      BY <2>1 DEF ConsumerFollows, Follows
<1>7. CASE Terminated \/ UNCHANGED vars
  <2>1. UNCHANGED <<route, consumer, heard, stage>>
      BY <1>7 DEF Terminated, vars, reply
  <2> QED
      BY <2>1 DEF ConsumerFollows, Follows
<1> QED
    BY <1>1, <1>3, <1>4, <1>5, <1>6, <1>7 DEF Next

-----------------------------------------------------------------------------
(* What a client is told *)

ServingInv == ServingTypes /\ RecordedAtTheEnd /\ LinesInduct /\ DueAreEvents /\ ConsumerFollows

\* The consumer of each route follows the events it was given.
LEMMA ServingInvHolds == Spec => []ServingInv
<1>1. Init => ServingInv
  <2>1. Init => taken = <<>> /\ stage = "new"
      BY DEF Init
  <2> QED
      BY <2>1, ServingInitTypes DEF ServingInv, LinesInduct, Served, DueAreEvents, ConsumerFollows
<1>2. ServingInv /\ [Next]_vars => ServingInv'
    BY ServingStepTypes, ServingStepRecords, LinesStep, DueStep, ConsumerStep DEF ServingInv
<1> QED
    BY <1>1, <1>2, PTL DEF Spec

LEMMA ServedByClose ==
    ASSUME ServingInv, [Next]_vars, Served'
    PROVE  Close \/ UNCHANGED vars
BY OnlyCloseServes DEF ServingInv, Terminated

\* The last frames of a chat stream complete what its reply would have said.
LEMMA ChatReply ==
    ASSUME NEW t, NEW acc \in Accumulators, ChatSays(t, acc.parts),
           t.usage = acc.usage, t.finish = acc.finish
    PROVE  LET want == Completion(acc)
               u    == TranslatorFinish(t)
           IN /\ Whats(u.out, "thinking") = want.thinking
              /\ Whats(u.out, "text") = IF want.content = Nothing THEN <<>> ELSE want.content[1]
              /\ Whats(u.out, "tool") = [k \in DOMAIN want.calls |-> <<k - 1, want.calls[k]>>]
              /\ Whats(u.out, "finish") = <<want.finish>>
              /\ Whats(u.out, "usage") =
                    IF t.includeUsage /\ want.usage # Nothing THEN <<want.usage>> ELSE <<>>
              /\ \A k \in DOMAIN u.out : u.out[k].role <=> k = 1
              /\ u.signed = want.signed
<1> DEFINE want == Completion(acc)
           u == TranslatorFinish(t)
           parts == acc.parts
           text == Places(OfKind(parts, "text"))
           tools == OfKind(parts, "tool")
           calls == [i \in DOMAIN tools |-> ToolCallId(tools[i])]
<1>1. parts \in Seq(Pieces)
    BY DEF Accumulators
<1>2. /\ want.thinking = Places(OfKind(parts, "thinking"))
      /\ want.content = IF text = <<>> /\ tools # <<>> THEN Nothing ELSE <<text>>
      /\ want.calls = calls
      /\ want.finish = MapFinishReason(acc.finish, tools # <<>>)
      /\ want.usage = acc.usage
      /\ want.signed = Kept(parts)
    BY DEF Completion, Kept
<1>3. ChatSays(t, parts)
    OBVIOUS
<1> HIDE DEF want, parts
<1>4. /\ \A kind \in {"thinking", "text", "tool"} : Whats(u.out, kind) = Whats(t.out, kind)
      /\ Whats(u.out, "finish") = <<MapFinishReason(t.finish, t.calls > 0)>>
      /\ Whats(u.out, "usage") = IF t.includeUsage /\ t.usage # Nothing THEN <<t.usage>> ELSE <<>>
      /\ \A k \in DOMAIN u.out : u.out[k].role <=> k = 1
      /\ u.signed = t.signed /\ u.usage = t.usage
    BY <1>1, <1>3, TranslatorFinishSays
<1> HIDE DEF u
<1>5. /\ Whats(t.out, "thinking") = Places(OfKind(parts, "thinking"))
      /\ Whats(t.out, "text") = text /\ Whats(t.out, "tool") = Numbered(tools)
      /\ t.calls = Len(tools) /\ t.signed = Kept(parts)
    BY <1>3 DEF ChatSays
<1>6. tools \in Seq(Pieces)
    BY <1>1, OfKindType
<1>7. Numbered(tools) = [k \in DOMAIN calls |-> <<k - 1, calls[k]>>]
    BY DEF Numbered
<1>8. t.calls > 0 <=> tools # <<>>
  <2> HIDE DEF tools
  <2>1. Len(tools) \in Nat /\ (Len(tools) = 0 <=> tools = <<>>)
      BY <1>6
  <2> QED
      BY <1>5, <2>1
<1>9. text = IF want.content = Nothing THEN <<>> ELSE want.content[1]
  <2> HIDE DEF text, tools
  <2>1. <<text>> # Nothing /\ (<<text>>)[1] = text
      BY DEF Nothing
  <2> QED
      BY <1>2, <2>1
<1>10. MapFinishReason(t.finish, t.calls > 0) = want.finish
  <2> DEFINE some == t.calls > 0
  <2>1. some = (tools # <<>>)
      BY <1>8
  <2> HIDE DEF some, tools
  <2> QED
      BY <1>2, <2>1 DEF some
<1> HIDE DEF text, tools, calls
<1>11. Whats(u.out, "tool") = [k \in DOMAIN want.calls |-> <<k - 1, want.calls[k]>>]
    BY <1>2, <1>4, <1>5, <1>7
<1> QED
    BY <1>2, <1>4, <1>5, <1>9, <1>10, <1>11 DEF want, u

\* However the upstream's events are split and mixed, a chat client that
\* streams is told what the buffered reply says.
THEOREM ChatStreamsAreFaithful == Spec => []ChatStreamSaysTheSame
<1>1. Init => ChatStreamSaysTheSame
    BY DEF Init, Served, ChatStreamSaysTheSame
<1>2. ServingInv /\ ChatStreamSaysTheSame /\ [Next]_vars => ChatStreamSaysTheSame'
  <2> SUFFICES ASSUME ServingInv, ChatStreamSaysTheSame, [Next]_vars, Served',
                      route'.api = "chat", route'.stream
               PROVE  ChatStreamSaysTheSame'
      BY DEF ChatStreamSaysTheSame
  <2>1. CASE Close
    <3>1. stage = "close" /\ consumer' = Finish(consumer) /\ heard' = heard /\ route' = route
        BY <2>1 DEF Close
    <3>2. Follows
        BY <3>1 DEF ServingInv, ConsumerFollows
    <3>3. /\ heard \in Accumulators /\ ChatSays(consumer, heard.parts) /\ consumer.usage = heard.usage
          /\ consumer.finish = heard.finish /\ consumer.includeUsage = route.usage
        BY <3>1, <3>2 DEF Follows
    <3>4. consumer' = TranslatorFinish(consumer)
        BY <3>1 DEF Finish
    <3>5. LET want == Completion(heard)
              u    == TranslatorFinish(consumer)
          IN /\ Whats(u.out, "thinking") = want.thinking
             /\ Whats(u.out, "text") = IF want.content = Nothing THEN <<>> ELSE want.content[1]
             /\ Whats(u.out, "tool") = [k \in DOMAIN want.calls |-> <<k - 1, want.calls[k]>>]
             /\ Whats(u.out, "finish") = <<want.finish>>
             /\ Whats(u.out, "usage") =
                   IF consumer.includeUsage /\ want.usage # Nothing THEN <<want.usage>> ELSE <<>>
             /\ \A k \in DOMAIN u.out : u.out[k].role <=> k = 1
             /\ u.signed = want.signed
        BY <3>3, ChatReply
    <3> QED
        BY <3>1, <3>3, <3>4, <3>5, Zenon DEF ChatStreamSaysTheSame
  <2>2. CASE UNCHANGED vars
    <3>1. UNCHANGED <<route, stage, records, consumer, heard>>
        BY <2>2 DEF vars, reply
    <3> QED
        BY <3>1 DEF ChatStreamSaysTheSame, Served
  <2> QED
      BY <2>1, <2>2, ServedByClose
<1> QED
    BY <1>1, <1>2, ServingInvHolds, PTL DEF Spec

\* A Responses client that streams is told the text and the calls of the buffered
\* response in deltas and again in done events, and its reasoning in deltas only:
\* ResponsesStream has no done event for reasoning.
THEOREM ResponsesStreamsAreFaithful == Spec => []ResponsesStreamSaysTheSame
<1>1. Init => ResponsesStreamSaysTheSame
    BY DEF Init, Served, ResponsesStreamSaysTheSame
<1>2. ServingInv /\ ResponsesStreamSaysTheSame /\ [Next]_vars => ResponsesStreamSaysTheSame'
  <2> SUFFICES ASSUME ServingInv, ResponsesStreamSaysTheSame, [Next]_vars, Served',
                      route'.api = "responses", route'.stream
               PROVE  ResponsesStreamSaysTheSame'
      BY DEF ResponsesStreamSaysTheSame
  <2>1. CASE Close
    <3> DEFINE parts == heard.parts
               u == ResponsesFinish(consumer)
    <3>1. stage = "close" /\ consumer' = Finish(consumer) /\ heard' = heard /\ route' = route
        BY <2>1 DEF Close
    <3>2. Follows
        BY <3>1 DEF ServingInv, ConsumerFollows
    <3>3. /\ parts \in Seq(Pieces) /\ consumer.usage = heard.usage
          /\ Standing(consumer) /\ Placed(consumer) /\ ResponsesSays(consumer, parts)
        BY <3>1, <3>2 DEF Follows, Accumulators
    <3>4. consumer' = u
        BY <3>1 DEF Finish
    <3> HIDE DEF parts
    <3>5. /\ Say(u, "text.delta") = Places(OfKind(parts, "text"))
          /\ Say(u, "text.done") = Places(OfKind(parts, "text"))
          /\ Say(u, "arguments.done") = Called(OfKind(parts, "tool"))
          /\ Say(u, "reasoning.delta") = Places(OfKind(parts, "thinking"))
          /\ u.usage = consumer.usage
        BY <3>3, FinishGoes
    <3> HIDE DEF u
    <3>6. u.usage = heard.usage
        BY <3>3, <3>5
    <3> QED
        BY <3>1, <3>4, <3>5, <3>6, Zenon DEF ResponsesStreamSaysTheSame, Say, Called, parts
  <2>2. CASE UNCHANGED vars
    <3>1. UNCHANGED <<route, stage, records, consumer, heard>>
        BY <2>2 DEF vars, reply
    <3> QED
        BY <3>1 DEF ResponsesStreamSaysTheSame, Served
  <2> QED
      BY <2>1, <2>2, ServedByClose
<1> QED
    BY <1>1, <1>2, ServingInvHolds, PTL DEF Spec

\* The protocol of a stream, in the words of the lemmas above.
LEMMA ProtocolIs ==
    ASSUME route.api = "responses" /\ route.stream /\ (Served \/ stage \in {"serve", "close"})
              => /\ InOrder(consumer.out, Served)
                 /\ Served => Closed(consumer)
    PROVE  ResponsesProtocol
<1> SUFFICES ASSUME route.api = "responses", route.stream, Served \/ stage \in {"serve", "close"},
                    InOrder(consumer.out, Served), Served => Closed(consumer)
             PROVE  ResponsesProtocol
    BY DEF ResponsesProtocol
<1>1. \A k \in DOMAIN consumer.out :
         /\ consumer.out[k].number = k - 1
         /\ k = 1 <=> consumer.out[k].type = "created"
         /\ consumer.out[k].type = "completed" => k = Len(consumer.out) /\ Served
         /\ consumer.out[k].item # Nothing =>
               /\ consumer.out[k].type = "item.added" <=>
                     ~\E j \in 1 .. k - 1 : consumer.out[j].item = consumer.out[k].item
               /\ ~\E j \in 1 .. k - 1 :
                     consumer.out[j].type = "item.done" /\ consumer.out[j].item = consumer.out[k].item
    BY Zenon DEF InOrder
<1>2. ASSUME Served, NEW k \in DOMAIN consumer.out, consumer.out[k].type = "item.added"
      PROVE  LET out == consumer.out
                 id  == consumer.out[k].item
             IN /\ id[1] = "message" =>
                      Told(out, OfItem(out, id) \cap OfType(out, "text.delta")) =
                      Told(out, OfItem(out, id) \cap OfType(out, "text.done"))
                /\ id[1] # "reasoning" => \E j \in DOMAIN out : out[j].type = "item.done" /\ out[j].item = id
                /\ ReasoningFirst(out) =>
                      \A j \in DOMAIN out : out[j].item = id => out[j].index = Position(id) - 1
  <2>1. ClosedItem(consumer, consumer.out[k].item)
      BY <1>2 DEF Closed
  <2> QED
      BY <2>1, Zenon DEF ClosedItem, SayOf, Ended, Position
<1> QED
    BY <1>1, <1>2, Zenon DEF ResponsesProtocol

\* At every moment of a Responses stream its events are in order; at its end every
\* message and call is closed, and has its place where reasoning comes first.
THEOREM ResponsesEventsAreInOrder == Spec => []ResponsesProtocol
<1> DEFINE Ordered == route.api = "responses" /\ route.stream /\ Served =>
                         InOrder(consumer.out, TRUE) /\ Closed(consumer)
<1>1. Init => Ordered
    BY DEF Init, Served
<1>2. ServingInv /\ Ordered /\ [Next]_vars => Ordered'
  <2> SUFFICES ASSUME ServingInv, Ordered, [Next]_vars, Served', route'.api = "responses", route'.stream
               PROVE  InOrder(consumer.out, TRUE)' /\ Closed(consumer)'
      OBVIOUS
  <2>1. CASE Close
    <3> DEFINE u == ResponsesFinish(consumer)
               parts == heard.parts
    <3>1. stage = "close" /\ consumer' = Finish(consumer) /\ route' = route
        BY <2>1 DEF Close
    <3>2. Follows
        BY <3>1 DEF ServingInv, ConsumerFollows
    <3>3. parts \in Seq(Pieces) /\ Standing(consumer) /\ Placed(consumer) /\ ResponsesSays(consumer, parts)
        BY <3>1, <3>2 DEF Follows, Accumulators
    <3>4. consumer' = u
        BY <3>1 DEF Finish
    <3> HIDE DEF parts
    <3>5. InOrder(u.out, TRUE) /\ Closed(u)
        BY <3>3, FinishGoes
    <3> HIDE DEF u
    <3> QED
        BY <3>4, <3>5
  <2>2. CASE UNCHANGED vars
    <3>1. UNCHANGED <<route, stage, records, consumer>>
        BY <2>2 DEF vars, reply
    <3>2. Served
        BY <3>1 DEF Served
    <3>3. InOrder(consumer.out, TRUE) /\ Closed(consumer)
        BY <3>1, <3>2
    <3> QED
        BY <3>1, <3>3
  <2> QED
      BY <2>1, <2>2, ServedByClose
<1>3. ServingInv /\ Ordered => ResponsesProtocol
  <2> SUFFICES ASSUME ServingInv, Ordered PROVE ResponsesProtocol
      OBVIOUS
  <2>1. ASSUME route.api = "responses", route.stream, stage \in {"serve", "close"}
        PROVE  InOrder(consumer.out, FALSE) /\ ~Served
    <3>1. Standing(consumer)
        BY <2>1 DEF ServingInv, ConsumerFollows, Follows
    <3>2. consumer \in Streams /\ Orderly(consumer)
        BY <3>1 DEF Standing
    <3> QED
        BY <2>1, <3>2, OrderlyInOrder DEF Served
  <2>2. ASSUME route.api = "responses", route.stream, Served
        PROVE  InOrder(consumer.out, Served) /\ Closed(consumer)
    <3>1. InOrder(consumer.out, TRUE) /\ Closed(consumer)
        BY <2>2
    <3>2. \A k \in DOMAIN consumer.out : consumer.out[k].type = "completed" => k = Len(consumer.out) /\ Served
        BY <2>2, <3>1 DEF InOrder
    <3> QED
        BY <3>1, <3>2, Zenon DEF InOrder
  <2>3. ASSUME route.api = "responses", route.stream, stage \in {"serve", "close"}
        PROVE  InOrder(consumer.out, Served) /\ ~Served
      BY <2>1, <2>3, Zenon DEF InOrder
  <2> QED
      BY <2>2, <2>3, ProtocolIs
<1> QED
    BY <1>1, <1>2, <1>3, ServingInvHolds, PTL DEF Spec

-----------------------------------------------------------------------------
(* The record, and the empty answer *)

\* What AuditedOnce needs to be inductive: nothing is dispatched at first.
AuditInduct == AuditedOnce /\ (stage = "new" => attempt = 0)

LEMMA AuditStep ==
    ASSUME ServingInv, AuditInduct, [Next]_vars
    PROVE  AuditInduct'
<1>1. \A x : Len(Append(<<>>, x)) = 1 /\ Append(<<>>, x) = <<x>>
    OBVIOUS
<1>2. RecordedAtTheEnd /\ RecordedAtTheEnd'
    BY ServingStepRecords DEF ServingInv
<1>3. stage' # "done" => records' = <<>> /\ executed' = 0
    BY <1>2 DEF RecordedAtTheEnd
<1>4. CASE RejectBody \/ Prepare \/ DispatchFails
  <2>1. /\ records = <<>> /\ executed = 0 /\ executed' = executed
        /\ stage' = "done" \/ stage' = "dispatch"
      BY <1>2, <1>4 DEF RejectBody, Prepare, DispatchFails, RecordedAtTheEnd
  <2>2. stage' = "done" => Len(records') = 1
      BY <1>1, <1>4, <2>1 DEF RejectBody, Prepare, DispatchFails, Record
  <2>3. ~Served'
    <3>1. ~Close /\ ~Terminated
        BY <1>4 DEF RejectBody, Prepare, DispatchFails, Close, Terminated
    <3> QED
        BY <1>4, <3>1, OnlyCloseServes DEF ServingInv, Next
  <2> QED
      BY <1>3, <2>1, <2>2, <2>3 DEF AuditInduct, AuditedOnce
<1>5. CASE CannotConvert
  <2>1. /\ stage = "new" /\ route.api = "responses" /\ stage' = "done"
        /\ route' = route /\ attempt' = attempt /\ records' = records /\ executed' = executed
      BY <1>5 DEF CannotConvert
  <2>2. records' = <<>> /\ executed' = 0 /\ attempt' = 0
      BY <1>2, <2>1 DEF RecordedAtTheEnd, AuditInduct
  <2>3. ~Served'
      BY <2>2 DEF Served
  <2> QED
      BY <2>1, <2>2, <2>3 DEF AuditInduct, AuditedOnce
<1>6. CASE DispatchAnswers \/ PreludeChunk \/ PreludeStops \/ Translate \/ TailChunk \/ TailStops \/ Vanish
  <2>1. stage' # "done" /\ stage' # "new"
    <3>1. ASSUME NEW lines, NEW content, NEW live, Decide(lines, content, live)
          PROVE  stage' # "done" /\ stage' # "new"
        BY <3>1 DEF Decide, Commit, DispatchAgain
    <3> QED
        BY <1>6, <3>1 DEF DispatchAnswers, PreludeChunk, PreludeStops, Translate, TailChunk, TailStops, Vanish
  <2> QED
      BY <1>3, <2>1 DEF AuditInduct, AuditedOnce, Served
<1>7. CASE Close
  <2>1. /\ stage = "close" /\ stage' = "done" /\ route' = route /\ heard' = heard
        /\ executed' = IF route.api = "responses" /\ ~route.stream THEN executed ELSE executed + 1
        /\ records' = Append(records, Entry(200, consumer.usage))
      BY <1>7 DEF Close, Record
  <2>2. records = <<>> /\ executed = 0
      BY <1>2, <2>1 DEF RecordedAtTheEnd
  <2>3. consumer.usage = heard.usage
      BY <2>1 DEF ServingInv, ConsumerFollows, Follows
  <2>4. records' = <<Entry(200, consumer.usage)>> /\ Len(records') = 1
      BY <1>1, <2>1, <2>2
  <2>5. records'[1].usage = heard'.usage /\ records'[1].status = 200 /\ 1 \in DOMAIN records'
      BY <2>1, <2>3, <2>4 DEF Entry
  <2>6. Served'
      BY <2>1, <2>5 DEF Served
  <2>7. executed' = 1 <=> route'.api = "chat" \/ route'.stream
    <3>1. route.api \in {"chat", "responses"}
        BY DEF ServingInv, ServingTypes, Routes
    <3> QED
        BY <2>1, <2>2, <3>1
  <2> QED
      BY <2>1, <2>4, <2>5, <2>6, <2>7 DEF AuditInduct, AuditedOnce
<1>8. CASE Terminated \/ UNCHANGED vars
  <2>1. UNCHANGED <<route, stage, attempt, records, executed, heard>>
      BY <1>8 DEF Terminated, vars, reply
  <2> QED
      BY <2>1 DEF AuditInduct, AuditedOnce, Served
<1> QED
    BY <1>4, <1>5, <1>6, <1>7, <1>8 DEF Next

\* A request that ends leaves one record, but for a Responses request that cannot be
\* converted, which leaves none (server/responses.rs:44).  The record of a reply has
\* the usage of what the client was sent, and its session's turn is completed with
\* it, except by the buffered Responses route.
THEOREM RequestsAreAudited == Spec => []AuditedOnce
<1>1. Init => AuditInduct
    BY DEF Init, AuditInduct, AuditedOnce, Served
<1>2. ServingInv /\ AuditInduct /\ [Next]_vars => AuditInduct'
    BY AuditStep
<1>3. AuditInduct => AuditedOnce
    BY DEF AuditInduct
<1> QED
    BY <1>1, <1>2, <1>3, ServingInvHolds, PTL DEF Spec

\* A part with something in it.
Says(p) == p.text = "words" \/ p.call # None

MoreToSay == \E k \in DOMAIN due : ShowsContent(due[k])

\* Something was heard, or is due, once there are retries left.
SomethingToSay ==
    stage \in {"serve", "close"} \/ Served =>
       \/ attempt = MaxRetries + 1
       \/ \E k \in DOMAIN heard.parts : Says(heard.parts[k])
       \/ MoreToSay

LEMMA ContentSays ==
    ASSUME NEW acc, acc.parts \in Seq(Pieces), HasClientContent(acc)
    PROVE  \E k \in DOMAIN acc.parts : Says(acc.parts[k])
<1>1. PICK k \in DOMAIN acc.parts :
         \/ Classify(acc.parts[k]) \in {"text", "thinking"} /\ acc.parts[k].text = "words"
         \/ Classify(acc.parts[k]) = "tool"
    BY DEF HasClientContent
<1> DEFINE p == acc.parts[k]
<1>2. Classify(p) = "tool" => p.call # None
  <2>1. p \in Pieces
      OBVIOUS
  <2> HIDE DEF p
  <2>2. p.text \in {None, "empty", "blank", "words"} /\ p.call \in {None, "named", "blank", "unnamed"}
      BY <2>1 DEF Pieces, PartsAt
  <2> QED
      BY <2>2 DEF Classify, None
<1> QED
    BY <1>1, <1>2 DEF Says

LEMMA DecideSays ==
    ASSUME NEW lines, NEW content, NEW live, Decide(lines, content, live),
           content => \E k \in DOMAIN lines : ShowsContent(lines[k])
    PROVE  SomethingToSay'
<1>1. CASE content \/ OutOfRetries
  <2>1. attempt' = attempt /\ body' = body /\ due' = lines
      BY <1>1 DEF Decide, Commit
  <2>2. \A i : ShowsContent(i)' = ShowsContent(i)
      BY <2>1 DEF ShowsContent, Event, Parts
  <2> QED
      BY <1>1, <2>1, <2>2 DEF SomethingToSay, MoreToSay, OutOfRetries
<1>2. CASE ~(content \/ OutOfRetries)
  <2>1. stage' = "dispatch"
      BY <1>2 DEF Decide, DispatchAgain
  <2> QED
      BY <2>1 DEF SomethingToSay, Served
<1> QED
    BY <1>1, <1>2

LEMMA TranslateSays ==
    ASSUME ServingInv, SomethingToSay, Translate
    PROVE  SomethingToSay'
<1> DEFINE i == Head(due)
<1>1. /\ stage \in {"serve", "close"} /\ due \in Seq(Line) /\ due # <<>> /\ due' = Tail(due)
      /\ heard' = Hear(heard, i) /\ attempt' = attempt /\ body' = body
    BY DEF Translate, ServingInv, ServingTypes, transfer
<1>2. i \in DOMAIN body.lines /\ IsEvent(i) /\ i = due[1]
  <2>1. 1 \in DOMAIN due /\ i = due[1]
      BY <1>1
  <2> QED
      BY <1>1, <2>1 DEF ServingInv, DueAreEvents
<1>3. heard \in Accumulators /\ heard.parts \in Seq(Pieces)
    BY <1>1 DEF ServingInv, ConsumerFollows, Follows, Accumulators
<1>4. \A j : ShowsContent(j)' = ShowsContent(j)
    BY <1>1 DEF ShowsContent, Event, Parts
<1>5. CASE \E k \in DOMAIN heard.parts : Says(heard.parts[k])
  <2>1. CASE body.lines[i] = "odd"
      BY <1>1, <1>5, <2>1 DEF Hear, SomethingToSay
  <2>2. CASE body.lines[i] # "odd"
    <3> DEFINE said == Event(i).parts
               parts == heard.parts
    <3>1. heard'.parts = parts \o said
        BY <1>1, <2>2 DEF Hear, Absorb
    <3>2. said \in Seq(Pieces)
        BY <1>2, <2>2, EventType DEF Heard, Events, ServingInv
    <3>3. PICK k \in DOMAIN parts : Says(parts[k])
        BY <1>5
    <3> HIDE DEF said, parts
    <3>4. parts \in Seq(Pieces)
        BY <1>3 DEF parts
    <3>5. k \in DOMAIN (parts \o said) /\ (parts \o said)[k] = parts[k]
        BY <3>2, <3>4
    <3> QED
        BY <3>1, <3>3, <3>5 DEF SomethingToSay
  <2> QED
      BY <2>1, <2>2
<1>6. CASE ShowsContent(i)
  <2> DEFINE e == Event(i)
             said == e.parts
             parts == heard.parts
  <2>1. body.lines[i] # "odd" /\ HasClientContent(e)
      BY <1>6 DEF ShowsContent
  <2>2. e \in Events /\ said \in Seq(Pieces)
      BY <1>2, <2>1, EventType DEF Heard, Events, ServingInv
  <2>3. heard'.parts = parts \o said
      BY <1>1, <2>1 DEF Hear, Absorb
  <2>4. PICK k \in DOMAIN said : Says(said[k])
      BY <2>1, <2>2, ContentSays
  <2> HIDE DEF said, parts
  <2>5. parts \in Seq(Pieces)
      BY <1>3 DEF parts
  <2> DEFINE n == Len(parts) + k
  <2>6. n \in DOMAIN (parts \o said) /\ (parts \o said)[n] = said[k]
      BY <2>2, <2>5
  <2> HIDE DEF n
  <2> QED
      BY <2>3, <2>4, <2>6 DEF SomethingToSay
<1>7. ASSUME NEW k \in DOMAIN due, ShowsContent(due[k]), k # 1
      PROVE  MoreToSay'
  <2> DEFINE j == k - 1
             line == due[k]
  <2>1. j \in DOMAIN due' /\ due'[j] = line
      BY <1>1, <1>7
  <2> HIDE DEF j, line
  <2>2. ShowsContent(line)
      BY <1>7 DEF line
  <2> QED
      BY <1>4, <2>1, <2>2 DEF MoreToSay
<1>8. (\E k \in DOMAIN heard.parts : Says(heard.parts[k])) \/ MoreToSay \/ attempt = MaxRetries + 1
    BY <1>1 DEF SomethingToSay
<1>9. MoreToSay => ShowsContent(i) \/ MoreToSay'
    BY <1>2, <1>7 DEF MoreToSay
<1>10. MoreToSay' => SomethingToSay'
    BY DEF SomethingToSay
<1>11. attempt = MaxRetries + 1 => SomethingToSay'
    BY <1>1 DEF SomethingToSay
<1> QED
    BY <1>5, <1>6, <1>8, <1>9, <1>10, <1>11

\* A reply is over once the consumer has been given everything.
SaidEnough == SomethingToSay /\ (Served => due = <<>>)

LEMMA SaidEnoughStep ==
    ASSUME ServingInv, SaidEnough, [Next]_vars
    PROVE  SaidEnough'
<1>1. CASE RejectBody \/ CannotConvert \/ Prepare \/ DispatchFails \/ DispatchAnswers \/ Vanish
  <2>1. stage' \notin {"serve", "close"}
      BY <1>1 DEF RejectBody, CannotConvert, Prepare, DispatchFails, DispatchAnswers, Vanish
  <2>2. ~Close /\ ~Terminated
      BY <1>1 DEF RejectBody, CannotConvert, Prepare, DispatchFails, DispatchAnswers, Vanish,
                  Close, Terminated
  <2>3. ~Served'
      BY <1>1, <2>2, OnlyCloseServes DEF ServingInv, Next
  <2> QED
      BY <2>1, <2>3 DEF SaidEnough, SomethingToSay
<1>2. CASE PreludeChunk
  <2> DEFINE lines   == prelude \o Decode(from, at')
             content == \E k \in DOMAIN lines : ShowsContent(lines[k])
  <2>1. stage = "prelude" /\ stage' # "done"
    <3>1. ASSUME NEW l, NEW c, NEW live, Decide(l, c, live)
          PROVE  stage' # "done"
        BY <3>1 DEF Decide, Commit, DispatchAgain
    <3> QED
        BY <1>2, <3>1 DEF PreludeChunk
  <2>2. CASE Overflows(from, at')
    <3>1. Decide(prelude, FALSE, FALSE)
        BY <1>2, <2>2 DEF PreludeChunk
    <3>2. SomethingToSay'
        BY <3>1, DecideSays
    <3> QED
        BY <2>1, <3>2 DEF SaidEnough, Served
  <2>3. CASE ~Overflows(from, at') /\ (content \/ Len(lines) >= MaxPrelude)
    <3>1. Decide(lines, content, TRUE)
        BY <1>2, <2>3 DEF PreludeChunk
    <3>2. content => \E k \in DOMAIN lines : ShowsContent(lines[k])
        OBVIOUS
    <3> HIDE DEF lines, content
    <3>3. SomethingToSay'
        BY <3>1, <3>2, DecideSays
    <3> QED
        BY <2>1, <3>3 DEF SaidEnough, Served
  <2>4. CASE ~Overflows(from, at') /\ ~(content \/ Len(lines) >= MaxPrelude)
    <3>1. stage' = stage
        BY <1>2, <2>4 DEF PreludeChunk
    <3> QED
        BY <2>1, <3>1 DEF SaidEnough, SomethingToSay, Served
  <2> QED
      BY <2>2, <2>3, <2>4
<1>3. CASE PreludeStops
  <2>1. PICK live \in BOOLEAN : Decide(prelude, FALSE, live)
      BY <1>3 DEF PreludeStops
  <2>2. stage' # "done"
      BY <2>1 DEF Decide, Commit, DispatchAgain
  <2>3. SomethingToSay'
      BY <2>1, DecideSays
  <2> QED
      BY <2>2, <2>3 DEF SaidEnough, Served
<1>4. CASE Translate
  <2>1. SomethingToSay' /\ stage' = stage /\ stage # "done"
      BY <1>4, TranslateSays DEF SaidEnough, Translate
  <2> QED
      BY <2>1 DEF SaidEnough, Served
<1>5. CASE TailChunk \/ TailStops \/ Close
  <2>1. /\ stage \in {"serve", "close"} /\ due = <<>>
        /\ attempt' = attempt /\ heard' = heard
      BY <1>5 DEF TailChunk, TailStops, Close
  <2>2. ~MoreToSay
      BY <2>1 DEF MoreToSay
  <2>3. attempt = MaxRetries + 1 \/ \E k \in DOMAIN heard.parts : Says(heard.parts[k])
      BY <2>1, <2>2 DEF SaidEnough, SomethingToSay
  <2>4. SomethingToSay'
      BY <2>1, <2>3 DEF SomethingToSay, Says
  <2>5. Served' => due' = <<>>
      BY <1>5, <2>1 DEF TailChunk, TailStops, Close, Served
  <2> QED
      BY <2>4, <2>5 DEF SaidEnough
<1>6. CASE Terminated \/ UNCHANGED vars
  <2>1. UNCHANGED <<stage, attempt, body, due, heard, records>>
      BY <1>6 DEF Terminated, vars, transfer, reply
  <2>2. Served' = Served
      BY <2>1 DEF Served
  <2>3. MoreToSay' = MoreToSay
      BY <2>1 DEF MoreToSay, ShowsContent, Event, Parts
  <2> QED
      BY <2>1, <2>2, <2>3 DEF SaidEnough, SomethingToSay, Says
<1> QED
    BY <1>1, <1>2, <1>3, <1>4, <1>5, <1>6 DEF Next

\* An empty answer is given only by the last retry: what ended the prelude's wait
\* before that is still to be given to the consumer, or was, when the reply is over.
THEOREM NothingOnlyAfterEveryRetry == Spec => []EmptyOnlyAfterEveryRetry
<1>1. Init => SaidEnough
    BY DEF Init, SaidEnough, SomethingToSay, Served
<1>2. ServingInv /\ SaidEnough /\ [Next]_vars => SaidEnough'
    BY SaidEnoughStep
<1>3. SaidEnough => EmptyOnlyAfterEveryRetry
  <2> SUFFICES ASSUME SaidEnough, Served
               PROVE  EmptyOnlyAfterEveryRetry
      BY DEF EmptyOnlyAfterEveryRetry
  <2>1. ~MoreToSay
      BY DEF SaidEnough, MoreToSay
  <2> QED
      BY <2>1 DEF SaidEnough, SomethingToSay, Says, EmptyOnlyAfterEveryRetry
<1> QED
    BY <1>1, <1>2, <1>3, ServingInvHolds, PTL DEF Spec
=============================================================================
