---------------------------- MODULE FilterProofs ----------------------------
(***************************************************************************)
(* What Filter returns, for sequences of any length.  The facts are shown  *)
(* by induction on the length, in the form of a shortest counterexample.   *)
(***************************************************************************)
EXTENDS Filtering, Functions, WellFoundedInduction, TLAPS

-----------------------------------------------------------------------------
(* Sequences.                                                              *)

\* The last element and the others.
LEMMA LastSplit ==
  ASSUME NEW A, NEW s \in Seq(A), s # <<>>
  PROVE  \E t \in Seq(A), x \in A : s = Append(t, x)
<1>1. PICK n \in Nat : Len(s) = n + 1
  OBVIOUS
<1>2. s[n + 1] \in A /\ \A k \in 1..n : s[k] \in A
  BY <1>1
<1>3. PICK t : t = SubSeq(s, 1, n)
  BY Zenon
<1>4. t \in Seq(A) /\ Len(t) = IF 1 <= n THEN n - 1 + 1 ELSE 0
  BY <1>2, <1>3
<1>5. \A k \in 1..n - 1 + 1 : t[k] = s[1 + k - 1]
  BY <1>2, <1>3
<1>6. Len(t) = n /\ \A k \in 1..n : t[k] = s[k]
  BY ONLY <1>4, <1>5, n \in Nat
<1>7. s = Append(t, s[n + 1])
  BY ONLY <1>1, <1>2, <1>4, <1>6, s \in Seq(A), n \in Nat
<1> QED BY <1>2, <1>4, <1>7

\* What two sequences after each other hold.
LEMMA RangeConcat ==
  ASSUME NEW A, NEW s \in Seq(A), NEW t \in Seq(A)
  PROVE  Range(s \o t) = Range(s) \cup Range(t)
<1>1. ASSUME NEW u, u = s \o t PROVE Range(u) = Range(s) \cup Range(t)
  <2>1. /\ DOMAIN u = 1..Len(u) /\ DOMAIN s = 1..Len(s) /\ DOMAIN t = 1..Len(t)
        /\ \A k \in 1..Len(s) : k \in 1..Len(u) /\ u[k] = s[k]
        /\ \A k \in 1..Len(t) : Len(s) + k \in 1..Len(u) /\ u[Len(s) + k] = t[k]
        /\ \A k \in 1..Len(u) : \/ k \in 1..Len(s) /\ u[k] = s[k]
                                \/ k - Len(s) \in 1..Len(t) /\ u[k] = t[k - Len(s)]
    BY <1>1
  <2>2. /\ Range(u) = {u[k] : k \in 1..Len(u)}
        /\ Range(s) = {s[k] : k \in 1..Len(s)} /\ Range(t) = {t[k] : k \in 1..Len(t)}
    BY <2>1 DEF Range
  <2>3. ASSUME NEW x \in Range(u) PROVE x \in Range(s) \cup Range(t)
    BY ONLY <2>1, <2>2, <2>3
  <2>4. ASSUME NEW x \in Range(s) PROVE x \in Range(u)
    BY ONLY <2>1, <2>2, <2>4
  <2>5. ASSUME NEW x \in Range(t) PROVE x \in Range(u)
    BY ONLY <2>1, <2>2, <2>5
  <2> QED BY <2>3, <2>4, <2>5
<1> QED BY <1>1, Zenon

-----------------------------------------------------------------------------
(* Filter.                                                                 *)

\* A set of natural numbers that is not empty has a least element.
LEMMA LeastNumber ==
  ASSUME NEW T \in SUBSET Nat, T # {}
  PROVE  \E x \in T : \A y \in T : x <= y
<1> DEFINE R == {p \in Nat \X Nat : p[1] < p[2]}
<1>1. IsWellFoundedOn(R, Nat)
  BY NatLessThanWellFounded DEF OpToRel
<1>2. \E x \in T : \A y \in T : <<y, x>> \notin R
  <2> HIDE DEF R
  <2> QED BY <1>1, WFMin, Zenon
<1>3. PICK x \in T : \A y \in T : <<y, x>> \notin R
  BY <1>2
<1>4. ASSUME NEW y \in T PROVE x <= y
  <2>1. /\ <<y, x>> \notin R /\ <<y, x>> \in Nat \X Nat
        /\ <<y, x>>[1] = y /\ <<y, x>>[2] = x
    BY <1>3
  <2>2. ~(y < x)
    BY <2>1
  <2> QED BY <2>2
<1> QED BY <1>4

\* The function that Filter defines by recursion, as an equation.
Steps(f, s, S, n) ==
  f = [i \in 0 .. n |-> IF i = 0 THEN <<>>
                        ELSE IF s[i] \in S THEN Append(f[i - 1], s[i]) ELSE f[i - 1]]

\* There is such a function on every prefix.
LEMMA StepsExist ==
  ASSUME NEW A, NEW s \in Seq(A), NEW S, NEW n \in 0 .. Len(s)
  PROVE  \E f \in [0 .. n -> Seq(A)] : Steps(f, s, S, n)
<1> DEFINE T == {k \in 0 .. Len(s) : ~\E f \in [0 .. k -> Seq(A)] : Steps(f, s, S, k)}
<1> SUFFICES ASSUME T # {} PROVE FALSE
  OBVIOUS
<1>0. T \in SUBSET Nat /\ \A k \in T : k \in 0 .. Len(s)
  OBVIOUS
<1>1. PICK k \in T : \A j \in T : k <= j
  <2> HIDE DEF T
  <2> QED BY <1>0, LeastNumber
<1>2. k # 0
  <2> SUFFICES ASSUME k = 0 PROVE FALSE
    OBVIOUS
  <2> DEFINE f == [i \in 0 .. 0 |-> <<>>]
  <2>1. f \in [0 .. 0 -> Seq(A)]
    OBVIOUS
  <2>2. Steps(f, s, S, 0)
    BY DEF Steps
  <2> QED BY <2>1, <2>2, Zenon
<1>3. k - 1 \in 0 .. Len(s) /\ k - 1 \notin T
  <2>1. k \in 0 .. Len(s) /\ Len(s) \in Nat
    BY <1>0
  <2>2. k - 1 \in 0 .. Len(s) /\ ~(k <= k - 1)
    BY <1>2, <2>1
  <2> HIDE DEF T
  <2> QED BY <1>1, <2>2
<1>4. PICK g \in [0 .. k - 1 -> Seq(A)] : Steps(g, s, S, k - 1)
  BY <1>3
<1> DEFINE last == IF s[k] \in S THEN Append(g[k - 1], s[k]) ELSE g[k - 1]
           f == [i \in 0 .. k |-> IF i = k THEN last ELSE g[i]]
<1>5. last \in Seq(A)
  <2>1. s[k] \in A /\ g[k - 1] \in Seq(A)
    BY <1>2, <1>3
  <2> QED BY <2>1
<1>6. f \in [0 .. k -> Seq(A)]
  <2> HIDE DEF last
  <2> QED BY <1>2, <1>5
<1>7. ASSUME NEW i \in 0 .. k
      PROVE  f[i] = IF i = 0 THEN <<>>
                    ELSE IF s[i] \in S THEN Append(f[i - 1], s[i]) ELSE f[i - 1]
  <2>1. CASE i = k
    BY <1>2, <2>1
  <2>2. CASE i # k
    <3>1. i \in 0 .. k - 1 /\ (i # 0 => i - 1 \in 0 .. k - 1) /\ i - 1 # k
      BY <1>2, <2>2
    <3>2. f[i] = g[i] /\ (i # 0 => f[i - 1] = g[i - 1])
      <4> HIDE DEF last
      <4> QED BY <3>1
    <3>3. g[i] = IF i = 0 THEN <<>> ELSE IF s[i] \in S THEN Append(g[i - 1], s[i]) ELSE g[i - 1]
      BY <1>4, <3>1, Zenon DEF Steps
    <3> HIDE DEF f
    <3> QED BY <3>2, <3>3
  <2> QED BY <2>1, <2>2
<1>8. Steps(f, s, S, k)
  <2>1. f = [i \in 0 .. k |-> f[i]]
    BY <1>6
  <2> HIDE DEF f
  <2> QED BY <1>7, <2>1, Zenon DEF Steps
<1> QED BY <1>6, <1>8, Zenon

SameUpTo(s, t, n) == \A i \in 1 .. n : s[i] = t[i]

\* Two such functions agree where both are defined, also on a longer sequence
\* that begins in the same way.
LEMMA StepsUnique ==
  ASSUME NEW A, NEW s \in Seq(A), NEW t \in Seq(A), NEW S,
         NEW m \in 0 .. Len(s), NEW n \in 0 .. Len(t), m <= n, SameUpTo(s, t, m),
         NEW f, Steps(f, s, S, m), NEW g, Steps(g, t, S, n)
  PROVE  f[m] = g[m]
<1> DEFINE T == {k \in 0 .. m : f[k] # g[k]}
<1> SUFFICES ASSUME T # {} PROVE FALSE
  OBVIOUS
<1>0. T \in SUBSET Nat /\ \A k \in T : k \in 0 .. m /\ k \in 0 .. n /\ f[k] # g[k]
  OBVIOUS
<1>1. PICK k \in T : \A j \in T : k <= j
  <2> HIDE DEF T
  <2> QED BY <1>0, LeastNumber
<1>2. /\ f[k] = IF k = 0 THEN <<>> ELSE IF s[k] \in S THEN Append(f[k - 1], s[k]) ELSE f[k - 1]
      /\ g[k] = IF k = 0 THEN <<>> ELSE IF t[k] \in S THEN Append(g[k - 1], t[k]) ELSE g[k - 1]
  <2>1. k \in 0 .. m /\ k \in 0 .. n
    BY <1>0
  <2> HIDE DEF T
  <2> QED BY <2>1, Zenon DEF Steps
<1>3. k # 0
  BY <1>0, <1>2
<1>4. f[k - 1] = g[k - 1] /\ s[k] = t[k]
  <2>1. k - 1 \in 0 .. m /\ k \in 1 .. m /\ ~(k <= k - 1)
    BY <1>0, <1>3
  <2> QED BY <1>1, <2>1 DEF SameUpTo
<1> QED BY <1>0, <1>2, <1>3, <1>4

\* Filter is the last value of any such function.
LEMMA FilterIs ==
  ASSUME NEW A, NEW s \in Seq(A), NEW S, NEW f, Steps(f, s, S, Len(s))
  PROVE  Filter(s, S) = f[Len(s)]
<1>1. Filter(s, S) = (CHOOSE g : Steps(g, s, S, Len(s)))[Len(s)]
  BY DEF Filter, Steps
<1>2. Steps(CHOOSE g : Steps(g, s, S, Len(s)), s, S, Len(s))
  OBVIOUS
<1>3. Len(s) \in 0 .. Len(s) /\ Len(s) <= Len(s) /\ SameUpTo(s, s, Len(s))
  BY DEF SameUpTo
<1> QED BY <1>1, <1>2, <1>3, StepsUnique

\* The empty sequence has nothing to leave out.
LEMMA FilterEmpty == \A S : Filter(<<>>, S) = <<>>
<1> TAKE S
<1>1. <<>> \in Seq({}) /\ Len(<<>>) = 0
  OBVIOUS
<1>2. PICK f : Steps(f, <<>>, S, 0)
  <2>1. 0 \in 0 .. Len(<<>>)
    OBVIOUS
  <2> QED BY <1>1, <2>1, StepsExist, Zenon
<1>3. Filter(<<>>, S) = f[0]
  BY <1>1, <1>2, FilterIs, Zenon
<1> QED BY <1>2, <1>3 DEF Steps

\* The result is a sequence.
LEMMA FilterType ==
  ASSUME NEW A, NEW s \in Seq(A), NEW S
  PROVE  Filter(s, S) \in Seq(A)
<1>0. Len(s) \in 0 .. Len(s)
  OBVIOUS
<1>1. PICK f \in [0 .. Len(s) -> Seq(A)] : Steps(f, s, S, Len(s))
  BY <1>0, StepsExist, Zenon
<1> QED BY <1>0, <1>1, FilterIs

\* An element at the end is kept when it is in the set.
LEMMA FilterAppend ==
  ASSUME NEW A, NEW s \in Seq(A), NEW x \in A, NEW S
  PROVE  Filter(Append(s, x), S) = IF x \in S THEN Append(Filter(s, S), x) ELSE Filter(s, S)
<1> DEFINE t == Append(s, x)
<1>1. t \in Seq(A) /\ Len(t) = Len(s) + 1 /\ t[Len(t)] = x /\ \A i \in 1 .. Len(s) : s[i] = t[i]
  OBVIOUS
<1>0. Len(s) \in 0 .. Len(s)
  OBVIOUS
<1>2. PICK f \in [0 .. Len(s) -> Seq(A)] : Steps(f, s, S, Len(s))
  BY <1>0, StepsExist, Zenon
<1> HIDE DEF t
<1>3. PICK g \in [0 .. Len(t) -> Seq(A)] : Steps(g, t, S, Len(t))
  <2>1. Len(t) \in 0 .. Len(t)
    BY <1>1
  <2> QED BY <1>1, <2>1, StepsExist
<1>4. Filter(s, S) = f[Len(s)] /\ Filter(t, S) = g[Len(t)]
  BY <1>1, <1>2, <1>3, FilterIs
<1>5. f[Len(s)] = g[Len(s)]
  <2>1. Len(s) \in 0 .. Len(s) /\ Len(t) \in 0 .. Len(t) /\ Len(s) <= Len(t)
    BY <1>1
  <2>2. SameUpTo(s, t, Len(s))
    BY <1>1 DEF SameUpTo
  <2>3. t \in Seq(A) /\ Steps(f, s, S, Len(s)) /\ Steps(g, t, S, Len(t))
    BY <1>1, <1>2, <1>3
  <2> QED BY <2>1, <2>2, <2>3, StepsUnique
<1>6. g[Len(t)] = IF t[Len(t)] \in S THEN Append(g[Len(t) - 1], t[Len(t)]) ELSE g[Len(t) - 1]
  <2>1. Len(t) \in 0 .. Len(t) /\ Len(t) # 0
    BY <1>1
  <2> QED BY <1>3, <2>1, Zenon DEF Steps
<1> QED BY <1>1, <1>4, <1>5, <1>6 DEF t
-----------------------------------------------------------------------------
\* Induction: a set of sequences that has the empty one, and with each one those
\* that are longer by one element, has them all.
LEMMA SequenceInduction ==
  ASSUME NEW A, NEW X \in SUBSET Seq(A), <<>> \in X, \A s \in X, x \in A : Append(s, x) \in X
  PROVE  Seq(A) \subseteq X
<1> DEFINE T == {n \in Nat : \E s \in Seq(A) : Len(s) = n /\ s \notin X}
<1> SUFFICES ASSUME NEW u \in Seq(A), u \notin X PROVE FALSE
  OBVIOUS
<1>1. T \in SUBSET Nat /\ Len(u) \in T
  OBVIOUS
<1>2. PICK n \in T : \A k \in T : n <= k
  <2> HIDE DEF T
  <2> QED BY <1>1, LeastNumber, Zenon
<1>3. PICK s \in Seq(A) : Len(s) = n /\ s \notin X
  BY <1>2
<1>4. s # <<>>
  BY <1>3
<1>5. PICK t \in Seq(A), x \in A : s = Append(t, x)
  BY <1>4, LastSplit
<1>6. Len(t) = n - 1 /\ n - 1 \in Nat /\ ~(n <= n - 1)
  BY <1>3, <1>5
<1>7. t \in X
  <2> SUFFICES ASSUME t \notin X PROVE FALSE
    OBVIOUS
  <2>1. n - 1 \in T
    BY <1>5, <1>6
  <2> HIDE DEF T
  <2> QED BY <1>2, <1>6, <2>1
<1> QED BY <1>3, <1>5, <1>7

\* The elements of a sequence, and of one that is longer by one.
LEMMA RangeSeq ==
  ASSUME NEW A, NEW s \in Seq(A), NEW y
  PROVE  y \in Range(s) <=> \E i \in 1 .. Len(s) : s[i] = y
<1>1. DOMAIN s = 1 .. Len(s)
  OBVIOUS
<1> QED BY <1>1 DEF Range

\* An element that is appended joins the range.
LEMMA RangeAppend ==
  ASSUME NEW A, NEW s \in Seq(A), NEW x \in A
  PROVE  Range(Append(s, x)) = Range(s) \cup {x}
<1> DEFINE t == Append(s, x)
<1>1. t \in Seq(A) /\ Len(t) = Len(s) + 1 /\ t[Len(t)] = x /\ \A i \in 1 .. Len(s) : t[i] = s[i]
  OBVIOUS
<1> HIDE DEF t
<1>2. ASSUME NEW y PROVE y \in Range(t) <=> y \in Range(s) \/ y = x
  <2>1. y \in Range(t) <=> \E i \in 1 .. Len(t) : t[i] = y
    BY <1>1, RangeSeq
  <2>2. y \in Range(s) <=> \E i \in 1 .. Len(s) : s[i] = y
    BY RangeSeq
  <2>3. (\E i \in 1 .. Len(t) : t[i] = y) <=> (\E i \in 1 .. Len(s) : s[i] = y) \/ y = x
    <3>1. \A i \in 1 .. Len(t) : i \in 1 .. Len(s) \/ i = Len(t)
      BY <1>1
    <3>2. \A i \in 1 .. Len(s) : i \in 1 .. Len(t)
      BY <1>1
    <3>3. Len(t) \in 1 .. Len(t)
      BY <1>1
    <3> QED BY <1>1, <3>1, <3>2, <3>3
  <2> QED BY <2>1, <2>2, <2>3
<1> QED BY <1>2 DEF t

\* What is in the result: the elements of the sequence that are in the set.
LEMMA FilterRange ==
  ASSUME NEW A, NEW s \in Seq(A), NEW S
  PROVE  Range(Filter(s, S)) = Range(s) \cap S
<1> DEFINE X == {t \in Seq(A) : Range(Filter(t, S)) = Range(t) \cap S}
<1>1. <<>> \in X
  BY FilterEmpty DEF Range
<1>2. ASSUME NEW t \in X, NEW x \in A PROVE Append(t, x) \in X
  <2>1. Filter(t, S) \in Seq(A) /\ t \in Seq(A)
    BY FilterType
  <2>2. Filter(Append(t, x), S) = IF x \in S THEN Append(Filter(t, S), x) ELSE Filter(t, S)
    BY <2>1, FilterAppend
  <2>3. Range(Append(t, x)) = Range(t) \cup {x}
        /\ Range(Append(Filter(t, S), x)) = Range(Filter(t, S)) \cup {x}
    BY <2>1, RangeAppend
  <2>4. Append(t, x) \in Seq(A)
    BY <2>1
  <2> QED BY <2>2, <2>3, <2>4, Zenon
<1>3. Seq(A) \subseteq X
  <2>1. X \in SUBSET Seq(A)
    OBVIOUS
  <2> HIDE DEF X
  <2> QED BY <1>1, <1>2, <2>1, SequenceInduction, Zenon
<1> QED BY <1>3

\* Sets that have the same elements of the sequence select the same.
LEMMA FilterSame ==
  ASSUME NEW A, NEW s \in Seq(A), NEW S, NEW T, \A y \in Range(s) : y \in S <=> y \in T
  PROVE  Filter(s, S) = Filter(s, T)
<1> DEFINE X == {t \in Seq(A) : (\A y \in Range(t) : y \in S <=> y \in T)
                                  => Filter(t, S) = Filter(t, T)}
<1>1. <<>> \in X
  BY FilterEmpty
<1>2. ASSUME NEW t \in X, NEW x \in A PROVE Append(t, x) \in X
  <2>1. t \in Seq(A) /\ Append(t, x) \in Seq(A) /\ Range(Append(t, x)) = Range(t) \cup {x}
    BY RangeAppend
  <2>2. /\ Filter(Append(t, x), S) = IF x \in S THEN Append(Filter(t, S), x) ELSE Filter(t, S)
        /\ Filter(Append(t, x), T) = IF x \in T THEN Append(Filter(t, T), x) ELSE Filter(t, T)
    BY <2>1, FilterAppend
  <2> QED BY <2>1, <2>2
<1>3. Seq(A) \subseteq X
  <2>1. X \in SUBSET Seq(A)
    OBVIOUS
  <2> HIDE DEF X
  <2> QED BY <1>1, <1>2, <2>1, SequenceInduction, Zenon
<1> QED BY <1>3

\* Nothing is left when no element is in the set.
LEMMA FilterNone ==
  ASSUME NEW A, NEW s \in Seq(A), NEW S, Range(s) \cap S = {}
  PROVE  Filter(s, S) = <<>>
<1>1. Filter(s, S) \in Seq(A) /\ Range(Filter(s, S)) = {}
  BY FilterType, FilterRange
<1>2. ASSUME Len(Filter(s, S)) # 0 PROVE FALSE
  <2>1. 1 \in 1 .. Len(Filter(s, S))
    BY <1>1, <1>2
  <2>2. Filter(s, S)[1] \in Range(Filter(s, S))
    BY <1>1, <2>1, RangeSeq, Zenon
  <2> QED BY <1>1, <2>2
<1> QED BY <1>1, <1>2

\* Everything is kept when the set holds every element.
LEMMA FilterAll ==
  ASSUME NEW A, NEW s \in Seq(A), NEW S, Range(s) \subseteq S
  PROVE  Filter(s, S) = s
<1> DEFINE X == {t \in Seq(A) : Range(t) \subseteq S => Filter(t, S) = t}
<1>1. <<>> \in X
  BY FilterEmpty
<1>2. ASSUME NEW t \in X, NEW x \in A PROVE Append(t, x) \in X
  <2>1. t \in Seq(A) /\ Append(t, x) \in Seq(A) /\ Range(Append(t, x)) = Range(t) \cup {x}
    BY RangeAppend
  <2>2. Filter(Append(t, x), S) = IF x \in S THEN Append(Filter(t, S), x) ELSE Filter(t, S)
    BY <2>1, FilterAppend
  <2> QED BY <2>1, <2>2
<1>3. Seq(A) \subseteq X
  <2>1. X \in SUBSET Seq(A)
    OBVIOUS
  <2> HIDE DEF X
  <2> QED BY <1>1, <1>2, <2>1, SequenceInduction, Zenon
<1> QED BY <1>3

\* One selection after another.
LEMMA FilterTwice ==
  ASSUME NEW A, NEW s \in Seq(A), NEW S, NEW T
  PROVE  Filter(Filter(s, S), T) = Filter(s, S \cap T)
<1> DEFINE X == {t \in Seq(A) : Filter(Filter(t, S), T) = Filter(t, S \cap T)}
<1>1. <<>> \in X
  BY FilterEmpty
<1>2. ASSUME NEW t \in X, NEW x \in A PROVE Append(t, x) \in X
  <2>1. t \in Seq(A) /\ Append(t, x) \in Seq(A) /\ Filter(t, S) \in Seq(A)
    BY FilterType
  <2>2. Filter(Filter(t, S), T) = Filter(t, S \cap T)
    OBVIOUS
  <2>3. Filter(Append(t, x), S) = IF x \in S THEN Append(Filter(t, S), x) ELSE Filter(t, S)
    BY ONLY <2>1, x \in A, FilterAppend
  <2>4. Filter(Append(t, x), S \cap T) =
          IF x \in S \cap T THEN Append(Filter(t, S \cap T), x) ELSE Filter(t, S \cap T)
    BY ONLY <2>1, x \in A, FilterAppend
  <2>5. Filter(Append(Filter(t, S), x), T) =
          IF x \in T THEN Append(Filter(Filter(t, S), T), x) ELSE Filter(Filter(t, S), T)
    <3> DEFINE f == Filter(t, S)
    <3>1. f \in Seq(A)
      BY <2>1
    <3> HIDE DEF f
    <3>2. Filter(Append(f, x), T) = IF x \in T THEN Append(Filter(f, T), x) ELSE Filter(f, T)
      BY ONLY <3>1, x \in A, FilterAppend
    <3> QED BY <3>2 DEF f
  <2>6. Filter(Filter(Append(t, x), S), T) = Filter(Append(t, x), S \cap T)
    <3>1. CASE x \in S
      <4>1. x \in S \cap T <=> x \in T
        BY <3>1
      <4> HIDE DEF X
      <4> QED BY ONLY <3>1, <4>1, <2>2, <2>3, <2>4, <2>5, Zenon
    <3>2. CASE x \notin S
      <4>1. x \notin S \cap T
        BY <3>2
      <4> HIDE DEF X
      <4> QED BY ONLY <3>2, <4>1, <2>2, <2>3, <2>4
    <3> QED BY <3>1, <3>2
  <2> QED BY <2>1, <2>6
<1>3. Seq(A) \subseteq X
  <2>1. X \in SUBSET Seq(A)
    OBVIOUS
  <2> HIDE DEF X
  <2> QED BY <1>1, <1>2, <2>1, SequenceInduction, Zenon
<1> QED BY <1>3, Zenon

\* Two sequences, one after the other.
LEMMA FilterConcat ==
  ASSUME NEW A, NEW s \in Seq(A), NEW t \in Seq(A), NEW S
  PROVE  Filter(s \o t, S) = Filter(s, S) \o Filter(t, S)
<1> DEFINE X == {u \in Seq(A) : Filter(s \o u, S) = Filter(s, S) \o Filter(u, S)}
<1>0. Filter(s, S) \in Seq(A)
  BY FilterType
<1>1. <<>> \in X
  <2>1. s \o <<>> = s /\ Filter(s, S) \o <<>> = Filter(s, S)
    BY <1>0
  <2>2. Filter(<<>>, S) = <<>>
    BY FilterEmpty
  <2>3. Filter(s \o <<>>, S) = Filter(s, S) \o Filter(<<>>, S)
    <3> HIDE DEF X
    <3> QED BY <2>1, <2>2, Zenon
  <2> QED BY <2>3
<1>2. ASSUME NEW u \in X, NEW x \in A PROVE Append(u, x) \in X
  <2>1. /\ u \in Seq(A) /\ Append(u, x) \in Seq(A) /\ Filter(u, S) \in Seq(A)
        /\ s \o u \in Seq(A)
    BY FilterType
  <2>2. s \o Append(u, x) = Append(s \o u, x)
    BY <2>1
  <2>3. Filter(s, S) \o Append(Filter(u, S), x) = Append(Filter(s, S) \o Filter(u, S), x)
    BY <1>0, <2>1
  <2>4. Filter(Append(u, x), S) = IF x \in S THEN Append(Filter(u, S), x) ELSE Filter(u, S)
    BY ONLY <2>1, x \in A, FilterAppend
  <2>5. Filter(Append(s \o u, x), S) =
          IF x \in S THEN Append(Filter(s \o u, S), x) ELSE Filter(s \o u, S)
    <3>1. ASSUME NEW w \in Seq(A)
          PROVE  Filter(Append(w, x), S) = IF x \in S THEN Append(Filter(w, S), x) ELSE Filter(w, S)
      BY ONLY w \in Seq(A), x \in A, FilterAppend
    <3> HIDE DEF X
    <3> QED BY ONLY <3>1, <2>1, Zenon
  <2>6. Filter(s \o u, S) = Filter(s, S) \o Filter(u, S)
    OBVIOUS
  <2>7. Filter(s \o Append(u, x), S) = Filter(s, S) \o Filter(Append(u, x), S)
    <3> HIDE DEF X
    <3> QED BY ONLY <2>2, <2>3, <2>4, <2>5, <2>6, Zenon
  <2> QED BY <2>1, <2>7
<1>3. Seq(A) \subseteq X
  <2>1. X \in SUBSET Seq(A)
    OBVIOUS
  <2> HIDE DEF X
  <2> QED BY <1>1, <1>2, <2>1, SequenceInduction, Zenon
<1> QED BY <1>3

\* Two selections that have nothing in common are together no longer than one
\* that covers both.
LEMMA FilterSplit ==
  ASSUME NEW A, NEW s \in Seq(A), NEW S, NEW T, NEW U, S \cap T = {}, S \cup T \subseteq U
  PROVE  Len(Filter(s, S)) + Len(Filter(s, T)) <= Len(Filter(s, U))
<1> DEFINE X == {t \in Seq(A) : Len(Filter(t, S)) + Len(Filter(t, T)) <= Len(Filter(t, U))}
<1>1. <<>> \in X
  <2>1. Filter(<<>>, S) = <<>> /\ Filter(<<>>, T) = <<>> /\ Filter(<<>>, U) = <<>>
    BY FilterEmpty
  <2> QED BY <2>1
<1>2. ASSUME NEW t \in X, NEW x \in A PROVE Append(t, x) \in X
  <2> DEFINE a == Filter(t, S)
             b == Filter(t, T)
             c == Filter(t, U)
  <2>1. t \in Seq(A) /\ Append(t, x) \in Seq(A) /\ Len(a) + Len(b) <= Len(c)
    BY <1>2
  <2>2. a \in Seq(A) /\ b \in Seq(A) /\ c \in Seq(A)
    BY <2>1, FilterType
  <2>3. /\ Filter(Append(t, x), S) = IF x \in S THEN Append(a, x) ELSE a
        /\ Filter(Append(t, x), T) = IF x \in T THEN Append(b, x) ELSE b
        /\ Filter(Append(t, x), U) = IF x \in U THEN Append(c, x) ELSE c
    BY <2>1, FilterAppend
  <2> HIDE DEF a, b, c
  <2>4. /\ Len(Append(a, x)) = Len(a) + 1 /\ Len(Append(b, x)) = Len(b) + 1
        /\ Len(Append(c, x)) = Len(c) + 1
        /\ Len(a) \in Nat /\ Len(b) \in Nat /\ Len(c) \in Nat
    BY <2>2
  <2>5. (x \in S => x \in U /\ x \notin T) /\ (x \in T => x \in U)
    OBVIOUS
  <2> QED BY <2>1, <2>3, <2>4, <2>5
<1> HIDE DEF X
<1>3. Seq(A) \subseteq X
  BY <1>1, <1>2, SequenceInduction, Zenon DEF X
<1> QED BY <1>3 DEF X

=============================================================================
