---------------------------- MODULE ArchiveProofs ---------------------------
(***************************************************************************)
(* Proofs about the archive: the history of a join, and a client that      *)
(* reads an archive page by page, for every sequence of messages, joins    *)
(* and crashes.                                                            *)
(***************************************************************************)
EXTENDS OptionsProofs

-----------------------------------------------------------------------------
(* Sequences of growing numbers.                                           *)

\* The last element is the greatest.
LEMMA AscendingAppend ==
  ASSUME NEW s \in Seq(Nat), NEW x \in Nat
  PROVE  Ascending(Append(s, x)) <=> Ascending(s) /\ \A y \in Range(s) : y < x
<1> DEFINE t == Append(s, x)
<1>1. t \in Seq(Nat) /\ Len(t) = Len(s) + 1 /\ t[Len(s) + 1] = x /\ \A i \in 1 .. Len(s) : t[i] = s[i]
  OBVIOUS
<1>2. \A y : y \in Range(s) <=> \E i \in 1 .. Len(s) : s[i] = y
  BY RangeSeq
<1> HIDE DEF t
<1>3. ASSUME Ascending(t) PROVE Ascending(s) /\ \A y \in Range(s) : y < x
  <2>1. Ascending(s)
    BY <1>1, <1>3 DEF Ascending
  <2>2. ASSUME NEW y \in Range(s) PROVE y < x
    <3>1. PICK i \in 1 .. Len(s) : s[i] = y
      BY <1>2
    <3>2. i \in 1 .. Len(t) /\ Len(s) + 1 \in 1 .. Len(t) /\ i < Len(s) + 1
      BY <1>1
    <3>3. t[i] < t[Len(s) + 1]
      BY <1>3, <3>2 DEF Ascending
    <3> QED BY <1>1, <3>1, <3>3
  <2> QED BY <2>1, <2>2
<1>4. ASSUME Ascending(s), \A y \in Range(s) : y < x PROVE Ascending(t)
  <2> SUFFICES ASSUME NEW i \in 1 .. Len(t), NEW j \in 1 .. Len(t), i < j PROVE t[i] < t[j]
    BY DEF Ascending
  <2>0. i \in 1 .. Len(s)
    BY <1>1
  <2>1. i \in 1 .. Len(s) /\ t[i] = s[i]
    BY <1>1, <2>0, Zenon
  <2>2. CASE j = Len(s) + 1
    <3>1. s[i] \in Range(s)
      BY <1>2, <2>1
    <3> QED BY <1>1, <1>4, <2>1, <2>2, <3>1
  <2>3. CASE j # Len(s) + 1
    <3>0. j \in 1 .. Len(s)
      BY <1>1, <2>3, SMTT(20)
    <3>1. j \in 1 .. Len(s) /\ t[j] = s[j]
      BY <1>1, <3>0, Zenon
    <3> QED BY <1>4, <2>1, <3>1 DEF Ascending
  <2> QED BY <2>2, <2>3
<1> QED BY <1>3, <1>4 DEF t

\* Such a sequence is known by its elements.
LEMMA AscendingUnique ==
  ASSUME NEW s \in Seq(Nat), NEW t \in Seq(Nat), Ascending(s), Ascending(t), Range(s) = Range(t)
  PROVE  s = t
<1> DEFINE X == {u \in Seq(Nat) : \A v \in Seq(Nat) :
                   Ascending(u) /\ Ascending(v) /\ Range(u) = Range(v) => u = v}
<1>1. <<>> \in X
  <2> SUFFICES ASSUME NEW v \in Seq(Nat), Range(<<>>) = Range(v) PROVE v = <<>>
    OBVIOUS
  <2>1. Range(v) = {}
    BY DEF Range
  <2>2. ASSUME v # <<>> PROVE FALSE
    <3>1. 1 \in 1 .. Len(v)
      BY <2>2
    <3>2. v[1] \in Range(v)
      BY <3>1, RangeSeq
    <3> QED BY <2>1, <3>2
  <2> QED BY <2>2
<1>2. ASSUME NEW u \in X, NEW x \in Nat PROVE Append(u, x) \in X
  <2>0. u \in Seq(Nat) /\ Append(u, x) \in Seq(Nat)
    OBVIOUS
  <2> SUFFICES ASSUME NEW v \in Seq(Nat), Ascending(Append(u, x)), Ascending(v),
                      Range(Append(u, x)) = Range(v)
               PROVE  Append(u, x) = v
    BY <2>0
  <2>1. Range(v) = Range(u) \cup {x} /\ Ascending(u) /\ \A y \in Range(u) : y < x
    <3>1. Range(Append(u, x)) = Range(u) \cup {x}
      BY ONLY <2>0, x \in Nat, RangeAppend, SMTT(30)
    <3>2. Ascending(u) /\ \A y \in Range(u) : y < x
      BY <2>0, AscendingAppend
    <3> QED BY <3>1, <3>2
  <2>2. v # <<>>
    <3>1. Range(<<>>) = {}
      BY DEF Range
    <3> QED BY <2>1, <3>1, Zenon
  <2>3. PICK w \in Seq(Nat), y \in Nat : v = Append(w, y)
    BY <2>2, LastSplit, Zenon
  <2>4. Range(v) = Range(w) \cup {y} /\ Ascending(w) /\ \A z \in Range(w) : z < y
    <3>1. Range(Append(w, y)) = Range(w) \cup {y}
      BY ONLY w \in Seq(Nat), y \in Nat, RangeAppend, ZenonT(30)
    <3>2. Ascending(Append(w, y)) => Ascending(w) /\ \A z \in Range(w) : z < y
      BY AscendingAppend
    <3> QED BY <2>3, <3>1, <3>2
  <2>5. Range(u) \subseteq Nat /\ Range(w) \subseteq Nat
    BY <2>0 DEF Range
  <2>6. x = y
    <3>1. x \in Range(w) \cup {y} /\ y \in Range(u) \cup {x}
      BY <2>1, <2>4
    <3> QED BY <2>1, <2>4, <2>5, <3>1
  <2>7. Range(u) = Range(w)
    <3>1. x \notin Range(u) /\ x \notin Range(w)
      BY <2>1, <2>4, <2>5, <2>6
    <3>2. Range(u) \cup {x} = Range(w) \cup {x}
      BY <2>1, <2>4, <2>6
    <3>3. \A z : z \in Range(u) <=> z \in Range(w)
      BY <3>1, <3>2
    <3> QED BY ONLY <3>3, Zenon
  <2>8. u = w
    BY <2>1, <2>4, <2>7
  <2> QED BY <2>3, <2>6, <2>8
<1>3. Seq(Nat) \subseteq X
  <2>1. X \in SUBSET Seq(Nat)
    OBVIOUS
  <2> HIDE DEF X
  <2> QED BY <1>1, <1>2, <2>1, SequenceInduction, Zenon
<1> QED BY <1>3

\* A selection of one is one.
LEMMA FilterAscending ==
  ASSUME NEW s \in Seq(Nat), Ascending(s), NEW S
  PROVE  Ascending(Filter(s, S))
<1> DEFINE X == {t \in Seq(Nat) : Ascending(t) => Ascending(Filter(t, S))}
<1>1. <<>> \in X
  <2>1. <<>> \in Seq(Nat) /\ Len(<<>>) = 0
    OBVIOUS
  <2>2. Filter(<<>>, S) = <<>>
    BY FilterEmpty
  <2> QED BY <2>1, <2>2 DEF Ascending
<1>2. ASSUME NEW t \in X, NEW x \in Nat PROVE Append(t, x) \in X
  <2>0. t \in Seq(Nat) /\ Append(t, x) \in Seq(Nat) /\ Filter(t, S) \in Seq(Nat)
    BY FilterType
  <2> SUFFICES ASSUME Ascending(Append(t, x)) PROVE Ascending(Filter(Append(t, x), S))
    BY <2>0
  <2>1. Ascending(t) /\ \A y \in Range(t) : y < x
    BY <2>0, AscendingAppend
  <2>2. Ascending(Filter(t, S)) /\ Range(Filter(t, S)) = Range(t) \cap S
    BY <2>0, <2>1, FilterRange
  <2>3. Ascending(Append(Filter(t, S), x))
    BY <2>0, <2>1, <2>2, AscendingAppend
  <2>4. Filter(Append(t, x), S) = IF x \in S THEN Append(Filter(t, S), x) ELSE Filter(t, S)
    BY ONLY <2>0, x \in Nat, FilterAppend, Zenon
  <2> QED BY <2>2, <2>3, <2>4
<1>3. Seq(Nat) \subseteq X
  <2>1. X \in SUBSET Seq(Nat)
    OBVIOUS
  <2> HIDE DEF X
  <2> QED BY <1>1, <1>2, <2>1, SequenceInduction, Zenon
<1> QED BY <1>3

\* Two of them, one after the other.
LEMMA AscendingConcat ==
  ASSUME NEW s \in Seq(Nat), NEW t \in Seq(Nat), Ascending(s), Ascending(t),
         \A x \in Range(s), y \in Range(t) : x < y
  PROVE  Ascending(s \o t) /\ s \o t \in Seq(Nat) /\ Range(s \o t) = Range(s) \cup Range(t)
<1>1. /\ s \o t \in Seq(Nat) /\ Len(s \o t) = Len(s) + Len(t)
      /\ \A i \in 1 .. Len(s) + Len(t) : (s \o t)[i] = IF i <= Len(s) THEN s[i] ELSE t[i - Len(s)]
  OBVIOUS
<1> DEFINE u == s \o t
<1>2. u \in Seq(Nat) /\ Len(u) = Len(s) + Len(t) /\ Len(s) \in Nat /\ Len(t) \in Nat
      /\ \A i \in 1 .. Len(u) : u[i] = IF i <= Len(s) THEN s[i] ELSE t[i - Len(s)]
  BY <1>1
<1> HIDE DEF u
<1>3. Ascending(u)
  <2> SUFFICES ASSUME NEW i \in 1 .. Len(u), NEW j \in 1 .. Len(u), i < j PROVE u[i] < u[j]
    BY DEF Ascending
  <2>1. CASE j <= Len(s)
    <3>1. i \in 1 .. Len(s) /\ j \in 1 .. Len(s)
      BY <1>2, <2>1
    <3>2. s[i] < s[j]
      BY <3>1 DEF Ascending
    <3>3. u[i] = s[i] /\ u[j] = s[j]
      BY <1>2, <3>1, SMTT(20)
    <3> QED BY <3>2, <3>3
  <2>2. CASE i > Len(s)
    <3>1. i - Len(s) \in 1 .. Len(t) /\ j - Len(s) \in 1 .. Len(t) /\ i - Len(s) < j - Len(s)
      BY <1>2, <2>2, SMTT(20)
    <3>2. t[i - Len(s)] < t[j - Len(s)]
      BY <3>1, Zenon DEF Ascending
    <3>3. u[i] = t[i - Len(s)] /\ u[j] = t[j - Len(s)]
      BY <1>2, <2>2, <3>1
    <3> QED BY <3>2, <3>3
  <2>3. CASE i <= Len(s) /\ j > Len(s)
    <3>1. i \in 1 .. Len(s) /\ j - Len(s) \in 1 .. Len(t)
      BY <1>2, <2>3
    <3>2. s[i] \in Range(s) /\ t[j - Len(s)] \in Range(t)
      BY <3>1, RangeSeq
    <3>3. u[i] = s[i] /\ u[j] = t[j - Len(s)]
      BY <1>2, <2>3, <3>1
    <3> QED BY <3>2, <3>3
  <2> QED BY <1>2, <2>1, <2>2, <2>3
<1> QED BY <1>1, <1>3, RangeConcat DEF u

\* A part of one is one, and has all elements from its first to its last.
LEMMA AscendingPart ==
  ASSUME NEW s \in Seq(Nat), Ascending(s), NEW m \in 1 .. Len(s), NEW n \in m .. Len(s)
  PROVE  /\ SubSeq(s, m, n) \in Seq(Nat) /\ Ascending(SubSeq(s, m, n))
         /\ Len(SubSeq(s, m, n)) = n - m + 1
         /\ SubSeq(s, m, n)[1] = s[m] /\ SubSeq(s, m, n)[n - m + 1] = s[n]
         /\ Range(SubSeq(s, m, n)) = {x \in Range(s) : s[m] <= x /\ x <= s[n]}
<1> DEFINE u == SubSeq(s, m, n)
<1>0. Len(s) \in Nat /\ m \in Nat /\ n \in Nat
  OBVIOUS
<1>1. /\ u \in Seq(Nat) /\ Len(u) = n - m + 1
      /\ \A i \in 1 .. n - m + 1 : u[i] = s[m + i - 1]
  BY <1>0
<1> HIDE DEF u
<1>2. Ascending(u)
  <2> SUFFICES ASSUME NEW i \in 1 .. Len(u), NEW j \in 1 .. Len(u), i < j PROVE u[i] < u[j]
    BY DEF Ascending
  <2>1. m + i - 1 \in 1 .. Len(s) /\ m + j - 1 \in 1 .. Len(s) /\ m + i - 1 < m + j - 1
    BY <1>0, <1>1, SMTT(20)
  <2>2. s[m + i - 1] < s[m + j - 1]
    BY <2>1, Zenon DEF Ascending
  <2> QED BY <1>1, <2>2
<1>3. u[1] = s[m] /\ u[n - m + 1] = s[n]
  <2>1. 1 \in 1 .. n - m + 1 /\ n - m + 1 \in 1 .. n - m + 1 /\ m + 1 - 1 = m
        /\ m + (n - m + 1) - 1 = n
    BY <1>0
  <2> QED BY <1>1, <2>1
<1>4. \A i \in 1 .. Len(s) : (s[m] <= s[i] <=> m <= i) /\ (s[i] <= s[n] <=> i <= n)
  <2> TAKE i \in 1 .. Len(s)
  <2>1. /\ i < m => s[i] < s[m]
        /\ m < i => s[m] < s[i]
        /\ i < n => s[i] < s[n]
        /\ n < i => s[n] < s[i]
    BY DEF Ascending
  <2>2. s[i] \in Nat /\ s[m] \in Nat /\ s[n] \in Nat
    OBVIOUS
  <2> QED BY <1>0, <2>1, <2>2, SMTT(20)
<1>5. \A x : x \in Range(u) <=> x \in Range(s) /\ s[m] <= x /\ x <= s[n]
  <2> TAKE x
  <2>1. ASSUME x \in Range(u) PROVE x \in Range(s) /\ s[m] <= x /\ x <= s[n]
    <3>1. PICK i \in 1 .. Len(u) : u[i] = x
      BY <1>1, <2>1, RangeSeq
    <3>2. m + i - 1 \in 1 .. Len(s) /\ m <= m + i - 1 /\ m + i - 1 <= n
      BY <1>0, <1>1
    <3>3. x = s[m + i - 1]
      BY <1>1, <3>1, Zenon
    <3>4. x \in Range(s)
      BY <3>2, <3>3, RangeSeq
    <3> QED BY <1>4, <3>2, <3>3, <3>4
  <2>2. ASSUME x \in Range(s), s[m] <= x, x <= s[n] PROVE x \in Range(u)
    <3>1. PICK i \in 1 .. Len(s) : s[i] = x
      BY <2>2, RangeSeq
    <3>2. m <= i /\ i <= n
      BY <1>4, <2>2, <3>1
    <3>3. i - m + 1 \in 1 .. Len(u) /\ m + (i - m + 1) - 1 = i
      BY <1>0, <1>1, <3>2, SMTT(20)
    <3>4. u[i - m + 1] = x
      BY <1>1, <3>1, <3>3, Zenon
    <3> QED BY <1>1, <3>3, <3>4, RangeSeq, Zenon
  <2> QED BY <2>1, <2>2
<1> QED BY <1>1, <1>2, <1>3, <1>5 DEF u

-----------------------------------------------------------------------------
(* Pages.                                                                  *)

\* The lesser and the greater of two.
LEMMA OfTwo ==
  ASSUME NEW a \in Int, NEW b \in Int
  PROVE  /\ Min({a, b}) = IF a <= b THEN a ELSE b
         /\ Max({a, b}) = IF a <= b THEN b ELSE a
<1>1. \E x \in {a, b} : \A y \in {a, b} : x <= y
  OBVIOUS
<1>2. \E x \in {a, b} : \A y \in {a, b} : x >= y
  OBVIOUS
<1>3. Min({a, b}) \in {a, b} /\ \A y \in {a, b} : Min({a, b}) <= y
  BY <1>1 DEF Min
<1>4. Max({a, b}) \in {a, b} /\ \A y \in {a, b} : Max({a, b}) >= y
  BY <1>2 DEF Max
<1> QED BY <1>3, <1>4

\* Two sequences that have the same elements are the same.
LEMMA SameSeq ==
  ASSUME NEW A, NEW s \in Seq(A), NEW t \in Seq(A), Len(s) = Len(t), \A k \in 1..Len(s) : s[k] = t[k]
  PROVE  s = t
<1>1. s \in [1..Len(s) -> A] /\ t \in [1..Len(s) -> A]
  OBVIOUS
<1>2. s = [k \in 1..Len(s) |-> s[k]] /\ t = [k \in 1..Len(s) |-> t[k]]
  BY ONLY <1>1
<1>3. [k \in 1..Len(s) |-> s[k]] = [k \in 1..Len(s) |-> t[k]]
  OBVIOUS
<1> QED BY ONLY <1>2, <1>3

\* The first n elements of a list, as LIMIT leaves them.
LEMMA StartIs ==
  ASSUME NEW s \in Seq(Nat), NEW n \in Nat, n <= Len(s)
  PROVE  /\ SubSeq(s, 1, n) \in Seq(Nat) /\ Len(SubSeq(s, 1, n)) = n
         /\ \A k \in 1..n : SubSeq(s, 1, n)[k] = s[k]
  OBVIOUS

\* One row more is asked for than is handed out: the answer is complete
\* when there are n rows at most, and has the first n otherwise.
LEMMA CutIs ==
  ASSUME NEW ids \in Seq(Nat), NEW n \in Nat
  PROVE  /\ Len(Rows(ids, n)) # n + 1 <=> Len(ids) <= n
         /\ Len(ids) <= n => Cut(ids, n) = ids
         /\ Len(ids) > n => Cut(ids, n) = SubSeq(ids, 1, n)
<1>0. Len(ids) \in Nat /\ n + 1 \in Int
  OBVIOUS
<1>1. Min({n + 1, Len(ids)}) = IF n + 1 <= Len(ids) THEN n + 1 ELSE Len(ids)
  BY <1>0, OfTwo
<1>2. CASE Len(ids) <= n
  <2>1. Min({n + 1, Len(ids)}) = Len(ids)
    BY <1>0, <1>1, <1>2
  <2>2. Rows(ids, n) = SubSeq(ids, 1, Len(ids))
    BY <2>1, Zenon DEF Rows
  <2>3. Rows(ids, n) = ids
    BY <2>2
  <2>4. Len(Rows(ids, n)) # n + 1
    BY <1>0, <1>2, <2>3
  <2>5. Cut(ids, n) = ids
    BY <2>3, <2>4 DEF Cut
  <2>6. ~(Len(ids) > n)
    BY <1>0, <1>2
  <2> QED BY <1>2, <2>4, <2>5, <2>6
<1>3. CASE Len(ids) > n
  <2>1. Min({n + 1, Len(ids)}) = n + 1
    BY <1>0, <1>1, <1>3
  <2>2. Rows(ids, n) = SubSeq(ids, 1, n + 1)
    BY <2>1, Zenon DEF Rows
  <2> DEFINE r == SubSeq(ids, 1, n + 1)
  <2>3. r \in Seq(Nat) /\ Len(r) = n + 1 /\ \A k \in 1..n + 1 : r[k] = ids[k]
    <3>1. n + 1 \in Nat /\ n + 1 <= Len(ids)
      BY <1>0, <1>3
    <3> QED BY ONLY <3>1, ids \in Seq(Nat), StartIs
  <2>4. SubSeq(ids, 1, n) \in Seq(Nat) /\ Len(SubSeq(ids, 1, n)) = n
        /\ \A k \in 1..n : SubSeq(ids, 1, n)[k] = ids[k]
    BY <1>0, <1>3, StartIs
  <2> HIDE DEF r
  <2>5. Front(r) \in Seq(Nat) /\ Len(Front(r)) = n /\ \A k \in 1..n : Front(r)[k] = ids[k]
    <3>1. Front(r) = SubSeq(r, 1, n)
      BY <2>3 DEF Front
    <3>2. SubSeq(r, 1, n) \in Seq(Nat) /\ Len(SubSeq(r, 1, n)) = n
          /\ \A k \in 1..n : SubSeq(r, 1, n)[k] = r[k]
      BY <2>3, StartIs
    <3> QED BY <2>3, <3>1, <3>2
  <2>6. Front(r) = SubSeq(ids, 1, n)
    <3> DEFINE a == Front(r)
               b == SubSeq(ids, 1, n)
    <3>1. a \in Seq(Nat) /\ b \in Seq(Nat) /\ Len(a) = Len(b) /\ \A k \in 1..Len(a) : a[k] = b[k]
      BY <2>4, <2>5
    <3> HIDE DEF a, b
    <3>2. a = b
      BY ONLY <3>1, SameSeq
    <3> QED BY <3>2 DEF a, b
  <2>7. ~(Len(ids) <= n)
    BY <1>0, <1>3
  <2>8. Rows(ids, n) = r
    BY <2>2 DEF r
  <2>9. Cut(ids, n) = SubSeq(ids, 1, n)
    BY <2>3, <2>6, <2>8, Zenon DEF Cut
  <2> QED BY <1>3, <2>3, <2>7, <2>8, <2>9
<1> QED BY <1>0, <1>2, <1>3

\* Backwards, cut and back again: the last n.
LEMMA LastCut ==
  ASSUME NEW ids \in Seq(Nat), NEW n \in Nat
  PROVE  /\ Len(Rows(Reverse(ids), n)) # n + 1 <=> Len(ids) <= n
         /\ Len(ids) <= n => Reverse(Cut(Reverse(ids), n)) = ids
         /\ Len(ids) > n => Reverse(Cut(Reverse(ids), n)) = SubSeq(ids, Len(ids) - n + 1, Len(ids))
<1> DEFINE L == Len(ids)
           v == Reverse(ids)
<1>0. L \in Nat
  OBVIOUS
<1>1. v \in Seq(Nat) /\ Len(v) = L /\ \A k \in 1..L : v[k] = ids[L - k + 1]
  <2>1. \A k \in 1..L : (L - k) + 1 \in 1..L /\ ids[(L - k) + 1] \in Nat
    BY <1>0
  <2>2. v = [k \in 1..L |-> ids[(L - k) + 1]]
    BY DEF Reverse
  <2> QED BY <1>0, <2>1, <2>2
<1> HIDE DEF v
<1>2. CASE L <= n
  <2>1. Cut(v, n) = v
    BY <1>0, <1>1, <1>2, CutIs
  <2> DEFINE u == Reverse(v)
  <2>2. u \in Seq(Nat) /\ Len(u) = L /\ \A k \in 1..L : u[k] = ids[k]
    <3>1. \A k \in 1..L : (L - k) + 1 \in 1..L /\ L - ((L - k) + 1) + 1 = k
      BY <1>0
    <3>2. u = [k \in 1..L |-> v[(L - k) + 1]]
      BY <1>1 DEF Reverse
    <3>3. \A k \in 1..L : v[(L - k) + 1] = ids[k] /\ ids[k] \in Nat
      BY <1>1, <3>1, SMTT(30)
    <3> HIDE DEF u
    <3>4. u = [k \in 1..L |-> ids[k]]
      BY <3>2, <3>3
    <3> QED BY <1>0, <3>3, <3>4
  <2> HIDE DEF u
  <2>3. u = ids
    BY ONLY <2>2, ids \in Seq(Nat), SameSeq
  <2>4. ~(L > n)
    BY <1>0, <1>2
  <2>5. Reverse(Cut(v, n)) = ids
    BY <2>1, <2>3, Zenon DEF u
  <2>6. Len(Rows(v, n)) # n + 1
    BY <1>1, <1>2, CutIs
  <2> QED BY <1>2, <2>4, <2>5, <2>6 DEF v
<1>3. CASE L > n
  <2>1. Cut(v, n) = SubSeq(v, 1, n)
    BY <1>0, <1>1, <1>3, CutIs
  <2> DEFINE r == SubSeq(v, 1, n)
             u == Reverse(r)
             z == SubSeq(ids, L - n + 1, L)
  <2>2. r \in Seq(Nat) /\ Len(r) = n /\ \A k \in 1..n : r[k] = v[k]
    <3>1. v \in Seq(Nat) /\ n <= Len(v)
      BY <1>0, <1>1, <1>3
    <3> QED BY ONLY <3>1, n \in Nat, StartIs
  <2> HIDE DEF r
  <2>3. u \in Seq(Nat) /\ Len(u) = n /\ \A k \in 1..n : u[k] = ids[L - n + k]
    <3>1. \A k \in 1..n : (n - k) + 1 \in 1..n /\ (n - k) + 1 \in 1..L
                          /\ L - ((n - k) + 1) + 1 = L - n + k /\ L - n + k \in 1..L
      BY <1>0, <1>3
    <3>2. u = [k \in 1..n |-> r[(n - k) + 1]]
      BY <2>2 DEF Reverse
    <3>3. \A k \in 1..n : r[(n - k) + 1] = ids[L - n + k] /\ ids[L - n + k] \in Nat
      <4> TAKE k \in 1..n
      <4>1. r[(n - k) + 1] = v[(n - k) + 1]
        BY <2>2, <3>1
      <4>2. v[(n - k) + 1] = ids[L - ((n - k) + 1) + 1]
        BY <1>1, <3>1, Zenon
      <4>3. ids[L - n + k] \in Nat
        BY <3>1
      <4> QED BY <3>1, <4>1, <4>2, <4>3
    <3> HIDE DEF u
    <3>4. u = [k \in 1..n |-> ids[L - n + k]]
      BY <3>2, <3>3
    <3> QED BY <3>3, <3>4
  <2>4. z \in Seq(Nat) /\ Len(z) = n /\ \A k \in 1..n : z[k] = ids[L - n + k]
    <3>1. L - n + 1 \in Int /\ \A k \in L - n + 1 .. L : ids[k] \in Nat
      BY <1>0, <1>3
    <3>2. /\ z \in Seq(Nat) /\ Len(z) = IF L - n + 1 <= L THEN L - (L - n + 1) + 1 ELSE 0
          /\ \A k \in 1 .. L - (L - n + 1) + 1 : z[k] = ids[(L - n + 1) + k - 1]
      BY <1>0, <3>1
    <3>3. L - (L - n + 1) + 1 = n /\ (n = 0 \/ L - n + 1 <= L)
          /\ (L - n + 1 <= L => n # 0)
          /\ \A k \in 1..n : (L - n + 1) + k - 1 = L - n + k
      BY <1>0, <1>3
    <3> HIDE DEF z
    <3> QED BY <1>0, <3>2, <3>3
  <2> HIDE DEF u, z
  <2>5. u = z
    <3>1. Len(u) = Len(z) /\ \A k \in 1..Len(u) : u[k] = z[k]
      BY <2>3, <2>4
    <3> QED BY <2>3, <2>4, <3>1
  <2>6. ~(L <= n)
    BY <1>0, <1>3
  <2>7. Reverse(Cut(v, n)) = z
    BY <2>1, <2>5, Zenon DEF u, r
  <2>8. ~(Len(Rows(v, n)) # n + 1)
    BY <1>1, <2>6, CutIs
  <2> QED BY <1>3, <2>6, <2>7, <2>8 DEF v, z
<1> QED BY <1>0, <1>2, <1>3

\* The ids of the lines that a query selects.
LEMMA Selection ==
  ASSUME log \in Seq(LogLine), NEW S
  PROVE  /\ Filter(Ids, S) \in Seq(Nat) /\ Ascending(Filter(Ids, S))
         /\ Range(Filter(Ids, S)) = (1..Len(log)) \cap S
<1>1. /\ Ids \in Seq(Nat) /\ Len(Ids) = Len(log) /\ Len(log) \in Nat
      /\ \A i \in 1..Len(log) : Ids[i] = i
  BY DEF Ids
<1>2. Ascending(Ids)
  BY <1>1 DEF Ascending
<1>3. Range(Ids) = 1..Len(log)
  <2>1. \A y : y \in Range(Ids) <=> \E i \in 1..Len(log) : Ids[i] = y
    BY <1>1, RangeSeq
  <2>2. \A y : y \in Range(Ids) <=> y \in 1..Len(log)
    BY <1>1, <2>1
  <2> QED BY <2>2, Zenon
<1> QED BY <1>1, <1>2, <1>3, FilterType, FilterRange, FilterAscending

\* get_muc_logs(): the first or the last lines.
LEMMA MucLogsAre ==
  ASSUME log \in Seq(LogLine), NEW o, NEW c, NEW n \in Nat, NEW start, NEW end, NEW ref
  PROVE  /\ GetMucLogs(o, c, n, start, end, ref, "first").complete
              <=> Len(Selected(o, c, start, end, ref, "first")) <= n
         /\ GetMucLogs(o, c, n, start, end, ref, "first").lines
              = Cut(Selected(o, c, start, end, ref, "first"), n)
         /\ GetMucLogs(o, c, n, start, end, ref, "last").complete
              <=> Len(Selected(o, c, start, end, ref, "last")) <= n
         /\ GetMucLogs(o, c, n, start, end, ref, "last").lines
              = Reverse(Cut(Reverse(Selected(o, c, start, end, ref, "last")), n))
<1> DEFINE F == Selected(o, c, start, end, ref, "first")
           G == Selected(o, c, start, end, ref, "last")
<1>1. F \in Seq(Nat) /\ G \in Seq(Nat)
  BY Selection DEF Selected
<1>2. GetMucLogs(o, c, n, start, end, ref, "first")
        = [complete |-> Len(Rows(F, n)) # n + 1, lines |-> Cut(F, n)]
  BY Zenon DEF GetMucLogs, Selected, Cut
<1>3. GetMucLogs(o, c, n, start, end, ref, "last")
        = [complete |-> Len(Rows(Reverse(G), n)) # n + 1, lines |-> Reverse(Cut(Reverse(G), n))]
  BY Zenon DEF GetMucLogs, Selected, Cut
<1> HIDE DEF F, G
<1>4. Len(Rows(F, n)) # n + 1 <=> Len(F) <= n
  BY <1>1, CutIs
<1>5. Len(Rows(Reverse(G), n)) # n + 1 <=> Len(G) <= n
  BY <1>1, LastCut
<1> DEFINE p == GetMucLogs(o, c, n, start, end, ref, "first")
           r == GetMucLogs(o, c, n, start, end, ref, "last")
<1> HIDE DEF p, r
<1>6. (p.complete <=> Len(F) <= n) /\ p.lines = Cut(F, n)
  <2>1. p = [complete |-> Len(Rows(F, n)) # n + 1, lines |-> Cut(F, n)]
    BY <1>2 DEF p
  <2>2. p.complete = (Len(Rows(F, n)) # n + 1) /\ p.lines = Cut(F, n)
    BY <2>1, Zenon
  <2> QED BY <1>4, <2>2, Zenon
<1>7. (r.complete <=> Len(G) <= n) /\ r.lines = Reverse(Cut(Reverse(G), n))
  <2>1. r = [complete |-> Len(Rows(Reverse(G), n)) # n + 1, lines |-> Reverse(Cut(Reverse(G), n))]
    BY <1>3 DEF r
  <2>2. r.complete = (Len(Rows(Reverse(G), n)) # n + 1) /\ r.lines = Reverse(Cut(Reverse(G), n))
    BY <2>1, Zenon
  <2> QED BY <1>5, <2>2, Zenon
<1> QED BY <1>6, <1>7, Zenon DEF F, G, p, r

\* History() reads the end of the lines that the join may be sent.
LEMMA HistoryIs ==
  ASSUME log \in Seq(LogLine), NEW o, NEW c, NEW h, h.stanzas \in Int, GetGlobal(o).max \in Int
  PROVE  TailOf(History(o, c, h))
<1> DEFINE t == History(o, c, h)
           all == Filter(Ids, {i \in 1..Len(log) :
                             i <= t.asof /\ Within(i, t.owner, t.chan, t.limit.since, NoDate)})
           most == Min({IF t.max < 0 THEN DefaultMax ELSE t.max}
                       \cup {k \in {t.limit.stanzas} : k >= 0})
           n == HistoryLength(o, h)
           G == Selected(o, c, h.since, NoDate, NoRef, "last")
<1>0. DefaultMax \in Nat /\ Len(log) \in Nat
  BY OptionsAssumptions
<1>1. /\ t.owner = o /\ t.chan = c /\ t.limit = h /\ t.max = GetGlobal(o).max /\ t.asof = Len(log)
      /\ t.lines = GetMucLogs(o, c, n, h.since, NoDate, NoRef, "last").lines
  BY DEF History
<1> HIDE DEF t
<1>2. n \in Nat
  BY <1>0 DEF HistoryLength
<1>3. most = n
  <2> DEFINE m == IF GetGlobal(o).max < 0 THEN DefaultMax ELSE GetGlobal(o).max
             st == h.stanzas
  <2>1. m \in Nat /\ st \in Int
    BY <1>0
  <2>2. n = IF st >= 0 /\ st < m THEN st ELSE m
    BY DEF HistoryLength
  <2>3. most = Min({m} \cup {k \in {st} : k >= 0})
    BY <1>1
  <2> HIDE DEF m, st, most, n
  <2>4. CASE st >= 0
    <3>1. {m} \cup {k \in {st} : k >= 0} = {m, st}
      BY <2>4
    <3>2. Min({m, st}) = IF m <= st THEN m ELSE st
      BY <2>1, OfTwo
    <3>3. most = IF m <= st THEN m ELSE st
      BY <2>3, <3>1, <3>2, Zenon
    <3> QED BY <2>1, <2>2, <2>4, <3>3
  <2>5. CASE ~(st >= 0)
    <3>1. {m} \cup {k \in {st} : k >= 0} = {m, m}
      BY <2>5
    <3>2. Min({m, m}) = m
      BY <2>1, OfTwo
    <3>3. most = m
      BY <2>3, <3>1, <3>2, Zenon
    <3> QED BY <2>1, <2>2, <2>5, <3>3
  <2> QED BY <2>4, <2>5
<1>4. all = G
  <2> DEFINE A == {i \in 1..Len(log) :
                     i <= t.asof /\ Within(i, t.owner, t.chan, t.limit.since, NoDate)}
             B == {i \in 1..Len(log) :
                     /\ Within(i, o, c, h.since, NoDate)
                     /\ NoRef # NoRef => IF "last" = "first" THEN i > NoRef ELSE i < NoRef}
  <2>1. A = B
    <3>1. \A i \in 1..Len(log) : i <= t.asof
      BY <1>0, <1>1
    <3>2. \A i : i \in A <=> i \in B
      BY <1>1, <3>1
    <3> HIDE DEF A, B
    <3> QED BY <3>2, Zenon
  <2> HIDE DEF A, B
  <2>2. all = Filter(Ids, A) /\ G = Filter(Ids, B)
    BY Zenon DEF A, B, Selected
  <2> QED BY <2>1, <2>2, Zenon
<1>5. t.lines = Reverse(Cut(Reverse(G), n))
  <2> HIDE DEF n, G
  <2>1. GetMucLogs(o, c, n, h.since, NoDate, NoRef, "last").lines = Reverse(Cut(Reverse(G), n))
    BY <1>2, MucLogsAre DEF G
  <2> QED BY <1>1, <2>1
<1>6. G \in Seq(Nat) /\ Len(G) \in Nat
  <2>1. G \in Seq(Nat)
    BY Selection DEF Selected
  <2> QED BY <2>1
<1> HIDE DEF n, G, most, all
<1>7. Max({1, Len(G) - n + 1}) = IF 1 <= Len(G) - n + 1 THEN Len(G) - n + 1 ELSE 1
  <2>1. Len(G) - n + 1 \in Int /\ 1 \in Int
    BY <1>2, <1>6
  <2> QED BY <2>1, OfTwo, Zenon
<1>8. t.lines = SubSeq(G, Max({1, Len(G) - n + 1}), Len(G))
  <2>1. CASE Len(G) <= n
    <3>1. Max({1, Len(G) - n + 1}) = 1
      BY <1>2, <1>6, <1>7, <2>1
    <3>2. t.lines = G
      BY <1>2, <1>5, <1>6, <2>1, LastCut
    <3>3. SubSeq(G, 1, Len(G)) = G
      BY <1>6
    <3> QED BY <3>1, <3>2, <3>3, Zenon
  <2>2. CASE Len(G) > n
    <3>1. Max({1, Len(G) - n + 1}) = Len(G) - n + 1
      BY <1>2, <1>6, <1>7, <2>2
    <3>2. t.lines = SubSeq(G, Len(G) - n + 1, Len(G))
      BY <1>2, <1>5, <1>6, <2>2, LastCut
    <3> QED BY <3>1, <3>2, Zenon
  <2>3. Len(G) <= n \/ Len(G) > n
    BY <1>2, <1>6
  <2> QED BY <2>1, <2>2, <2>3, Zenon
<1>9. t.lines = SubSeq(all, Max({1, Len(all) - most + 1}), Len(all))
  BY <1>3, <1>4, <1>8, Zenon
<1> QED BY <1>9, Zenon DEF TailOf, t, all, most

-----------------------------------------------------------------------------
(* Walks.                                                                  *)

\* An ascending sequence that is not empty has its least element first, its
\* greatest last.
LEMMA Ends ==
  ASSUME NEW s \in Seq(Nat), Ascending(s), s # <<>>
  PROVE  /\ Len(s) \in Nat \ {0} /\ s[1] \in Range(s) /\ s[Len(s)] \in Range(s)
         /\ \A x \in Range(s) : s[1] <= x /\ x <= s[Len(s)]
<1>1. Len(s) \in Nat \ {0} /\ 1 \in 1..Len(s) /\ Len(s) \in 1..Len(s)
  OBVIOUS
<1>2. s[1] \in Range(s) /\ s[Len(s)] \in Range(s)
  BY <1>1, RangeSeq
<1>3. ASSUME NEW x \in Range(s) PROVE s[1] <= x /\ x <= s[Len(s)]
  <2>1. PICK i \in 1..Len(s) : s[i] = x
    BY RangeSeq
  <2>2. (1 < i => s[1] < s[i]) /\ (i < Len(s) => s[i] < s[Len(s)])
    BY <1>1 DEF Ascending
  <2>3. s[1] \in Nat /\ s[i] \in Nat /\ s[Len(s)] \in Nat
    BY <1>1
  <2>4. (i = 1 \/ 1 < i) /\ (i = Len(s) \/ i < Len(s))
    BY <1>1
  <2> QED BY <2>1, <2>2, <2>3, <2>4
<1> QED BY <1>1, <1>2, <1>3

\* The page from the start of what is selected.
LEMMA FirstPage ==
  ASSUME NEW F \in Seq(Nat), Ascending(F), NEW n \in Nat, NEW p, p = Cut(F, n)
  PROVE  FirstOf(p, F, n)
<1> USE DEF FirstOf
<1>0. Len(F) \in Nat /\ Range(F) \subseteq Nat
  BY DEF Range
<1>1. CASE Len(F) <= n
  <2>1. p = F
    BY <1>1, CutIs
  <2>2. ASSUME F # <<>> PROVE Last(F) \in Range(F) /\ \A x \in Range(F) : x <= Last(F)
    BY <2>2, Ends DEF Last
  <2> QED BY <1>0, <2>1, <2>2
<1>2. CASE Len(F) > n /\ n = 0
  <2>1. p = SubSeq(F, 1, 0)
    BY <1>2, CutIs
  <2>2. p = <<>>
    BY <2>1
  <2>3. <<>> \in Seq(Nat) /\ Len(<<>>) = 0 /\ Range(<<>>) = {}
    BY DEF Range
  <2>4. ~(Len(F) <= n)
    BY <1>0, <1>2
  <2> QED BY <2>2, <2>3, <2>4 DEF Ascending
<1>3. CASE Len(F) > n /\ n # 0
  <2>1. p = SubSeq(F, 1, n)
    BY <1>3, CutIs, Zenon
  <2>2. 1 \in 1..Len(F) /\ n \in 1..Len(F) /\ n - 1 + 1 = n
    BY <1>0, <1>3
  <2>3. /\ p \in Seq(Nat) /\ Ascending(p) /\ Len(p) = n /\ p[n] = F[n]
        /\ Range(p) = {x \in Range(F) : F[1] <= x /\ x <= F[n]}
    BY <2>1, <2>2, AscendingPart
  <2>4. Last(p) = F[n] /\ F[n] \in Nat
    BY <2>2, <2>3 DEF Last
  <2>5. F # <<>>
    BY <1>0, <1>3
  <2>6. \A x \in Range(F) : F[1] <= x
    BY <2>5, Ends
  <2>7. F[n] \in Range(F)
    BY <2>2, RangeSeq
  <2>8. Range(p) = {x \in Range(F) : x <= Last(p)}
    BY <2>3, <2>4, <2>6
  <2>9. ~(Len(F) <= n)
    BY <1>0, <1>3
  <2> QED BY <2>3, <2>4, <2>7, <2>8, <2>9
<1> QED BY <1>0, <1>1, <1>2, <1>3

\* A page from the end begins with its first line: all that follows is on it.
LEMMA LastPage ==
  ASSUME NEW F \in Seq(Nat), Ascending(F), NEW n \in Nat, NEW p, p = Reverse(Cut(Reverse(F), n))
  PROVE  /\ p \in Seq(Nat) /\ Ascending(p) /\ Range(p) \subseteq Range(F)
         /\ Len(F) <= n => Range(p) = Range(F)
         /\ p # <<>> => /\ Head(p) \in Range(F) /\ Head(p) \in Nat
                        /\ Range(p) = {x \in Range(F) : Head(p) <= x}
<1>0. Len(F) \in Nat /\ Range(F) \subseteq Nat
  BY DEF Range
<1>1. CASE Len(F) <= n
  <2>1. p = F
    BY <1>1, LastCut
  <2>2. ASSUME F # <<>> PROVE Head(F) \in Range(F) /\ \A x \in Range(F) : Head(F) <= x
    <3>1. Head(F) = F[1]
      BY <2>2
    <3> QED BY <2>2, <3>1, Ends
  <2> QED BY <1>0, <2>1, <2>2
<1>2. CASE Len(F) > n /\ n = 0
  <2>1. p = SubSeq(F, Len(F) - n + 1, Len(F))
    BY <1>2, LastCut
  <2>2. p = <<>>
    <3>1. Len(F) - n + 1 \in Int /\ Len(F) \in Int /\ Len(F) < Len(F) - n + 1
      BY <1>0, <1>2
    <3> QED BY <2>1, <3>1
  <2>3. <<>> \in Seq(Nat) /\ Len(<<>>) = 0 /\ Range(<<>>) = {}
    BY DEF Range
  <2>4. ~(Len(F) <= n)
    BY <1>0, <1>2
  <2> QED BY <2>2, <2>3, <2>4 DEF Ascending
<1>3. CASE Len(F) > n /\ n # 0
  <2> DEFINE m == Len(F) - n + 1
             l == Len(F)
  <2>1. p = SubSeq(F, m, l)
    BY <1>3, LastCut, Zenon
  <2>2. m \in 1..Len(F) /\ l \in m..Len(F) /\ l - m + 1 = n /\ l = Len(F)
    BY <1>0, <1>3
  <2> HIDE DEF m, l
  <2>3. /\ p \in Seq(Nat) /\ Ascending(p) /\ Len(p) = l - m + 1 /\ p[1] = F[m]
        /\ Range(p) = {x \in Range(F) : F[m] <= x /\ x <= F[l]}
    <3>1. m \in 1..Len(F) /\ l \in m..Len(F)
      BY <2>2
    <3> DEFINE v == SubSeq(F, m, l)
    <3>2. /\ v \in Seq(Nat) /\ Ascending(v) /\ Len(v) = l - m + 1 /\ v[1] = F[m]
          /\ Range(v) = {x \in Range(F) : F[m] <= x /\ x <= F[l]}
      BY ONLY F \in Seq(Nat), Ascending(F), <3>1, AscendingPart
    <3> QED BY <2>1, <3>2, Zenon
  <2>4. p # <<>>
    <3>1. Len(p) # 0
      BY <1>3, <2>2, <2>3
    <3> QED BY <3>1
  <2>5. Head(p) = F[m] /\ F[m] \in Nat
    BY <2>2, <2>3, <2>4
  <2>6. F # <<>>
    BY <1>0, <1>3
  <2>7. \A x \in Range(F) : x <= F[l]
    BY <2>2, <2>6, Ends
  <2>8. F[m] \in Range(F)
    BY <2>2, RangeSeq
  <2>9. Range(p) = {x \in Range(F) : Head(p) <= x}
    BY <2>3, <2>5, <2>7
  <2>10. ~(Len(F) <= n)
    BY <1>0, <1>3, SMTT(20)
  <2> QED BY <2>3, <2>5, <2>8, <2>9, <2>10
<1> QED BY <1>0, <1>1, <1>2, <1>3

\* A page of a request that goes forwards is the beginning of what it asks
\* for, and all of it when the answer says that it is complete.
LEMMA ForwardPage ==
  ASSUME log \in Seq(LogLine), NEW o, NEW c, NEW q \in Query, q.before = Absent,
         ~Mam(o, c, q).error
  PROVE  LET p == Mam(o, c, q)
             D == After(o, c, q)
         IN  /\ p.lines \in Seq(Nat) /\ Ascending(p.lines) /\ Range(p.lines) \subseteq D
             /\ p.complete => Range(p.lines) = D
             /\ p.lines # <<>> => /\ Last(p.lines) \in D
                                  /\ Range(p.lines) = {x \in D : x <= Last(p.lines)}
<1> DEFINE n == PageLimit(q.max)
           F == Selected(o, c, q.start, q.end, q.after, "first")
           p == Mam(o, c, q)
           D == After(o, c, q)
           R == GetMucLogs(o, c, n, q.start, q.end, q.after, "first")
<1>1. n \in Nat
  BY ArchiveAssumptions, SMTT(20) DEF PageLimit, Query
<1>2. p.complete = R.complete /\ p.lines = R.lines
  BY Zenon DEF Mam
<1>3. F \in Seq(Nat) /\ Ascending(F) /\ Range(F) = D
  <2> DEFINE S == {i \in 1..Len(log) :
                     /\ Within(i, o, c, q.start, q.end)
                     /\ q.after # NoRef => IF "first" = "first" THEN i > q.after ELSE i < q.after}
  <2>1. F = Filter(Ids, S)
    BY DEF Selected
  <2>2. q.after \in Nat /\ Len(log) \in Nat
    BY DEF Query
  <2>3. (1..Len(log)) \cap S = D
    BY <2>2 DEF After, NoRef
  <2> HIDE DEF S, F, D
  <2> QED BY <2>1, <2>3, Selection, Zenon
<1> HIDE DEF n, F
<1>4. (R.complete <=> Len(F) <= n) /\ R.lines = Cut(F, n)
  BY <1>1, MucLogsAre DEF F
<1> HIDE DEF p, R, D
<1>5. /\ p.lines \in Seq(Nat) /\ Ascending(p.lines) /\ Range(p.lines) \subseteq Range(F)
      /\ Len(F) <= n => Range(p.lines) = Range(F)
      /\ p.lines # <<>> => /\ Last(p.lines) \in Range(F)
                           /\ Range(p.lines) = {x \in Range(F) : x <= Last(p.lines)}
  <2>1. p.lines = Cut(F, n)
    BY <1>2, <1>4
  <2>2. FirstOf(p.lines, F, n)
    BY <1>1, <1>3, <2>1, FirstPage
  <2> QED BY <2>2 DEF FirstOf
<1>6. p.complete => Len(F) <= n
  BY <1>2, <1>4
<1>7. /\ p.lines \in Seq(Nat) /\ Ascending(p.lines) /\ Range(p.lines) \subseteq D
      /\ p.complete => Range(p.lines) = D
      /\ p.lines # <<>> => /\ Last(p.lines) \in D
                           /\ Range(p.lines) = {x \in D : x <= Last(p.lines)}
  BY <1>3, <1>5, <1>6, Zenon
<1> QED BY <1>7 DEF p, D

\* And of one that goes backwards, the end.
LEMMA BackwardPage ==
  ASSUME log \in Seq(LogLine), NEW o, NEW c, NEW q \in Query, q.before # Absent, q.after = NoRef,
         ~Mam(o, c, q).error
  PROVE  LET p == Mam(o, c, q)
             D == Before(o, c, q)
         IN  /\ p.lines \in Seq(Nat) /\ Ascending(p.lines) /\ Range(p.lines) \subseteq D
             /\ p.complete => Range(p.lines) = D
             /\ p.lines # <<>> => /\ Head(p.lines) \in D
                                  /\ Range(p.lines) = {x \in D : Head(p.lines) <= x}
<1> DEFINE n == PageLimit(q.max)
           F == Selected(o, c, q.start, q.end, q.before, "last")
           p == Mam(o, c, q)
           D == Before(o, c, q)
           R == GetMucLogs(o, c, n, q.start, q.end, q.before, "last")
<1>1. n \in Nat
  BY ArchiveAssumptions, SMTT(20) DEF PageLimit, Query
<1>2. p.complete = R.complete /\ p.lines = R.lines
  <2>1. (IF q.before \in {Absent, NoRef} THEN q.after ELSE q.before) = q.before
    BY DEF NoRef
  <2> QED BY <2>1, Zenon DEF Mam
<1>3. F \in Seq(Nat) /\ Ascending(F) /\ Range(F) = D
  <2> DEFINE S == {i \in 1..Len(log) :
                     /\ Within(i, o, c, q.start, q.end)
                     /\ q.before # NoRef => IF "last" = "first" THEN i > q.before ELSE i < q.before}
  <2>1. F = Filter(Ids, S)
    BY DEF Selected
  <2>3. (1..Len(log)) \cap S = D
    BY DEF Before
  <2> HIDE DEF S, F, D
  <2> QED BY <2>1, <2>3, Selection, Zenon
<1> HIDE DEF n, F
<1>4. (R.complete <=> Len(F) <= n) /\ R.lines = Reverse(Cut(Reverse(F), n))
  BY <1>1, MucLogsAre DEF F
<1> HIDE DEF p, R, D
<1>5. /\ p.lines \in Seq(Nat) /\ Ascending(p.lines) /\ Range(p.lines) \subseteq Range(F)
      /\ Len(F) <= n => Range(p.lines) = Range(F)
      /\ p.lines # <<>> => /\ Head(p.lines) \in Range(F)
                           /\ Range(p.lines) = {x \in Range(F) : Head(p.lines) <= x}
  <2>1. p.lines = Reverse(Cut(Reverse(F), n))
    BY <1>2, <1>4
  <2> QED BY <1>1, <1>3, <2>1, LastPage, Zenon
<1>6. p.complete => Len(F) <= n
  BY <1>2, <1>4
<1>7. /\ p.lines \in Seq(Nat) /\ Ascending(p.lines) /\ Range(p.lines) \subseteq D
      /\ p.complete => Range(p.lines) = D
      /\ p.lines # <<>> => /\ Head(p.lines) \in D
                           /\ Range(p.lines) = {x \in D : Head(p.lines) <= x}
  BY <1>3, <1>5, <1>6
<1> QED BY <1>7 DEF p, D

\* What a walk is after one more page.
LEMMA TakesIs ==
  ASSUME NEW w \in Walk
  PROVE  LET v == Takes(w)
             p == Mam(w.owner, w.chan, w.q)
         IN  /\ v.owner = w.owner /\ v.chan = w.chan /\ v.q0 = w.q0
             /\ v.got = IF w.q.before = Absent THEN w.got \o Nicked(p.lines)
                        ELSE Nicked(p.lines) \o w.got
             /\ v.asof = IF w.q.before = Absent \/ w.asof = -1 THEN Len(log) ELSE w.asof
             /\ v.status = "done" => ~p.error /\ p.complete
             /\ v.status = "on" => ~p.error /\ p.lines # <<>>
             /\ v.q = IF p.lines = <<>> THEN w.q
                      ELSE IF w.q.before = Absent THEN [w.q EXCEPT !.after = Last(p.lines)]
                      ELSE [w.q EXCEPT !.before = Head(p.lines)]
             /\ v = [status |-> v.status, owner |-> v.owner, chan |-> v.chan, q |-> v.q,
                     q0 |-> v.q0, got |-> v.got, asof |-> v.asof]
             /\ v.status \in Status
<1> DEFINE p == Mam(w.owner, w.chan, w.q)
           N == Nicked(p.lines)
           got == IF w.q.before = Absent THEN w.got \o N ELSE N \o w.got
           asof == IF w.q.before = Absent \/ w.asof = -1 THEN Len(log) ELSE w.asof
           status == IF p.error THEN "error" ELSE IF p.complete THEN "done"
                     ELSE IF p.lines = <<>> THEN "stopped" ELSE "on"
           q == IF p.lines = <<>> THEN w.q
                ELSE IF w.q.before = Absent THEN [w.q EXCEPT !.after = Last(p.lines)]
                ELSE [w.q EXCEPT !.before = Head(p.lines)]
<1>1. Takes(w) = [w EXCEPT !.got = got, !.status = status, !.asof = asof, !.q = q]
  BY Zenon DEF Takes
<1> HIDE DEF p
<1>2. /\ status = "done" => ~p.error /\ p.complete
      /\ status = "on" => ~p.error /\ p.lines # <<>>
      /\ status \in Status
  <2>1. /\ p.error => status = "error"
        /\ ~p.error /\ p.complete => status = "done"
        /\ ~p.error /\ ~p.complete /\ p.lines = <<>> => status = "stopped"
        /\ ~p.error /\ ~p.complete /\ p.lines # <<>> => status = "on"
    BY Zenon
  <2> HIDE DEF status
  <2>2. "error" # "done" /\ "error" # "on" /\ "stopped" # "done" /\ "stopped" # "on" /\ "on" # "done"
    OBVIOUS
  <2> QED BY <2>1, <2>2, Zenon DEF Status
<1> HIDE DEF got, asof, status, q
<1>3. Takes(w) = [status |-> status, owner |-> w.owner, chan |-> w.chan, q |-> q,
                  q0 |-> w.q0, got |-> got, asof |-> asof]
  BY <1>1, Zenon DEF Walk
<1>4. LET v == Takes(w)
      IN  /\ v.owner = w.owner /\ v.chan = w.chan /\ v.q0 = w.q0
          /\ v.got = got /\ v.asof = asof /\ v.status = status /\ v.q = q
  BY <1>3
<1> HIDE DEF N
<1>5. LET v == Takes(w)
      IN  v = [status |-> v.status, owner |-> v.owner, chan |-> v.chan, q |-> v.q,
               q0 |-> v.q0, got |-> v.got, asof |-> v.asof]
  BY <1>3, <1>4, Zenon
<1> QED BY <1>2, <1>4, <1>5, Zenon DEF got, asof, q, p, N

\* The lines of a page that are sent.
LEMMA NickedIs ==
  ASSUME NEW lines \in Seq(Nat), Ascending(lines)
  PROVE  /\ Nicked(lines) \in Seq(Nat) /\ Ascending(Nicked(lines))
         /\ Range(Nicked(lines)) = Range(lines) \cap {i \in 1..Len(log) : log[i].nick}
BY FilterType, FilterRange, FilterAscending DEF Nicked

\* A walk whose lines are the ones asked for has them in order, once.
LEMMA DoneIs ==
  ASSUME log \in Seq(LogLine), NEW w, w.got \in Seq(Nat), Ascending(w.got),
         Range(w.got) = {i \in Sent(w) : /\ i <= w.asof
                                         /\ IF w.q0.before = Absent THEN w.q0.after < i
                                            ELSE w.q0.before = NoRef \/ i < w.q0.before},
         w.q0 \in Query
  PROVE  Complete(w)
<1> DEFINE Wanted(i) == /\ i <= w.asof /\ log[i].nick
                        /\ Within(i, w.owner, w.chan, w.q0.start, w.q0.end)
                        /\ IF w.q0.before = Absent THEN i > w.q0.after
                           ELSE w.q0.before = NoRef \/ i < w.q0.before
           S == {i \in 1..Len(log) : Wanted(i)}
<1>0. w.q0.after \in Nat /\ Len(log) \in Nat
  BY DEF Query
<1>1. \A i : i \in Range(w.got) <=> i \in 1..Len(log) /\ i \in S
  BY <1>0 DEF Sent, Window
<1>2. Complete(w) <=> w.got = Filter(Ids, S)
  BY Zenon DEF Complete
<1> HIDE DEF S
<1>3. /\ Filter(Ids, S) \in Seq(Nat) /\ Ascending(Filter(Ids, S))
      /\ Range(Filter(Ids, S)) = (1..Len(log)) \cap S
  BY Selection
<1>4. Range(w.got) = Range(Filter(Ids, S))
  BY <1>1, <1>3, Zenon
<1>5. w.got = Filter(Ids, S)
  <2> DEFINE f == Filter(Ids, S)
             g == w.got
  <2>1. /\ f \in Seq(Nat) /\ Ascending(f) /\ g \in Seq(Nat) /\ Ascending(g)
        /\ Range(g) = Range(f)
    BY <1>3, <1>4
  <2> HIDE DEF f, g
  <2>2. g = f
    BY ONLY <2>1, AscendingUnique
  <2> QED BY <2>2 DEF f, g
<1> QED BY <1>2, <1>5

\* The next page of a walk forwards.
LEMMA TakesForward ==
  ASSUME log \in Seq(LogLine), NEW w, WalkOn(w), w.q.before = Absent, w.q0.before = Absent
  PROVE  Taken(Takes(w))
<1> DEFINE v == Takes(w)
           p == Mam(w.owner, w.chan, w.q)
           N == Nicked(p.lines)
           D == After(w.owner, w.chan, w.q)
<1>1. /\ w \in Walk /\ Ascending(w.got) /\ w.got \in Seq(Nat) /\ w.q \in Query /\ w.q0 \in Query
      /\ w.q.start = w.q0.start /\ w.q.end = w.q0.end
      /\ w.q.after \in Nat /\ w.q0.after \in Nat /\ Len(log) \in Nat
  BY SMTT(30) DEF WalkOn, Walk, Query
<1>2. /\ w.q0.after <= w.q.after /\ w.q.after <= Len(log)
      /\ Range(w.got) = {i \in Sent(w) : w.q0.after < i /\ i <= w.q.after}
  <2>1. ~(w.q0.before \in 0..Len(log))
    BY <1>1 DEF Absent
  <2> QED BY <2>1 DEF WalkOn
<1>3. SUFFICES ASSUME v.status \in {"on", "done"} PROVE Taken(v)
  BY Zenon DEF Taken
<1>4. /\ v.owner = w.owner /\ v.chan = w.chan /\ v.q0 = w.q0
      /\ v.got = w.got \o N /\ v.asof = Len(log) /\ ~p.error
      /\ v.status = "done" => p.complete
      /\ v.status = "on" => p.lines # <<>>
      /\ p.lines # <<>> => v.q = [w.q EXCEPT !.after = Last(p.lines)]
      /\ v = [status |-> v.status, owner |-> v.owner, chan |-> v.chan, q |-> v.q,
              q0 |-> v.q0, got |-> v.got, asof |-> v.asof]
      /\ v.status \in Status
  BY <1>1, <1>3, TakesIs, Zenon
<1> HIDE DEF v
<1>5. /\ p.lines \in Seq(Nat) /\ Ascending(p.lines) /\ Range(p.lines) \subseteq D
      /\ p.complete => Range(p.lines) = D
      /\ p.lines # <<>> => /\ Last(p.lines) \in D
                           /\ Range(p.lines) = {x \in D : x <= Last(p.lines)}
  BY <1>1, <1>4, ForwardPage, SMTT(20)
<1>6. D = {i \in Window(w) : w.q.after < i}
  BY <1>1 DEF After, Window
<1> HIDE DEF p, D
<1>7. N \in Seq(Nat) /\ Ascending(N) /\ Range(N) = Range(p.lines) \cap {i \in 1..Len(log) : log[i].nick}
  BY <1>5, NickedIs
<1> HIDE DEF N
<1>8. Window(v) = Window(w) /\ Sent(v) = Sent(w)
  BY <1>4 DEF Window, Sent
<1>9. /\ Window(w) \subseteq 1..Len(log)
      /\ \A i : i \in Sent(w) <=> i \in Window(w) /\ log[i].nick
  BY DEF Window, Sent
<1>10. \A x \in Range(w.got), y \in Range(N) : x < y
  <2> SUFFICES ASSUME NEW x \in Range(w.got), NEW y \in Range(N) PROVE x < y
    OBVIOUS
  <2>1. x \in 1..Len(log) /\ x <= w.q.after
    BY <1>2, <1>9
  <2>2. y \in 1..Len(log) /\ w.q.after < y
    BY <1>5, <1>6, <1>7
  <2> QED BY <1>1, <2>1, <2>2
<1>11. v.got \in Seq(Nat) /\ Ascending(v.got) /\ Range(v.got) = Range(w.got) \cup Range(N)
  BY <1>1, <1>4, <1>7, <1>10, AscendingConcat, Zenon
<1>12. ASSUME v.status = "on" PROVE WalkOn(v)
  <2> DEFINE e == Last(p.lines)
  <2>1. e \in D /\ Range(p.lines) = {x \in D : x <= e}
    BY <1>4, <1>5, <1>12, SMTT(20)
  <2> HIDE DEF e
  <2>2. e \in 1..Len(log) /\ w.q.after < e /\ e \in Nat
    BY <1>1, <1>6, <1>9, <2>1
  <2>3. v.q = [w.q EXCEPT !.after = e]
    BY <1>4, <1>12 DEF e
  <2>4. /\ v.q \in Query /\ v.q.after = e /\ v.q.before = Absent
        /\ v.q.start = w.q.start /\ v.q.end = w.q.end
    BY <1>1, <2>2, <2>3, Zenon DEF Query
  <2>5. v \in Walk
    <3>1. w.owner \in Owner /\ w.chan \in Chan /\ Len(log) \in Int
      BY <1>1 DEF Walk
    <3>2. /\ v.status \in Status /\ v.owner \in Owner /\ v.chan \in Chan /\ v.q \in Query
          /\ v.q0 \in Query /\ v.got \in Seq(Nat) /\ v.asof \in Int
      BY <1>1, <1>4, <1>11, <2>4, <3>1, SMTT(20)
    <3> QED BY <1>4, <3>2, Zenon DEF Walk
  <2>6. \A i : i \in Range(v.got) <=> i \in {j \in Sent(v) : v.q0.after < j /\ j <= v.q.after}
    <3> SUFFICES ASSUME NEW i
                 PROVE i \in Range(v.got) <=> i \in Sent(w) /\ w.q0.after < i /\ i <= e
      BY <1>4, <1>8, <2>4
    <3>1. i \in Range(N) <=> i \in Sent(w) /\ w.q.after < i /\ i <= e
      BY <1>6, <1>7, <1>9, <2>1
    <3>2. i \in Range(w.got) <=> i \in Sent(w) /\ w.q0.after < i /\ i <= w.q.after
      BY <1>2
    <3>3. i \in Sent(w) => i \in Nat
      BY <1>9
    <3> QED BY <1>1, <1>2, <1>11, <2>2, <3>1, <3>2, <3>3, SMTT(30)
  <2>7. Range(v.got) = {j \in Sent(v) : v.q0.after < j /\ j <= v.q.after}
    BY <2>6, Zenon
  <2>8. v.q0.before = Absent /\ v.q0.after <= v.q.after /\ v.q.after <= Len(log)
    BY <1>1, <1>2, <1>4, <2>2, <2>4, SMTT(20)
  <2> QED BY <1>1, <1>4, <1>11, <2>4, <2>5, <2>7, <2>8, SMTT(20) DEF WalkOn
<1>13. ASSUME v.status = "done" PROVE Complete(v)
  <2>1. Range(p.lines) = D
    BY <1>4, <1>5, <1>13
  <2> DEFINE S == {i \in Sent(v) : /\ i <= v.asof
                                   /\ IF v.q0.before = Absent THEN v.q0.after < i
                                      ELSE v.q0.before = NoRef \/ i < v.q0.before}
  <2>2. \A i : i \in Range(v.got) <=> i \in S
    <3> SUFFICES ASSUME NEW i PROVE i \in Range(v.got) <=> i \in Sent(w) /\ w.q0.after < i
      BY <1>1, <1>4, <1>8, <1>9, SMTT(20)
    <3>1. i \in Range(N) <=> i \in Sent(w) /\ w.q.after < i
      BY <1>6, <1>7, <1>9, <2>1
    <3>2. i \in Range(w.got) <=> i \in Sent(w) /\ w.q0.after < i /\ i <= w.q.after
      BY <1>2
    <3>3. i \in Sent(w) => i \in Nat
      BY <1>9
    <3> QED BY <1>1, <1>2, <1>11, <3>1, <3>2, <3>3, SMTT(30)
  <2>3. Range(v.got) = S
    BY <2>2, Zenon
  <2>4. v.q0 \in Query
    BY <1>1, <1>4
  <2> QED BY <1>11, <2>3, <2>4, DoneIs
<1> QED BY <1>12, <1>13, Zenon DEF Taken

\* The next page of a walk backwards: it ends where the last one began, or
\* at the end of the archive as it is now.
LEMMA TakesBackward ==
  ASSUME log \in Seq(LogLine), NEW w, WalkOn(w), w.q0.before \in 0..Len(log)
  PROVE  Taken(Takes(w))
<1> DEFINE v == Takes(w)
           p == Mam(w.owner, w.chan, w.q)
           N == Nicked(p.lines)
           D == Before(w.owner, w.chan, w.q)
           A == IF w.asof = -1 THEN Len(log) ELSE w.asof
           b == w.q.before
           b0 == w.q0.before
<1>1. /\ w \in Walk /\ Ascending(w.got) /\ w.got \in Seq(Nat) /\ w.q \in Query /\ w.q0 \in Query
      /\ w.q.start = w.q0.start /\ w.q.end = w.q0.end
      /\ w.asof \in Int /\ Len(log) \in Nat
  BY SMTT(30) DEF WalkOn, Walk, Query
<1>2. /\ w.q.after = NoRef
      /\ \/ w.asof = -1 /\ w.got = <<>> /\ b = b0
         \/ /\ b \in 1..w.asof /\ w.asof <= Len(log)
            /\ b0 # NoRef => b < b0
            /\ Range(w.got) = {i \in Sent(w) : b <= i /\ i <= w.asof /\ (b0 # NoRef => i < b0)}
  <2>1. w.q0.before # Absent
    BY <1>1 DEF Absent
  <2> QED BY <2>1 DEF WalkOn
<1> HIDE DEF b, b0
<1>3. b0 \in Nat /\ b \in Nat /\ A \in Nat /\ A <= Len(log)
  BY <1>1, <1>2, SMTT(30) DEF b0
<1>4. b # Absent /\ b0 # Absent
  BY <1>3 DEF Absent
<1>5. SUFFICES ASSUME v.status \in {"on", "done"} PROVE Taken(v)
  BY Zenon DEF Taken
<1>6. /\ v.owner = w.owner /\ v.chan = w.chan /\ v.q0 = w.q0
      /\ v.got = N \o w.got /\ v.asof = A /\ ~p.error
      /\ v.status = "done" => p.complete
      /\ v.status = "on" => p.lines # <<>>
      /\ p.lines # <<>> => v.q = [w.q EXCEPT !.before = Head(p.lines)]
      /\ v = [status |-> v.status, owner |-> v.owner, chan |-> v.chan, q |-> v.q,
              q0 |-> v.q0, got |-> v.got, asof |-> v.asof]
      /\ v.status \in Status
  BY <1>1, <1>4, <1>5, TakesIs, ZenonT(30) DEF b
<1> HIDE DEF v
<1>7. /\ p.lines \in Seq(Nat) /\ Ascending(p.lines) /\ Range(p.lines) \subseteq D
      /\ p.complete => Range(p.lines) = D
      /\ p.lines # <<>> => /\ Head(p.lines) \in D
                           /\ Range(p.lines) = {x \in D : Head(p.lines) <= x}
  BY <1>1, <1>2, <1>4, <1>6, BackwardPage, SMTT(20) DEF b
<1>8. D = {i \in Window(w) : b # NoRef => i < b}
  BY <1>1 DEF Before, Window, b
<1> HIDE DEF p, D
<1>9. N \in Seq(Nat) /\ Ascending(N) /\ Range(N) = Range(p.lines) \cap {i \in 1..Len(log) : log[i].nick}
  BY <1>7, NickedIs
<1> HIDE DEF N
<1>10. Window(v) = Window(w) /\ Sent(v) = Sent(w)
  BY <1>6 DEF Window, Sent
<1>11. /\ Window(w) \subseteq 1..Len(log)
       /\ \A i : i \in Sent(w) <=> i \in Window(w) /\ log[i].nick
  BY DEF Window, Sent
<1>12. \A i \in D : i \in Nat \ {0} /\ i <= A /\ (b0 # NoRef => i < b0)
  BY <1>1, <1>2, <1>3, <1>8, <1>11, SMTT(30) DEF NoRef
<1>13. \A i : i \in Range(w.got) <=> /\ i \in Sent(w) /\ i <= A /\ (b0 # NoRef => i < b0)
                                     /\ ~(b # NoRef => i < b)
  <2>1. CASE w.asof = -1 /\ w.got = <<>> /\ b = b0
    <3>1. Range(w.got) = {}
      BY <2>1, SMTT(30) DEF Range
    <3> QED BY <2>1, <3>1
  <2>2. CASE /\ b \in 1..w.asof /\ w.asof <= Len(log)
             /\ Range(w.got) = {i \in Sent(w) : b <= i /\ i <= w.asof /\ (b0 # NoRef => i < b0)}
    <3>1. b # NoRef /\ A = w.asof
      BY <1>1, <2>2 DEF NoRef
    <3>2. \A i \in Sent(w) : i \in Nat
      BY <1>11
    <3> QED BY <1>3, <2>2, <3>1, <3>2, SMTT(20)
  <2> QED BY <1>2, <2>1, <2>2
<1> HIDE DEF A
<1>14. \A x \in Range(N), y \in Range(w.got) : x < y
  <2> SUFFICES ASSUME NEW x \in Range(N), NEW y \in Range(w.got) PROVE x < y
    OBVIOUS
  <2>1. x \in 1..Len(log) /\ (b # NoRef => x < b)
    BY <1>7, <1>8, <1>9
  <2>2. y \in 1..Len(log) /\ b # NoRef /\ ~(y < b)
    BY <1>11, <1>13
  <2> QED BY <1>1, <1>3, <2>1, <2>2
<1>15. v.got \in Seq(Nat) /\ Ascending(v.got) /\ Range(v.got) = Range(N) \cup Range(w.got)
  BY <1>1, <1>6, <1>9, <1>14, AscendingConcat, Zenon
<1>16. ASSUME v.status = "on" PROVE WalkOn(v)
  <2> DEFINE e == Head(p.lines)
  <2>1. e \in D /\ Range(p.lines) = {x \in D : e <= x}
    BY <1>6, <1>7, <1>16
  <2> HIDE DEF e
  <2>2. e \in Nat \ {0} /\ e <= A /\ (b0 # NoRef => e < b0) /\ (b # NoRef => e < b)
    BY <1>8, <1>12, <2>1
  <2>3. v.q = [w.q EXCEPT !.before = e]
    BY <1>6, <1>16 DEF e
  <2>4. /\ v.q \in Query /\ v.q.before = e /\ v.q.after = NoRef
        /\ v.q.start = w.q.start /\ v.q.end = w.q.end
    BY <1>1, <1>2, <2>2, <2>3, SMTT(30) DEF Query
  <2>5. v \in Walk
    <3>1. w.owner \in Owner /\ w.chan \in Chan /\ A \in Int
      BY <1>1, <1>3 DEF Walk
    <3>2. /\ v.status \in Status /\ v.owner \in Owner /\ v.chan \in Chan /\ v.q \in Query
          /\ v.q0 \in Query /\ v.got \in Seq(Nat) /\ v.asof \in Int
      BY <1>1, <1>6, <1>15, <2>4, <3>1
    <3> QED BY <1>6, <3>2, Zenon DEF Walk
  <2>6. \A i : i \in Range(v.got) <=> i \in Sent(w) /\ e <= i /\ i <= A /\ (b0 # NoRef => i < b0)
    <3> SUFFICES ASSUME NEW i
                 PROVE i \in Range(v.got) <=> i \in Sent(w) /\ e <= i /\ i <= A /\ (b0 # NoRef => i < b0)
      OBVIOUS
    <3>1. i \in Range(N) <=> i \in Sent(w) /\ (b # NoRef => i < b) /\ e <= i
      BY <1>8, <1>9, <1>11, <2>1, Zenon
    <3>2. i \in Sent(w) /\ (b # NoRef => i < b) => i <= A /\ (b0 # NoRef => i < b0)
      BY <1>8, <1>11, <1>12
    <3>3. i \in Sent(w) => i \in Nat
      BY <1>11, SMTT(30)
    <3>4. i \in Sent(w) /\ ~(b # NoRef => i < b) => e <= i
      BY <1>3, <2>2, <3>3
    <3> QED BY <1>13, <1>15, <3>1, <3>2, <3>4
  <2>7. Range(v.got) = {i \in Sent(v) : /\ v.q.before <= i /\ i <= v.asof
                                        /\ v.q0.before # NoRef => i < v.q0.before}
    <3>1. v.q.before = e /\ v.asof = A /\ v.q0.before = b0
      BY <1>6, <2>4 DEF b0
    <3>2. \A i : i \in Range(v.got) <=> i \in {j \in Sent(v) : /\ v.q.before <= j /\ j <= v.asof
                                                               /\ v.q0.before # NoRef => j < v.q0.before}
      BY <1>10, <2>6, <3>1
    <3> QED BY <3>2, Zenon
  <2>8. /\ v.q0.before \in 0..Len(log) /\ v.q.before \in 1..v.asof /\ v.asof <= Len(log)
        /\ v.q0.before # NoRef => v.q.before < v.q0.before
    BY <1>3, <1>6, <2>2, <2>4 DEF b0
  <2> QED BY <1>1, <1>6, <1>15, <2>4, <2>5, <2>7, <2>8, Zenon DEF WalkOn
<1>17. ASSUME v.status = "done" PROVE Complete(v)
  <2>1. Range(p.lines) = D
    BY <1>6, <1>7, <1>17
  <2> DEFINE S == {i \in Sent(v) : /\ i <= v.asof
                                   /\ IF v.q0.before = Absent THEN v.q0.after < i
                                      ELSE v.q0.before = NoRef \/ i < v.q0.before}
  <2>2. \A i : i \in Range(v.got) <=> i \in Sent(w) /\ i <= A /\ (b0 # NoRef => i < b0)
    <3> SUFFICES ASSUME NEW i
                 PROVE i \in Range(v.got) <=> i \in Sent(w) /\ i <= A /\ (b0 # NoRef => i < b0)
      OBVIOUS
    <3>1. i \in Range(N) <=> i \in Sent(w) /\ (b # NoRef => i < b)
      BY <1>8, <1>9, <1>11, <2>1, ZenonT(30)
    <3>2. i \in Sent(w) /\ (b # NoRef => i < b) => i <= A /\ (b0 # NoRef => i < b0)
      BY <1>8, <1>11, <1>12
    <3> QED BY <1>13, <1>15, <3>1, <3>2, SMTT(20)
  <2>3. \A i : i \in Range(v.got) <=> i \in S
    <3>1. v.asof = A /\ v.q0.before = b0
      BY <1>6 DEF b0
    <3> QED BY <1>4, <1>10, <2>2, <3>1
  <2>4. Range(v.got) = S
    BY <2>3, Zenon
  <2>5. v.q0 \in Query
    BY <1>1, <1>6
  <2> QED BY <1>15, <2>4, <2>5, DoneIs
<1> QED BY <1>16, <1>17, SMTT(20) DEF Taken

\* handle_mam_request(): a page takes a walk on, or completes it.
LEMMA TakesWalk ==
  ASSUME log \in Seq(LogLine), NEW w, WalkOn(w)
  PROVE  Taken(Takes(w))
<1>1. (w.q0.before = Absent /\ w.q.before = Absent) \/ w.q0.before \in 0..Len(log)
  BY ZenonT(30) DEF WalkOn
<1> QED BY <1>1, TakesForward, TakesBackward

\* A walk that begins has been sent nothing.
LEMMA WalkFresh ==
  ASSUME log \in Seq(LogLine), NEW o \in Owner, NEW c \in Chan, NEW q \in Queries
  PROVE  WalkOn([status |-> "on", owner |-> o, chan |-> c, q |-> q, q0 |-> q,
                 got |-> <<>>, asof |-> -1])
<1> DEFINE w == [status |-> "on", owner |-> o, chan |-> c, q |-> q, q0 |-> q,
                 got |-> <<>>, asof |-> -1]
<1>1. PICK x \in Windows, m \in PageMax,
           r \in ((0..Len(log)) \X {Absent}) \cup ({NoRef} \X (0..Len(log))) :
        q = [start |-> x[1], end |-> x[2], max |-> m, after |-> r[1], before |-> r[2]]
  <2> DEFINE R == ((0..Len(log)) \X {Absent}) \cup ({NoRef} \X (0..Len(log)))
             g(x, m, r) ==
               [start |-> x[1], end |-> x[2], max |-> m, after |-> r[1], before |-> r[2]]
  <2>1. q \in {g(x, m, r) : x \in Windows, m \in PageMax, r \in R}
    BY ONLY q \in Queries DEF Queries
  <2> HIDE DEF R, g
  <2>2. \E x \in Windows, m \in PageMax, r \in R : q = g(x, m, r)
    BY ONLY <2>1
  <2> QED BY ONLY <2>2, ZenonT(30) DEF R, g
<1>2. x[1] \in Nat /\ x[2] \in Nat /\ m \in Int /\ Len(log) \in Nat
  BY ArchiveAssumptions
<1>3. \/ r[1] \in 0..Len(log) /\ r[2] = Absent
      \/ r[1] = NoRef /\ r[2] \in 0..Len(log)
  OBVIOUS
<1>4. r[1] \in 0..Len(log) /\ r[2] \in Int
  BY <1>2, <1>3 DEF Absent, NoRef
<1>5. q \in Query /\ q.after = r[1] /\ q.before = r[2]
  BY <1>1, <1>2, <1>4 DEF Query
<1>6. /\ w.status = "on" /\ w.owner = o /\ w.chan = c /\ w.q = q /\ w.q0 = q
      /\ w.got = <<>> /\ w.asof = -1
  OBVIOUS
<1>7. w \in Walk
  <2>1. <<>> \in Seq(Nat) /\ -1 \in Int
    OBVIOUS
  <2> QED BY <1>5, <2>1 DEF Walk, Status
<1> HIDE DEF w
<1>8. Ascending(w.got) /\ Range(w.got) = {}
  BY <1>6 DEF Ascending, Range
<1>9. {i \in Sent(w) : q.after < i /\ i <= q.after} = {}
  <2>1. \A i \in Sent(w) : i \in Nat
    BY DEF Sent, Window
  <2> QED BY <1>2, <1>4, <1>5, <2>1, SMTT(20)
<1> QED BY <1>2, <1>3, <1>4, <1>5, <1>6, <1>7, <1>8, <1>9, SMTT(30) DEF WalkOn, w

-----------------------------------------------------------------------------
(* Steps of the archive.                                                   *)

\* What stays as it is when a line is stored.
LEMMA GrowsIs ==
  ASSUME log \in Seq(LogLine), Grows
  PROVE  /\ log' \in Seq(LogLine) /\ Len(log) \in Nat /\ Len(log') \in Nat /\ Len(log) <= Len(log')
         /\ \A i \in 1..Len(log) : log'[i] = log[i]
<1>1. CASE log' = log
  BY <1>1
<1>2. ASSUME NEW l \in LogLine, log' = Append(log, l)
      PROVE  /\ log' \in Seq(LogLine) /\ Len(log) \in Nat /\ Len(log') \in Nat /\ Len(log) <= Len(log')
             /\ \A i \in 1..Len(log) : log'[i] = log[i]
  BY <1>2, SMTT(20)
<1> QED BY <1>1, <1>2 DEF Grows

\* A walk that goes on is not disturbed by a line that is stored.
LEMMA WalkKept ==
  ASSUME log \in Seq(LogLine), Grows, WalkOn(walk), walk' = walk
  PROVE  WalkOn(walk)'
<1>1. /\ log' \in Seq(LogLine) /\ Len(log) \in Nat /\ Len(log') \in Nat /\ Len(log) <= Len(log')
      /\ \A i \in 1..Len(log) : log'[i] = log[i]
  BY GrowsIs, Zenon
<1>2. \A i \in 1..Len(log) : i \in Sent(walk)' <=> i \in Sent(walk)
  <2> SUFFICES ASSUME NEW i \in 1..Len(log) PROVE i \in Sent(walk)' <=> i \in Sent(walk)
    OBVIOUS
  <2>1. i \in 1..Len(log') /\ log'[i] = log[i]
    BY <1>1
  <2> QED BY <2>1, Zenon DEF Sent, Window, Within
<1>3. Sent(walk) \subseteq 1..Len(log) /\ Sent(walk)' \subseteq 1..Len(log')
  BY Zenon DEF Sent, Window
<1>4. walk \in Walk /\ walk.q.after \in Nat /\ walk.asof \in Int
  BY ZenonT(30) DEF WalkOn, Walk, Query
<1>5. CASE /\ walk.q0.before = Absent /\ walk.q.before = Absent
           /\ walk.q0.after <= walk.q.after /\ walk.q.after <= Len(log)
           /\ Range(walk.got) = {i \in Sent(walk) : walk.q0.after < i /\ i <= walk.q.after}
  <2>1. \A i : (i \in Sent(walk)' /\ i <= walk.q.after) <=> (i \in Sent(walk) /\ i <= walk.q.after)
    <3> DEFINE A == Sent(walk)
               B == Sent(walk)'
               n == walk.q.after
               N == Len(log)
               N1 == Len(log')
    <3>1. /\ A \subseteq 1..N /\ B \subseteq 1..N1 /\ \A i \in 1..N : i \in B <=> i \in A
          /\ N \in Nat /\ N1 \in Nat /\ n \in Nat /\ n <= N
      BY <1>1, <1>2, <1>3, <1>4, <1>5, Zenon
    <3> HIDE DEF A, B, n, N, N1
    <3>2. \A i : (i \in B /\ i <= n) <=> (i \in A /\ i <= n)
      <4> SUFFICES ASSUME NEW i PROVE (i \in B /\ i <= n) <=> (i \in A /\ i <= n)
        BY Zenon
      <4>1. ASSUME i \in B, i <= n PROVE i \in A
        <5>1. i \in 1..N
          BY ONLY <3>1, <4>1
        <5> QED BY <3>1, <4>1, <5>1, Zenon
      <4>2. ASSUME i \in A PROVE i \in B
        BY <3>1, <4>2, ZenonT(30)
      <4> QED BY <4>1, <4>2, Zenon
    <3> QED BY <3>2, Zenon DEF A, B, n
  <2>2. Range(walk.got) = {i \in Sent(walk)' : walk.q0.after < i /\ i <= walk.q.after}
    BY <1>5, <2>1
  <2>3. walk.q.after <= Len(log')
    BY <1>1, <1>4, <1>5, SMTT(20)
  <2> QED BY <1>5, <2>2, <2>3 DEF WalkOn
<1>6. CASE /\ walk.q0.before \in 0..Len(log) /\ walk.q.after = NoRef
           /\ walk.asof = -1 /\ walk.got = <<>> /\ walk.q.before = walk.q0.before
  <2>1. walk.q0.before \in 0..Len(log')
    BY <1>1, <1>6, SMTT(20)
  <2> QED BY <1>6, <2>1 DEF WalkOn
<1>7. CASE /\ walk.q0.before \in 0..Len(log) /\ walk.q.after = NoRef
           /\ walk.q.before \in 1..walk.asof /\ walk.asof <= Len(log)
           /\ walk.q0.before # NoRef => walk.q.before < walk.q0.before
           /\ Range(walk.got) = {i \in Sent(walk) : /\ walk.q.before <= i /\ i <= walk.asof
                                                    /\ walk.q0.before # NoRef => i < walk.q0.before}
  <2>1. \A i : (i \in Sent(walk)' /\ i <= walk.asof) <=> (i \in Sent(walk) /\ i <= walk.asof)
    <3> DEFINE A == Sent(walk)
               B == Sent(walk)'
               n == walk.asof
               N == Len(log)
               N1 == Len(log')
    <3>1. /\ A \subseteq 1..N /\ B \subseteq 1..N1 /\ \A i \in 1..N : i \in B <=> i \in A
          /\ N \in Nat /\ N1 \in Nat /\ n \in Int /\ n <= N
      BY <1>1, <1>2, <1>3, <1>4, <1>7, Zenon
    <3> HIDE DEF A, B, n, N, N1
    <3>2. \A i : (i \in B /\ i <= n) <=> (i \in A /\ i <= n)
      <4> SUFFICES ASSUME NEW i PROVE (i \in B /\ i <= n) <=> (i \in A /\ i <= n)
        BY Zenon
      <4>1. ASSUME i \in B, i <= n PROVE i \in A
        <5>1. i \in 1..N
          BY ONLY <3>1, <4>1
        <5> QED BY <3>1, <4>1, <5>1, Zenon
      <4>2. ASSUME i \in A PROVE i \in B
        BY <3>1, <4>2, Zenon
      <4> QED BY <4>1, <4>2, Zenon
    <3> QED BY <3>2, Zenon DEF A, B, n
  <2>2. Range(walk.got) = {i \in Sent(walk)' : /\ walk.q.before <= i /\ i <= walk.asof
                                               /\ walk.q0.before # NoRef => i < walk.q0.before}
    BY <1>7, <2>1, ZenonT(30)
  <2>3. walk.asof <= Len(log') /\ walk.q0.before \in 0..Len(log')
    BY <1>1, <1>4, <1>7
  <2> QED BY <1>7, <2>2, <2>3, Zenon DEF WalkOn
<1> QED BY <1>5, <1>6, <1>7, Zenon DEF WalkOn

\* The state of a walk is about the log.
LEMMA WalkTaken ==
  ASSUME NEW v, Taken(v), walk' = v, log' = log
  PROVE  Taken(walk)'
<1>1. Ids' = Ids
  BY DEF Ids
<1>2. Sent(walk)' = Sent(v)
  BY Zenon DEF Sent, Window, Within
<1>3. WalkOn(v) => WalkOn(walk)'
  BY <1>2 DEF WalkOn
<1>4. Complete(v) => Complete(walk)'
  <2> DEFINE S == {i \in 1..Len(log) : /\ i <= v.asof /\ log[i].nick
                     /\ Within(i, v.owner, v.chan, v.q0.start, v.q0.end)
                     /\ IF v.q0.before = Absent THEN i > v.q0.after
                        ELSE v.q0.before = NoRef \/ i < v.q0.before}
             T == {i \in 1..Len(log') : /\ i <= walk'.asof /\ log'[i].nick
                     /\ Within(i, walk.owner, walk.chan, walk.q0.start, walk.q0.end)'
                     /\ IF walk'.q0.before = Absent THEN i > walk'.q0.after
                        ELSE walk'.q0.before = NoRef \/ i < walk'.q0.before}
  <2>1. S = T
    BY DEF Within
  <2>2. Complete(v) <=> v.got = Filter(Ids, S)
    BY Zenon DEF Complete
  <2>3. Complete(walk)' <=> walk'.got = Filter(Ids', T)
    BY Zenon DEF Complete
  <2> HIDE DEF S, T
  <2> QED BY <1>1, <2>1, <2>2, <2>3, ZenonT(30)
<1> QED BY <1>3, <1>4 DEF Taken

\* The other steps leave a walk alone, and forget it when it is over.
LEMMA WalkStaysInv ==
  ASSUME ArchiveInv, Grows, WalkStays
  PROVE  Taken(walk)'
<1>1. CASE walk.status = "on"
  <2>1. walk' = walk
    BY <1>1 DEF WalkStays
  <2>2. WalkOn(walk)'
    BY <1>1, <2>1, WalkKept DEF ArchiveInv
  <2>3. walk'.status # "done"
    BY <1>1, <2>1
  <2> QED BY <2>2, <2>3 DEF Taken
<1>2. CASE walk.status # "on"
  <2>1. walk' = [status |-> "none"]
    BY <1>2 DEF WalkStays
  <2> QED BY <2>1 DEF Taken
<1> QED BY <1>1, <1>2

\* What is said of a history is about the log.
LEMMA TailKept ==
  ASSUME NEW k, NEW t, TailOf(t), told'[k] = t, log' = log
  PROVE  TailOf(told[k])'
<1> DEFINE S == {i \in 1..Len(log) : i <= t.asof /\ Within(i, t.owner, t.chan, t.limit.since, NoDate)}
           u == told[k]
           T == {i \in 1..Len(log) : i <= u.asof /\ Within(i, u.owner, u.chan, u.limit.since, NoDate)}
           Part(all, r) == r.lines = SubSeq(all, Max({1, Len(all) - Min({IF r.max < 0 THEN DefaultMax ELSE r.max}
                             \cup {n \in {r.limit.stanzas} : n >= 0}) + 1}), Len(all))
<1>1. S = T'
  BY DEF Within
<1>2. Ids' = Ids
  BY DEF Ids
<1>3. Part(Filter(Ids, S), t)
  BY Zenon DEF TailOf
<1>4. Part(Filter(Ids', T'), told'[k]) => TailOf(told[k])'
  BY Zenon DEF TailOf
<1> HIDE DEF S, T, Part
<1> QED BY <1>1, <1>2, <1>3, <1>4, Zenon

\* send_room_history(): what it sends is the end of the archive.
LEMMA HistorySent ==
  ASSUME ArchiveInv, OptionsInv, NEW o \in Owner, NEW c, NEW h, h.stanzas \in Int,
         log' = log, told' = <<History(o, c, h)>>
  PROVE  HistoryIsTail'
<1> DEFINE t == History(o, c, h)
<1>1. GetGlobal(o).max \in Int
  BY DEF OptionsInv, OptionsStick, OptionTypes
<1>2. TailOf(t)
  BY <1>1, HistoryIs DEF ArchiveInv
<1> HIDE DEF t
<1>3. ASSUME NEW k \in 1..Len(told') PROVE TailOf(told[k])'
  <2>1. told'[k] = t
    BY DEF t
  <2> QED BY <1>2, <2>1, TailKept
<1> QED BY <1>3, Zenon DEF HistoryIsTail, TailOf

\* Nothing has been stored at first.
LEMMA ArchiveInit ==
  ASSUME Init
  PROVE  ArchiveInv
<1>1. log = <<>> /\ limit = [o \in Owner |-> NoLimit] /\ told = <<>> /\ walk = [status |-> "none"]
  BY DEF Init
<1>2. log \in Seq(LogLine) /\ limit \in [Owner -> [stanzas: Int, since: Nat]]
  BY <1>1 DEF NoLimit, NoDate
<1>3. HistoryIsTail
  <2>1. 1..Len(told) = {}
    BY <1>1
  <2> QED BY <2>1, Zenon DEF HistoryIsTail
<1> QED BY <1>1, <1>2, <1>3 DEF ArchiveInv

\* Each step of the archive keeps what its pages and histories rest on.
LEMMA ArchiveStep ==
  ASSUME ArchiveInv, OptionsInv, [Next]_vars
  PROVE  ArchiveInv'
<1> DEFINE L == [Owner -> [stanzas: Int, since: Nat]]
<1>0. /\ log \in Seq(LogLine) /\ limit \in L /\ NoLimit \in [stanzas: Int, since: Nat]
      /\ \A h \in Limits : h \in [stanzas: Int, since: Nat]
  BY ArchiveAssumptions DEF ArchiveInv, NoLimit, NoDate
<1>1. ASSUME Grows, limit' \in L, HistoryIsTail', Taken(walk)' PROVE ArchiveInv'
  BY <1>0, <1>1, GrowsIs DEF ArchiveInv, Taken
<1>2. ASSUME told' = <<>> PROVE HistoryIsTail'
  <2>1. 1..Len(told') = {}
    BY <1>2
  <2> QED BY <2>1, Zenon DEF HistoryIsTail
<1>3. ASSUME Grows, limit' \in L, Quiet PROVE ArchiveInv'
  BY <1>1, <1>2, <1>3, WalkStaysInv DEF Quiet
<1>4. ASSUME log' = log, limit' \in L, told' = <<>>, NEW w, WalkOn(w), walk' = Takes(w)
      PROVE  ArchiveInv'
  <2>1. Taken(Takes(w))
    BY <1>0, <1>4, TakesWalk
  <2>2. Taken(walk)'
    BY <1>4, <2>1, WalkTaken
  <2> QED BY <1>1, <1>2, <1>4, <2>2 DEF Grows
<1>5. ASSUME log' = log, limit' \in L, WalkStays, NEW o \in Owner, NEW c,
             NEW h \in [stanzas: Int, since: Nat], told' = <<History(o, c, h)>>
      PROVE  ArchiveInv'
  <2>1. HistoryIsTail'
    BY <1>5, HistorySent
  <2>2. Taken(walk)'
    BY <1>5, WalkStaysInv DEF Grows
  <2> QED BY <1>1, <1>5, <2>1, <2>2 DEF Grows
<1>6. CASE ONext /\ UNCHANGED <<log, joined, pending, limit>> /\ Quiet
  BY <1>0, <1>3, <1>6 DEF Grows
<1>7. ASSUME NEW o \in Owner, NEW c \in Chan, NEW h \in Limits, Join(o, c, h) PROVE ArchiveInv'
  <2>1. log' = log /\ limit' \in L
    BY <1>0, <1>7 DEF Join
  <2>2. CASE c \in joined[o]
    <3>1. told' = <<History(o, c, h)>> /\ WalkStays
      BY <1>7, <2>2 DEF Join
    <3> QED BY <1>0, <1>5, <2>1, <3>1, ZenonT(30)
  <2>3. CASE c \notin joined[o]
    <3>1. Quiet
      BY <1>7, <2>3 DEF Join
    <3> QED BY <1>3, <2>1, <3>1, ZenonT(30) DEF Grows
  <2> QED BY <2>2, <2>3, SMTT(20)
<1>8. ASSUME NEW o \in Owner, NEW c \in Chan, CompletelyJoined(o, c) PROVE ArchiveInv'
  <2>1. log' = log /\ limit' \in L /\ told' = <<History(o, c, limit[o])>> /\ WalkStays
    BY <1>0, <1>8 DEF CompletelyJoined
  <2>2. limit[o] \in [stanzas: Int, since: Nat]
    BY <1>0
  <2> QED BY <1>5, <2>1, <2>2
<1>9. ASSUME NEW o \in Owner, NEW c \in Chan, NEW d \in Dates, NEW nick \in BOOLEAN,
             OnChannelMessage(o, c, d, nick)
      PROVE  ArchiveInv'
  <2>1. Line(o, c, d, nick) \in LogLine
    BY Zenon DEF Line, LogLine
  <2>2. limit' \in L /\ Quiet /\ (log' = log \/ log' = Append(log, Line(o, c, d, nick)))
    BY <1>0, <1>9 DEF OnChannelMessage
  <2> QED BY <1>3, <2>1, <2>2 DEF Grows
<1>10. ASSUME NEW o \in Owner, NEW c \in Chan, NEW d \in Dates, SendChannelMessage(o, c, d)
       PROVE  ArchiveInv'
  <2>1. Line(o, c, d, TRUE) \in LogLine
    BY DEF Line, LogLine
  <2>2. limit' \in L /\ Quiet /\ (log' = log \/ log' = Append(log, Line(o, c, d, TRUE)))
    BY <1>0, <1>10, Zenon DEF SendChannelMessage
  <2> QED BY <1>3, <2>1, <2>2, Zenon DEF Grows
<1>11. ASSUME NEW o \in Owner, Disconnected(o) PROVE ArchiveInv'
  <2>1. log' = log /\ limit' \in L /\ Quiet
    BY <1>0, <1>11 DEF Disconnected
  <2> QED BY <1>3, <2>1 DEF Grows
<1>12. CASE Restart
  <2>1. log' = log /\ limit' \in L /\ Quiet
    BY <1>0, <1>12 DEF Restart
  <2> QED BY <1>3, <2>1 DEF Grows
<1>13. ASSUME NEW o \in Owner, NEW c \in Chan, NEW q \in Queries, WalkBegins(o, c, q)
       PROVE  ArchiveInv'
  <2> DEFINE w == [status |-> "on", owner |-> o, chan |-> c, q |-> q, q0 |-> q,
                   got |-> <<>>, asof |-> -1]
  <2>1. log' = log /\ limit' \in L /\ told' = <<>> /\ walk' = Takes(w)
    BY <1>0, <1>13, Zenon DEF WalkBegins
  <2>2. WalkOn(w)
    BY <1>0, WalkFresh
  <2> HIDE DEF w
  <2> QED BY <1>4, <2>1, <2>2, Zenon
<1>14. CASE WalkGoesOn
  <2>1. log' = log /\ limit' \in L /\ told' = <<>> /\ walk' = Takes(walk) /\ walk.status = "on"
    BY <1>0, <1>14 DEF WalkGoesOn
  <2>2. WalkOn(walk)
    BY <2>1 DEF ArchiveInv
  <2> QED BY <1>4, <2>1, <2>2
<1>15. CASE UNCHANGED vars
  <2>1. log' = log /\ limit' = limit /\ told' = told /\ walk' = walk
    BY <1>15, Zenon DEF vars, avars
  <2>2. HistoryIsTail'
    BY <2>1, ZenonT(30) DEF ArchiveInv, HistoryIsTail, Within, Ids
  <2>3. Taken(walk)
    BY DEF ArchiveInv, Taken
  <2>4. Taken(walk)'
    BY <2>1, <2>3, WalkTaken
  <2> QED BY <1>0, <1>1, <2>1, <2>2, <2>4 DEF Grows
<1> QED BY <1>6, <1>7, <1>8, <1>9, <1>10, <1>11, <1>12, <1>13, <1>14, <1>15, Zenon DEF Next

\* The history that a join is sent is the end of the archive of that channel,
\* whatever the limits are (send_room_history(), get_muc_logs()).
THEOREM HistoryAlwaysTail == Spec => []HistoryIsTail
<1>1. Init => OptionsInv /\ ArchiveInv
  BY OptionsInit, ArchiveInit
<1>2. OptionsInv /\ ArchiveInv /\ [Next]_vars => (OptionsInv /\ ArchiveInv)'
  BY OptionsStep, ArchiveStep
<1>3. ArchiveInv => HistoryIsTail
  BY Zenon DEF ArchiveInv
<1> QED BY <1>1, <1>2, <1>3, PTL DEF Spec

\* A client that pages through an archive until it is told that the result is
\* complete has every line that it asked for, once and in order, whatever is
\* stored in the meantime (handle_mam_request(), get_muc_logs()).
THEOREM WalkAlwaysComplete == Spec => []WalkComplete
<1>1. Init => OptionsInv /\ ArchiveInv
  BY OptionsInit, ArchiveInit
<1>2. OptionsInv /\ ArchiveInv /\ [Next]_vars => (OptionsInv /\ ArchiveInv)'
  BY OptionsStep, ArchiveStep
<1>3. ArchiveInv => WalkComplete
  BY Zenon DEF ArchiveInv, WalkComplete, Complete
<1> QED BY <1>1, <1>2, <1>3, PTL DEF Spec
=============================================================================
