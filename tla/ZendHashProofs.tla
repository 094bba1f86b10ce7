--------------------------- MODULE ZendHashProofs ---------------------------
(***************************************************************************)
(* Proofs about ZendHash, for any keys and hash values, any minimal size    *)
(* and any numbers of tables, variables, writes and loops: tables stay      *)
(* sound and stand for the ordered arrays that OrderedArrays specifies.     *)
(*                                                                          *)
(* First come facts about numbers in ascending order, then for every        *)
(* operation on a table what it keeps of the array the table stands for,    *)
(* and what it makes of it.  Last comes a lemma for each action.            *)
(*                                                                          *)
(* A count of iterators that has reached Saturated no longer counts, and    *)
(* zend_hash_iterator_pos_ex tests the wrong table for that; so the         *)
(* theorems assume that there are fewer iterators than that.                *)
(***************************************************************************)
EXTENDS ZendHash, FiniteSetTheorems, SequenceTheorems, WellFoundedInduction, TLAPS

\* A non-empty set of natural numbers has a least element.
LEMMA NatMin ==
  ASSUME NEW T, \A k \in T : k \in Nat, T # {}
  PROVE  \E x \in T : \A y \in T : x <= y
<1> DEFINE R == OpToRel(<, Nat)
<1>1. IsWellFoundedOn(R, Nat) BY NatLessThanWellFounded
<1>2. \A x, y \in T : y < x => <<y, x>> \in R BY DEF OpToRel
<1>5. T \subseteq Nat OBVIOUS
<1> HIDE DEF R
<1>3. PICK x \in T : \A y \in T : ~(<<y, x>> \in R) BY <1>1, <1>5, WFMin
<1>4. ASSUME NEW y \in T PROVE x <= y
  <2>1. ~(y < x) BY <1>2, <1>3
  <2> QED BY <2>1
<1> QED BY <1>4

\* Least finds it.
LEMMA LeastIs ==
  ASSUME NEW S, \A k \in S : k \in Nat, S # {}
  PROVE  Least(S) \in S /\ \A y \in S : Least(S) <= y
BY NatMin DEF Least

-----------------------------------------------------------------------------
(* Sets of numbers in order                                                *)

Below(S, i) == {j \in S : j < i}

\* How many elements of a set are below a number.
LEMMA BelowFinite ==
  ASSUME NEW S, \A k \in S : k \in Nat, IsFiniteSet(S), NEW i \in Nat
  PROVE  /\ IsFiniteSet(Below(S, i)) /\ Cardinality(Below(S, i)) \in Nat
         /\ Cardinality(S) \in Nat /\ Cardinality(Below(S, i)) <= Cardinality(S)
         /\ i \in S => Cardinality(Below(S, i)) < Cardinality(S)
<1>1. Below(S, i) \in SUBSET S /\ i \notin Below(S, i) BY DEF Below
<1>2. /\ IsFiniteSet(Below(S, i)) /\ Cardinality(Below(S, i)) <= Cardinality(S)
      /\ Cardinality(S) = Cardinality(Below(S, i)) => S = Below(S, i)
  BY <1>1, FS_Subset
<1>3. Cardinality(Below(S, i)) \in Nat /\ Cardinality(S) \in Nat
  BY <1>2, FS_CardinalityType
<1> QED BY <1>1, <1>2, <1>3

\* A larger element has a larger rank.
LEMMA RankGrows ==
  ASSUME NEW S, \A k \in S : k \in Nat, IsFiniteSet(S), NEW i \in S, NEW j \in Nat, i < j
  PROVE  Cardinality(Below(S, i)) < Cardinality(Below(S, j))
<1>1. Below(S, i) \cup {i} \subseteq Below(S, j) /\ i \notin Below(S, i) BY DEF Below
<1>2. /\ IsFiniteSet(Below(S, i)) /\ Cardinality(Below(S, i)) \in Nat
      /\ IsFiniteSet(Below(S, j)) /\ Cardinality(Below(S, j)) \in Nat
  BY BelowFinite
<1>3. Cardinality(Below(S, i) \cup {i}) = Cardinality(Below(S, i)) + 1
  BY <1>1, <1>2, FS_AddElement
<1>4. Cardinality(Below(S, i) \cup {i}) <= Cardinality(Below(S, j)) BY <1>1, <1>2, FS_Subset
<1> QED BY <1>2, <1>3, <1>4

\* Elements with the same rank are the same.
LEMMA RankUnique ==
  ASSUME NEW S, \A k \in S : k \in Nat, IsFiniteSet(S), NEW i \in S, NEW j \in S,
         Cardinality(Below(S, i)) = Cardinality(Below(S, j))
  PROVE  i = j
<1>1. i < j => Cardinality(Below(S, i)) < Cardinality(Below(S, j)) BY RankGrows
<1>2. j < i => Cardinality(Below(S, j)) < Cardinality(Below(S, i)) BY RankGrows
<1>3. Cardinality(Below(S, i)) \in Nat BY BelowFinite
<1> QED BY <1>1, <1>2, <1>3

\* Every rank is taken.
LEMMA RankExists ==
  ASSUME NEW S, \A k \in S : k \in Nat, IsFiniteSet(S), NEW n \in 1 .. Cardinality(S)
  PROVE  \E i \in S : Cardinality(Below(S, i)) = n - 1
<1> DEFINE T == {m \in 1 .. Cardinality(S) :
                    ~ \E i \in S : Cardinality(Below(S, i)) = m - 1}
<1>0. Cardinality(S) \in Nat BY FS_CardinalityType
<1>1. SUFFICES ASSUME T # {} PROVE FALSE OBVIOUS
<1>2. PICK m \in T : \A k \in T : m <= k
  <2>1. \A k \in T : k \in Nat BY <1>0
  <2> HIDE DEF T
  <2> QED BY <1>1, <2>1, NatMin
<1>3. S # {} BY <1>0, <1>2, FS_EmptySet
<1>4. CASE m = 1
  <2>1. PICK i \in S : \A j \in S : i <= j BY <1>3, NatMin
  <2>2. Below(S, i) = {} BY <1>0, <2>1 DEF Below
  <2> QED BY <1>2, <1>4, <2>2, FS_EmptySet
<1>5. CASE m # 1
  <2>1. m - 1 \in 1 .. Cardinality(S) /\ m - 1 \notin T BY <1>0, <1>2, <1>5
  <2>2. PICK i \in S : Cardinality(Below(S, i)) = m - 1 - 1 BY <2>1
  <2> DEFINE U == {j \in S : i < j}
  <2>3. IsFiniteSet(Below(S, i)) /\ i \notin Below(S, i) BY BelowFinite DEF Below
  <2>4. Cardinality(Below(S, i) \cup {i}) = m - 1
    <3>1. m - 1 - 1 + 1 = m - 1 BY <1>0, <2>1
    <3> QED BY <2>2, <2>3, <3>1, FS_AddElement
  <2>5. U # {}
    <3>1. U = {} => S = Below(S, i) \cup {i} BY DEF Below
    <3> QED BY <1>0, <1>2, <2>1, <2>4, <3>1
  <2>6. PICK j \in U : \A k \in U : j <= k
    <3>1. \A k \in U : k \in Nat OBVIOUS
    <3> HIDE DEF U
    <3> QED BY <2>5, <3>1, NatMin
  <2>7. Below(S, j) = Below(S, i) \cup {i} BY <1>0, <2>6 DEF Below
  <2> QED BY <1>2, <2>4, <2>6, <2>7
<1> QED BY <1>4, <1>5

\* InOrder enumerates a set in ascending order.
LEMMA InOrderIs ==
  ASSUME NEW S, \A k \in S : k \in Nat, IsFiniteSet(S)
  PROVE  /\ Cardinality(S) \in Nat
         /\ InOrder(S) \in Seq(S) /\ InOrder(S) \in Seq(Nat)
         /\ Len(InOrder(S)) = Cardinality(S)
         /\ DOMAIN InOrder(S) = 1 .. Cardinality(S)
         /\ InOrder(S) \in [1 .. Cardinality(S) -> S]
         /\ \A n \in 1 .. Cardinality(S) :
               InOrder(S)[n] \in S /\ Cardinality(Below(S, InOrder(S)[n])) = n - 1
         /\ \A i \in S : /\ Cardinality(Below(S, i)) + 1 \in 1 .. Cardinality(S)
                         /\ InOrder(S)[Cardinality(Below(S, i)) + 1] = i
         /\ \A m, n \in 1 .. Cardinality(S) : m < n => InOrder(S)[m] < InOrder(S)[n]
<1> DEFINE s == InOrder(S)
           N == Cardinality(S)
<1>1. N \in Nat BY FS_CardinalityType
<1>2. \A n \in 1 .. N : s[n] \in S /\ Cardinality(Below(S, s[n])) = n - 1
  <2> SUFFICES ASSUME NEW n \in 1 .. N
               PROVE  s[n] \in S /\ Cardinality(Below(S, s[n])) = n - 1
    OBVIOUS
  <2>1. s[n] = CHOOSE i \in S : Cardinality(Below(S, i)) = n - 1 BY DEF InOrder, Below
  <2>2. \E i \in S : Cardinality(Below(S, i)) = n - 1 BY RankExists
  <2> HIDE DEF s
  <2> QED BY <2>1, <2>2
<1>3. DOMAIN s = 1 .. N /\ s \in [1 .. N -> S] BY <1>2 DEF InOrder
<1> HIDE DEF s
<1>4. s \in Seq(S) /\ s \in Seq(Nat) /\ Len(s) = N
  <2>1. s \in Seq(S) BY <1>1, <1>3, IsASeq
  <2>2. s \in [1 .. N -> Nat] BY <1>3
  <2>3. s \in Seq(Nat) BY <1>1, <2>2, IsASeq
  <2>4. Len(s) = N BY <1>1, <1>3, <2>1, LenProperties
  <2> QED BY <2>1, <2>3, <2>4
<1>5. ASSUME NEW i \in S
      PROVE  /\ Cardinality(Below(S, i)) + 1 \in 1 .. N
             /\ s[Cardinality(Below(S, i)) + 1] = i
  <2> DEFINE r == Cardinality(Below(S, i))
  <2>1. r \in Nat /\ r < N BY BelowFinite
  <2>2. r + 1 \in 1 .. N BY <1>1, <2>1
  <2>3. s[r + 1] \in S /\ Cardinality(Below(S, s[r + 1])) = r BY <1>2, <2>1, <2>2
  <2> HIDE DEF r
  <2>4. s[r + 1] = i BY <2>3, RankUnique DEF r
  <2> QED BY <2>2, <2>4 DEF r
<1>6. ASSUME NEW m \in 1 .. N, NEW n \in 1 .. N, m < n PROVE s[m] < s[n]
  <2>1. s[n] < s[m] => Cardinality(Below(S, s[n])) < Cardinality(Below(S, s[m]))
    BY <1>2, RankGrows
  <2>2. /\ Cardinality(Below(S, s[n])) = n - 1 /\ Cardinality(Below(S, s[m])) = m - 1
        /\ s[m] \in Nat /\ s[n] \in Nat
    BY <1>2
  <2>3. s[m] # s[n] BY <1>1, <1>6, <2>2
  <2> QED BY <1>6, <2>1, <2>2, <2>3
<1> QED BY <1>1, <1>2, <1>3, <1>4, <1>5, <1>6 DEF s

\* The greatest of a finite set of numbers.
LEMMA MaxIs ==
  ASSUME NEW S, \A k \in S : k \in Nat, IsFiniteSet(S), S # {}
  PROVE  \E x \in S : \A y \in S : y <= x
<1> DEFINE N == Cardinality(S)
           x == InOrder(S)[N]
<1>1. N \in Nat /\ N # 0 BY InOrderIs, FS_EmptySet
<1>2. N \in 1 .. N BY <1>1
<1>3. x \in S BY <1>2, InOrderIs
<1>4. ASSUME NEW y \in S PROVE y <= x
  <2>1. PICK n \in 1 .. N : InOrder(S)[n] = y BY InOrderIs
  <2>2. n < N => y < x BY <1>2, <2>1, InOrderIs
  <2> HIDE DEF x
  <2>3. n = N => y = x BY <2>1 DEF x
  <2> QED BY <1>1, <1>3, <2>1, <2>2, <2>3
<1> QED BY <1>3, <1>4

\* Sequences are equal that have the same elements.
LEMMA SameSeq ==
  ASSUME NEW N \in Nat, NEW R, NEW f \in [1 .. N -> R], NEW g \in [1 .. N -> R],
         \A n \in 1 .. N : f[n] = g[n]
  PROVE  f = g
OBVIOUS

\* No elements.
LEMMA InOrderEmpty == InOrder({}) = <<>> /\ Reverse(InOrder({})) = <<>>
<1>1. Cardinality({}) = 0 BY FS_EmptySet
<1>2. InOrder({}) = <<>> BY <1>1 DEF InOrder
<1> QED BY <1>2 DEF Reverse

\* An element beyond all others comes last.
LEMMA InOrderAppend ==
  ASSUME NEW S, \A k \in S : k \in Nat, IsFiniteSet(S),
         NEW i \in Nat, \A k \in S : k < i
  PROVE  /\ IsFiniteSet(S \cup {i}) /\ Cardinality(S \cup {i}) = Cardinality(S) + 1
         /\ \A n \in 1 .. Cardinality(S) : InOrder(S \cup {i})[n] = InOrder(S)[n]
         /\ InOrder(S \cup {i})[Cardinality(S) + 1] = i
<1> DEFINE T == S \cup {i}
           N == Cardinality(S)
<1>1. i \notin S OBVIOUS
<1>2. IsFiniteSet(T) /\ Cardinality(T) = N + 1 /\ N \in Nat
  BY <1>1, FS_AddElement, FS_CardinalityType
<1>3. \A k \in T : k \in Nat OBVIOUS
<1>4. Below(T, i) = S BY DEF Below
<1>5. \A x \in S : Below(T, x) = Below(S, x) BY DEF Below
<1> HIDE DEF T
<1>6. i \in T /\ S \subseteq T BY DEF T
<1>7. InOrder(T)[N + 1] = i BY <1>2, <1>3, <1>4, <1>6, InOrderIs
<1>8. ASSUME NEW n \in 1 .. N PROVE InOrder(T)[n] = InOrder(S)[n]
  <2> DEFINE x == InOrder(S)[n]
  <2>1. x \in S /\ Cardinality(Below(S, x)) = n - 1 BY InOrderIs
  <2> HIDE DEF x
  <2>2. Cardinality(Below(T, x)) = n - 1 /\ x \in T BY <1>5, <1>6, <2>1
  <2>3. InOrder(T)[Cardinality(Below(T, x)) + 1] = x BY <1>2, <1>3, <2>2, InOrderIs
  <2>4. n - 1 + 1 = n BY <1>2
  <2> QED BY <2>2, <2>3, <2>4 DEF x
<1> QED BY <1>2, <1>7, <1>8 DEF T

\* What is appended comes first in reverse.
LEMMA ReverseAppend ==
  ASSUME NEW S, \A k \in S : k \in Nat, IsFiniteSet(S),
         NEW i \in Nat, \A k \in S : k < i
  PROVE  Reverse(InOrder(S \cup {i})) = <<i>> \o Reverse(InOrder(S))
<1> DEFINE N == Cardinality(S)
           s == InOrder(S)
           t == InOrder(S \cup {i})
<1>1. /\ IsFiniteSet(S \cup {i}) /\ Cardinality(S \cup {i}) = N + 1 /\ N \in Nat
      /\ \A n \in 1 .. N : t[n] = s[n]
      /\ t[N + 1] = i
  BY InOrderAppend, InOrderIs
<1>2. s \in Seq(Nat) /\ Len(s) = N BY InOrderIs
<1>3. t \in Seq(Nat) /\ Len(t) = N + 1
  <2>1. \A k \in S \cup {i} : k \in Nat OBVIOUS
  <2> QED BY <1>1, <2>1, InOrderIs
<1> HIDE DEF s, t, N
<1>4. /\ Reverse(s) = [n \in 1 .. N |-> s[N - n + 1]]
      /\ Reverse(t) = [n \in 1 .. N + 1 |-> t[N + 1 - n + 1]]
  BY <1>2, <1>3 DEF Reverse
<1>5. Reverse(s) \in Seq(Nat) /\ Len(Reverse(s)) = N
  <2>1. Reverse(s) \in [1 .. N -> Nat] BY <1>1, <1>2, <1>4
  <2> QED BY <1>1, <2>1
<1>6. <<i>> \o Reverse(s) = [n \in 1 .. N + 1 |-> IF n = 1 THEN i ELSE Reverse(s)[n - 1]]
  BY <1>1, <1>5
<1>7. ASSUME NEW n \in 1 .. N + 1
      PROVE  t[N + 1 - n + 1] = IF n = 1 THEN i ELSE Reverse(s)[n - 1]
  <2>1. CASE n = 1 BY <1>1, <2>1
  <2>2. CASE n # 1
    <3>1. N + 1 - n + 1 \in 1 .. N /\ n - 1 \in 1 .. N BY <1>1, <2>2
    <3>2. Reverse(s)[n - 1] = s[N - (n - 1) + 1] BY <1>4, <3>1
    <3>3. N - (n - 1) + 1 = N + 1 - n + 1 BY <1>1
    <3> QED BY <1>1, <2>2, <3>1, <3>2, <3>3
  <2> QED BY <2>1, <2>2
<1> QED BY <1>4, <1>6, <1>7 DEF s, t

\* One element less: those after it move down by one.
LEMMA InOrderRemove ==
  ASSUME NEW S, \A k \in S : k \in Nat, IsFiniteSet(S), NEW i \in S
  PROVE  LET r == Cardinality(Below(S, i)) + 1
         IN /\ IsFiniteSet(S \ {i}) /\ Cardinality(S \ {i}) = Cardinality(S) - 1
            /\ \A n \in 1 .. Cardinality(S) - 1 :
                  InOrder(S \ {i})[n] = InOrder(S)[IF n < r THEN n ELSE n + 1]
<1> DEFINE T == S \ {i}
           N == Cardinality(S)
           r == Cardinality(Below(S, i)) + 1
           s == InOrder(S)
<1>1. IsFiniteSet(T) /\ Cardinality(T) = N - 1 /\ N \in Nat
  BY FS_RemoveElement, FS_CardinalityType
<1>2. \A k \in T : k \in Nat OBVIOUS
<1>3. r \in 1 .. N /\ s[r] = i BY InOrderIs
<1>4. \A m \in 1 .. N : s[m] \in S /\ Cardinality(Below(S, s[m])) = m - 1 BY InOrderIs
<1>5. \A m, n \in 1 .. N : m < n => s[m] < s[n] BY InOrderIs
<1>6. ASSUME NEW x \in T, x < i PROVE Below(T, x) = Below(S, x) BY <1>6 DEF Below
<1>7. ASSUME NEW x \in T, i < x
      PROVE  Cardinality(Below(T, x)) = Cardinality(Below(S, x)) - 1
  <2>1. Below(T, x) = Below(S, x) \ {i} /\ i \in Below(S, x) BY <1>7 DEF Below
  <2>2. IsFiniteSet(Below(S, x)) BY BelowFinite
  <2> QED BY <2>1, <2>2, FS_RemoveElement
<1> HIDE DEF r, s
<1>8. ASSUME NEW n \in 1 .. N - 1
      PROVE  InOrder(T)[n] = s[IF n < r THEN n ELSE n + 1]
  <2> DEFINE m == IF n < r THEN n ELSE n + 1
             x == s[m]
  <2>1. m \in 1 .. N /\ (n < r => m < r) /\ ~(n < r) => r < m BY <1>1, <1>3
  <2>2. m \in 1 .. N /\ (m < r \/ r < m) BY <1>1, <1>3
  <2>3. x \in S /\ Cardinality(Below(S, x)) = m - 1 BY <1>4, <2>2
  <2>4. m < r => x < i BY <1>3, <1>5, <2>2
  <2>5. r < m => i < x BY <1>3, <1>5, <2>2
  <2>6. x \in T
    <3>1. x # i BY <2>2, <2>3, <2>4, <2>5
    <3> QED BY <2>3, <3>1
  <2> HIDE DEF x
  <2>7. Cardinality(Below(T, x)) + 1 = n
    <3>1. CASE n < r
      <4>1. m = n /\ x < i BY <1>3, <2>4, <3>1
      <4>2. Below(T, x) = Below(S, x) BY <1>6, <2>6, <4>1
      <4> QED BY <1>1, <2>3, <4>1, <4>2
    <3>2. CASE ~(n < r)
      <4>1. m = n + 1 /\ i < x BY <1>1, <1>3, <2>5, <3>2
      <4>2. Cardinality(Below(T, x)) = Cardinality(Below(S, x)) - 1 BY <1>7, <2>6, <4>1
      <4> QED BY <1>1, <2>3, <4>1, <4>2
    <3> QED BY <3>1, <3>2
  <2> HIDE DEF T
  <2>8. InOrder(T)[Cardinality(Below(T, x)) + 1] = x BY <1>1, <1>2, <2>6, InOrderIs
  <2> QED BY <2>7, <2>8 DEF x
<1> QED BY <1>1, <1>8 DEF r, s

\* A sequence with one element less.
LEMMA RemoveAtIs ==
  ASSUME NEW R, NEW s \in Seq(R), NEW p \in 1 .. Len(s)
  PROVE  /\ RemoveAt(s, p) \in Seq(R) /\ Len(RemoveAt(s, p)) = Len(s) - 1
         /\ RemoveAt(s, p) = [n \in 1 .. Len(s) - 1 |-> IF n < p THEN s[n] ELSE s[n + 1]]
<1> DEFINE a == SubSeq(s, 1, p - 1)
           b == SubSeq(s, p + 1, Len(s))
           N == Len(s)
<1>1. N \in Nat OBVIOUS
<1>2. a \in Seq(R) /\ Len(a) = p - 1 /\ \A n \in 1 .. p - 1 : a[n] = s[n]
  <2>1. \A n \in 1 .. N : s[n] \in R BY ElementOfSeq
  <2>2. \A n \in 1 .. p - 1 : s[n] \in R BY <2>1
  <2>3. a \in Seq(R) /\ Len(a) = (IF 1 <= p - 1 THEN p - 1 - 1 + 1 ELSE 0)
        /\ \A n \in 1 .. p - 1 - 1 + 1 : a[n] = s[1 + n - 1]
    BY <2>2, SubSeqProperties
  <2> QED BY <2>3
<1>3. b \in Seq(R) /\ Len(b) = N - p /\ \A n \in 1 .. N - p : b[n] = s[p + n]
  <2>1. \A n \in 1 .. N : s[n] \in R BY ElementOfSeq
  <2>2. \A n \in p + 1 .. N : s[n] \in R BY <2>1
  <2>3. b \in Seq(R) /\ Len(b) = (IF p + 1 <= N THEN N - (p + 1) + 1 ELSE 0)
        /\ \A n \in 1 .. N - (p + 1) + 1 : b[n] = s[p + 1 + n - 1]
    BY <2>2, SubSeqProperties
  <2> QED BY <2>3
<1> HIDE DEF a, b, N
<1>4. a \o b \in Seq(R) /\ Len(a \o b) = N - 1
      /\ \A n \in 1 .. N - 1 : (a \o b)[n] = IF n < p THEN s[n] ELSE s[n + 1]
  <2>1. a \o b \in Seq(R) /\ Len(a \o b) = Len(a) + Len(b)
        /\ \A n \in 1 .. Len(a) + Len(b) : (a \o b)[n] =
              IF n <= Len(a) THEN a[n] ELSE b[n - Len(a)]
    BY <1>2, <1>3, ConcatProperties
  <2>2. Len(a) + Len(b) = N - 1 /\ p \in 1 .. N BY <1>1, <1>2, <1>3 DEF N
  <2>3. ASSUME NEW n \in 1 .. N - 1
        PROVE  (a \o b)[n] = IF n < p THEN s[n] ELSE s[n + 1]
    <3>1. CASE n < p BY <1>1, <1>2, <2>1, <2>2, <3>1
    <3>2. CASE ~(n < p)
      <4>1. n - (p - 1) \in 1 .. N - p /\ ~(n <= p - 1) /\ p + (n - (p - 1)) = n + 1
        BY <1>1, <2>2, <3>2
      <4> QED BY <1>1, <1>2, <1>3, <2>1, <2>2, <4>1, <3>2
    <3> QED BY <3>1, <3>2
  <2> QED BY <2>1, <2>2, <2>3
<1>5. RemoveAt(s, p) = a \o b BY DEF RemoveAt, a, b, N
<1>6. a \o b = [n \in 1 .. N - 1 |-> IF n < p THEN s[n] ELSE s[n + 1]]
  <2> DEFINE c == a \o b
             f == [n \in 1 .. N - 1 |-> IF n < p THEN s[n] ELSE s[n + 1]]
  <2>1. c \in [1 .. N - 1 -> R] BY <1>4, LenProperties
  <2>2. N - 1 \in Nat BY <1>1 DEF N
  <2>3. \A n \in 1 .. N - 1 : f[n] = c[n] BY <1>4
  <2>4. f \in [1 .. N - 1 -> R]
    <3>1. \A n \in 1 .. N - 1 : c[n] \in R BY <2>1
    <3> HIDE DEF c
    <3> QED BY <2>3, <3>1
  <2> HIDE DEF c, f
  <2>5. c = f BY <2>1, <2>2, <2>3, <2>4, SameSeq
  <2> QED BY <2>5 DEF c, f
<1> QED BY <1>4, <1>5, <1>6 DEF N

\* Reversal keeps the elements.
LEMMA ReverseIs ==
  ASSUME NEW S, \A k \in S : k \in Nat, IsFiniteSet(S)
  PROVE  LET s == Reverse(InOrder(S))
             N == Cardinality(S)
         IN /\ N \in Nat
            /\ s \in Seq(S) /\ s \in Seq(Nat) /\ Len(s) = N /\ DOMAIN s = 1 .. N
            /\ \A n \in 1 .. N : s[n] = InOrder(S)[N - n + 1]
            /\ s \in [1 .. N -> S]
            /\ ToSet(s) = S
<1> DEFINE N == Cardinality(S)
           s == InOrder(S)
           t == Reverse(s)
<1>1. /\ N \in Nat /\ Len(s) = N /\ s \in [1 .. N -> S]
      /\ \A x \in S : \E n \in 1 .. N : s[n] = x
  BY InOrderIs
<1> HIDE DEF N, s
<1>2. t = [n \in 1 .. N |-> s[N - n + 1]] BY <1>1 DEF Reverse
<1>3. \A n \in 1 .. N : N - n + 1 \in 1 .. N BY <1>1
<1>4. t \in [1 .. N -> S] /\ DOMAIN t = 1 .. N /\ \A n \in 1 .. N : t[n] = s[N - n + 1]
  BY <1>1, <1>2, <1>3
<1>5. t \in [1 .. N -> Nat] BY <1>4
<1> HIDE DEF t
<1>6. t \in Seq(S) /\ t \in Seq(Nat) BY <1>1, <1>4, <1>5, IsASeq
<1>7. Len(t) = N BY <1>1, <1>4, <1>6, LenProperties
<1>8. ToSet(t) = S
  <2>1. \A x \in S : \E n \in 1 .. N : t[n] = x
    <3> SUFFICES ASSUME NEW x \in S PROVE \E n \in 1 .. N : t[n] = x OBVIOUS
    <3>1. PICK m \in 1 .. N : s[m] = x BY <1>1
    <3>2. N - m + 1 \in 1 .. N /\ N - (N - m + 1) + 1 = m BY <1>1
    <3> QED BY <1>4, <3>1, <3>2
  <2> QED BY <1>4, <2>1 DEF ToSet
<1> QED BY <1>1, <1>4, <1>6, <1>7, <1>8 DEF N, s, t

\* Taking an element off its chain.
LEMMA ReverseRemove ==
  ASSUME NEW S, \A k \in S : k \in Nat, IsFiniteSet(S), NEW i \in S
  PROVE  OffChain(Reverse(InOrder(S)), i) = Reverse(InOrder(S \ {i}))
<1> DEFINE N == Cardinality(S)
           s == InOrder(S)
           rs == Reverse(s)
           t == InOrder(S \ {i})
           rt == Reverse(t)
           r == Cardinality(Below(S, i)) + 1
           p == CHOOSE n \in DOMAIN rs : rs[n] = i
<1>1. /\ N \in Nat /\ rs \in Seq(S) /\ Len(rs) = N /\ DOMAIN rs = 1 .. N
      /\ \A n \in 1 .. N : rs[n] = s[N - n + 1]
  BY ReverseIs
<1>2. /\ IsFiniteSet(S \ {i}) /\ Cardinality(S \ {i}) = N - 1
      /\ \A n \in 1 .. N - 1 : t[n] = s[IF n < r THEN n ELSE n + 1]
  BY InOrderRemove
<1>3. /\ rt \in [1 .. N - 1 -> S \ {i}] /\ N - 1 \in Nat
      /\ \A n \in 1 .. N - 1 : rt[n] = t[N - 1 - n + 1]
  <2>1. \A k \in S \ {i} : k \in Nat OBVIOUS
  <2> DEFINE M == Cardinality(S \ {i})
  <2>2. /\ M \in Nat /\ rt \in [1 .. M -> S \ {i}]
        /\ \A n \in 1 .. M : rt[n] = t[M - n + 1]
    BY <1>2, <2>1, ReverseIs
  <2>3. M = N - 1 BY <1>2
  <2> HIDE DEF M, N, rt, t
  <2> QED BY <2>2, <2>3
<1>4. r \in 1 .. N /\ s[r] = i BY InOrderIs
<1>5. \A m, n \in 1 .. N : m < n => s[m] < s[n] BY InOrderIs
<1>6. \A m \in 1 .. N : s[m] \in Nat BY InOrderIs
<1> HIDE DEF N, s, t, r
<1>7. p = N - r + 1 /\ p \in 1 .. N
  <2>1. N - r + 1 \in 1 .. N /\ N - (N - r + 1) + 1 = r BY <1>1, <1>4
  <2>2. rs[N - r + 1] = i BY <1>1, <1>4, <2>1
  <2> HIDE DEF rs
  <2>3. p \in 1 .. N /\ rs[p] = i
    <3>1. \E n \in DOMAIN rs : rs[n] = i BY <1>1, <2>1, <2>2
    <3> QED BY <1>1, <3>1
  <2> HIDE DEF p
  <2>4. N - p + 1 \in 1 .. N /\ s[N - p + 1] = s[r] BY <1>1, <1>4, <2>3
  <2>5. N - p + 1 = r
    <3> DEFINE q == N - p + 1
    <3>1. q \in 1 .. N /\ r \in 1 .. N /\ s[q] = s[r] BY <1>4, <2>4
    <3> HIDE DEF q
    <3>2. ~(q < r) /\ ~(r < q) BY <1>5, <1>6, <3>1
    <3>3. q = r BY <1>1, <3>1, <3>2
    <3> QED BY <3>3 DEF q
  <2> QED BY <1>1, <1>4, <2>3, <2>5
<1> HIDE DEF rs, p, rt
<1>8. /\ RemoveAt(rs, p) = [n \in 1 .. N - 1 |-> IF n < p THEN rs[n] ELSE rs[n + 1]]
      /\ RemoveAt(rs, p) \in Seq(S) /\ Len(RemoveAt(rs, p)) = N - 1
  <2>1. rs \in Seq(S) /\ Len(rs) = N /\ p \in 1 .. Len(rs) BY <1>1, <1>7
  <2>2. /\ RemoveAt(rs, p) = [n \in 1 .. Len(rs) - 1 |-> IF n < p THEN rs[n] ELSE rs[n + 1]]
        /\ RemoveAt(rs, p) \in Seq(S) /\ Len(RemoveAt(rs, p)) = Len(rs) - 1
    BY ONLY <2>1, RemoveAtIs
  <2> QED BY <2>1, <2>2
<1>9. ASSUME NEW n \in 1 .. N - 1 PROVE RemoveAt(rs, p)[n] = rt[n]
  <2>1. N - 1 - n + 1 = N - n /\ N - n \in 1 .. N - 1 /\ n + 1 \in 1 .. N /\ n \in 1 .. N
    BY <1>1, <1>3
  <2>2. rt[n] = s[IF N - n < r THEN N - n ELSE N - n + 1] BY <1>2, <1>3, <2>1
  <2>3. (N - n < r) <=> ~(n < p) BY <1>1, <1>4, <1>7
  <2>4. N - (n + 1) + 1 = N - n BY <1>1
  <2>5. RemoveAt(rs, p)[n] = IF n < p THEN rs[n] ELSE rs[n + 1] BY <1>8
  <2>6. rs[n] = s[N - n + 1] /\ rs[n + 1] = s[N - n] BY <1>1, <2>1, <2>4
  <2>7. CASE n < p BY <2>2, <2>3, <2>5, <2>6, <2>7
  <2>8. CASE ~(n < p) BY <2>2, <2>3, <2>5, <2>6, <2>8
  <2> QED BY <2>7, <2>8
<1>10. RemoveAt(rs, p) = rt
  <2>1. RemoveAt(rs, p) \in [1 .. N - 1 -> S] BY <1>8, LenProperties
  <2>2. rt \in [1 .. N - 1 -> S] BY <1>3
  <2> DEFINE a == RemoveAt(rs, p)
             M == N - 1
  <2> HIDE DEF a, M
  <2>3. M \in Nat /\ a \in [1 .. M -> S] /\ rt \in [1 .. M -> S] /\ \A n \in 1 .. M : a[n] = rt[n]
    BY <1>3, <1>9, <2>1, <2>2 DEF a, M
  <2>4. a = rt BY ONLY <2>3, SameSeq
  <2> QED BY <2>4 DEF a
<1> QED BY <1>10 DEF OffChain, rs, s, p, rt, t

-----------------------------------------------------------------------------
(* What a sound table is                                                   *)
Chains(h) == [c \in 0 .. 2 * h.nTableSize - 1 |->
                 Reverse(InOrder({i \in Indices(h) : Chain(h, h.at[i]) = c}))]

\* Every field has its type, at and chain apart.
Fields(h) ==
    h \in [kind : {"uninit", "packed", "hash"}, nTableSize : Nat \ {0}, nNumUsed : Nat,
           nNumOfElements : Nat, nNextFreeElement : Nat, nInternalPointer : Nat,
           nIteratorsCount : Nat, at : {h.at}, chain : {h.chain}]

\* What holds of a table in the middle of an operation too.
Core(h) ==
    /\ Fields(h)
    /\ h.nNumUsed <= h.nTableSize
    /\ h.at \in [0 .. h.nNumUsed - 1 -> Keys \cup {Hole}]
    /\ \A i, j \in Indices(h) : h.at[i] = h.at[j] => i = j
    /\ h.nNumOfElements = Cardinality(Indices(h))
    /\ \A i \in Indices(h) : h.at[i] \in Ints => h.at[i] < h.nNextFreeElement
    /\ h.nNumUsed > 0 => h.at[h.nNumUsed - 1] # Hole

\* What depends on the table's kind.  One that is not initialized yet has the
\* minimal size, for which zend_hash_real_init keeps the iterator count.
Form(h) ==
    /\ h.kind = "uninit" => h.nNumUsed = 0 /\ h.nTableSize = MinSize
    /\ h.kind = "packed" => \A i \in Indices(h) : h.at[i] = i
    /\ h.kind = "hash" => h.chain = Chains(h) /\ h.nInternalPointer \notin Holes(h)

Sound(h) == Core(h) /\ Form(h)

\* A table with positions.
Pair(w) == w \in [h : {w.h}, pos : [DOMAIN w.pos -> Nat]]

-----------------------------------------------------------------------------

\* A remainder is below the divisor.
LEMMA Remainder == ASSUME NEW a \in Nat, NEW b \in Nat \ {0} PROVE a % b \in 0 .. b - 1
OBVIOUS

\* How many numbers there are below another.
LEMMA UpTo ==
  ASSUME NEW N \in Nat
  PROVE  IsFiniteSet(0 .. N - 1) /\ Cardinality(0 .. N - 1) = N
<1>1. PICK b \in Int : b = N - 1 OBVIOUS
<1>2. IsFiniteSet(0 .. b) /\ Cardinality(0 .. b) = IF 0 > b THEN 0 ELSE b - 0 + 1
  BY FS_Interval
<1> QED BY <1>1, <1>2

\* The buckets in use that are not holes.
LEMMA IndicesAre ==
  ASSUME NEW h, Core(h)
  PROVE  /\ IsFiniteSet(Indices(h)) /\ Indices(h) \subseteq 0 .. h.nNumUsed - 1
         /\ \A i \in Indices(h) : i \in Nat /\ i < h.nNumUsed /\ h.at[i] \in Keys
         /\ h.nNumOfElements <= h.nNumUsed /\ h.nNumOfElements \in Nat
         /\ h.nNumUsed \in Nat /\ h.nTableSize \in Nat \ {0}
         /\ h.nNumOfElements = h.nNumUsed => Indices(h) = 0 .. h.nNumUsed - 1
         /\ h.nNumOfElements = 0 => h.nNumUsed = 0 /\ Indices(h) = {}
         /\ h.nNumUsed > 0 => h.nNumUsed - 1 \in Indices(h)
         /\ \A i \in Nat : i < h.nNumUsed => i \in Indices(h) \/ i \in Holes(h)
<1>1. /\ h.nNumUsed \in Nat /\ h.nTableSize \in Nat \ {0} /\ h.nNumOfElements \in Nat
      /\ h.at \in [0 .. h.nNumUsed - 1 -> Keys \cup {Hole}]
      /\ h.nNumOfElements = Cardinality(Indices(h))
      /\ h.nNumUsed > 0 => h.at[h.nNumUsed - 1] # Hole
  BY DEF Core, Fields
<1>2. Indices(h) \subseteq 0 .. h.nNumUsed - 1 BY DEF Indices
<1>3. IsFiniteSet(0 .. h.nNumUsed - 1) /\ Cardinality(0 .. h.nNumUsed - 1) = h.nNumUsed
  BY <1>1, UpTo
<1>4. /\ IsFiniteSet(Indices(h)) /\ Cardinality(Indices(h)) <= h.nNumUsed
      /\ Cardinality(Indices(h)) = h.nNumUsed => Indices(h) = 0 .. h.nNumUsed - 1
  BY <1>2, <1>3, FS_Subset
<1>5. \A i \in Indices(h) : i \in Nat /\ i < h.nNumUsed /\ h.at[i] \in Keys
  BY <1>1 DEF Indices
<1>6. h.nNumUsed > 0 => h.nNumUsed - 1 \in Indices(h) BY <1>1 DEF Indices
<1>7. h.nNumOfElements = 0 => Indices(h) = {} BY <1>1, <1>4, FS_EmptySet
<1>8. \A i \in Nat : i < h.nNumUsed => i \in Indices(h) \/ i \in Holes(h)
  BY <1>1 DEF Indices, Holes
<1>9. h.nNumOfElements = 0 => h.nNumUsed = 0 BY <1>1, <1>6, <1>7
<1> HIDE DEF Indices, Holes
<1> QED BY <1>1, <1>2, <1>4, <1>5, <1>6, <1>7, <1>8, <1>9

\* Every key belongs to one of the table's chains.
LEMMA ChainIs ==
  ASSUME NEW h, Core(h), NEW k \in Keys
  PROVE  Chain(h, k) \in 0 .. 2 * h.nTableSize - 1
<1>1. h.nTableSize \in Nat \ {0} BY IndicesAre
<1>2. Hash(k) \in Nat BY KeysAssumption DEF Hash, Keys
<1>3. 2 * h.nTableSize \in Nat \ {0} BY <1>1
<1>4. Hash(k) % (2 * h.nTableSize) \in 0 .. 2 * h.nTableSize - 1
  <2> DEFINE a == Hash(k)
             b == 2 * h.nTableSize
  <2> HIDE DEF a, b
  <2>1. a \in Nat /\ b \in Nat \ {0} BY <1>2, <1>3 DEF a, b
  <2>2. a % b \in 0 .. b - 1 BY ONLY <2>1, Remainder
  <2> QED BY <2>2 DEF a, b
<1> QED BY <1>4 DEF Chain

\* The chains of a table, each with the elements that belong to it.
LEMMA ChainsAre ==
  ASSUME NEW h, Core(h)
  PROVE  \A c \in 0 .. 2 * h.nTableSize - 1 :
             LET S == {i \in Indices(h) : Chain(h, h.at[i]) = c}
             IN /\ IsFiniteSet(S) /\ \A k \in S : k \in Nat
                /\ Chains(h)[c] = Reverse(InOrder(S))
                /\ ToSet(Chains(h)[c]) = S
<1> SUFFICES ASSUME NEW c \in 0 .. 2 * h.nTableSize - 1
    PROVE  LET S == {i \in Indices(h) : Chain(h, h.at[i]) = c}
           IN /\ IsFiniteSet(S) /\ \A k \in S : k \in Nat
              /\ Chains(h)[c] = Reverse(InOrder(S))
              /\ ToSet(Chains(h)[c]) = S
  OBVIOUS
<1> DEFINE S == {i \in Indices(h) : Chain(h, h.at[i]) = c}
<1>1. IsFiniteSet(S) /\ \A k \in S : k \in Nat
  <2>1. S \subseteq Indices(h) OBVIOUS
  <2> QED BY <2>1, IndicesAre, FS_Subset
<1>2. Chains(h)[c] = Reverse(InOrder(S)) BY DEF Chains
<1> HIDE DEF S
<1>3. ToSet(Reverse(InOrder(S))) = S BY <1>1, ReverseIs
<1> QED BY <1>1, <1>2, <1>3 DEF S

\* A search finds a key exactly where it is.
LEMMA FoundIs ==
  ASSUME NEW h, Sound(h), NEW k \in Keys
  PROVE  Found(h, k) = {i \in Indices(h) : h.at[i] = k}
<1>1. CASE h.kind # "hash" BY <1>1 DEF Found
<1>2. CASE h.kind = "hash"
  <2> DEFINE c == Chain(h, k)
             S == {i \in Indices(h) : Chain(h, h.at[i]) = c}
  <2>1. c \in 0 .. 2 * h.nTableSize - 1 BY ChainIs DEF Sound
  <2>2. h.chain = Chains(h) BY <1>2 DEF Sound, Form
  <2>3. ToSet(h.chain[c]) = S BY <2>1, <2>2, ChainsAre DEF Sound
  <2>4. {i \in S : h.at[i] = k} = {i \in Indices(h) : h.at[i] = k} OBVIOUS
  <2> QED BY <1>2, <2>3, <2>4 DEF Found
<1> QED BY <1>1, <1>2

-----------------------------------------------------------------------------
(* Numbers up to a bound                                                   *)
\* The numbers below another in order.
LEMMA InOrderUpTo ==
  ASSUME NEW N \in Nat
  PROVE  /\ IsFiniteSet(0 .. N - 1) /\ Cardinality(0 .. N - 1) = N
         /\ \A n \in 1 .. N : InOrder(0 .. N - 1)[n] = n - 1
         /\ \A i \in 0 .. N : Cardinality(Below(0 .. N - 1, i)) = i
<1> DEFINE S == 0 .. N - 1
<1>1. IsFiniteSet(S) /\ Cardinality(S) = N BY UpTo
<1>2. ASSUME NEW i \in 0 .. N PROVE Cardinality(Below(S, i)) = i
  <2>1. Below(S, i) = 0 .. i - 1 BY DEF Below
  <2>2. i \in Nat OBVIOUS
  <2> QED BY <2>1, <2>2, UpTo
<1>3. \A k \in S : k \in Nat OBVIOUS
<1>4. ASSUME NEW n \in 1 .. N PROVE InOrder(S)[n] = n - 1
  <2>1. n - 1 \in S /\ n - 1 \in 0 .. N /\ n - 1 + 1 = n OBVIOUS
  <2>2. Cardinality(Below(S, n - 1)) = n - 1 BY <1>2, <2>1
  <2> HIDE DEF S
  <2>3. InOrder(S)[Cardinality(Below(S, n - 1)) + 1] = n - 1 BY <1>1, <1>3, <2>1, InOrderIs
  <2> QED BY <2>1, <2>2, <2>3
<1> QED BY <1>1, <1>2, <1>4

\* Compaction keeps the elements in their order and leaves no hole.
LEMMA CompactIs ==
  ASSUME NEW h, Core(h)
  PROVE  LET g == Compact(h)
             N == h.nNumOfElements
         IN /\ Core(g)
            /\ g.kind = h.kind /\ g.nTableSize = h.nTableSize /\ g.nNumUsed = N
            /\ g.nNumOfElements = N /\ g.nNextFreeElement = h.nNextFreeElement
            /\ g.nIteratorsCount = h.nIteratorsCount /\ g.chain = h.chain
            /\ g.nInternalPointer = IF h.nInternalPointer \in Indices(h)
                                    THEN Cardinality(Before(h, h.nInternalPointer))
                                    ELSE h.nInternalPointer
            /\ Indices(g) = 0 .. N - 1 /\ Holes(g) = {}
            /\ \A n \in 1 .. N : g.at[n - 1] = h.at[InOrder(Indices(h))[n]]
<1> DEFINE S == Indices(h)
           order == InOrder(S)
           N == h.nNumOfElements
           g == Compact(h)
<1>1. /\ IsFiniteSet(S) /\ S \subseteq 0 .. h.nNumUsed - 1
      /\ \A i \in S : i \in Nat /\ h.at[i] \in Keys
      /\ N = Cardinality(S) /\ N \in Nat /\ N <= h.nNumUsed /\ h.nNumUsed \in Nat
  BY IndicesAre DEF Core
<1>2. /\ Len(order) = N
      /\ \A n \in 1 .. N : order[n] \in S
      /\ \A m, n \in 1 .. N : m < n => order[m] < order[n]
  BY <1>1, InOrderIs
<1>11. /\ \A i, j \in S : h.at[i] = h.at[j] => i = j
       /\ \A i \in S : h.at[i] \in Ints => h.at[i] < h.nNextFreeElement
  BY DEF Core
<1>3. h.nInternalPointer \in Nat => Cardinality(Before(h, h.nInternalPointer)) \in Nat
  <2>1. Before(h, h.nInternalPointer) \subseteq S BY DEF Before
  <2> QED BY <1>1, <2>1, FS_Subset, FS_CardinalityType
<1> HIDE DEF order, S
<1>4. g = [h EXCEPT !.at = [i \in 0 .. N - 1 |-> h.at[order[i + 1]]], !.nNumUsed = N,
              !.nInternalPointer = IF @ \in S THEN Cardinality(Before(h, @)) ELSE @]
  BY <1>2 DEF Compact, order, S
<1> DEFINE at == [i \in 0 .. N - 1 |-> h.at[order[i + 1]]]
           pointer == IF h.nInternalPointer \in S THEN Cardinality(Before(h, h.nInternalPointer))
                      ELSE h.nInternalPointer
<1>5. pointer \in Nat BY <1>3 DEF Core, Fields
<1> HIDE DEF g, at, pointer
<1>6. /\ g.kind = h.kind /\ g.nTableSize = h.nTableSize /\ g.nNumUsed = N
      /\ g.nNumOfElements = N /\ g.nNextFreeElement = h.nNextFreeElement
      /\ g.nIteratorsCount = h.nIteratorsCount /\ g.chain = h.chain
      /\ g.nInternalPointer = pointer /\ g.at = at
      /\ Fields(g)
  BY <1>1, <1>4, <1>5 DEF Core, Fields, at, pointer
<1>7. \A n \in 1 .. N : g.at[n - 1] = h.at[order[n]]
  <2> SUFFICES ASSUME NEW n \in 1 .. N PROVE at[n - 1] = h.at[order[n]] BY <1>6
  <2>1. n - 1 \in 0 .. N - 1 /\ n - 1 + 1 = n BY <1>1
  <2> QED BY <2>1 DEF at
<1>8. \A i \in 0 .. N - 1 : i + 1 \in 1 .. N /\ g.at[i] = h.at[order[i + 1]] /\ g.at[i] \in Keys
  <2> SUFFICES ASSUME NEW i \in 0 .. N - 1
               PROVE  i + 1 \in 1 .. N /\ at[i] = h.at[order[i + 1]] /\ at[i] \in Keys
    BY <1>6
  <2>1. i + 1 \in 1 .. N BY <1>1
  <2>2. at[i] = h.at[order[i + 1]] BY DEF at
  <2>3. order[i + 1] \in S BY <1>2, <2>1
  <2> QED BY <1>1, <2>1, <2>2, <2>3
<1>9. Indices(g) = 0 .. N - 1 /\ Holes(g) = {}
  <2>1. \A i \in 0 .. N - 1 : g.at[i] # Hole BY <1>8, KeysAssumption
  <2>2. g.nNumUsed = N BY <1>6
  <2> HIDE DEF N
  <2> QED BY <2>1, <2>2 DEF Indices, Holes
<1>10. Core(g)
  <2>1. g.nNumUsed <= g.nTableSize BY <1>1, <1>6 DEF Core, Fields
  <2>2. g.at \in [0 .. g.nNumUsed - 1 -> Keys \cup {Hole}]
    BY <1>6, <1>8 DEF at
  <2>3. ASSUME NEW i \in Indices(g), NEW j \in Indices(g), g.at[i] = g.at[j] PROVE i = j
    <3>1. /\ i + 1 \in 1 .. N /\ j + 1 \in 1 .. N /\ i \in Nat /\ j \in Nat
          /\ h.at[order[i + 1]] = h.at[order[j + 1]]
      BY <1>8, <1>9, <2>3
    <3>2. order[i + 1] = order[j + 1] BY <1>2, <1>11, <3>1
    <3>3. order[i + 1] \in Nat BY <1>1, <1>2, <3>1
    <3>4. ~(order[i + 1] < order[j + 1]) /\ ~(order[j + 1] < order[i + 1])
      BY ONLY <3>2, <3>3
    <3>5. ~(i + 1 < j + 1) /\ ~(j + 1 < i + 1) BY <1>2, <3>1, <3>4
    <3> QED BY <3>1, <3>5
  <2>4. g.nNumOfElements = Cardinality(Indices(g)) BY <1>1, <1>6, <1>9, UpTo
  <2>5. \A i \in Indices(g) : g.at[i] \in Ints => g.at[i] < g.nNextFreeElement
    BY <1>2, <1>6, <1>8, <1>9, <1>11
  <2>6. g.nNumUsed > 0 => g.at[g.nNumUsed - 1] # Hole
    BY <1>1, <1>6, <1>8, KeysAssumption
  <2> QED BY <1>6, <2>1, <2>2, <2>3, <2>4, <2>5, <2>6 DEF Core
<1> QED BY <1>6, <1>7, <1>9, <1>10 DEF g, order, S, pointer

\* Threading the chains changes nothing else.
LEMMA RechainedIs ==
  ASSUME NEW h, Core(h)
  PROVE  LET g == Rechained(h)
         IN /\ Core(g)
            /\ g.kind = h.kind /\ g.nTableSize = h.nTableSize /\ g.nNumUsed = h.nNumUsed
            /\ g.nNumOfElements = h.nNumOfElements /\ g.nNextFreeElement = h.nNextFreeElement
            /\ g.nIteratorsCount = h.nIteratorsCount /\ g.at = h.at
            /\ g.nInternalPointer = h.nInternalPointer
            /\ g.chain = Chains(g) /\ g.chain = Chains(h)
            /\ Indices(g) = Indices(h) /\ Holes(g) = Holes(h)
<1> DEFINE g == Rechained(h)
<1>1. g = [h EXCEPT !.chain = Chains(h)]
  BY DEF Rechained, Chains, Reset
<1> HIDE DEF g
<1>2. /\ g.kind = h.kind /\ g.nTableSize = h.nTableSize /\ g.nNumUsed = h.nNumUsed
      /\ g.nNumOfElements = h.nNumOfElements /\ g.nNextFreeElement = h.nNextFreeElement
      /\ g.nIteratorsCount = h.nIteratorsCount /\ g.at = h.at
      /\ g.nInternalPointer = h.nInternalPointer /\ g.chain = Chains(h)
      /\ Fields(g)
  BY <1>1 DEF Core, Fields
<1>3. Indices(g) = Indices(h) /\ Holes(g) = Holes(h) BY <1>2 DEF Indices, Holes
<1>4. Chains(g) = Chains(h) BY <1>2, <1>3 DEF Chains, Chain
<1>5. Core(g) BY <1>2, <1>3 DEF Core
<1> QED BY <1>2, <1>3, <1>4, <1>5 DEF g

-----------------------------------------------------------------------------
(* Positions                                                               *)
\* The least element of a set, or a bound.
LEMMA LeastOr ==
  ASSUME NEW S, \A k \in S : k \in Nat, NEW n \in Nat
  PROVE  Least(S \cup {n}) \in Nat /\ Least(S \cup {n}) \in S \cup {n}
         /\ \A y \in S \cup {n} : Least(S \cup {n}) <= y
<1> DEFINE T == S \cup {n}
<1>1. \A k \in T : k \in Nat OBVIOUS
<1>2. T # {} OBVIOUS
<1> HIDE DEF T
<1>3. Least(T) \in T /\ \A y \in T : Least(T) <= y BY <1>1, <1>2, LeastIs
<1> QED BY <1>1, <1>3 DEF T

\* zend_hash_iterators_lower_pos: a position, or the end.
LEMMA LowerPosIs ==
  ASSUME NEW h, h.nNumUsed \in Nat, NEW D, NEW pos \in [D -> Nat], NEW start
  PROVE  LowerPos(h, pos, start) \in Nat
<1> DEFINE S == {pos[x] : x \in {x \in DOMAIN pos : pos[x] >= start /\ pos[x] < h.nNumUsed}}
<1>1. \A k \in S : k \in Nat OBVIOUS
<1> HIDE DEF S
<1>2. Least(S \cup {h.nNumUsed}) \in Nat BY <1>1, LeastOr
<1> QED BY <1>2 DEF LowerPos, S

\* Carrying positions along gives every iterator a position.
LEMMA CarryIs ==
  ASSUME NEW h, Core(h), NEW D, NEW s \in [pos : [D -> Nat], low : Nat], NEW i \in Nat
  PROVE  Carry(h, s, i) \in [pos : [D -> Nat], low : Nat]
<1> DEFINE moved == [x \in DOMAIN s.pos |->
                       IF s.pos[x] = s.low \/ (s.low < s.pos[x] /\ s.pos[x] < i)
                       THEN Cardinality(Before(h, i)) ELSE s.pos[x]]
           start == IF i = s.low THEN i + 1 ELSE i
<1>1. Cardinality(Before(h, i)) \in Nat
  <2>1. Before(h, i) \subseteq Indices(h) BY DEF Before
  <2> QED BY <2>1, IndicesAre, FS_Subset, FS_CardinalityType
<1>2. moved \in [D -> Nat] BY <1>1
<1>3. h.nNumUsed \in Nat BY IndicesAre
<1> HIDE DEF moved, start
<1>4. LowerPos(h, moved, start) \in Nat BY <1>2, <1>3, LowerPosIs
<1>5. Carry(h, s, i) = IF i < s.low THEN s ELSE [pos |-> moved, low |-> LowerPos(h, moved, start)]
  BY DEF Carry, moved, start
<1> QED BY <1>2, <1>4, <1>5

\* The elements that zend_hash_rehash moves, in the order in which it does.
Movers(h) == InOrder({i \in Indices(h) : i > Least(Holes(h))})

\* The positions, element by element, while they are carried along.
Runs(w, c) ==
    LET N == Len(Movers(w.h))
    IN /\ c \in [0 .. N -> [pos : [DOMAIN w.pos -> Nat], low : Nat]]
       /\ c[0] = [pos |-> w.pos, low |-> LowerPos(w.h, w.pos, 0)]
       /\ \A n \in 1 .. N : c[n] = Carry(w.h, c[n - 1], Movers(w.h)[n])
       /\ Carried(w) = IF HasIterators(w.h) THEN c[N].pos ELSE w.pos

\* Positions are carried along element by element.
LEMMA CarriedRuns ==
  ASSUME NEW w, Core(w.h), NEW D, w.pos \in [D -> Nat]
  PROVE  \E c : Runs(w, c)
<1> DEFINE h == w.h
           S == {i \in Indices(w.h) : i > Least(Holes(w.h))}
           order == InOrder(S)
           N == Len(order)
           first == [pos |-> w.pos, low |-> LowerPos(w.h, w.pos, 0)]
           Of(f, k) == f = [n \in 0 .. k |-> IF n = 0 THEN first
                                             ELSE Carry(h, f[n - 1], order[n])]
           R == [pos : [D -> Nat], low : Nat]
<1>1. IsFiniteSet(S) /\ \A k \in S : k \in Nat
  <2>1. S \subseteq Indices(w.h) OBVIOUS
  <2> QED BY <2>1, IndicesAre, FS_Subset
<1>2. N \in Nat /\ \A n \in 1 .. N : order[n] \in Nat
  <2> HIDE DEF S
  <2> QED BY <1>1, InOrderIs
<1>3. first \in R
  <2>1. w.h.nNumUsed \in Nat BY IndicesAre
  <2> QED BY <2>1, LowerPosIs
<1>4. \A s \in R, i \in Nat : Carry(h, s, i) \in R BY CarryIs
<1> HIDE DEF first, R, order, h, N
<1>5. \A k \in 0 .. N : \E f : Of(f, k) /\ f \in [0 .. k -> R]
  <2> DEFINE T == {k \in 0 .. N : ~ \E f : Of(f, k) /\ f \in [0 .. k -> R]}
  <2>1. SUFFICES ASSUME T # {} PROVE FALSE OBVIOUS
  <2>2. PICK k \in T : \A m \in T : k <= m
    <3>1. \A m \in T : m \in Nat OBVIOUS
    <3> HIDE DEF T
    <3> QED BY <2>1, <3>1, NatMin
  <2>3. CASE k = 0
    <3> DEFINE f == [n \in 0 .. 0 |-> first]
    <3>1. f = [n \in 0 .. 0 |-> IF n = 0 THEN first ELSE Carry(h, f[n - 1], order[n])]
      <4>1. \A n \in 0 .. 0 : first = IF n = 0 THEN first ELSE Carry(h, f[n - 1], order[n])
        OBVIOUS
      <4> QED BY <4>1
    <3>2. f \in [0 .. 0 -> R] BY <1>3
    <3> HIDE DEF f
    <3>3. Of(f, k) /\ f \in [0 .. k -> R] BY <2>3, <3>1, <3>2
    <3> QED BY <2>2, <3>3
  <2>4. CASE k # 0
    <3>1. k - 1 \in 0 .. N /\ k - 1 \notin T /\ k \in 1 .. N
      <4>1. k \in 0 .. N BY <2>2
      <4> HIDE DEF Of, T
      <4> QED BY <1>2, <2>2, <2>4, <4>1
    <3>2. PICK g : Of(g, k - 1) /\ g \in [0 .. k - 1 -> R]
      <4> HIDE DEF Of
      <4> QED BY <3>1
    <3> DEFINE last == Carry(h, g[k - 1], order[k])
               f == [n \in 0 .. k |-> IF n = k THEN last ELSE g[n]]
    <3>3. last \in R
      <4>1. g[k - 1] \in R BY <3>1, <3>2
      <4>2. order[k] \in Nat BY <1>2, <3>1
      <4> QED BY <1>4, <4>1, <4>2
    <3> HIDE DEF last
    <3>4. f \in [0 .. k -> R] BY <3>1, <3>2, <3>3
    <3>5. \A n \in 0 .. k : f[n] = IF n = 0 THEN first ELSE Carry(h, f[n - 1], order[n])
      <4> SUFFICES ASSUME NEW n \in 0 .. k
                   PROVE  f[n] = IF n = 0 THEN first ELSE Carry(h, f[n - 1], order[n])
        OBVIOUS
      <4>1. CASE n = k
        <5>1. f[n] = last /\ n # 0 /\ k - 1 \in 0 .. k /\ k - 1 # k BY <3>1, <4>1
        <5>2. f[k - 1] = g[k - 1] BY <5>1
        <5> QED BY <4>1, <5>1, <5>2 DEF last
      <4>2. CASE n # k
        <5>1. n \in 0 .. k - 1 BY <3>1, <4>2
        <5>2. g[n] = IF n = 0 THEN first ELSE Carry(h, g[n - 1], order[n]) BY <3>2, <5>1
        <5>3. f[n] = g[n] /\ (n # 0 => f[n - 1] = g[n - 1]) BY <3>1, <4>2, <5>1
        <5> HIDE DEF f
        <5> QED BY <5>2, <5>3
      <4> QED BY <4>1, <4>2
    <3>6. f = [n \in 0 .. k |-> f[n]] OBVIOUS
    <3> HIDE DEF f
    <3>7. Of(f, k) BY <3>5, <3>6
    <3> QED BY <2>2, <3>4, <3>7
  <2> QED BY <2>3, <2>4
<1> DEFINE carried == CHOOSE f : Of(f, N)
<1>6. Of(carried, N)
  <2> HIDE DEF Of
  <2>1. \E f : Of(f, N) BY <1>2, <1>5
  <2> QED BY <2>1
<1>7. \A n \in 0 .. N : carried[n] = IF n = 0 THEN first ELSE Carry(h, carried[n - 1], order[n])
  BY <1>6
<1>8. \A n \in 0 .. N : carried[n] \in R
  <2> DEFINE c == carried
             T == {n \in 0 .. N : c[n] \notin R}
  <2> HIDE DEF carried
  <2>1. \A n \in 0 .. N : c[n] = IF n = 0 THEN first ELSE Carry(h, c[n - 1], order[n])
    BY <1>7
  <2>2. SUFFICES ASSUME T # {} PROVE FALSE OBVIOUS
  <2> HIDE DEF c
  <2>3. PICK n \in T : \A m \in T : n <= m
    <3>1. \A m \in T : m \in Nat OBVIOUS
    <3> HIDE DEF T
    <3> QED BY <2>2, <3>1, NatMin
  <2>4. n # 0 BY <1>2, <1>3, <2>1, <2>3
  <2>5. n - 1 \in 0 .. N /\ n - 1 \notin T /\ n \in 1 .. N BY <1>2, <2>3, <2>4
  <2>6. c[n - 1] \in R BY <2>5
  <2>7. order[n] \in Nat /\ c[n] = Carry(h, c[n - 1], order[n]) BY <1>2, <2>1, <2>4, <2>5
  <2> QED BY <1>4, <2>3, <2>6, <2>7
<1>9. Carried(w) = IF HasIterators(w.h) THEN carried[N].pos ELSE w.pos
  BY DEF Carried, carried, N, order, first, h
<1>10. /\ N = Len(Movers(w.h)) /\ h = w.h /\ order = Movers(w.h)
       /\ first = [pos |-> w.pos, low |-> LowerPos(w.h, w.pos, 0)]
       /\ R = [pos : [DOMAIN w.pos -> Nat], low : Nat]
  <2>1. DOMAIN w.pos = D OBVIOUS
  <2> QED BY <2>1 DEF N, h, order, first, R, Movers
<1>11. carried \in [0 .. N -> R]
  <2> DEFINE c == carried
  <2>1. c = [n \in 0 .. N |-> IF n = 0 THEN first ELSE Carry(h, c[n - 1], order[n])]
    BY <1>6
  <2>2. \A n \in 0 .. N : c[n] \in R BY <1>8
  <2> HIDE DEF c
  <2>3. DOMAIN c = 0 .. N BY <2>1
  <2>4. c = [n \in 0 .. N |-> c[n]] BY <2>1, <2>3
  <2>5. c \in [0 .. N -> R] BY <2>2, <2>4
  <2> QED BY <2>5 DEF c
<1> HIDE DEF carried
<1>12. carried[0] = first /\ \A n \in 1 .. N : carried[n] = Carry(h, carried[n - 1], order[n])
  BY <1>2, <1>7
<1>13. Runs(w, carried) BY <1>9, <1>10, <1>11, <1>12 DEF Runs
<1> QED BY <1>13

\* Positions stay positions as elements move.
LEMMA CarriedIs ==
  ASSUME NEW w, Core(w.h), NEW D, w.pos \in [D -> Nat]
  PROVE  Carried(w) \in [D -> Nat]
<1>1. PICK c : Runs(w, c) BY CarriedRuns
<1>2. Len(Movers(w.h)) \in Nat /\ DOMAIN w.pos = D
  <2> DEFINE S == {i \in Indices(w.h) : i > Least(Holes(w.h))}
  <2>1. IsFiniteSet(S) /\ \A k \in S : k \in Nat
    <3>1. S \subseteq Indices(w.h) OBVIOUS
    <3> QED BY <3>1, IndicesAre, FS_Subset
  <2> HIDE DEF S
  <2>2. Len(InOrder(S)) \in Nat BY <2>1, InOrderIs
  <2> QED BY <2>2 DEF Movers, S
<1> DEFINE N == Len(Movers(w.h))
<1> HIDE DEF N
<1>3. c[N] \in [pos : [D -> Nat], low : Nat] BY <1>1, <1>2 DEF Runs, N
<1> QED BY <1>1, <1>3 DEF Runs, N

-----------------------------------------------------------------------------
(* The array a table stands for                                            *)
\* How many elements are before a position.
LEMMA BeforeIs ==
  ASSUME NEW h, Core(h), NEW p \in Nat
  PROVE  /\ Before(h, p) = Below(Indices(h), p)
         /\ IsFiniteSet(Before(h, p)) /\ Cardinality(Before(h, p)) \in 0 .. h.nNumOfElements
         /\ p >= h.nNumUsed => Cardinality(Before(h, p)) = h.nNumOfElements
         /\ p \in Indices(h) => Cardinality(Before(h, p)) < h.nNumOfElements
<1>1. Before(h, p) = Below(Indices(h), p) BY DEF Before, Below
<1>2. /\ IsFiniteSet(Indices(h)) /\ \A i \in Indices(h) : i \in Nat /\ i < h.nNumUsed
      /\ h.nNumUsed \in Nat /\ Cardinality(Indices(h)) = h.nNumOfElements
  BY IndicesAre DEF Core
<1>3. p >= h.nNumUsed => Before(h, p) = Indices(h) BY <1>2 DEF Before
<1>4. /\ IsFiniteSet(Below(Indices(h), p)) /\ Cardinality(Below(Indices(h), p)) \in Nat
      /\ Cardinality(Indices(h)) \in Nat
      /\ Cardinality(Below(Indices(h), p)) <= Cardinality(Indices(h))
      /\ p \in Indices(h) => Cardinality(Below(Indices(h), p)) < Cardinality(Indices(h))
  BY <1>2, BelowFinite
<1> QED BY <1>1, <1>2, <1>3, <1>4

\* What a table stands for.
LEMMA ValueIs ==
  ASSUME NEW h, Core(h)
  PROVE  LET a == Value(h)
             N == h.nNumOfElements
             order == InOrder(Indices(h))
         IN /\ a = [keys |-> a.keys, current |-> a.current, late |-> a.late]
            /\ a.keys \in Seq(Keys) /\ Len(a.keys) = N /\ N \in Nat
            /\ \A n \in 1 .. N : a.keys[n] = h.at[order[n]] /\ order[n] \in Indices(h)
            /\ a.current = Cardinality(Before(h, h.nInternalPointer)) /\ a.current \in 0 .. N
            /\ h.nInternalPointer >= h.nNumUsed => a.current = N
            /\ a.late = (h.nInternalPointer \in Holes(h) \ {0}) /\ a.late \in BOOLEAN
            /\ Elements(h) = {a.keys[n] : n \in 1 .. N}
            /\ \A m, n \in 1 .. N : a.keys[m] = a.keys[n] => m = n
<1> DEFINE a == Value(h)
           N == h.nNumOfElements
           S == Indices(h)
           order == InOrder(S)
           keys == [n \in DOMAIN order |-> h.at[order[n]]]
<1>1. /\ IsFiniteSet(S) /\ \A i \in S : i \in Nat /\ h.at[i] \in Keys
      /\ N = Cardinality(S) /\ N \in Nat
      /\ \A i, j \in S : h.at[i] = h.at[j] => i = j
  BY IndicesAre DEF Core
<1>2. /\ DOMAIN order = 1 .. N
      /\ \A n \in 1 .. N : order[n] \in S
      /\ \A m, n \in 1 .. N : m < n => order[m] < order[n]
      /\ \A i \in S : \E n \in 1 .. N : order[n] = i
  BY <1>1, InOrderIs
<1>3. a = [keys |-> keys, current |-> Cardinality(Before(h, h.nInternalPointer)),
           late |-> h.nInternalPointer \in Holes(h) \ {0}]
  BY DEF Value
<1> HIDE DEF a, S, order
<1>4. keys \in [1 .. N -> Keys] /\ \A n \in 1 .. N : keys[n] = h.at[order[n]]
  BY <1>1, <1>2
<1>5. Elements(h) = {keys[n] : n \in 1 .. N}
  <2>1. Elements(h) = {h.at[i] : i \in S} BY DEF Elements, S
  <2> HIDE DEF keys
  <2> QED BY <1>2, <1>4, <2>1
<1>6. ASSUME NEW m \in 1 .. N, NEW n \in 1 .. N, keys[m] = keys[n] PROVE m = n
  <2>1. h.at[order[m]] = h.at[order[n]] BY <1>4, <1>6
  <2>2. order[m] = order[n] /\ order[m] \in Nat BY <1>1, <1>2, <2>1
  <2>3. ~(order[m] < order[n]) /\ ~(order[n] < order[m]) BY ONLY <2>2
  <2>4. ~(m < n) /\ ~(n < m) BY <1>2, <2>3
  <2> QED BY <1>1, <2>4
<1> HIDE DEF keys
<1>7. keys \in Seq(Keys) /\ Len(keys) = N
  <2>1. keys \in Seq(Keys) BY <1>1, <1>4, IsASeq
  <2> QED BY <1>1, <1>4, <2>1, LenProperties
<1>8. /\ Cardinality(Before(h, h.nInternalPointer)) \in 0 .. N
      /\ h.nInternalPointer >= h.nNumUsed => Cardinality(Before(h, h.nInternalPointer)) = N
  <2>1. h.nInternalPointer \in Nat BY DEF Core, Fields
  <2> QED BY <2>1, BeforeIs
<1> QED BY <1>1, <1>2, <1>3, <1>4, <1>5, <1>6, <1>7, <1>8 DEF a, order, S

\* Two tables with the same buckets and the same pointer stand for one array.
LEMMA ValueSame ==
  ASSUME NEW h, NEW g, g.at = h.at, g.nNumUsed = h.nNumUsed
  PROVE  /\ Indices(g) = Indices(h) /\ Holes(g) = Holes(h) /\ Elements(g) = Elements(h)
         /\ \A p : Before(g, p) = Before(h, p) /\ ValidPos(g, p) = ValidPos(h, p)
         /\ Value(g).keys = Value(h).keys
         /\ g.nInternalPointer = h.nInternalPointer => Value(g) = Value(h)
<1>1. Indices(g) = Indices(h) /\ Holes(g) = Holes(h) BY DEF Indices, Holes
<1>2. Elements(g) = Elements(h) BY <1>1 DEF Elements
<1>3. \A p : Before(g, p) = Before(h, p) /\ ValidPos(g, p) = ValidPos(h, p)
  BY <1>1 DEF Before, ValidPos
<1>4. Value(g).keys = Value(h).keys BY <1>1 DEF Value
<1>5. g.nInternalPointer = h.nInternalPointer => Value(g) = Value(h)
  BY <1>1, <1>3 DEF Value
<1> QED BY <1>1, <1>2, <1>3, <1>4, <1>5

\* The array stays the same, but for a pointer that stands before a gap.
KeepsValue(h, g) ==
    LET a == Value(h)
        b == Value(g)
    IN /\ b.keys = a.keys
       /\ b.late => a.late
       /\ \/ b.current = a.current
          \/ a.late /\ b.current \in a.current .. Len(a.keys)

\* One such operation after another.
LEMMA KeepsTransitive ==
  ASSUME NEW f, NEW g, NEW h, Core(f), Core(g), Core(h), KeepsValue(f, g), KeepsValue(g, h)
  PROVE  KeepsValue(f, h)
<1>1. /\ Value(f).current \in Nat /\ Value(g).current \in Nat /\ Value(h).current \in Nat
      /\ Len(Value(f).keys) \in Nat
  BY ValueIs
<1> QED BY <1>1 DEF KeepsValue

\* Compaction keeps the array.
LEMMA CompactKeeps ==
  ASSUME NEW h, Core(h)
  PROVE  KeepsValue(h, Compact(h)) /\ ~Value(Compact(h)).late
<1> DEFINE g == Compact(h)
           S == Indices(h)
           N == h.nNumOfElements
           p == h.nInternalPointer
           q == g.nInternalPointer
<1>1. /\ Core(g) /\ g.nNumUsed = N /\ g.nNumOfElements = N
      /\ q = IF p \in S THEN Cardinality(Before(h, p)) ELSE p
      /\ Indices(g) = 0 .. N - 1 /\ Holes(g) = {}
      /\ \A n \in 1 .. N : g.at[n - 1] = h.at[InOrder(S)[n]]
  BY CompactIs
<1>2. /\ N \in Nat /\ N <= h.nNumUsed /\ h.nNumUsed \in Nat /\ p \in Nat /\ q \in Nat
      /\ N = Cardinality(S)
  BY <1>1, IndicesAre DEF Core, Fields
<1>3. Value(g).keys = Value(h).keys
  <2> DEFINE u == Value(g).keys
             v == Value(h).keys
  <2>1. /\ u \in Seq(Keys) /\ Len(u) = N
        /\ \A n \in 1 .. N : u[n] = g.at[InOrder(Indices(g))[n]]
    BY <1>1, ValueIs
  <2>2. /\ v \in Seq(Keys) /\ Len(v) = N
        /\ \A n \in 1 .. N : v[n] = h.at[InOrder(S)[n]]
    BY ValueIs
  <2>3. \A n \in 1 .. N : InOrder(Indices(g))[n] = n - 1 BY <1>1, <1>2, InOrderUpTo
  <2>4. \A n \in 1 .. N : u[n] = v[n] BY <1>1, <2>1, <2>2, <2>3
  <2> HIDE DEF u, v, N, g, S
  <2>5. u \in [1 .. N -> Keys] /\ v \in [1 .. N -> Keys] BY <2>1, <2>2, LenProperties
  <2>6. u = v BY ONLY <1>2, <2>4, <2>5, SameSeq
  <2> QED BY <2>6 DEF u, v
<1>4. ~Value(g).late BY <1>1, ValueIs
<1>5. \/ Value(g).current = Value(h).current
      \/ Value(h).late /\ Value(g).current \in Value(h).current .. N
  <2>1. /\ Value(g).current = Cardinality(Before(g, q)) /\ Value(g).current \in 0 .. N
        /\ Value(h).current = Cardinality(Before(h, p)) /\ Value(h).current \in 0 .. N
        /\ q >= N => Value(g).current = N
        /\ p >= h.nNumUsed => Value(h).current = N
        /\ Value(h).late = (p \in Holes(h) \ {0})
    BY <1>1, ValueIs
  <2>2. q \in 0 .. N => Value(g).current = q
    <3>1. Before(g, q) = Below(0 .. N - 1, q) BY <1>1, <1>2, BeforeIs
    <3> QED BY <1>2, <2>1, <3>1, InOrderUpTo
  <2>3. CASE p \in S
    <3>1. q = Value(h).current BY <1>1, <2>1, <2>3
    <3> QED BY <2>1, <2>2, <3>1
  <2>4. CASE p >= h.nNumUsed
    <3>1. p \notin S BY <1>2, <2>4, IndicesAre
    <3>2. q >= N BY <1>1, <1>2, <2>4, <3>1
    <3> QED BY <2>1, <2>4, <3>2
  <2>5. CASE p \in Holes(h)
    <3>1. p \notin S BY <2>5 DEF Holes, Indices
    <3>2. q = p BY <1>1, <3>1
    <3>3. CASE p = 0
      <4>1. Value(g).current = 0 BY <1>2, <2>2, <3>2, <3>3
      <4>2. Before(h, 0) = {} BY IndicesAre DEF Before
      <4> QED BY <2>1, <3>3, <4>1, <4>2, FS_EmptySet
    <3>4. CASE p # 0
      <4>1. Value(h).late BY <2>1, <2>5, <3>4
      <4>2. Cardinality(Before(h, p)) <= p
        <5>1. Before(h, p) \subseteq 0 .. p - 1 BY <1>2, IndicesAre DEF Before
        <5>2. IsFiniteSet(0 .. p - 1) /\ Cardinality(0 .. p - 1) = p BY <1>2, UpTo
        <5> QED BY <5>1, <5>2, FS_Subset
      <4>3. Value(h).current <= Value(g).current
        <5>1. CASE p <= N
          <6>1. Value(g).current = p BY <1>2, <2>2, <3>2, <5>1
          <6> QED BY <2>1, <4>2, <6>1
        <5>2. CASE ~(p <= N)
          <6>1. Value(g).current = N BY <1>2, <2>1, <3>2, <5>2
          <6> QED BY <2>1, <6>1
        <5> QED BY <5>1, <5>2
      <4> QED BY <1>2, <2>1, <4>1, <4>3
    <3> QED BY <3>3, <3>4
  <2> QED BY <1>2, <2>3, <2>4, <2>5, IndicesAre
<1>6. Len(Value(h).keys) = N BY ValueIs
<1> HIDE DEF g, N
<1> QED BY <1>3, <1>4, <1>5, <1>6 DEF KeepsValue, g

-----------------------------------------------------------------------------
(* Compaction, growth, conversion: the array stays                         *)
\* An operation on a table with positions that leaves the array alone.
Kept(w, r) ==
    /\ Pair(r) /\ DOMAIN r.pos = DOMAIN w.pos
    /\ Core(r.h) /\ r.h.nIteratorsCount = w.h.nIteratorsCount
    /\ KeepsValue(w.h, r.h)

\* The table is ready to be used as a hash table.
Threaded(h) == h.chain = Chains(h) /\ Holes(h) = {} /\ h.nNumUsed = h.nNumOfElements

\* So does what leaves the buckets and the pointer alone.
LEMMA KeepsSame ==
  ASSUME NEW h, NEW g, Core(h), Core(g), Value(g) = Value(h) PROVE KeepsValue(h, g)
BY DEF KeepsValue

\* The elements stay the same ones.
LEMMA KeepsElements ==
  ASSUME NEW h, NEW g, Core(h), Core(g), KeepsValue(h, g)
  PROVE  Elements(g) = Elements(h) /\ g.nNumOfElements = h.nNumOfElements
<1>1. Value(g).keys = Value(h).keys BY DEF KeepsValue
<1>2. /\ Len(Value(h).keys) = h.nNumOfElements
      /\ Elements(h) = {Value(h).keys[n] : n \in 1 .. h.nNumOfElements}
  BY ValueIs
<1>3. /\ Len(Value(g).keys) = g.nNumOfElements
      /\ Elements(g) = {Value(g).keys[n] : n \in 1 .. g.nNumOfElements}
  BY ValueIs
<1> QED BY <1>1, <1>2, <1>3

\* One such operation after another, with positions.
LEMMA KeptTransitive ==
  ASSUME NEW u, NEW v, NEW w, Core(u.h), Kept(u, v), Kept(v, w)
  PROVE  Kept(u, w)
<1>1. KeepsValue(u.h, w.h) BY KeepsTransitive DEF Kept
<1> QED BY <1>1 DEF Kept

\* zend_hash_iterators_update moves positions only.
LEMMA UpdateIs ==
  ASSUME NEW w, Pair(w), NEW from, NEW to \in Nat
  PROVE  LET r == Update(w, from, to)
         IN Pair(r) /\ DOMAIN r.pos = DOMAIN w.pos /\ r.h = w.h
<1> DEFINE pos == [x \in DOMAIN w.pos |-> IF w.pos[x] = from THEN to ELSE w.pos[x]]
           r == Update(w, from, to)
<1>1. CASE ~HasIterators(w.h) BY <1>1 DEF Update
<1>2. CASE HasIterators(w.h)
  <2>1. r = [w EXCEPT !.pos = pos] BY <1>2 DEF Update
  <2>2. pos \in [DOMAIN w.pos -> Nat] BY DEF Pair
  <2> HIDE DEF r, pos
  <2>3. r \in [h : {w.h}, pos : {pos}] BY <2>1 DEF Pair
  <2>4. r.h = w.h /\ r.pos = pos /\ r \in [h : {r.h}, pos : {pos}] BY <2>3
  <2> QED BY <2>2, <2>4 DEF Pair, r
<1> QED BY <1>1, <1>2

\* zend_hash_rehash
LEMMA RehashIs ==
  ASSUME NEW w, Pair(w), Core(w.h)
  PROVE  LET r == Rehash(w)
         IN Kept(w, r) /\ Threaded(r.h) /\ r.h.kind = w.h.kind /\ r.h.nTableSize = w.h.nTableSize
<1> DEFINE h == w.h
           N == h.nNumOfElements
           r == Rehash(w)
           P == Kept(w, r) /\ Threaded(r.h) /\ r.h.kind = h.kind /\ r.h.nTableSize = h.nTableSize
<1>1. CASE N = 0
  <2>1. h.nNumUsed = 0 /\ Indices(h) = {} BY <1>1, IndicesAre
  <2>2. r = [w EXCEPT !.h.nNumUsed = 0, !.h.at = <<>>, !.h.chain = Reset(w.h)]
    BY <1>1 DEF Rehash
  <2> DEFINE g == [h EXCEPT !.nNumUsed = 0, !.at = <<>>, !.chain = Reset(h)]
  <2> HIDE DEF r, g, N, P
  <2>3. /\ Fields(g) /\ g.kind = h.kind /\ g.nTableSize = h.nTableSize /\ g.nNumUsed = 0
        /\ g.nNumOfElements = h.nNumOfElements /\ g.nNextFreeElement = h.nNextFreeElement
        /\ g.nIteratorsCount = h.nIteratorsCount /\ g.nInternalPointer = h.nInternalPointer
        /\ g.at = <<>> /\ g.chain = Reset(h)
    BY DEF g, Core, Fields
  <2>4. r = [w EXCEPT !.h = g] BY <2>2 DEF g, Pair
  <2>5. r \in [h : {g}, pos : {w.pos}] BY <2>4 DEF Pair
  <2>6. r.h = g /\ r.pos = w.pos /\ Pair(r) BY <2>5 DEF Pair
  <2>7. h.at = <<>>
    <3>1. h.at \in [{} -> Keys \cup {Hole}] BY <2>1 DEF Core
    <3> QED BY <3>1
  <2>8. /\ Indices(g) = {} /\ Holes(g) = {} /\ Value(g) = Value(h)
    <3>1. g.at = h.at /\ g.nNumUsed = h.nNumUsed /\ g.nInternalPointer = h.nInternalPointer
      BY <2>1, <2>3, <2>7
    <3>2. Indices(g) = Indices(h) /\ Value(g) = Value(h) BY <3>1, ValueSame
    <3>3. Holes(g) = {} BY <2>3 DEF Holes
    <3> QED BY <2>1, <3>2, <3>3
  <2>9. g.nNumUsed = g.nNumOfElements /\ h.nNumUsed <= h.nTableSize BY <1>1, <2>3 DEF Core, N
  <2>10. Core(g) BY <2>1, <2>3, <2>7, <2>8, <2>9 DEF Core
  <2>11. g.chain = Chains(g)
    <3>1. \A c : {i \in Indices(g) : Chain(g, g.at[i]) = c} = {} BY <2>8
    <3>2. \A c : Reverse(InOrder({i \in Indices(g) : Chain(g, g.at[i]) = c})) = <<>>
      BY <3>1, InOrderEmpty
    <3>3. Chains(g) = [c \in 0 .. 2 * g.nTableSize - 1 |-> <<>>] BY <3>2 DEF Chains
    <3> QED BY <2>3, <3>3 DEF Reset
  <2>12. KeepsValue(h, g) BY <2>8, <2>10, KeepsSame
  <2> QED BY <2>3, <2>6, <2>8, <2>9, <2>10, <2>11, <2>12 DEF Kept, Threaded, P, r
<1>2. CASE N # 0 /\ h.nNumUsed = N
  <2> DEFINE g == Rechained(h)
  <2>1. r = [w EXCEPT !.h = g] BY <1>2 DEF Rehash
  <2>2. /\ Core(g) /\ g.kind = h.kind /\ g.nTableSize = h.nTableSize /\ g.nNumUsed = h.nNumUsed
        /\ g.nNumOfElements = h.nNumOfElements /\ g.nIteratorsCount = h.nIteratorsCount
        /\ g.at = h.at /\ g.nInternalPointer = h.nInternalPointer /\ g.chain = Chains(g)
        /\ Holes(g) = Holes(h)
    BY RechainedIs
  <2>3. Value(g) = Value(h) BY <2>2, ValueSame
  <2>4. Holes(h) = {} 
    <3>1. Indices(h) = 0 .. h.nNumUsed - 1 BY <1>2, IndicesAre
    <3> QED BY <3>1 DEF Indices, Holes
  <2>5. KeepsValue(h, g) BY <2>2, <2>3, KeepsSame
  <2> HIDE DEF r, g
  <2>6. r \in [h : {g}, pos : {w.pos}] BY <2>1 DEF Pair
  <2>7. r.h = g /\ r.pos = w.pos /\ Pair(r) BY <2>6 DEF Pair
  <2> QED BY <1>2, <2>2, <2>4, <2>5, <2>7 DEF Kept, Threaded, r
<1>3. CASE N # 0 /\ h.nNumUsed # N
  <2> DEFINE f == Compact(h)
             g == Rechained(f)
             carried == [h |-> g, pos |-> Carried(w)]
  <2>1. r = Update(carried, h.nNumUsed, Cardinality(Indices(h))) BY <1>3 DEF Rehash
  <2>2. /\ Core(f) /\ f.kind = h.kind /\ f.nTableSize = h.nTableSize /\ f.nNumUsed = N
        /\ f.nNumOfElements = N /\ f.nIteratorsCount = h.nIteratorsCount /\ Holes(f) = {}
    BY CompactIs
  <2>3. /\ Core(g) /\ g.kind = f.kind /\ g.nTableSize = f.nTableSize /\ g.nNumUsed = f.nNumUsed
        /\ g.nNumOfElements = f.nNumOfElements /\ g.nIteratorsCount = f.nIteratorsCount
        /\ g.at = f.at /\ g.nInternalPointer = f.nInternalPointer /\ g.chain = Chains(g)
        /\ Holes(g) = Holes(f)
    <3> HIDE DEF f
    <3> QED BY <2>2, RechainedIs
  <2>4. KeepsValue(h, g)
    <3>1. KeepsValue(h, f) BY CompactKeeps
    <3> HIDE DEF f, g
    <3>2. Value(g) = Value(f) BY <2>3, ValueSame
    <3>3. KeepsValue(f, g) BY <2>2, <2>3, <3>2, KeepsSame
    <3> QED BY <2>2, <2>3, <3>1, <3>3, KeepsTransitive
  <2>5. Carried(w) \in [DOMAIN w.pos -> Nat] BY CarriedIs DEF Pair
  <2>6. Pair(carried) /\ carried.h = g /\ DOMAIN carried.pos = DOMAIN w.pos
    <3>1. DOMAIN Carried(w) = DOMAIN w.pos BY <2>5
    <3> HIDE DEF f, g
    <3> QED BY <2>5, <3>1 DEF Pair
  <2>7. Cardinality(Indices(h)) \in Nat BY IndicesAre DEF Core
  <2> HIDE DEF carried, g, f
  <2>8. Pair(r) /\ DOMAIN r.pos = DOMAIN w.pos /\ r.h = g
    BY <2>1, <2>3, <2>6, <2>7, UpdateIs
  <2> HIDE DEF r
  <2> QED BY <2>2, <2>3, <2>4, <2>8 DEF Kept, Threaded, r
<1> QED BY <1>1, <1>2, <1>3

\* Doubling the size.
LEMMA DoubleIs ==
  ASSUME NEW w, Pair(w), Core(w.h)
  PROVE  LET r == Double(w)
         IN /\ Kept(w, r) /\ r.h.kind = w.h.kind /\ r.h.nTableSize = 2 * w.h.nTableSize
            /\ r.h.nNumUsed = w.h.nNumUsed /\ r.h.at = w.h.at
            /\ r.h.nNumOfElements = w.h.nNumOfElements
            /\ r.h.nInternalPointer = w.h.nInternalPointer
            /\ r.h.nNextFreeElement = w.h.nNextFreeElement /\ r.pos = w.pos
<1> DEFINE h == w.h
           g == [h EXCEPT !.nTableSize = 2 * @]
           r == Double(w)
<1>1. r = [w EXCEPT !.h = g] BY DEF Double, Pair
<1> HIDE DEF r, g
<1>2. r \in [h : {g}, pos : {w.pos}] BY <1>1 DEF Pair
<1>3. r.h = g /\ r.pos = w.pos /\ Pair(r) BY <1>2 DEF Pair
<1>4. /\ Fields(g) /\ g.kind = h.kind /\ g.nTableSize = 2 * h.nTableSize
      /\ g.nNumUsed = h.nNumUsed /\ g.at = h.at
      /\ g.nNumOfElements = h.nNumOfElements /\ g.nNextFreeElement = h.nNextFreeElement
      /\ g.nIteratorsCount = h.nIteratorsCount /\ g.nInternalPointer = h.nInternalPointer
  <2> DEFINE n == 2 * h.nTableSize
  <2>1. Fields(h) BY DEF Core
  <2>2. h.nTableSize \in Nat \ {0} BY IndicesAre
  <2>3. n \in Nat \ {0} BY <2>2
  <2>4. g = [h EXCEPT !.nTableSize = n] BY DEF g
  <2> HIDE DEF n, h
  <2>5. /\ Fields(g) /\ g.kind = h.kind /\ g.nTableSize = n
        /\ g.nNumUsed = h.nNumUsed /\ g.at = h.at
        /\ g.nNumOfElements = h.nNumOfElements /\ g.nNextFreeElement = h.nNextFreeElement
        /\ g.nIteratorsCount = h.nIteratorsCount /\ g.nInternalPointer = h.nInternalPointer
    BY <2>1, <2>3, <2>4 DEF Fields
  <2> QED BY <2>5 DEF n
<1>5. Indices(g) = Indices(h) /\ Value(g) = Value(h) BY <1>4, ValueSame
<1>6. g.nNumUsed <= g.nTableSize BY <1>4 DEF Core, Fields
<1>7. Core(g) BY <1>4, <1>5, <1>6 DEF Core
<1>8. KeepsValue(h, g) BY <1>5, <1>7, KeepsSame
<1> QED BY <1>3, <1>4, <1>7, <1>8 DEF Kept, r

-----------------------------------------------------------------------------
(* Insertion                                                               *)
\* Array b is a with the key k at its end.
Extended(a, k, b) ==
    /\ b.keys = Append(a.keys, k)
    /\ \/ b.current = a.current
       \/ a.current = Len(a.keys) /\ b.current = a.current + 1
       \/ a.late /\ b.current \in a.current .. Len(b.keys)
    /\ b.late => a.late \/ a.current = Len(a.keys)

\* A bucket beyond those in use gets an element: the array grows by a key.
LEMMA GrowIs ==
  ASSUME NEW h, NEW g, Core(h), Core(g), NEW i \in Nat, NEW k \in Keys,
         h.nNumUsed <= i, g.nNumUsed = i + 1, Indices(g) = Indices(h) \cup {i},
         g.at[i] = k, \A j \in Indices(h) : g.at[j] = h.at[j],
         g.nInternalPointer = h.nInternalPointer
  PROVE  Extended(Value(h), k, Value(g))
<1> DEFINE S == Indices(h)
           T == Indices(g)
           N == h.nNumOfElements
           u == Value(h).keys
           v == Value(g).keys
           p == h.nInternalPointer
<1>1. /\ IsFiniteSet(S) /\ \A j \in S : j \in Nat /\ j < h.nNumUsed
      /\ h.nNumUsed \in Nat /\ N = Cardinality(S) /\ N \in Nat /\ p \in Nat
      /\ S \subseteq 0 .. h.nNumUsed - 1
      /\ g.nNumOfElements = Cardinality(T) /\ T = S \cup {i}
  BY IndicesAre DEF Core, Fields
<1>2. \A j \in S : j \in Nat /\ j < i BY <1>1
<1>3. /\ Cardinality(T) = N + 1
      /\ \A n \in 1 .. N : InOrder(T)[n] = InOrder(S)[n]
      /\ InOrder(T)[N + 1] = i
  <2> HIDE DEF S, T, N
  <2>1. /\ Cardinality(S \cup {i}) = Cardinality(S) + 1
        /\ \A n \in 1 .. Cardinality(S) : InOrder(S \cup {i})[n] = InOrder(S)[n]
        /\ InOrder(S \cup {i})[Cardinality(S) + 1] = i
    BY <1>1, <1>2, InOrderAppend
  <2>2. S \cup {i} = T /\ Cardinality(S) = N BY <1>1
  <2> QED BY <2>1, <2>2
<1>4. /\ u \in Seq(Keys) /\ Len(u) = N
      /\ \A n \in 1 .. N : u[n] = h.at[InOrder(S)[n]] /\ InOrder(S)[n] \in S
      /\ Value(h).current = Cardinality(Before(h, p)) /\ Value(h).current \in 0 .. N
      /\ p >= h.nNumUsed => Value(h).current = N
      /\ Value(h).late = (p \in Holes(h) \ {0})
  BY ValueIs
<1>5. /\ v \in Seq(Keys) /\ Len(v) = N + 1
      /\ \A n \in 1 .. N + 1 : v[n] = g.at[InOrder(T)[n]]
      /\ Value(g).current = Cardinality(Before(g, p)) /\ Value(g).current \in 0 .. N + 1
      /\ p >= i + 1 => Value(g).current = N + 1
      /\ Value(g).late = (p \in Holes(g) \ {0})
  <2>1. g.nNumOfElements = N + 1 BY <1>1, <1>3
  <2> HIDE DEF N
  <2> QED BY <2>1, ValueIs
<1> HIDE DEF u, v, S, T, N
<1>6. v = Append(u, k)
  <2>1. /\ Append(u, k) \in Seq(Keys) /\ Len(Append(u, k)) = N + 1
        /\ \A n \in 1 .. N : Append(u, k)[n] = u[n]
        /\ Append(u, k)[N + 1] = k
    BY <1>1, <1>4, AppendProperties
  <2>2. \A n \in 1 .. N : v[n] = u[n]
    <3> SUFFICES ASSUME NEW n \in 1 .. N PROVE v[n] = u[n] OBVIOUS
    <3>1. n \in 1 .. N + 1 BY <1>1
    <3>2. InOrder(T)[n] = InOrder(S)[n] /\ InOrder(S)[n] \in S BY <1>3, <1>4
    <3> QED BY <1>4, <1>5, <3>1, <3>2 DEF S
  <2>3. v[N + 1] = k
    <3>1. N + 1 \in 1 .. N + 1 BY <1>1
    <3> QED BY <1>3, <1>5, <3>1
  <2> DEFINE a == Append(u, k)
             M == N + 1
  <2>4. \A n \in 1 .. N + 1 : v[n] = a[n]
    <3> SUFFICES ASSUME NEW n \in 1 .. N + 1 PROVE v[n] = a[n] OBVIOUS
    <3>1. n \in 1 .. N \/ n = N + 1 BY <1>1
    <3> QED BY <2>1, <2>2, <2>3, <3>1
  <2>5. v \in [1 .. N + 1 -> Keys] /\ a \in [1 .. N + 1 -> Keys] BY <1>5, <2>1, LenProperties
  <2>6. M \in Nat BY <1>1
  <2> HIDE DEF a
  <2>7. v \in [1 .. M -> Keys] /\ a \in [1 .. M -> Keys] /\ \A n \in 1 .. M : v[n] = a[n]
    BY <2>4, <2>5
  <2> HIDE DEF M
  <2>8. v = a BY ONLY <2>6, <2>7, SameSeq
  <2> QED BY <2>8 DEF a
<1>7. \/ Value(g).current = Value(h).current
      \/ Value(h).current = N /\ Value(g).current = N + 1
  <2>1. CASE p >= i + 1
    <3>1. p >= h.nNumUsed BY <1>1, <2>1
    <3> QED BY <1>4, <1>5, <2>1, <3>1
  <2>2. CASE p <= i
    <3>1. Before(g, p) = Before(h, p) BY <1>1, <1>2, <2>2 DEF Before, S, T
    <3> QED BY <1>4, <1>5, <3>1
  <2> QED BY <1>1, <2>1, <2>2
<1>8. Value(g).late => Value(h).late \/ Value(h).current = N
  <2> SUFFICES ASSUME Value(g).late, p < h.nNumUsed PROVE Value(h).late BY <1>1, <1>4
  <2>1. p \in Holes(g) /\ p # 0 BY <1>5
  <2>2. p \notin T BY <2>1 DEF T, Indices, Holes
  <2>3. p \notin S BY <1>1, <2>2
  <2>4. p \in Holes(h) BY <1>1, <2>3, IndicesAre DEF S
  <2> QED BY <1>4, <2>1, <2>4
<1> QED BY <1>4, <1>6, <1>7, <1>8 DEF Extended, u, v

\* A new key after steps that left the array alone.
LEMMA KeepsThenExtended ==
  ASSUME NEW f, NEW g, NEW h, NEW k \in Keys, Core(f), Core(g), Core(h),
         KeepsValue(f, g), Extended(Value(g), k, Value(h))
  PROVE  Extended(Value(f), k, Value(h))
<1>1. /\ Value(f).current \in 0 .. Len(Value(f).keys) /\ Value(g).current \in Nat
      /\ Value(h).current \in Nat
      /\ Len(Value(f).keys) \in Nat /\ Value(f).keys \in Seq(Keys)
      /\ Value(h).late \in BOOLEAN /\ Value(g).late \in BOOLEAN /\ Value(f).late \in BOOLEAN
  BY ValueIs
<1>2. /\ Value(h).keys = Append(Value(f).keys, k)
      /\ Len(Value(h).keys) = Len(Value(f).keys) + 1
  BY <1>1, AppendProperties DEF KeepsValue, Extended
<1>3. Value(h).late => Value(f).late \/ Value(f).current = Len(Value(f).keys)
  BY <1>1 DEF KeepsValue, Extended
<1>4. \/ Value(h).current = Value(f).current
      \/ Value(f).current = Len(Value(f).keys) /\ Value(h).current = Value(f).current + 1
      \/ Value(f).late /\ Value(h).current \in Value(f).current .. Len(Value(h).keys)
  BY <1>1, <1>2 DEF KeepsValue, Extended
<1> QED BY <1>2, <1>3, <1>4 DEF Extended

-----------------------------------------------------------------------------

\* DoResize leaves room for another element.
LEMMA DoResizeIs ==
  ASSUME NEW w, Pair(w), Core(w.h), w.h.kind = "hash", w.h.nNumUsed >= w.h.nTableSize
  PROVE  LET r == DoResize(w)
         IN Kept(w, r) /\ Threaded(r.h) /\ r.h.kind = "hash" /\ r.h.nNumUsed < r.h.nTableSize
<1> DEFINE h == w.h
           N == h.nNumOfElements
           r == DoResize(w)
<1>1. /\ h.nNumUsed \in Nat /\ h.nTableSize \in Nat \ {0} /\ N \in Nat /\ N <= h.nNumUsed
      /\ h.nNumUsed <= h.nTableSize
  BY IndicesAre DEF Core
<1>2. CASE h.nNumUsed > N + N \div 32
  <2>1. r = Rehash(w) BY <1>2 DEF DoResize
  <2>2. N < h.nNumUsed
    <3>1. N \div 32 \in Nat BY <1>1
    <3> QED BY <1>1, <1>2, <3>1
  <2> HIDE DEF r
  <2>3. Kept(w, r) /\ Threaded(r.h) /\ r.h.kind = h.kind /\ r.h.nTableSize = h.nTableSize
    BY <2>1, RehashIs
  <2>4. r.h.nNumUsed = N
    <3>1. Core(r.h) /\ KeepsValue(h, r.h) BY <2>3 DEF Kept
    <3>2. r.h.nNumOfElements = N BY <3>1, KeepsElements
    <3> QED BY <2>3, <3>2 DEF Threaded
  <2> QED BY <1>1, <2>2, <2>3, <2>4 DEF r
<1>3. CASE ~(h.nNumUsed > N + N \div 32)
  <2> DEFINE d == Double(w)
  <2>1. r = Rehash(d) BY <1>3 DEF DoResize
  <2>2. /\ Kept(w, d) /\ d.h.kind = h.kind /\ d.h.nTableSize = 2 * h.nTableSize
        /\ d.h.nNumOfElements = N
    BY DoubleIs
  <2> HIDE DEF r, d
  <2>3. Pair(d) /\ Core(d.h) BY <2>2 DEF Kept
  <2>4. Kept(d, r) /\ Threaded(r.h) /\ r.h.kind = d.h.kind /\ r.h.nTableSize = d.h.nTableSize
    BY <2>1, <2>3, RehashIs
  <2>5. r.h.nNumUsed = N
    <3>1. Core(r.h) /\ KeepsValue(d.h, r.h) BY <2>4 DEF Kept
    <3>2. r.h.nNumOfElements = N BY <2>2, <2>3, <3>1, KeepsElements
    <3> QED BY <2>4, <3>2 DEF Threaded
  <2>6. Kept(w, r) BY <2>2, <2>4, KeptTransitive
  <2>7. N < 2 * h.nTableSize BY <1>1
  <2> QED BY <2>2, <2>4, <2>5, <2>6, <2>7 DEF r
<1> QED BY <1>2, <1>3

\* A table of another kind, or with other chains, holds the same array.
LEMMA SameArray ==
  ASSUME NEW w, Core(w.h), NEW r, Pair(r), r.pos = w.pos, Fields(r.h),
         r.h.nTableSize = w.h.nTableSize, r.h.nNumUsed = w.h.nNumUsed, r.h.at = w.h.at,
         r.h.nNumOfElements = w.h.nNumOfElements,
         r.h.nNextFreeElement = w.h.nNextFreeElement,
         r.h.nInternalPointer = w.h.nInternalPointer,
         r.h.nIteratorsCount = w.h.nIteratorsCount
  PROVE  Kept(w, r)
<1>1. Indices(r.h) = Indices(w.h) /\ Value(r.h) = Value(w.h) BY ValueSame
<1>2. Core(r.h) BY <1>1 DEF Core
<1>3. KeepsValue(w.h, r.h) BY <1>1, <1>2, KeepsSame
<1> QED BY <1>2, <1>3 DEF Kept

\* zend_hash_packed_to_hash
LEMMA PackedToHashIs ==
  ASSUME NEW w, Pair(w), Core(w.h)
  PROVE  LET r == PackedToHash(w)
         IN /\ Kept(w, r) /\ Threaded(r.h) /\ r.h.kind = "hash"
            /\ r.h.nTableSize = w.h.nTableSize /\ r.h.nNumUsed = w.h.nNumOfElements
<1> DEFINE d == [w EXCEPT !.h.kind = "hash"]
           r == PackedToHash(w)
           g == [w.h EXCEPT !.kind = "hash"]
<1>1. d = [w EXCEPT !.h = g] BY DEF Pair
<1>2. r = Rehash(d) BY DEF PackedToHash
<1> HIDE DEF g, r
<1>8. /\ Fields(g) /\ g.kind = "hash" /\ g.nTableSize = w.h.nTableSize
      /\ g.nNumUsed = w.h.nNumUsed /\ g.at = w.h.at
      /\ g.nNumOfElements = w.h.nNumOfElements
      /\ g.nNextFreeElement = w.h.nNextFreeElement
      /\ g.nIteratorsCount = w.h.nIteratorsCount
      /\ g.nInternalPointer = w.h.nInternalPointer
  BY DEF g, Core, Fields
<1> HIDE DEF d
<1>9. d.h = g /\ d.pos = w.pos /\ Pair(d)
  <2>1. d \in [h : {g}, pos : {w.pos}] BY <1>1 DEF Pair
  <2> QED BY <2>1 DEF Pair
<1>3. Kept(w, d) /\ d.h.kind = "hash" /\ d.h.nTableSize = w.h.nTableSize
      /\ d.h.nNumOfElements = w.h.nNumOfElements
  BY <1>8, <1>9, SameArray
<1>4. Pair(d) /\ Core(d.h) BY <1>3 DEF Kept
<1>5. Kept(d, r) /\ Threaded(r.h) /\ r.h.kind = d.h.kind /\ r.h.nTableSize = d.h.nTableSize
  BY <1>2, <1>4, RehashIs
<1>6. Kept(w, r) BY <1>3, <1>5, KeptTransitive
<1>7. r.h.nNumUsed = w.h.nNumOfElements
  <2>1. Core(r.h) /\ KeepsValue(d.h, r.h) BY <1>5 DEF Kept
  <2>2. r.h.nNumOfElements = d.h.nNumOfElements BY <1>4, <2>1, KeepsElements
  <2> QED BY <1>3, <1>5, <2>2 DEF Threaded
<1> QED BY <1>3, <1>5, <1>6, <1>7 DEF r

\* The array has got the key k, and the table is sound.
Grown(w, k, r) ==
    /\ Pair(r) /\ DOMAIN r.pos = DOMAIN w.pos
    /\ Sound(r.h) /\ r.h.nIteratorsCount = w.h.nIteratorsCount
    /\ Extended(Value(w.h), k, Value(r.h))

\* Insertion after an operation that keeps the array.
LEMMA KeptThenGrown ==
  ASSUME NEW u, NEW v, NEW w, NEW k \in Keys, Core(u.h), Kept(u, v), Grown(v, k, w)
  PROVE  Grown(u, k, w)
<1>1. Core(v.h) /\ Core(w.h) /\ KeepsValue(u.h, v.h) /\ Extended(Value(v.h), k, Value(w.h))
  BY DEF Kept, Grown, Sound
<1>2. Extended(Value(u.h), k, Value(w.h)) BY <1>1, KeepsThenExtended
<1> QED BY <1>2 DEF Kept, Grown

\* One more element: what Core asks for.
LEMMA GrowCore ==
  ASSUME NEW h, NEW g, Core(h), Fields(g), NEW i \in Nat, NEW k \in Keys,
         h.nNumUsed <= i, i < g.nTableSize, g.nNumUsed = i + 1,
         g.nNumOfElements = h.nNumOfElements + 1,
         g.at \in [0 .. i -> Keys \cup {Hole}], g.at[i] = k,
         \A j \in 0 .. i - 1 : g.at[j] = IF j < h.nNumUsed THEN h.at[j] ELSE Hole,
         k \notin Elements(h),
         \A j \in Indices(h) : h.at[j] \in Ints => h.at[j] < g.nNextFreeElement,
         k \in Ints => k < g.nNextFreeElement
  PROVE  /\ Core(g) /\ Indices(g) = Indices(h) \cup {i}
         /\ \A j \in Indices(h) : g.at[j] = h.at[j]
<1>1. /\ IsFiniteSet(Indices(h)) /\ \A j \in Indices(h) : j \in Nat /\ j < h.nNumUsed
      /\ h.nNumUsed \in Nat /\ \A j \in Indices(h) : h.at[j] \in Keys
      /\ h.nNumOfElements = Cardinality(Indices(h))
  BY IndicesAre DEF Core, Fields
<1>2. Hole \notin Keys /\ Ints \subseteq Nat BY KeysAssumption
<1>3. Indices(g) = Indices(h) \cup {i}
  <2>1. ASSUME NEW j \in 0 .. i PROVE g.at[j] # Hole <=> (j \in Indices(h) \/ j = i)
    <3>1. CASE j = i BY <1>2, <3>1
    <3>2. CASE j < i /\ j < h.nNumUsed
      <4>1. g.at[j] = h.at[j] BY <3>2
      <4>2. j \in 0 .. h.nNumUsed - 1 BY <1>1, <3>2
      <4> QED BY <3>2, <4>1, <4>2 DEF Indices
    <3>3. CASE j < i /\ ~(j < h.nNumUsed)
      <4>1. g.at[j] = Hole BY <3>3
      <4>2. j \notin Indices(h) BY <1>1, <3>3
      <4> QED BY <3>3, <4>1, <4>2
    <3> QED BY <3>1, <3>2, <3>3
  <2>2. 0 .. g.nNumUsed - 1 = 0 .. i OBVIOUS
  <2>3. \A j \in Indices(h) : j \in 0 .. i BY <1>1
  <2> QED BY <2>1, <2>2, <2>3 DEF Indices
<1>4. \A j \in Indices(h) : j # i /\ g.at[j] = h.at[j]
  <2> SUFFICES ASSUME NEW j \in Indices(h) PROVE j # i /\ g.at[j] = h.at[j] OBVIOUS
  <2>1. j \in Nat /\ j < h.nNumUsed BY <1>1
  <2>2. j \in 0 .. i - 1 BY <1>1, <2>1
  <2> QED BY <2>1, <2>2
<1>5. \A j \in Indices(h) : h.at[j] # k BY DEF Elements
<1>6. \A j, m \in Indices(g) : g.at[j] = g.at[m] => j = m
  BY <1>3, <1>4, <1>5 DEF Core
<1>7. g.nNumOfElements = Cardinality(Indices(g))
  <2>1. i \notin Indices(h) BY <1>4
  <2>2. Cardinality(Indices(h) \cup {i}) = Cardinality(Indices(h)) + 1
    BY <1>1, <2>1, FS_AddElement
  <2> QED BY <1>1, <1>3, <2>2
<1>8. \A j \in Indices(g) : g.at[j] \in Ints => g.at[j] < g.nNextFreeElement
  <2> SUFFICES ASSUME NEW j \in Indices(h), h.at[j] \in Ints
               PROVE  h.at[j] < g.nNextFreeElement
    BY <1>3, <1>4
  <2> QED OBVIOUS
<1>9. 0 .. g.nNumUsed - 1 = 0 .. i /\ g.nNumUsed - 1 = i /\ g.nNumUsed <= g.nTableSize
  BY DEF Fields
<1>10. Core(g) BY <1>2, <1>6, <1>7, <1>8, <1>9 DEF Core
<1> QED BY <1>3, <1>4, <1>10

\* nNextFreeElement goes beyond an integer key that comes.
LEMMA NextFreeIs ==
  ASSUME NEW h, Core(h), NEW k \in Keys
  PROVE  /\ NextFree(h, k) \in Nat /\ h.nNextFreeElement <= NextFree(h, k)
         /\ k \in Ints => k < NextFree(h, k)
<1>1. h.nNextFreeElement \in Nat BY DEF Core, Fields
<1>2. k \in Ints => k \in Nat BY KeysAssumption
<1> QED BY <1>1, <1>2 DEF NextFree

\* Putting an element at the end of a hash table with room for it.
LEMMA AddToHashIs ==
  ASSUME NEW w, Pair(w), Core(w.h), w.h.kind = "hash", w.h.chain = Chains(w.h),
         w.h.nInternalPointer \notin Holes(w.h), w.h.nNumUsed < w.h.nTableSize,
         NEW k \in Keys, k \notin Elements(w.h)
  PROVE  Grown(w, k, AddToHash(w, k))
<1> DEFINE h == w.h
           i == h.nNumUsed
           ck == Chain(h, k)
           at == [j \in 0 .. i |-> IF j = i THEN k ELSE h.at[j]]
           chain == [h.chain EXCEPT ![ck] = <<i>> \o @]
           g == [h EXCEPT !.nNumUsed = i + 1, !.nNumOfElements = @ + 1, !.at = at,
                          !.chain = chain, !.nNextFreeElement = NextFree(h, k)]
           r == AddToHash(w, k)
<1>1. /\ i \in Nat /\ h.nTableSize \in Nat \ {0} /\ h.nNumOfElements \in Nat
      /\ h.at \in [0 .. i - 1 -> Keys \cup {Hole}]
  BY IndicesAre DEF Core
<1>2. r = [w EXCEPT !.h = g] BY DEF AddToHash, PutLast
<1> HIDE DEF r, g
<1>3. r.h = g /\ r.pos = w.pos /\ Pair(r)
  <2>1. r \in [h : {g}, pos : {w.pos}] BY <1>2 DEF Pair
  <2> QED BY <2>1 DEF Pair
<1> HIDE DEF at, chain
<1>4. /\ Fields(g) /\ g.kind = "hash" /\ g.nTableSize = h.nTableSize
      /\ g.nNumUsed = i + 1 /\ g.nNumOfElements = h.nNumOfElements + 1
      /\ g.at = at /\ g.chain = chain /\ g.nNextFreeElement = NextFree(h, k)
      /\ g.nIteratorsCount = h.nIteratorsCount /\ g.nInternalPointer = h.nInternalPointer
  <2>1. Fields(h) /\ NextFree(h, k) \in Nat BY NextFreeIs DEF Core
  <2> DEFINE n == i + 1
             e == h.nNumOfElements + 1
             f == NextFree(h, k)
  <2>2. n \in Nat /\ e \in Nat /\ f \in Nat BY <1>1, <2>1
  <2> HIDE DEF n, e, f
  <2>3. g = [h EXCEPT !.nNumUsed = n, !.nNumOfElements = e, !.at = at,
                      !.chain = chain, !.nNextFreeElement = f]
    BY DEF g, n, e, f
  <2>4. /\ Fields(g) /\ g.kind = h.kind /\ g.nTableSize = h.nTableSize
        /\ g.nNumUsed = n /\ g.nNumOfElements = e
        /\ g.at = at /\ g.chain = chain /\ g.nNextFreeElement = f
        /\ g.nIteratorsCount = h.nIteratorsCount /\ g.nInternalPointer = h.nInternalPointer
    BY <2>1, <2>2, <2>3 DEF Fields
  <2> QED BY <2>4 DEF n, e, f
<1>5. /\ at \in [0 .. i -> Keys \cup {Hole}] /\ at[i] = k
      /\ \A j \in 0 .. i - 1 : at[j] = h.at[j]
  BY <1>1 DEF at
<1>6. /\ Core(g) /\ Indices(g) = Indices(h) \cup {i}
      /\ \A j \in Indices(h) : g.at[j] = h.at[j]
  <2>1. /\ \A j \in Indices(h) : h.at[j] \in Ints => h.at[j] < NextFree(h, k)
        /\ k \in Ints => k < NextFree(h, k)
    <3>1. /\ h.nNextFreeElement \in Nat /\ h.nNextFreeElement <= NextFree(h, k)
          /\ NextFree(h, k) \in Nat
      BY NextFreeIs DEF Core, Fields
    <3>2. ASSUME NEW j \in Indices(h), h.at[j] \in Ints PROVE h.at[j] < NextFree(h, k)
      <4>1. h.at[j] \in Nat /\ h.at[j] < h.nNextFreeElement
        BY <3>2, KeysAssumption DEF Core
      <4> QED BY <3>1, <4>1
    <3> QED BY <3>2, NextFreeIs
  <2>2. /\ i < g.nTableSize /\ g.at \in [0 .. i -> Keys \cup {Hole}] /\ g.at[i] = k
        /\ \A j \in 0 .. i - 1 : g.at[j] = IF j < h.nNumUsed THEN h.at[j] ELSE Hole
    BY <1>1, <1>4, <1>5
  <2>3. i <= i BY <1>1
  <2>4. h.nNumUsed = i /\ h.nNumUsed <= i BY <2>3
  <2> HIDE DEF i
  <2> QED BY <1>1, <1>4, <2>1, <2>2, <2>4, GrowCore
<1>7. Extended(Value(h), k, Value(g))
  <2>1. h.nNumUsed <= i /\ g.nNumUsed = i + 1 /\ g.at[i] = k BY <1>1, <1>4, <1>5
  <2> HIDE DEF i
  <2> QED BY <1>1, <1>4, <1>6, <2>1, GrowIs
<1>8. g.chain = Chains(g)
  <2>1. ck \in 0 .. 2 * h.nTableSize - 1 BY ChainIs
  <2>2. ASSUME NEW c \in 0 .. 2 * h.nTableSize - 1
        PROVE  chain[c] = Reverse(InOrder({j \in Indices(g) : Chain(g, g.at[j]) = c}))
    <3> DEFINE S == {j \in Indices(h) : Chain(h, h.at[j]) = c}
               T == {j \in Indices(g) : Chain(g, g.at[j]) = c}
    <3>1. /\ IsFiniteSet(S) /\ \A j \in S : j \in Nat
          /\ h.chain[c] = Reverse(InOrder(S))
      BY ChainsAre
    <3>2. \A x : Chain(g, x) = Chain(h, x) BY <1>4 DEF Chain
    <3>3. \A j \in S : j < i BY <1>1, IndicesAre
    <3>4. CASE c = ck
      <4>1. T = S \cup {i} BY <1>4, <1>5, <1>6, <3>2, <3>4
      <4>2. chain[c] = <<i>> \o h.chain[c] BY <2>1, <3>4 DEF chain, Chains
      <4> HIDE DEF S, T
      <4>3. Reverse(InOrder(S \cup {i})) = <<i>> \o Reverse(InOrder(S))
        BY <1>1, <3>1, <3>3, ReverseAppend
      <4>4. chain[c] = Reverse(InOrder(T)) BY <3>1, <4>1, <4>2, <4>3
      <4> QED BY <4>4 DEF T
    <3>5. CASE c # ck
      <4>1. T = S BY <1>4, <1>5, <1>6, <3>2, <3>5
      <4>2. chain[c] = h.chain[c] BY <2>1, <3>5 DEF chain, Chains
      <4> HIDE DEF S, T
      <4>3. chain[c] = Reverse(InOrder(T)) BY <3>1, <4>1, <4>2
      <4> QED BY <4>3 DEF T
    <3> QED BY <3>4, <3>5
  <2>3. chain = [c \in 0 .. 2 * h.nTableSize - 1 |-> chain[c]] BY DEF chain, Chains
  <2>4. chain = [c \in 0 .. 2 * g.nTableSize - 1 |->
                    Reverse(InOrder({j \in Indices(g) : Chain(g, g.at[j]) = c}))]
    BY <1>4, <2>2, <2>3
  <2> QED BY <1>4, <2>4 DEF Chains
<1>9. g.nInternalPointer \notin Holes(g)
  <2>1. \A j \in Holes(g) : j \in Holes(h)
    <3> SUFFICES ASSUME NEW j \in Holes(g) PROVE j \in Holes(h) OBVIOUS
    <3>1. j \in 0 .. i /\ at[j] = Hole BY <1>1, <1>4 DEF Holes
    <3>2. j # i BY <1>5, <3>1, KeysAssumption
    <3>3. j \in 0 .. i - 1 BY <1>1, <3>1, <3>2
    <3> QED BY <1>5, <3>1, <3>3 DEF Holes
  <2> QED BY <1>4, <2>1
<1>10. Sound(g) BY <1>4, <1>6, <1>8, <1>9 DEF Sound, Form
<1> QED BY <1>3, <1>4, <1>7, <1>10 DEF Grown, r

\* Putting an element at its index in a packed table with room for it.
LEMMA AddToPackedIs ==
  ASSUME NEW w, Pair(w), Core(w.h), w.h.kind = "packed",
         \A j \in Indices(w.h) : w.h.at[j] = j,
         NEW k \in Ints, w.h.nNumUsed <= k, k < w.h.nTableSize
  PROVE  Grown(w, k, AddToPacked(w, k))
<1> DEFINE h == w.h
           at == [j \in 0 .. k |-> IF j = k THEN k
                                   ELSE IF j < h.nNumUsed THEN h.at[j] ELSE Hole]
           g == [h EXCEPT !.nNumUsed = k + 1, !.nNumOfElements = @ + 1, !.at = at,
                          !.nNextFreeElement = k + 1]
           r == AddToPacked(w, k)
<1>1. /\ h.nNumUsed \in Nat /\ h.nTableSize \in Nat \ {0} /\ h.nNumOfElements \in Nat
      /\ h.at \in [0 .. h.nNumUsed - 1 -> Keys \cup {Hole}]
      /\ k \in Nat /\ k \in Keys
  BY IndicesAre, KeysAssumption DEF Core, Keys
<1>2. r = [w EXCEPT !.h = g] BY DEF AddToPacked, PutAt
<1> HIDE DEF r, g
<1>3. r.h = g /\ r.pos = w.pos /\ Pair(r)
  <2>1. r \in [h : {g}, pos : {w.pos}] BY <1>2 DEF Pair
  <2> QED BY <2>1 DEF Pair
<1> HIDE DEF at
<1>4. /\ Fields(g) /\ g.kind = "packed" /\ g.nTableSize = h.nTableSize
      /\ g.nNumUsed = k + 1 /\ g.nNumOfElements = h.nNumOfElements + 1
      /\ g.at = at /\ g.nNextFreeElement = k + 1
      /\ g.nIteratorsCount = h.nIteratorsCount /\ g.nInternalPointer = h.nInternalPointer
  <2>1. Fields(h) BY DEF Core
  <2> DEFINE n == k + 1
             e == h.nNumOfElements + 1
  <2>2. n \in Nat /\ e \in Nat BY <1>1
  <2> HIDE DEF n, e
  <2>3. g = [h EXCEPT !.nNumUsed = n, !.nNumOfElements = e, !.at = at,
                      !.nNextFreeElement = n]
    BY DEF g, n, e
  <2>4. /\ Fields(g) /\ g.kind = h.kind /\ g.nTableSize = h.nTableSize
        /\ g.nNumUsed = n /\ g.nNumOfElements = e
        /\ g.at = at /\ g.nNextFreeElement = n
        /\ g.nIteratorsCount = h.nIteratorsCount /\ g.nInternalPointer = h.nInternalPointer
    BY <2>1, <2>2, <2>3 DEF Fields
  <2> QED BY <2>4 DEF n, e
<1>5. /\ at \in [0 .. k -> Keys \cup {Hole}] /\ at[k] = k
      /\ \A j \in 0 .. k - 1 : at[j] = IF j < h.nNumUsed THEN h.at[j] ELSE Hole
  BY <1>1 DEF at
<1>6. k \notin Elements(h) BY <1>1, IndicesAre DEF Elements
<1>7. \A j \in Indices(h) : h.at[j] < k + 1 BY <1>1, IndicesAre
<1>8. /\ Core(g) /\ Indices(g) = Indices(h) \cup {k}
      /\ \A j \in Indices(h) : g.at[j] = h.at[j]
  <2>1. /\ k < g.nTableSize /\ g.at \in [0 .. k -> Keys \cup {Hole}] /\ g.at[k] = k
        /\ \A j \in 0 .. k - 1 : g.at[j] = IF j < h.nNumUsed THEN h.at[j] ELSE Hole
        /\ \A j \in Indices(h) : h.at[j] < g.nNextFreeElement
        /\ k < g.nNextFreeElement
    BY <1>1, <1>4, <1>5, <1>7
  <2> QED BY <1>1, <1>4, <1>6, <2>1, GrowCore
<1>9. Extended(Value(h), k, Value(g)) BY <1>1, <1>4, <1>5, <1>8, GrowIs
<1>10. \A j \in Indices(g) : g.at[j] = j BY <1>4, <1>5, <1>8
<1>11. Sound(g) BY <1>4, <1>8, <1>10 DEF Sound, Form
<1> QED BY <1>3, <1>4, <1>9, <1>11 DEF Grown, r

\* Nothing happens to a table.
LEMMA KeptSelf == ASSUME NEW w, Pair(w), Core(w.h) PROVE Kept(w, w)
BY DEF Kept, KeepsValue

\* A hash table with room for an element.
Ready(w, r) ==
    /\ Kept(w, r) /\ r.h.kind = "hash" /\ r.h.chain = Chains(r.h)
    /\ r.h.nInternalPointer \notin Holes(r.h) /\ r.h.nNumUsed < r.h.nTableSize

\* A table with room for the key takes it.
LEMMA AddWhenReady ==
  ASSUME NEW w, NEW r, Core(w.h), Ready(w, r), NEW k \in Keys, k \notin Elements(w.h)
  PROVE  Grown(w, k, AddToHash(r, k))
<1>1. Pair(r) /\ Core(r.h) /\ KeepsValue(w.h, r.h) BY DEF Ready, Kept
<1>2. k \notin Elements(r.h) BY <1>1, KeepsElements
<1>3. Grown(r, k, AddToHash(r, k)) BY <1>1, <1>2, AddToHashIs DEF Ready
<1> QED BY <1>3, KeptThenGrown DEF Ready

\* Any table with room is ready once it has been rehashed.
LEMMA ThreadedIsReady ==
  ASSUME NEW w, NEW r, Kept(w, r), Threaded(r.h), r.h.kind = "hash",
         r.h.nNumUsed < r.h.nTableSize
  PROVE  Ready(w, r)
BY DEF Ready, Threaded

\* ZEND_HASH_IF_FULL_DO_RESIZE makes room.
LEMMA IfFullDoResizeIs ==
  ASSUME NEW w, Pair(w), Sound(w.h), w.h.kind = "hash"
  PROVE  Ready(w, IfFullDoResize(w))
<1>1. CASE w.h.nNumUsed >= w.h.nTableSize
  <2>1. IfFullDoResize(w) = DoResize(w) BY <1>1 DEF IfFullDoResize
  <2>2. Core(w.h) BY DEF Sound
  <2> QED BY <1>1, <2>1, <2>2, DoResizeIs, ThreadedIsReady
<1>2. CASE ~(w.h.nNumUsed >= w.h.nTableSize)
  <2>1. IfFullDoResize(w) = w BY <1>2 DEF IfFullDoResize
  <2>2. w.h.nNumUsed < w.h.nTableSize BY <1>2 DEF Sound, Core, Fields
  <2>3. Kept(w, w) BY KeptSelf DEF Sound
  <2> QED BY <2>1, <2>2, <2>3 DEF Ready, Sound, Form
<1> QED BY <1>1, <1>2

\* zend_hash_real_init
LEMMA RealInitIs ==
  ASSUME NEW w, Pair(w), Sound(w.h), w.h.kind = "uninit", NEW kind \in {"packed", "hash"}
  PROVE  LET r == RealInit(w, kind)
         IN /\ Kept(w, r) /\ r.h.kind = kind /\ r.h.nNumUsed = 0
            /\ r.h.nTableSize = w.h.nTableSize /\ Indices(r.h) = {}
            /\ kind = "hash" => Ready(w, r)
<1> DEFINE h == w.h
           chain == IF kind = "hash" THEN Reset(w.h) ELSE <<>>
           n == IF kind = "hash" /\ h.nTableSize # MinSize THEN 0 ELSE h.nIteratorsCount
           g == [h EXCEPT !.kind = kind, !.chain = chain, !.nIteratorsCount = n]
           r == RealInit(w, kind)
<1>1. Core(h) /\ h.nNumUsed = 0 /\ n = h.nIteratorsCount BY DEF Sound, Form
<1> HIDE DEF g, chain, n
<1>2. r = [w EXCEPT !.h = g]
  <2> DEFINE c == IF kind = "hash" THEN Reset(w.h) ELSE <<>>
  <2>1. r = [w EXCEPT !.h.kind = kind, !.h.chain = c, !.h.nIteratorsCount = n]
    BY DEF RealInit, n
  <2>2. g = [w.h EXCEPT !.kind = kind, !.chain = c, !.nIteratorsCount = n] BY DEF g, chain
  <2> HIDE DEF c, r
  <2> QED BY <2>1, <2>2 DEF Pair
<1>3. /\ Fields(g) /\ g.kind = kind /\ g.nTableSize = h.nTableSize
      /\ g.nNumUsed = h.nNumUsed /\ g.at = h.at /\ g.chain = chain
      /\ g.nNumOfElements = h.nNumOfElements
      /\ g.nNextFreeElement = h.nNextFreeElement
      /\ g.nIteratorsCount = h.nIteratorsCount
      /\ g.nInternalPointer = h.nInternalPointer
  <2>1. Fields(h) BY <1>1 DEF Core
  <2>2. g = [h EXCEPT !.kind = kind, !.chain = chain, !.nIteratorsCount = n] BY DEF g
  <2> QED BY <1>1, <2>1, <2>2 DEF Fields
<1> HIDE DEF r
<1>4. r.h = g /\ r.pos = w.pos /\ Pair(r)
  <2>1. r \in [h : {g}, pos : {w.pos}] BY <1>2 DEF Pair
  <2> QED BY <2>1 DEF Pair
<1>5. Kept(w, r) BY <1>1, <1>3, <1>4, SameArray
<1>6. Indices(g) = {} /\ Holes(g) = {} BY <1>1, <1>3 DEF Indices, Holes
<1>7. kind = "hash" => g.chain = Chains(g)
  <2>1. \A c : {i \in Indices(g) : Chain(g, g.at[i]) = c} = {} BY <1>6
  <2>2. \A c : Reverse(InOrder({i \in Indices(g) : Chain(g, g.at[i]) = c})) = <<>>
    BY <2>1, InOrderEmpty
  <2>3. Chains(g) = [c \in 0 .. 2 * g.nTableSize - 1 |-> <<>>] BY <2>2 DEF Chains
  <2> QED BY <1>3, <2>3 DEF Reset, chain
<1>8. 0 < h.nTableSize BY <1>1 DEF Core, Fields
<1>9. kind = "hash" => Ready(w, r) BY <1>1, <1>3, <1>4, <1>5, <1>6, <1>7, <1>8 DEF Ready
<1> QED BY <1>1, <1>3, <1>4, <1>5, <1>6, <1>9 DEF r

\* _zend_hash_add_or_update_i
LEMMA AddNameIs ==
  ASSUME NEW w, Pair(w), Sound(w.h), NEW k \in Keys, k \notin Elements(w.h)
  PROVE  Grown(w, k, AddName(w, k))
<1>0. Core(w.h) BY DEF Sound
<1>1. CASE w.h.kind = "uninit"
  <2>1. AddName(w, k) = AddToHash(RealInit(w, "hash"), k) BY <1>1 DEF AddName
  <2>2. Ready(w, RealInit(w, "hash")) BY <1>1, RealInitIs
  <2> QED BY <1>0, <2>1, <2>2, AddWhenReady
<1>2. CASE w.h.kind = "packed"
  <2> DEFINE p == PackedToHash(w)
             r == IfFullDoResize(p)
  <2>1. AddName(w, k) = AddToHash(r, k) BY <1>2 DEF AddName
  <2>2. Kept(w, p) /\ Threaded(p.h) /\ p.h.kind = "hash" BY <1>0, PackedToHashIs
  <2> HIDE DEF p
  <2>3. Pair(p) /\ Sound(p.h) BY <2>2 DEF Kept, Threaded, Sound, Form
  <2>4. Ready(p, r) BY <2>2, <2>3, IfFullDoResizeIs
  <2> HIDE DEF r
  <2>5. Ready(w, r) BY <1>0, <2>2, <2>4, KeptTransitive DEF Ready
  <2> QED BY <1>0, <2>1, <2>5, AddWhenReady
<1>3. CASE w.h.kind = "hash"
  <2>1. AddName(w, k) = AddToHash(IfFullDoResize(w), k) BY <1>3 DEF AddName
  <2>2. Ready(w, IfFullDoResize(w)) BY <1>3, IfFullDoResizeIs
  <2> QED BY <1>0, <2>1, <2>2, AddWhenReady
<1> QED BY <1>0, <1>1, <1>2, <1>3 DEF Core, Fields

\* _zend_hash_index_add_or_update_i
LEMMA AddIndexIs ==
  ASSUME NEW w, Pair(w), Sound(w.h), NEW k \in Ints, k \notin Elements(w.h)
  PROVE  Grown(w, k, AddIndex(w, k))
<1> DEFINE h == w.h
<1>0. /\ Core(h) /\ k \in Nat /\ k \in Keys
      /\ h.nNumUsed \in Nat /\ h.nTableSize \in Nat \ {0} /\ h.nNumUsed <= h.nTableSize
      /\ h.nNumOfElements \in Nat /\ h.nNumOfElements <= h.nNumUsed
  <2>1. Core(h) /\ k \in Nat /\ k \in Keys BY KeysAssumption DEF Sound, Keys
  <2> QED BY <2>1, IndicesAre DEF Core
<1>1. CASE h.kind = "uninit" /\ k < h.nTableSize
  <2> DEFINE r == RealInit(w, "packed")
  <2>1. AddIndex(w, k) = AddToPacked(r, k) BY <1>1 DEF AddIndex
  <2>2. /\ Kept(w, r) /\ r.h.kind = "packed" /\ r.h.nNumUsed = 0
        /\ r.h.nTableSize = h.nTableSize /\ Indices(r.h) = {}
    BY <1>1, RealInitIs
  <2> HIDE DEF r
  <2>3. Grown(r, k, AddToPacked(r, k)) BY <1>0, <1>1, <2>2, AddToPackedIs DEF Kept
  <2> QED BY <1>0, <2>1, <2>2, <2>3, KeptThenGrown
<1>2. CASE h.kind = "uninit" /\ ~(k < h.nTableSize)
  <2>1. AddIndex(w, k) = AddToHash(RealInit(w, "hash"), k) BY <1>2 DEF AddIndex
  <2>2. Ready(w, RealInit(w, "hash")) BY <1>2, RealInitIs
  <2> QED BY <1>0, <2>1, <2>2, AddWhenReady
<1>3. CASE h.kind = "packed" /\ k < h.nNumUsed
  <2> DEFINE r == PackedToHash(w)
  <2>1. AddIndex(w, k) = AddToHash(r, k) BY <1>3 DEF AddIndex
  <2>2. /\ Kept(w, r) /\ Threaded(r.h) /\ r.h.kind = "hash"
        /\ r.h.nTableSize = h.nTableSize /\ r.h.nNumUsed = h.nNumOfElements
    BY <1>0, PackedToHashIs
  <2>3. h.nNumOfElements # h.nNumUsed
    <3>1. k \notin Indices(h) BY <1>3 DEF Elements, Sound, Form
    <3>2. k \in 0 .. h.nNumUsed - 1 BY <1>0, <1>3
    <3> QED BY <1>0, <3>1, <3>2, IndicesAre
  <2> HIDE DEF r
  <2>4. r.h.nNumUsed < r.h.nTableSize BY <1>0, <2>2, <2>3
  <2>5. Ready(w, r) BY <2>2, <2>4, ThreadedIsReady
  <2> QED BY <1>0, <2>1, <2>5, AddWhenReady
<1>4. CASE h.kind = "packed" /\ ~(k < h.nNumUsed) /\ k < h.nTableSize
  <2>1. AddIndex(w, k) = AddToPacked(w, k) BY <1>4 DEF AddIndex
  <2>2. h.nNumUsed <= k BY <1>0, <1>4
  <2> QED BY <1>0, <1>4, <2>1, <2>2, AddToPackedIs DEF Sound, Form
<1>5. CASE /\ h.kind = "packed" /\ ~(k < h.nNumUsed) /\ ~(k < h.nTableSize)
           /\ k \div 2 < h.nTableSize /\ h.nTableSize \div 2 < h.nNumOfElements
  <2> DEFINE d == Double(w)
  <2>1. AddIndex(w, k) = AddToPacked(d, k) BY <1>5 DEF AddIndex
  <2>2. /\ Kept(w, d) /\ d.h.kind = "packed" /\ d.h.nTableSize = 2 * h.nTableSize
        /\ d.h.nNumUsed = h.nNumUsed /\ d.h.at = h.at
    BY <1>0, <1>5, DoubleIs
  <2> HIDE DEF d
  <2>3. \A j \in Indices(d.h) : d.h.at[j] = j
    <3>1. Indices(d.h) = Indices(h) BY <2>2 DEF Indices
    <3> QED BY <1>5, <2>2, <3>1 DEF Sound, Form
  <2>4. d.h.nNumUsed <= k /\ k < d.h.nTableSize
    <3>1. k < 2 * h.nTableSize BY <1>0, <1>5
    <3> QED BY <1>0, <1>5, <2>2, <3>1
  <2>5. Grown(d, k, AddToPacked(d, k)) BY <2>2, <2>3, <2>4, AddToPackedIs DEF Kept
  <2> QED BY <1>0, <2>1, <2>2, <2>5, KeptThenGrown
<1>6. CASE /\ h.kind = "packed" /\ ~(k < h.nNumUsed) /\ ~(k < h.nTableSize)
           /\ ~(k \div 2 < h.nTableSize /\ h.nTableSize \div 2 < h.nNumOfElements)
  <2> DEFINE d == IF h.nNumUsed >= h.nTableSize THEN Double(w) ELSE w
             r == PackedToHash(d)
  <2>1. AddIndex(w, k) = AddToHash(r, k) BY <1>6 DEF AddIndex
  <2>2. /\ Kept(w, d) /\ d.h.nNumOfElements = h.nNumOfElements
        /\ h.nNumOfElements < d.h.nTableSize
    <3>1. CASE h.nNumUsed >= h.nTableSize
      <4>1. /\ Kept(w, Double(w)) /\ Double(w).h.nNumOfElements = h.nNumOfElements
            /\ Double(w).h.nTableSize = 2 * h.nTableSize
        BY <1>0, DoubleIs
      <4>2. h.nNumOfElements < 2 * h.nTableSize BY <1>0
      <4> QED BY <3>1, <4>1, <4>2
    <3>2. CASE ~(h.nNumUsed >= h.nTableSize) BY <1>0, <3>2, KeptSelf
    <3> QED BY <3>1, <3>2
  <2> HIDE DEF d
  <2>3. /\ Kept(d, r) /\ Threaded(r.h) /\ r.h.kind = "hash"
        /\ r.h.nTableSize = d.h.nTableSize /\ r.h.nNumUsed = d.h.nNumOfElements
    BY <2>2, PackedToHashIs DEF Kept
  <2> HIDE DEF r
  <2>4. Kept(w, r) BY <1>0, <2>2, <2>3, KeptTransitive
  <2>5. Ready(w, r) BY <2>2, <2>3, <2>4, ThreadedIsReady
  <2> QED BY <1>0, <2>1, <2>5, AddWhenReady
<1>7. CASE h.kind = "hash"
  <2>1. AddIndex(w, k) = AddToHash(IfFullDoResize(w), k) BY <1>7 DEF AddIndex
  <2>2. Ready(w, IfFullDoResize(w)) BY <1>7, IfFullDoResizeIs
  <2> QED BY <1>0, <2>1, <2>2, AddWhenReady
<1>8. h.kind \in {"uninit", "packed", "hash"} BY DEF Sound, Core, Fields
<1> QED BY <1>1, <1>2, <1>3, <1>4, <1>5, <1>6, <1>7, <1>8

\* _zend_hash_add_or_update_i and _zend_hash_index_add_or_update_i: the key is
\* there already, or comes to the end.
LEMMA AddIs ==
  ASSUME NEW w, Pair(w), Sound(w.h), NEW k \in Keys
  PROVE  Add(w, k) = w \/ (k \notin Elements(w.h) /\ Grown(w, k, Add(w, k)))
<1>1. CASE Found(w.h, k) # {} BY <1>1 DEF Add
<1>2. CASE Found(w.h, k) = {}
  <2>1. k \notin Elements(w.h)
    <3>1. {i \in Indices(w.h) : w.h.at[i] = k} = {} BY <1>2, FoundIs
    <3> QED BY <3>1 DEF Elements
  <2>2. CASE k \in Names BY <1>2, <2>1, <2>2, AddNameIs DEF Add
  <2>3. CASE k \notin Names
    <3>1. k \in Ints BY <2>3 DEF Keys
    <3> QED BY <1>2, <2>1, <2>3, <3>1, AddIndexIs DEF Add
  <2> QED BY <2>1, <2>2, <2>3
<1> QED BY <1>1, <1>2

-----------------------------------------------------------------------------
(* The next element                                                        *)
\* The next element, or the end.
LEMMA ValidPosIs ==
  ASSUME NEW h, Core(h), NEW p \in Nat
  PROVE  LET v == ValidPos(h, p)
         IN /\ v \in Nat /\ p <= v
            /\ p < h.nNumUsed => v \in Indices(h) \/ v = h.nNumUsed
            /\ p >= h.nNumUsed => v = p
            /\ v \notin Holes(h)
            /\ \A j \in Indices(h) : j < v <=> j < p
            /\ Before(h, v) = Before(h, p)
<1> DEFINE v == ValidPos(h, p)
           S == {i \in Indices(h) : i >= p}
<1>1. /\ h.nNumUsed \in Nat /\ \A i \in Indices(h) : i \in Nat /\ i < h.nNumUsed
      /\ \A i \in Indices(h) : i \notin Holes(h)
      /\ \A i \in Holes(h) : i < h.nNumUsed
  <2>1. h.nNumUsed \in Nat /\ \A i \in Indices(h) : i \in Nat /\ i < h.nNumUsed BY IndicesAre
  <2>2. \A i \in Indices(h) : i \notin Holes(h) BY DEF Indices, Holes
  <2>3. \A i \in Holes(h) : i < h.nNumUsed BY <2>1 DEF Holes
  <2> QED BY <2>1, <2>2, <2>3
<1>2. CASE p >= h.nNumUsed
  <2>1. v = p BY <1>2 DEF ValidPos
  <2>2. p \notin Holes(h) BY <1>1, <1>2
  <2> QED BY <1>1, <1>2, <2>1, <2>2
<1>3. CASE p < h.nNumUsed
  <2>1. v = Least(S \cup {h.nNumUsed}) BY <1>1, <1>3 DEF ValidPos
  <2>2. \A k \in S : k \in Nat BY <1>1
  <2> HIDE DEF v
  <2>3. v \in Nat /\ v \in S \cup {h.nNumUsed} /\ \A y \in S \cup {h.nNumUsed} : v <= y
    <3> HIDE DEF S
    <3> QED BY <1>1, <2>1, <2>2, LeastOr
  <2>4. p <= v BY <1>3, <2>3
  <2>5. \A j \in Indices(h) : j < v <=> j < p
    <3> SUFFICES ASSUME NEW j \in Indices(h) PROVE j < v <=> j < p OBVIOUS
    <3>1. j \in Nat BY <1>1
    <3>2. j >= p => v <= j BY <2>3
    <3> QED BY <2>3, <2>4, <3>1, <3>2
  <2>6. v \in Indices(h) \/ v = h.nNumUsed BY <2>3
  <2>7. v \notin Holes(h) BY <1>1, <2>6
  <2>8. Before(h, v) = Before(h, p) BY <2>5 DEF Before
  <2> QED BY <1>1, <1>3, <2>3, <2>4, <2>5, <2>6, <2>7, <2>8 DEF v
<1> QED BY <1>1, <1>2, <1>3

\* Without one of its elements, the table is the array without that key.
LEMMA EraseIs ==
  ASSUME NEW h, NEW g, Core(h), Core(g), NEW i \in Indices(h),
         Indices(g) = Indices(h) \ {i}, \A j \in Indices(g) : g.at[j] = h.at[j],
         Before(g, g.nInternalPointer) = Below(Indices(h) \ {i}, h.nInternalPointer),
         Value(g).late => Value(h).late
  PROVE  Abstract!Erase(Value(h), Value(g))
<1> DEFINE S == Indices(h)
           T == Indices(g)
           N == h.nNumOfElements
           u == Value(h).keys
           v == Value(g).keys
           p == h.nInternalPointer
           r == Cardinality(Below(S, i)) + 1
<1>1. /\ IsFiniteSet(S) /\ (\A j \in S : j \in Nat)
      /\ N = Cardinality(S) /\ N \in Nat /\ p \in Nat /\ i \in Nat
      /\ g.nNumOfElements = Cardinality(T)
  BY IndicesAre DEF Core, Fields
<1>2. /\ IsFiniteSet(T) /\ Cardinality(T) = N - 1
      /\ \A n \in 1 .. N - 1 : InOrder(T)[n] = InOrder(S)[IF n < r THEN n ELSE n + 1]
  <2>1. /\ IsFiniteSet(S \ {i}) /\ Cardinality(S \ {i}) = Cardinality(S) - 1
        /\ \A n \in 1 .. Cardinality(S) - 1 :
              InOrder(S \ {i})[n] = InOrder(S)[IF n < r THEN n ELSE n + 1]
    BY <1>1, InOrderRemove
  <2> HIDE DEF S, r
  <2> QED BY <1>1, <2>1 DEF S
<1>3. r \in 1 .. N BY <1>1, InOrderIs
<1>4. /\ u \in Seq(Keys) /\ Len(u) = N /\ DOMAIN u = 1 .. N
      /\ \A n \in 1 .. N : u[n] = h.at[InOrder(S)[n]]
      /\ Value(h).current = Cardinality(Before(h, p))
  BY ValueIs
<1>5. /\ v \in Seq(Keys) /\ Len(v) = N - 1
      /\ \A n \in 1 .. N - 1 : v[n] = g.at[InOrder(T)[n]] /\ InOrder(T)[n] \in T
      /\ Value(g).current = Cardinality(Before(g, g.nInternalPointer))
  <2>1. g.nNumOfElements = N - 1 BY <1>1, <1>2
  <2> HIDE DEF N, T, v
  <2>2. LET a == Value(g)
            M == g.nNumOfElements
            order == InOrder(Indices(g))
        IN /\ a.keys \in Seq(Keys) /\ Len(a.keys) = M
           /\ \A n \in 1 .. M : a.keys[n] = g.at[order[n]] /\ order[n] \in Indices(g)
           /\ a.current = Cardinality(Before(g, g.nInternalPointer))
    BY ValueIs
  <2> QED BY <2>1, <2>2 DEF v, T
<1> HIDE DEF u, v, S, T, N, r
<1>6. v = RemoveAt(u, r)
  <2>1. /\ RemoveAt(u, r) \in Seq(Keys) /\ Len(RemoveAt(u, r)) = N - 1
        /\ RemoveAt(u, r) = [n \in 1 .. N - 1 |-> IF n < r THEN u[n] ELSE u[n + 1]]
    BY <1>3, <1>4, RemoveAtIs
  <2>2. \A n \in 1 .. N - 1 : v[n] = RemoveAt(u, r)[n]
    <3> SUFFICES ASSUME NEW n \in 1 .. N - 1 PROVE v[n] = RemoveAt(u, r)[n] OBVIOUS
    <3> DEFINE m == IF n < r THEN n ELSE n + 1
    <3>1. m \in 1 .. N BY <1>1, <1>3
    <3>2. v[n] = g.at[InOrder(T)[n]] /\ InOrder(T)[n] \in T /\ InOrder(T)[n] = InOrder(S)[m]
      BY <1>2, <1>5
    <3>3. v[n] = h.at[InOrder(S)[m]] BY <3>2 DEF T
    <3>4. v[n] = u[m] BY <1>4, <3>1, <3>3
    <3> QED BY <2>1, <3>4
  <2> DEFINE a == RemoveAt(u, r)
             M == N - 1
  <2>3. v \in [1 .. N - 1 -> Keys] /\ a \in [1 .. N - 1 -> Keys] BY <1>5, <2>1, LenProperties
  <2>4. M \in Nat BY <1>1, <1>3
  <2> HIDE DEF a
  <2>5. v \in [1 .. M -> Keys] /\ a \in [1 .. M -> Keys] /\ \A n \in 1 .. M : v[n] = a[n]
    BY <2>2, <2>3 DEF a
  <2> HIDE DEF M
  <2>6. v = a BY ONLY <2>4, <2>5, SameSeq
  <2> QED BY <2>6 DEF a
<1>7. Value(g).current = IF Value(h).current >= r THEN Value(h).current - 1
                         ELSE Value(h).current
  <2>1. Value(h).current = Cardinality(Below(S, p)) BY <1>1, <1>4, BeforeIs DEF S
  <2>2. Value(g).current = Cardinality(Below(S \ {i}, p)) BY <1>5 DEF S
  <2>3. /\ IsFiniteSet(Below(S, p)) /\ Cardinality(Below(S, p)) \in Nat
        /\ IsFiniteSet(Below(S, i)) /\ Cardinality(Below(S, i)) \in Nat
    BY <1>1, BelowFinite DEF S
  <2>4. CASE i < p
    <3>1. Cardinality(Below(S, i)) < Cardinality(Below(S, p)) BY <1>1, <2>4, RankGrows DEF S
    <3>2. Below(S \ {i}, p) = Below(S, p) \ {i} /\ i \in Below(S, p) BY <2>4 DEF Below, S
    <3>3. Cardinality(Below(S, p) \ {i}) = Cardinality(Below(S, p)) - 1
      BY <2>3, <3>2, FS_RemoveElement
    <3>4. Value(g).current = Value(h).current - 1
      <4>1. Cardinality(Below(S \ {i}, p)) = Cardinality(Below(S, p) \ {i}) BY <3>2
      <4> QED BY ONLY <2>1, <2>2, <3>3, <4>1
    <3>5. Value(h).current >= r BY ONLY <2>1, <2>3, <3>1 DEF r
    <3> QED BY ONLY <3>4, <3>5
  <2>5. CASE ~(i < p)
    <3>1. Below(S, p) \subseteq Below(S, i) /\ Below(S \ {i}, p) = Below(S, p)
      BY <1>1, <2>5 DEF Below
    <3>2. Cardinality(Below(S, p)) <= Cardinality(Below(S, i)) BY <2>3, <3>1, FS_Subset
    <3> QED BY <2>1, <2>2, <2>3, <3>1, <3>2 DEF r
  <2> QED BY <2>4, <2>5
<1> QED BY <1>3, <1>4, <1>6, <1>7 DEF Abstract!Erase, Abstract!RemoveAt, RemoveAt, u, v

-----------------------------------------------------------------------------
(* Deletion                                                                *)
\* The array has lost a key, and the table is sound.
Shrunk(w, r) ==
    /\ Pair(r) /\ DOMAIN r.pos = DOMAIN w.pos
    /\ Sound(r.h) /\ r.h.nIteratorsCount = w.h.nIteratorsCount
    /\ Abstract!Erase(Value(w.h), Value(r.h))

\* One element less: what Core asks for.
LEMMA ShrinkCore ==
  ASSUME NEW h, NEW g, Core(h), Fields(g), NEW i \in Indices(h),
         g.nTableSize = h.nTableSize, g.nNumUsed <= h.nNumUsed,
         g.nNumOfElements = h.nNumOfElements - 1,
         g.at \in [0 .. g.nNumUsed - 1 -> Keys \cup {Hole}],
         \A j \in 0 .. g.nNumUsed - 1 : g.at[j] = IF j = i THEN Hole ELSE h.at[j],
         \A j \in Indices(h) \ {i} : j < g.nNumUsed,
         g.nNumUsed > 0 => g.nNumUsed - 1 \in Indices(h) \ {i},
         g.nNextFreeElement = h.nNextFreeElement
  PROVE  /\ Core(g) /\ Indices(g) = Indices(h) \ {i}
         /\ \A j \in Indices(g) : g.at[j] = h.at[j]
         /\ Holes(g) \subseteq Holes(h) \cup {i}
<1>1. /\ IsFiniteSet(Indices(h)) /\ \A j \in Indices(h) : j \in Nat /\ h.at[j] \in Keys
      /\ h.nNumUsed \in Nat /\ g.nNumUsed \in Nat /\ h.nNumUsed <= h.nTableSize
      /\ h.nTableSize \in Nat
      /\ h.nNumOfElements = Cardinality(Indices(h))
  BY IndicesAre DEF Core, Fields
<1>2. Hole \notin Keys BY KeysAssumption
<1>3. Indices(g) = Indices(h) \ {i}
  <2>1. ASSUME NEW j \in Indices(g) PROVE j \in Indices(h) \ {i}
    <3>1. j \in 0 .. g.nNumUsed - 1 /\ g.at[j] # Hole BY DEF Indices
    <3>2. j # i /\ h.at[j] # Hole BY <3>1
    <3>3. j \in 0 .. h.nNumUsed - 1 BY <1>1, <3>1
    <3> QED BY <3>2, <3>3 DEF Indices
  <2>2. ASSUME NEW j \in Indices(h) \ {i} PROVE j \in Indices(g)
    <3>1. j \in Nat /\ j < g.nNumUsed /\ h.at[j] # Hole BY <1>1, <1>2
    <3>2. j \in 0 .. g.nNumUsed - 1 BY <1>1, <3>1
    <3>3. g.at[j] = h.at[j] BY <3>2
    <3> QED BY <3>1, <3>2, <3>3 DEF Indices
  <2> QED BY <2>1, <2>2
<1>4. \A j \in Indices(g) : g.at[j] = h.at[j]
  <2> SUFFICES ASSUME NEW j \in Indices(g) PROVE g.at[j] = h.at[j] OBVIOUS
  <2>1. j \in 0 .. g.nNumUsed - 1 BY DEF Indices
  <2>2. j # i BY <1>3
  <2> QED BY <2>1, <2>2
<1>5. g.nNumOfElements = Cardinality(Indices(g))
  <2>1. Cardinality(Indices(h) \ {i}) = Cardinality(Indices(h)) - 1
    BY <1>1, FS_RemoveElement
  <2> QED BY <1>1, <1>3, <2>1
<1>6. \A j, m \in Indices(g) : g.at[j] = g.at[m] => j = m
  <2>1. \A j, m \in Indices(h) : h.at[j] = h.at[m] => j = m BY DEF Core
  <2> QED BY <1>3, <1>4, <2>1
<1>7. \A j \in Indices(g) : g.at[j] \in Ints => g.at[j] < g.nNextFreeElement
  <2>1. \A j \in Indices(h) : h.at[j] \in Ints => h.at[j] < h.nNextFreeElement BY DEF Core
  <2> QED BY <1>3, <1>4, <2>1
<1>8. g.nNumUsed > 0 => g.at[g.nNumUsed - 1] # Hole
  <2> SUFFICES ASSUME g.nNumUsed > 0 PROVE g.at[g.nNumUsed - 1] # Hole OBVIOUS
  <2>1. g.nNumUsed - 1 \in Indices(g) BY <1>3
  <2> QED BY <2>1 DEF Indices
<1>9. g.nNumUsed <= g.nTableSize BY <1>1
<1>10. Core(g) BY <1>5, <1>6, <1>7, <1>8, <1>9 DEF Core
<1>11. Holes(g) \subseteq Holes(h) \cup {i}
  <2> SUFFICES ASSUME NEW j \in Holes(g), j # i PROVE j \in Holes(h) OBVIOUS
  <2>1. j \in 0 .. g.nNumUsed - 1 /\ g.at[j] = Hole BY DEF Holes
  <2>2. j \in 0 .. h.nNumUsed - 1 /\ h.at[j] = Hole BY <1>1, <2>1
  <2> QED BY <2>2 DEF Holes
<1> QED BY <1>3, <1>4, <1>10, <1>11

\* The chain of the removed element loses it, the others stay.
LEMMA UnchainedIs ==
  ASSUME NEW h, NEW g, Core(h), h.chain = Chains(h), NEW i \in Indices(h),
         g.nTableSize = h.nTableSize, Indices(g) = Indices(h) \ {i},
         \A j \in Indices(g) : g.at[j] = h.at[j],
         g.chain = [h.chain EXCEPT ![Chain(h, h.at[i])] = OffChain(@, i)]
  PROVE  g.chain = Chains(g)
<1> DEFINE ck == Chain(h, h.at[i])
<1>1. ck \in 0 .. 2 * h.nTableSize - 1 BY ChainIs, IndicesAre
<1>2. \A x : Chain(g, x) = Chain(h, x) BY DEF Chain
<1>3. /\ DOMAIN h.chain = 0 .. 2 * h.nTableSize - 1
      /\ h.chain = [c \in 0 .. 2 * h.nTableSize - 1 |-> h.chain[c]]
  BY DEF Chains
<1> HIDE DEF ck
<1>4. /\ g.chain = [c \in 0 .. 2 * h.nTableSize - 1 |-> g.chain[c]]
      /\ \A c \in 0 .. 2 * h.nTableSize - 1 : c # ck => g.chain[c] = h.chain[c]
      /\ g.chain[ck] = OffChain(h.chain[ck], i)
  BY <1>1, <1>3 DEF ck
<1>5. ASSUME NEW c \in 0 .. 2 * h.nTableSize - 1
      PROVE  g.chain[c] = Reverse(InOrder({j \in Indices(g) : Chain(g, g.at[j]) = c}))
  <2> DEFINE S == {j \in Indices(h) : Chain(h, h.at[j]) = c}
             T == {j \in Indices(g) : Chain(g, g.at[j]) = c}
  <2>1. /\ IsFiniteSet(S) /\ \A j \in S : j \in Nat
        /\ h.chain[c] = Reverse(InOrder(S))
    BY ChainsAre
  <2>2. CASE c = ck
    <3>1. T = S \ {i} /\ i \in S
      <4>1. \A j \in Indices(g) : Chain(g, g.at[j]) = Chain(h, h.at[j]) BY <1>2
      <4>2. T = {j \in Indices(h) \ {i} : Chain(h, h.at[j]) = c} BY <4>1
      <4>3. i \in S BY <2>2 DEF ck
      <4> QED BY <4>2, <4>3
    <3> HIDE DEF S, T
    <3>2. OffChain(Reverse(InOrder(S)), i) = Reverse(InOrder(S \ {i}))
      BY <2>1, <3>1, ReverseRemove
    <3>3. g.chain[c] = Reverse(InOrder(T)) BY <1>4, <2>1, <2>2, <3>1, <3>2
    <3> QED BY <3>3 DEF T
  <2>3. CASE c # ck
    <3>1. T = S BY <1>2, <2>3 DEF ck
    <3> HIDE DEF S, T
    <3>2. g.chain[c] = Reverse(InOrder(T)) BY <1>4, <2>1, <2>3, <3>1
    <3> QED BY <3>2 DEF T
  <2> QED BY <2>2, <2>3
<1>6. g.chain = [c \in 0 .. 2 * g.nTableSize - 1 |->
                    Reverse(InOrder({j \in Indices(g) : Chain(g, g.at[j]) = c}))]
  BY <1>4, <1>5
<1> QED BY <1>6 DEF Chains

\* The table once the element is counted out and the pointer is off it.
LEMMA AdvanceIs ==
  ASSUME NEW w, Pair(w), Core(w.h), NEW i \in Indices(w.h)
  PROVE  LET h == w.h
             r == Advance([w EXCEPT !.h.nNumOfElements = @ - 1], i)
             g == r.h
         IN /\ Pair(r) /\ DOMAIN r.pos = DOMAIN w.pos
            /\ Fields(g) /\ g.kind = h.kind /\ g.nTableSize = h.nTableSize
            /\ g.nNumUsed = h.nNumUsed /\ g.at = h.at /\ g.chain = h.chain
            /\ g.nNumOfElements = h.nNumOfElements - 1
            /\ g.nNextFreeElement = h.nNextFreeElement
            /\ g.nIteratorsCount = h.nIteratorsCount
            /\ g.nInternalPointer = IF h.nInternalPointer = i THEN ValidPos(h, i + 1)
                                    ELSE h.nInternalPointer
<1> DEFINE h == w.h
           n == h.nNumOfElements - 1
           wa == [w EXCEPT !.h.nNumOfElements = @ - 1]
           a == wa.h
           next == ValidPos(a, i + 1)
           q == IF a.nInternalPointer = i THEN next ELSE a.nInternalPointer
           wb == [wa EXCEPT !.h.nInternalPointer = q]
           b == wb.h
           r == Advance(wa, i)
<1>1. /\ Fields(h) /\ h.nNumOfElements \in Nat /\ i \in Nat
      /\ h.nNumOfElements # 0 /\ h.nInternalPointer \in Nat
  BY IndicesAre DEF Core, Fields
<1>2. n \in Nat BY <1>1
<1> HIDE DEF n
<1>3. wa \in [h : {[h EXCEPT !.nNumOfElements = n]}, pos : {w.pos}] BY DEF Pair, n
<1> HIDE DEF wa
<1>4. wa.h = [h EXCEPT !.nNumOfElements = n] /\ wa.pos = w.pos /\ Pair(wa) BY <1>3 DEF Pair
<1> HIDE DEF a
<1>5. /\ Fields(a) /\ a.kind = h.kind /\ a.nTableSize = h.nTableSize
      /\ a.nNumUsed = h.nNumUsed /\ a.at = h.at /\ a.chain = h.chain
      /\ a.nNumOfElements = n /\ a.nNextFreeElement = h.nNextFreeElement
      /\ a.nIteratorsCount = h.nIteratorsCount
      /\ a.nInternalPointer = h.nInternalPointer
  <2>1. a = [h EXCEPT !.nNumOfElements = n] BY <1>4 DEF a
  <2> QED BY <1>1, <1>2, <2>1 DEF Fields
<1>6. next = ValidPos(h, i + 1) /\ next \in Nat
  <2>1. next = ValidPos(h, i + 1) BY <1>5, ValueSame
  <2>2. i + 1 \in Nat BY <1>1
  <2> HIDE DEF next
  <2> QED BY <2>1, <2>2, ValidPosIs
<1> HIDE DEF next
<1>7. q \in Nat BY <1>1, <1>5, <1>6
<1>8. r = Update(wb, i, next) BY DEF Advance, a, next
<1> HIDE DEF q
<1>9. wb \in [h : {[a EXCEPT !.nInternalPointer = q]}, pos : {w.pos}] BY <1>4 DEF Pair, a
<1> HIDE DEF wb
<1>10. wb.h = [a EXCEPT !.nInternalPointer = q] /\ wb.pos = w.pos /\ Pair(wb)
  BY <1>4, <1>9 DEF Pair
<1> HIDE DEF b, r
<1>11. Pair(r) /\ DOMAIN r.pos = DOMAIN w.pos /\ r.h = b
  BY <1>6, <1>8, <1>10, UpdateIs DEF b
<1>12. /\ Fields(b) /\ b.kind = a.kind /\ b.nTableSize = a.nTableSize
       /\ b.nNumUsed = a.nNumUsed /\ b.at = a.at /\ b.chain = a.chain
       /\ b.nNumOfElements = a.nNumOfElements /\ b.nNextFreeElement = a.nNextFreeElement
       /\ b.nIteratorsCount = a.nIteratorsCount
       /\ b.nInternalPointer = q
  <2>1. b = [a EXCEPT !.nInternalPointer = q] BY <1>10 DEF b
  <2> QED BY <1>5, <1>7, <2>1 DEF Fields
<1>13. q = IF h.nInternalPointer = i THEN ValidPos(h, i + 1) ELSE h.nInternalPointer
  BY <1>5, <1>6 DEF q
<1> QED BY <1>5, <1>11, <1>12, <1>13 DEF r, wa, n

\* Taking a bucket off its chain changes nothing else.
LEMMA UnchainIs ==
  ASSUME NEW h, Fields(h), NEW i
  PROVE  LET g == Unchain(h, i)
         IN /\ Fields(g) /\ g.kind = h.kind /\ g.nTableSize = h.nTableSize
            /\ g.nNumUsed = h.nNumUsed /\ g.at = h.at
            /\ g.nNumOfElements = h.nNumOfElements
            /\ g.nNextFreeElement = h.nNextFreeElement
            /\ g.nIteratorsCount = h.nIteratorsCount
            /\ g.nInternalPointer = h.nInternalPointer
            /\ h.kind = "hash" =>
                  g.chain = [h.chain EXCEPT ![Chain(h, h.at[i])] = OffChain(@, i)]
<1> DEFINE chain == [h.chain EXCEPT ![Chain(h, h.at[i])] = OffChain(@, i)]
           g == Unchain(h, i)
<1>1. CASE h.kind # "hash" BY <1>1 DEF Unchain
<1>2. CASE h.kind = "hash"
  <2>1. g = [h EXCEPT !.chain = chain] BY <1>2 DEF Unchain
  <2> HIDE DEF g, chain
  <2>2. /\ Fields(g) /\ g.kind = h.kind /\ g.nTableSize = h.nTableSize
        /\ g.nNumUsed = h.nNumUsed /\ g.at = h.at
        /\ g.nNumOfElements = h.nNumOfElements
        /\ g.nNextFreeElement = h.nNextFreeElement
        /\ g.nIteratorsCount = h.nIteratorsCount
        /\ g.nInternalPointer = h.nInternalPointer
        /\ g.chain = chain
    BY <2>1 DEF Fields
  <2> QED BY <2>2 DEF g, chain
<1> QED BY <1>1, <1>2

\* The bucket becomes a hole, or the table ends after the last element before it.
LEMMA TrimIs ==
  ASSUME NEW h, NEW c, Core(h), NEW i \in Indices(h), Fields(c),
         c.nNumUsed = h.nNumUsed, c.at = h.at
  PROVE  LET f == Trim(c, i)
         IN /\ Fields(f) /\ f.kind = c.kind /\ f.nTableSize = c.nTableSize
            /\ f.nNumOfElements = c.nNumOfElements /\ f.chain = c.chain
            /\ f.nNextFreeElement = c.nNextFreeElement
            /\ f.nIteratorsCount = c.nIteratorsCount
            /\ f.nNumUsed <= h.nNumUsed
            /\ f.at \in [0 .. f.nNumUsed - 1 -> Keys \cup {Hole}]
            /\ \A j \in 0 .. f.nNumUsed - 1 : f.at[j] = IF j = i THEN Hole ELSE h.at[j]
            /\ \A j \in Indices(h) \ {i} : j < f.nNumUsed
            /\ f.nNumUsed > 0 => f.nNumUsed - 1 \in Indices(h) \ {i}
            /\ \/ f.nInternalPointer = c.nInternalPointer
               \/ /\ f.nInternalPointer = f.nNumUsed
                  /\ f.nNumUsed <= c.nInternalPointer
<1> DEFINE N == h.nNumUsed
           B == Before(c, i)
           n == IF B = {} THEN 0 ELSE 1 + CHOOSE x \in B : \A y \in B : y <= x
           cut == [j \in 0 .. n - 1 |-> c.at[j]]
           f == Trim(c, i)
<1>1. /\ N \in Nat /\ \A j \in Indices(h) : j \in Nat /\ j < N
      /\ i \in 0 .. N - 1 /\ IsFiniteSet(Indices(h)) /\ N - 1 \in Indices(h)
      /\ h.at \in [0 .. N - 1 -> Keys \cup {Hole}]
      /\ c.nInternalPointer \in Nat
  <2>1. /\ N \in Nat /\ \A j \in Indices(h) : j \in Nat /\ j < N
        /\ IsFiniteSet(Indices(h)) /\ (N > 0 => N - 1 \in Indices(h))
    BY IndicesAre
  <2>2. h.at \in [0 .. N - 1 -> Keys \cup {Hole}] BY DEF Core
  <2>3. c.nInternalPointer \in Nat BY DEF Fields
  <2>4. i \in Nat /\ i < N BY <2>1
  <2> HIDE DEF N
  <2>5. N > 0 /\ i \in 0 .. N - 1 BY <2>1, <2>4
  <2> QED BY <2>1, <2>2, <2>3, <2>5
<1>2. CASE N - 1 # i
  <2> DEFINE at == [h.at EXCEPT ![i] = Hole]
  <2>1. f = [c EXCEPT !.at[i] = Hole] BY <1>2 DEF Trim
  <2>2. f = [c EXCEPT !.at = at] BY <2>1 DEF Fields
  <2> HIDE DEF f, at
  <2>3. /\ Fields(f) /\ f.kind = c.kind /\ f.nTableSize = c.nTableSize
        /\ f.nNumOfElements = c.nNumOfElements /\ f.chain = c.chain
        /\ f.nNextFreeElement = c.nNextFreeElement
        /\ f.nIteratorsCount = c.nIteratorsCount
        /\ f.nNumUsed = N /\ f.at = at
        /\ f.nInternalPointer = c.nInternalPointer
    BY <2>2 DEF Fields
  <2>4. /\ at \in [0 .. N - 1 -> Keys \cup {Hole}]
        /\ \A j \in 0 .. N - 1 : at[j] = IF j = i THEN Hole ELSE h.at[j]
    BY <1>1 DEF at
  <2>5. N - 1 \in Indices(h) \ {i} BY <1>1, <1>2
  <2> QED BY <1>1, <2>3, <2>4, <2>5 DEF f
<1>3. CASE N - 1 = i
  <2>1. /\ \A x \in B : x \in Nat /\ x < i /\ x \in Indices(h)
        /\ Indices(h) \ {i} = B
    <3>1. Indices(c) = Indices(h) BY ValueSame
    <3>2. ASSUME NEW x \in Indices(h), x # i PROVE x < i
      <4>1. x \in Nat /\ x < N /\ N \in Nat BY <1>1
      <4> HIDE DEF N
      <4> QED BY ONLY <1>3, <3>2, <4>1
    <3>3. \A x \in Indices(h) : x < i => x # i BY <1>1
    <3> QED BY <1>1, <3>1, <3>2, <3>3 DEF Before
  <2>2. IsFiniteSet(B) BY <1>1, <2>1, FS_Subset
  <2> HIDE DEF B
  <2>3. /\ n \in Nat /\ n <= N /\ \A x \in B : x < n
        /\ n > 0 => n - 1 \in B
    <3>1. CASE B = {} BY <1>1, <3>1
    <3>2. CASE B # {}
      <4> DEFINE m == CHOOSE x \in B : \A y \in B : y <= x
      <4>1. m \in B /\ \A y \in B : y <= m BY <2>1, <2>2, <3>2, MaxIs
      <4>2. n = 1 + m BY <3>2
      <4> HIDE DEF m, n
      <4>3. m \in Nat /\ m < i BY <2>1, <4>1
      <4>4. n - 1 = m /\ n \in Nat /\ n <= N BY ONLY <1>1, <1>3, <4>2, <4>3
      <4>5. \A x \in B : x < n BY <2>1, <4>1, <4>2, <4>3
      <4> QED BY <4>1, <4>4, <4>5
    <3> QED BY <3>1, <3>2
  <2>4. f = [c EXCEPT !.nNumUsed = n, !.at = cut,
                      !.nInternalPointer = IF @ < n THEN @ ELSE n]
    BY <1>3 DEF Trim, B
  <2> HIDE DEF n
  <2> DEFINE q == IF c.nInternalPointer < n THEN c.nInternalPointer ELSE n
  <2>5. f = [c EXCEPT !.nNumUsed = n, !.at = cut, !.nInternalPointer = q] BY <2>4
  <2>6. /\ q \in Nat
        /\ \/ q = c.nInternalPointer
           \/ q = n /\ n <= c.nInternalPointer
    BY <1>1, <2>3
  <2>7. /\ cut \in [0 .. n - 1 -> Keys \cup {Hole}]
        /\ \A j \in 0 .. n - 1 : cut[j] = IF j = i THEN Hole ELSE h.at[j]
    <3>1. \A j \in 0 .. n - 1 : j \in 0 .. N - 1 /\ j # i
      <4>1. n > 0 => n - 1 \in Nat /\ n - 1 < i BY <2>1, <2>3
      <4> QED BY <1>1, <2>3, <4>1
    <3> QED BY <1>1, <3>1
  <2> HIDE DEF f, cut, q
  <2>8. /\ Fields(f) /\ f.kind = c.kind /\ f.nTableSize = c.nTableSize
        /\ f.nNumOfElements = c.nNumOfElements /\ f.chain = c.chain
        /\ f.nNextFreeElement = c.nNextFreeElement
        /\ f.nIteratorsCount = c.nIteratorsCount
        /\ f.nNumUsed = n /\ f.at = cut /\ f.nInternalPointer = q
    BY <2>3, <2>5, <2>6 DEF Fields
  <2> QED BY <2>1, <2>3, <2>6, <2>7, <2>8 DEF f
<1> QED BY <1>2, <1>3

\* zend_hash_packed_del_val, _zend_hash_del_el_ex
LEMMA DelElIs ==
  ASSUME NEW w, Pair(w), Sound(w.h), NEW i \in Indices(w.h)
  PROVE  Shrunk(w, DelEl(w, i))
<1> DEFINE h == w.h
           b == Advance([w EXCEPT !.h.nNumOfElements = @ - 1], i)
           a == b.h
           c == Unchain(a, i)
           f == Trim(c, i)
           r == DelEl(w, i)
           next == ValidPos(h, i + 1)
           q == IF h.nInternalPointer = i THEN next ELSE h.nInternalPointer
<1>1. Core(h) BY DEF Sound
<1>2. /\ Pair(b) /\ DOMAIN b.pos = DOMAIN w.pos
      /\ Fields(a) /\ a.kind = h.kind /\ a.nTableSize = h.nTableSize
      /\ a.nNumUsed = h.nNumUsed /\ a.at = h.at /\ a.chain = h.chain
      /\ a.nNumOfElements = h.nNumOfElements - 1
      /\ a.nNextFreeElement = h.nNextFreeElement
      /\ a.nIteratorsCount = h.nIteratorsCount
      /\ a.nInternalPointer = q
  BY <1>1, AdvanceIs
<1>3. r = [b EXCEPT !.h = f] BY DEF DelEl
<1> HIDE DEF b
<1>4. r.h = f /\ r.pos = b.pos /\ Pair(r)
  <2> HIDE DEF r, f
  <2>1. r \in [h : {f}, pos : {b.pos}] BY <1>2, <1>3 DEF Pair
  <2> QED BY <1>2, <2>1 DEF Pair
<1> HIDE DEF a, r
<1>5. /\ Fields(c) /\ c.kind = h.kind /\ c.nTableSize = h.nTableSize
      /\ c.nNumUsed = h.nNumUsed /\ c.at = h.at
      /\ c.nNumOfElements = h.nNumOfElements - 1
      /\ c.nNextFreeElement = h.nNextFreeElement
      /\ c.nIteratorsCount = h.nIteratorsCount
      /\ c.nInternalPointer = q
      /\ h.kind = "hash" =>
            c.chain = [h.chain EXCEPT ![Chain(h, h.at[i])] = OffChain(@, i)]
  <2>1. \A k : Chain(a, k) = Chain(h, k) BY <1>2 DEF Chain
  <2>2. [a.chain EXCEPT ![Chain(a, a.at[i])] = OffChain(@, i)]
        = [h.chain EXCEPT ![Chain(h, h.at[i])] = OffChain(@, i)]
    BY <1>2, <2>1
  <2>3. /\ Fields(c) /\ c.kind = a.kind /\ c.nTableSize = a.nTableSize
        /\ c.nNumUsed = a.nNumUsed /\ c.at = a.at
        /\ c.nNumOfElements = a.nNumOfElements
        /\ c.nNextFreeElement = a.nNextFreeElement
        /\ c.nIteratorsCount = a.nIteratorsCount
        /\ c.nInternalPointer = a.nInternalPointer
        /\ a.kind = "hash" =>
              c.chain = [a.chain EXCEPT ![Chain(a, a.at[i])] = OffChain(@, i)]
    BY <1>2, UnchainIs
  <2> HIDE DEF c, q
  <2> QED BY <1>2, <2>2, <2>3
<1> HIDE DEF c
<1>6. /\ Fields(f) /\ f.kind = h.kind /\ f.nTableSize = h.nTableSize
      /\ f.nNumOfElements = h.nNumOfElements - 1 /\ f.chain = c.chain
      /\ f.nNextFreeElement = h.nNextFreeElement
      /\ f.nIteratorsCount = h.nIteratorsCount
      /\ f.nNumUsed <= h.nNumUsed
      /\ f.at \in [0 .. f.nNumUsed - 1 -> Keys \cup {Hole}]
      /\ \A j \in 0 .. f.nNumUsed - 1 : f.at[j] = IF j = i THEN Hole ELSE h.at[j]
      /\ \A j \in Indices(h) \ {i} : j < f.nNumUsed
      /\ f.nNumUsed > 0 => f.nNumUsed - 1 \in Indices(h) \ {i}
      /\ \/ f.nInternalPointer = q
         \/ f.nInternalPointer = f.nNumUsed /\ f.nNumUsed <= q
  <2> HIDE DEF q
  <2>1. \A j \in 0 .. f.nNumUsed - 1 : f.at[j] = IF j = i THEN Hole ELSE h.at[j]
    BY <1>1, <1>5, TrimIs
  <2> QED BY <1>1, <1>5, <2>1, TrimIs
<1> HIDE DEF f
<1>7. /\ Core(f) /\ Indices(f) = Indices(h) \ {i}
      /\ \A j \in Indices(f) : f.at[j] = h.at[j]
      /\ Holes(f) \subseteq Holes(h) \cup {i}
  <2> HIDE DEF q
  <2> QED BY <1>1, <1>6, ShrinkCore
<1>8. /\ next \in Nat /\ i + 1 <= next /\ next \notin Holes(h)
      /\ \A j \in Indices(h) : j < next <=> j < i + 1
      /\ i \in Nat /\ h.nInternalPointer \in Nat
      /\ \A j \in Indices(h) : j \in Nat
  <2>1. /\ i \in Nat /\ h.nInternalPointer \in Nat /\ \A j \in Indices(h) : j \in Nat
    BY <1>1, IndicesAre DEF Core, Fields
  <2>2. i + 1 \in Nat BY <2>1
  <2> HIDE DEF h
  <2> QED BY <1>1, <2>1, <2>2, ValidPosIs
<1> HIDE DEF next
<1>9. /\ q \in Nat /\ q # i
      /\ q \in Holes(h) => q = h.nInternalPointer
      /\ \A j \in Indices(h) \ {i} : j < q <=> j < h.nInternalPointer
  <2>1. CASE h.nInternalPointer = i
    <3>1. q = next BY <2>1
    <3>2. \A j \in Indices(h) \ {i} : j < next <=> j < i BY <1>8
    <3> QED BY <1>8, <2>1, <3>1, <3>2
  <2>2. CASE h.nInternalPointer # i BY <1>8, <2>2
  <2> QED BY <2>1, <2>2
<1> HIDE DEF q
<1>10. Before(f, f.nInternalPointer) = Below(Indices(h) \ {i}, h.nInternalPointer)
  <2>1. \A j \in Indices(h) \ {i} : j < f.nInternalPointer <=> j < q
    <3>1. f.nNumUsed \in Nat BY <1>7, IndicesAre
    <3> QED BY <1>6, <1>8, <1>9, <3>1
  <2> QED BY <1>7, <1>9, <2>1 DEF Before, Below
<1>11. f.nInternalPointer \in Holes(f) =>
          /\ f.nInternalPointer = h.nInternalPointer
          /\ h.nInternalPointer \in Holes(h)
  <2>1. f.nNumUsed \notin Holes(f)
    <3>1. f.nNumUsed \in Nat BY <1>7, IndicesAre
    <3> QED BY <3>1 DEF Holes
  <2> QED BY <1>6, <1>7, <1>9, <2>1
<1>12. Value(f).late => Value(h).late BY <1>1, <1>7, <1>11, ValueIs
<1>13. Abstract!Erase(Value(h), Value(f)) BY <1>1, <1>7, <1>10, <1>12, EraseIs
<1>14. Form(f)
  <2>1. f.kind # "uninit"
    <3>1. h.kind = "uninit" => h.nNumUsed = 0 BY DEF Sound, Form
    <3>2. h.nNumUsed # 0 BY <1>1, IndicesAre
    <3> QED BY <1>6, <3>1, <3>2
  <2>2. f.kind = "packed" => \A j \in Indices(f) : f.at[j] = j
    <3>1. h.kind = "packed" => \A j \in Indices(h) : h.at[j] = j BY DEF Sound, Form
    <3> QED BY <1>6, <1>7, <3>1
  <2>3. f.kind = "hash" => f.chain = Chains(f) /\ f.nInternalPointer \notin Holes(f)
    <3> SUFFICES ASSUME h.kind = "hash"
                 PROVE  f.chain = Chains(f) /\ f.nInternalPointer \notin Holes(f)
      BY <1>6
    <3>1. h.chain = Chains(h) /\ h.nInternalPointer \notin Holes(h) BY DEF Sound, Form
    <3>2. f.chain = [h.chain EXCEPT ![Chain(h, h.at[i])] = OffChain(@, i)] BY <1>5, <1>6
    <3>3. f.chain = Chains(f) BY <1>1, <1>6, <1>7, <3>1, <3>2, UnchainedIs
    <3> QED BY <1>11, <3>1, <3>3
  <2> QED BY <2>1, <2>2, <2>3 DEF Form
<1> QED BY <1>2, <1>4, <1>6, <1>7, <1>13, <1>14 DEF Shrunk, Sound, r

\* zend_hash_del and zend_hash_index_del: the key is not there, or goes.
LEMMA DelIs ==
  ASSUME NEW w, Pair(w), Sound(w.h), NEW k \in Keys
  PROVE  Del(w, k) = w \/ Shrunk(w, Del(w, k))
<1> DEFINE F == Found(w.h, k)
<1>1. CASE F = {} BY <1>1 DEF Del
<1>2. CASE F # {}
  <2>1. F \subseteq Indices(w.h) BY FoundIs
  <2>2. \A i \in F : i \in Nat BY <2>1, IndicesAre DEF Sound
  <2>3. Least(F) \in F
    <3> HIDE DEF F
    <3> QED BY <1>2, <2>2, LeastIs
  <2>4. Del(w, k) = DelEl(w, Least(F)) BY <1>2 DEF Del
  <2> HIDE DEF F
  <2> QED BY <2>1, <2>3, <2>4, DelElIs
<1> QED BY <1>1, <1>2

-----------------------------------------------------------------------------
(* Copies, empty tables and counts                                         *)
\* Arrays are equal whose parts are.
LEMMA ValueParts ==
  ASSUME NEW h, NEW g, Value(g).keys = Value(h).keys, Value(g).current = Value(h).current,
         Value(g).late = Value(h).late
  PROVE  Value(g) = Value(h)
BY DEF Value

\* A pointer that is not on a hole is not late.
LEMMA ValueNotLate ==
  ASSUME NEW h, h.nInternalPointer \notin Holes(h) \ {0}
  PROVE  /\ Value(h).late = FALSE
         /\ Value(h) = [keys |-> Value(h).keys, current |-> Value(h).current, late |-> FALSE]
<1> DEFINE p == h.nInternalPointer \in Holes(h) \ {0}
           a == InOrder(Indices(h))
           k == [n \in DOMAIN a |-> h.at[a[n]]]
           c == Cardinality(Before(h, h.nInternalPointer))
<1>1. p = FALSE OBVIOUS
<1>2. Value(h) = [keys |-> k, current |-> c, late |-> p] BY DEF Value
<1> HIDE DEF p, k, c
<1>3. Value(h) = [keys |-> k, current |-> c, late |-> FALSE] BY <1>1, <1>2
<1> QED BY <1>3

\* The pointer of a table goes elsewhere.
LEMMA ValueAt ==
  ASSUME NEW h, NEW g, Core(h), g.at = h.at, g.nNumUsed = h.nNumUsed, NEW q \in Nat,
         g.nInternalPointer = q
  PROVE  /\ Value(g).keys = Value(h).keys
         /\ Value(g).current = Cardinality(Before(h, q))
         /\ Value(g).late = (q \in Holes(h) \ {0})
<1>1. /\ Indices(g) = Indices(h) /\ Holes(g) = Holes(h)
      /\ \A p : Before(g, p) = Before(h, p)
      /\ Value(g).keys = Value(h).keys
  BY ValueSame
<1>2. /\ Value(g).current = Cardinality(Before(g, q))
      /\ Value(g).late = (q \in Holes(g) \ {0})
  BY DEF Value
<1> QED BY <1>1, <1>2

\* The empty table.
LEMMA EmptyIs ==
  ASSUME NEW n \in Nat
  PROVE  LET g == Empty(n)
         IN /\ Sound(g) /\ g.nIteratorsCount = 0
            /\ Value(g) = [keys |-> <<>>, current |-> 0, late |-> FALSE]
<1> DEFINE g == Empty(n)
<1>1. /\ Fields(g) /\ g.nNumUsed = 0 /\ g.kind = "uninit" /\ g.nNumOfElements = 0
      /\ g.nInternalPointer = 0 /\ g.nIteratorsCount = 0 /\ g.at = <<>>
      /\ g.nNextFreeElement = n /\ g.nTableSize = MinSize
  BY SizesAssumption DEF Empty, Fields
<1> HIDE DEF g
<1>2. Indices(g) = {} /\ Holes(g) = {} BY <1>1 DEF Indices, Holes
<1>3. g.at \in [0 .. g.nNumUsed - 1 -> Keys \cup {Hole}] BY <1>1
<1>4. Core(g)
  <2>1. Cardinality(Indices(g)) = 0 BY <1>2, FS_EmptySet
  <2>2. 0 <= g.nTableSize BY <1>1 DEF Fields
  <2> QED BY <1>1, <1>2, <1>3, <2>1, <2>2 DEF Core
<1>5. Sound(g) BY <1>1, <1>2, <1>4 DEF Sound, Form
<1>6. Value(g) = [keys |-> <<>>, current |-> 0, late |-> FALSE]
  <2>1. Before(g, g.nInternalPointer) = {} BY <1>2 DEF Before
  <2>2. Cardinality(Before(g, g.nInternalPointer)) = 0 BY <2>1, FS_EmptySet
  <2>3. InOrder(Indices(g)) = <<>> BY <1>2, InOrderEmpty
  <2>4. Value(g).keys = <<>>
    <3>1. Value(g).keys = [i \in DOMAIN InOrder(Indices(g)) |-> g.at[InOrder(Indices(g))[i]]]
      BY DEF Value
    <3>2. DOMAIN <<>> = {} OBVIOUS
    <3>3. DOMAIN Value(g).keys = {} BY <2>3, <3>1, <3>2
    <3> QED BY <2>3, <3>1, <3>2
  <2>5. Value(g).current = 0 BY <2>2 DEF Value
  <2>6. g.nInternalPointer \notin Holes(g) \ {0} BY <1>2
  <2>7. Value(g) = [keys |-> Value(g).keys, current |-> Value(g).current, late |-> FALSE]
    BY <2>6, ValueNotLate
  <2> QED BY <2>4, <2>5, <2>7
<1> QED BY <1>1, <1>5, <1>6 DEF g

\* A copy may begin again where the original was at its end.
Copied(a, b) == b = a \/ (Abstract!AtEnd(a) /\ b = [a EXCEPT !.current = 0])

\* zend_array_dup
LEMMA DupIs ==
  ASSUME NEW h, Sound(h)
  PROVE  LET g == Dup(h)
         IN Sound(g) /\ g.nIteratorsCount = 0 /\ Copied(Value(h), Value(g))
<1> DEFINE p == h.nInternalPointer
           q == IF p < h.nNumUsed THEN p ELSE 0
           f == [h EXCEPT !.nIteratorsCount = 0, !.nInternalPointer = q]
           g == Dup(h)
<1>1. /\ Core(h) /\ Fields(h) /\ p \in Nat /\ q \in Nat /\ h.nNumUsed \in Nat
      /\ h.nNextFreeElement \in Nat
      /\ h.kind \in {"uninit", "packed", "hash"}
  BY DEF Sound, Core, Fields
<1>2. Value(h) = [keys |-> Value(h).keys, current |-> Value(h).current,
                  late |-> Value(h).late]
  BY <1>1, ValueIs
<1>3. CASE h.nNumOfElements = 0
  <2>1. g = Empty(h.nNextFreeElement) BY <1>3 DEF Dup
  <2>2. /\ Value(h).keys \in Seq(Keys) /\ Len(Value(h).keys) = 0
        /\ Value(h).current \in 0 .. 0
        /\ Value(h).late = (p \in Holes(h) \ {0})
    BY <1>1, <1>3, ValueIs
  <2>3. Value(h).keys = <<>> BY <2>2
  <2>4. Holes(h) = {}
    <3>1. h.nNumUsed = 0 BY <1>1, <1>3, IndicesAre
    <3> QED BY <3>1 DEF Holes
  <2>5. Value(h) = [keys |-> <<>>, current |-> 0, late |-> FALSE] 
    <3>1. p \notin Holes(h) \ {0} BY <2>4
    <3>2. Value(h) = [keys |-> Value(h).keys, current |-> Value(h).current, late |-> FALSE]
      BY <3>1, ValueNotLate
    <3>3. Value(h).current = 0 BY <2>2
    <3> QED BY <2>3, <3>2, <3>3
  <2> QED BY <1>1, <2>1, <2>5, EmptyIs DEF Copied
<1>4. CASE h.nNumOfElements # 0
  <2> HIDE DEF q, f
  <2>1. /\ Fields(f) /\ f.kind = h.kind /\ f.nTableSize = h.nTableSize
        /\ f.nNumUsed = h.nNumUsed /\ f.at = h.at /\ f.chain = h.chain
        /\ f.nNumOfElements = h.nNumOfElements
        /\ f.nNextFreeElement = h.nNextFreeElement
        /\ f.nIteratorsCount = 0 /\ f.nInternalPointer = q
    BY <1>1 DEF f, Fields
  <2>2. Indices(f) = Indices(h) /\ Holes(f) = Holes(h) BY <2>1, ValueSame
  <2>3. Core(f) BY <1>1, <2>1, <2>2 DEF Core
  <2>4. /\ Value(f).keys = Value(h).keys
        /\ Value(f).current = Cardinality(Before(h, q))
        /\ Value(f).late = (q \in Holes(h) \ {0})
        /\ Value(f) = [keys |-> Value(f).keys, current |-> Value(f).current,
                       late |-> Value(f).late]
    BY <1>1, <2>1, <2>3, ValueAt, ValueIs
  <2>5. /\ Value(h).current = Cardinality(Before(h, p))
        /\ Value(h).late = (p \in Holes(h) \ {0})
        /\ p >= h.nNumUsed => Value(h).current = h.nNumOfElements
        /\ Len(Value(h).keys) = h.nNumOfElements
    BY <1>1, ValueIs
  <2>6. Copied(Value(h), Value(f))
    <3>1. CASE p < h.nNumUsed
      <4>1. q = p BY <3>1 DEF q
      <4> QED BY <2>4, <2>5, <4>1, ValueParts DEF Copied
    <3>2. CASE ~(p < h.nNumUsed)
      <4>1. q = 0 BY <3>2 DEF q
      <4>2. Before(h, 0) = {} BY <1>1, IndicesAre DEF Before
      <4>3. Value(f).current = 0 /\ Value(f).late = FALSE
        <5>1. f.nInternalPointer \notin Holes(f) \ {0} BY <2>1, <4>1
        <5>2. Value(f).late = FALSE BY <5>1, ValueNotLate
        <5>3. Value(f).current = 0 BY <2>4, <4>1, <4>2, FS_EmptySet
        <5> QED BY <5>2, <5>3
      <4>4. Value(h).late = FALSE
        <5>1. p \notin Holes(h) \ {0} BY <1>1, <3>2 DEF Holes
        <5> QED BY <5>1, ValueNotLate
      <4>5. Abstract!AtEnd(Value(h)) BY <1>1, <2>5, <3>2 DEF Abstract!AtEnd
      <4>6. Value(f) = [Value(h) EXCEPT !.current = 0] BY <1>2, <2>4, <4>3, <4>4
      <4> QED BY <4>5, <4>6 DEF Copied
    <3> QED BY <3>1, <3>2
  <2>7. CASE h.kind = "packed"
    <3>1. g = f BY <1>4, <2>7 DEF Dup, f, q
    <3>2. Form(f) BY <2>1, <2>2, <2>7 DEF Sound, Form
    <3> QED BY <2>1, <2>3, <2>6, <3>1, <3>2 DEF Sound
  <2>8. CASE h.kind = "hash"
    <3> DEFINE c == Compact(f)
               r == Rechained(c)
    <3>1. g = r BY <1>4, <2>8 DEF Dup, f, q
    <3>2. Core(c) /\ c.kind = f.kind /\ c.nIteratorsCount = 0 /\ Holes(c) = {}
      BY <2>1, <2>3, CompactIs
    <3>3. ~Value(f).late
      <4>1. q = p \/ q = 0 BY DEF q
      <4>2. p \notin Holes(h) BY <2>8 DEF Sound, Form
      <4> QED BY <2>4, <4>1, <4>2
    <3>4. /\ Value(c).keys = Value(f).keys /\ Value(c).current = Value(f).current
          /\ ~Value(c).late
      BY <2>3, <3>3, CompactKeeps DEF KeepsValue
    <3>5. Value(c) = Value(f)
      <4>1. Value(c).late \in BOOLEAN /\ Value(f).late \in BOOLEAN BY <2>3, <3>2, ValueIs
      <4>2. Value(c).late = Value(f).late BY <3>3, <3>4, <4>1
      <4> QED BY <3>4, <4>2, ValueParts
    <3> HIDE DEF c
    <3>6. /\ Core(r) /\ r.kind = c.kind /\ r.nNumUsed = c.nNumUsed /\ r.at = c.at
          /\ r.nIteratorsCount = c.nIteratorsCount
          /\ r.nInternalPointer = c.nInternalPointer
          /\ r.chain = Chains(r) /\ Holes(r) = Holes(c)
      BY <3>2, RechainedIs
    <3> HIDE DEF r
    <3>7. Value(r) = Value(c) BY <3>6, ValueSame
    <3>8. Form(r) BY <2>1, <2>8, <3>2, <3>6 DEF Form
    <3> QED BY <2>6, <3>1, <3>2, <3>5, <3>6, <3>7, <3>8 DEF Sound
  <2>9. h.kind # "uninit"
    <3>1. h.kind = "uninit" => h.nNumUsed = 0 BY DEF Sound, Form
    <3>2. h.nNumOfElements \in Nat /\ h.nNumOfElements <= h.nNumUsed BY <1>1, IndicesAre
    <3> QED BY <1>4, <3>1, <3>2
  <2> QED BY <1>1, <2>7, <2>8, <2>9
<1> QED BY <1>3, <1>4

\* Only the count of iterators changes.
LEMMA CountIs ==
  ASSUME NEW h, Sound(h), NEW n \in Nat
  PROVE  LET g == [h EXCEPT !.nIteratorsCount = n]
         IN /\ Sound(g) /\ g.nIteratorsCount = n /\ Value(g) = Value(h)
            /\ g.nNumUsed = h.nNumUsed
<1> DEFINE g == [h EXCEPT !.nIteratorsCount = n]
<1>1. Core(h) /\ Fields(h) /\ Form(h) BY DEF Sound, Core
<1>2. /\ Fields(g) /\ g.kind = h.kind /\ g.nTableSize = h.nTableSize
      /\ g.nNumUsed = h.nNumUsed /\ g.at = h.at /\ g.chain = h.chain
      /\ g.nNumOfElements = h.nNumOfElements
      /\ g.nNextFreeElement = h.nNextFreeElement
      /\ g.nIteratorsCount = n /\ g.nInternalPointer = h.nInternalPointer
  BY <1>1 DEF Fields
<1> HIDE DEF g
<1>3. Indices(g) = Indices(h) /\ Holes(g) = Holes(h) /\ Value(g) = Value(h)
  BY <1>2, ValueSame
<1>4. Core(g) BY <1>1, <1>2, <1>3 DEF Core
<1>5. Chains(g) = Chains(h)
  <2>1. \A x : Chain(g, x) = Chain(h, x) BY <1>2 DEF Chain
  <2> QED BY <1>2, <1>3, <2>1 DEF Chains
<1>6. Form(g) BY <1>1, <1>2, <1>3, <1>5 DEF Form
<1> QED BY <1>2, <1>3, <1>4, <1>6 DEF Sound, g

-----------------------------------------------------------------------------
(* Operations on a table are steps of its array                            *)
\* What an operation does to a table: it stays sound, keeps its count, and its
\* array does a step of the abstract program.
Stepped(w, r) ==
    /\ Pair(r) /\ DOMAIN r.pos = DOMAIN w.pos
    /\ Sound(r.h) /\ r.h.nIteratorsCount = w.h.nIteratorsCount
    /\ \/ Abstract!Insert(Value(w.h), Value(r.h))
       \/ Abstract!Erase(Value(w.h), Value(r.h))
       \/ Abstract!Move(Value(w.h), Value(r.h))

\* What Append does, in the words of the abstract program.
LEMMA AppendIs ==
  ASSUME NEW R, NEW s \in Seq(R), NEW k \in R
  PROVE  LET t == Append(s, k)
         IN /\ t \in Seq(R) /\ Len(t) = Len(s) + 1
            /\ Abstract!Front(t) = s /\ Abstract!Last(t) = k
<1> DEFINE t == Append(s, k)
           N == Len(s)
           f == SubSeq(t, 1, Len(t) - 1)
<1>1. /\ t \in Seq(R) /\ Len(t) = N + 1 /\ N \in Nat
      /\ \A n \in 1 .. N : t[n] = s[n]
      /\ t[N + 1] = k
  BY AppendProperties, LenProperties
<1>2. f = [n \in 1 .. N |-> t[n]]
  <2> HIDE DEF t
  <2>1. Len(t) - 1 = N BY <1>1
  <2> QED BY <1>1, <2>1
<1>3. s \in [1 .. N -> R] BY LenProperties
<1>4. f = s BY <1>1, <1>2, <1>3
<1> HIDE DEF t
<1>5. Abstract!Front(t) = f BY <1>1 DEF Abstract!Front
<1> HIDE DEF f
<1> QED BY <1>1, <1>4, <1>5 DEF Abstract!Last, t

\* An array with a key at its end is one the abstract program may insert into.
LEMMA ExtendedIs ==
  ASSUME NEW h, Core(h), NEW g, Core(g), NEW k \in Keys, k \notin Elements(h),
         Extended(Value(h), k, Value(g))
  PROVE  Abstract!Insert(Value(h), Value(g))
<1> DEFINE a == Value(h)
           b == Value(g)
<1>1. a.keys \in Seq(Keys) /\ Elements(h) = {a.keys[n] : n \in 1 .. Len(a.keys)}
  BY ValueIs
<1>2. b.keys = Append(a.keys, k) BY DEF Extended
<1>3. /\ Len(b.keys) = Len(a.keys) + 1 /\ Abstract!Front(b.keys) = a.keys
      /\ Abstract!Last(b.keys) = k
  BY <1>1, <1>2, AppendIs
<1>4. ~Abstract!Contains(a.keys, k) BY <1>1 DEF Abstract!Contains
<1> QED BY <1>3, <1>4 DEF Extended, Abstract!Insert, Abstract!AtEnd

\* An operation that changes nothing is a move that does not move.
LEMMA StandsStill == ASSUME NEW w, Pair(w), Sound(w.h) PROVE Stepped(w, w)
<1>1. Value(w.h).current \in 0 .. Len(Value(w.h).keys) BY ValueIs DEF Sound
<1>2. Abstract!Move(Value(w.h), Value(w.h)) BY <1>1 DEF Abstract!Move
<1> QED BY <1>2 DEF Stepped

\* Insertion is a step of the array ...
LEMMA AddSteps ==
  ASSUME NEW w, Pair(w), Sound(w.h), NEW k \in Keys
  PROVE  Stepped(w, Add(w, k))
<1> DEFINE r == Add(w, k)
<1>1. CASE r = w BY <1>1, StandsStill
<1>2. CASE k \notin Elements(w.h) /\ Grown(w, k, r)
  <2> HIDE DEF r
  <2>1. Core(r.h) /\ Extended(Value(w.h), k, Value(r.h)) BY <1>2 DEF Grown, Sound
  <2>2. Abstract!Insert(Value(w.h), Value(r.h)) BY <1>2, <2>1, ExtendedIs DEF Sound
  <2>3. Stepped(w, r) BY <1>2, <2>2 DEF Grown, Stepped
  <2> QED BY <2>3 DEF r
<1> QED BY <1>1, <1>2, AddIs

\* ... and deletion is,
LEMMA DelSteps ==
  ASSUME NEW w, Pair(w), Sound(w.h), NEW k \in Keys
  PROVE  Stepped(w, Del(w, k))
<1>1. Shrunk(w, Del(w, k)) => Stepped(w, Del(w, k)) BY DEF Shrunk, Stepped
<1> QED BY <1>1, DelIs, StandsStill

\* The pointer moves to a place that is not a hole.
LEMMA PointerIs ==
  ASSUME NEW w, Pair(w), Sound(w.h), NEW q \in Nat, q \notin Holes(w.h),
         NEW r, r = [w EXCEPT !.h.nInternalPointer = q]
  PROVE  /\ Pair(r) /\ DOMAIN r.pos = DOMAIN w.pos
         /\ Sound(r.h) /\ r.h.nIteratorsCount = w.h.nIteratorsCount
         /\ Value(r.h).keys = Value(w.h).keys
         /\ Value(r.h).current = Cardinality(Before(w.h, q))
         /\ ~Value(r.h).late
<1> DEFINE h == w.h
           g == [h EXCEPT !.nInternalPointer = q]
<1>1. Core(h) /\ Fields(h) /\ Form(h) BY DEF Sound, Core
<1>2. r = [w EXCEPT !.h = g] OBVIOUS
<1>3. /\ Fields(g) /\ g.kind = h.kind /\ g.nTableSize = h.nTableSize
      /\ g.nNumUsed = h.nNumUsed /\ g.at = h.at /\ g.chain = h.chain
      /\ g.nNumOfElements = h.nNumOfElements
      /\ g.nNextFreeElement = h.nNextFreeElement
      /\ g.nIteratorsCount = h.nIteratorsCount /\ g.nInternalPointer = q
  BY <1>1 DEF Fields
<1> HIDE DEF g
<1>4. r.h = g /\ r.pos = w.pos /\ Pair(r)
  <2>1. r \in [h : {g}, pos : {w.pos}] BY <1>2 DEF Pair
  <2> QED BY <2>1 DEF Pair
<1>5. Indices(g) = Indices(h) /\ Holes(g) = Holes(h) BY <1>3, ValueSame
<1>6. Core(g) BY <1>1, <1>3, <1>5 DEF Core
<1>7. Chains(g) = Chains(h)
  <2>1. \A x : Chain(g, x) = Chain(h, x) BY <1>3 DEF Chain
  <2> QED BY <1>3, <1>5, <2>1 DEF Chains
<1>8. Form(g) BY <1>1, <1>3, <1>5, <1>7 DEF Form
<1>9. /\ Value(g).keys = Value(h).keys
      /\ Value(g).current = Cardinality(Before(h, q))
  BY <1>1, <1>3, ValueAt
<1>10. Value(g).late = FALSE
  <2>1. g.nInternalPointer \notin Holes(g) \ {0} BY <1>3, <1>5
  <2> QED BY <2>1, ValueNotLate
<1> QED BY <1>3, <1>4, <1>6, <1>8, <1>9, <1>10 DEF Sound

\* ... and so is every move of the pointer to an element or to the end:
LEMMA PointerSteps ==
  ASSUME NEW w, Pair(w), Sound(w.h), NEW q \in Nat, q \notin Holes(w.h),
         Cardinality(Before(w.h, q)) \in {0, Value(w.h).current + 1, Len(Value(w.h).keys) - 1},
         Cardinality(Before(w.h, q)) \in 0 .. w.h.nNumOfElements
  PROVE  Stepped(w, [w EXCEPT !.h.nInternalPointer = q])
<1> DEFINE r == [w EXCEPT !.h.nInternalPointer = q]
<1> HIDE DEF r
<1>1. /\ Pair(r) /\ DOMAIN r.pos = DOMAIN w.pos
      /\ Sound(r.h) /\ r.h.nIteratorsCount = w.h.nIteratorsCount
      /\ Value(r.h).keys = Value(w.h).keys
      /\ Value(r.h).current = Cardinality(Before(w.h, q))
      /\ ~Value(r.h).late
  BY PointerIs DEF r
<1>2. Len(Value(w.h).keys) = w.h.nNumOfElements BY ValueIs DEF Sound
<1>3. Abstract!Move(Value(w.h), Value(r.h)) BY <1>1, <1>2 DEF Abstract!Move
<1>4. Stepped(w, r) BY <1>1, <1>3 DEF Stepped
<1> QED BY <1>4 DEF r

\* zend_hash_internal_pointer_reset, _end and zend_hash_move_forward
LEMMA RewindSteps ==
  ASSUME NEW w, Pair(w), Sound(w.h)
  PROVE  Stepped(w, [w EXCEPT !.h.nInternalPointer = ValidPos(w.h, 0)])
<1> DEFINE q == ValidPos(w.h, 0)
<1>1. Core(w.h) BY DEF Sound
<1>2. q \in Nat /\ q \notin Holes(w.h) /\ Before(w.h, q) = Before(w.h, 0)
  BY <1>1, ValidPosIs
<1> HIDE DEF q
<1>3. Before(w.h, 0) = {} BY <1>1, IndicesAre DEF Before
<1>4. Cardinality(Before(w.h, q)) = 0 BY <1>2, <1>3, FS_EmptySet
<1>5. w.h.nNumOfElements \in Nat BY <1>1, IndicesAre
<1>6. Stepped(w, [w EXCEPT !.h.nInternalPointer = q]) BY <1>2, <1>4, <1>5, PointerSteps
<1> QED BY <1>6 DEF q

\* end,
LEMMA GoToEndSteps ==
  ASSUME NEW w, Pair(w), Sound(w.h)
  PROVE  Stepped(w, [w EXCEPT !.h.nInternalPointer =
             IF Indices(w.h) = {} THEN w.h.nNumUsed
             ELSE CHOOSE i \in Indices(w.h) : \A j \in Indices(w.h) : j <= i])
<1> DEFINE h == w.h
           S == Indices(h)
           q == IF S = {} THEN h.nNumUsed ELSE CHOOSE i \in S : \A j \in S : j <= i
<1>1. /\ Core(h) /\ IsFiniteSet(S) /\ \A j \in S : j \in Nat
      /\ h.nNumUsed \in Nat /\ h.nNumOfElements \in Nat /\ Cardinality(S) = h.nNumOfElements
  BY IndicesAre DEF Sound, Core
<1>2. /\ q \in Nat /\ q \notin Holes(h)
      /\ Cardinality(Before(h, q)) \in {0, Len(Value(h).keys) - 1}
      /\ Cardinality(Before(h, q)) \in 0 .. h.nNumOfElements
  <2>1. CASE S = {}
    <3>1. q = h.nNumUsed /\ h.nNumUsed \notin Holes(h) BY <1>1, <2>1 DEF Holes
    <3>2. Before(h, q) = {} BY <2>1 DEF Before
    <3> HIDE DEF q
    <3> QED BY <1>1, <3>1, <3>2, FS_EmptySet
  <2>2. CASE S # {}
    <3>1. q \in S /\ \A j \in S : j <= q
      <4>1. \E x \in S : \A y \in S : y <= x
        <5> HIDE DEF S
        <5> QED BY <1>1, <2>2, MaxIs
      <4>2. q = CHOOSE i \in S : \A j \in S : j <= i BY <2>2
      <4> HIDE DEF q, S
      <4> QED BY <4>1, <4>2
    <3> HIDE DEF q
    <3>2. Before(h, q) = S \ {q}
      <4>1. \A j \in S : j < q <=> j # q BY <1>1, <3>1
      <4> QED BY <4>1 DEF Before
    <3>3. Cardinality(S \ {q}) = Cardinality(S) - 1 BY <1>1, <3>1, FS_RemoveElement
    <3>4. q \notin Holes(h) BY <3>1 DEF Indices, Holes
    <3>5. Len(Value(h).keys) = h.nNumOfElements BY <1>1, ValueIs
    <3>6. Cardinality(S) # 0 BY <1>1, <2>2, FS_EmptySet
    <3> HIDE DEF S
    <3> QED BY <1>1, <3>1, <3>2, <3>3, <3>4, <3>5, <3>6
  <2> QED BY <2>1, <2>2
<1> HIDE DEF q
<1>3. Stepped(w, [w EXCEPT !.h.nInternalPointer = q]) BY <1>2, PointerSteps
<1> QED BY <1>3 DEF q

\* next.
LEMMA MoveForwardSteps ==
  ASSUME NEW w, Pair(w), Sound(w.h)
  PROVE  LET p == ValidPos(w.h, w.h.nInternalPointer)
         IN Stepped(w, [w EXCEPT !.h.nInternalPointer =
                IF p < w.h.nNumUsed THEN ValidPos(w.h, p + 1) ELSE @])
<1> DEFINE h == w.h
           S == Indices(h)
           x == h.nInternalPointer
           p == ValidPos(h, x)
           q == ValidPos(h, p + 1)
           r == [w EXCEPT !.h.nInternalPointer = IF p < h.nNumUsed THEN q ELSE @]
<1>1. /\ Core(h) /\ IsFiniteSet(S) /\ \A j \in S : j \in Nat /\ j < h.nNumUsed
      /\ h.nNumUsed \in Nat /\ h.nNumOfElements \in Nat /\ x \in Nat
      /\ Cardinality(S) = h.nNumOfElements
  BY IndicesAre DEF Sound, Core, Fields
<1>2. /\ p \in Nat /\ x <= p /\ Before(h, p) = Before(h, x)
      /\ x < h.nNumUsed => p \in S \/ p = h.nNumUsed
      /\ x >= h.nNumUsed => p = x
  BY <1>1, ValidPosIs
<1> HIDE DEF p
<1>3. CASE p < h.nNumUsed
  <2>1. p \in S BY <1>1, <1>2, <1>3
  <2>2. q \in Nat /\ q \notin Holes(h) /\ Before(h, q) = Before(h, p + 1)
    BY <1>1, <1>2, ValidPosIs
  <2> HIDE DEF q
  <2>3. Before(h, p + 1) = Before(h, p) \cup {p} /\ p \notin Before(h, p)
    <3>1. \A j \in S : j < p + 1 <=> j < p \/ j = p BY <1>1, <1>2
    <3>2. ~(p < p) BY <1>2
    <3>3. {j \in S : j < p + 1} = {j \in S : j < p} \cup {p}
      <4> HIDE DEF S
      <4> QED BY ONLY <2>1, <3>1
    <3> QED BY <3>2, <3>3 DEF Before
  <2>4. /\ IsFiniteSet(Before(h, p)) /\ Cardinality(Before(h, p)) \in Nat
        /\ Cardinality(Before(h, p)) < h.nNumOfElements
    BY <1>1, <1>2, <2>1, BeforeIs
  <2>5. Cardinality(Before(h, q)) = Cardinality(Before(h, p)) + 1
    BY <2>2, <2>3, <2>4, FS_AddElement
  <2>6. Value(h).current = Cardinality(Before(h, p)) BY <1>1, <1>2, ValueIs
  <2>7. /\ Cardinality(Before(h, q)) \in {0, Value(h).current + 1, Len(Value(h).keys) - 1}
        /\ Cardinality(Before(h, q)) \in 0 .. h.nNumOfElements
    BY <1>1, <2>4, <2>5, <2>6
  <2>8. Stepped(w, [w EXCEPT !.h.nInternalPointer = q]) BY <2>2, <2>7, PointerSteps
  <2>9. r = [w EXCEPT !.h.nInternalPointer = q] BY <1>3
  <2> HIDE DEF r
  <2>10. Stepped(w, r) BY <2>8, <2>9
  <2> QED BY <2>10 DEF r, p, q
<1>4. CASE ~(p < h.nNumUsed)
  <2>1. r = [w EXCEPT !.h.nInternalPointer = x] BY <1>4
  <2>2. w \in [h : {h}, pos : {w.pos}] BY DEF Pair
  <2>3. h = [h EXCEPT !.nInternalPointer = x] BY <1>1 DEF Core, Fields
  <2>4. r = w
    <3>1. r = [w EXCEPT !.h = [h EXCEPT !.nInternalPointer = x]] BY <2>1
    <3>2. r = [w EXCEPT !.h = h] BY <2>3, <3>1
    <3> HIDE DEF r, h
    <3> QED BY <2>2, <3>2
  <2> HIDE DEF r
  <2>5. Stepped(w, r) BY <2>4, StandsStill
  <2> QED BY <2>5 DEF r, p, q
<1> QED BY <1>3, <1>4

-----------------------------------------------------------------------------
(* Array literals                                                          *)
\* Sizes by doubling, up to one that is large enough.
LEMMA SizesAre ==
  ASSUME NEW n \in Nat
  PROVE  LET size[i \in 0 .. n] == IF i = 0 THEN MinSize ELSE 2 * size[i - 1]
         IN \A i \in 0 .. n : size[i] \in Nat /\ i < size[i]
<1> DEFINE Of(f, k) == f = [i \in 0 .. k |-> IF i = 0 THEN MinSize ELSE 2 * f[i - 1]]
<1>1. MinSize \in Nat \ {0} BY SizesAssumption
<1>2. \A k \in 0 .. n : \E f : Of(f, k) /\ f \in [0 .. k -> Nat]
  <2> DEFINE T == {k \in 0 .. n : ~ \E f : Of(f, k) /\ f \in [0 .. k -> Nat]}
  <2>1. SUFFICES ASSUME T # {} PROVE FALSE OBVIOUS
  <2>2. PICK k \in T : \A m \in T : k <= m
    <3>1. \A m \in T : m \in Nat OBVIOUS
    <3> HIDE DEF T
    <3> QED BY <2>1, <3>1, NatMin
  <2>3. CASE k = 0
    <3> DEFINE f == [i \in 0 .. 0 |-> MinSize]
    <3>1. f = [i \in 0 .. 0 |-> IF i = 0 THEN MinSize ELSE 2 * f[i - 1]]
      <4>1. \A i \in 0 .. 0 : MinSize = IF i = 0 THEN MinSize ELSE 2 * f[i - 1] OBVIOUS
      <4> QED BY <4>1
    <3>2. f \in [0 .. 0 -> Nat] BY <1>1
    <3> HIDE DEF f
    <3>3. Of(f, k) /\ f \in [0 .. k -> Nat] BY <2>3, <3>1, <3>2
    <3> QED BY <2>2, <3>3
  <2>4. CASE k # 0
    <3>1. k - 1 \in 0 .. n /\ k - 1 \notin T /\ k \in 1 .. n
      <4>1. k \in 0 .. n BY <2>2
      <4> HIDE DEF Of, T
      <4> QED BY <2>2, <2>4, <4>1
    <3>2. PICK g : Of(g, k - 1) /\ g \in [0 .. k - 1 -> Nat]
      <4> HIDE DEF Of
      <4> QED BY <3>1
    <3> DEFINE last == 2 * g[k - 1]
               f == [i \in 0 .. k |-> IF i = k THEN last ELSE g[i]]
    <3>3. last \in Nat
      <4>0. k - 1 \in 0 .. k - 1 BY <3>1
      <4>1. g[k - 1] \in Nat BY <3>2, <4>0
      <4> HIDE DEF Of
      <4> QED BY <4>1
    <3> HIDE DEF last
    <3>4. f \in [0 .. k -> Nat] BY <3>1, <3>2, <3>3
    <3>5. \A i \in 0 .. k : f[i] = IF i = 0 THEN MinSize ELSE 2 * f[i - 1]
      <4> SUFFICES ASSUME NEW i \in 0 .. k
                   PROVE  f[i] = IF i = 0 THEN MinSize ELSE 2 * f[i - 1]
        OBVIOUS
      <4>1. CASE i = k
        <5>1. f[i] = last /\ i # 0 /\ k - 1 \in 0 .. k /\ k - 1 # k BY <3>1, <4>1
        <5>2. f[k - 1] = g[k - 1] BY <5>1
        <5> QED BY <4>1, <5>1, <5>2 DEF last
      <4>2. CASE i # k
        <5>1. i \in 0 .. k - 1 BY <3>1, <4>2
        <5>2. g[i] = IF i = 0 THEN MinSize ELSE 2 * g[i - 1] BY <3>2, <5>1
        <5>3. f[i] = g[i] /\ (i # 0 => f[i - 1] = g[i - 1]) BY <3>1, <4>2, <5>1
        <5> HIDE DEF f
        <5> QED BY <5>2, <5>3
      <4> QED BY <4>1, <4>2
    <3>6. f = [i \in 0 .. k |-> f[i]] OBVIOUS
    <3> HIDE DEF f
    <3>7. Of(f, k) BY <3>5, <3>6
    <3> QED BY <2>2, <3>4, <3>7
  <2> QED BY <2>3, <2>4
<1> DEFINE size == CHOOSE f : Of(f, n)
<1>3. Of(size, n)
  <2> HIDE DEF Of
  <2>1. \E f : Of(f, n) BY <1>2
  <2> QED BY <2>1
<1>4. \A i \in 0 .. n : size[i] \in Nat /\ i < size[i]
  <2> DEFINE s == size
             T == {i \in 0 .. n : ~(s[i] \in Nat /\ i < s[i])}
  <2> HIDE DEF size
  <2>1. \A i \in 0 .. n : s[i] = IF i = 0 THEN MinSize ELSE 2 * s[i - 1] BY <1>3
  <2>2. SUFFICES ASSUME T # {} PROVE FALSE OBVIOUS
  <2> HIDE DEF s
  <2>3. PICK i \in T : \A m \in T : i <= m
    <3>1. \A m \in T : m \in Nat OBVIOUS
    <3> HIDE DEF T
    <3> QED BY <2>2, <3>1, NatMin
  <2>4. i # 0 BY <1>1, <2>1, <2>3
  <2>5. i - 1 \in 0 .. n /\ i - 1 \notin T /\ i \in 1 .. n BY <2>3, <2>4
  <2>6. s[i - 1] \in Nat /\ i - 1 < s[i - 1] BY <2>5
  <2>7. s[i] = 2 * s[i - 1] BY <2>1, <2>4, <2>5
  <2>8. s[i] \in Nat /\ i < s[i] BY ONLY <2>5, <2>6, <2>7
  <2> QED BY <2>3, <2>8
<1> QED BY <1>4

\* A literal is a sound table without iterators.
LEMMA LiteralIs ==
  ASSUME NEW n \in Nat, NEW passed \in 0 .. n, 0 .. n - 1 \subseteq Ints
  PROVE  LET g == Literal(n, passed)
         IN Sound(g) /\ g.nIteratorsCount = 0 /\ Value(g).late = FALSE
<1> DEFINE g == Literal(n, passed)
<1>1. CASE n = 0
  <2>1. g = Empty(0) BY <1>1 DEF Literal
  <2> QED BY <2>1, EmptyIs
<1>2. CASE n # 0
  <2> DEFINE size[i \in 0 .. n] == IF i = 0 THEN MinSize ELSE 2 * size[i - 1]
             S == {s \in {size[i] : i \in 0 .. n} : s >= n}
             e == Empty(n)
             at == [i \in 0 .. n - 1 |-> i]
             z == Least(S)
  <2>1. \A i \in 0 .. n : size[i] \in Nat /\ i < size[i] BY SizesAre
  <2>2. g = [e EXCEPT !.kind = "packed", !.nNumUsed = n, !.nNumOfElements = n,
                      !.at = at, !.nInternalPointer = passed, !.nTableSize = z]
    BY <1>2 DEF Literal
  <2> HIDE DEF size
  <2>3. S # {} /\ \A s \in S : s \in Nat /\ s >= n
    <3>1. size[n] \in Nat /\ n < size[n] BY <2>1
    <3>2. size[n] \in S BY <3>1
    <3> QED BY <2>1, <3>2
  <2>4. z \in S
    <3> HIDE DEF S
    <3> QED BY <2>3, LeastIs
  <2>5. z \in Nat \ {0} /\ n <= z BY <1>2, <2>3, <2>4
  <2>6. Fields(e) /\ e.nIteratorsCount = 0 /\ e.nNextFreeElement = n
    BY EmptyIs DEF Sound, Core, Empty
  <2> HIDE DEF g, e, at, z, S
  <2>0. passed \in Nat OBVIOUS
  <2>7. /\ Fields(g) /\ g.kind = "packed" /\ g.nTableSize = z /\ g.nNumUsed = n
        /\ g.nNumOfElements = n /\ g.at = at /\ g.nInternalPointer = passed
        /\ g.nIteratorsCount = 0 /\ g.nNextFreeElement = n
    <3> DEFINE p == passed
               m == n
    <3>1. p \in Nat /\ m \in Nat BY <2>0
    <3>2. g = [e EXCEPT !.kind = "packed", !.nNumUsed = m, !.nNumOfElements = m,
                        !.at = at, !.nInternalPointer = p, !.nTableSize = z]
      BY <2>2
    <3> HIDE DEF p, m
    <3>3. /\ Fields(g) /\ g.kind = "packed" /\ g.nTableSize = z /\ g.nNumUsed = m
          /\ g.nNumOfElements = m /\ g.at = at /\ g.nInternalPointer = p
          /\ g.nIteratorsCount = e.nIteratorsCount
          /\ g.nNextFreeElement = e.nNextFreeElement
      BY ONLY <2>5, <2>6, <3>1, <3>2 DEF Fields
    <3> QED BY <2>6, <3>3 DEF p, m
  <2>8. /\ at \in [0 .. n - 1 -> Ints] /\ \A i \in 0 .. n - 1 : at[i] = i /\ i # Hole
        /\ Ints \subseteq Keys
    <3>1. Ints \subseteq Keys /\ Hole \notin Keys BY KeysAssumption DEF Keys
    <3> QED BY <3>1 DEF at
  <2>9. Indices(g) = 0 .. n - 1 /\ Holes(g) = {} BY <2>7, <2>8 DEF Indices, Holes
  <2>10. Core(g)
    <3>1. Cardinality(Indices(g)) = n BY <2>9, UpTo
    <3>2. g.at \in [0 .. g.nNumUsed - 1 -> Keys \cup {Hole}] BY <2>7, <2>8
    <3>3. /\ \A i, j \in Indices(g) : g.at[i] = g.at[j] => i = j
          /\ \A i \in Indices(g) : g.at[i] \in Ints => g.at[i] < g.nNextFreeElement
          /\ g.nNumUsed > 0 => g.at[g.nNumUsed - 1] # Hole
      BY <2>7, <2>8, <2>9
    <3> QED BY <2>5, <2>7, <3>1, <3>2, <3>3 DEF Core
  <2>11. Form(g) BY <2>7, <2>8, <2>9 DEF Form
  <2>12. Value(g).late = FALSE
    <3>1. g.nInternalPointer \notin Holes(g) \ {0} BY <2>9
    <3> QED BY <3>1, ValueNotLate
  <2> QED BY <2>7, <2>10, <2>11, <2>12 DEF Sound, g
<1> QED BY <1>1, <1>2

-----------------------------------------------------------------------------
(* The inductive invariant                                                 *)

SlotsOf(it, t) == {x \in Slots : it[x].ht = t}
Allocated(tb) == {t \in Tables : tb[t] # Free}

\* The tables tb and the variables vs that hold them.
Owned(tb, vs) ==
    /\ vs \in [Vars -> Tables]
    /\ tb = [t \in Tables |-> tb[t]]
    /\ Allocated(tb) = {vs[v] : v \in Vars}
    /\ \A t \in Allocated(tb) : Sound(tb[t])

\* The tables tb know of the iterators it.
Counted(tb, it) ==
    /\ \A t \in Allocated(tb) : tb[t].nIteratorsCount = Cardinality(SlotsOf(it, t))
    /\ \A x \in Slots : it[x].ht \in Tables => it[x].ht \in Allocated(tb)

\* The iterators it, of which those in use are below n.
Iterating(it, n) ==
    /\ it \in [Slots -> [ht : Tables \cup {Nobody, Poisoned}, pos : Nat,
                         over : Vars \cup {Nobody}]]
    /\ \A x \in Slots : it[x].ht # Nobody => x < n /\ it[x].over \in Vars
    /\ n \in 0 .. Iterators

HashInv ==
    /\ Owned(table, vars)
    /\ Counted(table, iter)
    /\ Iterating(iter, used)
    /\ writes \in 0 .. Writes

-----------------------------------------------------------------------------

\* The entries of EG(ht_iterators).
LEMMA SlotsAre ==
  /\ Iterators \in Nat /\ \A x \in Slots : x \in Nat /\ x < Iterators
  /\ IsFiniteSet(Slots) /\ Cardinality(Slots) = Iterators
<1>1. Iterators \in Nat BY SizesAssumption
<1>2. IsFiniteSet(0 .. Iterators - 1) /\ Cardinality(0 .. Iterators - 1) = Iterators
  BY <1>1, UpTo
<1>3. \A x \in 0 .. Iterators - 1 : x \in Nat /\ x < Iterators BY <1>1
<1> QED BY <1>1, <1>2, <1>3 DEF Slots

\* The entries that point to a table.
LEMMA SlotsOfAre ==
  ASSUME NEW it, NEW t
  PROVE  /\ IsFiniteSet(SlotsOf(it, t)) /\ SlotsOf(it, t) \subseteq Slots
         /\ Cardinality(SlotsOf(it, t)) \in Nat
         /\ Cardinality(SlotsOf(it, t)) <= Iterators
         /\ Cardinality(SlotsOf(it, t)) = 0 => SlotsOf(it, t) = {}
<1>1. SlotsOf(it, t) \subseteq Slots BY DEF SlotsOf
<1>2. /\ IsFiniteSet(SlotsOf(it, t)) /\ Cardinality(SlotsOf(it, t)) <= Cardinality(Slots)
  BY <1>1, SlotsAre, FS_Subset
<1>3. Cardinality(SlotsOf(it, t)) \in Nat BY <1>2, FS_CardinalityType
<1>4. Cardinality(SlotsOf(it, t)) = 0 => SlotsOf(it, t) = {} BY <1>2, FS_EmptySet
<1> QED BY <1>1, <1>2, <1>3, <1>4, SlotsAre

\* An entry goes from one table to another.
Moved(it, jt, x, s, t) ==
    /\ it[x].ht = s /\ jt[x].ht = t
    /\ \A y \in Slots \ {x} : jt[y].ht = it[y].ht

\* The tables' numbers of entries change by one.
LEMMA EntryMoves ==
  ASSUME NEW it, NEW jt, NEW x \in Slots, NEW s, NEW t, s # t, Moved(it, jt, x, s, t)
  PROVE  /\ Cardinality(SlotsOf(jt, s)) = Cardinality(SlotsOf(it, s)) - 1
         /\ Cardinality(SlotsOf(jt, t)) = Cardinality(SlotsOf(it, t)) + 1
         /\ \A u : u # s /\ u # t => SlotsOf(jt, u) = SlotsOf(it, u)
         /\ Cardinality(SlotsOf(it, s)) \in Nat \ {0}
<1>1. SlotsOf(jt, s) = SlotsOf(it, s) \ {x} /\ x \in SlotsOf(it, s) BY DEF SlotsOf, Moved
<1>2. SlotsOf(jt, t) = SlotsOf(it, t) \cup {x} /\ x \notin SlotsOf(it, t) BY DEF SlotsOf, Moved
<1>3. IsFiniteSet(SlotsOf(it, s)) /\ IsFiniteSet(SlotsOf(it, t)) BY SlotsOfAre
<1>4. Cardinality(SlotsOf(it, s) \ {x}) = Cardinality(SlotsOf(it, s)) - 1
  BY <1>1, <1>3, FS_RemoveElement
<1>5. Cardinality(SlotsOf(it, t) \cup {x}) = Cardinality(SlotsOf(it, t)) + 1
  BY <1>2, <1>3, FS_AddElement
<1>6. \A u : u # s /\ u # t => SlotsOf(jt, u) = SlotsOf(it, u) BY DEF SlotsOf, Moved
<1>7. Cardinality(SlotsOf(it, s)) \in Nat \ {0} BY <1>1, SlotsOfAre, FS_EmptySet
<1> QED BY <1>1, <1>2, <1>4, <1>5, <1>6, <1>7

\* Entries that stay with their tables.
LEMMA EntriesStay ==
  ASSUME NEW it, NEW jt, \A y \in Slots : jt[y].ht = it[y].ht
  PROVE  \A t : SlotsOf(jt, t) = SlotsOf(it, t)
BY DEF SlotsOf

\* A table is not a free address.
LEMMA NotFree == ASSUME NEW h, Sound(h) PROVE h # Free
<1>1. h.kind \in {"uninit", "packed", "hash"} BY DEF Sound, Core, Fields
<1>2. Free.kind = "free" BY DEF Free
<1> QED BY <1>1, <1>2

\* The positions of a table's iterators.
LEMMA WithIs ==
  ASSUME NEW h, Iterating(iter, used), NEW t
  PROVE  Pair(With(h, t)) /\ With(h, t).h = h /\ DOMAIN With(h, t).pos = Attached(t)
<1> DEFINE pos == [x \in Attached(t) |-> iter[x].pos]
<1>1. Attached(t) \subseteq Slots BY DEF Attached
<1>2. pos \in [Attached(t) -> Nat] /\ DOMAIN pos = Attached(t) BY <1>1 DEF Iterating
<1> HIDE DEF pos
<1>3. With(h, t) = [h |-> h, pos |-> pos] BY DEF With, pos
<1>4. With(h, t) \in [h : {h}, pos : {pos}] BY <1>3
<1> QED BY <1>2, <1>4 DEF Pair

\* The iterators after an operation on a table with positions.
LEMMA PositionsAre ==
  ASSUME Iterating(iter, used), NEW t, NEW r, Pair(r), DOMAIN r.pos = Attached(t)
  PROVE  LET jt == Positions(r)
         IN Iterating(jt, used) /\ \A y \in Slots : jt[y].ht = iter[y].ht
<1> DEFINE jt == Positions(r)
<1>1. \A x \in Slots : jt[x] = IF x \in Attached(t) THEN [iter[x] EXCEPT !.pos = r.pos[x]]
                               ELSE iter[x]
  BY DEF Positions
<1>2. jt = [x \in Slots |-> jt[x]] BY DEF Positions
<1> HIDE DEF jt
<1>3. ASSUME NEW x \in Slots
      PROVE  /\ jt[x] \in [ht : Tables \cup {Nobody, Poisoned}, pos : Nat,
                           over : Vars \cup {Nobody}]
             /\ jt[x].ht = iter[x].ht /\ jt[x].over = iter[x].over
  <2>1. iter[x] \in [ht : Tables \cup {Nobody, Poisoned}, pos : Nat,
                     over : Vars \cup {Nobody}]
    BY DEF Iterating
  <2>2. CASE x \in Attached(t)
    <3>1. r.pos[x] \in Nat BY <2>2 DEF Pair
    <3>2. jt[x] = [iter[x] EXCEPT !.pos = r.pos[x]] BY <1>1, <2>2
    <3> QED BY <2>1, <3>1, <3>2
  <2>3. CASE x \notin Attached(t) BY <1>1, <2>1, <2>3
  <2> QED BY <2>2, <2>3
<1>4. Iterating(jt, used) BY <1>2, <1>3 DEF Iterating
<1> QED BY <1>3, <1>4 DEF jt

-----------------------------------------------------------------------------
(* Tables of their own                                                     *)
\* v holds a table of its own, and the array it held before or a copy of it.
Separate(v, own) ==
    LET t == own.vars[v]
    IN /\ Owned(own.table, own.vars) /\ Counted(own.table, iter)
       /\ t \in Allocated(own.table)
       /\ \A u \in Vars \ {v} : /\ own.vars[u] = vars[u] /\ vars[u] # t
                                /\ own.table[vars[u]] = table[vars[u]]
       /\ Value(own.table[t]) \in Abstract!Mine(Value(table[vars[v]]), v)

Put(f, x, e) == [f EXCEPT ![x] = e]

\* The allocated tables are those that the variables hold.
LEMMA OwnedAre ==
  ASSUME NEW tb, NEW vs, Owned(tb, vs)
  PROVE  /\ \A v \in Vars : /\ vs[v] \in Tables /\ vs[v] \in Allocated(tb)
                            /\ Sound(tb[vs[v]]) /\ tb[vs[v]] # Free
         /\ \A t \in Allocated(tb) : t \in Tables /\ Sound(tb[t])
         /\ vs \in [Vars -> Tables] /\ tb = [t \in Tables |-> tb[t]]
BY DEF Owned, Allocated

\* Another table at an address that is in use already.
LEMMA TableChanges ==
  ASSUME NEW tb, NEW vs, Owned(tb, vs), NEW t \in Allocated(tb), NEW h, Sound(h),
         NEW ub, ub = Put(tb, t, h)
  PROVE  /\ Owned(ub, vs) /\ Allocated(ub) = Allocated(tb)
         /\ ub[t] = h /\ \A s \in Tables \ {t} : ub[s] = tb[s]
<1>1. t \in Tables /\ h # Free BY NotFree DEF Allocated
<1>2. ub = [s \in Tables |-> ub[s]] /\ ub[t] = h /\ \A s \in Tables \ {t} : ub[s] = tb[s]
  BY <1>1 DEF Owned, Put
<1>3. Allocated(ub) = Allocated(tb)
  <2>1. tb[t] # Free BY DEF Allocated
  <2>2. \A s \in Tables : ub[s] # Free <=> tb[s] # Free BY <1>1, <1>2, <2>1
  <2> QED BY <2>2 DEF Allocated
<1>4. \A s \in Allocated(ub) : Sound(ub[s])
  <2> SUFFICES ASSUME NEW s \in Allocated(ub) PROVE Sound(ub[s]) OBVIOUS
  <2>1. s # t => ub[s] = tb[s] BY <1>2 DEF Allocated
  <2> QED BY <1>2, <1>3, <2>1 DEF Owned
<1>5. Owned(ub, vs) BY <1>2, <1>3, <1>4 DEF Owned
<1> QED BY <1>2, <1>3, <1>5

\* A variable whose table another one holds too gets a table at a free address.
LEMMA TableAppears ==
  ASSUME NEW tb, NEW vs, Owned(tb, vs), NEW t \in Tables, tb[t] = Free,
         NEW h, Sound(h), NEW v \in Vars, NEW x \in Vars \ {v}, vs[x] = vs[v],
         NEW ub, ub = Put(tb, t, h), NEW us, us = Put(vs, v, t)
  PROVE  /\ Owned(ub, us) /\ Allocated(ub) = Allocated(tb) \cup {t}
         /\ ub[t] = h /\ \A s \in Tables \ {t} : ub[s] = tb[s]
         /\ us[v] = t
         /\ \A u \in Vars \ {v} : us[u] = vs[u] /\ vs[u] # t
<1>1. h # Free BY NotFree
<1>2. ub = [s \in Tables |-> ub[s]] /\ ub[t] = h /\ \A s \in Tables \ {t} : ub[s] = tb[s]
  BY DEF Owned, Put
<1>3. us \in [Vars -> Tables] /\ us[v] = t /\ \A u \in Vars \ {v} : us[u] = vs[u]
  BY DEF Owned, Put
<1>4. Allocated(ub) = Allocated(tb) \cup {t}
  <2>1. \A s \in Tables : ub[s] # Free <=> tb[s] # Free \/ s = t BY <1>1, <1>2
  <2> QED BY <2>1 DEF Allocated
<1>5. \A u \in Vars : vs[u] # t BY OwnedAre
<1>6. Allocated(ub) = {us[u] : u \in Vars}
  <2>1. Allocated(tb) = {vs[u] : u \in Vars} BY DEF Owned
  <2>2. ASSUME NEW s \in Allocated(tb) PROVE \E u \in Vars : us[u] = s
    <3>1. PICK u \in Vars : vs[u] = s BY <2>1
    <3>2. CASE u = v BY <1>3, <3>1, <3>2
    <3>3. CASE u # v BY <1>3, <3>1, <3>3
    <3> QED BY <3>2, <3>3
  <2>3. \A u \in Vars : us[u] \in Allocated(tb) \cup {t} BY <1>3, <2>1
  <2>4. t \in {us[u] : u \in Vars} BY <1>3
  <2>5. \A s \in Allocated(ub) : s \in {us[u] : u \in Vars}
    <3> SUFFICES ASSUME NEW s \in Allocated(ub) PROVE s \in {us[u] : u \in Vars} OBVIOUS
    <3>1. s \in Allocated(tb) \/ s = t BY <1>4
    <3> QED BY <2>2, <2>4, <3>1
  <2>6. \A u \in Vars : us[u] \in Allocated(ub) BY <1>4, <2>3
  <2> QED BY <2>5, <2>6
<1>7. \A s \in Allocated(ub) : Sound(ub[s])
  <2> SUFFICES ASSUME NEW s \in Allocated(ub) PROVE Sound(ub[s]) OBVIOUS
  <2>1. s # t => ub[s] = tb[s] /\ s \in Allocated(tb) BY <1>2, <1>4 DEF Allocated
  <2> QED BY <1>2, <2>1 DEF Owned
<1>8. Owned(ub, us) BY <1>2, <1>3, <1>6, <1>7 DEF Owned
<1> QED BY <1>2, <1>3, <1>4, <1>5, <1>8

\* SEPARATE_ARRAY
LEMMA SeparatedIs ==
  ASSUME HashInv, NEW v \in Vars, NEW own \in Separated(v)
  PROVE  Separate(v, own)
<1>1. Owned(table, vars) /\ Counted(table, iter) BY DEF HashInv
<1> DEFINE t == own.vars[v]
<1>2. CASE ~Shared(v)
  <2>1. own = [table |-> table, vars |-> vars] BY <1>2 DEF Separated
  <2>2. own.table = table /\ own.vars = vars BY <2>1
  <2>3. \A u \in Vars \ {v} : vars[u] # vars[v] BY <1>2 DEF Shared
  <2>4. Value(table[vars[v]]) \in Abstract!Mine(Value(table[vars[v]]), v)
    BY DEF Abstract!Mine
  <2>5. vars[v] \in Allocated(table) BY <1>1, OwnedAre
  <2> QED BY <1>1, <2>2, <2>3, <2>4, <2>5 DEF Separate
<1>3. CASE Shared(v)
  <2>1. PICK n \in {n \in Tables : table[n] = Free} :
           own = [table |-> [table EXCEPT ![n] = Dup(table[vars[v]])],
                  vars |-> [vars EXCEPT ![v] = n]]
    BY <1>3 DEF Separated
  <2> DEFINE h == table[vars[v]]
             g == Dup(h)
  <2>2. own.table = [table EXCEPT ![n] = g] /\ own.vars = [vars EXCEPT ![v] = n] BY <2>1
  <2>3. Sound(h) BY <1>1, OwnedAre
  <2>4. Sound(g) /\ g.nIteratorsCount = 0 /\ Copied(Value(h), Value(g)) BY <2>3, DupIs
  <2> HIDE DEF h, g
  <2>5. PICK x \in Vars \ {v} : vars[x] = vars[v] BY <1>3 DEF Shared
  <2>6. /\ Owned(own.table, own.vars) /\ Allocated(own.table) = Allocated(table) \cup {n}
        /\ own.table[n] = g /\ \A s \in Tables \ {n} : own.table[s] = table[s]
        /\ own.vars[v] = n
        /\ \A u \in Vars \ {v} : own.vars[u] = vars[u] /\ vars[u] # n
    <3> DEFINE tb == table
               vs == vars
               ub == own.table
               us == own.vars
    <3>1. n \in Tables /\ tb[n] = Free OBVIOUS
    <3>2. ub = Put(tb, n, g) /\ us = Put(vs, v, n) BY <2>2 DEF Put
    <3>3. Owned(tb, vs) /\ x \in Vars \ {v} /\ vs[x] = vs[v] BY <1>1, <2>5
    <3> HIDE DEF tb, vs, ub, us
    <3>4. /\ Owned(ub, us) /\ Allocated(ub) = Allocated(tb) \cup {n}
          /\ ub[n] = g /\ \A s \in Tables \ {n} : ub[s] = tb[s]
          /\ us[v] = n
          /\ \A u \in Vars \ {v} : us[u] = vs[u] /\ vs[u] # n
      BY <2>4, <3>1, <3>2, <3>3, TableAppears
    <3> QED BY <3>4 DEF tb, vs, ub, us
  <2>7. Counted(own.table, iter)
    <3>1. \A y \in Slots : iter[y].ht # n BY <1>1 DEF Counted, Allocated
    <3>2. SlotsOf(iter, n) = {} BY <3>1 DEF SlotsOf
    <3>3. Cardinality(SlotsOf(iter, n)) = 0 BY <3>2, FS_EmptySet
    <3>4. \A s \in Allocated(table) : own.table[s] = table[s] BY <2>6 DEF Allocated
    <3> QED BY <1>1, <2>4, <2>6, <3>3, <3>4 DEF Counted
  <2>8. Value(g) \in Abstract!Mine(Value(h), v)
    <3>1. CASE Value(g) = Value(h) BY <3>1 DEF Abstract!Mine
    <3>2. CASE Abstract!AtEnd(Value(h)) /\ Value(g) = [Value(h) EXCEPT !.current = 0]
      <4>1. Value(table[vars[x]]) = Value(h) BY <2>5 DEF h
      <4> QED BY <3>2, <4>1 DEF Abstract!Mine
    <3> QED BY <2>4, <3>1, <3>2 DEF Copied
  <2>9. \A u \in Vars \ {v} : own.table[vars[u]] = table[vars[u]] BY <1>1, <2>6, OwnedAre
  <2> QED BY <2>6, <2>7, <2>8, <2>9 DEF Separate, h
<1> QED BY <1>2, <1>3

\* The other variables keep their arrays.
LEMMA OneArrayChanges ==
  ASSUME HashInv, NEW v \in Vars,
         \A u \in Vars \ {v} : Value(table'[vars'[u]]) = Value(table[vars[u]]),
         LET new == Value(table'[vars'[v]])
         IN \/ Abstract!Clear(new)
            \/ \E w \in Vars : new = Value(table[vars[w]])
            \/ \E a \in Abstract!Mine(Value(table[vars[v]]), v) :
                  Abstract!Insert(a, new) \/ Abstract!Erase(a, new) \/ Abstract!Move(a, new)
  PROVE  Abstract!Next
BY DEF Abstract!Next

\* An operation on the table of a variable, once that is its own.
LEMMA WriteSteps ==
  ASSUME HashInv, NEW v \in Vars, NEW own \in Separated(v),
         NEW r, Stepped(With(own.table[own.vars[v]], own.vars[v]), r),
         table' = [own.table EXCEPT ![own.vars[v]] = r.h], vars' = own.vars,
         iter' = Positions(r), used' = used, writes' \in 0 .. Writes
  PROVE  HashInv' /\ Abstract!Next
<1> DEFINE t == own.vars[v]
           h == own.table[t]
           w == With(h, t)
<1>1. Separate(v, own) BY SeparatedIs
<1>2. /\ Owned(own.table, own.vars) /\ Counted(own.table, iter) /\ t \in Allocated(own.table)
      /\ \A u \in Vars \ {v} : /\ own.vars[u] = vars[u] /\ vars[u] # t
                               /\ own.table[vars[u]] = table[vars[u]]
      /\ Value(h) \in Abstract!Mine(Value(table[vars[v]]), v)
  BY <1>1 DEF Separate
<1>3. Iterating(iter, used) /\ Owned(table, vars) BY DEF HashInv
<1>4. w.h = h /\ DOMAIN w.pos = Attached(t) BY <1>3, WithIs
<1>5. /\ Pair(r) /\ DOMAIN r.pos = Attached(t) /\ Sound(r.h)
      /\ r.h.nIteratorsCount = h.nIteratorsCount
      /\ \/ Abstract!Insert(Value(h), Value(r.h))
         \/ Abstract!Erase(Value(h), Value(r.h))
         \/ Abstract!Move(Value(h), Value(r.h))
  <2>1. Stepped(w, r) OBVIOUS
  <2> HIDE DEF w
  <2> QED BY <1>4, <2>1 DEF Stepped
<1> HIDE DEF w
<1>6. /\ Owned(table', vars') /\ Allocated(table') = Allocated(own.table)
      /\ table'[t] = r.h /\ \A s \in Tables \ {t} : table'[s] = own.table[s]
  <2> DEFINE tb == own.table
             vs == own.vars
             ub == table'
             g == r.h
  <2>1. Owned(tb, vs) /\ t \in Allocated(tb) /\ Sound(g) /\ vars' = vs BY <1>2, <1>5
  <2>2. ub = Put(tb, t, g) BY DEF Put
  <2> HIDE DEF tb, vs, ub, t, g
  <2>3. /\ Owned(ub, vs) /\ Allocated(ub) = Allocated(tb)
        /\ ub[t] = g /\ \A s \in Tables \ {t} : ub[s] = tb[s]
    BY <2>1, <2>2, TableChanges
  <2> QED BY <2>1, <2>3 DEF tb, ub, g
<1>7. Iterating(iter', used') /\ \A y \in Slots : iter'[y].ht = iter[y].ht
  BY <1>3, <1>5, PositionsAre
<1>8. Counted(table', iter')
  <2>1. \A s : SlotsOf(iter', s) = SlotsOf(iter, s) BY <1>7, EntriesStay
  <2>2. \A s \in Allocated(table') : table'[s].nIteratorsCount = own.table[s].nIteratorsCount
    BY <1>5, <1>6 DEF Allocated
  <2> QED BY <1>2, <1>6, <1>7, <2>1, <2>2 DEF Counted
<1>9. HashInv' BY <1>6, <1>7, <1>8 DEF HashInv
<1>10. \A u \in Vars \ {v} : Value(table'[vars'[u]]) = Value(table[vars[u]])
  <2> SUFFICES ASSUME NEW u \in Vars \ {v}
               PROVE  table'[vars'[u]] = table[vars[u]]
    OBVIOUS
  <2>1. vars'[u] = vars[u] /\ vars[u] \in Tables \ {t} BY <1>2, <1>3, OwnedAre
  <2> QED BY <1>2, <1>6, <2>1
<1>11. Value(table'[vars'[v]]) = Value(r.h) BY <1>6
<1>12. Abstract!Next BY <1>2, <1>5, <1>10, <1>11, OneArrayChanges
<1> QED BY <1>9, <1>12

-----------------------------------------------------------------------------
(* The program writes                                                      *)
\* The bound on writes holds.
LEMMA SpendIs == ASSUME HashInv, Spend PROVE writes' \in 0 .. Writes
<1>1. Writes \in Nat BY SizesAssumption
<1> QED BY <1>1 DEF HashInv, Spend

\* A table of the program with the positions of its iterators.
LEMMA WithReady ==
  ASSUME HashInv, NEW v \in Vars, NEW own \in Separated(v)
  PROVE  LET w == With(own.table[own.vars[v]], own.vars[v])
         IN Pair(w) /\ Sound(w.h) /\ w.h = own.table[own.vars[v]]
<1>1. Owned(own.table, own.vars) /\ own.vars[v] \in Allocated(own.table)
  BY SeparatedIs DEF Separate
<1>2. Sound(own.table[own.vars[v]]) BY <1>1, OwnedAre
<1>3. Iterating(iter, used) BY DEF HashInv
<1>4. /\ Pair(With(own.table[own.vars[v]], own.vars[v]))
      /\ With(own.table[own.vars[v]], own.vars[v]).h = own.table[own.vars[v]]
  BY <1>3, WithIs
<1> QED BY <1>2, <1>4

\* $v[k] = ...
LEMMA SetSteps ==
  ASSUME HashInv, NEW v \in Vars, NEW k \in Keys, Set(v, k)
  PROVE  HashInv' /\ Abstract!Next
<1>1. PICK own \in Separated(v) :
         LET r == Add(With(own.table[own.vars[v]], own.vars[v]), k)
         IN /\ table' = [own.table EXCEPT ![own.vars[v]] = r.h] /\ vars' = own.vars
            /\ iter' = Positions(r) /\ used' = used
  BY DEF Set, Write
<1> DEFINE w == With(own.table[own.vars[v]], own.vars[v])
           r == Add(w, k)
<1>2. Stepped(w, r)
  <2>1. Pair(w) /\ Sound(w.h) BY WithReady
  <2> HIDE DEF w
  <2> QED BY <2>1, AddSteps
<1>3. writes' \in 0 .. Writes BY SpendIs DEF Set
<1> HIDE DEF r
<1> QED BY <1>1, <1>2, <1>3, WriteSteps DEF r

\* $v[] = ...
LEMMA PushSteps ==
  ASSUME HashInv, NEW v \in Vars, Push(v)
  PROVE  HashInv' /\ Abstract!Next
<1> DEFINE k == table[vars[v]].nNextFreeElement
<1>1. k \in Keys BY DEF Push, Keys
<1>2. Set(v, k) BY DEF Push, Set
<1> HIDE DEF k
<1> QED BY <1>1, <1>2, SetSteps

\* unset($v[k])
LEMMA UnsetSteps ==
  ASSUME HashInv, NEW v \in Vars, NEW k \in Keys, Unset(v, k)
  PROVE  HashInv' /\ Abstract!Next
<1>1. PICK own \in Separated(v) :
         LET r == Del(With(own.table[own.vars[v]], own.vars[v]), k)
         IN /\ table' = [own.table EXCEPT ![own.vars[v]] = r.h] /\ vars' = own.vars
            /\ iter' = Positions(r) /\ used' = used
  BY DEF Unset, Write
<1> DEFINE w == With(own.table[own.vars[v]], own.vars[v])
           r == Del(w, k)
<1>2. Stepped(w, r)
  <2>1. Pair(w) /\ Sound(w.h) BY WithReady
  <2> HIDE DEF w
  <2> QED BY <2>1, DelSteps
<1>3. writes' \in 0 .. Writes BY SpendIs DEF Unset
<1> HIDE DEF r
<1> QED BY <1>1, <1>2, <1>3, WriteSteps DEF r

\* reset($v), end($v), next($v)
LEMMA PointerMoves ==
  ASSUME HashInv, NEW v \in Vars, Rewind(v) \/ GoToEnd(v) \/ MoveForward(v)
  PROVE  HashInv' /\ Abstract!Next
<1> DEFINE W(own) == With(own.table[own.vars[v]], own.vars[v])
           First(w) == [w EXCEPT !.h.nInternalPointer = ValidPos(w.h, 0)]
           End(w) == [w EXCEPT !.h.nInternalPointer =
               IF Indices(w.h) = {} THEN w.h.nNumUsed
               ELSE CHOOSE i \in Indices(w.h) : \A j \in Indices(w.h) : j <= i]
           Forth(w) == LET p == ValidPos(w.h, w.h.nInternalPointer)
                       IN [w EXCEPT !.h.nInternalPointer =
                              IF p < w.h.nNumUsed THEN ValidPos(w.h, p + 1) ELSE @]
<1>1. PICK own \in Separated(v) : \E r \in {First(W(own)), End(W(own)), Forth(W(own))} :
         /\ table' = [own.table EXCEPT ![own.vars[v]] = r.h] /\ vars' = own.vars
         /\ iter' = Positions(r) /\ used' = used
  <2>1. CASE Rewind(v) BY <2>1 DEF Rewind, Write
  <2>2. CASE GoToEnd(v) BY <2>2 DEF GoToEnd, Write
  <2>3. CASE MoveForward(v) BY <2>3 DEF MoveForward, Write
  <2> QED BY <2>1, <2>2, <2>3
<1> DEFINE w == W(own)
<1>2. Pair(w) /\ Sound(w.h) BY WithReady
<1> HIDE DEF w
<1>3. \A r \in {First(w), End(w), Forth(w)} : Stepped(w, r)
  <2>1. Stepped(w, First(w)) BY <1>2, RewindSteps
  <2>2. Stepped(w, End(w)) BY <1>2, GoToEndSteps
  <2>3. Stepped(w, Forth(w)) BY <1>2, MoveForwardSteps
  <2> HIDE DEF First, End, Forth
  <2> QED BY <2>1, <2>2, <2>3
<1> HIDE DEF First, End, Forth
<1>4. PICK r \in {First(w), End(w), Forth(w)} :
         /\ table' = [own.table EXCEPT ![own.vars[v]] = r.h] /\ vars' = own.vars
         /\ iter' = Positions(r) /\ used' = used
  BY <1>1 DEF w
<1>5. Stepped(w, r) BY <1>3
<1>6. writes' \in 0 .. Writes BY SpendIs DEF Rewind, GoToEnd, MoveForward
<1> QED BY <1>4, <1>5, <1>6, WriteSteps DEF w

-----------------------------------------------------------------------------
(* A variable lets go of its table                                         *)
\* A variable lets go of its table for the one at n.
LEMMA ReleaseIs ==
  ASSUME HashInv, NEW v \in Vars, NEW tb, Counted(tb, iter), tb = [t \in Tables |-> tb[t]],
         NEW n \in Tables, n # vars[v], Allocated(tb) = Allocated(table) \cup {n},
         \A s \in Allocated(tb) : Sound(tb[s]), tb[vars[v]] = table[vars[v]],
         table' = Released(tb, v), vars' = Put(vars, v, n), IteratorsRemove(v)
  PROVE  /\ Owned(table', vars') /\ Counted(table', iter') /\ Iterating(iter', used)
         /\ vars'[v] = n /\ table'[n] = tb[n]
         /\ \A u \in Vars \ {v} : vars'[u] = vars[u] /\ table'[vars[u]] = tb[vars[u]]
<1> DEFINE t == vars[v]
<1>1. /\ Owned(table, vars) /\ Counted(table, iter) /\ Iterating(iter, used) /\ t \in Tables
      /\ t \in Allocated(table) /\ Allocated(table) = {vars[u] : u \in Vars}
      /\ \A u \in Vars : vars[u] \in Tables
  BY OwnedAre DEF HashInv, Owned
<1>2. /\ vars' \in [Vars -> Tables] /\ vars'[v] = n
      /\ \A u \in Vars \ {v} : vars'[u] = vars[u]
  BY <1>1 DEF Put, Owned
<1>3. CASE Shared(v)
  <2>1. table' = tb /\ iter' = iter BY <1>3 DEF Released, IteratorsRemove
  <2>2. PICK x \in Vars \ {v} : vars[x] = t BY <1>3 DEF Shared
  <2>3. Allocated(tb) = {vars'[u] : u \in Vars}
    <3>1. ASSUME NEW s \in Allocated(tb) PROVE s \in {vars'[u] : u \in Vars}
      <4>1. CASE s = n BY <1>2, <4>1
      <4>2. CASE s # n
        <5>1. PICK u \in Vars : vars[u] = s BY <1>1, <4>2
        <5>2. \E y \in Vars \ {v} : vars[y] = s BY <2>2, <5>1
        <5> QED BY <1>2, <5>2
      <4> QED BY <4>1, <4>2
    <3>2. ASSUME NEW u \in Vars PROVE vars'[u] \in Allocated(tb) BY <1>1, <1>2
    <3> QED BY <3>1, <3>2
  <2>4. Owned(tb, vars') BY <1>2, <2>3 DEF Owned
  <2> QED BY <1>1, <1>2, <2>1, <2>4
<1>4. CASE ~Shared(v)
  <2>1. table' = [tb EXCEPT ![t] = Free] BY <1>4 DEF Released
  <2>2. /\ table' = [s \in Tables |-> table'[s]] /\ table'[t] = Free
        /\ \A s \in Tables \ {t} : table'[s] = tb[s]
    BY <1>1, <2>1
  <2>3. Allocated(table') = Allocated(tb) \ {t} BY <1>1, <2>2 DEF Allocated
  <2>4. \A u \in Vars \ {v} : vars[u] # t BY <1>4 DEF Shared
  <2>5. Allocated(table') = {vars'[u] : u \in Vars}
    <3>1. ASSUME NEW s \in Allocated(table') PROVE s \in {vars'[u] : u \in Vars}
      <4>1. CASE s = n BY <1>2, <4>1
      <4>2. CASE s # n
        <5>1. PICK u \in Vars : vars[u] = s BY <1>1, <2>3, <4>2
        <5>2. u # v BY <2>3, <5>1
        <5> QED BY <1>2, <5>1, <5>2
      <4> QED BY <4>1, <4>2
    <3>2. ASSUME NEW u \in Vars PROVE vars'[u] \in Allocated(table')
      <4>1. CASE u = v BY <1>2, <2>3, <4>1
      <4>2. CASE u # v BY <1>1, <1>2, <2>3, <2>4, <4>2
      <4> QED BY <4>1, <4>2
    <3> QED BY <3>1, <3>2
  <2>6. \A s \in Allocated(table') : table'[s] = tb[s] BY <2>2, <2>3 DEF Allocated
  <2>7. Owned(table', vars') BY <1>2, <2>2, <2>3, <2>5, <2>6 DEF Owned
  <2>8. /\ Iterating(iter', used)
        /\ \A s \in Tables \ {t} : SlotsOf(iter', s) = SlotsOf(iter, s)
        /\ SlotsOf(iter', t) = {}
        /\ \A x \in Slots : iter'[x].ht \in Tables => iter'[x].ht = iter[x].ht
    <3>1. CASE ~HasIterators(table[t])
      <4>1. iter' = iter BY <3>1 DEF IteratorsRemove
      <4>2. Cardinality(SlotsOf(iter, t)) = 0 BY <1>1, <3>1 DEF Counted, HasIterators
      <4> QED BY <1>1, <4>1, <4>2, SlotsOfAre
    <3>2. CASE HasIterators(table[t])
      <4>1. iter' = [x \in Slots |-> IF x \in Attached(t)
                                     THEN [iter[x] EXCEPT !.ht = Poisoned] ELSE iter[x]]
        BY <1>4, <3>2 DEF IteratorsRemove
      <4>2. \A x \in Slots : x \in Attached(t) <=> iter[x].ht = t
        <5>1. t # Nobody BY <1>1, TablesAssumption
        <5> QED BY <1>1, <5>1 DEF Attached, Iterating
      <4>3. Poisoned \notin Tables /\ Nobody # Poisoned BY TablesAssumption
      <4> DEFINE R == [ht : Tables \cup {Nobody, Poisoned}, pos : Nat, over : Vars \cup {Nobody}]
      <4>4. ASSUME NEW x \in Slots
            PROVE  /\ iter'[x] \in R /\ iter'[x].over = iter[x].over
                   /\ iter'[x].ht = IF iter[x].ht = t THEN Poisoned ELSE iter[x].ht
        <5>1. iter[x] \in R BY <1>1 DEF Iterating
        <5>2. CASE iter[x].ht = t
          <6>1. iter'[x] = [iter[x] EXCEPT !.ht = Poisoned] BY <4>1, <4>2, <5>2
          <6> QED BY <5>1, <5>2, <6>1
        <5>3. CASE iter[x].ht # t BY <4>1, <4>2, <5>1, <5>3
        <5> QED BY <5>2, <5>3
      <4>5. Iterating(iter', used)
        <5>1. iter' \in [Slots -> R] BY <4>1, <4>4
        <5>2. \A x \in Slots : iter[x].ht = t => iter[x].ht # Nobody
          BY <1>1, TablesAssumption
        <5>3. \A x \in Slots : iter'[x].ht # Nobody => x < used /\ iter'[x].over \in Vars
          BY <1>1, <4>4, <5>2 DEF Iterating
        <5> QED BY <1>1, <5>1, <5>3 DEF Iterating
      <4>6. \A s \in Tables \ {t} : SlotsOf(iter', s) = SlotsOf(iter, s)
        BY <4>3, <4>4 DEF SlotsOf
      <4>7. SlotsOf(iter', t) = {} BY <1>1, <4>3, <4>4 DEF SlotsOf
      <4> QED BY <4>3, <4>4, <4>5, <4>6, <4>7
    <3> QED BY <3>1, <3>2
  <2>9. Counted(table', iter')
    <3>1. \A s \in Allocated(table') : s \in Tables \ {t} /\ s \in Allocated(tb)
      BY <2>3 DEF Allocated
    <3>2. \A s \in Allocated(table') :
             table'[s].nIteratorsCount = Cardinality(SlotsOf(iter', s))
      BY <2>6, <2>8, <3>1 DEF Counted
    <3>3. ASSUME NEW x \in Slots, iter'[x].ht \in Tables
          PROVE  iter'[x].ht \in Allocated(table')
      <4>1. iter'[x].ht = iter[x].ht /\ iter[x].ht \in Allocated(tb)
        BY <2>8, <3>3 DEF Counted
      <4>2. iter'[x].ht # t BY <2>8 DEF SlotsOf
      <4> QED BY <2>3, <4>1, <4>2
    <3> QED BY <3>2, <3>3 DEF Counted
  <2> QED BY <1>1, <1>2, <2>2, <2>4, <2>7, <2>8, <2>9
<1> QED BY <1>3, <1>4

\* $v = $x
LEMMA AssignSteps ==
  ASSUME HashInv, NEW v \in Vars, NEW x \in Vars, Assign(v, x)
  PROVE  HashInv' /\ Abstract!Next
<1>1. Owned(table, vars) /\ Counted(table, iter) BY DEF HashInv
<1>2. /\ vars[x] \in Tables /\ vars[x] \in Allocated(table) /\ vars[x] # vars[v]
      /\ table = [t \in Tables |-> table[t]]
      /\ \A s \in Allocated(table) : Sound(table[s])
  BY <1>1, OwnedAre DEF Assign
<1>3. /\ table' = Released(table, v) /\ vars' = Put(vars, v, vars[x]) /\ IteratorsRemove(v)
      /\ used' = used
  BY DEF Assign, Put
<1>4. Allocated(table) = Allocated(table) \cup {vars[x]} BY <1>2
<1>5. /\ Owned(table', vars') /\ Counted(table', iter') /\ Iterating(iter', used)
      /\ vars'[v] = vars[x] /\ table'[vars[x]] = table[vars[x]]
      /\ \A u \in Vars \ {v} : vars'[u] = vars[u] /\ table'[vars[u]] = table[vars[u]]
  BY <1>1, <1>2, <1>3, <1>4, ReleaseIs
<1>6. writes' \in 0 .. Writes BY SpendIs DEF Assign
<1>7. HashInv' BY <1>3, <1>5, <1>6 DEF HashInv
<1>8. Abstract!Next
  <2>1. Value(table'[vars'[v]]) = Value(table[vars[x]]) BY <1>5
  <2>2. \A u \in Vars \ {v} : Value(table'[vars'[u]]) = Value(table[vars[u]]) BY <1>5
  <2> QED BY <2>1, <2>2, OneArrayChanges
<1> QED BY <1>7, <1>8

\* $v = []
LEMMA ClearSteps ==
  ASSUME HashInv, NEW v \in Vars, Clear(v)
  PROVE  HashInv' /\ Abstract!Next
<1>1. Owned(table, vars) /\ Counted(table, iter) BY DEF HashInv
<1>2. PICK n \in {n \in Tables : table[n] = Free} :
         /\ vars' = [vars EXCEPT ![v] = n]
         /\ table' = Released([table EXCEPT ![n] = Empty(0)], v)
  BY DEF Clear
<1> DEFINE tb == [table EXCEPT ![n] = Empty(0)]
<1>3. /\ Sound(Empty(0)) /\ Empty(0).nIteratorsCount = 0
      /\ Value(Empty(0)) = [keys |-> <<>>, current |-> 0, late |-> FALSE]
  BY EmptyIs
<1>4. Empty(0) # Free BY <1>3, NotFree
<1>5. /\ tb = [t \in Tables |-> tb[t]] /\ tb[n] = Empty(0)
      /\ \A s \in Tables \ {n} : tb[s] = table[s]
  BY <1>1 DEF Owned
<1>6. table' = Released(tb, v) /\ vars' = Put(vars, v, n) BY <1>2 DEF Put
<1> HIDE DEF tb
<1>7. Allocated(tb) = Allocated(table) \cup {n} BY <1>4, <1>5 DEF Allocated
<1>8. \A s \in Allocated(tb) : Sound(tb[s])
  <2> SUFFICES ASSUME NEW s \in Allocated(tb), s # n PROVE Sound(tb[s]) BY <1>3, <1>5
  <2>1. s \in Allocated(table) /\ tb[s] = table[s] BY <1>5, <1>7 DEF Allocated
  <2> QED BY <1>1, <2>1 DEF Owned
<1>9. \A u \in Vars : vars[u] # n /\ vars[u] \in Tables /\ tb[vars[u]] = table[vars[u]]
  BY <1>1, <1>5, OwnedAre
<1>10. Counted(tb, iter)
  <2>1. \A y \in Slots : iter[y].ht # n BY <1>1 DEF Counted, Allocated
  <2>2. SlotsOf(iter, n) = {} BY <2>1 DEF SlotsOf
  <2>3. Cardinality(SlotsOf(iter, n)) = 0 BY <2>2, FS_EmptySet
  <2>4. \A s \in Allocated(table) : s # n /\ tb[s] = table[s] BY <1>5 DEF Allocated
  <2> QED BY <1>1, <1>3, <1>5, <1>7, <2>3, <2>4 DEF Counted
<1>11. IteratorsRemove(v) /\ used' = used BY DEF Clear
<1>12. /\ Owned(table', vars') /\ Counted(table', iter') /\ Iterating(iter', used)
       /\ vars'[v] = n /\ table'[n] = tb[n]
       /\ \A u \in Vars \ {v} : vars'[u] = vars[u] /\ table'[vars[u]] = tb[vars[u]]
  <2>1. n \in Tables OBVIOUS
  <2> QED BY <1>5, <1>6, <1>7, <1>8, <1>9, <1>10, <1>11, <2>1, ReleaseIs
<1>13. writes' \in 0 .. Writes BY SpendIs DEF Clear
<1>14. HashInv' BY <1>11, <1>12, <1>13 DEF HashInv
<1>15. Abstract!Next
  <2>1. Abstract!Clear(Value(table'[vars'[v]])) BY <1>3, <1>5, <1>12 DEF Abstract!Clear
  <2>2. \A u \in Vars \ {v} : Value(table'[vars'[u]]) = Value(table[vars[u]])
    BY <1>9, <1>12
  <2> QED BY <2>1, <2>2, OneArrayChanges
<1> QED BY <1>14, <1>15

-----------------------------------------------------------------------------
(* Iterators                                                               *)
\* The iterator count of a table goes up ...
LEMMA IncIs ==
  ASSUME NEW h, Sound(h), h.nIteratorsCount # Saturated
  PROVE  /\ Sound(Inc(h)) /\ Value(Inc(h)) = Value(h)
         /\ Inc(h).nIteratorsCount = h.nIteratorsCount + 1
<1> DEFINE n == h.nIteratorsCount + 1
<1>1. n \in Nat BY DEF Sound, Core, Fields
<1>2. Inc(h) = [h EXCEPT !.nIteratorsCount = n] BY DEF Inc
<1> HIDE DEF n
<1>3. /\ Sound(Inc(h)) /\ Value(Inc(h)) = Value(h) /\ Inc(h).nIteratorsCount = n
  BY <1>1, <1>2, CountIs
<1> QED BY <1>3 DEF n

\* ... and down.
LEMMA LessIs ==
  ASSUME NEW h, Sound(h), h.nIteratorsCount # 0
  PROVE  LET g == [h EXCEPT !.nIteratorsCount = @ - 1]
         IN /\ Sound(g) /\ Value(g) = Value(h)
            /\ g.nIteratorsCount = h.nIteratorsCount - 1
<1> DEFINE n == h.nIteratorsCount - 1
           g == [h EXCEPT !.nIteratorsCount = n]
<1>1. n \in Nat BY DEF Sound, Core, Fields
<1> HIDE DEF n
<1>2. Sound(g) /\ Value(g) = Value(h) /\ g.nIteratorsCount = n BY <1>1, CountIs
<1> QED BY <1>2 DEF n

\* The count is never saturated where there are fewer iterators than that.
LEMMA NotSaturated ==
  ASSUME Iterators < Saturated, NEW tb, NEW it, Counted(tb, it), NEW t \in Allocated(tb)
  PROVE  /\ tb[t].nIteratorsCount = Cardinality(SlotsOf(it, t))
         /\ tb[t].nIteratorsCount # Saturated
<1>1. tb[t].nIteratorsCount = Cardinality(SlotsOf(it, t)) BY DEF Counted
<1>2. Cardinality(SlotsOf(it, t)) \in Nat /\ Cardinality(SlotsOf(it, t)) <= Iterators
  BY SlotsOfAre
<1>3. Iterators \in Nat /\ Saturated \in Nat BY SizesAssumption
<1> QED BY <1>1, <1>2, <1>3

\* A variable keeps its array, or gets a copy of it.
LEMMA ArraysStay ==
  ASSUME HashInv, NEW v \in Vars, Sound(table'[vars'[v]]),
         Value(table'[vars'[v]]) \in Abstract!Mine(Value(table[vars[v]]), v),
         \A u \in Vars \ {v} : Value(table'[vars'[u]]) = Value(table[vars[u]])
  PROVE  Abstract!Next
<1> DEFINE h == table'[vars'[v]]
           a == Value(h)
<1>1. Core(h) BY DEF Sound
<1>2. a.current \in 0 .. Len(a.keys)
  <2> HIDE DEF h
  <2> QED BY <1>1, ValueIs
<1> HIDE DEF a
<1>3. Abstract!Move(a, a) BY <1>2 DEF Abstract!Move
<1>4. \E b \in Abstract!Mine(Value(table[vars[v]]), v) :
         Abstract!Insert(b, a) \/ Abstract!Erase(b, a) \/ Abstract!Move(b, a)
  BY <1>3 DEF a
<1> QED BY <1>4, OneArrayChanges DEF a

\* foreach ($v as &...) begins.
LEMMA IteratorAddSteps ==
  ASSUME Iterators < Saturated, HashInv, NEW v \in Vars, IteratorAdd(v)
  PROVE  HashInv' /\ Abstract!Next
<1> DEFINE x == Least({y \in Slots : iter[y].ht = Nobody})
<1>1. PICK own \in Separated(v) :
         /\ table' = [own.table EXCEPT ![own.vars[v]] = Inc(@)]
         /\ vars' = own.vars
         /\ iter' = [iter EXCEPT ![x] = [ht |-> own.vars[v], pos |-> 0, over |-> v]]
         /\ used' = IF x + 1 > used THEN x + 1 ELSE used
  BY DEF IteratorAdd
<1>2. x \in Slots /\ iter[x].ht = Nobody
  <2> DEFINE F == {y \in Slots : iter[y].ht = Nobody}
  <2>1. F # {} BY DEF IteratorAdd
  <2>2. \A y \in F : y \in Nat BY SlotsAre
  <2> HIDE DEF F
  <2>3. Least(F) \in F BY <2>1, <2>2, LeastIs
  <2> QED BY <2>3 DEF F
<1> HIDE DEF x
<1> DEFINE t == own.vars[v]
           h == own.table[t]
<1>3. /\ Owned(own.table, own.vars) /\ Counted(own.table, iter) /\ t \in Allocated(own.table)
      /\ \A u \in Vars \ {v} : /\ own.vars[u] = vars[u] /\ vars[u] # t
                               /\ own.table[vars[u]] = table[vars[u]]
      /\ Value(h) \in Abstract!Mine(Value(table[vars[v]]), v)
  BY SeparatedIs DEF Separate
<1>4. Iterating(iter, used) /\ Owned(table, vars) BY DEF HashInv
<1>5. t \in Tables /\ Sound(h) BY <1>3, OwnedAre
<1>6. h.nIteratorsCount = Cardinality(SlotsOf(iter, t)) /\ h.nIteratorsCount # Saturated
  BY <1>3, NotSaturated
<1>7. /\ Sound(Inc(h)) /\ Value(Inc(h)) = Value(h)
      /\ Inc(h).nIteratorsCount = h.nIteratorsCount + 1
  BY <1>5, <1>6, IncIs
<1>8. table' = Put(own.table, t, Inc(h)) BY <1>1 DEF Put
<1> HIDE DEF t, h
<1>9. /\ Owned(table', own.vars) /\ Allocated(table') = Allocated(own.table)
      /\ table'[t] = Inc(h) /\ \A s \in Tables \ {t} : table'[s] = own.table[s]
  BY <1>3, <1>7, <1>8, TableChanges
<1>10. /\ iter'[x] = [ht |-> t, pos |-> 0, over |-> v]
       /\ \A y \in Slots \ {x} : iter'[y] = iter[y]
       /\ iter' \in [Slots -> [ht : Tables \cup {Nobody, Poisoned}, pos : Nat,
                               over : Vars \cup {Nobody}]]
  <2>1. [ht |-> t, pos |-> 0, over |-> v]
           \in [ht : Tables \cup {Nobody, Poisoned}, pos : Nat, over : Vars \cup {Nobody}]
    BY <1>5
  <2> QED BY <1>1, <1>2, <1>4, <2>1 DEF Iterating, t
<1>11. Iterating(iter', used')
  <2>1. x \in Nat /\ x < Iterators /\ Iterators \in Nat /\ used \in 0 .. Iterators
    BY <1>2, <1>4, SlotsAre DEF Iterating
  <2>2. used' \in 0 .. Iterators /\ x < used' /\ used <= used' BY <1>1, <2>1
  <2>3. ASSUME NEW y \in Slots, iter'[y].ht # Nobody PROVE y < used' /\ iter'[y].over \in Vars
    <3>1. CASE y = x BY <1>10, <2>2, <3>1
    <3>2. CASE y # x
      <4>1. iter'[y] = iter[y] /\ y < used /\ iter[y].over \in Vars
        BY <1>4, <1>10, <2>3, <3>2 DEF Iterating
      <4>2. y \in Nat BY SlotsAre
      <4> QED BY <2>1, <2>2, <4>1, <4>2
    <3> QED BY <3>1, <3>2
  <2> QED BY <1>10, <2>2, <2>3 DEF Iterating
<1>12. Counted(table', iter')
  <2>1. Nobody # t /\ iter'[x].ht = t /\ Moved(iter, iter', x, Nobody, t)
    BY <1>2, <1>5, <1>10, TablesAssumption DEF Moved
  <2>2. /\ Cardinality(SlotsOf(iter', t)) = Cardinality(SlotsOf(iter, t)) + 1
        /\ \A u : u # Nobody /\ u # t => SlotsOf(iter', u) = SlotsOf(iter, u)
    BY <1>2, <2>1, EntryMoves
  <2>3. ASSUME NEW s \in Allocated(table')
        PROVE  table'[s].nIteratorsCount = Cardinality(SlotsOf(iter', s))
    <3>1. CASE s = t BY <1>6, <1>7, <1>9, <2>2, <3>1
    <3>2. CASE s # t
      <4>1. s \in Tables /\ s # Nobody BY TablesAssumption DEF Allocated
      <4>2. own.table[s].nIteratorsCount = Cardinality(SlotsOf(iter, s))
        BY <1>3, <1>9 DEF Counted
      <4> QED BY <1>9, <2>2, <3>2, <4>1, <4>2
    <3> QED BY <3>1, <3>2
  <2>4. ASSUME NEW y \in Slots, iter'[y].ht \in Tables
        PROVE  iter'[y].ht \in Allocated(table')
    <3>1. CASE y = x BY <1>3, <1>9, <2>1, <3>1
    <3>2. CASE y # x BY <1>3, <1>9, <1>10, <2>4, <3>2 DEF Counted
    <3> QED BY <3>1, <3>2
  <2> QED BY <2>3, <2>4 DEF Counted
<1>13. HashInv'
  <2>1. writes' \in 0 .. Writes BY DEF HashInv, IteratorAdd
  <2>2. Owned(table', vars') BY <1>1, <1>9
  <2> QED BY <1>11, <1>12, <2>1, <2>2 DEF HashInv
<1>14. Abstract!Next
  <2>1. \A u \in Vars \ {v} : Value(table'[vars'[u]]) = Value(table[vars[u]])
    <3> SUFFICES ASSUME NEW u \in Vars \ {v}
                 PROVE  table'[vars'[u]] = table[vars[u]]
      OBVIOUS
    <3>1. vars'[u] = vars[u] /\ vars[u] \in Tables \ {t} BY <1>1, <1>3, <1>4, OwnedAre
    <3> QED BY <1>3, <1>9, <3>1
  <2>2. table'[vars'[v]] = Inc(h) BY <1>1, <1>9 DEF t
  <2> QED BY <1>3, <1>7, <2>1, <2>2, ArraysStay
<1> QED BY <1>13, <1>14

\* The count of a table that an entry points to goes down.
Left(tb, old) == IF old \in Tables
                 THEN Put(tb, old, [tb[old] EXCEPT !.nIteratorsCount = @ - 1]) ELSE tb

\* The entry gives up its table.
LEMMA LeftIs ==
  ASSUME NEW tb, NEW vs, NEW it, Owned(tb, vs), Counted(tb, it),
         NEW x \in Slots, NEW old, old # Nobody, NEW jt, Moved(it, jt, x, old, Nobody),
         NEW ub, ub = Left(tb, old)
  PROVE  /\ Owned(ub, vs) /\ Counted(ub, jt) /\ Allocated(ub) = Allocated(tb)
         /\ \A s \in Tables : s # old => ub[s] = tb[s]
         /\ \A s \in Allocated(tb) : Value(ub[s]) = Value(tb[s])
<1> DEFINE h == tb[old]
           g == [h EXCEPT !.nIteratorsCount = @ - 1]
<1>1. /\ Cardinality(SlotsOf(jt, old)) = Cardinality(SlotsOf(it, old)) - 1
      /\ \A u : u # old /\ u # Nobody => SlotsOf(jt, u) = SlotsOf(it, u)
      /\ Cardinality(SlotsOf(it, old)) \in Nat \ {0}
  BY EntryMoves
<1>2. Nobody \notin Tables /\ \A s \in Allocated(tb) : s \in Tables
  BY TablesAssumption DEF Allocated
<1>3. \A y \in Slots : jt[y].ht \in Tables => jt[y].ht \in Allocated(tb)
  <2> SUFFICES ASSUME NEW y \in Slots, jt[y].ht \in Tables PROVE jt[y].ht \in Allocated(tb)
    OBVIOUS
  <2>1. y # x BY <1>2 DEF Moved
  <2> QED BY <2>1 DEF Counted, Moved
<1>4. CASE old \notin Tables
  <2>1. ub = tb BY <1>4 DEF Left
  <2>2. \A s \in Allocated(tb) : tb[s].nIteratorsCount = Cardinality(SlotsOf(jt, s))
    BY <1>1, <1>2, <1>4 DEF Counted
  <2> QED BY <1>3, <2>1, <2>2 DEF Counted
<1>5. CASE old \in Tables
  <2>1. old \in Allocated(tb) BY <1>5 DEF Counted, Moved
  <2>2. Sound(h) BY <2>1, OwnedAre
  <2>3. h.nIteratorsCount = Cardinality(SlotsOf(it, old)) BY <2>1 DEF Counted
  <2>4. Sound(g) /\ Value(g) = Value(h) /\ g.nIteratorsCount = h.nIteratorsCount - 1
    BY <1>1, <2>2, <2>3, LessIs
  <2>5. ub = Put(tb, old, g) BY <1>5 DEF Left
  <2> HIDE DEF g, h
  <2>6. /\ Owned(ub, vs) /\ Allocated(ub) = Allocated(tb)
        /\ ub[old] = g /\ \A s \in Tables \ {old} : ub[s] = tb[s]
    BY <2>1, <2>4, <2>5, TableChanges
  <2>7. ASSUME NEW s \in Allocated(tb)
        PROVE  /\ ub[s].nIteratorsCount = Cardinality(SlotsOf(jt, s))
               /\ Value(ub[s]) = Value(tb[s])
    <3>1. CASE s = old BY <1>1, <2>3, <2>4, <2>6, <3>1 DEF h
    <3>2. CASE s # old
      <4>1. ub[s] = tb[s] /\ SlotsOf(jt, s) = SlotsOf(it, s) BY <1>1, <1>2, <2>6, <3>2
      <4> QED BY <4>1 DEF Counted
    <3> QED BY <3>1, <3>2
  <2>8. Counted(ub, jt) BY <1>3, <2>6, <2>7 DEF Counted
  <2> QED BY <2>6, <2>7, <2>8
<1> QED BY <1>4, <1>5

\* The count of a table that an entry comes to point to goes up.
LEMMA JoinedIs ==
  ASSUME NEW tb, NEW vs, NEW it, Owned(tb, vs), Counted(tb, it), Iterators < Saturated,
         NEW x \in Slots, NEW t \in Allocated(tb), NEW jt, Moved(it, jt, x, Nobody, t),
         NEW ub, ub = Put(tb, t, Inc(tb[t]))
  PROVE  /\ Owned(ub, vs) /\ Counted(ub, jt) /\ Allocated(ub) = Allocated(tb)
         /\ \A s \in Tables \ {t} : ub[s] = tb[s]
         /\ ub[t] = Inc(tb[t]) /\ Value(ub[t]) = Value(tb[t])
<1> DEFINE h == tb[t]
           g == Inc(h)
<1>1. /\ t \in Tables /\ t # Nobody /\ Sound(h)
      /\ h.nIteratorsCount = Cardinality(SlotsOf(it, t)) /\ h.nIteratorsCount # Saturated
  BY OwnedAre, NotSaturated, TablesAssumption DEF Allocated
<1>2. Sound(g) /\ Value(g) = Value(h) /\ g.nIteratorsCount = h.nIteratorsCount + 1
  BY <1>1, IncIs
<1>3. ub = Put(tb, t, g) OBVIOUS
<1> HIDE DEF g, h
<1>4. /\ Owned(ub, vs) /\ Allocated(ub) = Allocated(tb)
      /\ ub[t] = g /\ \A s \in Tables \ {t} : ub[s] = tb[s]
  BY <1>2, <1>3, TableChanges
<1>5. /\ Cardinality(SlotsOf(jt, t)) = Cardinality(SlotsOf(it, t)) + 1
      /\ \A u : u # Nobody /\ u # t => SlotsOf(jt, u) = SlotsOf(it, u)
  <2>1. Nobody # t BY <1>1
  <2> QED BY <2>1, EntryMoves
<1>6. ASSUME NEW s \in Allocated(tb)
      PROVE  ub[s].nIteratorsCount = Cardinality(SlotsOf(jt, s))
  <2>1. CASE s = t BY <1>1, <1>2, <1>4, <1>5, <2>1
  <2>2. CASE s # t
    <3>1. s \in Tables /\ s # Nobody BY TablesAssumption DEF Allocated
    <3> QED BY <1>4, <1>5, <2>2, <3>1 DEF Counted
  <2> QED BY <2>1, <2>2
<1>7. ASSUME NEW y \in Slots, jt[y].ht \in Tables PROVE jt[y].ht \in Allocated(tb)
  <2>1. CASE y = x BY <2>1 DEF Moved
  <2>2. CASE y # x BY <1>7, <2>2 DEF Counted, Moved
  <2> QED BY <2>1, <2>2
<1>8. Counted(ub, jt) BY <1>4, <1>6, <1>7 DEF Counted
<1> QED BY <1>2, <1>4, <1>8 DEF g, h

\* zend_hash_iterator_del
LEMMA DeletedIs ==
  ASSUME Iterators < Saturated, NEW tb, NEW vs, NEW it, Owned(tb, vs), Counted(tb, it),
         NEW x \in Slots
  PROVE  Deleted(tb, it[x].ht) = Left(tb, it[x].ht)
<1> DEFINE t == it[x].ht
<1>1. CASE t \in Tables
  <2>1. t \in Allocated(tb) BY <1>1 DEF Counted
  <2>2. tb[t].nIteratorsCount # Saturated BY <2>1, NotSaturated
  <2>3. Dec(tb[t]) = [tb[t] EXCEPT !.nIteratorsCount = @ - 1] BY <2>2 DEF Dec
  <2>4. Deleted(tb, t) = [tb EXCEPT ![t] = Dec(@)] BY <1>1 DEF Deleted
  <2>5. Left(tb, t) = [tb EXCEPT ![t] = [tb[t] EXCEPT !.nIteratorsCount = @ - 1]]
    BY <1>1 DEF Left, Put
  <2> QED BY <2>3, <2>4, <2>5
<1>2. CASE t \notin Tables BY <1>2 DEF Deleted, Left
<1> QED BY <1>1, <1>2

\* What zend_hash_iterator_pos_ex does to the tables and the variables.
LEMMA ReattachedIs ==
  ASSUME Iterators < Saturated, HashInv, NEW x \in Slots, iter[x].ht # Nobody,
         NEW r, r \in Reattached(x, iter[x].over),
         NEW v, v = iter[x].over, NEW t, t = r.vars[v],
         NEW jt, Moved(iter, jt, x, iter[x].ht, t)
  PROVE  /\ v \in Vars /\ t \in Allocated(r.table) /\ r.pos \in Nat
         /\ Owned(r.table, r.vars) /\ Counted(r.table, jt)
         /\ Value(r.table[t]) \in Abstract!Mine(Value(table[vars[v]]), v)
         /\ \A u \in Vars \ {v} : Value(r.table[r.vars[u]]) = Value(table[vars[u]])
<1> DEFINE old == iter[x].ht
           s == vars[v]
<1>1. /\ Owned(table, vars) /\ Counted(table, iter) /\ Iterating(iter, used) BY DEF HashInv
<1>2. v \in Vars /\ iter[x].pos \in Nat BY <1>1 DEF Iterating
<1>3. s \in Tables /\ s \in Allocated(table) /\ Sound(table[s]) BY <1>1, <1>2, OwnedAre
<1>4. table[s].nIteratorsCount # Saturated BY <1>1, <1>3, NotSaturated
<1>5. Value(table[s]) \in Abstract!Mine(Value(table[s]), v) BY DEF Abstract!Mine
<1>6. CASE old = s
  <2>1. r = [table |-> table, vars |-> vars, pos |-> iter[x].pos]
    BY <1>6 DEF Reattached
  <2>2. r.table = table /\ r.vars = vars /\ r.pos = iter[x].pos /\ t = s BY <2>1
  <2>3. Counted(table, jt)
    <3>1. \A y \in Slots : jt[y].ht = iter[y].ht BY <1>6, <2>2 DEF Moved
    <3>2. \A n : SlotsOf(jt, n) = SlotsOf(iter, n) BY <3>1, EntriesStay
    <3> QED BY <1>1, <3>1, <3>2 DEF Counted
  <2> QED BY <1>1, <1>2, <1>3, <1>5, <2>2, <2>3
<1>7. ASSUME old # s
      PROVE  /\ t \in Allocated(r.table) /\ r.pos \in Nat
             /\ Owned(r.table, r.vars) /\ Counted(r.table, jt)
             /\ Value(r.table[t]) \in Abstract!Mine(Value(table[vars[v]]), v)
             /\ \A u \in Vars \ {v} : Value(r.table[r.vars[u]]) = Value(table[vars[u]])
  <2> DEFINE left == Left(table, old)
             it == [iter EXCEPT ![x].ht = Nobody]
  <2>1. Moved(iter, it, x, old, Nobody) /\ Moved(it, jt, x, Nobody, t)
    BY <1>1 DEF Moved, Iterating
  <2>2. /\ Owned(left, vars) /\ Counted(left, it) /\ Allocated(left) = Allocated(table)
        /\ \A n \in Tables : n # old => left[n] = table[n]
        /\ \A n \in Allocated(table) : Value(left[n]) = Value(table[n])
    <3> HIDE DEF it, left
    <3>1. left = Left(table, old) BY DEF left
    <3> QED BY <1>1, <2>1, <3>1, LeftIs
  <2>3. left = IF old \in Tables /\ table[vars[v]].nIteratorsCount # Saturated
               THEN [table EXCEPT ![old].nIteratorsCount = @ - 1] ELSE table
    BY <1>4 DEF Left, Put
  <2> HIDE DEF left, it
  <2>4. left[s] = table[s] BY <1>3, <1>7, <2>2
  <2>5. CASE ~Shared(v)
    <3>1. r = [table |-> [left EXCEPT ![s] = Inc(@)], vars |-> vars,
               pos |-> ValidPos(table[s], table[s].nInternalPointer)]
      BY <1>7, <2>3, <2>5 DEF Reattached
    <3>2. /\ r.table = Put(left, s, Inc(left[s])) /\ r.vars = vars /\ t = s
          /\ r.pos = ValidPos(table[s], table[s].nInternalPointer)
      BY <3>1 DEF Put
    <3>3. r.pos \in Nat
      <4>1. Core(table[s]) /\ table[s].nInternalPointer \in Nat
        BY <1>3 DEF Sound, Core, Fields
      <4> QED BY <3>2, <4>1, ValidPosIs
    <3> HIDE DEF s
    <3>4. /\ Owned(r.table, vars) /\ Counted(r.table, jt) /\ Allocated(r.table) = Allocated(left)
          /\ \A n \in Tables \ {s} : r.table[n] = left[n]
          /\ Value(r.table[s]) = Value(left[s])
      BY <1>3, <2>1, <2>2, <3>2, JoinedIs
    <3>5. ASSUME NEW u \in Vars PROVE Value(r.table[vars[u]]) = Value(table[vars[u]])
      <4>1. vars[u] \in Tables /\ vars[u] \in Allocated(table) BY <1>1, OwnedAre
      <4>2. Value(r.table[vars[u]]) = Value(left[vars[u]]) BY <3>4, <4>1
      <4> QED BY <2>2, <4>1, <4>2
    <3> QED BY <1>2, <1>3, <1>5, <2>2, <3>2, <3>3, <3>4, <3>5 DEF s
  <2>6. CASE Shared(v)
    <3>1. PICK n \in {n \in Tables : table[n] = Free} :
             r = [table |-> [left EXCEPT ![n] = Inc(Dup(left[s]))],
                  vars |-> [vars EXCEPT ![v] = n],
                  pos |-> ValidPos(Dup(table[s]), Dup(table[s]).nInternalPointer)]
      BY <1>7, <2>3, <2>6 DEF Reattached
    <3> DEFINE g == Dup(table[s])
               tb == Put(left, n, g)
    <3>2. Sound(g) /\ g.nIteratorsCount = 0 /\ Copied(Value(table[s]), Value(g))
      BY <1>3, DupIs
    <3>3. r.pos \in Nat
      <4> HIDE DEF g
      <4>1. Core(g) /\ g.nInternalPointer \in Nat BY <3>2 DEF Sound, Core, Fields
      <4>2. r.pos = ValidPos(g, g.nInternalPointer) BY <3>1 DEF g
      <4> QED BY <4>1, <4>2, ValidPosIs
    <3>4. PICK y \in Vars \ {v} : vars[y] = s BY <2>6 DEF Shared
    <3>5. n \in Tables /\ left[n] = Free
      <4>1. n \notin Allocated(left) BY <2>2 DEF Allocated
      <4> QED BY <4>1 DEF Allocated
    <3>6. /\ Owned(tb, r.vars) /\ Allocated(tb) = Allocated(left) \cup {n}
          /\ tb[n] = g /\ \A m \in Tables \ {n} : tb[m] = left[m]
          /\ r.vars[v] = n
          /\ \A u \in Vars \ {v} : r.vars[u] = vars[u] /\ vars[u] # n
      <4> DEFINE vs == vars
                 us == r.vars
      <4>1. tb = Put(left, n, g) /\ us = Put(vs, v, n) BY <3>1 DEF Put
      <4>2. Owned(left, vs) /\ y \in Vars \ {v} /\ vs[y] = vs[v] BY <2>2, <3>4
      <4> HIDE DEF tb, vs, us, g
      <4>3. /\ Owned(tb, us) /\ Allocated(tb) = Allocated(left) \cup {n}
            /\ tb[n] = g /\ \A m \in Tables \ {n} : tb[m] = left[m]
            /\ us[v] = n
            /\ \A u \in Vars \ {v} : us[u] = vs[u] /\ vs[u] # n
        BY <1>2, <3>2, <3>5, <4>1, <4>2, TableAppears
      <4> QED BY <4>3 DEF vs, us
    <3>7. t = n /\ n \in Allocated(tb) BY <3>6
    <3>8. r.table = Put(tb, n, Inc(tb[n]))
      <4>1. r.table = [left EXCEPT ![n] = Inc(g)] BY <2>4, <3>1
      <4>2. \A e : [tb EXCEPT ![n] = e] = [left EXCEPT ![n] = e]
        BY <2>2, <3>5 DEF Put, Owned
      <4> HIDE DEF tb, g
      <4> QED BY <3>6, <4>1, <4>2 DEF Put
    <3> HIDE DEF tb, g
    <3>9. Counted(tb, it)
      <4>1. \A z \in Slots : it[z].ht # n
        BY <2>2, <3>5 DEF Counted, Allocated
      <4>2. SlotsOf(it, n) = {} BY <4>1 DEF SlotsOf
      <4>3. Cardinality(SlotsOf(it, n)) = 0 BY <4>2, FS_EmptySet
      <4>4. \A m \in Allocated(left) : m \in Tables \ {n} BY <3>5 DEF Allocated
      <4>5. \A m \in Allocated(left) : tb[m] = left[m] BY <3>6, <4>4
      <4> QED BY <2>2, <3>2, <3>6, <4>3, <4>5 DEF Counted
    <3>10. /\ Owned(r.table, r.vars) /\ Counted(r.table, jt) /\ Allocated(r.table) = Allocated(tb)
           /\ \A m \in Tables \ {n} : r.table[m] = tb[m]
           /\ Value(r.table[n]) = Value(tb[n])
      BY <2>1, <3>6, <3>7, <3>8, <3>9, JoinedIs
    <3>11. ASSUME NEW u \in Vars \ {v} PROVE Value(r.table[r.vars[u]]) = Value(table[vars[u]])
      <4>1. vars[u] \in Tables \ {n} /\ vars[u] \in Allocated(table) BY <1>1, <3>6, OwnedAre
      <4>2. r.table[r.vars[u]] = left[vars[u]] BY <3>6, <3>10, <4>1
      <4> QED BY <2>2, <4>1, <4>2
    <3>12. Value(g) \in Abstract!Mine(Value(table[s]), v)
      <4>1. CASE Value(g) = Value(table[s]) BY <4>1 DEF Abstract!Mine
      <4>2. CASE /\ Abstract!AtEnd(Value(table[s]))
                 /\ Value(g) = [Value(table[s]) EXCEPT !.current = 0]
        <5>1. Value(table[vars[y]]) = Value(table[s]) BY <3>4
        <5> HIDE DEF s
        <5> QED BY <4>2, <5>1 DEF Abstract!Mine
      <4> QED BY <3>2, <4>1, <4>2 DEF Copied
    <3> QED BY <3>3, <3>6, <3>7, <3>10, <3>11, <3>12
  <2> QED BY <2>5, <2>6
<1> QED BY <1>2, <1>6, <1>7

\* zend_hash_iterator_del: EG(ht_iterators_used) goes down to the last entry in use.
LEMMA LastUsedIs ==
  ASSUME Iterating(iter, used), NEW x \in Slots, iter[x].ht # Nobody,
         NEW done, done = [iter EXCEPT ![x] = NoIterator]
  PROVE  Iterating(done, LastUsed(done, x)) /\ Moved(iter, done, x, iter[x].ht, Nobody)
<1>1. /\ done[x] = NoIterator /\ \A y \in Slots \ {x} : done[y] = iter[y]
      /\ done \in [Slots -> [ht : Tables \cup {Nobody, Poisoned}, pos : Nat,
                             over : Vars \cup {Nobody}]]
  <2>1. NoIterator \in [ht : Tables \cup {Nobody, Poisoned}, pos : Nat,
                        over : Vars \cup {Nobody}]
    BY DEF NoIterator
  <2> QED BY <2>1 DEF Iterating
<1>2. done[x].ht = Nobody BY <1>1 DEF NoIterator
<1>3. Moved(iter, done, x, iter[x].ht, Nobody) BY <1>1, <1>2 DEF Moved
<1>4. /\ Iterators \in Nat /\ used \in 0 .. Iterators /\ x \in Nat /\ x < used
      /\ \A y \in Slots : y \in Nat /\ y < Iterators
  BY SlotsAre DEF Iterating
<1>5. ASSUME NEW y \in Slots, done[y].ht # Nobody
      PROVE  y # x /\ y < used /\ done[y].over \in Vars
  BY <1>1, <1>2, <1>5 DEF Iterating
<1> DEFINE n == LastUsed(done, x)
           S == {y \in Slots : y < x /\ done[y].ht # Nobody}
<1>6. /\ n \in 0 .. Iterators
      /\ \A y \in Slots : done[y].ht # Nobody => y < n
  <2>1. CASE x # used - 1
    <3>1. n = used BY <2>1 DEF LastUsed
    <3> QED BY <1>4, <1>5, <3>1
  <2>2. ASSUME x = used - 1, NEW y \in Slots, done[y].ht # Nobody PROVE y \in S
    BY <1>4, <1>5, <2>2
  <2>3. CASE x = used - 1 /\ S = {}
    <3>1. \A y \in Slots : y < x => done[y].ht = Nobody BY <2>3
    <3>2. n = 0 BY <2>3, <3>1 DEF LastUsed
    <3> QED BY <1>4, <2>2, <2>3, <3>2
  <2>4. CASE x = used - 1 /\ S # {}
    <3>1. IsFiniteSet(S) BY SlotsAre, FS_Subset
    <3>2. \A k \in S : k \in Nat BY <1>4
    <3> HIDE DEF S
    <3>3. PICK m \in S : \A y \in S : y <= m BY <2>4, <3>1, <3>2, MaxIs
    <3> USE DEF S
    <3> DEFINE Q(y) == /\ y < x /\ done[y].ht # Nobody
                       /\ \A z \in Slots : y < z /\ z < x => done[z].ht = Nobody
    <3>4. m \in Slots /\ Q(m)
      <4>1. \A z \in Slots : m < z /\ z < x => done[z].ht = Nobody
        BY <1>4, <3>2, <3>3
      <4> QED BY <3>3, <4>1
    <3> DEFINE c == CHOOSE y \in Slots : Q(y)
    <3>5. c \in Slots /\ Q(c) BY <3>4
    <3>6. ~ \A y \in Slots : y < x => done[y].ht = Nobody BY <3>4
    <3>7. n = 1 + c BY <2>4, <3>6 DEF LastUsed
    <3> HIDE DEF c, n
    <3>8. ASSUME NEW y \in Slots, done[y].ht # Nobody PROVE y < n
      <4>1. y < x /\ ~ (c < y /\ y < x) BY <2>2, <2>4, <3>5, <3>8
      <4> QED BY <1>4, <3>5, <3>7, <4>1
    <3> QED BY <1>4, <3>5, <3>7, <3>8
  <2> QED BY <2>1, <2>3, <2>4
<1>7. Iterating(done, n) BY <1>1, <1>5, <1>6 DEF Iterating
<1> QED BY <1>3, <1>7

\* The loop is left.
LEMMA FeFreeSteps ==
  ASSUME Iterators < Saturated, HashInv, NEW x \in Slots, FeFree(x)
  PROVE  HashInv' /\ Abstract!Next
<1> DEFINE v == iter[x].over
<1>1. /\ iter[x].ht # Nobody /\ table' = Deleted(table, iter[x].ht)
      /\ iter' = [iter EXCEPT ![x] = NoIterator] /\ used' = LastUsed(iter', x)
      /\ vars' = vars /\ writes' = writes
  BY DEF FeFree
<1>2. Owned(table, vars) /\ Counted(table, iter) /\ Iterating(iter, used) BY DEF HashInv
<1>3. v \in Vars BY <1>1, <1>2 DEF Iterating
<1>4. Iterating(iter', used') /\ Moved(iter, iter', x, iter[x].ht, Nobody)
  BY <1>1, <1>2, LastUsedIs
<1>5. table' = Left(table, iter[x].ht) BY <1>1, <1>2, DeletedIs
<1>6. /\ Owned(table', vars) /\ Counted(table', iter') /\ Allocated(table') = Allocated(table)
      /\ \A s \in Allocated(table) : Value(table'[s]) = Value(table[s])
  BY <1>1, <1>2, <1>4, <1>5, LeftIs
<1>7. HashInv' BY <1>1, <1>4, <1>6 DEF HashInv
<1>8. \A u \in Vars : Value(table'[vars'[u]]) = Value(table[vars[u]])
  BY <1>1, <1>2, <1>6, OwnedAre
<1>9. Sound(table'[vars'[v]]) BY <1>1, <1>3, <1>6, OwnedAre
<1>10. Value(table'[vars'[v]]) \in Abstract!Mine(Value(table[vars[v]]), v)
  BY <1>3, <1>8 DEF Abstract!Mine
<1>11. Abstract!Next BY <1>3, <1>8, <1>9, <1>10, ArraysStay
<1> QED BY <1>7, <1>11

\* The loop goes on to its next element, or ends.
LEMMA FetchSteps ==
  ASSUME Iterators < Saturated, HashInv, NEW x \in Slots, Fetch(x)
  PROVE  HashInv' /\ Abstract!Next
<1> DEFINE v == iter[x].over
           old == iter[x].ht
<1>1. PICK r \in Reattached(x, v) :
        LET t == r.vars[v]
            pos == ValidPos(r.table[t], r.pos)
            done == [iter EXCEPT ![x] = NoIterator]
        IN /\ vars' = r.vars
           /\ \/ /\ pos < r.table[t].nNumUsed
                 /\ table' = r.table
                 /\ iter' = [iter EXCEPT ![x].ht = t, ![x].pos = pos + 1]
                 /\ UNCHANGED used
              \/ /\ pos >= r.table[t].nNumUsed
                 /\ table' = Deleted(r.table, t)
                 /\ iter' = done
                 /\ used' = LastUsed(done, x)
  BY DEF Fetch
<1> DEFINE t == r.vars[v]
           pos == ValidPos(r.table[t], r.pos)
           mid == [iter EXCEPT ![x].ht = t, ![x].pos = pos + 1]
<1>2. old # Nobody /\ writes' = writes /\ vars' = r.vars BY <1>1 DEF Fetch
<1>3. Owned(table, vars) /\ Counted(table, iter) /\ Iterating(iter, used) BY DEF HashInv
<1>4. /\ iter[x] \in [ht : Tables \cup {Nobody, Poisoned}, pos : Nat, over : Vars \cup {Nobody}]
      /\ x \in DOMAIN iter
  BY <1>3 DEF Iterating
<1> HIDE DEF t, pos
<1>5. /\ mid[x] = [iter[x] EXCEPT !.ht = t, !.pos = pos + 1]
      /\ mid[x].ht = t /\ mid[x].over = v /\ mid[x].pos = pos + 1
      /\ \A y \in Slots \ {x} : mid[y] = iter[y]
  BY <1>3, <1>4 DEF Iterating
<1> HIDE DEF mid
<1>6. Moved(iter, mid, x, iter[x].ht, t) BY <1>5 DEF Moved
<1>7. /\ v \in Vars /\ t \in Allocated(r.table) /\ r.pos \in Nat
      /\ Owned(r.table, r.vars) /\ Counted(r.table, mid)
      /\ Value(r.table[t]) \in Abstract!Mine(Value(table[vars[v]]), v)
      /\ \A u \in Vars \ {v} : Value(r.table[r.vars[u]]) = Value(table[vars[u]])
  BY <1>2, <1>6, ReattachedIs DEF t
<1>8. t \in Tables /\ t # Nobody /\ Sound(r.table[t])
  BY <1>7, OwnedAre, TablesAssumption
<1>9. CASE /\ table' = r.table /\ iter' = mid /\ used' = used
  <2>1. pos + 1 \in Nat
    <3>1. Core(r.table[t]) BY <1>8 DEF Sound
    <3> QED BY <1>7, <3>1, ValidPosIs DEF pos
  <2>2. mid \in [Slots -> [ht : Tables \cup {Nobody, Poisoned}, pos : Nat,
                           over : Vars \cup {Nobody}]]
    <3> DEFINE R == [ht : Tables \cup {Nobody, Poisoned}, pos : Nat, over : Vars \cup {Nobody}]
    <3>1. mid[x] \in R BY <1>4, <1>5, <1>8, <2>1
    <3>2. \A y \in Slots \ {x} : mid[y] \in R BY <1>3, <1>5 DEF Iterating
    <3>3. mid = [y \in Slots |-> mid[y]] BY <1>3 DEF Iterating, mid
    <3> HIDE DEF R
    <3>4. mid \in [Slots -> R] BY <3>1, <3>2, <3>3
    <3> QED BY <3>4 DEF R
  <2>3. Iterating(mid, used)
    <3>1. x < used BY <1>2, <1>3 DEF Iterating
    <3> QED BY <1>3, <1>5, <1>7, <2>2, <3>1 DEF Iterating
  <2>4. HashInv' BY <1>2, <1>7, <1>9, <2>3 DEF HashInv
  <2>5. Abstract!Next
    <3>1. table'[vars'[v]] = r.table[t] BY <1>2, <1>9 DEF t
    <3> QED BY <1>2, <1>7, <1>8, <1>9, <3>1, ArraysStay
  <2> QED BY <2>4, <2>5
<1>10. CASE /\ table' = Deleted(r.table, t)
            /\ iter' = [iter EXCEPT ![x] = NoIterator] /\ used' = LastUsed(iter', x)
  <2>1. Iterating(iter', used') /\ Moved(iter, iter', x, iter[x].ht, Nobody)
    BY <1>2, <1>3, <1>10, LastUsedIs
  <2>2. Moved(mid, iter', x, t, Nobody) BY <1>5, <2>1 DEF Moved
  <2>3. table' = Left(r.table, t)
    <3>1. mid[x].ht = t BY <1>5
    <3>2. Deleted(r.table, mid[x].ht) = Left(r.table, mid[x].ht) BY <1>7, DeletedIs
    <3> QED BY <1>10, <3>1, <3>2
  <2>4. /\ Owned(table', r.vars) /\ Counted(table', iter')
        /\ Allocated(table') = Allocated(r.table)
        /\ \A s \in Allocated(r.table) : Value(table'[s]) = Value(r.table[s])
    BY <1>7, <1>8, <2>2, <2>3, LeftIs
  <2>5. HashInv' BY <1>2, <2>1, <2>4 DEF HashInv
  <2>6. Abstract!Next
    <3>1. \A u \in Vars : Value(table'[vars'[u]]) = Value(r.table[r.vars[u]])
      BY <1>2, <1>7, <2>4, OwnedAre
    <3>2. \A u \in Vars \ {v} : Value(table'[vars'[u]]) = Value(table[vars[u]])
      BY <1>7, <3>1
    <3>3. Value(table'[vars'[v]]) = Value(r.table[t]) BY <1>7, <3>1 DEF t
    <3>4. Sound(table'[vars'[v]]) BY <1>2, <1>7, <2>4, OwnedAre
    <3> QED BY <1>7, <3>2, <3>3, <3>4, ArraysStay
  <2> QED BY <2>5, <2>6
<1> QED BY <1>1, <1>9, <1>10 DEF t, pos, mid

-----------------------------------------------------------------------------
(* Iterators while elements move down                                      *)
\* The elements behind the first hole, in ascending order.
LEMMA MoversAre ==
  ASSUME NEW h, Core(h)
  PROVE  LET N == Len(Movers(h))
         IN /\ N \in Nat
            /\ \A n \in 1 .. N : /\ Movers(h)[n] \in Nat /\ Movers(h)[n] \in Indices(h)
                                 /\ Movers(h)[n] > Least(Holes(h))
            /\ \A m, n \in 1 .. N : m < n => Movers(h)[m] < Movers(h)[n]
            /\ \A i \in Indices(h) : i > Least(Holes(h)) => \E n \in 1 .. N : Movers(h)[n] = i
<1> DEFINE S == {i \in Indices(h) : i > Least(Holes(h))}
           N == Len(Movers(h))
<1>1. IsFiniteSet(S) /\ (\A k \in S : k \in Nat) /\ S \subseteq Indices(h)
      /\ \A k \in S : k > Least(Holes(h))
  <2>1. S \subseteq Indices(h) OBVIOUS
  <2> QED BY <2>1, IndicesAre, FS_Subset
<1>2. Movers(h) = InOrder(S) BY DEF Movers
<1>3. \A i \in Indices(h) : i > Least(Holes(h)) => i \in S OBVIOUS
<1> HIDE DEF S
<1>4. /\ Cardinality(S) \in Nat /\ Len(InOrder(S)) = Cardinality(S)
      /\ \A n \in 1 .. Cardinality(S) : InOrder(S)[n] \in S
      /\ \A i \in S : \E n \in 1 .. Cardinality(S) : InOrder(S)[n] = i
      /\ \A m, n \in 1 .. Cardinality(S) : m < n => InOrder(S)[m] < InOrder(S)[n]
  BY <1>1, InOrderIs
<1>5. N = Cardinality(S) BY <1>2, <1>4
<1> QED BY <1>1, <1>2, <1>3, <1>4, <1>5

\* The first hole.
LEMMA FirstHole ==
  ASSUME NEW h, Core(h), NEW b \in Holes(h)
  PROVE  LET a == Least(Holes(h))
         IN /\ a \in Holes(h) /\ a \in Nat /\ a < h.nNumUsed /\ a <= b /\ a \notin Indices(h)
            /\ \A i \in Indices(h) : i > a =>
                  Cardinality(Before(h, i)) < i /\ Cardinality(Before(h, i)) \in Nat
<1> DEFINE a == Least(Holes(h))
<1>1. h.nNumUsed \in Nat /\ \A i \in Indices(h) : i \in Nat BY IndicesAre
<1>2. \A i \in Holes(h) : i \in Nat /\ i < h.nNumUsed /\ i \notin Indices(h)
  BY <1>1 DEF Holes, Indices
<1>3. a \in Holes(h) /\ \A y \in Holes(h) : a <= y BY <1>2, LeastIs
<1> HIDE DEF a
<1>4. ASSUME NEW i \in Indices(h), i > a
      PROVE  Cardinality(Before(h, i)) < i /\ Cardinality(Before(h, i)) \in Nat
  <2> DEFINE U == 0 .. i - 1
             V == U \ {a}
  <2>1. i \in Nat /\ a \in U BY <1>1, <1>2, <1>3, <1>4
  <2>2. IsFiniteSet(U) /\ Cardinality(U) = i BY <2>1, UpTo
  <2>3. Before(h, i) \subseteq V BY <1>1, <1>2, <1>3 DEF Before
  <2> HIDE DEF U
  <2>4. IsFiniteSet(V) /\ Cardinality(V) = i - 1 BY <2>1, <2>2, FS_RemoveElement
  <2> HIDE DEF V
  <2>5. IsFiniteSet(Before(h, i)) /\ Cardinality(Before(h, i)) <= Cardinality(V)
    BY <2>3, <2>4, FS_Subset
  <2>6. Cardinality(Before(h, i)) \in Nat BY <2>5, FS_CardinalityType
  <2> QED BY <2>1, <2>4, <2>5, <2>6
<1> QED BY <1>2, <1>3, <1>4 DEF a

\* A position stays or goes where an element not before it goes.
Carriage(h, p, q, n) ==
    \/ q = p
    \/ \E m \in 1 .. n : p <= Movers(h)[m] /\ q = Cardinality(Before(h, Movers(h)[m]))

\* One element moves.
LEMMA CarriageGoesOn ==
  ASSUME NEW h, Core(h), NEW D, NEW s \in [pos : [D -> Nat], low : Nat], NEW x \in D,
         NEW p \in Nat, NEW n \in 1 .. Len(Movers(h)), Carriage(h, p, s.pos[x], n - 1)
  PROVE  Carriage(h, p, Carry(h, s, Movers(h)[n]).pos[x], n)
<1> DEFINE i == Movers(h)[n]
           q == s.pos[x]
           N == Len(Movers(h))
           r == Carry(h, s, i).pos[x]
           moved == [y \in DOMAIN s.pos |->
                        IF s.pos[y] = s.low \/ (s.low < s.pos[y] /\ s.pos[y] < i)
                        THEN Cardinality(Before(h, i)) ELSE s.pos[y]]
<1>1. N \in Nat /\ i \in Nat /\ n \in 1 .. N /\ n \in Nat /\ q \in Nat /\ s.low \in Nat
  BY MoversAre
<1>2. \A m \in 1 .. n - 1 : m \in 1 .. N /\ m < n BY <1>1
<1>3. \A m \in 1 .. n - 1 : Movers(h)[m] < i /\ Movers(h)[m] \in Nat BY <1>1, <1>2, MoversAre
<1>4. \/ r = q
      \/ r = Cardinality(Before(h, i)) /\ q <= i
  <2>1. CASE i < s.low
    <3>1. Carry(h, s, i) = s BY <2>1 DEF Carry
    <3> QED BY <3>1
  <2>2. CASE ~(i < s.low)
    <3>1. Carry(h, s, i).pos = moved BY <2>2 DEF Carry
    <3>2. r = IF q = s.low \/ (s.low < q /\ q < i) THEN Cardinality(Before(h, i)) ELSE q
      BY <3>1
    <3> QED BY <1>1, <2>2, <3>2
  <2> QED BY <2>1, <2>2
<1> HIDE DEF r, i, q
<1>5. CASE r = q
  <2>1. \A m \in 1 .. n - 1 : m \in 1 .. n BY <1>1
  <2> QED BY <1>5, <2>1 DEF Carriage, r, i, q
<1>6. CASE r = Cardinality(Before(h, i)) /\ q <= i
  <2>1. p <= i
    <3>1. CASE q = p BY <1>6, <3>1
    <3>2. CASE q # p
      <4>1. PICK m \in 1 .. n - 1 : p <= Movers(h)[m] BY <3>2 DEF Carriage, q
      <4>2. Movers(h)[m] < i /\ Movers(h)[m] \in Nat BY <1>3, <4>1
      <4> QED BY <1>1, <4>1, <4>2
    <3> QED BY <3>1, <3>2
  <2>2. n \in 1 .. n BY <1>1
  <2> QED BY <1>6, <2>1, <2>2 DEF Carriage, r, i
<1> QED BY <1>4, <1>5, <1>6

\* All of them have moved.
LEMMA CarriageEnds ==
  ASSUME NEW w, Pair(w), Core(w.h), NEW c, Runs(w, c), NEW x \in DOMAIN w.pos
  PROVE  Carriage(w.h, w.pos[x], c[Len(Movers(w.h))].pos[x], Len(Movers(w.h)))
<1> DEFINE h == w.h
           N == Len(Movers(h))
           p == w.pos[x]
           R == [pos : [DOMAIN w.pos -> Nat], low : Nat]
           T == {n \in 0 .. N : ~Carriage(h, p, c[n].pos[x], n)}
<1>1. N \in Nat BY MoversAre
<1>2. p \in Nat BY DEF Pair
<1>3. /\ \A n \in 0 .. N : c[n] \in R
      /\ c[0].pos[x] = p
      /\ \A n \in 1 .. N : c[n] = Carry(h, c[n - 1], Movers(h)[n])
  BY DEF Runs
<1>4. SUFFICES ASSUME T # {} PROVE FALSE
  <2>1. N \in 0 .. N BY <1>1
  <2> QED BY <2>1
<1>5. PICK n \in T : \A m \in T : n <= m
  <2>1. \A m \in T : m \in Nat OBVIOUS
  <2> HIDE DEF T
  <2> QED BY <1>4, <2>1, NatMin
<1>6. n \in 0 .. N /\ ~Carriage(h, p, c[n].pos[x], n) BY <1>5
<1>7. n # 0 BY <1>3, <1>6 DEF Carriage
<1>8. n - 1 \in 0 .. N /\ n \in 1 .. N /\ n - 1 < n BY <1>1, <1>6, <1>7
<1>9. n - 1 \notin T BY <1>5, <1>8
<1>10. Carriage(h, p, c[n - 1].pos[x], n - 1) /\ c[n - 1] \in R BY <1>3, <1>8, <1>9
<1> HIDE DEF p, h, T
<1>11. Carriage(h, p, Carry(h, c[n - 1], Movers(h)[n]).pos[x], n)
  BY <1>2, <1>8, <1>10, CarriageGoesOn DEF h
<1> QED BY <1>3, <1>6, <1>8, <1>11

\* zend_hash_iterators_lower_pos where there is one iterator.
LEMMA LowerPosOne ==
  ASSUME NEW h, h.nNumUsed \in Nat, NEW x, NEW pos \in [{x} -> Nat], NEW start \in Nat
  PROVE  LowerPos(h, pos, start) = IF pos[x] >= start /\ pos[x] < h.nNumUsed
                                   THEN pos[x] ELSE h.nNumUsed
<1> DEFINE S == {pos[y] : y \in {y \in DOMAIN pos : pos[y] >= start /\ pos[y] < h.nNumUsed}}
           n == Least(S \cup {h.nNumUsed})
<1>1. DOMAIN pos = {x} /\ pos[x] \in Nat OBVIOUS
<1>2. LowerPos(h, pos, start) = n BY DEF LowerPos
<1>3. CASE pos[x] >= start /\ pos[x] < h.nNumUsed
  <2>1. S = {pos[x]} BY <1>1, <1>3
  <2> HIDE DEF S
  <2>2. \A k \in S : k \in Nat BY <1>1, <2>1
  <2>3. n \in S \cup {h.nNumUsed} /\ \A y \in S \cup {h.nNumUsed} : n <= y BY <2>2, LeastOr
  <2> HIDE DEF n
  <2>4. n = pos[x] BY <1>1, <1>3, <2>1, <2>3
  <2> QED BY <1>2, <1>3, <2>4
<1>4. CASE ~(pos[x] >= start /\ pos[x] < h.nNumUsed)
  <2>1. S = {} BY <1>1, <1>4
  <2> HIDE DEF S
  <2>2. n \in S \cup {h.nNumUsed} BY <2>1, LeastOr
  <2> QED BY <1>2, <1>4, <2>1, <2>2
<1> QED BY <1>3, <1>4

\* The only iterator of a table is neither past its end nor before a hole.
Fine(w, x) ==
    /\ DOMAIN w.pos = {x}
    /\ w.pos[x] <= w.h.nNumUsed
    /\ \A i \in Holes(w.h) : i <= w.pos[x]

\* It stays until an element that it is not behind moves, and goes with that one.
Escorted(w, x, s, n) ==
    LET p == w.pos[x]
    IN \/ s.pos[x] = p /\ s.low = p /\ \A m \in 1 .. n : Movers(w.h)[m] < p
       \/ s.pos[x] = Cardinality(Before(w.h, p)) /\ s.low = w.h.nNumUsed

\* At first it stays.
LEMMA EscortBegins ==
  ASSUME NEW w, Pair(w), Core(w.h), NEW x, Fine(w, x)
  PROVE  Escorted(w, x, [pos |-> w.pos, low |-> LowerPos(w.h, w.pos, 0)], 0)
<1> DEFINE p == w.pos[x]
<1>1. w.pos \in [{x} -> Nat] /\ p \in Nat /\ w.h.nNumUsed \in Nat BY IndicesAre DEF Fine, Pair
<1>2. LowerPos(w.h, w.pos, 0) = IF p >= 0 /\ p < w.h.nNumUsed THEN p ELSE w.h.nNumUsed
  BY <1>1, LowerPosOne
<1>3. p <= w.h.nNumUsed BY DEF Fine
<1>4. LowerPos(w.h, w.pos, 0) = p BY <1>1, <1>2, <1>3
<1>5. \A m \in 1 .. 0 : Movers(w.h)[m] < p OBVIOUS
<1> QED BY <1>4, <1>5 DEF Escorted

\* One element moves.
LEMMA EscortGoesOn ==
  ASSUME NEW w, Pair(w), Core(w.h), NEW x, Fine(w, x), NEW b \in Holes(w.h),
         NEW s \in [pos : [{x} -> Nat], low : Nat],
         NEW n \in 1 .. Len(Movers(w.h)), Escorted(w, x, s, n - 1)
  PROVE  Escorted(w, x, Carry(w.h, s, Movers(w.h)[n]), n)
<1> DEFINE h == w.h
           p == w.pos[x]
           N == Len(Movers(h))
           i == Movers(h)[n]
           rank == Cardinality(Before(h, i))
           moved == [y \in DOMAIN s.pos |->
                        IF s.pos[y] = s.low \/ (s.low < s.pos[y] /\ s.pos[y] < i)
                        THEN rank ELSE s.pos[y]]
           start == IF i = s.low THEN i + 1 ELSE i
           r == Carry(h, s, i)
<1>1. /\ N \in Nat /\ i \in Nat /\ i \in Indices(h) /\ i > Least(Holes(h))
      /\ n \in 1 .. N /\ n \in Nat
      /\ h.nNumUsed \in Nat /\ i < h.nNumUsed /\ p \in Nat
  <2>1. p \in Nat BY DEF Fine, Pair
  <2> QED BY <2>1, MoversAre, IndicesAre
<1>2. rank \in Nat /\ rank < i /\ Least(Holes(h)) <= b /\ b <= p
      /\ Least(Holes(h)) \in Nat /\ Least(Holes(h)) \notin Indices(h) /\ b \in Nat
  <2>1. b \in Nat BY DEF Holes
  <2>2. b <= p BY DEF Fine
  <2> QED BY <1>1, <2>1, <2>2, FirstHole
<1>3. CASE i < s.low
  <2>1. r = s BY <1>3 DEF Carry
  <2>2. CASE s.pos[x] = p /\ s.low = p /\ \A m \in 1 .. n - 1 : Movers(h)[m] < p
    <3>1. \A m \in 1 .. n : m \in 1 .. n - 1 \/ m = n BY <1>1
    <3>2. \A m \in 1 .. n : Movers(h)[m] < p BY <1>3, <2>2, <3>1
    <3> QED BY <2>1, <2>2, <3>2 DEF Escorted
  <2>3. CASE s.pos[x] = Cardinality(Before(h, p)) /\ s.low = h.nNumUsed
    BY <2>1, <2>3 DEF Escorted
  <2> QED BY <2>2, <2>3 DEF Escorted
<1>4. CASE ~(i < s.low)
  <2>1. s.pos[x] = p /\ s.low = p /\ \A m \in 1 .. n - 1 : Movers(h)[m] < p
    BY <1>1, <1>4 DEF Escorted
  <2>2. p <= i BY <1>1, <1>4, <2>1
  <2>3. r = [pos |-> moved, low |-> LowerPos(h, moved, start)] BY <1>4 DEF Carry
  <2>4. moved[x] = rank BY <2>1
  <2>5. moved \in [{x} -> Nat] BY <1>2
  <2>6. start \in Nat /\ i <= start BY <1>1
  <2> HIDE DEF moved, start, rank
  <2>7. LowerPos(h, moved, start) = h.nNumUsed
    <3>1. LowerPos(h, moved, start) = IF moved[x] >= start /\ moved[x] < h.nNumUsed
                                      THEN moved[x] ELSE h.nNumUsed
      BY <1>1, <2>5, <2>6, LowerPosOne
    <3>2. ~(moved[x] >= start) BY <1>1, <1>2, <2>4, <2>6
    <3> QED BY <3>1, <3>2
  <2>8. Before(h, i) = Before(h, p)
    <3>1. ASSUME NEW j \in Indices(h), j < i PROVE j < p
      <4>1. SUFFICES ASSUME ~(j < p) PROVE FALSE OBVIOUS
      <4>2. j \in Nat BY IndicesAre
      <4>3. j > Least(Holes(h)) BY <1>1, <1>2, <4>1, <4>2
      <4>4. PICK m \in 1 .. N : Movers(h)[m] = j BY <4>3, MoversAre
      <4>5. m < n
        <5>1. n < m => i < j BY <1>1, <4>4, MoversAre
        <5>2. m # n BY <3>1, <4>2, <4>4
        <5> QED BY <1>1, <3>1, <4>2, <5>1, <5>2
      <4>6. m \in 1 .. n - 1 BY <1>1, <4>5
      <4> QED BY <2>1, <4>1, <4>4, <4>6
    <3>2. \A j \in Indices(h) : j < p => j < i BY <1>1, <2>2, IndicesAre
    <3> QED BY <3>1, <3>2 DEF Before
  <2>9. r.pos[x] = Cardinality(Before(h, p)) /\ r.low = h.nNumUsed
    BY <2>3, <2>4, <2>7, <2>8 DEF rank
  <2> HIDE DEF r, i
  <2> QED BY <2>9 DEF Escorted, r, i
<1> QED BY <1>3, <1>4

\* All of them have moved.
LEMMA EscortEnds ==
  ASSUME NEW w, Pair(w), Core(w.h), NEW c, Runs(w, c), NEW x, Fine(w, x),
         NEW b \in Holes(w.h)
  PROVE  LET q == c[Len(Movers(w.h))].pos[x]
         IN \/ q = Cardinality(Before(w.h, w.pos[x]))
            \/ q = w.h.nNumUsed /\ w.pos[x] = w.h.nNumUsed
<1> DEFINE h == w.h
           N == Len(Movers(h))
           p == w.pos[x]
           R == [pos : [{x} -> Nat], low : Nat]
           T == {n \in 0 .. N : ~Escorted(w, x, c[n], n)}
<1>1. N \in Nat BY MoversAre
<1>2. p \in Nat /\ p <= h.nNumUsed /\ h.nNumUsed \in Nat /\ DOMAIN w.pos = {x}
      /\ \A i \in Holes(h) : i <= p
  BY IndicesAre DEF Pair, Fine
<1>3. /\ \A n \in 0 .. N : c[n] \in R
      /\ c[0] = [pos |-> w.pos, low |-> LowerPos(h, w.pos, 0)]
      /\ \A n \in 1 .. N : c[n] = Carry(h, c[n - 1], Movers(h)[n])
  BY <1>2 DEF Runs
<1>4. Escorted(w, x, c[N], N)
  <2>1. SUFFICES ASSUME T # {} PROVE FALSE
    <3>1. N \in 0 .. N BY <1>1
    <3> QED BY <3>1
  <2>2. PICK n \in T : \A m \in T : n <= m
    <3>1. \A m \in T : m \in Nat OBVIOUS
    <3> HIDE DEF T
    <3> QED BY <2>1, <3>1, NatMin
  <2>3. n \in 0 .. N /\ ~Escorted(w, x, c[n], n) BY <2>2
  <2>4. n # 0 BY <1>3, <2>3, EscortBegins
  <2>5. n - 1 \in 0 .. N /\ n \in 1 .. N /\ n - 1 < n BY <1>1, <2>3, <2>4
  <2>6. n - 1 \notin T BY <2>2, <2>5
  <2>7. Escorted(w, x, c[n - 1], n - 1) /\ c[n - 1] \in R BY <1>3, <2>5, <2>6
  <2>8. Escorted(w, x, Carry(h, c[n - 1], Movers(h)[n]), n)
    BY <2>5, <2>7, EscortGoesOn
  <2> QED BY <1>3, <2>3, <2>5, <2>8
<1>5. CASE p < h.nNumUsed
  <2>1. h.nNumUsed - 1 \in Indices(h) BY <1>2, <1>5, IndicesAre
  <2>2. h.nNumUsed - 1 > Least(Holes(h))
    <3>1. Least(Holes(h)) <= b /\ Least(Holes(h)) \in Nat /\ Least(Holes(h)) \notin Indices(h)
      BY FirstHole
    <3>2. b <= p /\ b \in Nat BY <1>2 DEF Holes
    <3>3. Least(Holes(h)) # h.nNumUsed - 1 BY <2>1, <3>1
    <3> QED BY <1>2, <1>5, <3>1, <3>2, <3>3
  <2>3. PICK m \in 1 .. N : Movers(h)[m] = h.nNumUsed - 1 BY <2>1, <2>2, MoversAre
  <2>4. ~(Movers(h)[m] < p) BY <1>2, <1>5, <2>3
  <2> QED BY <1>4, <2>4 DEF Escorted
<1>6. CASE ~(p < h.nNumUsed)
  <2>1. p = h.nNumUsed BY <1>2, <1>6
  <2> QED BY <1>4, <2>1 DEF Escorted
<1> QED BY <1>5, <1>6

\* Where compaction takes an element: to its rank.
LEMMA CompactTakes ==
  ASSUME NEW h, Core(h)
  PROVE  LET g == Compact(h)
         IN /\ \A i \in Indices(h) :
                  LET j == Cardinality(Before(h, i))
                  IN j \in Nat /\ j <= i /\ j < h.nNumOfElements /\ j \in Indices(g)
                     /\ g.at[j] = h.at[i]
            /\ \A j \in Indices(g) : \E i \in Indices(h) : j = Cardinality(Before(h, i))
<1> DEFINE S == Indices(h)
           g == Compact(h)
           N == h.nNumOfElements
<1>1. /\ IsFiniteSet(S) /\ \A k \in S : k \in Nat
      /\ N = Cardinality(S) /\ N \in Nat
  BY IndicesAre DEF Core
<1>2. Indices(g) = 0 .. N - 1 /\ \A n \in 1 .. N : g.at[n - 1] = h.at[InOrder(S)[n]]
  BY CompactIs
<1>3. /\ \A n \in 1 .. N : InOrder(S)[n] \in S /\ Cardinality(Below(S, InOrder(S)[n])) = n - 1
      /\ \A i \in S : /\ Cardinality(Below(S, i)) + 1 \in 1 .. N
                      /\ InOrder(S)[Cardinality(Below(S, i)) + 1] = i
  <2> HIDE DEF S, N
  <2> QED BY <1>1, InOrderIs
<1>4. \A i \in S : Before(h, i) = Below(S, i) BY <1>1, BeforeIs
<1> HIDE DEF S, g, N
<1>5. ASSUME NEW i \in S
      PROVE  LET j == Cardinality(Before(h, i))
             IN j \in Nat /\ j <= i /\ j < N /\ j \in Indices(g) /\ g.at[j] = h.at[i]
  <2> DEFINE j == Cardinality(Before(h, i))
  <2>1. j + 1 \in 1 .. N /\ InOrder(S)[j + 1] = i
    <3>1. Cardinality(Below(S, i)) = j BY <1>4
    <3> HIDE DEF j
    <3> QED BY <1>3, <3>1
  <2>2. j \in Nat
    <3>1. IsFiniteSet(Before(h, i)) BY <1>1, BeforeIs
    <3> QED BY <3>1, FS_CardinalityType
  <2>3. j <= i
    <3>1. i \in Nat BY <1>1
    <3>2. Before(h, i) \subseteq 0 .. i - 1 BY <3>1, IndicesAre DEF Before
    <3> DEFINE U == 0 .. i - 1
    <3>3. IsFiniteSet(U) /\ Cardinality(U) = i BY <3>1, UpTo
    <3> HIDE DEF U
    <3>4. Cardinality(Before(h, i)) <= Cardinality(U) BY <3>2, <3>3, FS_Subset DEF U
    <3> QED BY <3>3, <3>4
  <2> HIDE DEF j
  <2>4. g.at[j] = h.at[InOrder(S)[j + 1]]
    <3> DEFINE n == j + 1
    <3>1. n \in 1 .. N /\ n - 1 = j BY <2>1, <2>2
    <3> HIDE DEF n
    <3>2. g.at[n - 1] = h.at[InOrder(S)[n]] BY <1>2, <3>1
    <3> QED BY <3>1, <3>2 DEF n
  <2>5. j < N /\ j \in 0 .. N - 1 BY <1>1, <2>1, <2>2
  <2> QED BY <1>2, <2>1, <2>2, <2>3, <2>4, <2>5 DEF j
<1>6. ASSUME NEW j \in Indices(g) PROVE \E i \in S : j = Cardinality(Before(h, i))
  <2>1. j \in Nat /\ j + 1 \in 1 .. N /\ j + 1 - 1 = j BY <1>1, <1>2
  <2>2. InOrder(S)[j + 1] \in S /\ Cardinality(Below(S, InOrder(S)[j + 1])) = j
    BY <1>3, <2>1
  <2> QED BY <1>4, <2>2
<1> QED BY <1>5, <1>6 DEF S, g, N

\* The elements that a position has passed.
Past(h, p) == {h.at[i] : i \in Before(h, p)}

\* What one position has passed stays passed ...
KeepsBehind(h, p, g, q) == Past(h, p) \cap Elements(g) \subseteq Past(g, q)

\* ... and nothing else is.
KeepsAhead(h, p, g, q) == Past(g, q) \subseteq Past(h, p)

\* Compaction with a position not before the place where what it passed goes.
LEMMA CompactBehind ==
  ASSUME NEW h, Core(h), NEW g, g.at = Compact(h).at, Indices(g) = Indices(Compact(h)),
         NEW p \in Nat, NEW q \in Nat,
         \/ p <= q
         \/ \E i \in Indices(h) : p <= i /\ q = Cardinality(Before(h, i))
         \/ q = h.nNumOfElements
  PROVE  KeepsBehind(h, p, g, q)
<1>1. ASSUME NEW i \in Indices(h), i < p
      PROVE  Cardinality(Before(h, i)) < q
  <2> DEFINE j == Cardinality(Before(h, i))
  <2>1. j \in Nat /\ j <= i /\ j < h.nNumOfElements BY CompactTakes
  <2>2. i \in Nat BY IndicesAre
  <2>3. CASE p <= q
    <3> HIDE DEF j
    <3>1. j < q BY <1>1, <2>1, <2>2, <2>3
    <3> QED BY <3>1 DEF j
  <2>4. CASE q = h.nNumOfElements BY <2>1, <2>4
  <2>5. CASE \E k \in Indices(h) : p <= k /\ q = Cardinality(Before(h, k))
    <3>1. PICK k \in Indices(h) : p <= k /\ q = Cardinality(Before(h, k)) BY <2>5
    <3>2. k \in Nat /\ i < k BY <1>1, <2>2, <3>1, IndicesAre
    <3>3. /\ Before(h, i) = Below(Indices(h), i) /\ Before(h, k) = Below(Indices(h), k)
          /\ IsFiniteSet(Indices(h)) /\ \A m \in Indices(h) : m \in Nat
      BY <2>2, <3>2, BeforeIs, IndicesAre
    <3>4. Cardinality(Below(Indices(h), i)) < Cardinality(Below(Indices(h), k))
      BY <3>2, <3>3, RankGrows
    <3> QED BY <3>1, <3>3, <3>4
  <2> QED BY <2>3, <2>4, <2>5
<1>2. ASSUME NEW i \in Before(h, p) PROVE h.at[i] \in Past(g, q)
  <2>1. i \in Indices(h) /\ i < p BY DEF Before
  <2>2. Cardinality(Before(h, i)) \in Indices(g) /\ g.at[Cardinality(Before(h, i))] = h.at[i]
    BY <2>1, CompactTakes
  <2>3. Cardinality(Before(h, i)) < q BY <1>1, <2>1
  <2> QED BY <2>2, <2>3 DEF Past, Before
<1>3. Past(h, p) \subseteq Past(g, q) BY <1>2 DEF Past
<1> QED BY <1>3 DEF KeepsBehind

\* Compaction with a position that goes where the element goes that it is before.
LEMMA CompactAhead ==
  ASSUME NEW h, Core(h), NEW g, g.at = Compact(h).at, Indices(g) = Indices(Compact(h)),
         NEW p \in Nat
  PROVE  KeepsAhead(h, p, g, Cardinality(Before(h, p)))
<1> DEFINE q == Cardinality(Before(h, p))
<1>1. ASSUME NEW j \in Before(g, q) PROVE g.at[j] \in Past(h, p)
  <2>1. j \in Indices(Compact(h)) /\ j < q BY DEF Before
  <2>2. PICK i \in Indices(h) : j = Cardinality(Before(h, i)) BY <2>1, CompactTakes
  <2>3. g.at[j] = h.at[i] BY <2>2, CompactTakes
  <2>4. i < p
    <3>1. SUFFICES ASSUME ~(i < p) PROVE FALSE OBVIOUS
    <3>2. i \in Nat /\ \A m \in Indices(h) : m \in Nat BY IndicesAre
    <3>3. Before(h, p) \subseteq Before(h, i)
      <4>1. ASSUME NEW m \in Indices(h), m < p PROVE m < i BY <3>1, <3>2, <4>1
      <4> QED BY <4>1 DEF Before
    <3>4. IsFiniteSet(Before(h, i)) BY <3>2, BeforeIs
    <3>5. /\ Cardinality(Before(h, p)) <= Cardinality(Before(h, i))
          /\ IsFiniteSet(Before(h, p))
      BY <3>3, <3>4, FS_Subset
    <3>6. Cardinality(Before(h, p)) \in Nat /\ Cardinality(Before(h, i)) \in Nat
      BY <3>4, <3>5, FS_CardinalityType
    <3>7. Cardinality(Before(h, i)) < Cardinality(Before(h, p)) BY <2>1, <2>2
    <3> QED BY ONLY <3>5, <3>6, <3>7
  <2> QED BY <2>3, <2>4 DEF Past, Before
<1>2. Past(g, q) \subseteq Past(h, p) BY <1>1 DEF Past
<1> QED BY <1>2 DEF KeepsAhead

-----------------------------------------------------------------------------
(* Iterators and operations on a table                                     *)
\* No iterator that passed an element is before it again; the only one of its
\* table, if it stands well, passes nothing by that.
Trails(w, r) ==
    \A x \in DOMAIN w.pos :
        /\ KeepsBehind(w.h, w.pos[x], r.h, r.pos[x])
        /\ Fine(w, x) => KeepsAhead(w.h, w.pos[x], r.h, r.pos[x])

\* The same of an operation that keeps the elements, after which it stands well again.
Onward(w, r) ==
    /\ Trails(w, r)
    /\ Elements(r.h) = Elements(w.h)
    /\ \A x \in DOMAIN w.pos : Fine(w, x) => Fine(r, x)

\* A table knows that it has iterators.
Known(w) == DOMAIN w.pos # {} => HasIterators(w.h)

\* What a position has passed are elements of the table, at its end all of them.
LEMMA PastIs ==
  ASSUME NEW h, Core(h), NEW p \in Nat
  PROVE  Past(h, p) \subseteq Elements(h) /\ (p >= h.nNumUsed => Past(h, p) = Elements(h))
<1>1. Before(h, p) \subseteq Indices(h) BY DEF Before
<1>2. p >= h.nNumUsed => Before(h, p) = Indices(h) BY IndicesAre DEF Before
<1> QED BY <1>1, <1>2 DEF Past, Elements

\* Buckets and positions stay.
LEMMA SameOnward ==
  ASSUME NEW w, NEW r, r.pos = w.pos, r.h.at = w.h.at, r.h.nNumUsed = w.h.nNumUsed
  PROVE  Onward(w, r)
<1>1. /\ Indices(r.h) = Indices(w.h) /\ Holes(r.h) = Holes(w.h) /\ Elements(r.h) = Elements(w.h)
      /\ \A p : Before(r.h, p) = Before(w.h, p)
  BY ValueSame
<1>2. \A p : Past(r.h, p) = Past(w.h, p) BY <1>1 DEF Past
<1>3. Trails(w, r) BY <1>2 DEF Trails, KeepsBehind, KeepsAhead
<1>4. \A x : Fine(w, x) => Fine(r, x) BY <1>1 DEF Fine
<1> QED BY <1>1, <1>3, <1>4 DEF Onward

\* One operation after another.
LEMMA OnwardThenTrails ==
  ASSUME NEW u, NEW v, NEW w, Pair(u), Core(u.h), DOMAIN v.pos = DOMAIN u.pos,
         Onward(u, v), Trails(v, w)
  PROVE  Trails(u, w)
<1> SUFFICES ASSUME NEW x \in DOMAIN u.pos
             PROVE  /\ KeepsBehind(u.h, u.pos[x], w.h, w.pos[x])
                    /\ Fine(u, x) => KeepsAhead(u.h, u.pos[x], w.h, w.pos[x])
  BY DEF Trails
<1>1. u.pos[x] \in Nat BY DEF Pair
<1>2. Past(u.h, u.pos[x]) \subseteq Elements(v.h) BY <1>1, PastIs DEF Onward
<1>3. /\ KeepsBehind(u.h, u.pos[x], v.h, v.pos[x])
      /\ KeepsBehind(v.h, v.pos[x], w.h, w.pos[x])
  BY DEF Onward, Trails
<1>4. KeepsBehind(u.h, u.pos[x], w.h, w.pos[x]) BY <1>2, <1>3 DEF KeepsBehind
<1>5. ASSUME Fine(u, x) PROVE KeepsAhead(u.h, u.pos[x], w.h, w.pos[x])
  <2>1. Fine(v, x) /\ KeepsAhead(u.h, u.pos[x], v.h, v.pos[x]) BY <1>5 DEF Onward, Trails
  <2>2. KeepsAhead(v.h, v.pos[x], w.h, w.pos[x]) BY <2>1 DEF Trails
  <2> QED BY <2>1, <2>2 DEF KeepsAhead
<1> QED BY <1>4, <1>5

\* So do operations that keep the elements.
LEMMA OnwardTransitive ==
  ASSUME NEW u, NEW v, NEW w, Pair(u), Core(u.h), DOMAIN v.pos = DOMAIN u.pos,
         Onward(u, v), Onward(v, w)
  PROVE  Onward(u, w)
<1>1. Trails(u, w) BY OnwardThenTrails DEF Onward
<1> QED BY <1>1 DEF Onward

\* zend_hash_rehash
LEMMA RehashOnward ==
  ASSUME NEW w, Pair(w), Core(w.h), Known(w)
  PROVE  Onward(w, Rehash(w))
<1> DEFINE h == w.h
           N == h.nNumOfElements
           r == Rehash(w)
<1>1. /\ Pair(r) /\ DOMAIN r.pos = DOMAIN w.pos /\ Core(r.h)
      /\ Holes(r.h) = {} /\ r.h.nNumUsed = r.h.nNumOfElements
      /\ Elements(r.h) = Elements(h) /\ r.h.nNumOfElements = N
  <2>1. Kept(w, r) /\ Threaded(r.h) BY RehashIs
  <2> HIDE DEF r
  <2>2. Core(r.h) /\ KeepsValue(h, r.h) BY <2>1 DEF Kept
  <2> QED BY <2>1, <2>2, KeepsElements DEF Kept, Threaded
<1>2. N \in Nat /\ h.nNumUsed \in Nat /\ N <= h.nNumUsed BY IndicesAre
<1>3. CASE N = 0
  <2>1. h.nNumUsed = 0 /\ Indices(h) = {} BY <1>3, IndicesAre
  <2>2. r = [w EXCEPT !.h.nNumUsed = 0, !.h.at = <<>>, !.h.chain = Reset(w.h)]
    BY <1>3 DEF Rehash
  <2> DEFINE g == [h EXCEPT !.nNumUsed = 0, !.at = <<>>, !.chain = Reset(h)]
  <2>3. r = [w EXCEPT !.h = g] BY <2>2 DEF Pair
  <2> HIDE DEF r, g
  <2>4. r \in [h : {g}, pos : {w.pos}] BY <2>3 DEF Pair
  <2>5. r.pos = w.pos BY <2>4
  <2>6. r.h.at = h.at
    <3>1. r.h.at \in [0 .. r.h.nNumUsed - 1 -> Keys \cup {Hole}] BY <1>1 DEF Core
    <3>2. h.at \in [0 .. h.nNumUsed - 1 -> Keys \cup {Hole}] BY DEF Core
    <3>3. 0 .. r.h.nNumUsed - 1 = {} /\ 0 .. h.nNumUsed - 1 = {} BY <1>1, <1>3, <2>1
    <3> DEFINE a == r.h.at
               b == h.at
    <3>4. a \in [{} -> Keys \cup {Hole}] /\ b \in [{} -> Keys \cup {Hole}]
      BY <3>1, <3>2, <3>3
    <3> HIDE DEF a, b
    <3>5. a = <<>> /\ b = <<>> BY <3>4
    <3> QED BY <3>5 DEF a, b
  <2>7. Onward(w, r) BY <1>1, <1>3, <2>1, <2>5, <2>6, SameOnward
  <2> QED BY <2>7 DEF r
<1>4. CASE N # 0 /\ h.nNumUsed = N
  <2> DEFINE g == Rechained(h)
  <2>1. r = [w EXCEPT !.h = g] BY <1>4 DEF Rehash
  <2>2. g.at = h.at /\ g.nNumUsed = h.nNumUsed BY RechainedIs
  <2> HIDE DEF r, g
  <2>3. r \in [h : {g}, pos : {w.pos}] BY <2>1 DEF Pair
  <2>4. r.pos = w.pos /\ r.h = g BY <2>3
  <2>5. Onward(w, r) BY <2>2, <2>4, SameOnward
  <2> QED BY <2>5 DEF r
<1>5. CASE N # 0 /\ h.nNumUsed # N
  <2> DEFINE f == Compact(h)
             g == Rechained(f)
             carried == [h |-> g, pos |-> Carried(w)]
             M == Cardinality(Indices(h))
  <2>1. r = Update(carried, h.nNumUsed, M) BY <1>5 DEF Rehash
  <2>2. M = N /\ N < h.nNumUsed BY <1>2, <1>5 DEF Core
  <2>3. Core(f) /\ f.nIteratorsCount = h.nIteratorsCount BY CompactIs
  <2>4. g.at = f.at /\ Indices(g) = Indices(f) /\ g.nIteratorsCount = f.nIteratorsCount
    <3> HIDE DEF f
    <3> QED BY <2>3, RechainedIs
  <2>5. carried.h = g /\ carried.pos = Carried(w)
    <3> HIDE DEF g
    <3> QED OBVIOUS
  <2>6. \E b : b \in Holes(h)
    <3>1. SUFFICES ASSUME Holes(h) = {} PROVE FALSE OBVIOUS
    <3>2. Indices(h) = 0 .. h.nNumUsed - 1 BY <3>1 DEF Holes, Indices
    <3> HIDE DEF M, N
    <3>3. M = h.nNumUsed BY <1>2, <3>2, UpTo DEF M
    <3> QED BY <1>2, <2>2, <3>3
  <2>7. PICK c : Runs(w, c) BY CarriedRuns DEF Pair
  <2>8. ASSUME NEW x \in DOMAIN w.pos
        PROVE  /\ KeepsBehind(h, w.pos[x], r.h, r.pos[x])
               /\ Fine(w, x) => KeepsAhead(h, w.pos[x], r.h, r.pos[x]) /\ Fine(r, x)
    <3> DEFINE p == w.pos[x]
               s == c[Len(Movers(h))].pos
               q == s[x]
               to == IF q = h.nNumUsed THEN N ELSE q
    <3>1. HasIterators(h) BY DEF Known
    <3>2. Carried(w) = s BY <2>7, <3>1 DEF Runs
    <3>3. Len(Movers(h)) \in Nat BY MoversAre
    <3>4. s \in [DOMAIN w.pos -> Nat]
      <4> DEFINE L == Len(Movers(h))
                 R == [pos : [DOMAIN w.pos -> Nat], low : Nat]
      <4> HIDE DEF L
      <4>1. c \in [0 .. L -> R] BY <2>7 DEF Runs, L
      <4>2. c[L] \in R BY <3>3, <4>1 DEF L
      <4>3. c[L].pos \in [DOMAIN w.pos -> Nat] BY <4>2
      <4> QED BY <4>3 DEF L
    <3>5. HasIterators(g) BY <2>3, <2>4, <3>1 DEF HasIterators
    <3> HIDE DEF s, N, M, g, f
    <3>6. r.h = g /\ r.pos[x] = to
      <4>1. carried.pos = s /\ carried.h = g BY <2>5, <3>2
      <4> HIDE DEF carried, r
      <4>2. r = [carried EXCEPT !.pos = [y \in DOMAIN @ |->
                                            IF @[y] = h.nNumUsed THEN M ELSE @[y]]]
        BY <2>1, <3>5, <4>1 DEF Update
      <4> DEFINE pos == [y \in DOMAIN s |-> IF s[y] = h.nNumUsed THEN M ELSE s[y]]
      <4>3. r = [carried EXCEPT !.pos = pos] BY <4>1, <4>2
      <4>4. carried = [h |-> g, pos |-> s] BY <3>2 DEF carried
      <4>5. pos[x] = to BY <2>2, <3>4
      <4> HIDE DEF pos
      <4>6. r.h = g /\ r.pos = pos BY <4>3, <4>4
      <4> QED BY <4>5, <4>6
    <3>7. p \in Nat /\ q \in Nat /\ to \in Nat BY <1>2, <3>4 DEF Pair
    <3>8. Carriage(h, p, q, Len(Movers(h))) BY <2>7, CarriageEnds DEF s
    <3> HIDE DEF q, p
    <3>9. \/ p <= to
          \/ \E i \in Indices(h) : p <= i /\ to = Cardinality(Before(h, i))
          \/ to = N
      <4>1. CASE q = h.nNumUsed BY <4>1
      <4>2. CASE q # h.nNumUsed /\ q = p BY <3>7, <4>2
      <4>3. CASE q # h.nNumUsed /\ q # p
        <5>1. PICK m \in 1 .. Len(Movers(h)) :
                 p <= Movers(h)[m] /\ q = Cardinality(Before(h, Movers(h)[m]))
          BY <3>8, <4>3 DEF Carriage
        <5>2. Movers(h)[m] \in Indices(h) BY <5>1, MoversAre
        <5> QED BY <4>3, <5>1, <5>2
      <4> QED BY <4>1, <4>2, <4>3
    <3>10. KeepsBehind(h, p, g, to) BY <2>4, <3>7, <3>9, CompactBehind DEF f, N
    <3>11. ASSUME Fine(w, x) PROVE KeepsAhead(h, p, g, to) /\ Fine(r, x)
      <4>1. to = Cardinality(Before(h, p))
        <5>1. PICK b : b \in Holes(h) BY <2>6
        <5>2. q = Cardinality(Before(h, p)) \/ (q = h.nNumUsed /\ p = h.nNumUsed)
          BY <2>7, <3>11, <5>1, EscortEnds DEF s, p, q
        <5>3. /\ Cardinality(Before(h, p)) \in 0 .. N
              /\ p >= h.nNumUsed => Cardinality(Before(h, p)) = N
          BY <3>7, BeforeIs DEF N
        <5> QED BY <1>2, <2>2, <3>7, <5>2, <5>3
      <4>2. KeepsAhead(h, p, g, Cardinality(Before(h, p)))
        BY <2>4, <3>7, CompactAhead DEF f
      <4>3. to <= r.h.nNumUsed
        <5>1. Cardinality(Before(h, p)) \in 0 .. N BY <3>7, BeforeIs DEF N
        <5> HIDE DEF to, r
        <5> QED BY <1>1, <1>2, <4>1, <5>1
      <4>4. Fine(r, x)
        <5> HIDE DEF to, r
        <5> QED BY <1>1, <3>6, <3>11, <4>3 DEF Fine
      <4> HIDE DEF to
      <4> QED BY <4>1, <4>2, <4>4
    <3> HIDE DEF to, r
    <3> QED BY <3>6, <3>10, <3>11 DEF p
  <2> HIDE DEF r
  <2>9. Onward(w, r) BY <1>1, <2>8 DEF Onward, Trails
  <2> QED BY <2>9 DEF r
<1> QED BY <1>3, <1>4, <1>5

\* Whatever keeps the array keeps what the table knows of its iterators.
LEMMA KnownStays ==
  ASSUME NEW w, NEW r, Known(w), Kept(w, r)
  PROVE  Known(r)
BY DEF Known, Kept, HasIterators

\* Doubling the size moves nothing.
LEMMA DoubleOnward ==
  ASSUME NEW w, Pair(w), Core(w.h)
  PROVE  Onward(w, Double(w))
<1> DEFINE r == Double(w)
<1>1. r.h.nNumUsed = w.h.nNumUsed /\ r.h.at = w.h.at /\ r.pos = w.pos BY DoubleIs
<1> HIDE DEF r
<1>2. Onward(w, r) BY <1>1, SameOnward
<1> QED BY <1>2 DEF r

\* zend_hash_packed_to_hash
LEMMA PackedToHashOnward ==
  ASSUME NEW w, Pair(w), Core(w.h), Known(w)
  PROVE  Onward(w, PackedToHash(w))
<1> DEFINE d == [w EXCEPT !.h.kind = "hash"]
           g == [w.h EXCEPT !.kind = "hash"]
<1>1. d = [w EXCEPT !.h = g] BY DEF Pair
<1>2. PackedToHash(w) = Rehash(d) BY DEF PackedToHash
<1> HIDE DEF g
<1>3. /\ Fields(g) /\ g.nTableSize = w.h.nTableSize
      /\ g.nNumUsed = w.h.nNumUsed /\ g.at = w.h.at
      /\ g.nNumOfElements = w.h.nNumOfElements
      /\ g.nNextFreeElement = w.h.nNextFreeElement
      /\ g.nIteratorsCount = w.h.nIteratorsCount
      /\ g.nInternalPointer = w.h.nInternalPointer
  BY DEF g, Core, Fields
<1> HIDE DEF d
<1>4. d.h = g /\ d.pos = w.pos /\ Pair(d)
  <2>1. d \in [h : {g}, pos : {w.pos}] BY <1>1 DEF Pair
  <2> QED BY <2>1 DEF Pair
<1>5. Kept(w, d) BY <1>3, <1>4, SameArray
<1>6. Pair(d) /\ Core(d.h) /\ Known(d) BY <1>5, KnownStays DEF Kept
<1>7. Onward(w, d) BY <1>3, <1>4, SameOnward
<1>8. Onward(d, Rehash(d)) BY <1>6, RehashOnward
<1> QED BY <1>2, <1>4, <1>7, <1>8, OnwardTransitive

\* zend_hash_do_resize
LEMMA DoResizeOnward ==
  ASSUME NEW w, Pair(w), Core(w.h), Known(w)
  PROVE  Onward(w, DoResize(w))
<1> DEFINE d == Double(w)
<1>1. CASE DoResize(w) = Rehash(w) BY <1>1, RehashOnward
<1>2. CASE DoResize(w) = Rehash(d)
  <2>1. Kept(w, d) /\ d.pos = w.pos /\ Onward(w, d) BY DoubleIs, DoubleOnward
  <2> HIDE DEF d
  <2>2. Pair(d) /\ Core(d.h) /\ Known(d) BY <2>1, KnownStays DEF Kept
  <2>3. Onward(d, Rehash(d)) BY <2>2, RehashOnward
  <2> QED BY <1>2, <2>1, <2>3, OnwardTransitive
<1> QED BY <1>1, <1>2 DEF DoResize

\* ZEND_HASH_IF_FULL_DO_RESIZE
LEMMA IfFullDoResizeOnward ==
  ASSUME NEW w, Pair(w), Core(w.h), Known(w)
  PROVE  Onward(w, IfFullDoResize(w))
<1>1. Onward(w, w) BY SameOnward
<1>2. Onward(w, DoResize(w)) BY DoResizeOnward
<1> QED BY <1>1, <1>2 DEF IfFullDoResize

\* zend_hash_real_init
LEMMA RealInitOnward ==
  ASSUME NEW w, Pair(w), Core(w.h), NEW kind
  PROVE  Onward(w, RealInit(w, kind))
<1> DEFINE chain == IF kind = "hash" THEN Reset(w.h) ELSE <<>>
           n == IF kind = "hash" /\ w.h.nTableSize # MinSize THEN 0 ELSE w.h.nIteratorsCount
           g == [w.h EXCEPT !.kind = kind, !.chain = chain, !.nIteratorsCount = n]
           r == RealInit(w, kind)
<1>1. r = [w EXCEPT !.h.kind = kind, !.h.chain = chain, !.h.nIteratorsCount = n]
  BY DEF RealInit
<1> HIDE DEF chain, n, r
<1>2. r = [w EXCEPT !.h = g] BY <1>1 DEF Pair
<1>3. g.nNumUsed = w.h.nNumUsed /\ g.at = w.h.at BY DEF Core, Fields
<1> HIDE DEF g
<1>4. r \in [h : {g}, pos : {w.pos}] BY <1>2 DEF Pair
<1>5. Onward(w, r) BY <1>3, <1>4, SameOnward
<1> QED BY <1>5 DEF r

\* A bucket beyond the others is filled: iterators stay behind it.
LEMMA GrowTrails ==
  ASSUME NEW w, Pair(w), Core(w.h), NEW r, r.pos = w.pos, NEW i \in Nat,
         w.h.nNumUsed <= i, r.h.nNumUsed = i + 1,
         \A j \in 0 .. i - 1 : r.h.at[j] = IF j < w.h.nNumUsed THEN w.h.at[j] ELSE Hole
  PROVE  Trails(w, r)
<1> SUFFICES ASSUME NEW x \in DOMAIN w.pos
             PROVE  /\ KeepsBehind(w.h, w.pos[x], r.h, r.pos[x])
                    /\ Fine(w, x) => KeepsAhead(w.h, w.pos[x], r.h, r.pos[x])
  BY DEF Trails
<1> DEFINE h == w.h
           g == r.h
           p == w.pos[x]
<1>1. p \in Nat /\ r.pos[x] = p BY DEF Pair
<1>2. h.nNumUsed \in Nat /\ \A j \in Indices(h) : j \in Nat /\ j < h.nNumUsed /\ h.at[j] # Hole
  BY IndicesAre DEF Core, Indices
<1>3. ASSUME NEW j \in Before(h, p) PROVE j \in Before(g, p) /\ g.at[j] = h.at[j]
  <2>1. j \in Indices(h) /\ j < p BY DEF Before
  <2>2. j \in Nat /\ j < h.nNumUsed BY <1>2, <2>1
  <2>3. j \in 0 .. i - 1 BY <1>2, <2>2
  <2>4. g.at[j] = h.at[j] BY <2>2, <2>3
  <2>5. j \in 0 .. g.nNumUsed - 1 BY <2>3
  <2> QED BY <1>2, <2>1, <2>4, <2>5 DEF Before, Indices
<1>4. Past(h, p) \subseteq Past(g, p) BY <1>3 DEF Past
<1>5. ASSUME Fine(w, x) PROVE Past(g, p) \subseteq Past(h, p)
  <2>1. p <= h.nNumUsed BY <1>5 DEF Fine
  <2>2. ASSUME NEW j \in Before(g, p) PROVE j \in Before(h, p) /\ g.at[j] = h.at[j]
    <3>1. j \in 0 .. i /\ g.at[j] # Hole /\ j < p BY DEF Before, Indices
    <3>2. j < h.nNumUsed BY <1>1, <1>2, <2>1, <3>1
    <3>3. j \in 0 .. i - 1 /\ j \in 0 .. h.nNumUsed - 1 BY <1>2, <3>1, <3>2
    <3>4. g.at[j] = h.at[j] BY <3>2, <3>3
    <3> QED BY <3>1, <3>3, <3>4 DEF Before, Indices
  <2> QED BY <2>2 DEF Past
<1> QED BY <1>1, <1>4, <1>5 DEF KeepsBehind, KeepsAhead

\* A bucket of a hash table is filled.
LEMMA AddToHashTrails ==
  ASSUME NEW w, Pair(w), Core(w.h), NEW k
  PROVE  Trails(w, AddToHash(w, k))
<1> DEFINE h == w.h
           i == h.nNumUsed
           g == PutLast(h, k)
           r == AddToHash(w, k)
<1>1. i \in Nat BY IndicesAre
<1>2. g.nNumUsed = i + 1 /\ g.at = [j \in 0 .. i |-> IF j = i THEN k ELSE h.at[j]]
  BY DEF PutLast, Core, Fields
<1>3. r = [w EXCEPT !.h = g] BY DEF AddToHash
<1> HIDE DEF r, g
<1>4. r \in [h : {g}, pos : {w.pos}] BY <1>3 DEF Pair
<1>5. \A j \in 0 .. i - 1 : g.at[j] = IF j < h.nNumUsed THEN h.at[j] ELSE Hole
  BY <1>1, <1>2
<1>6. i <= i BY <1>1
<1>7. r.h = g /\ r.pos = w.pos BY <1>4
<1>8. Trails(w, r)
  <2>1. h.nNumUsed <= i BY <1>6
  <2> HIDE DEF i
  <2> QED BY <1>1, <1>2, <1>5, <1>7, <2>1, GrowTrails
<1> QED BY <1>8 DEF r

\* A bucket of a packed array is filled.
LEMMA AddToPackedTrails ==
  ASSUME NEW w, Pair(w), Core(w.h), NEW k \in Nat, w.h.nNumUsed <= k
  PROVE  Trails(w, AddToPacked(w, k))
<1> DEFINE h == w.h
           g == PutAt(h, k)
           r == AddToPacked(w, k)
<1>1. /\ g.nNumUsed = k + 1
      /\ g.at = [j \in 0 .. k |-> IF j = k THEN k
                                  ELSE IF j < h.nNumUsed THEN h.at[j] ELSE Hole]
  BY DEF PutAt, Core, Fields
<1>2. r = [w EXCEPT !.h = g] BY DEF AddToPacked
<1> HIDE DEF r, g
<1>3. r \in [h : {g}, pos : {w.pos}] BY <1>2 DEF Pair
<1>4. \A j \in 0 .. k - 1 : g.at[j] = IF j < h.nNumUsed THEN h.at[j] ELSE Hole
  BY <1>1
<1>5. r.h = g /\ r.pos = w.pos BY <1>3
<1>6. Trails(w, r) BY <1>1, <1>4, <1>5, GrowTrails
<1> QED BY <1>6 DEF r

\* An element comes after an operation that keeps the array.
LEMMA KeptThenAdded ==
  ASSUME NEW w, Pair(w), Core(w.h), NEW r, Kept(w, r), Onward(w, r), NEW k
  PROVE  Trails(w, AddToHash(r, k))
<1>1. Pair(r) /\ Core(r.h) /\ DOMAIN r.pos = DOMAIN w.pos BY DEF Kept
<1>2. Trails(r, AddToHash(r, k)) BY <1>1, AddToHashTrails
<1> QED BY <1>1, <1>2, OnwardThenTrails

\* _zend_hash_add_or_update_i
LEMMA AddNameTrails ==
  ASSUME NEW w, Pair(w), Sound(w.h), Known(w), NEW k
  PROVE  Trails(w, AddName(w, k))
<1>0. Core(w.h) BY DEF Sound
<1>1. CASE w.h.kind = "uninit"
  <2>1. AddName(w, k) = AddToHash(RealInit(w, "hash"), k) BY <1>1 DEF AddName
  <2>2. Kept(w, RealInit(w, "hash")) BY <1>1, RealInitIs
  <2> QED BY <1>0, <2>1, <2>2, RealInitOnward, KeptThenAdded
<1>2. CASE w.h.kind = "packed"
  <2> DEFINE p == PackedToHash(w)
             r == IfFullDoResize(p)
  <2>1. AddName(w, k) = AddToHash(r, k) BY <1>2 DEF AddName
  <2>2. /\ Kept(w, p) /\ Threaded(p.h) /\ p.h.kind = "hash" /\ Onward(w, p)
    BY <1>0, PackedToHashIs, PackedToHashOnward
  <2> HIDE DEF p
  <2>3. Pair(p) /\ Sound(p.h) BY <2>2 DEF Kept, Threaded, Sound, Form
  <2>4. Kept(p, r) BY <2>2, <2>3, IfFullDoResizeIs DEF Ready
  <2>5. Onward(p, r)
    <3>1. Known(p) /\ Core(p.h) BY <2>2, KnownStays DEF Kept
    <3> QED BY <2>3, <3>1, IfFullDoResizeOnward
  <2> HIDE DEF r
  <2>6. Kept(w, r) BY <1>0, <2>2, <2>4, KeptTransitive
  <2>7. DOMAIN p.pos = DOMAIN w.pos BY <2>2 DEF Kept
  <2>8. Onward(w, r) BY <1>0, <2>2, <2>5, <2>7, OnwardTransitive
  <2> QED BY <1>0, <2>1, <2>6, <2>8, KeptThenAdded
<1>3. CASE w.h.kind = "hash"
  <2>1. AddName(w, k) = AddToHash(IfFullDoResize(w), k) BY <1>3 DEF AddName
  <2>2. Kept(w, IfFullDoResize(w)) BY <1>3, IfFullDoResizeIs DEF Ready
  <2> QED BY <1>0, <2>1, <2>2, IfFullDoResizeOnward, KeptThenAdded
<1> QED BY <1>0, <1>1, <1>2, <1>3 DEF Core, Fields

\* _zend_hash_index_add_or_update_i
LEMMA AddIndexTrails ==
  ASSUME NEW w, Pair(w), Sound(w.h), Known(w), NEW k \in Ints
  PROVE  Trails(w, AddIndex(w, k))
<1> DEFINE h == w.h
<1>0. Core(h) /\ k \in Nat /\ h.nNumUsed \in Nat
  <2>1. Core(h) /\ k \in Nat BY KeysAssumption DEF Sound
  <2> QED BY <2>1, IndicesAre
<1>1. CASE h.kind = "uninit" /\ k < h.nTableSize
  <2> DEFINE r == RealInit(w, "packed")
  <2>1. AddIndex(w, k) = AddToPacked(r, k) BY <1>1 DEF AddIndex
  <2>2. Kept(w, r) /\ r.h.nNumUsed = 0 /\ Onward(w, r)
    BY <1>0, <1>1, RealInitIs, RealInitOnward
  <2> HIDE DEF r
  <2>3. Pair(r) /\ Core(r.h) /\ DOMAIN r.pos = DOMAIN w.pos BY <2>2 DEF Kept
  <2>4. Trails(r, AddToPacked(r, k)) BY <1>0, <2>2, <2>3, AddToPackedTrails
  <2> QED BY <1>0, <2>1, <2>2, <2>3, <2>4, OnwardThenTrails
<1>2. CASE h.kind = "uninit" /\ ~(k < h.nTableSize)
  <2>1. AddIndex(w, k) = AddToHash(RealInit(w, "hash"), k) BY <1>2 DEF AddIndex
  <2>2. Kept(w, RealInit(w, "hash")) BY <1>2, RealInitIs
  <2> QED BY <1>0, <2>1, <2>2, RealInitOnward, KeptThenAdded
<1>3. CASE h.kind = "packed" /\ k < h.nNumUsed
  <2>1. AddIndex(w, k) = AddToHash(PackedToHash(w), k) BY <1>3 DEF AddIndex
  <2>2. Kept(w, PackedToHash(w)) BY <1>0, PackedToHashIs
  <2> QED BY <1>0, <2>1, <2>2, PackedToHashOnward, KeptThenAdded
<1>4. CASE h.kind = "packed" /\ ~(k < h.nNumUsed) /\ k < h.nTableSize
  <2>1. AddIndex(w, k) = AddToPacked(w, k) BY <1>4 DEF AddIndex
  <2>2. h.nNumUsed <= k BY <1>0, <1>4
  <2> QED BY <1>0, <2>1, <2>2, AddToPackedTrails
<1>5. CASE /\ h.kind = "packed" /\ ~(k < h.nNumUsed) /\ ~(k < h.nTableSize)
           /\ k \div 2 < h.nTableSize /\ h.nTableSize \div 2 < h.nNumOfElements
  <2> DEFINE d == Double(w)
  <2>1. AddIndex(w, k) = AddToPacked(d, k) BY <1>5 DEF AddIndex
  <2>2. Kept(w, d) /\ d.h.nNumUsed = h.nNumUsed /\ Onward(w, d)
    BY <1>0, DoubleIs, DoubleOnward
  <2> HIDE DEF d
  <2>3. Pair(d) /\ Core(d.h) /\ DOMAIN d.pos = DOMAIN w.pos BY <2>2 DEF Kept
  <2>4. d.h.nNumUsed <= k BY <1>0, <1>5, <2>2
  <2>5. Trails(d, AddToPacked(d, k)) BY <1>0, <2>3, <2>4, AddToPackedTrails
  <2> QED BY <1>0, <2>1, <2>2, <2>3, <2>5, OnwardThenTrails
<1>6. CASE /\ h.kind = "packed" /\ ~(k < h.nNumUsed) /\ ~(k < h.nTableSize)
           /\ ~(k \div 2 < h.nTableSize /\ h.nTableSize \div 2 < h.nNumOfElements)
  <2> DEFINE d == IF h.nNumUsed >= h.nTableSize THEN Double(w) ELSE w
             r == PackedToHash(d)
  <2>1. AddIndex(w, k) = AddToHash(r, k) BY <1>6 DEF AddIndex
  <2>2. Kept(w, d) /\ Onward(w, d)
    <3>1. Kept(w, Double(w)) /\ Onward(w, Double(w)) BY <1>0, DoubleIs, DoubleOnward
    <3>2. Kept(w, w) /\ Onward(w, w) BY <1>0, KeptSelf, SameOnward
    <3> QED BY <3>1, <3>2
  <2> HIDE DEF d
  <2>3. Pair(d) /\ Core(d.h) /\ DOMAIN d.pos = DOMAIN w.pos /\ Known(d)
    BY <2>2, KnownStays DEF Kept
  <2>4. Kept(d, r) /\ Onward(d, r) BY <2>3, PackedToHashIs, PackedToHashOnward
  <2> HIDE DEF r
  <2>5. Kept(w, r) BY <1>0, <2>2, <2>4, KeptTransitive
  <2>6. Onward(w, r) BY <1>0, <2>2, <2>3, <2>4, OnwardTransitive
  <2> QED BY <1>0, <2>1, <2>5, <2>6, KeptThenAdded
<1>7. CASE h.kind = "hash"
  <2>1. AddIndex(w, k) = AddToHash(IfFullDoResize(w), k) BY <1>7 DEF AddIndex
  <2>2. Kept(w, IfFullDoResize(w)) BY <1>7, IfFullDoResizeIs DEF Ready
  <2> QED BY <1>0, <2>1, <2>2, IfFullDoResizeOnward, KeptThenAdded
<1>8. h.kind \in {"uninit", "packed", "hash"} BY DEF Sound, Core, Fields
<1> QED BY <1>1, <1>2, <1>3, <1>4, <1>5, <1>6, <1>7, <1>8

\* Insertion: iterators keep what they have passed and what is ahead of them.
LEMMA AddTrails ==
  ASSUME NEW w, Pair(w), Sound(w.h), Known(w), NEW k \in Keys
  PROVE  Trails(w, Add(w, k))
<1>1. Trails(w, w) BY SameOnward DEF Onward
<1>2. CASE k \in Names BY <1>1, <1>2, AddNameTrails DEF Add
<1>3. CASE k \notin Names
  <2>1. k \in Ints BY <1>3 DEF Keys
  <2> QED BY <1>1, <1>3, <2>1, AddIndexTrails DEF Add
<1> QED BY <1>2, <1>3

\* A position on the deleted bucket goes on to the next element.
LEMMA AdvanceMoves ==
  ASSUME NEW w, Pair(w), Core(w.h), NEW i \in Indices(w.h), NEW x \in DOMAIN w.pos
  PROVE  LET r == Advance([w EXCEPT !.h.nNumOfElements = @ - 1], i)
         IN \/ r.pos[x] = w.pos[x]
            \/ w.pos[x] = i /\ r.pos[x] = ValidPos(w.h, i + 1)
<1> DEFINE h == w.h
           n == h.nNumOfElements - 1
           wa == [w EXCEPT !.h.nNumOfElements = @ - 1]
           next == ValidPos(wa.h, i + 1)
           q == IF wa.h.nInternalPointer = i THEN next ELSE wa.h.nInternalPointer
           wb == [wa EXCEPT !.h.nInternalPointer = q]
           r == Advance(wa, i)
<1>1. Fields(h) BY DEF Core
<1> HIDE DEF n
<1>2. wa \in [h : {[h EXCEPT !.nNumOfElements = n]}, pos : {w.pos}] BY DEF Pair, n
<1>3. r = Update(wb, i, next) BY DEF Advance
<1> HIDE DEF wa
<1>4. wa.h = [h EXCEPT !.nNumOfElements = n] /\ wa.pos = w.pos BY <1>2
<1>5. wa.h.at = h.at /\ wa.h.nNumUsed = h.nNumUsed BY <1>1, <1>4 DEF Fields
<1>6. next = ValidPos(h, i + 1) BY <1>5, ValueSame
<1> HIDE DEF next, q
<1>7. wb \in [h : {[wa.h EXCEPT !.nInternalPointer = q]}, pos : {w.pos}] BY <1>2, <1>4
<1> HIDE DEF wb
<1>8. wb.pos = w.pos /\ wb \in [h : {wb.h}, pos : {w.pos}] BY <1>7
<1> DEFINE pos == [y \in DOMAIN w.pos |-> IF w.pos[y] = i THEN next ELSE w.pos[y]]
<1>9. r = wb \/ r = [wb EXCEPT !.pos = pos] BY <1>3, <1>8 DEF Update
<1>10. pos[x] = IF w.pos[x] = i THEN next ELSE w.pos[x] OBVIOUS
<1> HIDE DEF pos, r
<1>11. r.pos = w.pos \/ r.pos = pos BY <1>8, <1>9
<1> QED BY <1>6, <1>10, <1>11 DEF r, wa

\* A bucket becomes a hole.
LEMMA ShrinkTrails ==
  ASSUME NEW h, NEW g, Core(h), NEW i \in Indices(h), Indices(g) = Indices(h) \ {i},
         \A j \in Indices(g) : g.at[j] = h.at[j],
         NEW p \in Nat, NEW q, q = p \/ (p = i /\ q = ValidPos(h, i + 1))
  PROVE  KeepsBehind(h, p, g, q) /\ KeepsAhead(h, p, g, q)
<1>1. /\ i \in Nat /\ \A j \in Indices(h) : j \in Nat
      /\ \A j, m \in Indices(h) : h.at[j] = h.at[m] => j = m
  BY IndicesAre DEF Core
<1>2. ASSUME NEW j \in Indices(h), j # i PROVE j < q <=> j < p
  <2>1. CASE q = p BY <2>1
  <2>2. CASE p = i /\ q = ValidPos(h, i + 1)
    <3>1. i + 1 \in Nat BY <1>1
    <3>2. j < q <=> j < i + 1 BY <2>2, <3>1, ValidPosIs
    <3> QED BY <1>1, <1>2, <2>2, <3>2
  <2> QED BY <2>1, <2>2
<1>3. ASSUME NEW k \in Past(h, p), k \in Elements(g) PROVE k \in Past(g, q)
  <2>1. PICK j \in Indices(h) : j < p /\ k = h.at[j] BY DEF Past, Before
  <2>2. PICK m \in Indices(g) : k = g.at[m] BY <1>3 DEF Elements
  <2>3. m = j BY <1>1, <2>1, <2>2
  <2>4. m # i /\ m < q BY <1>2, <2>1, <2>2, <2>3
  <2> QED BY <2>2, <2>4 DEF Past, Before
<1>4. ASSUME NEW k \in Past(g, q) PROVE k \in Past(h, p)
  <2>1. PICK j \in Indices(g) : j < q /\ k = g.at[j] BY DEF Past, Before
  <2>2. j \in Indices(h) /\ j < p /\ k = h.at[j] BY <1>2, <2>1
  <2> QED BY <2>2 DEF Past, Before
<1> QED BY <1>3, <1>4 DEF KeepsBehind, KeepsAhead

\* zend_hash_packed_del_val, _zend_hash_del_el_ex
LEMMA DelElTrails ==
  ASSUME NEW w, Pair(w), Sound(w.h), NEW i \in Indices(w.h)
  PROVE  Trails(w, DelEl(w, i))
<1> DEFINE h == w.h
           b == Advance([w EXCEPT !.h.nNumOfElements = @ - 1], i)
           a == b.h
           c == Unchain(a, i)
           f == Trim(c, i)
           r == DelEl(w, i)
<1>1. Core(h) BY DEF Sound
<1>2. /\ Pair(b) /\ Fields(a) /\ a.nTableSize = h.nTableSize
      /\ a.nNumUsed = h.nNumUsed /\ a.at = h.at
      /\ a.nNumOfElements = h.nNumOfElements - 1
      /\ a.nNextFreeElement = h.nNextFreeElement
  BY <1>1, AdvanceIs
<1>3. r = [b EXCEPT !.h = f] BY DEF DelEl
<1>4. ASSUME NEW x \in DOMAIN w.pos
      PROVE  b.pos[x] = w.pos[x] \/ (w.pos[x] = i /\ b.pos[x] = ValidPos(h, i + 1))
  BY <1>1, AdvanceMoves
<1> HIDE DEF b
<1>5. r.h = f /\ r.pos = b.pos
  <2> HIDE DEF r, f
  <2>1. r \in [h : {f}, pos : {b.pos}] BY <1>2, <1>3 DEF Pair
  <2> QED BY <2>1
<1> HIDE DEF a, r
<1>6. /\ Fields(c) /\ c.nTableSize = h.nTableSize
      /\ c.nNumUsed = h.nNumUsed /\ c.at = h.at
      /\ c.nNumOfElements = h.nNumOfElements - 1
      /\ c.nNextFreeElement = h.nNextFreeElement
  <2>1. /\ Fields(c) /\ c.nTableSize = a.nTableSize
        /\ c.nNumUsed = a.nNumUsed /\ c.at = a.at
        /\ c.nNumOfElements = a.nNumOfElements
        /\ c.nNextFreeElement = a.nNextFreeElement
    BY <1>2, UnchainIs
  <2> HIDE DEF c
  <2> QED BY <1>2, <2>1
<1> HIDE DEF c
<1>7. /\ Fields(f) /\ f.nTableSize = h.nTableSize
      /\ f.nNumOfElements = h.nNumOfElements - 1
      /\ f.nNextFreeElement = h.nNextFreeElement
      /\ f.nNumUsed <= h.nNumUsed
      /\ f.at \in [0 .. f.nNumUsed - 1 -> Keys \cup {Hole}]
      /\ \A j \in Indices(h) \ {i} : j < f.nNumUsed
      /\ f.nNumUsed > 0 => f.nNumUsed - 1 \in Indices(h) \ {i}
  BY <1>1, <1>6, TrimIs
<1>8. \A j \in 0 .. f.nNumUsed - 1 : f.at[j] = IF j = i THEN Hole ELSE h.at[j]
  BY <1>1, <1>6, TrimIs
<1> HIDE DEF f
<1>9. Indices(f) = Indices(h) \ {i} /\ \A j \in Indices(f) : f.at[j] = h.at[j]
  BY <1>1, <1>7, <1>8, ShrinkCore
<1>10. ASSUME NEW x \in DOMAIN w.pos
       PROVE  KeepsBehind(h, w.pos[x], f, r.pos[x]) /\ KeepsAhead(h, w.pos[x], f, r.pos[x])
  <2> DEFINE p == w.pos[x]
             q == r.pos[x]
  <2>1. p \in Nat BY DEF Pair
  <2>2. q = p \/ (p = i /\ q = ValidPos(h, i + 1)) BY <1>4, <1>5
  <2> HIDE DEF p, q
  <2>3. KeepsBehind(h, p, f, q) /\ KeepsAhead(h, p, f, q)
    BY <1>1, <1>9, <2>1, <2>2, ShrinkTrails
  <2> QED BY <2>3 DEF p, q
<1>11. Trails(w, r) BY <1>5, <1>10 DEF Trails
<1> QED BY <1>11 DEF r

\* zend_hash_del and zend_hash_index_del
LEMMA DelTrails ==
  ASSUME NEW w, Pair(w), Sound(w.h), NEW k \in Keys
  PROVE  Trails(w, Del(w, k))
<1> DEFINE F == Found(w.h, k)
<1>1. CASE F = {}
  <2>1. Trails(w, w) BY SameOnward DEF Onward
  <2> QED BY <1>1, <2>1 DEF Del
<1>2. CASE F # {}
  <2>1. F \subseteq Indices(w.h) BY FoundIs
  <2>2. \A i \in F : i \in Nat BY <2>1, IndicesAre DEF Sound
  <2>3. Least(F) \in F
    <3> HIDE DEF F
    <3> QED BY <1>2, <2>2, LeastIs
  <2>4. Del(w, k) = DelEl(w, Least(F)) BY <1>2 DEF Del
  <2> HIDE DEF F
  <2> QED BY <2>1, <2>3, <2>4, DelElTrails
<1> QED BY <1>1, <1>2

\* The internal pointer moves alone.
LEMMA PointerTrails ==
  ASSUME NEW w, Pair(w), Sound(w.h), NEW q
  PROVE  Trails(w, [w EXCEPT !.h.nInternalPointer = q])
<1> DEFINE g == [w.h EXCEPT !.nInternalPointer = q]
           r == [w EXCEPT !.h.nInternalPointer = q]
<1>1. r = [w EXCEPT !.h = g] OBVIOUS
<1>2. g.at = w.h.at /\ g.nNumUsed = w.h.nNumUsed BY DEF Sound, Core, Fields
<1> HIDE DEF r, g
<1>3. r \in [h : {g}, pos : {w.pos}] BY <1>1 DEF Pair
<1>4. r.h = g /\ r.pos = w.pos BY <1>3
<1>5. Trails(w, r) BY <1>2, <1>4, SameOnward DEF Onward
<1> QED BY <1>5 DEF r

-----------------------------------------------------------------------------
(* Iterators and the program                                               *)
\* What IteratorsFollow says of one iterator.
Followed(x) ==
    LET now == Elements(table'[iter[x].ht])
        new == now \ Elements(table[iter[x].ht])
    IN /\ Behind(table, iter, x) \cap now \subseteq Behind(table', iter', x)
       /\ Alone(x) => (Ahead(table, iter, x) \cap now) \cup new
                          \subseteq Ahead(table', iter', x)

\* It follows when its position keeps what is behind and ahead of it.
LEMMA FollowsWhen ==
  ASSUME HashInv, NEW x \in Slots, Stays(x),
         LET h == table[iter[x].ht]
             g == table'[iter[x].ht]
         IN /\ KeepsBehind(h, iter[x].pos, g, iter'[x].pos)
            /\ Alone(x) => KeepsAhead(h, iter[x].pos, g, iter'[x].pos)
  PROVE  Followed(x)
<1> DEFINE t == iter[x].ht
           h == table[t]
           g == table'[t]
           p == iter[x].pos
           q == iter'[x].pos
<1>1. iter'[x].ht = t /\ t \in Allocated(table) BY DEF Stays, Live, Allocated
<1>2. Core(h) BY <1>1, OwnedAre DEF HashInv, Owned, Sound
<1>3. p \in Nat BY DEF HashInv, Iterating
<1>4. Behind(table, iter, x) = Past(h, p) BY DEF Behind, Past
<1>5. Behind(table', iter', x) = Past(g, q) BY <1>1 DEF Behind, Past
<1>6. Ahead(table, iter, x) = Elements(h) \ Past(h, p) BY <1>4 DEF Ahead
<1>7. Ahead(table', iter', x) = Elements(g) \ Past(g, q) BY <1>1, <1>5 DEF Ahead
<1>8. KeepsBehind(h, p, g, q) /\ (Alone(x) => KeepsAhead(h, p, g, q)) OBVIOUS
<1> HIDE DEF h, g, p, q
<1>9. Past(h, p) \subseteq Elements(h) BY <1>2, <1>3, PastIs
<1>10. Behind(table, iter, x) \cap Elements(g) \subseteq Behind(table', iter', x)
  BY <1>4, <1>5, <1>8 DEF KeepsBehind
<1>11. ASSUME Alone(x)
       PROVE  (Ahead(table, iter, x) \cap Elements(g)) \cup (Elements(g) \ Elements(h))
                  \subseteq Ahead(table', iter', x)
  <2>1. Past(g, q) \subseteq Past(h, p) BY <1>8, <1>11 DEF KeepsAhead
  <2> QED BY <1>6, <1>7, <1>9, <2>1
<1>12. Elements(table'[iter[x].ht]) = Elements(g) /\ Elements(table[iter[x].ht]) = Elements(h)
  BY DEF g, h
<1> QED BY <1>10, <1>11, <1>12 DEF Followed

\* It follows when neither its table's buckets nor its position change.
LEMMA FollowsBuckets ==
  ASSUME HashInv, NEW x \in Slots, Stays(x), iter'[x].pos = iter[x].pos,
         table'[iter[x].ht].at = table[iter[x].ht].at,
         table'[iter[x].ht].nNumUsed = table[iter[x].ht].nNumUsed
  PROVE  Followed(x)
<1> DEFINE h == table[iter[x].ht]
           g == table'[iter[x].ht]
           p == iter[x].pos
<1>1. g.at = h.at /\ g.nNumUsed = h.nNumUsed OBVIOUS
<1> HIDE DEF h, g
<1>2. Past(g, p) = Past(h, p) /\ Elements(g) = Elements(h) BY <1>1, ValueSame DEF Past
<1>3. KeepsBehind(h, p, g, p) /\ KeepsAhead(h, p, g, p) BY <1>2 DEF KeepsBehind, KeepsAhead
<1> QED BY <1>3, FollowsWhen DEF h, g

\* The buckets of every table that was there are the same.
Alike(tb, ub) == \A t \in Allocated(tb) :
    ub[t].at = tb[t].at /\ ub[t].nNumUsed = tb[t].nNumUsed

\* What an iterator that stays is attached to.
LEMMA StaysIs ==
  ASSUME HashInv, NEW x \in Slots, Stays(x)
  PROVE  LET t == iter[x].ht
         IN /\ t \in Tables /\ t \in Allocated(table) /\ t # Nobody
            /\ iter'[x].ht = t /\ table'[t] # Free /\ x < used /\ x \in Attached(t)
            /\ \A y \in Slots : iter[y].ht = Nobody => y # x
<1>1. iter[x].ht \in Allocated(table) /\ iter[x].ht \in Tables
  BY DEF Stays, Live, Allocated
<1>2. iter[x].ht # Nobody BY <1>1, TablesAssumption
<1>3. x < used BY <1>2 DEF HashInv, Iterating
<1> QED BY <1>1, <1>2, <1>3 DEF Stays, Attached

\* An iterator follows when nothing moves.
LEMMA FollowsAlike ==
  ASSUME HashInv, NEW x \in Slots, Stays(x), Alike(table, table'), iter'[x].pos = iter[x].pos
  PROVE  Followed(x)
<1>1. iter[x].ht \in Allocated(table) BY StaysIs
<1> QED BY <1>1, FollowsBuckets DEF Alike

\* SEPARATE_ARRAY leaves the tables that were there alone; a table of the
\* variable's own knows of its iterators.
LEMMA SeparatedAlike ==
  ASSUME HashInv, NEW v \in Vars, NEW own \in Separated(v)
  PROVE  /\ \A s \in Allocated(table) : own.table[s] = table[s]
         /\ Known(With(own.table[own.vars[v]], own.vars[v]))
<1> DEFINE t == own.vars[v]
<1>1. \A s \in Allocated(table) : own.table[s] = table[s]
  <2>1. CASE ~Shared(v)
    <3>1. own = [table |-> table, vars |-> vars] BY <2>1 DEF Separated
    <3> QED BY <3>1
  <2>2. CASE Shared(v)
    <3>1. PICK n \in {n \in Tables : table[n] = Free} :
             own = [table |-> [table EXCEPT ![n] = Dup(table[vars[v]])],
                    vars |-> [vars EXCEPT ![v] = n]]
      BY <2>2 DEF Separated
    <3> DEFINE g == Dup(table[vars[v]])
    <3> HIDE DEF g
    <3>2. own.table = [table EXCEPT ![n] = g] BY <3>1 DEF g
    <3>3. table = [s \in Tables |-> table[s]] BY DEF HashInv, Owned
    <3> QED BY <3>2, <3>3 DEF Allocated
  <2> QED BY <2>1, <2>2
<1>2. /\ t \in Allocated(own.table)
      /\ own.table[t].nIteratorsCount = Cardinality(SlotsOf(iter, t))
  BY SeparatedIs DEF Separate, Counted
<1>3. /\ With(own.table[t], t).h = own.table[t]
      /\ DOMAIN With(own.table[t], t).pos = Attached(t)
  BY WithIs DEF HashInv
<1>4. Attached(t) # {} => Cardinality(SlotsOf(iter, t)) # 0
  <2>1. Attached(t) \subseteq SlotsOf(iter, t) BY DEF Attached, SlotsOf
  <2>2. IsFiniteSet(SlotsOf(iter, t)) BY SlotsOfAre
  <2> QED BY <2>1, <2>2, FS_EmptySet
<1>5. Known(With(own.table[t], t)) BY <1>2, <1>3, <1>4 DEF Known, HasIterators
<1> QED BY <1>1, <1>5

\* Iterators follow what a program does to the table of a variable.
LEMMA WriteFollowed ==
  ASSUME HashInv, NEW v \in Vars, NEW own \in Separated(v),
         NEW r, Pair(r), DOMAIN r.pos = Attached(own.vars[v]),
         Trails(With(own.table[own.vars[v]], own.vars[v]), r),
         table' = [own.table EXCEPT ![own.vars[v]] = r.h],
         iter' = Positions(r), NEW x \in Slots, Stays(x)
  PROVE  Followed(x)
<1> DEFINE t == own.vars[v]
           s == iter[x].ht
           w == With(own.table[t], t)
<1>1. /\ s \in Tables /\ s \in Allocated(table) /\ x \in Attached(s)
      /\ own.table[s] = table[s]
  BY StaysIs, SeparatedAlike
<1>2. /\ t \in Allocated(own.table) /\ t \in Tables
      /\ own.table = [n \in Tables |-> own.table[n]]
  BY SeparatedIs DEF Separate, Owned, Allocated
<1>3. w.h = own.table[t] /\ DOMAIN w.pos = Attached(t) BY WithIs DEF HashInv
<1>4. iter'[x] = IF x \in Attached(t) THEN [iter[x] EXCEPT !.pos = r.pos[x]] ELSE iter[x]
  BY DEF Positions
<1>5. CASE s = t
  <2>1. table'[s] = r.h /\ w.h = table[s] BY <1>1, <1>2, <1>3, <1>5
  <2>2. w.pos[x] = iter[x].pos
    <3>1. w = [h |-> own.table[t], pos |-> [y \in Attached(t) |-> iter[y].pos]] BY DEF With
    <3> QED BY <1>1, <1>5, <3>1
  <2>3. iter'[x].pos = r.pos[x]
    <3>1. iter[x] \in [ht : Tables \cup {Nobody, Poisoned}, pos : Nat, over : Vars \cup {Nobody}]
      BY DEF HashInv, Iterating
    <3> QED BY <1>1, <1>4, <1>5, <3>1
  <2>4. Alone(x) => Fine(w, x)
    <3> SUFFICES ASSUME Alone(x) PROVE Fine(w, x) OBVIOUS
    <3>1. Attached(t) = {x} BY <1>1, <1>5 DEF Alone, Attached
    <3>2. iter[x].pos <= table[s].nNumUsed /\ \A i \in Holes(table[s]) : i <= iter[x].pos
      BY DEF Alone
    <3> HIDE DEF w
    <3> QED BY <1>3, <2>1, <2>2, <3>1, <3>2 DEF Fine
  <2>5. x \in DOMAIN w.pos BY <1>1, <1>3, <1>5
  <2>6. Trails(w, r) OBVIOUS
  <2> HIDE DEF w
  <2>7. /\ KeepsBehind(table[s], iter[x].pos, table'[s], iter'[x].pos)
        /\ Alone(x) => KeepsAhead(table[s], iter[x].pos, table'[s], iter'[x].pos)
    BY <2>1, <2>2, <2>3, <2>4, <2>5, <2>6 DEF Trails
  <2> QED BY <2>7, FollowsWhen
<1>6. CASE s # t
  <2>1. table'[s] = table[s] BY <1>1, <1>2, <1>6
  <2>2. x \notin Attached(t) BY <1>6 DEF Attached
  <2>3. iter'[x].pos = iter[x].pos BY <1>4, <2>2
  <2> DEFINE h == table[s]
             p == iter[x].pos
  <2>4. KeepsBehind(h, p, h, p) /\ KeepsAhead(h, p, h, p) BY DEF KeepsBehind, KeepsAhead
  <2> QED BY <2>1, <2>3, <2>4, FollowsWhen
<1> QED BY <1>5, <1>6

\* $v[k] = ...
LEMMA SetFollowed ==
  ASSUME HashInv, NEW v \in Vars, NEW k \in Keys, Set(v, k), NEW x \in Slots, Stays(x)
  PROVE  Followed(x)
<1>1. PICK own \in Separated(v) :
         LET r == Add(With(own.table[own.vars[v]], own.vars[v]), k)
         IN table' = [own.table EXCEPT ![own.vars[v]] = r.h] /\ iter' = Positions(r)
  BY DEF Set, Write
<1> DEFINE w == With(own.table[own.vars[v]], own.vars[v])
           r == Add(w, k)
<1>2. Pair(w) /\ Sound(w.h) BY WithReady
<1>3. Known(w) BY SeparatedAlike
<1>4. DOMAIN w.pos = Attached(own.vars[v]) BY WithIs DEF HashInv
<1>5. Pair(r) /\ DOMAIN r.pos = DOMAIN w.pos /\ Trails(w, r)
  <2> HIDE DEF w
  <2>1. Stepped(w, r) BY <1>2, AddSteps
  <2> QED BY <1>2, <1>3, <2>1, AddTrails DEF Stepped
<1> HIDE DEF r
<1> QED BY <1>1, <1>4, <1>5, WriteFollowed DEF r

\* unset($v[k])
LEMMA UnsetFollowed ==
  ASSUME HashInv, NEW v \in Vars, NEW k \in Keys, Unset(v, k), NEW x \in Slots, Stays(x)
  PROVE  Followed(x)
<1>1. PICK own \in Separated(v) :
         LET r == Del(With(own.table[own.vars[v]], own.vars[v]), k)
         IN table' = [own.table EXCEPT ![own.vars[v]] = r.h] /\ iter' = Positions(r)
  BY DEF Unset, Write
<1> DEFINE w == With(own.table[own.vars[v]], own.vars[v])
           r == Del(w, k)
<1>2. Pair(w) /\ Sound(w.h) BY WithReady
<1>3. DOMAIN w.pos = Attached(own.vars[v]) BY WithIs DEF HashInv
<1>4. Pair(r) /\ DOMAIN r.pos = DOMAIN w.pos /\ Trails(w, r)
  <2> HIDE DEF w
  <2>1. Stepped(w, r) BY <1>2, DelSteps
  <2> QED BY <1>2, <2>1, DelTrails DEF Stepped
<1> HIDE DEF r
<1> QED BY <1>1, <1>3, <1>4, WriteFollowed DEF r

\* reset($v), end($v), next($v)
LEMMA PointerFollowed ==
  ASSUME HashInv, NEW v \in Vars, Rewind(v) \/ GoToEnd(v) \/ MoveForward(v),
         NEW x \in Slots, Stays(x)
  PROVE  Followed(x)
<1> DEFINE W(own) == With(own.table[own.vars[v]], own.vars[v])
           First(w) == [w EXCEPT !.h.nInternalPointer = ValidPos(w.h, 0)]
           End(w) == [w EXCEPT !.h.nInternalPointer =
               IF Indices(w.h) = {} THEN w.h.nNumUsed
               ELSE CHOOSE i \in Indices(w.h) : \A j \in Indices(w.h) : j <= i]
           Forth(w) == LET p == ValidPos(w.h, w.h.nInternalPointer)
                       IN [w EXCEPT !.h.nInternalPointer =
                              IF p < w.h.nNumUsed THEN ValidPos(w.h, p + 1) ELSE @]
<1>1. PICK own \in Separated(v) : \E r \in {First(W(own)), End(W(own)), Forth(W(own))} :
         table' = [own.table EXCEPT ![own.vars[v]] = r.h] /\ iter' = Positions(r)
  <2>1. CASE Rewind(v) BY <2>1 DEF Rewind, Write
  <2>2. CASE GoToEnd(v) BY <2>2 DEF GoToEnd, Write
  <2>3. CASE MoveForward(v) BY <2>3 DEF MoveForward, Write
  <2> QED BY <2>1, <2>2, <2>3
<1> DEFINE w == W(own)
<1>2. Pair(w) /\ Sound(w.h) BY WithReady
<1>3. DOMAIN w.pos = Attached(own.vars[v]) BY WithIs DEF HashInv
<1> HIDE DEF w
<1>4. \A r \in {First(w), End(w), Forth(w)} : Stepped(w, r) /\ Trails(w, r)
  <2>1. Stepped(w, First(w)) BY <1>2, RewindSteps
  <2>2. Stepped(w, End(w)) BY <1>2, GoToEndSteps
  <2>3. Stepped(w, Forth(w)) BY <1>2, MoveForwardSteps
  <2>4. Trails(w, First(w)) BY <1>2, PointerTrails
  <2>5. Trails(w, End(w)) BY <1>2, PointerTrails
  <2>6. Trails(w, Forth(w))
    <3> DEFINE p == ValidPos(w.h, w.h.nInternalPointer)
               q == IF p < w.h.nNumUsed THEN ValidPos(w.h, p + 1) ELSE w.h.nInternalPointer
    <3>1. Forth(w) = [w EXCEPT !.h.nInternalPointer = q] OBVIOUS
    <3> HIDE DEF q, Forth
    <3>2. Trails(w, [w EXCEPT !.h.nInternalPointer = q]) BY <1>2, PointerTrails
    <3> QED BY <3>1, <3>2
  <2> HIDE DEF First, End, Forth
  <2> QED BY <2>1, <2>2, <2>3, <2>4, <2>5, <2>6
<1> HIDE DEF First, End, Forth
<1>5. PICK r \in {First(w), End(w), Forth(w)} :
         table' = [own.table EXCEPT ![own.vars[v]] = r.h] /\ iter' = Positions(r)
  BY <1>1 DEF w
<1>6. Pair(r) /\ DOMAIN r.pos = DOMAIN w.pos /\ Trails(w, r) BY <1>4 DEF Stepped
<1> QED BY <1>3, <1>5, <1>6, WriteFollowed DEF w

\* Iterators are destroyed with their table; the others stay where they are.
LEMMA ReleaseFollowed ==
  ASSUME HashInv, NEW v \in Vars, NEW tb, tb = [s \in Tables |-> tb[s]],
         \A s \in Allocated(table) : tb[s] = table[s],
         table' = Released(tb, v), IteratorsRemove(v), NEW x \in Slots, Stays(x)
  PROVE  Followed(x)
<1>1. vars[v] \in Tables BY OwnedAre DEF HashInv
<1>2. table'[iter[x].ht] = table[iter[x].ht]
  <2>1. \A s \in Tables : table'[s] = tb[s] \/ table'[s] = Free BY <1>1 DEF Released
  <2> QED BY <2>1, StaysIs
<1>3. iter'[x].pos = iter[x].pos
  <2>1. iter[x] \in [ht : Tables \cup {Nobody, Poisoned}, pos : Nat, over : Vars \cup {Nobody}]
    BY DEF HashInv, Iterating
  <2> QED BY <2>1 DEF IteratorsRemove
<1> QED BY <1>2, <1>3, FollowsBuckets

\* $v = $u
LEMMA AssignFollowed ==
  ASSUME HashInv, NEW v \in Vars, NEW u \in Vars, Assign(v, u), NEW x \in Slots, Stays(x)
  PROVE  Followed(x)
<1>1. table = [s \in Tables |-> table[s]] BY DEF HashInv, Owned
<1>2. table' = Released(table, v) /\ IteratorsRemove(v) BY DEF Assign
<1> QED BY <1>1, <1>2, ReleaseFollowed

\* $v = []
LEMMA ClearFollowed ==
  ASSUME HashInv, NEW v \in Vars, Clear(v), NEW x \in Slots, Stays(x)
  PROVE  Followed(x)
<1>1. PICK n \in Tables : table[n] = Free /\ table' = Released([table EXCEPT ![n] = Empty(0)], v)
  BY DEF Clear
<1> DEFINE g == Empty(0)
           tb == [table EXCEPT ![n] = g]
<1> HIDE DEF g
<1>2. table = [s \in Tables |-> table[s]] BY DEF HashInv, Owned
<1>3. tb = [s \in Tables |-> tb[s]] /\ \A s \in Allocated(table) : tb[s] = table[s]
  BY <1>1, <1>2 DEF Allocated
<1>4. IteratorsRemove(v) BY DEF Clear
<1>5. table' = Released(tb, v) BY <1>1 DEF g
<1> HIDE DEF tb
<1> QED BY <1>3, <1>4, <1>5, ReleaseFollowed

\* The iterators' number changes, the buckets do not.
LEMMA CountAlike ==
  ASSUME NEW h, Sound(h)
  PROVE  /\ \A n : LET g == [h EXCEPT !.nIteratorsCount = n]
                   IN g.at = h.at /\ g.nNumUsed = h.nNumUsed
         /\ Inc(h).at = h.at /\ Inc(h).nNumUsed = h.nNumUsed
         /\ Dec(h).at = h.at /\ Dec(h).nNumUsed = h.nNumUsed
BY DEF Sound, Core, Fields, Inc, Dec

\* FE_RESET_RW
LEMMA IteratorAddFollowed ==
  ASSUME HashInv, NEW v \in Vars, IteratorAdd(v), NEW x \in Slots, Stays(x)
  PROVE  Followed(x)
<1> DEFINE n == Least({y \in Slots : iter[y].ht = Nobody})
<1>1. PICK own \in Separated(v) :
         /\ table' = [own.table EXCEPT ![own.vars[v]] = Inc(@)]
         /\ iter' = [iter EXCEPT ![n] = [ht |-> own.vars[v], pos |-> 0, over |-> v]]
  BY DEF IteratorAdd
<1> DEFINE t == own.vars[v]
           e == [ht |-> t, pos |-> 0, over |-> v]
<1>2. n \in Slots /\ iter[n].ht = Nobody
  <2> DEFINE S == {y \in Slots : iter[y].ht = Nobody}
  <2>1. S # {} BY DEF IteratorAdd
  <2>2. \A y \in S : y \in Nat BY SlotsAre
  <2> HIDE DEF S
  <2>3. n \in S BY <2>1, <2>2, LeastIs DEF S
  <2> QED BY <2>3 DEF S
<1> HIDE DEF n
<1>3. n # x BY <1>2, StaysIs
<1>4. iter = [y \in Slots |-> iter[y]] BY DEF HashInv, Iterating
<1>5. iter'[x] = iter[x]
  <2>1. iter' = [iter EXCEPT ![n] = e] BY <1>1
  <2> HIDE DEF e
  <2> QED BY <1>3, <1>4, <2>1
<1>6. Alike(table, table')
  <2>1. /\ t \in Tables /\ Sound(own.table[t]) /\ own.table = [s \in Tables |-> own.table[s]]
    BY SeparatedIs DEF Separate, Owned, Allocated
  <2> DEFINE g == Inc(own.table[t])
  <2>2. g.at = own.table[t].at /\ g.nNumUsed = own.table[t].nNumUsed BY <2>1, CountAlike
  <2> HIDE DEF g
  <2>3. table' = [own.table EXCEPT ![t] = g] BY <1>1 DEF g
  <2> HIDE DEF t
  <2>4. ASSUME NEW s \in Allocated(table)
        PROVE  table'[s].at = own.table[s].at /\ table'[s].nNumUsed = own.table[s].nNumUsed
    <3>1. CASE s = t
      <4>1. table'[s] = g /\ own.table[s] = own.table[t] BY <2>1, <2>3, <3>1
      <4> QED BY <2>2, <4>1
    <3>2. CASE s # t
      <4>1. table'[s] = own.table[s] BY <2>1, <2>3, <3>2 DEF Allocated
      <4> QED BY <4>1
    <3> QED BY <3>1, <3>2
  <2> QED BY <2>4, SeparatedAlike DEF Alike
<1> QED BY <1>5, <1>6, FollowsAlike

\* zend_hash_iterator_pos_ex changes the tables' numbers of iterators.
LEMMA ReattachedAlike ==
  ASSUME HashInv, NEW x \in Slots, iter[x].ht # Nobody, NEW r \in Reattached(x, iter[x].over)
  PROVE  Alike(table, r.table)
<1> DEFINE v == iter[x].over
           s == vars[v]
           old == iter[x].ht
           left == IF old \in Tables /\ table[s].nIteratorsCount # Saturated
                   THEN [table EXCEPT ![old].nIteratorsCount = @ - 1] ELSE table
<1>1. /\ Owned(table, vars) /\ Counted(table, iter) /\ v \in Vars
      /\ table = [n \in Tables |-> table[n]]
  BY DEF HashInv, Iterating, Owned
<1>2. s \in Tables /\ s \in Allocated(table) /\ Sound(table[s]) BY <1>1, OwnedAre
<1>3. /\ \A n \in Tables : n # old => left[n] = table[n]
      /\ \A n \in Allocated(table) : /\ left[n].at = table[n].at
                                     /\ left[n].nNumUsed = table[n].nNumUsed
      /\ left = [n \in Tables |-> left[n]]
  <2>1. CASE left = table BY <1>1, <2>1
  <2>2. CASE old \in Tables /\ left = [table EXCEPT ![old].nIteratorsCount = @ - 1]
    <3>1. old \in Allocated(table) BY <1>1, <2>2 DEF Counted
    <3>2. Sound(table[old]) BY <1>1, <3>1, OwnedAre
    <3> DEFINE g == [table[old] EXCEPT !.nIteratorsCount = @ - 1]
    <3>3. g.at = table[old].at /\ g.nNumUsed = table[old].nNumUsed BY <3>2, CountAlike
    <3> HIDE DEF left
    <3>4. left = [table EXCEPT ![old] = g] BY <2>2
    <3> HIDE DEF g
    <3> QED BY <1>1, <2>2, <3>3, <3>4 DEF Allocated
  <2> QED BY <2>1, <2>2
<1>4. CASE old = s
  <2>1. r = [table |-> table, vars |-> vars, pos |-> iter[x].pos] BY <1>4 DEF Reattached
  <2> QED BY <2>1 DEF Alike
<1>5. CASE old # s /\ ~Shared(v)
  <2>1. r = [table |-> [left EXCEPT ![s] = Inc(@)], vars |-> vars,
             pos |-> ValidPos(table[s], table[s].nInternalPointer)]
    BY <1>5 DEF Reattached
  <2> HIDE DEF left
  <2> DEFINE g == Inc(left[s])
  <2>2. r.table = [left EXCEPT ![s] = g] BY <2>1
  <2>3. g.at = table[s].at /\ g.nNumUsed = table[s].nNumUsed BY <1>2, <1>3, <1>5, CountAlike
  <2> HIDE DEF g
  <2>4. r.table[s] = g /\ \A n \in Tables : n # s => r.table[n] = left[n] BY <1>2, <1>3, <2>2
  <2>5. ASSUME NEW n \in Allocated(table)
        PROVE  r.table[n].at = table[n].at /\ r.table[n].nNumUsed = table[n].nNumUsed
    <3>1. n \in Tables BY DEF Allocated
    <3>2. CASE n = s BY <2>3, <2>4, <3>2
    <3>3. CASE n # s BY <1>3, <2>4, <3>1, <3>3
    <3> QED BY <3>2, <3>3
  <2> QED BY <2>5 DEF Alike
<1>6. CASE old # s /\ Shared(v)
  <2>1. PICK m \in {m \in Tables : table[m] = Free} :
           r = [table |-> [left EXCEPT ![m] = Inc(Dup(left[s]))],
                vars |-> [vars EXCEPT ![v] = m],
                pos |-> ValidPos(Dup(table[s]), Dup(table[s]).nInternalPointer)]
    BY <1>6 DEF Reattached
  <2> HIDE DEF left
  <2> DEFINE g == Inc(Dup(left[s]))
  <2>2. r.table = [left EXCEPT ![m] = g] BY <2>1
  <2> HIDE DEF g
  <2>3. ASSUME NEW n \in Allocated(table)
        PROVE  r.table[n] = left[n]
    BY <1>3, <2>2 DEF Allocated
  <2> QED BY <1>3, <2>3 DEF Alike
<1> QED BY <1>4, <1>5, <1>6

\* So does zend_hash_iterator_del.
LEMMA DeletedAlike ==
  ASSUME NEW tb, NEW ub, Alike(tb, ub),
         ub = [s \in Tables |-> ub[s]], NEW t, t \in Tables => Sound(ub[t])
  PROVE  Alike(tb, Deleted(ub, t))
<1>1. CASE t \notin Tables BY <1>1 DEF Deleted
<1>2. CASE t \in Tables
  <2> DEFINE g == Dec(ub[t])
  <2>1. g.at = ub[t].at /\ g.nNumUsed = ub[t].nNumUsed BY <1>2, CountAlike
  <2>2. Deleted(ub, t) = [ub EXCEPT ![t] = g] BY <1>2 DEF Deleted
  <2> HIDE DEF g
  <2>3. ASSUME NEW s \in Allocated(tb)
        PROVE  /\ Deleted(ub, t)[s].at = ub[s].at
               /\ Deleted(ub, t)[s].nNumUsed = ub[s].nNumUsed
    <3>1. s \in Tables BY DEF Allocated
    <3>2. CASE s = t
      <4>1. Deleted(ub, t)[s] = g BY <1>2, <2>2, <3>1, <3>2
      <4> QED BY <2>1, <3>2, <4>1
    <3>3. CASE s # t
      <4>1. Deleted(ub, t)[s] = ub[s] BY <1>2, <2>2, <3>1, <3>3
      <4> QED BY <4>1
    <3> QED BY <3>2, <3>3
  <2> QED BY <2>3 DEF Alike
<1> QED BY <1>1, <1>2

\* FE_FREE of another loop
LEMMA FeFreeFollowed ==
  ASSUME HashInv, NEW y \in Slots, FeFree(y), NEW x \in Slots, Stays(x)
  PROVE  Followed(x)
<1>1. /\ iter[y].ht # Nobody /\ table' = Deleted(table, iter[y].ht)
      /\ iter' = [iter EXCEPT ![y] = NoIterator]
  BY DEF FeFree
<1>2. Owned(table, vars) /\ Counted(table, iter) /\ iter = [n \in Slots |-> iter[n]]
  BY DEF HashInv, Iterating
<1>3. x # y
  <2>1. iter'[y].ht = Nobody BY <1>1, <1>2 DEF NoIterator
  <2> QED BY <2>1, StaysIs
<1>4. iter'[x].pos = iter[x].pos BY <1>1, <1>2, <1>3
<1>5. Alike(table, table')
  <2> DEFINE t == iter[y].ht
  <2>1. t \in Tables => Sound(table[t]) BY <1>2, OwnedAre DEF Counted
  <2>2. Alike(table, table) BY DEF Alike
  <2>3. table = [s \in Tables |-> table[s]] BY <1>2 DEF Owned
  <2> HIDE DEF t
  <2>4. Alike(table, Deleted(table, t)) BY <2>1, <2>2, <2>3, DeletedAlike
  <2> QED BY <1>1, <2>4 DEF t
<1> QED BY <1>4, <1>5, FollowsAlike

\* FE_FETCH_RW of another loop
LEMMA FetchFollowed ==
  ASSUME Iterators < Saturated, HashInv, NEW y \in Slots, Fetch(y), NEW x \in Slots, Stays(x)
  PROVE  Followed(x)
<1> DEFINE v == iter[y].over
<1>1. PICK r \in Reattached(y, v) :
        LET t == r.vars[v]
            pos == ValidPos(r.table[t], r.pos)
            done == [iter EXCEPT ![y] = NoIterator]
        IN \/ table' = r.table /\ iter' = [iter EXCEPT ![y].ht = t, ![y].pos = pos + 1]
           \/ table' = Deleted(r.table, t) /\ iter' = done
  BY DEF Fetch
<1> DEFINE t == r.vars[v]
           mid == [iter EXCEPT ![y].ht = t]
<1>2. x # y BY DEF Stays
<1>3. iter[y].ht # Nobody BY DEF Fetch
<1>4. iter = [n \in Slots |-> iter[n]] /\ iter[y] \in [ht : Tables \cup {Nobody, Poisoned},
                                                       pos : Nat, over : Vars \cup {Nobody}]
  BY DEF HashInv, Iterating
<1>5. iter'[x] = iter[x]
  <2> HIDE DEF t
  <2> QED BY <1>1, <1>2, <1>4 DEF t
<1>6. Alike(table, r.table) BY <1>3, ReattachedAlike
<1>7. t \in Allocated(r.table) /\ Owned(r.table, r.vars)
  <2> HIDE DEF t
  <2>1. Moved(iter, mid, y, iter[y].ht, t) BY <1>4 DEF Moved
  <2> HIDE DEF mid
  <2> QED BY <1>3, <2>1, ReattachedIs DEF t
<1>8. Alike(table, table')
  <2>1. CASE table' = r.table BY <1>6, <2>1
  <2>2. CASE table' = Deleted(r.table, t)
    <3>1. Sound(r.table[t]) /\ r.table = [s \in Tables |-> r.table[s]] BY <1>7 DEF Owned
    <3> HIDE DEF t
    <3> QED BY <1>6, <2>2, <3>1, DeletedAlike
  <2> QED BY <1>1, <2>1, <2>2
<1> QED BY <1>5, <1>8, FollowsAlike

\* Every step makes the iterators that stay follow.
LEMMA NextFollowed ==
  ASSUME Iterators < Saturated, HashInv, Next, NEW x \in Slots, Stays(x)
  PROVE  Followed(x)
<1>1. CASE \E v \in Vars : \E k \in Keys : Set(v, k) BY <1>1, SetFollowed
<1>2. CASE \E v \in Vars : \E k \in Keys : Unset(v, k) BY <1>2, UnsetFollowed
<1>3. CASE \E v \in Vars : Push(v)
  <2>1. PICK v \in Vars : Push(v) BY <1>3
  <2> DEFINE k == table[vars[v]].nNextFreeElement
  <2>2. k \in Keys /\ Set(v, k) BY <2>1 DEF Push, Keys, Set
  <2> HIDE DEF k
  <2> QED BY <2>2, SetFollowed
<1>4. CASE \E v \in Vars : Rewind(v) \/ GoToEnd(v) \/ MoveForward(v) BY <1>4, PointerFollowed
<1>5. CASE \E v \in Vars : \E u \in Vars : Assign(v, u) BY <1>5, AssignFollowed
<1>6. CASE \E v \in Vars : Clear(v) BY <1>6, ClearFollowed
<1>7. CASE \E v \in Vars : IteratorAdd(v) BY <1>7, IteratorAddFollowed
<1>8. CASE \E y \in Slots : Fetch(y) BY <1>8, FetchFollowed
<1>9. CASE \E y \in Slots : FeFree(y) BY <1>9, FeFreeFollowed
<1> QED BY <1>1, <1>2, <1>3, <1>4, <1>5, <1>6, <1>7, <1>8, <1>9 DEF Next

-----------------------------------------------------------------------------
(* The theorems                                                            *)
\* The program starts with sound tables of its literals.
LEMMA InitIs == Init => HashInv /\ Abstract!Init
<1> SUFFICES ASSUME Init PROVE HashInv /\ Abstract!Init OBVIOUS
<1>1. /\ vars \in [Vars -> Tables] /\ \A v, x \in Vars : vars[v] = vars[x] => v = x
      /\ iter = [x \in Slots |-> NoIterator] /\ used = 0 /\ writes = 0
  BY DEF Init
<1>2. PICK literal \in [Vars -> Literals] :
        table = [t \in Tables |->
            IF \E v \in Vars : vars[v] = t
            THEN LET a == literal[CHOOSE v \in Vars : vars[v] = t] IN Literal(a[1], a[2])
            ELSE Free]
  BY DEF Init
<1> DEFINE L(v) == Literal(literal[v][1], literal[v][2])
<1>3. ASSUME NEW v \in Vars PROVE table[vars[v]] = L(v)
  <2>1. vars[v] \in Tables /\ \E u \in Vars : vars[u] = vars[v] BY <1>1
  <2>2. (CHOOSE u \in Vars : vars[u] = vars[v]) = v BY <1>1
  <2> QED BY <1>2, <2>1, <2>2
<1>4. \A t \in Tables : (~ \E v \in Vars : vars[v] = t) => table[t] = Free BY <1>2
<1>5. table = [t \in Tables |-> table[t]] BY <1>2
<1>6. ASSUME NEW v \in Vars
      PROVE  Sound(L(v)) /\ L(v).nIteratorsCount = 0 /\ Value(L(v)).late = FALSE
  <2> DEFINE a == literal[v]
  <2>1. /\ a[1] \in Nat /\ a[2] \in Nat /\ a[2] <= a[1] /\ 0 .. a[1] - 1 \subseteq Ints
    BY SizesAssumption
  <2> DEFINE n == a[1]
             p == a[2]
  <2>2. n \in Nat /\ p \in 0 .. n /\ 0 .. n - 1 \subseteq Ints BY <2>1
  <2> HIDE DEF n, p
  <2>3. /\ Sound(Literal(n, p)) /\ Literal(n, p).nIteratorsCount = 0
        /\ Value(Literal(n, p)).late = FALSE
    BY <2>2, LiteralIs
  <2> QED BY <2>3 DEF n, p
<1> HIDE DEF L
<1>7. Allocated(table) = {vars[v] : v \in Vars}
  <2>1. \A v \in Vars : vars[v] \in Allocated(table)
    BY <1>1, <1>3, <1>6, NotFree DEF Allocated
  <2>2. \A t \in Allocated(table) : \E v \in Vars : vars[v] = t BY <1>4 DEF Allocated
  <2> QED BY <2>1, <2>2
<1>8. ASSUME NEW t \in Allocated(table)
      PROVE  Sound(table[t]) /\ table[t].nIteratorsCount = 0
  BY <1>3, <1>6, <1>7
<1>9. Owned(table, vars) BY <1>1, <1>5, <1>7, <1>8 DEF Owned
<1>10. \A x \in Slots : iter[x].ht = Nobody BY <1>1 DEF NoIterator
<1>11. Counted(table, iter)
  <2>1. ASSUME NEW t \in Allocated(table) PROVE Cardinality(SlotsOf(iter, t)) = 0
    <3>1. SlotsOf(iter, t) = {} BY <1>10, TablesAssumption DEF SlotsOf, Allocated
    <3> QED BY <3>1, FS_EmptySet
  <2>2. Nobody \notin Tables BY TablesAssumption
  <2> QED BY <1>8, <1>10, <2>1, <2>2 DEF Counted
<1>12. Iterating(iter, used)
  <2>1. NoIterator \in [ht : Tables \cup {Nobody, Poisoned}, pos : Nat,
                        over : Vars \cup {Nobody}]
    BY DEF NoIterator
  <2> QED BY <1>1, <1>10, <2>1, SizesAssumption DEF Iterating
<1>13. writes \in 0 .. Writes BY <1>1, SizesAssumption
<1>14. HashInv BY <1>9, <1>11, <1>12, <1>13 DEF HashInv
<1>15. Abstract!Init
  <2> DEFINE A == [v \in Vars |-> Value(table[vars[v]])]
  <2>1. ASSUME NEW v \in Vars
        PROVE  /\ A[v] \in [keys : Seq(Keys), current : Nat, late : {FALSE}]
               /\ Abstract!IsInjective(A[v].keys) /\ A[v].current <= Len(A[v].keys)
    <3> DEFINE h == table[vars[v]]
               a == Value(h)
    <3>1. Core(h) /\ a.late = FALSE BY <1>3, <1>6 DEF Sound
    <3> HIDE DEF h
    <3>2. /\ a.late = (h.nInternalPointer \in Holes(h) \ {0})
          /\ a.keys \in Seq(Keys) /\ Len(a.keys) = h.nNumOfElements /\ h.nNumOfElements \in Nat
          /\ a.current \in 0 .. h.nNumOfElements
          /\ \A m, n \in 1 .. h.nNumOfElements : a.keys[m] = a.keys[n] => m = n
      BY <3>1, ValueIs
    <3>7. h.nInternalPointer \notin Holes(h) \ {0} BY <3>1, <3>2
    <3>8. a = [keys |-> a.keys, current |-> a.current, late |-> FALSE] BY <3>7, ValueNotLate
    <3> HIDE DEF a
    <3>3. a \in [keys : Seq(Keys), current : Nat, late : {FALSE}]
      <4> DEFINE no == FALSE
      <4>1. a = [keys |-> a.keys, current |-> a.current, late |-> no] BY <3>8
      <4>2. a.keys \in Seq(Keys) /\ a.current \in Nat BY <3>2
      <4> HIDE DEF no
      <4>3. a \in [keys : Seq(Keys), current : Nat, late : {no}] BY <4>1, <4>2
      <4> QED BY <4>3 DEF no
    <3>4. Abstract!IsInjective(a.keys)
      <4>1. DOMAIN a.keys = 1 .. h.nNumOfElements BY <3>2
      <4> QED BY <3>2, <4>1 DEF Abstract!IsInjective
    <3>5. A[v] = a BY DEF a, h
    <3>6. a.current <= Len(a.keys) BY <3>2
    <3> HIDE DEF A
    <3> QED BY <3>3, <3>4, <3>5, <3>6
  <2> QED BY <2>1 DEF Abstract!Init
<1> QED BY <1>14, <1>15

\* Every step keeps the invariant and is a step of the abstract program.
LEMMA NextSteps ==
  ASSUME Iterators < Saturated, HashInv, Next
  PROVE  HashInv' /\ Abstract!Next
<1>1. CASE \E v \in Vars : \E k \in Keys : Set(v, k) BY <1>1, SetSteps
<1>2. CASE \E v \in Vars : \E k \in Keys : Unset(v, k) BY <1>2, UnsetSteps
<1>3. CASE \E v \in Vars : Push(v) BY <1>3, PushSteps
<1>4. CASE \E v \in Vars : Rewind(v) \/ GoToEnd(v) \/ MoveForward(v) BY <1>4, PointerMoves
<1>5. CASE \E v \in Vars : \E x \in Vars : Assign(v, x) BY <1>5, AssignSteps
<1>6. CASE \E v \in Vars : Clear(v) BY <1>6, ClearSteps
<1>7. CASE \E v \in Vars : IteratorAdd(v) BY <1>7, IteratorAddSteps
<1>8. CASE \E x \in Slots : Fetch(x) BY <1>8, FetchSteps
<1>9. CASE \E x \in Slots : FeFree(x) BY <1>9, FeFreeSteps
<1> QED BY <1>1, <1>2, <1>3, <1>4, <1>5, <1>6, <1>7, <1>8, <1>9 DEF Next

\* What leaves the state alone does, too.
LEMMA StutteringKeeps ==
  ASSUME HashInv, UNCHANGED allvars
  PROVE  HashInv' /\ UNCHANGED [v \in Vars |-> Value(table[vars[v]])]
<1>1. table' = table /\ vars' = vars /\ iter' = iter /\ used' = used /\ writes' = writes
  BY DEF allvars
<1>2. HashInv' BY <1>1 DEF HashInv
<1> QED BY <1>1, <1>2

\* The invariant holds in every state.
LEMMA Inductive ==
  ASSUME Iterators < Saturated
  PROVE  Spec => []HashInv
<1>1. Init => HashInv BY InitIs
<1>2. HashInv /\ [Next]_allvars => HashInv' BY NextSteps, StutteringKeeps
<1> QED BY <1>1, <1>2, PTL DEF Spec

\* What the invariant says of types ...
LEMMA HashInvIsTypeOK ==
  ASSUME Iterators < Saturated, HashInv
  PROVE  TypeOK
<1>1. Owned(table, vars) /\ Counted(table, iter) /\ Iterating(iter, used) /\ writes \in 0 .. Writes
  BY DEF HashInv
<1>2. Live = Allocated(table) BY DEF Live, Allocated
<1>3. ASSUME NEW t \in Tables, table[t] # Free PROVE IsTable(table[t])
  <2> DEFINE h == table[t]
  <2>1. t \in Allocated(table) BY <1>3 DEF Allocated
  <2>2. Core(h) BY <1>1, <2>1, OwnedAre DEF Sound
  <2>3. h.nIteratorsCount \in 0 .. Saturated
    <3>1. h.nIteratorsCount = Cardinality(SlotsOf(iter, t)) BY <1>1, <2>1 DEF Counted
    <3>2. Cardinality(SlotsOf(iter, t)) \in Nat /\ Cardinality(SlotsOf(iter, t)) <= Iterators
      BY SlotsOfAre
    <3>3. Iterators \in Nat /\ Saturated \in Nat BY SizesAssumption
    <3> QED BY <3>1, <3>2, <3>3
  <2> HIDE DEF h
  <2>4. /\ h.nNumOfElements <= h.nNumUsed /\ h.nNumOfElements \in Nat
        /\ h.nNumUsed \in Nat /\ h.nTableSize \in Nat \ {0}
    BY <2>2, IndicesAre
  <2>5. /\ h.nNumUsed <= h.nTableSize /\ h.kind \in {"uninit", "packed", "hash"}
        /\ h.nNextFreeElement \in Nat /\ h.nInternalPointer \in Nat
        /\ h.at \in [0 .. h.nNumUsed - 1 -> Keys \cup {Hole}]
    BY <2>2 DEF Core, Fields
  <2>6. IsTable(h) BY <2>3, <2>4, <2>5 DEF IsTable
  <2> QED BY <2>6 DEF h
<1>4. \A x \in Slots : /\ iter[x].ht \in Tables \cup {Nobody, Poisoned}
                       /\ iter[x].pos \in Nat
                       /\ iter[x].over \in Vars \cup {Nobody}
  BY <1>1 DEF Iterating
<1>5. used \in 0 .. Iterators BY <1>1 DEF Iterating
<1>6. vars \in [Vars -> Tables] /\ Live = {vars[v] : v \in Vars} BY <1>1, <1>2 DEF Owned
<1> QED BY <1>1, <1>3, <1>4, <1>5, <1>6 DEF TypeOK

\* ... and of tables and iterators.
LEMMA HashInvIsTablesSound ==
  ASSUME HashInv
  PROVE  TablesSound
<1>1. Owned(table, vars) /\ Counted(table, iter) /\ Iterating(iter, used) BY DEF HashInv
<1>2. Live = Allocated(table) BY DEF Live, Allocated
<1>3. ASSUME NEW t \in Live
      PROVE  LET h == table[t]
             IN /\ h.kind = "hash" => h.chain = Rechained(h).chain
                /\ \A i, j \in Indices(h) : h.at[i] = h.at[j] => i = j
                /\ h.kind = "packed" => \A i \in Indices(h) : h.at[i] = i
                /\ h.nNumOfElements = Cardinality(Indices(h))
                /\ \A k \in Elements(h) \cap Ints : k < h.nNextFreeElement
                /\ h.nNumUsed > 0 => h.nNumUsed - 1 \in Indices(h)
  <2> DEFINE h == table[t]
  <2>1. Sound(h) BY <1>1, <1>2, OwnedAre
  <2> HIDE DEF h
  <2>2. Core(h) /\ Form(h) /\ Fields(h) BY <2>1 DEF Sound, Core
  <2>3. h.kind = "hash" => h.chain = Rechained(h).chain
    <3>1. Rechained(h).chain = Chains(h) BY <2>2 DEF Rechained, Reset, Chains, Fields
    <3> QED BY <2>2, <3>1 DEF Form
  <2>4. \A k \in Elements(h) \cap Ints : k < h.nNextFreeElement
    BY <2>2 DEF Core, Elements
  <2>5. h.nNumUsed > 0 => h.nNumUsed - 1 \in Indices(h) BY <2>2, IndicesAre
  <2>6. /\ \A i, j \in Indices(h) : h.at[i] = h.at[j] => i = j
        /\ h.kind = "packed" => \A i \in Indices(h) : h.at[i] = i
        /\ h.nNumOfElements = Cardinality(Indices(h))
    BY <2>2 DEF Core, Form
  <2> QED BY <2>3, <2>4, <2>5, <2>6 DEF h
<1>4. TablesExact BY <1>3 DEF TablesExact
<1>5. CountCovers
  <2>1. \A x \in Slots : iter[x].ht # Nobody => x < used BY <1>1 DEF Iterating
  <2>2. \A x \in Slots : iter[x].ht \in Tables => iter[x].ht \in Live BY <1>1, <1>2 DEF Counted
  <2>3. \A t \in Live : table[t].nIteratorsCount = Cardinality({x \in Slots : iter[x].ht = t})
    BY <1>1, <1>2 DEF Counted, SlotsOf
  <2> QED BY <2>1, <2>2, <2>3 DEF CountCovers
<1> QED BY <1>4, <1>5 DEF TablesSound

\* Every variable keeps its type, no bucket is used beyond a table's size, and
\* exactly the tables that a variable holds are allocated, whatever the keys, their
\* hash values, the sizes and the numbers of tables, variables and loops: as long as
\* there are fewer loops than an iterator count can count.
THEOREM TypeCorrect ==
  ASSUME Iterators < Saturated
  PROVE  Spec => []TypeOK
BY Inductive, HashInvIsTypeOK, PTL

\* TablesSound holds in every state: insertion, deletion, growth, compaction,
\* conversion and copying, in any order and number, leave every chain, key, count
\* and next free element exact, and nIteratorsCount counts the entries of
\* EG(ht_iterators) that point to the table, none of which points to a destroyed one.
THEOREM TablesAreSound ==
  ASSUME Iterators < Saturated
  PROVE  Spec => []TablesSound
BY Inductive, HashInvIsTablesSound, PTL

\* ImplementsArrays: hash tables that variables share, separate, compact and convert
\* are ordered maps of their own to the program, each with its current element.
THEOREM ArraysRefine ==
  ASSUME Iterators < Saturated
  PROVE  Spec => ImplementsArrays
<1>1. Init => Abstract!Init BY InitIs
<1>2. HashInv /\ [Next]_allvars => [Abstract!Next]_([v \in Vars |-> Value(table[vars[v]])])
  BY NextSteps, StutteringKeeps
<1>3. Spec => Abstract!Spec BY <1>1, <1>2, Inductive, PTL DEF Spec, Abstract!Spec
<1> QED BY <1>3 DEF ImplementsArrays

\* IteratorsFollow: what a loop has passed is never ahead of it again, and the only
\* loop on a table misses nothing from its first hole on, whatever is inserted,
\* deleted, grown, compacted, converted, shared and copied meanwhile.
THEOREM LoopsFollow ==
  ASSUME Iterators < Saturated
  PROVE  Spec => IteratorsFollow
<1>1. HashInv /\ [Next]_allvars => [\A x \in Slots : Stays(x) => Followed(x)]_allvars
  BY NextFollowed
<1>2. Spec => [][\A x \in Slots : Stays(x) => Followed(x)]_allvars
  BY <1>1, Inductive, PTL DEF Spec
<1> QED BY <1>2 DEF IteratorsFollow, Followed
=============================================================================
