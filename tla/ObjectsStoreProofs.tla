------------------------- MODULE ObjectsStoreProofs -------------------------
(***************************************************************************)
(* Proofs about ObjectsStore, for any finite set of objects, any number of  *)
(* symbols and any size of the table of handles: handles and reference      *)
(* counts stay exact, destructors run once and none is missed.              *)
(*                                                                          *)
(* First come facts about stacks of calls, the table of handles and the     *)
(* holders of an object, then a lemma for each action: each shows the parts *)
(* of the invariant that the action can disturb and takes the others over.  *)
(***************************************************************************)
EXTENDS ObjectsStore, FiniteSetTheorems, SequenceTheorems, WellFoundedInduction, TLAPS
-----------------------------------------------------------------------------
(* Numbers, sets and sequences                                             *)

\* A non-empty set of natural numbers has a least element.
LEMMA NatMin ==
  ASSUME NEW T \in SUBSET Nat, T # {}
  PROVE  \E x \in T : \A y \in T : x <= y
<1> DEFINE R == OpToRel(<, Nat)
<1>1. IsWellFoundedOn(R, Nat) BY NatLessThanWellFounded
<1>2. \A x, y \in T : y < x => <<y, x>> \in R BY DEF OpToRel
<1> HIDE DEF R
<1>3. PICK x \in T : \A y \in T : ~(<<y, x>> \in R) BY <1>1, WFMin
<1>4. ASSUME NEW y \in T PROVE x <= y
  <2>1. ~(y < x) BY <1>2, <1>3
  <2> QED BY <2>1
<1> QED BY <1>4

\* How many elements 1..n has.
LEMMA IntervalFrom1 ==
  ASSUME NEW n \in Int
  PROVE  IsFiniteSet(1 .. n) /\ Cardinality(1 .. n) = IF 1 > n THEN 0 ELSE n
<1>1. /\ IsFiniteSet(1 .. n)
      /\ Cardinality(1 .. n) = IF 1 > n THEN 0 ELSE n - 1 + 1
  BY FS_Interval
<1>2. n - 1 + 1 = n OBVIOUS
<1> QED BY <1>1, <1>2
-----------------------------------------------------------------------------
(* Stacks of calls, the innermost first.                                    *)

LEMMA ConsSeq ==
  ASSUME NEW S, NEW f \in S, NEW s \in Seq(S)
  PROVE  /\ <<f>> \o s \in Seq(S) /\ <<f>> \o s # <<>>
         /\ Len(<<f>> \o s) = Len(s) + 1
         /\ (<<f>> \o s)[1] = f
         /\ \A i \in DOMAIN s : (<<f>> \o s)[i + 1] = s[i]
         /\ \A i \in DOMAIN (<<f>> \o s) : i # 1 => i - 1 \in DOMAIN s /\ (<<f>> \o s)[i] = s[i - 1]
         /\ DOMAIN (<<f>> \o s) = 1 .. (Len(s) + 1) /\ DOMAIN s = 1 .. Len(s) /\ Len(s) \in Nat
<1>1. /\ <<f>> \in Seq(S) /\ Len(<<f>>) = 1 /\ <<f>>[1] = f OBVIOUS
<1> DEFINE e == <<f>>
<1> HIDE DEF e
<1>2. e \in Seq(S) /\ Len(e) = 1 /\ e[1] = f BY <1>1 DEF e
<1>3. /\ e \o s \in Seq(S) /\ Len(e \o s) = Len(e) + Len(s)
      /\ \A i \in 1 .. Len(e) + Len(s) :
            (e \o s)[i] = IF i <= Len(e) THEN e[i] ELSE s[i - Len(e)]
  BY <1>2, ConcatProperties
<1>4. /\ Len(s) \in Nat /\ DOMAIN s = 1 .. Len(s) /\ DOMAIN (e \o s) = 1 .. (Len(s) + 1)
      /\ Len(e \o s) = Len(s) + 1
  BY <1>2, <1>3, LenProperties
<1>5. (e \o s)[1] = f BY <1>2, <1>3, <1>4
<1>6. \A i \in DOMAIN s : (e \o s)[i + 1] = s[i]
  <2> TAKE i \in DOMAIN s
  <2>1. i + 1 \in 1 .. Len(e) + Len(s) /\ ~(i + 1 <= Len(e)) /\ (i + 1) - Len(e) = i BY <1>2, <1>4
  <2> QED BY <1>3, <2>1
<1>7. \A i \in DOMAIN (e \o s) : i # 1 => i - 1 \in DOMAIN s /\ (e \o s)[i] = s[i - 1]
  <2> TAKE i \in DOMAIN (e \o s)
  <2> HAVE i # 1
  <2>1. i - 1 \in DOMAIN s /\ (i - 1) + 1 = i BY <1>4
  <2> QED BY <1>6, <2>1
<1>8. e \o s # <<>> BY <1>3, <1>4, EmptySeq
<1> QED BY <1>3, <1>4, <1>5, <1>6, <1>7, <1>8 DEF e

LEMMA TailSeq ==
  ASSUME NEW S, NEW s \in Seq(S), s # <<>>
  PROVE  /\ Tail(s) \in Seq(S) /\ Head(s) = s[1] /\ Head(s) \in S
         /\ Len(s) \in Nat \ {0} /\ Len(Tail(s)) = Len(s) - 1 /\ DOMAIN s = 1 .. Len(s)
         /\ DOMAIN Tail(s) = 1 .. (Len(s) - 1)
         /\ \A i \in DOMAIN Tail(s) : i + 1 \in DOMAIN s /\ i + 1 # 1 /\ Tail(s)[i] = s[i + 1]
         /\ Len(s) = 1 <=> Tail(s) = <<>>
<1>1. /\ Head(s) = s[1] /\ Head(s) \in S /\ Tail(s) \in Seq(S)
      /\ Len(Tail(s)) = Len(s) - 1 /\ \A i \in 1 .. Len(Tail(s)) : Tail(s)[i] = s[i + 1]
  BY HeadTailProperties
<1>2. /\ Len(s) \in Nat \ {0} /\ DOMAIN s = 1 .. Len(s) /\ DOMAIN Tail(s) = 1 .. Len(Tail(s))
      /\ Len(Tail(s)) \in Nat
  BY <1>1, LenProperties, EmptySeq
<1>3. \A i \in DOMAIN Tail(s) : i + 1 \in DOMAIN s /\ i + 1 # 1 BY <1>1, <1>2
<1>4. Len(s) = 1 <=> Tail(s) = <<>>
  <2>1. Len(Tail(s)) = 0 <=> Tail(s) = <<>> BY <1>1, EmptySeq
  <2> QED BY <1>1, <1>2, <2>1
<1> QED BY <1>1, <1>2, <1>3, <1>4

\* A stack is its head on its tail.
LEMMA HeadOnTail ==
  ASSUME NEW S, NEW s \in Seq(S), s # <<>>
  PROVE  s = <<Head(s)>> \o Tail(s)
<1> DEFINE t == <<Head(s)>> \o Tail(s)
<1>1. /\ Tail(s) \in Seq(S) /\ Head(s) = s[1] /\ Head(s) \in S
      /\ Len(s) \in Nat \ {0} /\ Len(Tail(s)) = Len(s) - 1 /\ DOMAIN s = 1 .. Len(s)
      /\ \A i \in DOMAIN Tail(s) : Tail(s)[i] = s[i + 1]
  BY TailSeq
<1>2. /\ t \in Seq(S) /\ Len(t) = Len(Tail(s)) + 1 /\ t[1] = Head(s)
      /\ \A i \in DOMAIN t : i # 1 => i - 1 \in DOMAIN Tail(s) /\ t[i] = Tail(s)[i - 1]
      /\ DOMAIN t = 1 .. (Len(Tail(s)) + 1)
  BY <1>1, ConsSeq
<1> HIDE DEF t
<1>3. Len(t) = Len(s) /\ DOMAIN t = DOMAIN s BY <1>1, <1>2
<1>4. ASSUME NEW i \in 1 .. Len(s) PROVE t[i] = s[i]
  <2>1. CASE i = 1 BY <1>1, <1>2, <2>1
  <2>2. CASE i # 1
    <3>1. i \in DOMAIN t /\ (i - 1) + 1 = i BY <1>1, <1>3
    <3> QED BY <1>1, <1>2, <2>2, <3>1
  <2> QED BY <2>1, <2>2
<1>5. t = s BY <1>2, <1>3, <1>4, SeqEqual
<1> QED BY <1>5 DEF t
-----------------------------------------------------------------------------
(* Frames, what they hold and how they nest.                                *)

LEMMA FrameFacts ==
  /\ \A o \in Object : \A at \in {"enter", "called", "check", "free"} :
        /\ DelFrame(o, at) \in Frames /\ DelFrame(o, at).fn = "del"
        /\ DelFrame(o, at).obj = o /\ DelFrame(o, at).at = at
  /\ \A o \in Object : \A at \in {"enter", "run"} :
        /\ DtorFrame(o, at) \in Frames /\ DtorFrame(o, at).fn = "dtor"
        /\ DtorFrame(o, at).obj = o /\ DtorFrame(o, at).at = at
  /\ \A f \in Frames :
        /\ f.obj \in Object /\ f.fn \in {"del", "dtor"}
        /\ f.fn = "del" => f.at \in {"enter", "called", "check", "free"}
        /\ f.fn = "dtor" => f.at \in {"enter", "run"}
        /\ f.fn = "del" => f = DelFrame(f.obj, f.at)
        /\ f.fn = "dtor" => f = DtorFrame(f.obj, f.at)
BY DEF Frames, DelFrame, DtorFrame

HoldF(o, st) == {i \in DOMAIN st : Holding(st[i], o)}

LEMMA HoldFinite ==
  ASSUME NEW st \in Seq(Frames), NEW o
  PROVE  IsFiniteSet(HoldF(o, st)) /\ Cardinality(HoldF(o, st)) \in Nat
<1>1. DOMAIN st = 1 .. Len(st) /\ Len(st) \in Nat BY LenProperties
<1>2. IsFiniteSet(1 .. Len(st)) BY <1>1, FS_Interval
<1>3. HoldF(o, st) \subseteq 1 .. Len(st) BY <1>1 DEF HoldF
<1> QED BY <1>2, <1>3, FS_Subset, FS_CardinalityType

\* What a stack holds, by its innermost call and the rest.
LEMMA HoldCons ==
  ASSUME NEW st \in Seq(Frames), NEW f \in Frames, NEW o
  PROVE  Cardinality(HoldF(o, <<f>> \o st)) =
             Cardinality(HoldF(o, st)) + (IF Holding(f, o) THEN 1 ELSE 0)
<1> DEFINE t == <<f>> \o st
           A == HoldF(o, st)
           B == HoldF(o, t) \ {1}
           shift == [i \in A |-> i + 1]
<1>1. /\ t[1] = f /\ \A i \in DOMAIN st : t[i + 1] = st[i]
      /\ \A i \in DOMAIN t : i # 1 => i - 1 \in DOMAIN st /\ t[i] = st[i - 1]
      /\ DOMAIN t = 1 .. (Len(st) + 1) /\ DOMAIN st = 1 .. Len(st) /\ Len(st) \in Nat
      /\ t \in Seq(Frames)
  BY ConsSeq
<1> HIDE DEF t
<1>2. IsFiniteSet(A) /\ IsFiniteSet(HoldF(o, t)) /\ Cardinality(A) \in Nat BY <1>1, HoldFinite
<1>3. IsFiniteSet(B) BY <1>2, FS_Subset
<1>4. \A i \in A : i \in Nat /\ i + 1 \in B BY <1>1 DEF HoldF
<1>5. \A j \in B : j \in Nat /\ j - 1 \in A /\ (j - 1) + 1 = j BY <1>1 DEF HoldF
<1>6. shift \in Bijection(A, B)
  <2>1. shift \in [A -> B] BY <1>4
  <2>2. \A i, j \in A : shift[i] = shift[j] => i = j BY <1>4
  <2>3. \A j \in B : \E i \in A : shift[i] = j
    <3> TAKE j \in B
    <3>1. shift[j - 1] = j BY <1>5
    <3> QED BY <1>5, <3>1
  <2>4. DOMAIN shift = A OBVIOUS
  <2> HIDE DEF shift, A, B
  <2>5. IsInjective(shift) BY <2>2, <2>4 DEF IsInjective
  <2> QED BY <2>1, <2>3, <2>5 DEF Bijection, Injection, Surjection
<1>7. Cardinality(A) = Cardinality(B)
  <2> HIDE DEF shift, A, B
  <2> QED BY <1>2, <1>3, <1>6, FS_Bijection DEF ExistsBijection
<1>8. CASE Holding(f, o)
  <2>1. HoldF(o, t) = B \cup {1} /\ 1 \notin B BY <1>1, <1>8 DEF HoldF
  <2>2. Cardinality(B \cup {1}) = Cardinality(B) + 1 BY <1>3, <2>1, FS_AddElement
  <2> QED BY <1>7, <1>8, <2>1, <2>2 DEF t
<1>9. CASE ~Holding(f, o)
  <2>1. HoldF(o, t) = B BY <1>1, <1>9 DEF HoldF
  <2> HIDE DEF B, A
  <2>2. Cardinality(HoldF(o, t)) = Cardinality(A) BY <1>7, <2>1
  <2> QED BY <1>2, <1>9, <2>2 DEF t, A
<1> QED BY <1>8, <1>9

LEMMA HoldTail ==
  ASSUME NEW st \in Seq(Frames), st # <<>>, NEW o
  PROVE  Cardinality(HoldF(o, st)) =
             Cardinality(HoldF(o, Tail(st))) + (IF Holding(Head(st), o) THEN 1 ELSE 0)
<1>1. st = <<Head(st)>> \o Tail(st) /\ Head(st) \in Frames /\ Tail(st) \in Seq(Frames)
  BY HeadOnTail, TailSeq
<1> QED BY <1>1, HoldCons

LEMMA NestedTail ==
  ASSUME NEW st \in Seq(Frames), st # <<>>, NEW b, Nested(st, b)
  PROVE  /\ Nested(Tail(st), b)
         /\ \A i \in DOMAIN Tail(st) : Tail(st)[i].at \notin {"enter", "check"}
         /\ Head(st).at = "free" =>
               \A i \in DOMAIN Tail(st) : Tail(st)[i].at = "free" => Tail(st)[i].obj # Head(st).obj
         /\ Head(st).fn = "dtor" =>
               IF Tail(st) = <<>> THEN Head(st).obj = b
               ELSE Tail(st)[1] = DelFrame(Head(st).obj, "called")
<1> DEFINE t == Tail(st)
<1>1. /\ t \in Seq(Frames) /\ Head(st) = st[1] /\ Len(st) \in Nat \ {0} /\ Len(t) = Len(st) - 1
      /\ DOMAIN st = 1 .. Len(st) /\ DOMAIN t = 1 .. (Len(st) - 1)
      /\ \A i \in DOMAIN t : i + 1 \in DOMAIN st /\ i + 1 # 1 /\ t[i] = st[i + 1]
      /\ Len(st) = 1 <=> t = <<>>
  BY TailSeq
<1> HIDE DEF t
<1>2. \A i \in DOMAIN t : t[i].at \notin {"enter", "check"} BY <1>1 DEF Nested
<1>3. Head(st).at = "free" => \A i \in DOMAIN t : t[i].at = "free" => t[i].obj # Head(st).obj
  <2> SUFFICES ASSUME st[1].at = "free", NEW i \in DOMAIN t, t[i].at = "free", t[i].obj = st[1].obj
               PROVE  FALSE
    BY <1>1
  <2>1. st[i + 1].at = "free" /\ st[i + 1].obj = st[1].obj /\ i + 1 \in DOMAIN st /\ i + 1 # 1
        /\ 1 \in DOMAIN st
    BY <1>1
  <2> QED BY <2>1 DEF Nested
<1>4. Head(st).fn = "dtor" => IF t = <<>> THEN Head(st).obj = b
                              ELSE t[1] = DelFrame(Head(st).obj, "called")
  <2> SUFFICES ASSUME st[1].fn = "dtor"
               PROVE  IF t = <<>> THEN st[1].obj = b ELSE t[1] = DelFrame(st[1].obj, "called")
    BY <1>1
  <2>1. IF 1 = Len(st) THEN st[1].obj = b ELSE st[1 + 1] = DelFrame(st[1].obj, "called")
    BY <1>1 DEF Nested
  <2>2. t # <<>> => 1 \in DOMAIN t BY <1>1
  <2> QED BY <1>1, <2>1, <2>2
<1>5. \A i, j \in DOMAIN t :
         t[i].at = "free" /\ t[j].at = "free" /\ t[i].obj = t[j].obj => i = j
  <2> TAKE i, j \in DOMAIN t
  <2> HAVE t[i].at = "free" /\ t[j].at = "free" /\ t[i].obj = t[j].obj
  <2>1. i + 1 = j + 1 BY <1>1 DEF Nested
  <2> QED BY <1>1, <2>1
<1>6. \A i \in DOMAIN t : t[i].fn = "dtor" =>
         IF i = Len(t) THEN t[i].obj = b ELSE t[i + 1] = DelFrame(t[i].obj, "called")
  <2> TAKE i \in DOMAIN t
  <2> HAVE t[i].fn = "dtor"
  <2>1. i + 1 \in DOMAIN st /\ t[i] = st[i + 1] BY <1>1
  <2>2. IF i + 1 = Len(st) THEN st[i + 1].obj = b
        ELSE st[(i + 1) + 1] = DelFrame(st[i + 1].obj, "called")
    BY <2>1 DEF Nested
  <2>3. i # Len(t) => i + 1 \in DOMAIN t /\ i + 1 # Len(st) BY <1>1
  <2>4. i = Len(t) => i + 1 = Len(st) BY <1>1
  <2> QED BY <1>1, <2>1, <2>2, <2>3, <2>4
<1>7. Nested(t, b) BY <1>2, <1>5, <1>6 DEF Nested
<1> QED BY <1>2, <1>3, <1>4, <1>7 DEF t

LEMMA NestedCons ==
  ASSUME NEW st \in Seq(Frames), NEW b, Nested(st, b), NEW f \in Frames,
         \A i \in DOMAIN st : st[i].at \notin {"enter", "check"},
         f.at = "free" => \A i \in DOMAIN st : st[i].at = "free" => st[i].obj # f.obj,
         f.fn = "dtor" => IF st = <<>> THEN f.obj = b ELSE st[1] = DelFrame(f.obj, "called")
  PROVE  Nested(<<f>> \o st, b)
<1> DEFINE t == <<f>> \o st
<1>1. /\ t[1] = f /\ Len(t) = Len(st) + 1
      /\ \A i \in DOMAIN t : i # 1 => i - 1 \in DOMAIN st /\ t[i] = st[i - 1]
      /\ \A i \in DOMAIN st : t[i + 1] = st[i]
      /\ DOMAIN t = 1 .. (Len(st) + 1) /\ DOMAIN st = 1 .. Len(st) /\ Len(st) \in Nat
      /\ Len(st) = 0 <=> st = <<>>
  BY ConsSeq, EmptySeq
<1> HIDE DEF t
<1>2. \A i \in DOMAIN t : i # 1 => t[i].at \notin {"enter", "check"} BY <1>1
<1>3. \A i, j \in DOMAIN t :
         t[i].at = "free" /\ t[j].at = "free" /\ t[i].obj = t[j].obj => i = j
  <2> SUFFICES ASSUME NEW i \in DOMAIN t, NEW j \in DOMAIN t, t[i].at = "free", t[j].at = "free",
                      t[i].obj = t[j].obj
               PROVE  i = j
    OBVIOUS
  <2>1. i # 1 => i - 1 \in DOMAIN st /\ t[i] = st[i - 1] BY <1>1
  <2>2. j # 1 => j - 1 \in DOMAIN st /\ t[j] = st[j - 1] BY <1>1
  <2>3. CASE i = 1 BY <1>1, <2>2, <2>3
  <2>4. CASE j = 1 BY <1>1, <2>1, <2>4
  <2>5. CASE i # 1 /\ j # 1
    <3>1. i - 1 = j - 1 BY <2>1, <2>2, <2>5 DEF Nested
    <3> QED BY <1>1, <3>1
  <2> QED BY <2>3, <2>4, <2>5
<1>4. \A i \in DOMAIN t : t[i].fn = "dtor" =>
         IF i = Len(t) THEN t[i].obj = b ELSE t[i + 1] = DelFrame(t[i].obj, "called")
  <2> SUFFICES ASSUME NEW i \in DOMAIN t, t[i].fn = "dtor"
               PROVE  IF i = Len(t) THEN t[i].obj = b ELSE t[i + 1] = DelFrame(t[i].obj, "called")
    OBVIOUS
  <2>1. CASE i = 1
    <3>1. st # <<>> => 1 \in DOMAIN st BY <1>1
    <3>2. st # <<>> => t[1 + 1] = st[1] /\ 1 # Len(t) BY <1>1, <3>1
    <3>3. st = <<>> => Len(t) = 1 BY <1>1
    <3> QED BY <1>1, <2>1, <3>2, <3>3
  <2>2. CASE i # 1
    <3>1. i - 1 \in DOMAIN st /\ t[i] = st[i - 1] /\ i \in Nat BY <1>1, <2>2
    <3>2. IF i - 1 = Len(st) THEN st[i - 1].obj = b
          ELSE st[(i - 1) + 1] = DelFrame(st[i - 1].obj, "called")
      BY <3>1 DEF Nested
    <3>3. (i - 1) + 1 = i BY <3>1
    <3>4. i # Len(t) => i \in DOMAIN st /\ i - 1 # Len(st) BY <1>1, <2>2, <3>1
    <3>5. i = Len(t) => i - 1 = Len(st) BY <1>1, <3>1
    <3>6. i # Len(t) => t[i + 1] = st[i] BY <1>1, <3>4
    <3> QED BY <3>1, <3>2, <3>3, <3>4, <3>5, <3>6
  <2> QED BY <2>1, <2>2
<1> QED BY <1>2, <1>3, <1>4 DEF Nested, t

LEMMA NestedEmpty == \A b : Nested(<<>>, b) /\ <<>> \in Seq(Frames) /\ \A o : HoldF(o, <<>>) = {}
BY EmptySeq DEF Nested, HoldF
-----------------------------------------------------------------------------
(* Counting references.                                                     *)

Count(A, g, o) == Cardinality({a \in A : g[a] = o})

LEMMA CountNat ==
  ASSUME NEW A, IsFiniteSet(A), NEW g, NEW o
  PROVE  /\ IsFiniteSet({a \in A : g[a] = o}) /\ Count(A, g, o) \in Nat
         /\ Count(A, g, o) = 0 <=> \A a \in A : g[a] # o
<1> DEFINE B == {a \in A : g[a] = o}
<1>1. B \subseteq A OBVIOUS
<1>2. IsFiniteSet(B) BY <1>1, FS_Subset
<1>3. Cardinality(B) \in Nat BY <1>2, FS_CardinalityType
<1>4. Cardinality(B) = 0 <=> B = {} BY <1>2, FS_EmptySet
<1>5. B = {} <=> \A a \in A : g[a] # o OBVIOUS
<1> QED BY <1>2, <1>3, <1>4, <1>5 DEF Count

\* One entry more, or one less.
LEMMA CountEntry ==
  ASSUME NEW A, IsFiniteSet(A), NEW x, x \notin A, NEW g, NEW o
  PROVE  Count(A \cup {x}, g, o) = Count(A, g, o) + (IF g[x] = o THEN 1 ELSE 0)
<1> DEFINE B == {a \in A : g[a] = o}
           C == {a \in A \cup {x} : g[a] = o}
<1>1. IsFiniteSet(B) /\ Cardinality(B) \in Nat BY CountNat DEF Count
<1>2. CASE g[x] = o
  <2>1. C = B \cup {x} /\ x \notin B BY <1>2
  <2>2. Cardinality(B \cup {x}) = Cardinality(B) + 1
    <3> HIDE DEF B
    <3> QED BY <1>1, <2>1, FS_AddElement
  <2> QED BY <1>2, <2>1, <2>2 DEF Count
<1>3. CASE g[x] # o
  <2>1. C = B BY <1>3
  <2>2. Cardinality(C) = Cardinality(B) + 0
    <3> HIDE DEF B, C
    <3> QED BY <1>1, <2>1
  <2> QED BY <1>3, <2>2 DEF Count
<1> QED BY <1>2, <1>3

LEMMA CountSame ==
  ASSUME NEW A, NEW g, NEW h, NEW o, \A a \in A : g[a] = h[a]
  PROVE  Count(A, g, o) = Count(A, h, o)
<1>1. {a \in A : g[a] = o} = {a \in A : h[a] = o} OBVIOUS
<1> QED BY <1>1 DEF Count

\* An entry that changes.
LEMMA CountExcept ==
  ASSUME NEW A, IsFiniteSet(A), NEW x \in A, NEW g, NEW h, NEW o,
         \A a \in A : a # x => h[a] = g[a]
  PROVE  Count(A, h, o) + (IF g[x] = o THEN 1 ELSE 0) = Count(A, g, o) + (IF h[x] = o THEN 1 ELSE 0)
<1> DEFINE B == A \ {x}
<1>1. IsFiniteSet(B) /\ x \notin B /\ B \cup {x} = A BY FS_RemoveElement
<1> HIDE DEF B
<1>2. /\ Count(A, h, o) = Count(B, h, o) + (IF h[x] = o THEN 1 ELSE 0)
      /\ Count(A, g, o) = Count(B, g, o) + (IF g[x] = o THEN 1 ELSE 0)
  <2>1. IsFiniteSet(B) /\ x \notin B BY <1>1
  <2>2. \A f : Count(B \cup {x}, f, o) = Count(B, f, o) + (IF f[x] = o THEN 1 ELSE 0)
    BY <2>1, CountEntry, SMTT(30)
  <2> QED BY <1>1, <2>2
<1>3. Count(B, h, o) = Count(B, g, o)
  <2>1. \A a \in B : h[a] = g[a] BY <1>1
  <2> QED BY <2>1, CountSame
<1>4. Count(B, h, o) \in Nat /\ Count(B, g, o) \in Nat BY <1>1, CountNat
<1> QED BY <1>2, <1>3, <1>4

LEMMA SlotFinite == Slots \in Nat /\ IsFiniteSet(Slot) /\ Nil \notin Object /\ IsFiniteSet(Object)
BY StoreAssumption, FS_Interval DEF Slot

\* What holds an object: variables, properties, calls and the sweep.
ByVars(o) == Count(Slot, vars, o)
ByProps(o) == Count(alloc, prop, o)
ByCalls(o) == Cardinality(HoldF(o, stack))
BySweep(o) == IF called /\ bucket[cursor].obj = o THEN 1 ELSE 0

LEMMA HoldersSum ==
  TypeOK => \A o \in Object :
               /\ Holders(o) = ByVars(o) + ByProps(o) + ByCalls(o) + BySweep(o)
               /\ ByVars(o) \in Nat /\ ByProps(o) \in Nat /\ ByCalls(o) \in Nat /\ BySweep(o) \in Nat
               /\ Holders(o) \in Nat
<1> SUFFICES ASSUME TypeOK, NEW o \in Object
             PROVE  /\ Holders(o) = ByVars(o) + ByProps(o) + ByCalls(o) + BySweep(o)
                    /\ ByVars(o) \in Nat /\ ByProps(o) \in Nat /\ ByCalls(o) \in Nat
                    /\ BySweep(o) \in Nat /\ Holders(o) \in Nat
  OBVIOUS
<1>1. IsFiniteSet(alloc) BY SlotFinite, FS_Subset DEF TypeOK
<1>2. ByVars(o) \in Nat /\ ByProps(o) \in Nat BY <1>1, SlotFinite, CountNat DEF ByVars, ByProps
<1>3. ByCalls(o) \in Nat BY HoldFinite DEF ByCalls, TypeOK
<1>4. BySweep(o) \in Nat BY DEF BySweep
<1>5. Holders(o) = ByVars(o) + ByProps(o) + ByCalls(o) + BySweep(o)
  BY DEF Holders, ByVars, ByProps, ByCalls, BySweep, Count, HoldF
<1>6. Holders(o) \in Nat
  <2> HIDE DEF ByVars
  <2> QED BY <1>2, <1>3, <1>4, <1>5
<1> QED BY <1>2, <1>3, <1>4, <1>5, <1>6

LEMMA HoldersSumNext ==
  TypeOK' => \A o \in Object :
               /\ Holders(o)' = ByVars(o)' + ByProps(o)' + ByCalls(o)' + BySweep(o)'
               /\ ByVars(o)' \in Nat /\ ByProps(o)' \in Nat /\ ByCalls(o)' \in Nat /\ BySweep(o)' \in Nat
               /\ Holders(o)' \in Nat
<1>1. (TypeOK => \A o \in Object :
               /\ Holders(o) = ByVars(o) + ByProps(o) + ByCalls(o) + BySweep(o)
               /\ ByVars(o) \in Nat /\ ByProps(o) \in Nat /\ ByCalls(o) \in Nat /\ BySweep(o) \in Nat
               /\ Holders(o) \in Nat)'
  <2>1. TypeOK => \A o \in Object :
               /\ Holders(o) = ByVars(o) + ByProps(o) + ByCalls(o) + BySweep(o)
               /\ ByVars(o) \in Nat /\ ByProps(o) \in Nat /\ ByCalls(o) \in Nat /\ BySweep(o) \in Nat
               /\ Holders(o) \in Nat
    BY HoldersSum
  <2> QED BY <2>1, PTL
<1> QED BY <1>1

LEMMA NoneOfFour ==
  ASSUME NEW h, NEW a, NEW b, NEW c, NEW d, h = 0, h = a + b + c + d,
         a \in Nat, b \in Nat, c \in Nat, d \in Nat
  PROVE  a = 0 /\ b = 0 /\ c = 0 /\ d = 0
OBVIOUS

\* What nothing holds is not referred to.
LEMMA Unheld ==
  ASSUME TypeOK, NEW o \in Object, Holders(o) = 0
  PROVE  /\ \A s \in Slot : vars[s] # o
         /\ \A p \in alloc : prop[p] # o
         /\ \A i \in DOMAIN stack : ~Holding(stack[i], o)
         /\ ~(called /\ bucket[cursor].obj = o)
<1>1. /\ ByVars(o) \in Nat /\ ByProps(o) \in Nat /\ ByCalls(o) \in Nat /\ BySweep(o) \in Nat
      /\ Holders(o) = ByVars(o) + ByProps(o) + ByCalls(o) + BySweep(o)
  BY HoldersSum
<1>2. ByVars(o) = 0 /\ ByProps(o) = 0 /\ ByCalls(o) = 0 /\ BySweep(o) = 0
  BY <1>1, NoneOfFour, Zenon
<1>3. IsFiniteSet(alloc) BY SlotFinite, FS_Subset DEF TypeOK
<1>4. \A s \in Slot : vars[s] # o BY <1>2, SlotFinite, CountNat DEF ByVars
<1>5. \A p \in alloc : prop[p] # o BY <1>2, <1>3, CountNat DEF ByProps
<1>6. IsFiniteSet(HoldF(o, stack)) BY HoldFinite DEF TypeOK
<1>7. HoldF(o, stack) = {} BY <1>2, <1>6, FS_EmptySet DEF ByCalls
<1>8. \A i \in DOMAIN stack : ~Holding(stack[i], o) BY <1>7 DEF HoldF
<1>9. ~(called /\ bucket[cursor].obj = o) BY <1>2 DEF BySweep
<1> QED BY <1>4, <1>5, <1>8, <1>9
-----------------------------------------------------------------------------
(* What is computed by following references.                                *)

Iterate(F, a, g, m) == [n \in 0 .. m |-> IF n = 0 THEN a ELSE F[g[n - 1]]]

\* The recursion has a solution.
LEMMA IterateExists ==
  ASSUME NEW F, NEW a, NEW m \in Nat
  PROVE  \E g : g = Iterate(F, a, g, m)
<1> DEFINE T == {k \in Nat : ~\E g : g = Iterate(F, a, g, k)}
<1>1. T = {}
  <2> SUFFICES ASSUME T # {} PROVE FALSE OBVIOUS
  <2>1. T \in SUBSET Nat OBVIOUS
  <2> HIDE DEF T
  <2>2. PICK k \in T : \A j \in T : k <= j BY <2>1, NatMin
  <2>3. k \in Nat /\ ~\E g : g = Iterate(F, a, g, k) BY <2>2 DEF T
  <2>4. k # 0
    <3> DEFINE g == [n \in 0 .. 0 |-> a]
    <3>1. g = Iterate(F, a, g, 0) BY DEF Iterate
    <3> QED BY <2>3, <3>1
  <2>5. k - 1 \in Nat /\ ~(k <= k - 1) BY <2>3, <2>4
  <2>6. PICK g : g = Iterate(F, a, g, k - 1) BY <2>2, <2>5 DEF T
  <2> DEFINE h == [n \in 0 .. k |-> IF n = k THEN F[g[k - 1]] ELSE g[n]]
  <2>7. \A n \in 0 .. k : h[n] = Iterate(F, a, h, k)[n]
    <3> SUFFICES ASSUME NEW n \in 0 .. k PROVE h[n] = Iterate(F, a, h, k)[n] OBVIOUS
    <3>1. Iterate(F, a, h, k)[n] = IF n = 0 THEN a ELSE F[h[n - 1]] BY DEF Iterate
    <3>2. n # 0 => n - 1 \in 0 .. k /\ n - 1 # k BY <2>3
    <3>3. n # 0 => h[n - 1] = g[n - 1] BY <3>2
    <3>4. CASE n = k
      <4>1. h[n] = F[g[k - 1]] /\ n # 0 BY <2>4, <3>4
      <4> QED BY <3>1, <3>3, <3>4, <4>1
    <3>5. CASE n # k
      <4>1. h[n] = g[n] /\ n \in 0 .. (k - 1) BY <2>3, <3>5
      <4>2. Iterate(F, a, g, k - 1)[n] = IF n = 0 THEN a ELSE F[g[n - 1]] BY <4>1 DEF Iterate
      <4> QED BY <2>6, <3>1, <3>3, <4>1, <4>2
    <3> QED BY <3>4, <3>5
  <2>8. DOMAIN Iterate(F, a, h, k) = 0 .. k
        /\ Iterate(F, a, h, k) = [n \in 0 .. k |-> Iterate(F, a, h, k)[n]]
    BY DEF Iterate
  <2>9. h = [n \in 0 .. k |-> h[n]] OBVIOUS
  <2> HIDE DEF h
  <2>10. h = Iterate(F, a, h, k) BY <2>7, <2>8, <2>9
  <2> QED BY <2>3, <2>10
<1> QED BY <1>1

\* What a solution stays in.
LEMMA IterateIn ==
  ASSUME NEW F, NEW a, NEW m \in Nat, NEW g, g = Iterate(F, a, g, m), NEW D, a \in D,
         \A x \in D : F[x] \in D
  PROVE  \A n \in 0 .. m : g[n] \in D
<1>1. \A n \in 0 .. m : g[n] = IF n = 0 THEN a ELSE F[g[n - 1]] BY DEF Iterate
<1> DEFINE T == {n \in 0 .. m : g[n] \notin D}
<1> SUFFICES ASSUME T # {} PROVE FALSE OBVIOUS
<1>2. T \in SUBSET Nat OBVIOUS
<1> HIDE DEF T
<1>3. PICK n \in T : \A y \in T : n <= y BY <1>2, NatMin
<1>4. n \in 0 .. m /\ g[n] \notin D BY <1>3 DEF T
<1>5. n # 0 BY <1>1, <1>4
<1>6. n - 1 \in 0 .. m /\ ~(n <= n - 1) BY <1>4, <1>5
<1>7. g[n - 1] \in D BY <1>3, <1>6 DEF T
<1> QED BY <1>1, <1>4, <1>5, <1>7

\* Valid is ever only what the running code reaches.
LEMMA ReachableStored ==
  ASSUME TypeOK, References,
         stack # <<>> => IF This \in Generators THEN This \in alloc ELSE This \in Stored,
         Stored \subseteq alloc
  PROVE  Reachable \subseteq Stored
<1> DEFINE m == Cardinality(Object)
           D == SUBSET (Stored \cup {Nil})
           F == [S \in D |-> S \cup {prop[p] : p \in S \ {Nil}}]
           Step(g) == [n \in 0 .. m |-> IF n = 0 THEN Named
                       ELSE g[n - 1] \cup {prop[p] : p \in g[n - 1] \ {Nil}}]
           reach == CHOOSE g : g = Step(g)
<1>1. m \in Nat BY SlotFinite, FS_CardinalityType
<1>2. Named \in D BY DEF Named, References
<1>3. \A S \in D : F[S] \in D /\ F[S] = S \cup {prop[p] : p \in S \ {Nil}} BY DEF References
<1> HIDE DEF F, m
<1>4. \E g : g = Step(g)
  <2>1. PICK g : g = Iterate(F, Named, g, m) BY <1>1, IterateExists
  <2>2. \A n \in 0 .. m : g[n] \in D
    <3>1. \A x \in D : F[x] \in D BY <1>3
    <3> HIDE DEF D
    <3> QED BY <1>1, <1>2, <2>1, <3>1, IterateIn
  <2>3. \A n \in 0 .. m : n # 0 => n - 1 \in 0 .. m BY <1>1
  <2>4. \A n \in 0 .. m : n # 0 => F[g[n - 1]] = g[n - 1] \cup {prop[p] : p \in g[n - 1] \ {Nil}}
    BY <1>3, <2>2, <2>3
  <2>5. Iterate(F, Named, g, m) = Step(g) BY <2>4 DEF Iterate
  <2> QED BY <2>1, <2>5
<1>5. reach = Step(reach) BY <1>4
<1>6. Reachable = reach[m] \ {Nil} BY DEF Reachable, m
<1> HIDE DEF reach
<1>7. \A n \in 0 .. m : n # 0 => n - 1 \in 0 .. m
                      /\ reach[n] = reach[n - 1] \cup {prop[p] : p \in reach[n - 1] \ {Nil}}
  BY <1>1, <1>5
<1>8. reach[0] = Named BY <1>1, <1>5
<1>9. \A n \in 0 .. m : reach[n] \in D
  <2> DEFINE T == {n \in 0 .. m : reach[n] \notin D}
  <2> SUFFICES ASSUME T # {} PROVE FALSE OBVIOUS
  <2>1. T \in SUBSET Nat BY <1>1
  <2> HIDE DEF T
  <2>2. PICK n \in T : \A y \in T : n <= y BY <2>1, NatMin
  <2>3. n \in 0 .. m /\ reach[n] \notin D BY <2>2 DEF T
  <2>4. n # 0 BY <1>2, <1>8, <2>3
  <2>5. n - 1 \in 0 .. m /\ ~(n <= n - 1) BY <1>1, <2>3, <2>4
  <2>6. reach[n - 1] \in D BY <2>2, <2>5 DEF T
  <2>7. F[reach[n - 1]] \in D /\ F[reach[n - 1]] = reach[n] BY <1>3, <1>7, <2>3, <2>4, <2>6
  <2> QED BY <2>3, <2>7
<1> QED BY <1>1, <1>6, <1>9

\* A list under whose links nothing smaller is closed is gone through from its
\* head.
LEMMA ListCovered ==
  ASSUME NEW m \in Nat, NEW U, IsFiniteSet(U), Cardinality(U) <= m, NEW e, e \notin U,
         NEW h \in U \cup {e}, NEW nx, \A i \in U : nx[i] \in U \cup {e}, nx[e] = e,
         \A S \in SUBSET U : (h # e => h \in S) /\ (\A i \in S : nx[i] # e => nx[i] \in S) => S = U,
         NEW g, g = Iterate(nx, h, g, m)
  PROVE  U = {g[n] : n \in 0 .. m} \ {e}
<1>1. \A n \in 0 .. m : n # 0 => n - 1 \in 0 .. m /\ g[n] = nx[g[n - 1]] BY DEF Iterate
<1>2. g[0] = h BY DEF Iterate
<1>3. \A n \in 0 .. m : g[n] \in U \cup {e}
  <2> DEFINE D == U \cup {e}
  <2>1. h \in D /\ \A x \in D : nx[x] \in D OBVIOUS
  <2> HIDE DEF D
  <2>2. \A n \in 0 .. m : g[n] \in D BY <2>1, IterateIn
  <2> QED BY <2>2 DEF D
<1>4. {g[n] : n \in 0 .. m} \ {e} \subseteq U BY <1>3
\* Where the list first ends, or comes back to an earlier place.
<1> DEFINE Stops(n) == n \in 0 .. m /\ (g[n] = e \/ \E k \in 0 .. (n - 1) : g[k] = g[n])
           T == {n \in 0 .. m : Stops(n)}
<1>5. T # {}
  <2> SUFFICES ASSUME T = {} PROVE FALSE OBVIOUS
  <2>1. \A n \in 0 .. m : g[n] \in U BY <1>3
  <2>2. \A n, k \in 0 .. m : k < n => g[k] # g[n] OBVIOUS
  <2> DEFINE D == 0 .. m
             f == [n \in D |-> g[n]]
  <2>3. f \in [D -> U] BY <2>1
  <2>4. IsFiniteSet(D) /\ Cardinality(D) = m + 1
    <3>1. IsFiniteSet(0 .. m) /\ Cardinality(0 .. m) = IF 0 > m THEN 0 ELSE m - 0 + 1
      BY FS_Interval
    <3> QED BY <3>1
  <2>5. Cardinality(U) \in Nat BY FS_CardinalityType
  <2>6. Cardinality(U) < Cardinality(D) BY <2>4, <2>5
  <2>7. PICK x, y \in D : x # y /\ f[x] = f[y]
    <3> HIDE DEF f, D, T
    <3> QED BY <2>3, <2>4, <2>6, FS_PigeonHole
  <2>8. x \in 0 .. m /\ y \in 0 .. m /\ g[x] = g[y] BY <2>7
  <2>9. x < y \/ y < x BY <2>7, <2>8
  <2> QED BY <2>2, <2>8, <2>9
<1>6. T \in SUBSET Nat OBVIOUS
<1>7. PICK t \in T : \A y \in T : t <= y
  <2> HIDE DEF T
  <2> QED BY <1>5, <1>6, NatMin
<1>8. t \in 0 .. m /\ t \in Nat /\ (g[t] = e \/ \E k \in 0 .. (t - 1) : g[k] = g[t])
  BY <1>7
<1>9. \A n \in 0 .. (t - 1) : n \in 0 .. m /\ g[n] # e
  <2> TAKE n \in 0 .. (t - 1)
  <2>1. n \in 0 .. m /\ ~(t <= n) BY <1>8
  <2>2. n \notin T BY <1>7, <2>1
  <2> QED BY <2>1, <2>2
<1> HIDE DEF T
<1> DEFINE S == {g[n] : n \in 0 .. (t - 1)}
<1>10. S \in SUBSET U BY <1>3, <1>9
<1>11. h # e => h \in S
  <2> SUFFICES ASSUME h # e PROVE h \in S OBVIOUS
  <2>1. t # 0 BY <1>2, <1>8
  <2>2. 0 \in 0 .. (t - 1) BY <1>8, <2>1
  <2> QED BY <1>2, <2>2
<1>12. ASSUME NEW i \in S, nx[i] # e PROVE nx[i] \in S
  <2>1. PICK n \in 0 .. (t - 1) : i = g[n] OBVIOUS
  <2>2. n + 1 \in 0 .. m /\ n + 1 # 0 /\ (n + 1) - 1 = n BY <1>8, <2>1
  <2>3. g[n + 1] = nx[i] BY <1>1, <2>1, <2>2
  <2>4. CASE n + 1 = t
    <3>1. \E k \in 0 .. (t - 1) : g[k] = nx[i] BY <1>8, <1>12, <2>3, <2>4
    <3> QED BY <3>1
  <2>5. CASE n + 1 # t
    <3>1. n + 1 \in 0 .. (t - 1) BY <1>8, <2>1, <2>5
    <3> QED BY <2>3, <3>1
  <2> QED BY <2>4, <2>5
<1>13. S = U BY <1>10, <1>11, <1>12
<1>14. S \subseteq {g[n] : n \in 0 .. m} \ {e} BY <1>9
<1> QED BY <1>4, <1>13, <1>14

\* The invariant of the free list says what StoreExact says.
LEMMA ListExact ==
  ASSUME TypeOK, HandlesExact, FreeListLinked
  PROVE  StoreExact
<1> DEFINE m == Len(bucket)
           U == FreeBuckets
           nx == [h \in U \cup {None} |-> IF h \in U THEN bucket[h].next ELSE None]
           Step(g) == [n \in 0 .. m |-> IF n = 0 THEN freeHead
                       ELSE IF g[n - 1] \in U THEN bucket[g[n - 1]].next ELSE None]
           chain == CHOOSE g : g = Step(g)
<1>1. m \in Nat /\ DOMAIN bucket = 1 .. m BY LenProperties DEF TypeOK
<1>2. U \subseteq 1 .. m /\ None \notin U
  <2>1. U \subseteq 1 .. m BY <1>1 DEF FreeBuckets
  <2> QED BY <2>1 DEF None
<1>3. IsFiniteSet(U) /\ Cardinality(U) <= m
  <2>1. IsFiniteSet(1 .. m) /\ Cardinality(1 .. m) = m BY <1>1, IntervalFrom1
  <2> HIDE DEF m, U
  <2> QED BY <1>2, <2>1, FS_Subset
<1>4. /\ freeHead \in U \cup {None} /\ \A i \in U : nx[i] \in U \cup {None} /\
         nx[i] = bucket[i].next
      /\ nx[None] = None
  BY <1>2 DEF FreeListLinked
<1>5. \A S \in SUBSET U :
         (freeHead # None => freeHead \in S) /\ (\A i \in S : nx[i] # None => nx[i] \in S) => S = U
  BY <1>4 DEF FreeListLinked, Linked
<1> HIDE DEF m, U, nx
<1>6. \A g : (g = Iterate(nx, freeHead, g, m) => \A n \in 0 .. m : g[n] \in U \cup {None})
  <2> DEFINE D == U \cup {None}
  <2>1. freeHead \in D /\ \A x \in D : nx[x] \in D BY <1>4
  <2> HIDE DEF D
  <2>2. \A g : (g = Iterate(nx, freeHead, g, m) => \A n \in 0 .. m : g[n] \in D)
    BY <1>1, <2>1, IterateIn
  <2> QED BY <2>2 DEF D
<1>7. PICK g : g = Iterate(nx, freeHead, g, m) BY <1>1, IterateExists
<1>8. \A x \in U \cup {None} : nx[x] = IF x \in U THEN bucket[x].next ELSE None BY DEF nx
<1>9. \A n \in 0 .. m : n # 0 => n - 1 \in 0 .. m BY <1>1
<1>10. Iterate(nx, freeHead, g, m) = Step(g) BY <1>6, <1>7, <1>8, <1>9 DEF Iterate
<1>11. chain = Step(chain) BY <1>7, <1>10
<1> HIDE DEF chain
<1>12. \A n \in 0 .. m : chain[n] \in U \cup {None}
  <2> DEFINE T == {n \in 0 .. m : chain[n] \notin U \cup {None}}
  <2> SUFFICES ASSUME T # {} PROVE FALSE OBVIOUS
  <2>1. T \in SUBSET Nat BY <1>1
  <2> HIDE DEF T
  <2>2. PICK n \in T : \A y \in T : n <= y BY <2>1, NatMin
  <2>3. n \in 0 .. m /\ chain[n] \notin U \cup {None} BY <2>2 DEF T
  <2>4. chain[n] = IF n = 0 THEN freeHead
                   ELSE IF chain[n - 1] \in U THEN bucket[chain[n - 1]].next ELSE None
    BY <1>11, <2>3
  <2>5. n # 0 BY <1>4, <2>3, <2>4
  <2>6. n - 1 \in 0 .. m /\ ~(n <= n - 1) BY <1>1, <2>3, <2>5
  <2>7. chain[n - 1] \in U \cup {None} BY <2>2, <2>6 DEF T
  <2> QED BY <1>4, <2>3, <2>4, <2>5
<1>13. Iterate(nx, freeHead, chain, m) = Step(chain) BY <1>8, <1>9, <1>12 DEF Iterate
<1>14. chain = Iterate(nx, freeHead, chain, m) BY <1>11, <1>13
<1>15. U = {chain[n] : n \in 0 .. m} \ {None}
  <2>1. \A i \in U : nx[i] \in U \cup {None} BY <1>4
  <2>2. nx[None] = None BY <1>4
  <2>3. freeHead \in U \cup {None} BY <1>4
  <2>4. None \notin U BY <1>2
  <2> QED BY <1>1, <1>3, <1>5, <1>14, <2>1, <2>2, <2>3, <2>4, ListCovered
<1> QED BY <1>15 DEF StoreExact, chain, m, U
-----------------------------------------------------------------------------
(* What every step keeps.                                                   *)

\* Which objects are stored, and where.
LEMMA StoredFacts ==
  ASSUME TypeOK, HandlesExact
  PROVE  /\ Stored \subseteq alloc /\ alloc \subseteq Object /\ Stored \subseteq Object
         /\ Nil \notin Object
         /\ \A h \in DOMAIN bucket : IsValid(h) =>
            bucket[h].obj \in Stored /\ handle[bucket[h].obj] = h
         /\ \A o \in Stored : handle[o] \in DOMAIN bucket /\ IsValid(handle[o]) /\ bucket[handle[o]].obj = o
         /\ \A o \in alloc \ Stored : handle[o] \in DOMAIN bucket /\ bucket[handle[o]].tag = "dying"
                                      /\ bucket[handle[o]].obj = o
<1>1. \A h \in DOMAIN bucket : bucket[h] \in Buckets
  <2>1. DOMAIN bucket = 1 .. Len(bucket) BY LenProperties DEF TypeOK
  <2> QED BY <2>1, ElementOfSeq DEF TypeOK
<1>2. \A h \in DOMAIN bucket : bucket[h].tag \in {"valid", "dying", "free"} BY <1>1 DEF Buckets
<1>3. \A h \in DOMAIN bucket : IsValid(h) => bucket[h].obj \in alloc /\ handle[bucket[h].obj] = h
  BY DEF IsValid, HandlesExact, FreeBuckets
<1>4. Stored \subseteq alloc BY <1>3 DEF Stored
<1>5. \A h \in DOMAIN bucket : IsValid(h) => bucket[h].obj \in Stored BY DEF Stored
<1>6. \A o \in alloc : /\ handle[o] \in DOMAIN bucket /\ bucket[handle[o]].tag # "free"
                       /\ bucket[handle[o]].obj = o
  BY DEF HandlesExact, FreeBuckets
<1>7. \A o \in Stored : IsValid(handle[o]) BY <1>3 DEF Stored
<1>8. \A o \in alloc \ Stored : ~IsValid(handle[o]) BY <1>5, <1>6
<1>9. \A o \in alloc \ Stored : bucket[handle[o]].tag = "dying" BY <1>2, <1>6, <1>8 DEF IsValid
<1>10. alloc \subseteq Object /\ Nil \notin Object BY SlotFinite DEF TypeOK
<1> QED BY <1>3, <1>4, <1>5, <1>6, <1>7, <1>9, <1>10

\* A step that leaves the buckets alone.
LEMMA StoreSame ==
  ASSUME UNCHANGED <<storeVars, alloc, handle>>
  PROVE  /\ Stored' = Stored /\ FreeBuckets' = FreeBuckets /\ Top' = Top
         /\ HandlesExact => HandlesExact'
         /\ FreeListLinked => FreeListLinked'
         /\ \A h : IsValid(h)' = IsValid(h)
<1>1. bucket' = bucket /\ size' = size /\ freeHead' = freeHead /\ alloc' = alloc /\ handle' = handle
  BY DEF storeVars
<1>2. Stored' = Stored /\ FreeBuckets' = FreeBuckets /\ Top' = Top /\ \A h :
          IsValid(h)' = IsValid(h)
  BY <1>1 DEF Stored, FreeBuckets, Top, IsValid
<1>3. HandlesExact => HandlesExact' BY <1>1, <1>2 DEF HandlesExact
<1>4. FreeListLinked => FreeListLinked'
  <2> SUFFICES ASSUME FreeListLinked PROVE FreeListLinked' OBVIOUS
  <2>1. \A S \in SUBSET FreeBuckets' : Linked(S)' => S = FreeBuckets'
    BY <1>1, <1>2 DEF FreeListLinked, Linked
  <2>2. freeHead' \in FreeBuckets' \cup {None} BY <1>1, <1>2 DEF FreeListLinked
  <2>3. \A h \in FreeBuckets' :
          /\ bucket'[h].next \in FreeBuckets' \cup {None}
          /\ bucket'[h].next # None =>
                /\ bucket'[h].next # freeHead'
                /\ \A k \in FreeBuckets' : bucket'[k].next = bucket'[h].next => k = h
    BY <1>1, <1>2 DEF FreeListLinked
  <2> QED BY <2>1, <2>2, <2>3 DEF FreeListLinked
<1> QED BY <1>2, <1>3, <1>4

LEMMA CountsKeep ==
  ASSUME IInv, TypeOK', Stored' \subseteq Stored,
         \A o \in Stored' :
            /\ Holders(o)' + rc[o] <= Holders(o) + rc'[o]
            /\ Excused' \/ Holders(o)' + rc[o] = Holders(o) + rc'[o],
         Excused => Excused'
  PROVE  CountsExact'
<1> SUFFICES ASSUME NEW o \in Stored'
             PROVE  Holders(o)' <= rc'[o] /\ (Excused' \/ Holders(o)' = rc'[o])
  BY DEF CountsExact, Excused
<1>1. o \in Object BY StoredFacts DEF IInv
<1>2. Holders(o) \in Nat /\ Holders(o)' \in Nat BY <1>1, HoldersSum, HoldersSumNext DEF IInv
<1>3. rc[o] \in Nat /\ rc'[o] \in Nat BY <1>1 DEF TypeOK, IInv
<1>4. Holders(o) <= rc[o] /\ (Excused \/ Holders(o) = rc[o]) BY DEF IInv, CountsExact, Excused
<1>5. Holders(o)' + rc[o] <= Holders(o) + rc'[o] OBVIOUS
<1>6. Excused' \/ Holders(o)' + rc[o] = Holders(o) + rc'[o] OBVIOUS
<1> DEFINE h == Holders(o)
           k == Holders(o)'
<1> HIDE DEF h, k
<1>7. /\ h \in Nat /\ k \in Nat /\ h <= rc[o] /\ (Excused \/ h = rc[o]) /\ k + rc[o] <= h + rc'[o]
      /\ (Excused' \/ k + rc[o] = h + rc'[o])
  BY <1>2, <1>4, <1>5, <1>6 DEF h, k
<1>8. k <= rc'[o] BY <1>3, <1>7
<1>9. Excused' \/ k = rc'[o]
  <2> SUFFICES ASSUME ~Excused' PROVE k = rc'[o] OBVIOUS
  <2>1. h = rc[o] /\ k + rc[o] = h + rc'[o] BY <1>7
  <2> QED BY <1>3, <1>7, <2>1
<1> QED BY <1>8, <1>9 DEF k

\* What is freed early keeps its reference too many.
LEMMA ReleasedKeep ==
  ASSUME IInv, TypeOK', Stored' \subseteq Stored, freeCalled' \cap Stored' \subseteq freeCalled,
         \A o \in Stored' : Holders(o)' + rc[o] <= Holders(o) + rc'[o],
         \/ phase' \in {"done", "aborted"} \/ phase' = phase
         \/ ~Releasing /\ phase \notin {"done", "aborted"}
  PROVE  ReleasedHeld'
<1> SUFFICES ASSUME phase' \notin {"done", "aborted"}, NEW o \in Stored' \cap freeCalled'
             PROVE  Releasing' /\ ((phase' = "discard" /\ o \in StdFree) \/ Holders(o)' < rc'[o])
  BY DEF ReleasedHeld
<1>1. o \in Object /\ o \in Stored /\ o \in freeCalled BY StoredFacts DEF IInv
<1>2. Holders(o) \in Nat /\ Holders(o)' \in Nat BY <1>1, HoldersSum, HoldersSumNext DEF IInv
<1>3. rc[o] \in Nat /\ rc'[o] \in Nat BY <1>1 DEF TypeOK, IInv
<1>4. phase \notin {"done", "aborted"} =>
         Releasing /\ ((phase = "discard" /\ o \in StdFree) \/ Holders(o) < rc[o])
  BY <1>1 DEF IInv, ReleasedHeld
<1>5. phase' = phase BY <1>4
<1>6. Releasing /\ Releasing' BY <1>4, <1>5 DEF Releasing
<1>7. Holders(o)' + rc[o] <= Holders(o) + rc'[o] OBVIOUS
<1> DEFINE h == Holders(o)
           k == Holders(o)'
<1> HIDE DEF h, k
<1>8. h \in Nat /\ k \in Nat /\ k + rc[o] <= h + rc'[o] BY <1>2, <1>7 DEF h, k
<1>9. h < rc[o] => k < rc'[o] BY <1>3, <1>8
<1>10. Holders(o) < rc[o] => Holders(o)' < rc'[o] BY <1>9 DEF h, k
<1> QED BY <1>4, <1>5, <1>6, <1>10
-----------------------------------------------------------------------------
(* Giving up a reference, and what other steps have in common.              *)

Waiting(st) == \A i \in DOMAIN st : st[i].at \notin {"enter", "check"}

\* Drop: the count goes down by one, and at zero the object's del comes on top.
LEMMA DropOK ==
  ASSUME NEW c \in Object \cup {Nil}, NEW r \in [Object -> Nat], NEW s \in Seq(Frames), NEW b,
         Nested(s, b), Waiting(s), c # Nil => r[c] # 0, Drop(c, r, s)
  PROVE  /\ rc' \in [Object -> Nat] /\ stack' \in Seq(Frames) /\ Nested(stack', b)
         /\ \A o \in Object : rc'[o] + (IF c = o THEN 1 ELSE 0) = r[o]
         /\ \A o : Cardinality(HoldF(o, stack')) = Cardinality(HoldF(o, s))
         /\ \A i \in DOMAIN stack' :
               \/ \E j \in DOMAIN s : stack'[i] = s[j]
               \/ c # Nil /\ stack'[i] = DelFrame(c, "enter") /\ rc'[c] = 0
<1>1. Nil \notin Object BY SlotFinite
<1>2. rc' \in [Object -> Nat] /\ \A o \in Object : rc'[o] + (IF c = o THEN 1 ELSE 0) = r[o]
  <2>1. CASE c = Nil BY <1>1, <2>1 DEF Drop
  <2>2. CASE c # Nil
    <3>1. r[c] - 1 \in Nat /\ (r[c] - 1) + 1 = r[c] BY <2>2
    <3>2. rc' = [r EXCEPT ![c] = r[c] - 1] BY <2>2 DEF Drop
    <3> QED BY <2>2, <3>1, <3>2
  <2> QED BY <2>1, <2>2
<1>3. CASE ~(c # Nil /\ r[c] = 1)
  <2>1. stack' = s BY <1>3 DEF Drop
  <2> QED BY <1>2, <2>1
<1>4. CASE c # Nil /\ r[c] = 1
  <2> DEFINE f == DelFrame(c, "enter")
  <2>1. stack' = <<f>> \o s BY <1>4 DEF Drop
  <2>2. f \in Frames /\ f.fn = "del" /\ f.obj = c /\ f.at = "enter" BY <1>4, FrameFacts
  <2>3. \A o : ~Holding(f, o) BY <2>2 DEF Holding
  <2>4. rc'[c] = 0 BY <1>2, <1>4
  <2> HIDE DEF f
  <2>5. stack' \in Seq(Frames) /\ \A i \in DOMAIN stack' : i = 1 \/ \E j \in DOMAIN s :
            stack'[i] = s[j]
        /\ stack'[1] = f
    BY <2>1, <2>2, ConsSeq
  <2>6. stack'[1] = f BY <2>1, <2>2, ConsSeq
  <2>7. \A o : Cardinality(HoldF(o, stack')) = Cardinality(HoldF(o, s))
    <3> TAKE o
    <3>1. Cardinality(HoldF(o, s)) \in Nat BY HoldFinite
    <3>2. Cardinality(HoldF(o, <<f>> \o s)) =
             Cardinality(HoldF(o, s)) + (IF Holding(f, o) THEN 1 ELSE 0)
      BY <2>2, HoldCons
    <3>3. Cardinality(HoldF(o, <<f>> \o s)) = Cardinality(HoldF(o, s)) + 0 BY <2>3, <3>2
    <3> QED BY <2>1, <3>1, <3>3
  <2>8. Nested(stack', b)
    <3>1. f.fn # "dtor" /\ f.at # "free" BY <2>2
    <3> QED BY <2>1, <2>2, <3>1, NestedCons DEF Waiting
  <2> QED BY <1>2, <1>4, <2>4, <2>5, <2>6, <2>7, <2>8 DEF f
<1> QED BY <1>3, <1>4

\* A call that waits relies on nothing that a step on top of it changes.
LEMMA FrameKept ==
  ASSUME NEW f \in Frames, f.at \notin {"enter", "check"}, FrameOK(f),
         Stored' = Stored, alloc' = alloc, dtorCalled \subseteq dtorCalled'
  PROVE  FrameOK(f)'
BY DEF FrameOK

LEMMA CallsAfterDrop ==
  ASSUME IInv, NEW c \in Stored \cup {Nil}, NEW s \in Seq(Frames), Waiting(s),
         \A i \in DOMAIN s : FrameOK(s[i]),
         Stored' = Stored, alloc' = alloc, dtorCalled \subseteq dtorCalled',
         c # Nil /\ rc'[c] = 0 /\ c \in freeCalled' => phase' = "discard" /\ c \in StdFree,
         \A i \in DOMAIN stack' :
               \/ \E j \in DOMAIN s : stack'[i] = s[j]
               \/ c # Nil /\ stack'[i] = DelFrame(c, "enter") /\ rc'[c] = 0
  PROVE  Calls'
<1> SUFFICES ASSUME NEW i \in DOMAIN stack', NEW f, f = stack'[i] PROVE FrameOK(f)'
  BY DEF Calls, FrameOK
<1>1. CASE \E j \in DOMAIN s : stack'[i] = s[j]
  <2>1. PICK j \in DOMAIN s : f = s[j] BY <1>1
  <2>2. DOMAIN s = 1 .. Len(s) BY LenProperties
  <2>3. f \in Frames BY <2>1, <2>2, ElementOfSeq
  <2>4. f.at \notin {"enter", "check"} /\ FrameOK(f) BY <2>1 DEF Waiting
  <2> QED BY <2>3, <2>4, FrameKept
<1>2. CASE c # Nil /\ stack'[i] = DelFrame(c, "enter") /\ rc'[c] = 0
  <2>1. c \in Stored /\ c \in Object BY <1>2, StoredFacts DEF IInv
  <2>2. f.fn = "del" /\ f.obj = c /\ f.at = "enter" BY <1>2, <2>1, FrameFacts
  <2> QED BY <1>2, <2>1, <2>2 DEF FrameOK
<1> QED BY <1>1, <1>2

\* What the calls in progress look like.
LEMMA StackFacts ==
  ASSUME IInv, stack # <<>>
  PROVE  /\ Head(stack) \in Frames /\ FrameOK(Head(stack)) /\ This \in alloc /\ This \in Object
         /\ Tail(stack) \in Seq(Frames) /\ Nested(Tail(stack), Swept) /\ Waiting(Tail(stack))
         /\ \A i \in DOMAIN Tail(stack) : FrameOK(Tail(stack)[i])
         /\ Head(stack).at = "free" =>
               \A i \in DOMAIN Tail(stack) : Tail(stack)[i].at = "free" => Tail(stack)[i].obj # This
         /\ Head(stack).fn = "dtor" =>
               IF Tail(stack) = <<>> THEN This = Swept
               ELSE Tail(stack)[1] = DelFrame(This, "called")
         /\ (Head(stack).at # "free" => This \in Stored)
         /\ phase \notin {"done", "aborted"}
         /\ \A o : Cardinality(HoldF(o, stack)) =
                     Cardinality(HoldF(o, Tail(stack))) + (IF Holding(Head(stack), o) THEN 1 ELSE 0)
<1>1. stack \in Seq(Frames) /\ Nested(stack, Swept) BY DEF IInv, TypeOK
<1>2. /\ Tail(stack) \in Seq(Frames) /\ Head(stack) = stack[1] /\ Head(stack) \in Frames
      /\ 1 \in DOMAIN stack
      /\ \A i \in DOMAIN Tail(stack) : i + 1 \in DOMAIN stack /\ Tail(stack)[i] = stack[i + 1]
  BY <1>1, TailSeq
<1>3. FrameOK(Head(stack)) /\ \A i \in DOMAIN Tail(stack) : FrameOK(Tail(stack)[i])
  BY <1>2 DEF IInv, Calls
<1>4. This \in Object BY <1>2, FrameFacts DEF This
<1>5. /\ (Head(stack).at # "free" => This \in Stored) /\ This \in alloc
  BY <1>3, StoredFacts DEF IInv, FrameOK, This
<1>6. phase \notin {"done", "aborted"} BY DEF IInv, Control
<1>7. /\ Nested(Tail(stack), Swept) /\ Waiting(Tail(stack))
      /\ Head(stack).at = "free" =>
            \A i \in DOMAIN Tail(stack) : Tail(stack)[i].at = "free" => Tail(stack)[i].obj # This
      /\ Head(stack).fn = "dtor" =>
            IF Tail(stack) = <<>> THEN This = Swept
            ELSE Tail(stack)[1] = DelFrame(This, "called")
  BY <1>1, NestedTail DEF Waiting, This
<1>8. \A o : Cardinality(HoldF(o, stack)) =
               Cardinality(HoldF(o, Tail(stack))) + (IF Holding(Head(stack), o) THEN 1 ELSE 0)
  BY <1>1, HoldTail
<1> QED BY <1>2, <1>3, <1>4, <1>5, <1>6, <1>7, <1>8
-----------------------------------------------------------------------------
(* Steps of the program.                                                    *)

LEMMA FourChanges ==
  ASSUME NEW v \in Nat, NEW p \in Nat, NEW f \in Nat, NEW w \in Nat,
         NEW a \in Int, NEW b \in Int, NEW c \in Int, NEW d \in Int,
         NEW v2 \in Nat, NEW p2 \in Nat, NEW f2 \in Nat, NEW w2 \in Nat,
         v2 = v + a, p2 = p + b, f2 = f + c, w2 = w + d
  PROVE  v2 + p2 + f2 + w2 = v + p + f + w + (a + b + c + d)
OBVIOUS

\* How the number of holders changes.
LEMMA Delta ==
  ASSUME TypeOK, TypeOK', NEW o \in Object, NEW a \in Int, NEW b \in Int, NEW c \in Int,
      NEW d \in Int,
         ByVars(o)' = ByVars(o) + a, ByProps(o)' = ByProps(o) + b,
         ByCalls(o)' = ByCalls(o) + c, BySweep(o)' = BySweep(o) + d
  PROVE  Holders(o)' = Holders(o) + (a + b + c + d) /\ Holders(o) \in Nat /\ Holders(o)' \in Nat
<1>1. /\ Holders(o) = ByVars(o) + ByProps(o) + ByCalls(o) + BySweep(o)
      /\ ByVars(o) \in Nat /\ ByProps(o) \in Nat /\ ByCalls(o) \in Nat /\ BySweep(o) \in Nat
      /\ Holders(o) \in Nat
  BY HoldersSum
<1>2. /\ Holders(o)' = ByVars(o)' + ByProps(o)' + ByCalls(o)' + BySweep(o)'
      /\ ByVars(o)' \in Nat /\ ByProps(o)' \in Nat /\ ByCalls(o)' \in Nat /\ BySweep(o)' \in Nat
      /\ Holders(o)' \in Nat
  BY HoldersSumNext
<1>3. ByVars(o)' + ByProps(o)' + ByCalls(o)' + BySweep(o)' =
        ByVars(o) + ByProps(o) + ByCalls(o) + BySweep(o) + (a + b + c + d)
  <2> DEFINE v == ByVars(o)
             p == ByProps(o)
             f == ByCalls(o)
             w == BySweep(o)
             v2 == ByVars(o)'
             p2 == ByProps(o)'
             f2 == ByCalls(o)'
             w2 == BySweep(o)'
  <2>1. v \in Nat /\ p \in Nat /\ f \in Nat /\ w \in Nat BY <1>1
  <2>2. v2 \in Nat /\ p2 \in Nat /\ f2 \in Nat /\ w2 \in Nat BY <1>2
  <2>3. v2 = v + a /\ p2 = p + b /\ f2 = f + c /\ w2 = w + d OBVIOUS
  <2> HIDE DEF v, p, f, w, v2, p2, f2, w2
  <2>4. v2 + p2 + f2 + w2 = v + p + f + w + (a + b + c + d) BY <2>1, <2>2, <2>3, FourChanges
  <2> QED BY <2>4 DEF v, p, f, w, v2, p2, f2, w2
<1> QED BY <1>1, <1>2, <1>3, Zenon

\* What does not change.
LEMMA SameHolders ==
  ASSUME NEW o
  PROVE  /\ vars' = vars => ByVars(o)' = ByVars(o)
         /\ prop' = prop /\ alloc' = alloc => ByProps(o)' = ByProps(o)
         /\ stack' = stack => ByCalls(o)' = ByCalls(o)
         /\ called' = called /\ cursor' = cursor /\ bucket' = bucket => BySweep(o)' = BySweep(o)
<1>1. vars' = vars => ByVars(o)' = ByVars(o) BY DEF ByVars
<1>2. prop' = prop /\ alloc' = alloc => ByProps(o)' = ByProps(o) BY DEF ByProps
<1>3. stack' = stack => ByCalls(o)' = ByCalls(o) BY DEF ByCalls
<1>4. called' = called /\ cursor' = cursor /\ bucket' = bucket => BySweep(o)' = BySweep(o)
  BY DEF BySweep
<1> QED BY <1>1, <1>2, <1>3, <1>4

LEMMA OneVariable ==
  ASSUME TypeOK, NEW s \in Slot, NEW x, vars' = [vars EXCEPT ![s] = x], NEW o \in Object
  PROVE  ByVars(o)' = ByVars(o) + ((IF x = o THEN 1 ELSE 0) - (IF vars[s] = o THEN 1 ELSE 0))
<1>1. IsFiniteSet(Slot) BY SlotFinite
<1>2. vars'[s] = x /\ \A t \in Slot : t # s => vars'[t] = vars[t] BY DEF TypeOK
<1>3. Count(Slot, vars', o) + (IF vars[s] = o THEN 1 ELSE 0) =
        Count(Slot, vars, o) + (IF vars'[s] = o THEN 1 ELSE 0)
  <2>1. \A g, h : (\A t \in Slot : t # s => h[t] = g[t]) =>
           Count(Slot, h, o) + (IF g[s] = o THEN 1 ELSE 0) = Count(Slot, g, o) +
               (IF h[s] = o THEN 1 ELSE 0)
    BY <1>1, CountExcept
  <2> QED BY <1>2, <2>1
<1>4. Count(Slot, vars', o) \in Nat /\ Count(Slot, vars, o) \in Nat BY <1>1, CountNat
<1>5. Count(Slot, vars', o) = Count(Slot, vars, o) +
    ((IF x = o THEN 1 ELSE 0) - (IF vars[s] = o THEN 1 ELSE 0))
  BY <1>2, <1>3, <1>4
<1> QED BY <1>5 DEF ByVars

LEMMA Cleared ==
  ASSUME TypeOK, NEW s \in Slot, vars' = [vars EXCEPT ![s] = Nil], NEW o \in Object
  PROVE  ByVars(o)' = ByVars(o) + ((IF Nil = o THEN 1 ELSE 0) - (IF vars[s] = o THEN 1 ELSE 0))
BY OneVariable

LEMMA OneProperty ==
  ASSUME TypeOK, NEW p \in alloc, NEW x, prop' = [prop EXCEPT ![p] = x], alloc' = alloc,
      NEW o \in Object
  PROVE  ByProps(o)' = ByProps(o) + ((IF x = o THEN 1 ELSE 0) - (IF prop[p] = o THEN 1 ELSE 0))
<1>1. IsFiniteSet(alloc) /\ alloc \subseteq Object BY SlotFinite, FS_Subset DEF TypeOK
<1>2. prop'[p] = x /\ \A t \in alloc : t # p => prop'[t] = prop[t] BY <1>1 DEF TypeOK
<1>3. Count(alloc, prop', o) + (IF prop[p] = o THEN 1 ELSE 0) =
        Count(alloc, prop, o) + (IF prop'[p] = o THEN 1 ELSE 0)
  <2>1. \A g, h : (\A t \in alloc : t # p => h[t] = g[t]) =>
           Count(alloc, h, o) + (IF g[p] = o THEN 1 ELSE 0) = Count(alloc, g, o) +
               (IF h[p] = o THEN 1 ELSE 0)
    BY <1>1, CountExcept
  <2> QED BY <1>2, <2>1
<1>4. Count(alloc, prop', o) \in Nat /\ Count(alloc, prop, o) \in Nat BY <1>1, CountNat
<1>5. Count(alloc, prop', o) = Count(alloc, prop, o) +
    ((IF x = o THEN 1 ELSE 0) - (IF prop[p] = o THEN 1 ELSE 0))
  BY <1>2, <1>3, <1>4
<1> QED BY <1>5 DEF ByProps

\* A step of a call or of the program, which leaves the phase alone.
LEMMA Work ==
  ASSUME IInv, TypeOK', UNCHANGED <<storeVars, modes, objects, loopVars, called>>,
         phase \notin {"done", "aborted"},
         dtorCalled \subseteq dtorCalled', dtorCalled' \subseteq dtorCalled \cup alloc,
         \A o \in Object \ alloc : prop'[o] = prop[o] /\ runs'[o] = runs[o],
         \A s \in Slot : vars'[s] \in Stored \cup {Nil},
         \A o \in alloc : prop'[o] \in Stored \cup {Nil},
         \A o \in alloc \ Stored : prop'[o] \in {prop[o], Nil},
         \A o \in Stored : Holders(o)' + rc[o] = Holders(o) + rc'[o],
         Nested(stack', Swept), Calls', RunsOnce'
  PROVE  IInv'
<1>1. /\ bucket' = bucket /\ size' = size /\ freeHead' = freeHead /\ noReuse' = noReuse
      /\ unclean' = unclean /\ alloc' = alloc /\ handle' = handle /\ freeCalled' = freeCalled
      /\ phase' = phase /\ cursor' = cursor /\ symbols' = symbols /\ called' = called
  BY DEF storeVars, modes, objects, loopVars
<1>2. /\ Stored' = Stored /\ Top' = Top /\ HandlesExact' /\ FreeListLinked'
      /\ \A h : IsValid(h)' = IsValid(h)
  BY <1>1, StoreSame DEF IInv
<1>3. Fresh' BY <1>1 DEF Fresh, IInv
<1>5. Excused' = Excused BY <1>1 DEF Excused, Releasing
<1>4. References'
  <2>1. \A o \in alloc \ Stored : prop'[o] = Nil \/ Excused BY DEF IInv, References
  <2> QED BY <1>1, <1>2, <1>5, <2>1 DEF References
<1>6. \A o \in Stored : Holders(o)' + rc[o] <= Holders(o) + rc'[o]
  <2> TAKE o \in Stored
  <2>1. o \in Object BY StoredFacts DEF IInv
  <2>2. Holders(o) \in Nat /\ rc'[o] \in Nat BY <2>1, HoldersSum DEF IInv, TypeOK
  <2>3. Holders(o)' + rc[o] = Holders(o) + rc'[o] OBVIOUS
  <2> QED BY <2>2, <2>3
<1>7. CountsExact' BY <1>2, <1>5, <1>6, CountsKeep
<1>8. ReleasedHeld' BY <1>1, <1>2, <1>6, ReleasedKeep
<1>9. Swept' = Swept BY <1>1 DEF Swept
<1>10. Nested(stack', Swept') BY <1>9
<1>11. NoneMissed' BY <1>1, <1>2 DEF NoneMissed, IInv
<1>12. Control' BY <1>1, <1>2, <1>9 DEF Control, IInv, Releasing
<1> QED BY <1>2, <1>3, <1>4, <1>7, <1>8, <1>10, <1>11, <1>12 DEF IInv

LEMMA UserFacts ==
  ASSUME IInv, UserRunning
  PROVE  /\ Waiting(stack) /\ stack \in Seq(Frames) /\ Nested(stack, Swept)
         /\ \A i \in DOMAIN stack : FrameOK(stack[i])
         /\ Reachable \subseteq Stored /\ Stored \subseteq alloc /\ alloc \subseteq Object
         /\ ActiveExecutor => phase \notin {"done", "aborted"} /\ ~Releasing
         /\ ~Releasing /\ phase \notin {"done", "aborted"} => Stored \cap freeCalled = {}
<1>1. stack \in Seq(Frames) /\ Nested(stack, Swept) /\ \A i \in DOMAIN stack : FrameOK(stack[i])
  BY DEF IInv, TypeOK, Calls
<1>2. Stored \subseteq alloc /\ alloc \subseteq Object BY StoredFacts DEF IInv
<1>3. stack # <<>> => Head(stack).at = "run" /\ This \in Stored
  BY StackFacts DEF UserRunning, In
<1>4. Waiting(stack)
  <2>1. CASE stack = <<>> BY <2>1 DEF Waiting
  <2>2. CASE stack # <<>>
    <3>1. stack[1].at = "run" BY <1>1, <1>3, <2>2, TailSeq
    <3> QED BY <1>1, <3>1 DEF Waiting, Nested
  <2> QED BY <2>1, <2>2
<1>5. Reachable \subseteq Stored BY <1>2, <1>3, ReachableStored DEF IInv
<1>6. ActiveExecutor => phase \notin {"done", "aborted"} /\ ~Releasing
  BY DEF ActiveExecutor, Releasing
<1>7. ~Releasing /\ phase \notin {"done", "aborted"} => Stored \cap freeCalled = {}
  BY DEF IInv, ReleasedHeld
<1> QED BY <1>1, <1>2, <1>4, <1>5, <1>6, <1>7
-----------------------------------------------------------------------------
(* Variables and properties.                                                *)

\* A reference to a stored object has been counted.
LEMMA Counted ==
  ASSUME IInv, NEW o \in Stored
  PROVE  /\ o \in Object /\ rc[o] \in Nat /\ Holders(o) \in Nat /\ Holders(o) <= rc[o]
         /\ \A s \in Slot : vars[s] = o => rc[o] # 0
         /\ \A p \in alloc : prop[p] = o => rc[o] # 0
         /\ \A i \in DOMAIN stack : Holding(stack[i], o) => rc[o] # 0
         /\ called /\ bucket[cursor].obj = o => rc[o] # 0
<1>1. o \in Object /\ rc[o] \in Nat /\ Holders(o) \in Nat /\ Holders(o) <= rc[o] /\ TypeOK
  BY StoredFacts, HoldersSum DEF IInv, TypeOK, CountsExact
<1>2. rc[o] = 0 => Holders(o) = 0 BY <1>1
<1> QED BY <1>1, <1>2, Unheld

\* An object whose contents the release has freed is not dropped to zero.
LEMMA NotReleased ==
  ASSUME IInv, NEW o \in Stored, rc[o] = 1, Holders(o) # 0, phase \notin {"done", "aborted"}
  PROVE  o \in freeCalled => phase = "discard" /\ o \in StdFree
<1>1. Holders(o) \in Nat BY Counted
<1>2. ~(Holders(o) < rc[o]) BY <1>1
<1> QED BY <1>2 DEF IInv, ReleasedHeld

LEMMA AssignOK ==
  ASSUME IInv, NEW s \in Slot, NEW o \in Object, Assign(s, o)
  PROVE  IInv'
<1>1. /\ UserRunning /\ ActiveExecutor /\ vars[s] = Nil /\ o \in Reachable
      /\ vars' = [vars EXCEPT ![s] = o] /\ rc' = [rc EXCEPT ![o] = @ + 1]
      /\ UNCHANGED <<storeVars, modes, objects, dtorCalled, prop, loopVars, called, stack, runs>>
  BY DEF Assign, UserActs
<1>2. /\ Waiting(stack) /\ stack \in Seq(Frames) /\ Nested(stack, Swept)
      /\ \A i \in DOMAIN stack : FrameOK(stack[i])
      /\ o \in Stored /\ phase \notin {"done", "aborted"}
  BY <1>1, UserFacts
<1>3. TypeOK' BY <1>1 DEF IInv, TypeOK, storeVars, modes, objects, loopVars
<1>4. Stored' = Stored /\ alloc' = alloc BY <1>1, StoreSame DEF objects, storeVars
<1>5. Calls'
  <2>1. Nil \in Stored \cup {Nil} /\ \A i \in DOMAIN stack' : \E j \in DOMAIN stack :
            stack'[i] = stack[j]
    BY <1>1
  <2> QED BY <1>1, <1>2, <1>4, <2>1, CallsAfterDrop
<1>6. ASSUME NEW p \in Stored PROVE Holders(p)' + rc[p] = Holders(p) + rc'[p]
  <2> DEFINE d == IF o = p THEN 1 ELSE 0
  <2>1. p \in Object /\ TypeOK /\ Nil # p BY StoredFacts DEF IInv
  <2>2. ByVars(p)' = ByVars(p) + (d - 0) BY <1>1, <2>1, OneVariable
  <2>3. ByProps(p)' = ByProps(p) + 0 /\ ByCalls(p)' = ByCalls(p) + 0 /\ BySweep(p)' = BySweep(p) + 0
    BY <1>1, <1>3, <2>1, SameHolders, HoldersSum DEF storeVars, objects, loopVars
  <2>4. Holders(p)' = Holders(p) + ((d - 0) + 0 + 0 + 0) /\ Holders(p) \in Nat
    BY <1>3, <2>1, <2>2, <2>3, Delta
  <2>5. rc'[p] = rc[p] + d /\ rc[p] \in Nat BY <1>1, <2>1 DEF TypeOK
  <2> HIDE DEF d
  <2>6. d \in Nat BY DEF d
  <2> QED BY <2>4, <2>5, <2>6
<1> QED BY <1>1, <1>2, <1>3, <1>5, <1>6, Work DEF IInv, References, RunsOnce, loopVars, objects
LEMMA UnsetOK ==
  ASSUME IInv, NEW s \in Slot, Unset(s)
  PROVE  IInv'
<1> DEFINE c == vars[s]
<1>1. /\ UserRunning /\ ActiveExecutor /\ c # Nil
      /\ vars' = [vars EXCEPT ![s] = Nil] /\ Drop(c, rc, stack)
      /\ UNCHANGED <<storeVars, modes, objects, dtorCalled, prop, loopVars, called, runs>>
  BY DEF Unset, UserActs
<1>2. /\ Waiting(stack) /\ stack \in Seq(Frames) /\ Nested(stack, Swept)
      /\ \A i \in DOMAIN stack : FrameOK(stack[i])
      /\ phase \notin {"done", "aborted"} /\ ~Releasing /\ Stored \cap freeCalled = {}
  BY <1>1, UserFacts
<1>3. /\ c \in Stored /\ c \in Object /\ rc[c] # 0 /\ rc \in [Object -> Nat] /\ TypeOK
  BY <1>1, Counted DEF IInv, References, TypeOK
<1>4. /\ rc' \in [Object -> Nat] /\ stack' \in Seq(Frames) /\ Nested(stack', Swept)
      /\ \A o \in Object : rc'[o] + (IF c = o THEN 1 ELSE 0) = rc[o]
      /\ \A o : Cardinality(HoldF(o, stack')) = Cardinality(HoldF(o, stack))
      /\ \A i \in DOMAIN stack' :
            \/ \E j \in DOMAIN stack : stack'[i] = stack[j]
            \/ c # Nil /\ stack'[i] = DelFrame(c, "enter") /\ rc'[c] = 0
  BY <1>1, <1>2, <1>3, DropOK
<1>5. TypeOK' BY <1>1, <1>4 DEF IInv, TypeOK, storeVars, modes, objects, loopVars
<1>6. Stored' = Stored /\ alloc' = alloc /\ freeCalled' = freeCalled
  BY <1>1, StoreSame DEF objects, storeVars
<1>7. Calls' BY <1>1, <1>2, <1>3, <1>4, <1>6, CallsAfterDrop
<1>8. ASSUME NEW p \in Stored PROVE Holders(p)' + rc[p] = Holders(p) + rc'[p]
  <2> DEFINE d == IF c = p THEN 1 ELSE 0
  <2>1. p \in Object /\ Nil # p BY StoredFacts DEF IInv
  <2>2. ByVars(p)' = ByVars(p) + (0 - d) BY <1>1, <1>3, <2>1, OneVariable
  <2>3. ByCalls(p)' = ByCalls(p) + 0 BY <1>3, <1>4, <2>1, HoldersSum DEF ByCalls
  <2>4. ByProps(p)' = ByProps(p) + 0 /\ BySweep(p)' = BySweep(p) + 0
    BY <1>1, <1>3, <2>1, SameHolders, HoldersSum DEF storeVars, objects, loopVars
  <2>5. Holders(p)' = Holders(p) + ((0 - d) + 0 + 0 + 0) /\ Holders(p) \in Nat
    BY <1>3, <1>5, <2>1, <2>2, <2>3, <2>4, Delta
  <2>6. rc'[p] + d = rc[p] /\ rc[p] \in Nat /\ rc'[p] \in Nat BY <1>3, <1>4, <2>1
  <2> HIDE DEF d
  <2>7. d \in Nat BY DEF d
  <2> QED BY <2>5, <2>6, <2>7
<1> QED BY <1>1, <1>2, <1>3, <1>4, <1>5, <1>7, <1>8, Work
  DEF IInv, References, RunsOnce, loopVars, objects

LEMMA SetPropertyOK ==
  ASSUME IInv, NEW o \in Object, NEW p \in Object, SetProperty(o, p)
  PROVE  IInv'
<1>1. /\ UserRunning /\ ActiveExecutor /\ {o, p} \subseteq Reachable /\ prop[o] = Nil
      /\ prop' = [prop EXCEPT ![o] = p] /\ rc' = [rc EXCEPT ![p] = @ + 1]
      /\ UNCHANGED <<storeVars, modes, objects, dtorCalled, vars, loopVars, called, stack, runs>>
  BY DEF SetProperty, UserActs
<1>2. /\ Waiting(stack) /\ stack \in Seq(Frames) /\ Nested(stack, Swept)
      /\ \A i \in DOMAIN stack : FrameOK(stack[i])
      /\ o \in Stored /\ p \in Stored /\ phase \notin {"done", "aborted"} /\ o \in alloc
  BY <1>1, UserFacts
<1>3. TypeOK' BY <1>1 DEF IInv, TypeOK, storeVars, modes, objects, loopVars
<1>4. Stored' = Stored /\ alloc' = alloc BY <1>1, StoreSame DEF objects, storeVars
<1>5. Calls'
  <2>1. Nil \in Stored \cup {Nil} /\ \A i \in DOMAIN stack' : \E j \in DOMAIN stack :
            stack'[i] = stack[j]
    BY <1>1
  <2> QED BY <1>1, <1>2, <1>4, <2>1, CallsAfterDrop
<1>6. ASSUME NEW q \in Stored PROVE Holders(q)' + rc[q] = Holders(q) + rc'[q]
  <2> DEFINE d == IF p = q THEN 1 ELSE 0
  <2>1. q \in Object /\ TypeOK /\ Nil # q BY StoredFacts DEF IInv
  <2>2. ByProps(q)' = ByProps(q) + (d - 0) BY <1>1, <1>2, <1>4, <2>1, OneProperty
  <2>3. ByVars(q)' = ByVars(q) + 0 /\ ByCalls(q)' = ByCalls(q) + 0 /\ BySweep(q)' = BySweep(q) + 0
    BY <1>1, <1>3, <2>1, SameHolders, HoldersSum DEF storeVars, objects, loopVars
  <2>4. Holders(q)' = Holders(q) + (0 + (d - 0) + 0 + 0) /\ Holders(q) \in Nat
    BY <1>3, <2>1, <2>2, <2>3, Delta
  <2>5. rc'[q] = rc[q] + d /\ rc[q] \in Nat BY <1>1, <2>1 DEF TypeOK
  <2> HIDE DEF d
  <2>6. d \in Nat BY DEF d
  <2> QED BY <2>4, <2>5, <2>6
<1>7. \A q \in alloc : prop'[q] \in Stored \cup {Nil} BY <1>1, <1>2 DEF IInv, TypeOK, References
<1>8. \A q \in Object \ Stored : prop'[q] = prop[q] BY <1>1, <1>2 DEF IInv, TypeOK
<1>9. Stored \subseteq alloc /\ alloc \subseteq Object BY StoredFacts DEF IInv
<1> QED BY <1>1, <1>2, <1>3, <1>5, <1>6, <1>7, <1>8, <1>9, Work
  DEF IInv, References, RunsOnce, loopVars, objects

\* DropProperty, by a step that otherwise only takes calls off the stack.
LEMMA DropPropertyOK ==
  ASSUME IInv, NEW x \in alloc, NEW s \in Seq(Frames), DropProperty(x, rc, s),
         Waiting(s), Nested(s, Swept), \A i \in DOMAIN s : FrameOK(s[i]),
         phase \notin {"done", "aborted"},
         UNCHANGED <<storeVars, modes, objects, dtorCalled, vars, loopVars, called>>,
         runs' \in [Object -> 0 .. 2], RunsOnce', \A o \in Object \ alloc : runs'[o] = runs[o],
         \A o : Cardinality(HoldF(o, s)) = Cardinality(HoldF(o, stack))
  PROVE  IInv'
<1> DEFINE c == prop[x]
<1>1. /\ prop' = [prop EXCEPT ![x] = Nil] /\ Drop(c, rc, s) BY DEF DropProperty
<1>2. /\ c \in Stored \cup {Nil} /\ c \in Object \cup {Nil} /\ rc \in [Object -> Nat] /\ TypeOK
      /\ alloc \subseteq Object /\ x \in Object /\ Nil \notin Object
  BY StoredFacts DEF IInv, References, TypeOK
<1>3. c # Nil => c \in Stored /\ rc[c] # 0 BY <1>2, Counted
<1>4. /\ rc' \in [Object -> Nat] /\ stack' \in Seq(Frames) /\ Nested(stack', Swept)
      /\ \A o \in Object : rc'[o] + (IF c = o THEN 1 ELSE 0) = rc[o]
      /\ \A o : Cardinality(HoldF(o, stack')) = Cardinality(HoldF(o, s))
      /\ \A i \in DOMAIN stack' :
            \/ \E j \in DOMAIN s : stack'[i] = s[j]
            \/ c # Nil /\ stack'[i] = DelFrame(c, "enter") /\ rc'[c] = 0
  <2> HIDE DEF c
  <2> QED BY <1>1, <1>2, <1>3, DropOK
<1>5. TypeOK' BY <1>1, <1>2, <1>4 DEF TypeOK, storeVars, modes, objects, loopVars
<1>6. Stored' = Stored /\ alloc' = alloc /\ freeCalled' = freeCalled
  BY StoreSame DEF objects, storeVars
<1>7. c # Nil /\ rc'[c] = 0 /\ c \in freeCalled' => phase' = "discard" /\ c \in StdFree
  <2> SUFFICES ASSUME c # Nil, rc'[c] = 0, c \in freeCalled PROVE phase = "discard" /\ c \in StdFree
    BY <1>6 DEF loopVars
  <2>1. c \in Stored /\ c \in Object BY <1>2
  <2>2. rc'[c] + 1 = rc[c] BY <1>4, <2>1
  <2>3. rc[c] = 1 BY <1>2, <2>1, <2>2
  <2>4. Holders(c) # 0 BY <1>2, <2>1, Unheld
  <2> QED BY <2>1, <2>3, <2>4, NotReleased
<1>8. Calls'
  <2> HIDE DEF c
  <2> QED BY <1>2, <1>4, <1>6, <1>7, CallsAfterDrop
<1>9. ASSUME NEW p \in Stored PROVE Holders(p)' + rc[p] = Holders(p) + rc'[p]
  <2> DEFINE d == IF c = p THEN 1 ELSE 0
  <2>1. p \in Object /\ Nil # p BY StoredFacts DEF IInv
  <2>2. ByProps(p)' = ByProps(p) + (0 - d) BY <1>1, <1>2, <1>6, <2>1, OneProperty
  <2>3. ByCalls(p)' = ByCalls(p) + 0 BY <1>2, <1>4, <2>1, HoldersSum DEF ByCalls
  <2>4. ByVars(p)' = ByVars(p) + 0 /\ BySweep(p)' = BySweep(p) + 0
    <3>1. ByVars(p)' = ByVars(p) BY <1>2, <2>1, SameHolders
    <3>2. BySweep(p)' = BySweep(p) BY <1>2, <2>1, SameHolders DEF storeVars, loopVars
    <3>3. ByVars(p) \in Nat /\ BySweep(p) \in Nat BY <1>2, <2>1, HoldersSum
    <3> HIDE DEF c, d
    <3> QED BY <3>1, <3>2, <3>3
  <2>5. Holders(p)' = Holders(p) + (0 + (0 - d) + 0 + 0) /\ Holders(p) \in Nat
    BY <1>2, <1>5, <2>1, <2>2, <2>3, <2>4, Delta
  <2>6. rc'[p] + d = rc[p] /\ rc[p] \in Nat /\ rc'[p] \in Nat BY <1>2, <1>4, <2>1
  <2> HIDE DEF d
  <2>7. d \in Nat BY DEF d
  <2> QED BY <2>5, <2>6, <2>7
<1>10. \A q \in alloc : prop'[q] \in Stored \cup {Nil} BY <1>1, <1>2 DEF IInv, TypeOK, References
<1>11. \A q \in Object : q # x => prop'[q] = prop[q] BY <1>1, <1>2 DEF TypeOK
<1>12. prop'[x] = Nil BY <1>1, <1>2 DEF TypeOK
<1>13. dtorCalled' = dtorCalled BY DEF objects
<1>14. \A q \in Object \ alloc : prop'[q] = prop[q] /\ runs'[q] = runs[q] BY <1>11
<1>15. \A v \in Slot : vars'[v] \in Stored \cup {Nil} BY DEF IInv, References
<1>16. \A q \in alloc \ Stored : prop'[q] \in {prop[q], Nil} BY <1>2, <1>11, <1>12
<1>17. Nested(stack', Swept) BY <1>4
<1> HIDE DEF c
<1> QED BY <1>5, <1>8, <1>9, <1>10, <1>13, <1>14, <1>15, <1>16, <1>17, Work

LEMMA UnsetPropertyOK ==
  ASSUME IInv, NEW o \in Object, UnsetProperty(o)
  PROVE  IInv'
<1>1. /\ UserRunning /\ ActiveExecutor /\ o \in Reachable /\ DropProperty(o, rc, stack)
      /\ UNCHANGED <<storeVars, modes, objects, dtorCalled, vars, loopVars, called, runs>>
  BY DEF UnsetProperty, UserActs
<1>2. /\ Waiting(stack) /\ stack \in Seq(Frames) /\ Nested(stack, Swept)
      /\ \A i \in DOMAIN stack : FrameOK(stack[i])
      /\ phase \notin {"done", "aborted"} /\ o \in alloc
  BY <1>1, UserFacts
<1>3. runs' \in [Object -> 0 .. 2] /\ RunsOnce' BY <1>1 DEF IInv, TypeOK, RunsOnce
<1> QED BY <1>1, <1>2, <1>3, DropPropertyOK
-----------------------------------------------------------------------------
(* Calls of destructors.                                                    *)

Bit(b) == IF b THEN 1 ELSE 0

\* The innermost call goes on as the frame f.
LEMMA ResumeOK ==
  ASSUME IInv, stack # <<>>, NEW f \in Frames,
         f.at = "free" => \A i \in DOMAIN Tail(stack) : Tail(stack)[i].at = "free" =>
             Tail(stack)[i].obj # f.obj,
         f.fn = "dtor" => Head(stack).fn = "dtor" /\ f.obj = This
  PROVE  /\ <<f>> \o Tail(stack) \in Seq(Frames) /\ <<f>> \o Tail(stack) # <<>>
         /\ (<<f>> \o Tail(stack))[1] = f /\ Nested(<<f>> \o Tail(stack), Swept)
         /\ \A o : /\ Cardinality(HoldF(o, <<f>> \o Tail(stack))) = ByCalls(o) +
                      (Bit(Holding(f, o)) - Bit(Holding(Head(stack), o)))
                   /\ ByCalls(o) \in Nat
         /\ \A i \in DOMAIN (<<f>> \o Tail(stack)) : (<<f>> \o Tail(stack))[i] =
            f \/ \E j \in DOMAIN Tail(stack) : (<<f>> \o Tail(stack))[i] = Tail(stack)[j]
         /\ f.at \notin {"enter", "check"} => Waiting(<<f>> \o Tail(stack))
<1> DEFINE t == Tail(stack)
           s == <<f>> \o t
<1>1. /\ t \in Seq(Frames) /\ Nested(t, Swept) /\ Waiting(t)
      /\ Head(stack).fn = "dtor" =>
            IF t = <<>> THEN This = Swept ELSE t[1] = DelFrame(This, "called")
      /\ \A o : Cardinality(HoldF(o, stack)) =
                  Cardinality(HoldF(o, t)) + (IF Holding(Head(stack), o) THEN 1 ELSE 0)
  BY StackFacts
<1> HIDE DEF t
<1>2. /\ s \in Seq(Frames) /\ s # <<>> /\ s[1] = f
      /\ \A i \in DOMAIN s : i # 1 => i - 1 \in DOMAIN t /\ s[i] = t[i - 1]
  BY <1>1, ConsSeq DEF t
<1> HIDE DEF s
<1>3. \A i \in DOMAIN s : s[i] = f \/ \E j \in DOMAIN t : s[i] = t[j] BY <1>2
<1>4. f.fn = "dtor" => IF t = <<>> THEN f.obj = Swept ELSE t[1] = DelFrame(f.obj, "called")
  BY <1>1
<1>5. f.at = "free" => \A i \in DOMAIN t : t[i].at = "free" => t[i].obj # f.obj BY DEF t
<1>6. Nested(<<f>> \o t, Swept) BY <1>1, <1>4, <1>5, NestedCons DEF Waiting
<1>7. ASSUME NEW o
      PROVE  /\ Cardinality(HoldF(o, s)) = ByCalls(o) +
                (Bit(Holding(f, o)) - Bit(Holding(Head(stack), o)))
             /\ ByCalls(o) \in Nat
  <2>1. Cardinality(HoldF(o, s)) = Cardinality(HoldF(o, t)) + Bit(Holding(f, o))
    BY <1>1, HoldCons DEF s, Bit
  <2>2. ByCalls(o) = Cardinality(HoldF(o, t)) + Bit(Holding(Head(stack), o))
    BY <1>1 DEF ByCalls, Bit
  <2>3. Cardinality(HoldF(o, t)) \in Nat BY <1>1, HoldFinite
  <2>4. Bit(Holding(f, o)) \in Nat /\ Bit(Holding(Head(stack), o)) \in Nat BY DEF Bit
  <2> QED BY <2>1, <2>2, <2>3, <2>4
<1>8. f.at \notin {"enter", "check"} => Waiting(s) BY <1>1, <1>3 DEF Waiting
<1> QED BY <1>2, <1>3, <1>6, <1>7, <1>8 DEF t, s

\* The innermost call returns.
LEMMA ReturnOK ==
  ASSUME IInv, stack # <<>>
  PROVE  \A o : /\ Cardinality(HoldF(o, Tail(stack))) = ByCalls(o) +
                   (0 - Bit(Holding(Head(stack), o)))
                /\ ByCalls(o) \in Nat
<1>1. /\ Tail(stack) \in Seq(Frames)
      /\ \A o : Cardinality(HoldF(o, stack)) =
                  Cardinality(HoldF(o, Tail(stack))) + (IF Holding(Head(stack), o) THEN 1 ELSE 0)
  BY StackFacts
<1> TAKE o
<1>2. ByCalls(o) = Cardinality(HoldF(o, Tail(stack))) + Bit(Holding(Head(stack), o))
  BY <1>1 DEF ByCalls, Bit
<1>3. Cardinality(HoldF(o, Tail(stack))) \in Nat BY <1>1, HoldFinite
<1>4. Bit(Holding(Head(stack), o)) \in Nat BY DEF Bit
<1> QED BY <1>2, <1>3, <1>4

LEMMA CallsAfterResume ==
  ASSUME IInv, stack # <<>>, Stored' = Stored, alloc' = alloc, dtorCalled \subseteq dtorCalled',
         \A i \in DOMAIN stack' :
            \/ \A f : f = stack'[i] => FrameOK(f)'
            \/ \E j \in DOMAIN Tail(stack) : stack'[i] = Tail(stack)[j]
  PROVE  Calls'
<1> SUFFICES ASSUME NEW i \in DOMAIN stack', NEW f, f = stack'[i] PROVE FrameOK(f)'
  BY DEF Calls, FrameOK
<1>1. CASE \E j \in DOMAIN Tail(stack) : stack'[i] = Tail(stack)[j]
  <2>1. PICK j \in DOMAIN Tail(stack) : f = Tail(stack)[j] BY <1>1
  <2>2. /\ Tail(stack) \in Seq(Frames) /\ Waiting(Tail(stack)) /\ FrameOK(f)
    BY <2>1, StackFacts
  <2>3. DOMAIN Tail(stack) = 1 .. Len(Tail(stack)) BY <2>2, LenProperties
  <2>4. f \in Frames BY <2>1, <2>2, <2>3, ElementOfSeq
  <2>5. f.at \notin {"enter", "check"} BY <2>1, <2>2 DEF Waiting
  <2> QED BY <2>2, <2>4, <2>5, FrameKept
<1>2. CASE ~\E j \in DOMAIN Tail(stack) : stack'[i] = Tail(stack)[j] BY <1>2
<1> QED BY <1>1, <1>2

\* A count and the innermost call change together.
LEMMA CallStep ==
  ASSUME IInv, stack # <<>>, phase \notin {"done", "aborted"},
         UNCHANGED <<storeVars, modes, objects, prop, vars, loopVars, called>>,
         dtorCalled \subseteq dtorCalled', dtorCalled' \subseteq dtorCalled \cup {This},
         stack' \in Seq(Frames), Nested(stack', Swept), Calls',
         rc' \in [Object -> Nat], runs' \in [Object -> 0 .. 2], RunsOnce',
         \A o \in Object \ alloc : runs'[o] = runs[o],
         NEW k \in [Object -> Int],
         \A o \in Object : ByCalls(o)' = ByCalls(o) + k[o] /\ rc'[o] = rc[o] + k[o]
  PROVE  IInv'
<1>1. This \in alloc /\ This \in Object /\ TypeOK BY StackFacts DEF IInv
<1>2. TypeOK' BY <1>1 DEF TypeOK, storeVars, modes, objects, loopVars
<1>3. ASSUME NEW p \in Stored PROVE Holders(p)' + rc[p] = Holders(p) + rc'[p]
  <2>1. p \in Object /\ k[p] \in Int BY StoredFacts DEF IInv
  <2>2. ByCalls(p)' = ByCalls(p) + k[p] BY <2>1
  <2>3. ByProps(p)' = ByProps(p) + 0 /\ ByVars(p)' = ByVars(p) + 0 /\ BySweep(p)' = BySweep(p) + 0
    <3>1. ByProps(p)' = ByProps(p) /\ ByVars(p)' = ByVars(p) /\ BySweep(p)' = BySweep(p)
      BY SameHolders DEF storeVars, objects, loopVars
    <3>2. ByProps(p) \in Nat /\ ByVars(p) \in Nat /\ BySweep(p) \in Nat
      BY <1>1, <2>1, HoldersSum
    <3> QED BY <3>1, <3>2
  <2>4. Holders(p)' = Holders(p) + (0 + 0 + k[p] + 0) /\ Holders(p) \in Nat
    BY <1>1, <1>2, <2>1, <2>2, <2>3, Delta
  <2>5. rc'[p] = rc[p] + k[p] /\ rc[p] \in Nat BY <1>1, <2>1 DEF TypeOK
  <2> QED BY <2>1, <2>4, <2>5
<1> QED BY <1>1, <1>2, <1>3, Work DEF IInv, References, loopVars, objects

LEMMA HoldingFacts ==
  \A o, b \in Object :
     /\ ~Holding(DelFrame(o, "enter"), b) /\ ~Holding(DelFrame(o, "check"), b)
     /\ ~Holding(DelFrame(o, "free"), b) /\ ~Holding(DtorFrame(o, "enter"), b)
     /\ Holding(DelFrame(o, "called"), b) <=> b = o
     /\ Holding(DtorFrame(o, "run"), b) <=> b = o /\ o \in HasDestructor
BY DEF Holding, DelFrame, DtorFrame

LEMMA HeadIs ==
  ASSUME IInv, stack # <<>>
  PROVE  /\ \A at : In("del", at) => Head(stack) =
            DelFrame(This, at) /\ at \in {"enter", "called", "check", "free"}
         /\ \A at : In("dtor", at) => Head(stack) = DtorFrame(This, at) /\ at \in {"enter", "run"}
BY StackFacts, FrameFacts DEF In, This
LEMMA DtorEnterOK ==
  ASSUME IInv, DtorEnter
  PROVE  IInv'
<1> DEFINE f == DtorFrame(This, "run")
           k == [o \in Object |-> IF o = This THEN 1 ELSE 0]
<1>1. /\ In("dtor", "enter") /\ This \in HasDestructor /\ stack # <<>>
      /\ rc' = [rc EXCEPT ![This] = @ + 1] /\ stack' = <<f>> \o Tail(stack)
      /\ runs' = [runs EXCEPT ![This] = IF @ < 2 THEN @ + 1 ELSE @]
      /\ UNCHANGED <<storeVars, modes, objects, dtorCalled, prop, vars, loopVars, called>>
  BY DEF DtorEnter, In, Resume
<1>2. /\ Head(stack) = DtorFrame(This, "enter") /\ This \in Object /\ This \in alloc
      /\ FrameOK(Head(stack)) /\ phase \notin {"done", "aborted"} /\ TypeOK
  BY <1>1, HeadIs, StackFacts DEF IInv
<1>3. /\ Head(stack).fn = "dtor" /\ Head(stack).at = "enter" /\ Head(stack).obj = This
      /\ f \in Frames /\ f.fn = "dtor" /\ f.at = "run" /\ f.obj = This
  BY <1>2, FrameFacts
<1>4. /\ stack' \in Seq(Frames) /\ Nested(stack', Swept)
      /\ \A o : /\ Cardinality(HoldF(o, stack')) = ByCalls(o) +
                   (Bit(Holding(f, o)) - Bit(Holding(Head(stack), o)))
                /\ ByCalls(o) \in Nat
      /\ \A i \in DOMAIN stack' : stack'[i] = f \/ \E j \in DOMAIN Tail(stack) :
             stack'[i] = Tail(stack)[j]
  <2> HIDE DEF f
  <2> QED BY <1>1, <1>3, ResumeOK
<1>5. This \in Stored /\ HasHandler(This) /\ This \in dtorCalled /\ runs[This] = 0
  BY <1>2, <1>3 DEF FrameOK
<1>6. Stored' = Stored /\ alloc' = alloc BY <1>1, StoreSame DEF objects, storeVars
<1>7. Calls'
  <2> HIDE DEF f
  <2>1. ASSUME NEW g, g = f PROVE FrameOK(g)'
    BY <1>1, <1>3, <1>5, <1>6, <2>1 DEF FrameOK, HasHandler
  <2>2. \A i \in DOMAIN stack' :
            \/ \A g : g = stack'[i] => FrameOK(g)'
            \/ \E j \in DOMAIN Tail(stack) : stack'[i] = Tail(stack)[j]
    BY <1>4, <2>1
  <2> QED BY <1>1, <1>6, <2>2, CallsAfterResume
<1>8. \A o \in Object : ByCalls(o)' = ByCalls(o) + k[o] /\ rc'[o] = rc[o] + k[o]
  <2> TAKE o \in Object
  <2>1. Bit(Holding(f, o)) = k[o] /\ Bit(Holding(Head(stack), o)) = 0
    BY <1>1, <1>2, HoldingFacts DEF Bit
  <2>2. ByCalls(o)' = ByCalls(o) + (k[o] - 0) BY <1>4, <2>1 DEF ByCalls
  <2>3. rc'[o] = rc[o] + k[o] BY <1>1, <1>2 DEF TypeOK
  <2>4. k[o] \in Int OBVIOUS
  <2> QED BY <2>2, <2>3, <2>4
<1>9. /\ runs' \in [Object -> 0 .. 2] /\ \A o \in Object \ alloc : runs'[o] = runs[o] /\ RunsOnce'
  <2>1. runs'[This] = 1 /\ \A o \in Object : o # This => runs'[o] = runs[o]
    BY <1>1, <1>2, <1>5 DEF TypeOK
  <2>2. runs' \in [Object -> 0 .. 2] BY <1>1, <1>2, <1>5 DEF TypeOK
  <2>3. RunsOnce' BY <1>1, <1>5, <2>1 DEF IInv, RunsOnce
  <2> QED BY <1>2, <2>1, <2>2, <2>3
<1>10. rc' \in [Object -> Nat] BY <1>1, <1>2 DEF TypeOK
<1>11. RunsOnce'
  <2>1. runs'[This] = 1 /\ \A o \in Object : o # This => runs'[o] = runs[o]
    BY <1>1, <1>2, <1>5 DEF TypeOK
  <2> QED BY <1>1, <1>5, <2>1 DEF IInv, RunsOnce
<1>12. k \in [Object -> Int] OBVIOUS
<1> HIDE DEF k, f
<1> QED BY <1>1, <1>2, <1>4, <1>7, <1>8, <1>9, <1>10, <1>11, <1>12, CallStep

LEMMA DtorRefusedOK ==
  ASSUME IInv, DtorRefused
  PROVE  IInv'
<1> DEFINE k == [o \in Object |-> 0]
<1>1. /\ In("dtor", "enter") /\ stack # <<>> /\ stack' = Tail(stack)
      /\ UNCHANGED <<storeVars, modes, objects, rc, dtorCalled, prop, vars, loopVars, called, runs>>
  BY DEF DtorRefused, In
<1>2. /\ Head(stack) = DtorFrame(This, "enter") /\ This \in Object /\ This \in alloc
      /\ phase \notin {"done", "aborted"} /\ TypeOK
      /\ stack' \in Seq(Frames) /\ Nested(stack', Swept)
  BY <1>1, HeadIs, StackFacts DEF IInv
<1>3. Stored' = Stored /\ alloc' = alloc BY <1>1, StoreSame DEF objects, storeVars
<1>4. Calls' BY <1>1, <1>3, CallsAfterResume
<1>5. \A o \in Object : ByCalls(o)' = ByCalls(o) + k[o] /\ rc'[o] = rc[o] + k[o]
  <2> TAKE o \in Object
  <2>1. Bit(Holding(Head(stack), o)) = 0 BY <1>2, HoldingFacts DEF Bit
  <2>2. ByCalls(o)' = ByCalls(o) + (0 - 0) /\ ByCalls(o) \in Nat BY <1>1, <2>1, ReturnOK DEF ByCalls
  <2>3. rc'[o] = rc[o] /\ rc[o] \in Nat BY <1>1, <1>2 DEF TypeOK
  <2> QED BY <2>2, <2>3
<1>6. k \in [Object -> Int] OBVIOUS
<1> HIDE DEF k
<1> QED BY <1>1, <1>2, <1>4, <1>5, <1>6, CallStep DEF IInv, TypeOK, RunsOnce

LEMMA GeneratorEnterOK ==
  ASSUME IInv, GeneratorEnter
  PROVE  IInv'
<1> DEFINE f == DtorFrame(This, "run")
           k == [o \in Object |-> 0]
<1>1. /\ In("dtor", "enter") /\ This \in Generators /\ stack # <<>>
      /\ stack' = <<f>> \o Tail(stack)
      /\ runs' = [runs EXCEPT ![This] = IF @ < 2 THEN @ + 1 ELSE @]
      /\ UNCHANGED <<storeVars, modes, objects, rc, dtorCalled, prop, vars, loopVars, called>>
  BY DEF GeneratorEnter, In, Resume
<1>2. /\ Head(stack) = DtorFrame(This, "enter") /\ This \in Object /\ This \in alloc
      /\ FrameOK(Head(stack)) /\ phase \notin {"done", "aborted"} /\ TypeOK
      /\ This \notin HasDestructor
  BY <1>1, HeadIs, StackFacts, StoreAssumption DEF IInv
<1>3. /\ Head(stack).fn = "dtor" /\ Head(stack).at = "enter" /\ Head(stack).obj = This
      /\ f \in Frames /\ f.fn = "dtor" /\ f.at = "run" /\ f.obj = This
  BY <1>2, FrameFacts
<1>4. /\ stack' \in Seq(Frames) /\ Nested(stack', Swept)
      /\ \A o : /\ Cardinality(HoldF(o, stack')) = ByCalls(o) +
                   (Bit(Holding(f, o)) - Bit(Holding(Head(stack), o)))
                /\ ByCalls(o) \in Nat
      /\ \A i \in DOMAIN stack' : stack'[i] = f \/ \E j \in DOMAIN Tail(stack) :
             stack'[i] = Tail(stack)[j]
  <2> HIDE DEF f
  <2> QED BY <1>1, <1>3, ResumeOK
<1>5. This \in Stored /\ HasHandler(This) /\ This \in dtorCalled /\ runs[This] = 0
  BY <1>2, <1>3 DEF FrameOK
<1>6. Stored' = Stored /\ alloc' = alloc BY <1>1, StoreSame DEF objects, storeVars
<1>7. Calls'
  <2> HIDE DEF f
  <2>1. ASSUME NEW g, g = f PROVE FrameOK(g)'
    BY <1>1, <1>3, <1>5, <1>6, <2>1 DEF FrameOK, HasHandler
  <2>2. \A i \in DOMAIN stack' :
            \/ \A g : g = stack'[i] => FrameOK(g)'
            \/ \E j \in DOMAIN Tail(stack) : stack'[i] = Tail(stack)[j]
    BY <1>4, <2>1
  <2> QED BY <1>1, <1>6, <2>2, CallsAfterResume
<1>8. \A o \in Object : ByCalls(o)' = ByCalls(o) + k[o] /\ rc'[o] = rc[o] + k[o]
  <2> TAKE o \in Object
  <2>1. Bit(Holding(f, o)) = 0 /\ Bit(Holding(Head(stack), o)) = 0
    BY <1>1, <1>2, HoldingFacts DEF Bit
  <2>2. ByCalls(o)' = ByCalls(o) + (0 - 0) /\ ByCalls(o) \in Nat BY <1>4, <2>1 DEF ByCalls
  <2>3. rc'[o] = rc[o] /\ rc[o] \in Nat BY <1>1, <1>2 DEF TypeOK
  <2> QED BY <2>2, <2>3
<1>9. runs'[This] = 1 /\ (\A o \in Object : o # This => runs'[o] = runs[o]) /\ runs' \in [Object -> 0 .. 2]
  BY <1>1, <1>2, <1>5 DEF TypeOK
<1>10. rc' \in [Object -> Nat] BY <1>1, <1>2 DEF TypeOK
<1>11. RunsOnce' BY <1>1, <1>5, <1>9 DEF IInv, RunsOnce
<1>12. k \in [Object -> Int] OBVIOUS
<1> HIDE DEF k, f
<1> QED BY <1>1, <1>2, <1>4, <1>7, <1>8, <1>9, <1>10, <1>11, <1>12, CallStep
LEMMA GeneratorCloseOK ==
  ASSUME IInv, GeneratorClose
  PROVE  IInv'
<1>1. /\ In("dtor", "enter") /\ stack # <<>> /\ DropProperty(This, rc, Tail(stack))
      /\ UNCHANGED <<storeVars, modes, objects, dtorCalled, vars, loopVars, called, runs>>
  BY DEF GeneratorClose, In
<1>2. /\ Head(stack) = DtorFrame(This, "enter") /\ This \in alloc /\ This \in Object
      /\ phase \notin {"done", "aborted"}
      /\ Tail(stack) \in Seq(Frames) /\ Nested(Tail(stack), Swept) /\ Waiting(Tail(stack))
      /\ \A i \in DOMAIN Tail(stack) : FrameOK(Tail(stack)[i])
  BY <1>1, HeadIs, StackFacts
<1>3. \A o : Cardinality(HoldF(o, Tail(stack))) = Cardinality(HoldF(o, stack))
  <2> TAKE o
  <2>1. ~Holding(Head(stack), o)
    BY <1>2, FrameFacts DEF Holding
  <2>2. Cardinality(HoldF(o, Tail(stack))) = ByCalls(o) + (0 - 0) /\ ByCalls(o) \in Nat
    BY <1>1, <2>1, ReturnOK DEF Bit
  <2> QED BY <2>2 DEF ByCalls
<1>4. runs' \in [Object -> 0 .. 2] /\ RunsOnce' BY <1>1 DEF IInv, TypeOK, RunsOnce
<1> QED BY <1>1, <1>2, <1>3, <1>4, DropPropertyOK

LEMMA DtorReturnOK ==
  ASSUME IInv, DtorReturn
  PROVE  IInv'
<1>1. /\ In("dtor", "run") /\ stack # <<>>
      /\ This \in HasDestructor => Drop(This, rc, Tail(stack)) /\ prop' = prop
      /\ This \notin HasDestructor => DropProperty(This, rc, Tail(stack))
      /\ UNCHANGED <<storeVars, modes, objects, dtorCalled, vars, loopVars, called, runs>>
  BY DEF DtorReturn, In
<1>2. /\ Head(stack) = DtorFrame(This, "run") /\ This \in alloc /\ This \in Object
      /\ phase \notin {"done", "aborted"}
      /\ Tail(stack) \in Seq(Frames) /\ Nested(Tail(stack), Swept) /\ Waiting(Tail(stack))
      /\ \A i \in DOMAIN Tail(stack) : FrameOK(Tail(stack)[i])
      /\ (Head(stack).at # "free" => This \in Stored)
      /\ \A o : /\ Cardinality(HoldF(o, Tail(stack))) = ByCalls(o) +
                   (0 - Bit(Holding(Head(stack), o)))
                /\ ByCalls(o) \in Nat
  BY <1>1, HeadIs, StackFacts, ReturnOK
<1>3. runs' \in [Object -> 0 .. 2] /\ RunsOnce' BY <1>1 DEF IInv, TypeOK, RunsOnce
<1>4. CASE This \notin HasDestructor
  <2>1. \A o : Cardinality(HoldF(o, Tail(stack))) = Cardinality(HoldF(o, stack))
    <3> TAKE o
    <3>1. ~Holding(Head(stack), o) BY <1>2, <1>4, FrameFacts DEF Holding
    <3>2. Cardinality(HoldF(o, Tail(stack))) = ByCalls(o) + (0 - 0) /\ ByCalls(o) \in Nat
      BY <1>2, <3>1 DEF Bit
    <3> QED BY <3>2 DEF ByCalls
  <2> QED BY <1>1, <1>2, <1>3, <1>4, <2>1, DropPropertyOK
<1>5. CASE This \in HasDestructor
  <2> DEFINE k == [o \in Object |-> IF This = o THEN -1 ELSE 0]
  <2>1. Drop(This, rc, Tail(stack)) /\ prop' = prop BY <1>1, <1>5
  <2>2. This \in Stored /\ Head(stack).at = "run" BY <1>2, FrameFacts
  <2>3. /\ 1 \in DOMAIN stack /\ Head(stack) = stack[1] BY <1>1, TailSeq DEF IInv, TypeOK
  <2>4. Holding(Head(stack), This) BY <1>2, <1>5, HoldingFacts
  <2>5. rc[This] # 0 /\ rc[This] \in Nat /\ rc \in [Object -> Nat] /\ Holders(This) # 0
    BY <1>2, <2>2, <2>3, <2>4, Counted, Unheld DEF IInv, TypeOK
  <2>6. /\ rc' \in [Object -> Nat] /\ stack' \in Seq(Frames) /\ Nested(stack', Swept)
        /\ \A o \in Object : rc'[o] + (IF This = o THEN 1 ELSE 0) = rc[o]
        /\ \A o : Cardinality(HoldF(o, stack')) = Cardinality(HoldF(o, Tail(stack)))
        /\ \A i \in DOMAIN stack' :
              \/ \E j \in DOMAIN Tail(stack) : stack'[i] = Tail(stack)[j]
              \/ This # Nil /\ stack'[i] = DelFrame(This, "enter") /\ rc'[This] = 0
    BY <1>2, <2>1, <2>5, DropOK
  <2>7. Stored' = Stored /\ alloc' = alloc /\ freeCalled' = freeCalled /\ phase' = phase
    BY <1>1, StoreSame DEF objects, storeVars, loopVars
  <2>8. rc'[This] = 0 /\ This \in freeCalled' => phase' = "discard" /\ This \in StdFree
    <3> SUFFICES ASSUME rc'[This] = 0, This \in freeCalled PROVE phase =
        "discard" /\ This \in StdFree
      BY <2>7
    <3>1. rc'[This] + 1 = rc[This] BY <1>2, <2>6
    <3>2. rc[This] = 1 BY <2>5, <3>1
    <3> QED BY <1>2, <2>2, <2>5, <3>2, NotReleased
  <2>9. Calls' BY <1>1, <1>2, <2>2, <2>6, <2>7, <2>8, CallsAfterDrop
  <2>10. \A o \in Object : ByCalls(o)' = ByCalls(o) + k[o] /\ rc'[o] = rc[o] + k[o]
    <3> TAKE o \in Object
    <3>1. Bit(Holding(Head(stack), o)) = IF This = o THEN 1 ELSE 0
      BY <1>2, <1>5, HoldingFacts DEF Bit
    <3>2. ByCalls(o)' = ByCalls(o) + (0 - (IF This = o THEN 1 ELSE 0)) /\ ByCalls(o) \in Nat
      BY <1>2, <2>6, <3>1 DEF ByCalls
    <3>3. rc'[o] + (IF This = o THEN 1 ELSE 0) = rc[o] /\ rc'[o] \in Nat /\ rc[o] \in Nat
      BY <2>5, <2>6
    <3> QED BY <3>2, <3>3
  <2>11. k \in [Object -> Int] OBVIOUS
  <2> HIDE DEF k
  <2> QED BY <1>1, <1>2, <1>3, <2>1, <2>6, <2>9, <2>10, <2>11, CallStep
<1> QED BY <1>4, <1>5
-----------------------------------------------------------------------------
(* zend_objects_store_del.                                                  *)

LEMMA DelCalledOK ==
  ASSUME IInv, DelCalled
  PROVE  IInv'
<1> DEFINE f == DelFrame(This, "check")
           k == [o \in Object |-> IF o = This THEN -1 ELSE 0]
<1>1. /\ In("del", "called") /\ stack # <<>>
      /\ rc' = [rc EXCEPT ![This] = @ - 1] /\ stack' = <<f>> \o Tail(stack)
      /\ UNCHANGED <<storeVars, modes, objects, dtorCalled, prop, vars, loopVars, called, runs>>
  BY DEF DelCalled, In, Resume
<1>2. /\ Head(stack) = DelFrame(This, "called") /\ This \in Object /\ This \in alloc
      /\ FrameOK(Head(stack)) /\ phase \notin {"done", "aborted"} /\ TypeOK
      /\ (Head(stack).at # "free" => This \in Stored)
  BY <1>1, HeadIs, StackFacts DEF IInv
<1>3. /\ Head(stack).fn = "del" /\ Head(stack).at = "called" /\ Head(stack).obj = This
      /\ f \in Frames /\ f.fn = "del" /\ f.at = "check" /\ f.obj = This
  BY <1>2, FrameFacts
<1>4. /\ stack' \in Seq(Frames) /\ Nested(stack', Swept)
      /\ \A o : /\ Cardinality(HoldF(o, stack')) = ByCalls(o) +
                   (Bit(Holding(f, o)) - Bit(Holding(Head(stack), o)))
                /\ ByCalls(o) \in Nat
      /\ \A i \in DOMAIN stack' : stack'[i] = f \/ \E j \in DOMAIN Tail(stack) :
             stack'[i] = Tail(stack)[j]
  <2> HIDE DEF f
  <2> QED BY <1>1, <1>3, ResumeOK
<1>5. This \in Stored BY <1>2, <1>3
<1>6. Stored' = Stored /\ alloc' = alloc BY <1>1, StoreSame DEF objects, storeVars
<1>7. Calls'
  <2> HIDE DEF f
  <2>1. ASSUME NEW g, g = f PROVE FrameOK(g)' BY <1>3, <1>5, <1>6, <2>1 DEF FrameOK
  <2>2. \A i \in DOMAIN stack' :
            \/ \A g : g = stack'[i] => FrameOK(g)'
            \/ \E j \in DOMAIN Tail(stack) : stack'[i] = Tail(stack)[j]
    BY <1>4, <2>1
  <2> QED BY <1>1, <1>6, <2>2, CallsAfterResume
<1>8. rc[This] # 0 /\ rc[This] \in Nat
  <2>1. 1 \in DOMAIN stack /\ Head(stack) = stack[1] BY <1>1, TailSeq DEF IInv, TypeOK
  <2>2. Holding(Head(stack), This) BY <1>2, HoldingFacts
  <2> QED BY <1>5, <2>1, <2>2, Counted
<1>9. \A o \in Object : ByCalls(o)' = ByCalls(o) + k[o] /\ rc'[o] = rc[o] + k[o]
  <2> TAKE o \in Object
  <2>1. Bit(Holding(f, o)) = 0 /\ Bit(Holding(Head(stack), o)) = IF o = This THEN 1 ELSE 0
    BY <1>2, HoldingFacts DEF Bit
  <2>2. ByCalls(o)' = ByCalls(o) + (0 - (IF o = This THEN 1 ELSE 0)) /\ ByCalls(o) \in Nat
    BY <1>4, <2>1 DEF ByCalls
  <2>3. rc'[o] = rc[o] + k[o] BY <1>1, <1>2, <1>8 DEF TypeOK
  <2> QED BY <2>2, <2>3
<1>10. rc' \in [Object -> Nat]
  <2>1. rc[This] - 1 \in Nat BY <1>8
  <2> QED BY <1>1, <1>2, <2>1 DEF TypeOK
<1>11. k \in [Object -> Int] OBVIOUS
<1>12. runs' \in [Object -> 0 .. 2] /\ RunsOnce' BY <1>1, <1>2 DEF IInv, TypeOK, RunsOnce
<1> HIDE DEF k, f
<1> QED BY <1>1, <1>2, <1>4, <1>7, <1>9, <1>10, <1>11, <1>12, CallStep

LEMMA DelRevivedOK ==
  ASSUME IInv, DelRevived
  PROVE  IInv'
<1> DEFINE k == [o \in Object |-> 0]
<1>1. /\ In("del", "check") /\ stack # <<>> /\ stack' = Tail(stack)
      /\ UNCHANGED <<storeVars, modes, objects, rc, dtorCalled, prop, vars, loopVars, called, runs>>
  BY DEF DelRevived, In
<1>2. /\ Head(stack) = DelFrame(This, "check") /\ This \in Object /\ This \in alloc
      /\ phase \notin {"done", "aborted"} /\ TypeOK
      /\ stack' \in Seq(Frames) /\ Nested(stack', Swept)
  BY <1>1, HeadIs, StackFacts DEF IInv
<1>3. Stored' = Stored /\ alloc' = alloc BY <1>1, StoreSame DEF objects, storeVars
<1>4. Calls' BY <1>1, <1>3, CallsAfterResume
<1>5. \A o \in Object : ByCalls(o)' = ByCalls(o) + k[o] /\ rc'[o] = rc[o] + k[o]
  <2> TAKE o \in Object
  <2>1. Bit(Holding(Head(stack), o)) = 0 BY <1>2, HoldingFacts DEF Bit
  <2>2. ByCalls(o)' = ByCalls(o) + (0 - 0) /\ ByCalls(o) \in Nat BY <1>1, <2>1, ReturnOK DEF ByCalls
  <2>3. rc'[o] = rc[o] /\ rc[o] \in Nat BY <1>1, <1>2 DEF TypeOK
  <2> QED BY <2>2, <2>3
<1>6. k \in [Object -> Int] OBVIOUS
<1> HIDE DEF k
<1> QED BY <1>1, <1>2, <1>4, <1>5, <1>6, CallStep DEF IInv, TypeOK, RunsOnce
LEMMA DelEnterOK ==
  ASSUME IInv, DelEnter
  PROVE  IInv'
<1>1. /\ In("del", "enter") /\ stack # <<>> /\ dtorCalled' = dtorCalled \cup {This}
      /\ UNCHANGED <<storeVars, modes, objects, prop, vars, loopVars, called, runs>>
  BY DEF DelEnter, In
<1>2. /\ Head(stack) = DelFrame(This, "enter") /\ This \in Object /\ This \in alloc
      /\ FrameOK(Head(stack)) /\ phase \notin {"done", "aborted"} /\ TypeOK
      /\ (Head(stack).at # "free" => This \in Stored)
  BY <1>1, HeadIs, StackFacts DEF IInv
<1>3. Head(stack).fn = "del" /\ Head(stack).at = "enter" /\ Head(stack).obj = This
  BY <1>2, FrameFacts
<1>4. This \in Stored /\ rc[This] = 0 BY <1>2, <1>3 DEF FrameOK
<1>5. Stored' = Stored /\ alloc' = alloc BY <1>1, StoreSame DEF objects, storeVars
<1>6. \A o \in Object : Bit(Holding(Head(stack), o)) = 0 BY <1>2, HoldingFacts DEF Bit
<1>7. runs' \in [Object -> 0 .. 2] /\ RunsOnce' BY <1>1, <1>2 DEF IInv, TypeOK, RunsOnce
<1>8. CASE This \notin dtorCalled /\ HasHandler(This)
  <2> DEFINE f == DelFrame(This, "called")
             g == DtorFrame(This, "enter")
             t == <<f>> \o Tail(stack)
             k == [o \in Object |-> IF o = This THEN 1 ELSE 0]
  <2>1. rc' = [rc EXCEPT ![This] = 1] /\ stack' = <<g>> \o t
    BY <1>8 DEF DelEnter, Resume
  <2>2. /\ f \in Frames /\ f.fn = "del" /\ f.at = "called" /\ f.obj = This
        /\ g \in Frames /\ g.fn = "dtor" /\ g.at = "enter" /\ g.obj = This
    BY <1>2, FrameFacts
  <2>3. /\ t \in Seq(Frames) /\ t # <<>> /\ t[1] = f /\ Nested(t, Swept) /\ Waiting(t)
        /\ \A o : /\ Cardinality(HoldF(o, t)) = ByCalls(o) +
                     (Bit(Holding(f, o)) - Bit(Holding(Head(stack), o)))
                  /\ ByCalls(o) \in Nat
        /\ \A i \in DOMAIN t : t[i] = f \/ \E j \in DOMAIN Tail(stack) : t[i] = Tail(stack)[j]
    <3> HIDE DEF f
    <3> QED BY <1>1, <2>2, ResumeOK
  <2> HIDE DEF t
  <2>4. /\ stack' \in Seq(Frames)
        /\ \A i \in DOMAIN stack' : stack'[i] = g \/ \E j \in DOMAIN t : stack'[i] = t[j]
    <3> HIDE DEF g
    <3>1. /\ stack'[1] = g /\ stack' \in Seq(Frames)
          /\ \A i \in DOMAIN stack' : i # 1 => i - 1 \in DOMAIN t /\ stack'[i] = t[i - 1]
      BY <2>1, <2>2, <2>3, ConsSeq
    <3> QED BY <3>1
  <2>5. Nested(stack', Swept)
    <3>1. g.at # "free" /\ t[1] = DelFrame(g.obj, "called") BY <2>2, <2>3
    <3> HIDE DEF g
    <3> QED BY <2>1, <2>2, <2>3, <3>1, NestedCons DEF Waiting
  <2>6. Calls'
    <3>1. ASSUME NEW h, h = f PROVE FrameOK(h)'
      <4> HIDE DEF f
      <4> QED BY <1>4, <1>5, <2>2, <3>1 DEF FrameOK
    <3>2. ASSUME NEW h, h = g PROVE FrameOK(h)'
      <4>1. runs'[This] = 0 BY <1>1, <1>2, <1>8 DEF IInv, RunsOnce
      <4>2. This \in dtorCalled' BY <1>1
      <4>3. HasHandler(This) BY <1>8
      <4>4. h.at = "enter" /\ h.fn = "dtor" /\ h.obj = This BY <2>2, <3>2
      <4> QED BY <1>4, <1>5, <4>1, <4>2, <4>3, <4>4 DEF FrameOK, HasHandler
    <3>3. \A i \in DOMAIN stack' :
              \/ \A h : h = stack'[i] => FrameOK(h)'
              \/ \E j \in DOMAIN Tail(stack) : stack'[i] = Tail(stack)[j]
      <4> HIDE DEF f, g
      <4> QED BY <2>3, <2>4, <3>1, <3>2
    <3> HIDE DEF f, g
    <3> QED BY <1>1, <1>5, <3>3, CallsAfterResume
  <2>7. \A o \in Object : ByCalls(o)' = ByCalls(o) + k[o] /\ rc'[o] = rc[o] + k[o]
    <3> TAKE o \in Object
    <3>1. Bit(Holding(f, o)) = k[o] /\ ~Holding(g, o)
      BY <1>2, HoldingFacts DEF Bit
    <3>2. Cardinality(HoldF(o, stack')) = Cardinality(HoldF(o, t)) + 0
      <4> HIDE DEF g
      <4>1. Cardinality(HoldF(o, stack')) = Cardinality(HoldF(o, t)) +
          (IF Holding(g, o) THEN 1 ELSE 0)
        BY <2>1, <2>2, <2>3, HoldCons
      <4> QED BY <3>1, <4>1
    <3>3. Cardinality(HoldF(o, t)) = ByCalls(o) + (k[o] - 0) /\ ByCalls(o) \in Nat
      BY <1>6, <2>3, <3>1
    <3>4. ByCalls(o)' = Cardinality(HoldF(o, stack')) BY DEF ByCalls
    <3>5. rc'[o] = rc[o] + k[o] BY <1>2, <1>4, <2>1 DEF TypeOK
    <3>6. k[o] \in Int OBVIOUS
    <3> HIDE DEF k
    <3> QED BY <3>2, <3>3, <3>4, <3>5, <3>6
  <2>8. rc' \in [Object -> Nat] BY <1>2, <2>1 DEF TypeOK
  <2>9. k \in [Object -> Int] OBVIOUS
  <2> HIDE DEF k, f, g
  <2> QED BY <1>1, <1>2, <1>7, <2>4, <2>5, <2>6, <2>7, <2>8, <2>9, CallStep
<1>9. CASE ~(This \notin dtorCalled /\ HasHandler(This))
  <2> DEFINE f == DelFrame(This, "check")
             k == [o \in Object |-> 0]
  <2>1. rc' = rc /\ stack' = <<f>> \o Tail(stack) BY <1>9 DEF DelEnter, Resume
  <2>2. f \in Frames /\ f.fn = "del" /\ f.at = "check" /\ f.obj = This BY <1>2, FrameFacts
  <2>3. /\ stack' \in Seq(Frames) /\ Nested(stack', Swept)
        /\ \A o : /\ Cardinality(HoldF(o, stack')) = ByCalls(o) +
                     (Bit(Holding(f, o)) - Bit(Holding(Head(stack), o)))
                  /\ ByCalls(o) \in Nat
        /\ \A i \in DOMAIN stack' : stack'[i] = f \/ \E j \in DOMAIN Tail(stack) :
               stack'[i] = Tail(stack)[j]
    <3> HIDE DEF f
    <3> QED BY <1>1, <2>1, <2>2, ResumeOK
  <2>4. Calls'
    <3> HIDE DEF f
    <3>1. ASSUME NEW g, g = f PROVE FrameOK(g)' BY <1>4, <1>5, <2>2, <3>1 DEF FrameOK
    <3>2. \A i \in DOMAIN stack' :
              \/ \A g : g = stack'[i] => FrameOK(g)'
              \/ \E j \in DOMAIN Tail(stack) : stack'[i] = Tail(stack)[j]
      BY <2>3, <3>1
    <3> QED BY <1>1, <1>5, <3>2, CallsAfterResume
  <2>5. \A o \in Object : ByCalls(o)' = ByCalls(o) + k[o] /\ rc'[o] = rc[o] + k[o]
    <3> TAKE o \in Object
    <3>1. Bit(Holding(f, o)) = 0 BY <1>2, HoldingFacts DEF Bit
    <3>2. ByCalls(o)' = ByCalls(o) + (0 - 0) /\ ByCalls(o) \in Nat BY <1>6, <2>3, <3>1 DEF ByCalls
    <3>3. rc'[o] = rc[o] /\ rc[o] \in Nat BY <1>2, <2>1 DEF TypeOK
    <3> QED BY <3>2, <3>3
  <2>6. rc' \in [Object -> Nat] BY <1>2, <2>1 DEF TypeOK
  <2>7. k \in [Object -> Int] OBVIOUS
  <2> HIDE DEF k, f
  <2> QED BY <1>1, <1>2, <1>7, <2>3, <2>4, <2>5, <2>6, <2>7, CallStep
<1> QED BY <1>8, <1>9
\* An object that no call holds, nor the sweep, is not the one of a call.
LEMMA NotAbout ==
  ASSUME NEW st \in Seq(Frames), NEW b, Nested(st, b), Waiting(st), NEW o \in Object, b # o,
         \A i \in DOMAIN st : ~Holding(st[i], o)
  PROVE  \A i \in DOMAIN st : st[i].at # "free" => st[i].obj # o
<1> SUFFICES ASSUME NEW i \in DOMAIN st, st[i].at # "free", st[i].obj = o PROVE FALSE
  OBVIOUS
<1>1. DOMAIN st = 1 .. Len(st) /\ Len(st) \in Nat BY LenProperties
<1>2. st[i] \in Frames BY <1>1, ElementOfSeq
<1>3. st[i].at \notin {"enter", "check"} BY DEF Waiting
<1>4. st[i].fn = "del" => st[i].at = "called" BY <1>2, <1>3, FrameFacts
<1>5. st[i].fn = "dtor" BY <1>2, <1>4, FrameFacts DEF Holding
<1>6. IF i = Len(st) THEN st[i].obj = b ELSE st[i + 1] = DelFrame(st[i].obj, "called")
  BY <1>5 DEF Nested
<1>7. i + 1 \in DOMAIN st /\ st[i + 1] = DelFrame(o, "called") BY <1>1, <1>6
<1>8. Holding(st[i + 1], o) BY <1>7, HoldingFacts
<1> QED BY <1>7, <1>8

\* SET_OBJ_INVALID of a stored object.
LEMMA ReleaseStore ==
  ASSUME IInv, NEW x \in Stored, bucket' = [bucket EXCEPT ![handle[x]] = Dying(x)],
         UNCHANGED <<size, freeHead, alloc, handle>>
  PROVE  /\ bucket' \in Seq(Buckets) /\ Len(bucket') = Len(bucket) /\ DOMAIN bucket' = DOMAIN bucket
         /\ Stored' = Stored \ {x} /\ HandlesExact' /\ FreeListLinked'
         /\ \A i \in DOMAIN bucket : bucket[i].tag # "free" => bucket'[i].obj = bucket[i].obj
         /\ \A i \in DOMAIN bucket : IsValid(i)' <=> IsValid(i) /\ i # handle[x]
<1> DEFINE h == handle[x]
<1>1. /\ h \in DOMAIN bucket /\ bucket[h].tag = "valid" /\ bucket[h].obj =
                                                           x /\ x \in Object /\ x \in alloc
      /\ \A i \in DOMAIN bucket : IsValid(i) => bucket[i].obj \in Stored /\ handle[bucket[i].obj] = i
  BY StoredFacts DEF IInv, IsValid
<1>2. Dying(x) \in Buckets /\ Dying(x).tag = "dying" /\ Dying(x).obj = x BY <1>1 DEF Dying, Buckets
<1>3. bucket \in Seq(Buckets) /\ HandlesExact /\ FreeListLinked BY DEF IInv, TypeOK
<1>4. bucket' \in Seq(Buckets) /\ Len(bucket') = Len(bucket) /\ DOMAIN bucket' = DOMAIN bucket
  BY <1>1, <1>2, <1>3, ExceptSeq
<1>5. /\ bucket'[h].tag = "dying" /\ bucket'[h].obj = x
      /\ \A i \in DOMAIN bucket : i # h => bucket'[i] = bucket[i]
  BY <1>1, <1>2
<1> HIDE DEF h
<1>6. FreeBuckets' = FreeBuckets BY <1>1, <1>4, <1>5 DEF FreeBuckets
<1>7. \A i \in DOMAIN bucket : bucket[i].tag # "free" => bucket'[i].obj = bucket[i].obj
  BY <1>1, <1>5
<1>8. \A i \in DOMAIN bucket : IsValid(i)' <=> IsValid(i) /\ i # h BY <1>5 DEF IsValid
<1>9. Stored' = Stored \ {x}
  <2>1. ASSUME NEW y \in Stored' PROVE y \in Stored \ {x}
    <3>1. PICK i \in DOMAIN bucket : IsValid(i) /\ i # h /\ y = bucket[i].obj
      BY <1>4, <1>5, <1>8 DEF Stored
    <3> QED BY <1>1, <3>1 DEF h
  <2>2. ASSUME NEW y \in Stored \ {x} PROVE y \in Stored'
    <3>1. PICK i \in DOMAIN bucket : IsValid(i) /\ y = bucket[i].obj BY DEF Stored
    <3>2. i # h BY <1>1, <3>1
    <3> QED BY <1>4, <1>5, <1>8, <3>1, <3>2 DEF Stored
  <2> QED BY <2>1, <2>2
<1>10. HandlesExact'
  <2>1. Top' = Top BY <1>4 DEF Top
  <2>2. \A i \in DOMAIN bucket' \ FreeBuckets' : bucket'[i].obj \in alloc' /\ handle'[bucket'[i].obj] = i
    BY <1>3, <1>4, <1>6, <1>7 DEF HandlesExact, FreeBuckets
  <2>3. \A o \in alloc' : /\ handle'[o] \in DOMAIN bucket' \ FreeBuckets'
                          /\ bucket'[handle'[o]].obj = o
    BY <1>3, <1>4, <1>6, <1>7 DEF HandlesExact, FreeBuckets
  <2> QED BY <1>3, <2>1, <2>2, <2>3 DEF HandlesExact
<1>11. FreeListLinked'
  <2>1. \A i \in FreeBuckets : i # h /\ bucket'[i] = bucket[i] BY <1>1, <1>5 DEF FreeBuckets
  <2>2. \A S \in SUBSET FreeBuckets' : Linked(S)' => S = FreeBuckets'
    <3> SUFFICES ASSUME NEW S \in SUBSET FreeBuckets, Linked(S)' PROVE S = FreeBuckets
      BY <1>6
    <3>1. Linked(S) BY <2>1 DEF Linked
    <3> QED BY <1>3, <3>1 DEF FreeListLinked
  <2>3. freeHead' \in FreeBuckets' \cup {None} BY <1>3, <1>6 DEF FreeListLinked
  <2>4. \A i \in FreeBuckets' :
          /\ bucket'[i].next \in FreeBuckets' \cup {None}
          /\ bucket'[i].next # None =>
                /\ bucket'[i].next # freeHead'
                /\ \A k \in FreeBuckets' : bucket'[k].next = bucket'[i].next => k = i
    BY <1>3, <1>6, <2>1 DEF FreeListLinked
  <2> QED BY <2>2, <2>3, <2>4 DEF FreeListLinked
<1> QED BY <1>4, <1>7, <1>8, <1>9, <1>10, <1>11 DEF h
\* What is common to the steps of a del that take a bucket out of the store.
LEMMA FrameStays ==
  ASSUME NEW f \in Frames, f.at \notin {"enter", "check"}, FrameOK(f),
         f.at = "free" => f.obj \in alloc' \ Stored', f.at # "free" => f.obj \in Stored',
         f.obj \in dtorCalled => f.obj \in dtorCalled'
  PROVE  FrameOK(f)'
BY DEF FrameOK

LEMMA DelReleaseOK ==
  ASSUME IInv, DelRelease
  PROVE  IInv'
<1> DEFINE f == DelFrame(This, "free")
           t == Tail(stack)
           s == <<f>> \o t
           h == handle[This]
           x == This
           c == IF x \in freeCalled THEN Nil ELSE prop[x]
<1>1. /\ In("del", "check") /\ stack # <<>> /\ rc[x] = 0
      /\ bucket' = [bucket EXCEPT ![h] = Dying(x)] /\ freeCalled' = freeCalled \cup {x}
      /\ x \in freeCalled => stack' = s /\ prop' = prop /\ rc' = rc
      /\ x \notin freeCalled => DropProperty(x, [rc EXCEPT ![x] = 1], s)
      /\ UNCHANGED <<size, freeHead, modes, alloc, handle, dtorCalled, vars, loopVars, called, runs>>
  BY DEF DelRelease, In, Resume
<1>2. /\ Head(stack) = DelFrame(x, "check") /\ x \in Object /\ x \in alloc
      /\ FrameOK(Head(stack)) /\ phase \notin {"done", "aborted"} /\ TypeOK
      /\ (Head(stack).at # "free" => x \in Stored)
      /\ t \in Seq(Frames) /\ Nested(t, Swept) /\ Waiting(t)
      /\ \A i \in DOMAIN t : FrameOK(t[i])
      /\ \A o : Cardinality(HoldF(o, stack)) =
                  Cardinality(HoldF(o, t)) + (IF Holding(Head(stack), o) THEN 1 ELSE 0)
  BY <1>1, HeadIs, StackFacts DEF IInv
<1>3. /\ Head(stack).fn = "del" /\ Head(stack).at = "check" /\ Head(stack).obj = x
      /\ f \in Frames /\ f.fn = "del" /\ f.at = "free" /\ f.obj = x
  BY <1>2, FrameFacts
<1>4. x \in Stored /\ Nil \notin Object /\ Stored \subseteq alloc /\ alloc \subseteq Object /\ x # Nil
  BY <1>2, <1>3, StoredFacts DEF IInv
<1>5. /\ \A v \in Slot : vars[v] # x
      /\ \A p \in alloc : prop[p] # x
      /\ \A i \in DOMAIN stack : ~Holding(stack[i], x)
      /\ ~(called /\ bucket[cursor].obj = x)
  <2>1. Holders(x) <= rc[x] /\ Holders(x) \in Nat BY <1>4, Counted
  <2>2. Holders(x) = 0 BY <1>1, <2>1
  <2> QED BY <1>2, <2>2, Unheld
<1>6. \A i \in DOMAIN t : i + 1 \in DOMAIN stack /\ t[i] = stack[i + 1]
  BY <1>1, <1>2, TailSeq DEF TypeOK
<1>7. Swept # x BY <1>4, <1>5 DEF Swept
<1>8. \A i \in DOMAIN t : t[i].at # "free" => t[i].obj # x
  <2> HIDE DEF t
  <2>1. \A i \in DOMAIN t : ~Holding(t[i], x) BY <1>5, <1>6
  <2> HIDE DEF x
  <2> QED BY <1>2, <1>7, <2>1, NotAbout
<1>9. \A i \in DOMAIN t : t[i].at = "free" => t[i].obj \in alloc \ Stored BY <1>2 DEF FrameOK
<1>10. /\ bucket' \in Seq(Buckets) /\ Len(bucket') = Len(bucket) /\ DOMAIN bucket' = DOMAIN bucket
       /\ Stored' = Stored \ {x} /\ HandlesExact' /\ FreeListLinked'
       /\ \A i \in DOMAIN bucket : bucket[i].tag # "free" => bucket'[i].obj = bucket[i].obj
       /\ \A i \in DOMAIN bucket : IsValid(i)' <=> IsValid(i) /\ i # h
  <2> HIDE DEF x
  <2>1. bucket' = [bucket EXCEPT ![handle[x]] = Dying(x)] BY <1>1 DEF x
  <2> QED BY <1>1, <1>4, <2>1, ReleaseStore DEF x
<1>11. alloc' = alloc /\ phase' = phase /\ cursor' = cursor /\ Excused' = Excused
  BY <1>1 DEF loopVars, modes, Excused, Releasing
\* The calls: the del goes on to free the object.
<1>12. /\ s \in Seq(Frames) /\ Nested(s, Swept) /\ Waiting(s)
       /\ \A o : /\ Cardinality(HoldF(o, s)) = ByCalls(o) +
                    (Bit(Holding(f, o)) - Bit(Holding(Head(stack), o)))
                 /\ ByCalls(o) \in Nat
       /\ \A i \in DOMAIN s : s[i] = f \/ \E j \in DOMAIN t : s[i] = t[j]
  <2> HIDE DEF f
  <2>1. \A i \in DOMAIN t : t[i].at = "free" => t[i].obj # f.obj BY <1>3, <1>4, <1>9
  <2> QED BY <1>1, <1>3, <2>1, ResumeOK
<1>13. \A o \in Object : Cardinality(HoldF(o, s)) = Cardinality(HoldF(o, stack))
  <2> TAKE o \in Object
  <2>1. Bit(Holding(f, o)) = 0 /\ Bit(Holding(Head(stack), o)) = 0
    BY <1>2, HoldingFacts DEF Bit
  <2>2. Cardinality(HoldF(o, s)) = ByCalls(o) + (0 - 0) /\ ByCalls(o) \in Nat BY <1>12, <2>1
  <2> HIDE DEF s
  <2> QED BY <2>2 DEF ByCalls
\* The property is given up, unless the release has done so.
<1>14. c \in (Stored \ {x}) \cup {Nil} /\ (c # Nil => rc[c] # 0 /\ Holders(c) # 0)
  <2>1. prop[x] \in Stored \cup {Nil} /\ prop[x] # x BY <1>2, <1>5 DEF IInv, References
  <2>2. prop[x] # Nil => rc[prop[x]] # 0 BY <1>2, <2>1, Counted
  <2>3. prop[x] # Nil => Holders(prop[x]) # 0 BY <1>2, <1>4, <2>1, Unheld
  <2> HIDE DEF x
  <2> QED BY <2>1, <2>2, <2>3
<1>15. /\ rc' \in [Object -> Nat] /\ stack' \in Seq(Frames) /\ Nested(stack', Swept)
       /\ \A o \in Object \ {x} : rc'[o] + (IF c = o THEN 1 ELSE 0) = rc[o]
       /\ \A o \in Object : Cardinality(HoldF(o, stack')) = Cardinality(HoldF(o, s))
       /\ \A i \in DOMAIN stack' :
             \/ \E j \in DOMAIN s : stack'[i] = s[j]
             \/ c # Nil /\ stack'[i] = DelFrame(c, "enter") /\ rc'[c] = 0
  <2>1. CASE x \in freeCalled
    <3>1. c = Nil /\ stack' = s /\ rc' = rc BY <1>1, <2>1
    <3>2. \A o \in Object \ {x} : rc'[o] + (IF c = o THEN 1 ELSE 0) = rc[o]
      BY <1>2, <1>4, <3>1 DEF TypeOK
    <3> HIDE DEF s, c
    <3> QED BY <1>2, <1>12, <3>1, <3>2 DEF TypeOK
  <2>2. CASE x \notin freeCalled
    <3> DEFINE r == [rc EXCEPT ![x] = 1]
    <3>1. r \in [Object -> Nat] /\ \A o \in Object \ {x} : r[o] = rc[o] BY <1>2 DEF TypeOK
    <3>2. Drop(c, r, s) BY <1>1, <2>2 DEF DropProperty
    <3>3. c \in Object \cup {Nil} /\ (c # Nil => r[c] # 0) BY <1>4, <1>14, <3>1
    <3> HIDE DEF s, c, r
    <3>4. /\ rc' \in [Object -> Nat] /\ stack' \in Seq(Frames) /\ Nested(stack', Swept)
          /\ \A o \in Object : rc'[o] + (IF c = o THEN 1 ELSE 0) = r[o]
          /\ \A o : Cardinality(HoldF(o, stack')) = Cardinality(HoldF(o, s))
          /\ \A i \in DOMAIN stack' :
                \/ \E j \in DOMAIN s : stack'[i] = s[j]
                \/ c # Nil /\ stack'[i] = DelFrame(c, "enter") /\ rc'[c] = 0
      <4>1. s \in Seq(Frames) /\ Nested(s, Swept) /\ Waiting(s) BY <1>12
      <4>2. r \in [Object -> Nat] BY <3>1
      <4>3. c # Nil => r[c] # 0 BY <3>3
      <4>4. c \in Object \cup {Nil} BY <3>3
      <4> HIDE DEF x, f, t, h
      <4>5. \A b : Nested(s, b) /\ Waiting(s) /\ (c # Nil => r[c] # 0) /\ Drop(c, r, s) =>
               /\ rc' \in [Object -> Nat] /\ stack' \in Seq(Frames) /\ Nested(stack', b)
               /\ \A o \in Object : rc'[o] + (IF c = o THEN 1 ELSE 0) = r[o]
               /\ \A o : Cardinality(HoldF(o, stack')) = Cardinality(HoldF(o, s))
               /\ \A i \in DOMAIN stack' :
                     \/ \E j \in DOMAIN s : stack'[i] = s[j]
                     \/ c # Nil /\ stack'[i] = DelFrame(c, "enter") /\ rc'[c] = 0
        BY <4>1, <4>2, <4>4, DropOK
      <4> QED BY <3>2, <4>1, <4>3, <4>5
    <3> QED BY <3>1, <3>4
  <2> QED BY <2>1, <2>2
<1>16. \A o \in Stored' :
          prop'[o] = prop[o] /\ o # x /\ o \in Object
  BY <1>1, <1>2, <1>4, <1>10 DEF DropProperty, TypeOK
<1>17. /\ prop' \in [Object -> Object \cup {Nil}]
       /\ \A o \in Object : o # x => prop'[o] = prop[o]
       /\ x \in freeCalled => prop' = prop
       /\ x \notin freeCalled => prop' = [prop EXCEPT ![x] = Nil] /\ prop'[x] = Nil
  BY <1>1, <1>2 DEF DropProperty, TypeOK
<1>18. x \in freeCalled => Excused'
  <2>1. x \in freeCalled => Releasing BY <1>2, <1>4 DEF IInv, ReleasedHeld
  <2> QED BY <1>11, <2>1 DEF Excused
<1>19. TypeOK'
  <2>1. freeCalled' \subseteq Object BY <1>1, <1>2 DEF TypeOK
  <2> HIDE DEF x, s, h
  <2> QED BY <1>1, <1>2, <1>10, <1>15, <1>17, <2>1 DEF TypeOK, modes, loopVars
<1>20. ASSUME NEW o \in Stored' PROVE Holders(o)' + rc[o] = Holders(o) + rc'[o]
  <2> DEFINE d == IF c = o THEN 1 ELSE 0
  <2>1. o \in Object /\ o # x /\ o # Nil BY <1>4, <1>16
  <2>2. ByProps(o)' = ByProps(o) + (0 - d)
    <3>1. CASE x \in freeCalled
      <4>1. d = 0 BY <2>1, <3>1
      <4>2. ByProps(o)' = ByProps(o) /\ ByProps(o) \in Nat
        BY <1>2, <1>11, <1>17, <2>1, <3>1, SameHolders, HoldersSum
      <4> QED BY <4>1, <4>2
    <3>2. CASE x \notin freeCalled
      <4>1. prop' = [prop EXCEPT ![x] = Nil] /\ c = prop[x] BY <1>17, <3>2
      <4> HIDE DEF x, c
      <4>2. ByProps(o)' = ByProps(o) + ((IF Nil = o THEN 1 ELSE 0) - (IF prop[x] = o THEN 1 ELSE 0))
        BY <1>2, <1>11, <2>1, <4>1, OneProperty
      <4> QED BY <2>1, <4>1, <4>2
    <3> QED BY <3>1, <3>2
  <2>3. ByCalls(o)' = ByCalls(o) + 0
    <3>1. Cardinality(HoldF(o, stack')) = Cardinality(HoldF(o, s)) BY <1>15, <2>1
    <3>2. Cardinality(HoldF(o, s)) = Cardinality(HoldF(o, stack)) BY <1>13, <2>1
    <3>3. ByCalls(o) \in Nat BY <1>12
    <3> HIDE DEF s
    <3> QED BY <3>1, <3>2, <3>3 DEF ByCalls
  <2>4. ByVars(o)' = ByVars(o) + 0 BY <1>1, <1>2, <2>1, SameHolders, HoldersSum
  <2>5. BySweep(o)' = BySweep(o) + 0
    <3>1. called => cursor \in DOMAIN bucket /\ bucket[cursor].tag # "free"
      BY DEF IInv, Control, IsValid
    <3>2. called => bucket'[cursor'].obj = bucket[cursor].obj BY <1>10, <1>11, <3>1
    <3>3. called' = called BY <1>1
    <3> QED BY <3>2, <3>3 DEF BySweep
  <2>6. Holders(o)' = Holders(o) + (0 + (0 - d) + 0 + 0) /\ Holders(o) \in Nat
    BY <1>2, <1>19, <2>1, <2>2, <2>3, <2>4, <2>5, Delta
  <2>7. rc'[o] + d = rc[o] /\ rc[o] \in Nat /\ rc'[o] \in Nat BY <1>2, <1>15, <2>1 DEF TypeOK
  <2> HIDE DEF d
  <2>8. d \in Nat BY DEF d
  <2> QED BY <2>6, <2>7, <2>8
<1>21. \A o \in Stored' : Holders(o)' + rc[o] <= Holders(o) + rc'[o]
  <2> TAKE o \in Stored'
  <2>1. o \in Object BY <1>16
  <2>2. Holders(o) \in Nat /\ rc'[o] \in Nat BY <1>2, <1>15, <2>1, HoldersSum
  <2> QED BY <1>20, <2>2
<1>22. CountsExact'
  <2>1. Stored' \subseteq Stored BY <1>10
  <2> QED BY <1>11, <1>19, <1>20, <1>21, <2>1, CountsKeep
<1>23. ReleasedHeld'
  <2>1. Stored' \subseteq Stored /\ freeCalled' \cap Stored' \subseteq freeCalled BY <1>1, <1>10
  <2> QED BY <1>11, <1>19, <1>21, <2>1, ReleasedKeep
<1>24. Calls'
  <2> SUFFICES ASSUME NEW i \in DOMAIN stack', NEW g, g = stack'[i] PROVE FrameOK(g)'
    BY DEF Calls, FrameOK
  <2>1. CASE g = f
    BY <1>3, <1>2, <1>10, <1>11, <2>1 DEF FrameOK
  <2>2. CASE \E j \in DOMAIN t : g = t[j]
    <3>1. PICK j \in DOMAIN t : g = t[j] BY <2>2
    <3>2. g \in Frames /\ g.at \notin {"enter", "check"} /\ FrameOK(g)
      <4>1. DOMAIN t = 1 .. Len(t) BY <1>2, LenProperties
      <4> HIDE DEF t
      <4> QED BY <1>2, <3>1, <4>1, ElementOfSeq DEF Waiting
    <3>3. g.at = "free" => g.obj \in alloc' \ Stored' BY <1>9, <1>10, <1>11, <3>1
    <3>4. g.at # "free" => g.obj \in Stored' BY <1>8, <1>10, <3>1, <3>2 DEF FrameOK
    <3> QED BY <1>1, <3>2, <3>3, <3>4, FrameStays
  <2>3. CASE c # Nil /\ g = DelFrame(c, "enter") /\ rc'[c] = 0
    <3>1. c \in Stored' /\ c \in Stored /\ c \in Object /\ c # x BY <1>4, <1>10, <1>14, <2>3
    <3>2. g.fn = "del" /\ g.obj = c /\ g.at = "enter" BY <2>3, <3>1, FrameFacts
    <3>3. c \in freeCalled' => phase' = "discard" /\ c \in StdFree
      <4>1. rc'[c] + 1 = rc[c] /\ rc[c] \in Nat BY <1>2, <1>15, <3>1 DEF TypeOK
      <4>2. rc[c] = 1 BY <2>3, <4>1
      <4>3. c \in freeCalled => phase = "discard" /\ c \in StdFree
        <5> HIDE DEF c
        <5> QED BY <1>2, <1>14, <2>3, <3>1, <4>2, NotReleased
      <4> QED BY <1>1, <1>11, <3>1, <4>3
    <3> QED BY <2>3, <3>1, <3>2, <3>3 DEF FrameOK
  <2> QED BY <1>12, <1>15, <2>1, <2>2, <2>3
<1>25. References'
  <2>1. \A v \in Slot : vars'[v] \in Stored' \cup {Nil} BY <1>1, <1>5, <1>10 DEF IInv, References
  <2>2. \A o \in alloc' : prop'[o] \in Stored' \cup {Nil}
    <3> SUFFICES ASSUME NEW o \in alloc PROVE prop'[o] \in (Stored \ {x}) \cup {Nil} BY <1>10, <1>11
    <3>1. prop[o] \in (Stored \ {x}) \cup {Nil} BY <1>5 DEF IInv, References
    <3>2. prop'[o] = prop[o] \/ prop'[o] = Nil BY <1>4, <1>17
    <3> QED BY <3>1, <3>2
  <2>3. \A o \in alloc' \ Stored' : prop'[o] = Nil \/ Excused'
    <3> SUFFICES ASSUME NEW o \in alloc \ (Stored \ {x}) PROVE prop'[o] = Nil \/ Excused'
      BY <1>10, <1>11
    <3>1. o # x => prop[o] = Nil \/ Excused BY DEF IInv, References
    <3> QED BY <1>4, <1>11, <1>17, <1>18, <3>1
  <2> QED BY <2>1, <2>2, <2>3 DEF References
<1>26. Fresh' BY <1>1, <1>2, <1>11, <1>17 DEF IInv, Fresh
<1>27. Nested(stack', Swept')
  <2>1. called => cursor \in DOMAIN bucket /\ bucket[cursor].tag # "free"
    BY DEF IInv, Control, IsValid
  <2>2. Swept' = Swept BY <1>1, <1>10, <1>11, <2>1 DEF Swept
  <2> QED BY <1>15, <2>2
<1>28. RunsOnce' BY <1>1 DEF IInv, RunsOnce
<1>29. NoneMissed'
  <2> SUFFICES ASSUME phase' = "sweep", NEW i \in 1 .. cursor' - 1, i \in DOMAIN bucket',
      IsValid(i)'
               PROVE  bucket'[i].obj \in dtorCalled'
    BY DEF NoneMissed
  <2>1. i \in DOMAIN bucket /\ IsValid(i) BY <1>10
  <2>2. bucket[i].obj \in dtorCalled BY <1>11, <2>1 DEF IInv, NoneMissed
  <2>3. bucket'[i].obj = bucket[i].obj BY <1>10, <2>1 DEF IsValid
  <2> QED BY <1>1, <2>2, <2>3
<1>30. Control'
  <2>1. called => cursor \in DOMAIN bucket /\ IsValid(cursor) /\ bucket[cursor].obj # x
    BY <1>5 DEF IInv, Control
  <2>2. bucket[h].obj = x BY <1>4, StoredFacts DEF IInv
  <2>3. called' => IsValid(cursor)' BY <1>1, <1>10, <1>11, <2>1, <2>2
  <2>4. Top' = Top BY <1>10 DEF Top
  <2>5. called' => phase' = "sweep" /\ cursor' \in DOMAIN bucket' /\ Swept' \in dtorCalled'
    <3>1. called => bucket'[cursor] = bucket[cursor]
      <4>1. called => cursor # h BY <2>1, <2>2
      <4> QED BY <1>1, <2>1, <4>1
    <3>2. called => Swept' = Swept BY <1>1, <1>11, <3>1 DEF Swept
    <3> QED BY <1>1, <1>10, <1>11, <3>2 DEF IInv, Control
  <2>6. phase' \in {"table", "destroy"} => cursor' <= Slots BY <1>11 DEF IInv, Control
  <2>7. phase' = "sweep" => cursor' \in 1 .. Top' /\ noReuse'
    BY <1>1, <1>11, <2>4 DEF IInv, Control, modes
  <2>8. Releasing' => cursor' <= Len(bucket') BY <1>10, <1>11 DEF IInv, Control, Releasing
  <2>9. phase' \notin {"done", "aborted"} BY <1>2, <1>11
  <2> QED BY <1>11, <2>3, <2>5, <2>6, <2>7, <2>8, <2>9 DEF Control
<1> QED BY <1>10, <1>19, <1>22, <1>23, <1>24, <1>25, <1>26, <1>27, <1>28, <1>29, <1>30 DEF IInv
\* ZEND_OBJECTS_STORE_ADD_TO_FREE_LIST for an object that is being freed.
LEMMA FreeStore ==
  ASSUME IInv, NEW x \in alloc \ Stored, bucket' = [bucket EXCEPT ![handle[x]] = Free(freeHead)],
         freeHead' = handle[x], size' = size, alloc' = alloc \ {x},
         handle' = [handle EXCEPT ![x] = 0]
  PROVE  /\ bucket' \in Seq(Buckets) /\ Len(bucket') = Len(bucket) /\ DOMAIN bucket' = DOMAIN bucket
         /\ Stored' = Stored /\ HandlesExact' /\ FreeListLinked'
         /\ \A i \in DOMAIN bucket : IsValid(i)' <=> IsValid(i)
         /\ \A i \in DOMAIN bucket : IsValid(i) => bucket'[i] = bucket[i]
<1> DEFINE h == handle[x]
<1>1. /\ h \in DOMAIN bucket /\ bucket[h].tag = "dying" /\ bucket[h].obj = x /\ x \in Object
      /\ alloc \subseteq Object /\ handle \in [Object -> Nat]
      /\ bucket \in Seq(Buckets) /\ HandlesExact /\ FreeListLinked
  BY StoredFacts DEF IInv, TypeOK
<1>2. DOMAIN bucket = 1 .. Len(bucket) BY <1>1, LenProperties
<1>3. FreeBuckets \subseteq DOMAIN bucket /\ h \notin FreeBuckets /\ None \notin DOMAIN bucket /\ h # None
  BY <1>1, <1>2 DEF FreeBuckets, None
<1>4. freeHead \in FreeBuckets \cup {None} BY <1>1 DEF FreeListLinked
<1>5. Free(freeHead) \in Buckets /\ Free(freeHead).tag = "free" /\ Free(freeHead).next = freeHead
  BY <1>2, <1>3, <1>4 DEF Free, Buckets
<1>6. bucket' \in Seq(Buckets) /\ Len(bucket') = Len(bucket) /\ DOMAIN bucket' = DOMAIN bucket
  BY <1>1, <1>5, ExceptSeq
<1>7. /\ bucket'[h].tag = "free" /\ bucket'[h].next = freeHead
      /\ \A i \in DOMAIN bucket : i # h => bucket'[i] = bucket[i]
  BY <1>1, <1>5
<1>8. freeHead' = h /\ handle' = [handle EXCEPT ![x] = 0] OBVIOUS
<1> HIDE DEF h
<1>9. FreeBuckets' = FreeBuckets \cup {h} BY <1>1, <1>6, <1>7 DEF FreeBuckets
<1>10. \A i \in DOMAIN bucket : IsValid(i)' <=> IsValid(i) BY <1>1, <1>7 DEF IsValid
<1>11. \A i \in DOMAIN bucket : IsValid(i) => bucket'[i] = bucket[i] BY <1>1, <1>7 DEF IsValid
<1>12. Stored' = Stored BY <1>6, <1>10, <1>11 DEF Stored
<1>13. HandlesExact'
  <2>1. Top' = Top BY <1>6 DEF Top
  <2>2. ASSUME NEW i \in DOMAIN bucket' \ FreeBuckets'
        PROVE  bucket'[i].obj \in alloc' /\ handle'[bucket'[i].obj] = i
    <3>1. i \in DOMAIN bucket \ FreeBuckets /\ i # h BY <1>6, <1>9
    <3>2. bucket'[i] = bucket[i] /\ bucket[i].obj \in alloc /\ handle[bucket[i].obj] = i
      BY <1>1, <1>7, <3>1 DEF HandlesExact
    <3>3. bucket[i].obj # x BY <3>1, <3>2 DEF h
    <3> QED BY <1>1, <1>8, <3>2, <3>3
  <2>3. ASSUME NEW o \in alloc'
        PROVE  handle'[o] \in DOMAIN bucket' \ FreeBuckets' /\ bucket'[handle'[o]].obj = o
    <3>1. o \in alloc /\ o # x OBVIOUS
    <3>2. handle'[o] = handle[o] BY <1>1, <1>8, <3>1
    <3>3. handle[o] \in DOMAIN bucket \ FreeBuckets /\ bucket[handle[o]].obj = o
      BY <1>1, <3>1 DEF HandlesExact
    <3>4. handle[o] # h BY <1>1, <3>1, <3>3
    <3> QED BY <1>6, <1>7, <1>9, <3>2, <3>3, <3>4
  <2>4. Top' <= size' BY <1>1, <2>1 DEF HandlesExact
  <2> QED BY <2>2, <2>3, <2>4 DEF HandlesExact
<1>14. FreeListLinked'
  <2>1. \A i \in FreeBuckets :
          /\ bucket'[i].next = bucket[i].next /\ i # h
          /\ bucket[i].next \in FreeBuckets \cup {None}
          /\ bucket[i].next # None =>
                /\ bucket[i].next # freeHead
                /\ \A k \in FreeBuckets : bucket[k].next = bucket[i].next => k = i
    BY <1>1, <1>3, <1>7 DEF FreeListLinked
  <2>2. ASSUME NEW S \in SUBSET (FreeBuckets \cup {h}), Linked(S)' PROVE S = FreeBuckets \cup {h}
    <3>1. h \in S BY <1>3, <1>8, <2>2 DEF Linked
    <3>2. freeHead # None => freeHead \in S BY <1>7, <2>2, <3>1 DEF Linked
    <3>3. \A i \in S \ {h} : bucket[i].next # None => bucket[i].next \in S \ {h}
      BY <1>3, <2>1, <2>2 DEF Linked
    <3>4. Linked(S \ {h}) BY <1>3, <1>4, <3>2, <3>3 DEF Linked
    <3>5. S \ {h} \in SUBSET FreeBuckets OBVIOUS
    <3>6. S \ {h} = FreeBuckets BY <1>1, <3>4, <3>5 DEF FreeListLinked
    <3> QED BY <3>1, <3>6
  <2>3. \A i \in FreeBuckets \cup {h} :
          /\ bucket'[i].next \in FreeBuckets \cup {h, None}
          /\ bucket'[i].next # None =>
                /\ bucket'[i].next # h
                /\ \A k \in FreeBuckets \cup {h} : bucket'[k].next = bucket'[i].next => k = i
    BY <1>3, <1>4, <1>7, <2>1
  <2> QED BY <1>8, <1>9, <2>2, <2>3 DEF FreeListLinked
<1> QED BY <1>6, <1>10, <1>11, <1>12, <1>13, <1>14

LEMMA DelFreeOK ==
  ASSUME IInv, DelFree
  PROVE  IInv'
<1> DEFINE x == This
           h == handle[x]
           t == Tail(stack)
<1>1. /\ In("del", "free") /\ stack # <<>> /\ alloc' = alloc \ {x}
      /\ bucket' = [bucket EXCEPT ![h] = Free(freeHead)] /\ freeHead' = h
      /\ stack' = t /\ rc' = [rc EXCEPT ![x] = 0] /\ handle' = [handle EXCEPT ![x] = 0]
      /\ dtorCalled' = dtorCalled \ {x} /\ freeCalled' = freeCalled \ {x}
      /\ prop' = [prop EXCEPT ![x] = Nil] /\ runs' = [runs EXCEPT ![x] = 0]
      /\ UNCHANGED <<size, modes, vars, loopVars, called>>
  BY DEF DelFree, In
<1>2. /\ Head(stack) = DelFrame(x, "free") /\ x \in Object /\ x \in alloc
      /\ FrameOK(Head(stack)) /\ phase \notin {"done", "aborted"} /\ TypeOK
      /\ t \in Seq(Frames) /\ Nested(t, Swept) /\ Waiting(t)
      /\ \A i \in DOMAIN t : FrameOK(t[i])
      /\ Head(stack).at = "free" => \A i \in DOMAIN t : t[i].at = "free" => t[i].obj # x
  BY <1>1, HeadIs, StackFacts DEF IInv
<1>3. Head(stack).fn = "del" /\ Head(stack).at = "free" /\ Head(stack).obj = x
  BY <1>2, FrameFacts
<1>4. x \in alloc \ Stored BY <1>2, <1>3 DEF FrameOK
<1>5. Stored \subseteq alloc /\ alloc \subseteq Object /\ Nil \notin Object
  BY StoredFacts DEF IInv
<1>6. /\ bucket' \in Seq(Buckets) /\ Len(bucket') = Len(bucket) /\ DOMAIN bucket' = DOMAIN bucket
      /\ Stored' = Stored /\ HandlesExact' /\ FreeListLinked'
      /\ \A i \in DOMAIN bucket : IsValid(i)' <=> IsValid(i)
      /\ \A i \in DOMAIN bucket : IsValid(i) => bucket'[i] = bucket[i]
  <2>1. /\ bucket' = [bucket EXCEPT ![handle[x]] = Free(freeHead)] /\ freeHead' = handle[x]
        /\ alloc' = alloc \ {x} /\ size' = size /\ handle' = [handle EXCEPT ![x] = 0]
    BY <1>1
  <2> HIDE DEF x
  <2> QED BY <1>4, <2>1, FreeStore
<1>7. phase' = phase /\ cursor' = cursor /\ Excused' = Excused /\ called' = called /\ vars' = vars
  BY <1>1 DEF loopVars, modes, Excused, Releasing
<1>8. \A o \in Object : o # x => rc'[o] = rc[o] /\ prop'[o] = prop[o] /\ runs'[o] = runs[o]
  BY <1>1, <1>2 DEF TypeOK
<1>9. rc'[x] = 0 /\ prop'[x] = Nil /\ runs'[x] = 0 BY <1>1, <1>2 DEF TypeOK
<1>10. TypeOK'
  <2>1. handle[x] \in Nat BY <1>2 DEF TypeOK
  <2>2. /\ rc' \in [Object -> Nat] /\ handle' \in [Object -> Nat] /\ prop' \in [Object -> Object \cup {Nil}]
        /\ runs' \in [Object -> 0 .. 2] /\ freeHead' \in Nat
        /\ alloc' \subseteq Object /\ dtorCalled' \subseteq Object /\ freeCalled' \subseteq Object
    BY <1>1, <1>2, <2>1 DEF TypeOK
  <2> HIDE DEF x, t, h
  <2> QED BY <1>1, <1>2, <1>6, <2>2 DEF TypeOK, modes, loopVars
<1>11. called => cursor \in DOMAIN bucket /\ IsValid(cursor) BY DEF IInv, Control
<1>12. ASSUME NEW o \in Stored
       PROVE  /\ Holders(o)' + rc[o] <= Holders(o) + rc'[o]
              /\ Excused' \/ Holders(o)' + rc[o] = Holders(o) + rc'[o]
  <2> DEFINE d == IF prop[x] = o THEN 1 ELSE 0
  <2>1. o \in Object /\ o # x /\ o # Nil BY <1>4, <1>5
  <2>2. ByProps(o)' = ByProps(o) + (0 - d)
    <3>1. IsFiniteSet(alloc) BY <1>5, SlotFinite, FS_Subset
    <3>2. IsFiniteSet(alloc') /\ x \notin alloc' /\ alloc' \cup {x} = alloc
      BY <1>1, <1>2, <3>1, FS_RemoveElement
    <3>3. Count(alloc' \cup {x}, prop, o) = Count(alloc', prop, o) + d
      <4> HIDE DEF x
      <4> QED BY <3>2, CountEntry
    <3>4. Count(alloc', prop', o) = Count(alloc', prop, o)
      <4>1. \A a \in alloc' : prop'[a] = prop[a] BY <1>1, <1>5, <1>8
      <4>2. \A g : (\A a \in alloc' : g[a] = prop[a]) => Count(alloc', g, o) =
          Count(alloc', prop, o)
        BY CountSame
      <4> QED BY <4>1, <4>2
    <3>5. Count(alloc', prop, o) \in Nat BY <3>2, CountNat
    <3>6. ByProps(o)' = Count(alloc', prop', o) /\ ByProps(o) = Count(alloc, prop, o) BY DEF ByProps
    <3>7. Count(alloc, prop, o) = Count(alloc', prop, o) + d
      <4> HIDE DEF x, d
      <4> QED BY <3>2, <3>3
    <3>8. d \in Nat OBVIOUS
    <3> HIDE DEF d
    <3> QED BY <3>4, <3>5, <3>6, <3>7, <3>8
  <2>3. ByCalls(o)' = ByCalls(o) + 0
    <3>1. Bit(Holding(Head(stack), o)) = 0 BY <1>2, <2>1, HoldingFacts DEF Bit
    <3>2. Cardinality(HoldF(o, Tail(stack))) = ByCalls(o) + (0 - 0) /\ ByCalls(o) \in Nat
      BY <1>1, <3>1, ReturnOK
    <3> QED BY <1>1, <3>2 DEF ByCalls
  <2>4. ByVars(o)' = ByVars(o) + 0 BY <1>2, <1>7, <2>1, SameHolders, HoldersSum
  <2>5. BySweep(o)' = BySweep(o) + 0
    <3>1. called => bucket'[cursor'] = bucket[cursor] BY <1>6, <1>7, <1>11
    <3> QED BY <1>7, <3>1 DEF BySweep
  <2>6. Holders(o)' = Holders(o) + (0 + (0 - d) + 0 + 0) /\ Holders(o) \in Nat /\ Holders(o)' \in Nat
    BY <1>2, <1>10, <2>1, <2>2, <2>3, <2>4, <2>5, Delta
  <2>7. rc'[o] = rc[o] /\ rc[o] \in Nat BY <1>2, <1>8, <2>1 DEF TypeOK
  <2>8. Excused' \/ d = 0
    <3>1. prop[x] = Nil \/ Excused BY <1>4 DEF IInv, References
    <3> QED BY <1>7, <2>1, <3>1
  <2>9. d \in Nat OBVIOUS
  <2> HIDE DEF d
  <2>10. Holders(o)' + rc[o] <= Holders(o) + rc'[o] BY <2>6, <2>7, <2>9
  <2>11. d = 0 => Holders(o)' + rc[o] = Holders(o) + rc'[o] BY <2>6, <2>7, <2>9
  <2> QED BY <2>8, <2>10, <2>11
<1>13. CountsExact'
  <2>1. Stored' \subseteq Stored BY <1>6
  <2>2. \A o \in Stored' :
            /\ Holders(o)' + rc[o] <= Holders(o) + rc'[o]
            /\ Excused' \/ Holders(o)' + rc[o] = Holders(o) + rc'[o]
    BY <1>6, <1>12
  <2> QED BY <1>7, <1>10, <2>1, <2>2, CountsKeep
<1>14. ReleasedHeld'
  <2>1. Stored' \subseteq Stored /\ freeCalled' \cap Stored' \subseteq freeCalled BY <1>1, <1>6
  <2>2. \A o \in Stored' : Holders(o)' + rc[o] <= Holders(o) + rc'[o] BY <1>6, <1>12
  <2> QED BY <1>7, <1>10, <2>1, <2>2, ReleasedKeep
<1>15. Calls'
  <2> SUFFICES ASSUME NEW i \in DOMAIN t, NEW g, g = t[i] PROVE FrameOK(g)'
    BY <1>1 DEF Calls, FrameOK
  <2>1. g \in Frames /\ g.at \notin {"enter", "check"} /\ FrameOK(g)
    <3>1. DOMAIN t = 1 .. Len(t) BY <1>2, LenProperties
    <3> HIDE DEF t
    <3> QED BY <1>2, <3>1, ElementOfSeq DEF Waiting
  <2>2. g.at = "free" => g.obj \in alloc' \ Stored' BY <1>1, <1>2, <1>3, <1>6, <2>1 DEF FrameOK
  <2>3. g.at # "free" => g.obj \in Stored' /\ g.obj # x BY <1>4, <1>6, <2>1 DEF FrameOK
  <2>4. g.obj # x BY <1>1, <2>2, <2>3
  <2>5. g.obj \in dtorCalled => g.obj \in dtorCalled' BY <1>1, <2>4
  <2> QED BY <2>1, <2>2, <2>3, <2>5, FrameStays
<1>16. References'
  <2>1. \A v \in Slot : vars'[v] \in Stored' \cup {Nil} BY <1>6, <1>7 DEF IInv, References
  <2>2. \A o \in alloc' : prop'[o] \in Stored' \cup {Nil} /\ (o \notin Stored' => prop'[o] = Nil \/ Excused')
    BY <1>1, <1>5, <1>6, <1>7, <1>8 DEF IInv, References
  <2> QED BY <2>1, <2>2 DEF References
<1>17. Fresh'
  <2> SUFFICES ASSUME NEW o \in Object, o \notin alloc'
               PROVE  o \notin dtorCalled' \cup freeCalled' /\ prop'[o] = Nil /\ runs'[o] = 0
    BY DEF Fresh
  <2>1. CASE o = x BY <1>1, <1>9, <2>1
  <2>2. CASE o # x
    <3>1. o \notin alloc BY <1>1, <2>2
    <3>2. o \notin dtorCalled \cup freeCalled /\ prop[o] = Nil /\ runs[o] = 0
      BY <3>1 DEF IInv, Fresh
    <3> QED BY <1>1, <1>8, <2>2, <3>2
  <2> QED BY <2>1, <2>2
<1>18. Nested(stack', Swept')
  <2>1. Swept' = Swept BY <1>6, <1>7, <1>11 DEF Swept
  <2> QED BY <1>1, <1>2, <2>1
<1>19. RunsOnce' BY <1>1, <1>8, <1>9 DEF IInv, RunsOnce
<1>20. NoneMissed'
  <2> SUFFICES ASSUME phase' = "sweep", NEW i \in 1 .. cursor' - 1, i \in DOMAIN bucket',
      IsValid(i)'
               PROVE  bucket'[i].obj \in dtorCalled'
    BY DEF NoneMissed
  <2>1. i \in DOMAIN bucket /\ IsValid(i) /\ bucket'[i] = bucket[i] BY <1>6
  <2>2. bucket[i].obj \in dtorCalled BY <1>7, <2>1 DEF IInv, NoneMissed
  <2>3. bucket[i].obj \in Stored BY <2>1 DEF Stored
  <2> QED BY <1>1, <1>4, <2>1, <2>2, <2>3
<1>21. Control'
  <2>1. called' => phase' = "sweep" /\ cursor' \in DOMAIN bucket' /\ IsValid(cursor)'
                   /\ Swept' \in dtorCalled'
    <3>1. called => Swept' = Swept BY <1>6, <1>7, <1>11 DEF Swept
    <3>2. called => Swept \in Stored BY <1>11 DEF Swept, Stored
    <3>3. called => Swept \in dtorCalled' BY <1>1, <1>4, <3>2 DEF IInv, Control
    <3> QED BY <1>6, <1>7, <1>11, <3>1, <3>3 DEF IInv, Control
  <2>2. Top' = Top BY <1>6 DEF Top
  <2>3. phase' \in {"table", "destroy"} => cursor' <= Slots BY <1>7 DEF IInv, Control
  <2>4. phase' = "sweep" => cursor' \in 1 .. Top' /\ noReuse'
    BY <1>1, <1>7, <2>2 DEF IInv, Control, modes
  <2>5. Releasing' => cursor' <= Len(bucket') BY <1>6, <1>7 DEF IInv, Control, Releasing
  <2>6. phase' \notin {"done", "aborted"} BY <1>2, <1>7
  <2> QED BY <2>1, <2>3, <2>4, <2>5, <2>6 DEF Control
<1> QED BY <1>6, <1>10, <1>13, <1>14, <1>15, <1>16, <1>17, <1>18, <1>19, <1>20, <1>21 DEF IInv
-----------------------------------------------------------------------------
(* zend_objects_store_put.                                                  *)

\* The head of the free list is taken off it.
LEMMA ReuseStore ==
  ASSUME IInv, NEW o \in Object, freeHead # None, freeHead' = bucket[freeHead].next,
         bucket' = [bucket EXCEPT ![freeHead] = Valid(o)]
  PROVE  /\ freeHead \in FreeBuckets /\ FreeBuckets' = FreeBuckets \ {freeHead} /\ FreeListLinked'
         /\ bucket' \in Seq(Buckets) /\ Len(bucket') = Len(bucket) /\ DOMAIN bucket' = DOMAIN bucket
         /\ bucket'[freeHead] = Valid(o)
         /\ \A i \in DOMAIN bucket : i # freeHead => bucket'[i] = bucket[i]
<1> DEFINE h == freeHead
<1>1. bucket \in Seq(Buckets) /\ FreeListLinked BY DEF IInv, TypeOK
<1>2. h \in FreeBuckets /\ h # None BY <1>1 DEF FreeListLinked
<1>3. DOMAIN bucket = 1 .. Len(bucket) BY <1>1, LenProperties
<1>4. FreeBuckets \subseteq DOMAIN bucket BY DEF FreeBuckets
<1>5. Valid(o) \in Buckets /\ Valid(o).tag = "valid" BY DEF Valid, Buckets
<1>6. /\ bucket' \in Seq(Buckets) /\ Len(bucket') = Len(bucket) /\ DOMAIN bucket' = DOMAIN bucket
      /\ bucket'[h] = Valid(o) /\ \A i \in DOMAIN bucket : i # h => bucket'[i] = bucket[i]
  BY <1>1, <1>2, <1>4, <1>5, ExceptSeq
<1>7. freeHead' = bucket[h].next OBVIOUS
<1>8. h = freeHead OBVIOUS
<1> HIDE DEF h
<1>9. FreeBuckets' = FreeBuckets \ {h} BY <1>5, <1>6 DEF FreeBuckets
<1>10. \A i \in FreeBuckets :
         /\ bucket[i].next \in FreeBuckets \cup {None}
         /\ bucket[i].next # None =>
               /\ bucket[i].next # h
               /\ \A k \in FreeBuckets : bucket[k].next = bucket[i].next => k = i
         /\ i # h => bucket'[i].next = bucket[i].next
  BY <1>1, <1>4, <1>6, <1>8 DEF FreeListLinked
<1>11. ASSUME NEW S \in SUBSET (FreeBuckets \ {h}), Linked(S)' PROVE S = FreeBuckets \ {h}
  <2>1. bucket[h].next # None => bucket[h].next \in S BY <1>7, <1>11 DEF Linked
  <2>2. \A i \in S : bucket[i].next # None => bucket[i].next \in S
    BY <1>10, <1>11 DEF Linked
  <2>3. Linked(S \cup {h}) BY <1>8, <2>1, <2>2 DEF Linked
  <2>4. S \cup {h} \in SUBSET FreeBuckets BY <1>2
  <2>5. S \cup {h} = FreeBuckets BY <1>1, <2>3, <2>4 DEF FreeListLinked
  <2> QED BY <2>5
<1>12. freeHead' \in (FreeBuckets \ {h}) \cup {None} BY <1>2, <1>7, <1>10
<1>13. \A i \in FreeBuckets \ {h} :
         /\ bucket'[i].next \in (FreeBuckets \ {h}) \cup {None}
         /\ bucket'[i].next # None =>
               /\ bucket'[i].next # freeHead'
               /\ \A k \in FreeBuckets \ {h} : bucket'[k].next = bucket'[i].next => k = i
  BY <1>2, <1>7, <1>10
<1>14. FreeListLinked' BY <1>9, <1>11, <1>12, <1>13 DEF FreeListLinked
<1> QED BY <1>2, <1>6, <1>8, <1>9, <1>14

\* A handle that has not been used.
LEMMA AppendStore ==
  ASSUME IInv, NEW o \in Object, freeHead' = freeHead, bucket' = Append(bucket, Valid(o))
  PROVE  /\ FreeBuckets' = FreeBuckets /\ FreeListLinked'
         /\ bucket' \in Seq(Buckets) /\ Len(bucket') = Len(bucket) + 1
         /\ DOMAIN bucket' = DOMAIN bucket \cup {Top} /\ Top \notin DOMAIN bucket
         /\ bucket'[Top] = Valid(o)
         /\ \A i \in DOMAIN bucket : bucket'[i] = bucket[i]
<1>1. bucket \in Seq(Buckets) /\ FreeListLinked BY DEF IInv, TypeOK
<1>2. DOMAIN bucket = 1 .. Len(bucket) /\ Len(bucket) \in Nat BY <1>1, LenProperties
<1>3. Valid(o) \in Buckets /\ Valid(o).tag = "valid" BY DEF Valid, Buckets
<1>4. /\ bucket' \in Seq(Buckets) /\ Len(bucket') = Len(bucket) + 1
      /\ \A i \in DOMAIN bucket : bucket'[i] = bucket[i]
      /\ bucket'[Top] = Valid(o)
  BY <1>1, <1>2, <1>3, AppendProperties DEF Top
<1>5. DOMAIN bucket' = DOMAIN bucket \cup {Top} /\ Top \notin DOMAIN bucket
  <2>1. DOMAIN bucket' = 1 .. (Len(bucket) + 1) BY <1>4, LenProperties
  <2> QED BY <1>2, <2>1 DEF Top
<1>6. FreeBuckets' = FreeBuckets BY <1>3, <1>4, <1>5 DEF FreeBuckets
<1>7. FreeBuckets \subseteq DOMAIN bucket BY DEF FreeBuckets
<1>8. \A i \in FreeBuckets : bucket'[i].next = bucket[i].next BY <1>4, <1>7
<1>9. \A S \in SUBSET FreeBuckets' : Linked(S)' => S = FreeBuckets'
  <2> SUFFICES ASSUME NEW S \in SUBSET FreeBuckets, Linked(S)' PROVE S = FreeBuckets
    BY <1>6
  <2>1. Linked(S) BY <1>8 DEF Linked
  <2> QED BY <1>1, <2>1 DEF FreeListLinked
<1>10. FreeListLinked'
  <2>1. freeHead' \in FreeBuckets \cup {None} BY <1>1 DEF FreeListLinked
  <2>2. \A i \in FreeBuckets :
          /\ bucket'[i].next \in FreeBuckets \cup {None}
          /\ bucket'[i].next # None =>
                /\ bucket'[i].next # freeHead'
                /\ \A k \in FreeBuckets : bucket'[k].next = bucket'[i].next => k = i
    <3> TAKE i \in FreeBuckets
    <3>1. bucket'[i].next = bucket[i].next BY <1>8
    <3>2. bucket[i].next \in FreeBuckets \cup {None} BY <1>1 DEF FreeListLinked
    <3>3. ASSUME bucket[i].next # None
          PROVE  /\ bucket[i].next # freeHead
                 /\ \A k \in FreeBuckets : bucket[k].next = bucket[i].next => k = i
      BY <1>1, <3>3 DEF FreeListLinked
    <3>4. ASSUME bucket'[i].next # None, NEW k \in FreeBuckets, bucket'[k].next = bucket'[i].next
          PROVE  k = i
      BY <1>8, <3>1, <3>3, <3>4
    <3> QED BY <3>1, <3>2, <3>3, <3>4
  <2> QED BY <1>6, <1>9, <2>1, <2>2 DEF FreeListLinked
<1> QED BY <1>4, <1>5, <1>6, <1>10

LEMMA PutStore ==
  ASSUME IInv, NEW o \in Object \ alloc, Put(o), alloc' = alloc \cup {o}
  PROVE  /\ bucket' \in Seq(Buckets) /\ size' \in Nat /\ freeHead' \in {None} \cup Nat
         /\ handle' \in [Object -> Nat]
         /\ Stored' = Stored \cup {o} /\ HandlesExact' /\ FreeListLinked'
         /\ DOMAIN bucket \subseteq DOMAIN bucket'
         /\ Top \in Nat /\ Top' \in Nat /\ Top <= Top'
         /\ \A i \in DOMAIN bucket : IsValid(i) => bucket'[i] = bucket[i]
         /\ noReuse => \A i \in DOMAIN bucket' : i < Top => i \in DOMAIN bucket /\
            bucket'[i] = bucket[i]
<1> DEFINE k == IF Reuse THEN freeHead ELSE Top
<1>1. /\ bucket \in Seq(Buckets) /\ HandlesExact /\ FreeListLinked /\ size \in Nat
      /\ handle \in [Object -> Nat] /\ freeHead \in {None} \cup Nat /\ alloc \subseteq Object
  BY DEF IInv, TypeOK
<1>2. DOMAIN bucket = 1 .. Len(bucket) /\ Len(bucket) \in Nat /\ Top \in Nat
  BY <1>1, LenProperties DEF Top
<1>3. handle' = [handle EXCEPT ![o] = k] BY DEF Put
<1>4. /\ bucket' \in Seq(Buckets) /\ FreeListLinked' /\ FreeBuckets' = FreeBuckets \ {k}
      /\ k \in DOMAIN bucket' /\ bucket'[k] = Valid(o) /\ k \notin DOMAIN bucket \ FreeBuckets
      /\ DOMAIN bucket \subseteq DOMAIN bucket'
      /\ \A i \in DOMAIN bucket' : i # k => i \in DOMAIN bucket /\ bucket'[i] = bucket[i]
      /\ Len(bucket') \in {Len(bucket), Len(bucket) + 1} /\ size' \in Nat /\
         Len(bucket') + 1 <= size'
      /\ noReuse => k = Top
  <2>1. CASE Reuse
    <3>1. /\ freeHead # None /\ freeHead' = bucket[freeHead].next /\ ~noReuse
          /\ bucket' = [bucket EXCEPT ![freeHead] = Valid(o)] /\ size' = size /\ k = freeHead
      BY <2>1 DEF Put, Reuse
    <3>2. /\ k \in FreeBuckets /\ FreeBuckets' = FreeBuckets \ {k} /\ FreeListLinked'
          /\ bucket' \in Seq(Buckets) /\ Len(bucket') = Len(bucket) /\
             DOMAIN bucket' = DOMAIN bucket
          /\ bucket'[k] = Valid(o) /\ \A i \in DOMAIN bucket : i # k => bucket'[i] = bucket[i]
      BY <3>1, ReuseStore
    <3>3. FreeBuckets \subseteq DOMAIN bucket BY DEF FreeBuckets
    <3>4. Len(bucket) + 1 <= size BY <1>1 DEF HandlesExact, Top
    <3> HIDE DEF k
    <3> QED BY <1>1, <3>1, <3>2, <3>3, <3>4
  <2>2. CASE ~Reuse
    <3>1. /\ freeHead' = freeHead /\ bucket' = Append(bucket, Valid(o)) /\ k = Top
          /\ size' = IF Top = size THEN 2 * size ELSE size
      BY <2>2 DEF Put
    <3>2. /\ FreeBuckets' = FreeBuckets /\ FreeListLinked'
          /\ bucket' \in Seq(Buckets) /\ Len(bucket') = Len(bucket) + 1
          /\ DOMAIN bucket' = DOMAIN bucket \cup {k} /\ k \notin DOMAIN bucket
          /\ bucket'[k] = Valid(o)
          /\ \A i \in DOMAIN bucket : bucket'[i] = bucket[i]
      BY <3>1, AppendStore
    <3>3. k \notin FreeBuckets BY <3>2 DEF FreeBuckets
    <3>4. Top <= size /\ Top = Len(bucket) + 1 BY <1>1 DEF HandlesExact, Top
    <3>5. size' \in Nat /\ Len(bucket) + 2 <= size' BY <1>1, <1>2, <3>1, <3>4
    <3>6. Len(bucket') + 1 <= size' BY <1>2, <3>2, <3>5
    <3>7. FreeBuckets' = FreeBuckets \ {k} BY <3>2, <3>3
    <3> HIDE DEF k
    <3> QED BY <3>1, <3>2, <3>5, <3>6, <3>7
  <2> QED BY <2>1, <2>2
<1> HIDE DEF k
<1>5. DOMAIN bucket' = 1 .. Len(bucket') /\ Len(bucket') \in Nat BY <1>4, LenProperties
<1>6. k \in Nat
  <2>1. k \in DOMAIN bucket' BY <1>4
  <2>2. \A i \in 1 .. Len(bucket') : i \in Nat OBVIOUS
  <2> QED BY <1>5, <2>1, <2>2
<1>7. handle' \in [Object -> Nat] /\ handle'[o] = k /\ \A p \in alloc :
          handle'[p] = handle[p] /\ p # o
  BY <1>1, <1>3, <1>6
<1>8. Valid(o).tag = "valid" /\ Valid(o).obj = o BY DEF Valid
<1>9. \A i \in DOMAIN bucket : IsValid(i) => bucket'[i] = bucket[i] /\ i # k
  BY <1>4 DEF IsValid, FreeBuckets
<1>10. Stored' = Stored \cup {o}
  <2>1. ASSUME NEW y \in Stored' PROVE y \in Stored \cup {o}
    <3>1. PICK i \in DOMAIN bucket' : bucket'[i].tag = "valid" /\ y = bucket'[i].obj
      BY DEF Stored, IsValid
    <3>2. CASE i = k BY <1>4, <1>8, <3>1, <3>2
    <3>3. CASE i # k BY <1>4, <3>1, <3>3 DEF Stored, IsValid
    <3> QED BY <3>2, <3>3
  <2>2. o \in Stored' BY <1>4, <1>8 DEF Stored, IsValid
  <2>3. ASSUME NEW y \in Stored PROVE y \in Stored'
    <3>1. PICK i \in DOMAIN bucket : IsValid(i) /\ y = bucket[i].obj BY DEF Stored
    <3>2. i \in DOMAIN bucket' /\ bucket'[i] = bucket[i] BY <1>4, <1>9, <3>1
    <3> QED BY <3>1, <3>2 DEF Stored, IsValid
  <2> QED BY <2>1, <2>2, <2>3
<1>11. Top' \in Nat /\ Top <= Top' /\ Top' <= size'
  <2>1. Len(bucket') \in {Len(bucket), Len(bucket) + 1} /\ Len(bucket') + 1 <= size' BY <1>4
  <2> DEFINE n == Len(bucket)
             m == Len(bucket')
  <2>2. Top = n + 1 /\ Top' = m + 1 BY DEF Top
  <2>3. n \in Nat /\ m \in Nat /\ m \in {n, n + 1} /\ m + 1 <= size' BY <1>2, <1>5, <2>1
  <2> HIDE DEF n, m
  <2> QED BY <2>2, <2>3
<1>12. HandlesExact'
  <2>1. ASSUME NEW i \in DOMAIN bucket' \ FreeBuckets'
        PROVE  bucket'[i].obj \in alloc' /\ handle'[bucket'[i].obj] = i
    <3>1. CASE i = k BY <1>4, <1>7, <1>8, <3>1
    <3>2. CASE i # k
      <4>1. i \in DOMAIN bucket \ FreeBuckets /\ bucket'[i] = bucket[i] BY <1>4, <3>2
      <4>2. bucket[i].obj \in alloc /\ handle[bucket[i].obj] = i BY <1>1, <4>1 DEF HandlesExact
      <4> QED BY <1>7, <4>1, <4>2
    <3> QED BY <3>1, <3>2
  <2>2. ASSUME NEW p \in alloc'
        PROVE  handle'[p] \in DOMAIN bucket' \ FreeBuckets' /\ bucket'[handle'[p]].obj = p
    <3>1. CASE p = o BY <1>4, <1>7, <1>8, <3>1
    <3>2. CASE p # o
      <4>1. p \in alloc BY <3>2
      <4>2. handle[p] \in DOMAIN bucket \ FreeBuckets /\ bucket[handle[p]].obj = p
        BY <1>1, <4>1 DEF HandlesExact
      <4>3. handle[p] # k /\ handle[p] \in DOMAIN bucket' BY <1>4, <4>2
      <4>4. bucket'[handle[p]] = bucket[handle[p]] BY <1>4, <4>3
      <4> QED BY <1>4, <1>7, <4>1, <4>2, <4>3, <4>4
    <3> QED BY <3>1, <3>2
  <2> QED BY <1>11, <2>1, <2>2 DEF HandlesExact
<1>13. freeHead' \in {None} \cup Nat
  <2>1. FreeBuckets' \subseteq DOMAIN bucket' BY DEF FreeBuckets
  <2>2. freeHead' \in FreeBuckets' \cup {None} BY <1>4 DEF FreeListLinked
  <2> QED BY <1>5, <2>1, <2>2
<1>14. noReuse => \A i \in DOMAIN bucket' : i < Top => i \in DOMAIN bucket /\ bucket'[i] = bucket[i]
  <2> SUFFICES ASSUME noReuse, NEW i \in DOMAIN bucket', i < Top
               PROVE  i \in DOMAIN bucket /\ bucket'[i] = bucket[i]
    OBVIOUS
  <2>1. k = Top /\ (i # k => i \in DOMAIN bucket /\ bucket'[i] = bucket[i]) BY <1>4
  <2>2. i \in Nat
    <3>1. \A j \in 1 .. Len(bucket') : j \in Nat OBVIOUS
    <3> QED BY <1>5, <3>1
  <2>3. i # Top BY <1>2, <2>2
  <2> QED BY <2>1, <2>3
<1> QED BY <1>2, <1>4, <1>7, <1>9, <1>10, <1>11, <1>12, <1>13, <1>14
\* Nothing refers to memory that is not allocated.
LEMMA FreshUnheld ==
  ASSUME IInv, NEW o \in Object \ alloc
  PROVE  Holders(o) = 0
<1>1. o \notin Stored /\ o # Nil /\ TypeOK BY StoredFacts DEF IInv
<1>2. ByVars(o) = 0
  <2>1. \A s \in Slot : vars[s] # o BY <1>1 DEF IInv, References
  <2> QED BY <2>1, SlotFinite, CountNat DEF ByVars
<1>3. ByProps(o) = 0
  <2>1. \A p \in alloc : prop[p] # o BY <1>1 DEF IInv, References
  <2>2. IsFiniteSet(alloc) BY <1>1, SlotFinite, FS_Subset DEF TypeOK
  <2> QED BY <2>1, <2>2, CountNat DEF ByProps
<1>4. ByCalls(o) = 0
  <2>1. \A i \in DOMAIN stack : stack[i].obj # o
    BY <1>1, StoredFacts DEF IInv, Calls, FrameOK
  <2>2. HoldF(o, stack) = {} BY <2>1 DEF HoldF, Holding
  <2> QED BY <2>2, FS_EmptySet DEF ByCalls
<1>5. BySweep(o) = 0
  <2>1. called => bucket[cursor].obj \in Stored BY StoredFacts DEF IInv, Control
  <2> QED BY <1>1, <2>1 DEF BySweep
<1>6. Holders(o) = ByVars(o) + ByProps(o) + ByCalls(o) + BySweep(o) BY <1>1, HoldersSum
<1>7. 0 + 0 + 0 + 0 = 0 OBVIOUS
<1> QED BY <1>2, <1>3, <1>4, <1>5, <1>6, <1>7, Zenon

LEMMA NewOK ==
  ASSUME IInv, NEW o \in Object, NEW s \in Slot, NEW failed \in BOOLEAN, New(o, s, failed)
  PROVE  IInv'
<1>1. /\ UserRunning /\ ActiveExecutor /\ o \notin alloc /\ vars[s] = Nil /\ Put(o)
      /\ alloc' = alloc \cup {o} /\ rc' = [rc EXCEPT ![o] = 1]
      /\ dtorCalled' = IF failed THEN dtorCalled \cup {o} ELSE dtorCalled
      /\ vars' = [vars EXCEPT ![s] = o]
      /\ UNCHANGED <<modes, freeCalled, prop, loopVars, called, stack, runs>>
  BY DEF New, UserActs
<1>2. /\ Waiting(stack) /\ stack \in Seq(Frames) /\ Nested(stack, Swept)
      /\ \A i \in DOMAIN stack : FrameOK(stack[i])
      /\ Stored \subseteq alloc /\ alloc \subseteq Object
      /\ phase \notin {"done", "aborted"} /\ ~Releasing /\ Stored \cap freeCalled = {}
  BY <1>1, UserFacts
<1>3. TypeOK /\ Nil \notin Object /\ o \notin Stored BY <1>1, <1>2, SlotFinite DEF IInv
<1>4. /\ bucket' \in Seq(Buckets) /\ size' \in Nat /\ freeHead' \in {None} \cup Nat
      /\ handle' \in [Object -> Nat]
      /\ Stored' = Stored \cup {o} /\ HandlesExact' /\ FreeListLinked'
      /\ DOMAIN bucket \subseteq DOMAIN bucket'
      /\ Top \in Nat /\ Top' \in Nat /\ Top <= Top'
      /\ \A i \in DOMAIN bucket : IsValid(i) => bucket'[i] = bucket[i]
      /\ noReuse => \A i \in DOMAIN bucket' : i < Top => i \in DOMAIN bucket /\
         bucket'[i] = bucket[i]
  BY <1>1, PutStore
<1>5. phase' = phase /\ cursor' = cursor /\ noReuse' = noReuse /\ called' = called
      /\ stack' = stack /\ prop' = prop /\ Excused' = Excused /\ Releasing' = Releasing
  BY <1>1 DEF loopVars, modes, Excused, Releasing
<1>6. o \notin dtorCalled \cup freeCalled /\ prop[o] = Nil /\ runs[o] = 0 BY <1>1 DEF IInv, Fresh
<1>7. dtorCalled \subseteq dtorCalled' /\ dtorCalled' \subseteq dtorCalled \cup {o} BY <1>1
<1>8. TypeOK'
  <2>1. /\ rc' \in [Object -> Nat] /\ vars' \in [Slot -> Object \cup {Nil}]
        /\ alloc' \subseteq Object /\ dtorCalled' \subseteq Object
    BY <1>1, <1>3 DEF TypeOK
  <2> QED BY <1>1, <1>3, <1>4, <2>1 DEF TypeOK, modes, loopVars
<1>9. called => cursor \in DOMAIN bucket /\ IsValid(cursor) /\ bucket'[cursor] = bucket[cursor]
  BY <1>4 DEF IInv, Control
<1>10. ASSUME NEW p \in Object
       PROVE  /\ Holders(p)' = Holders(p) + (IF o = p THEN 1 ELSE 0)
              /\ Holders(p) \in Nat /\ Holders(p)' \in Nat
  <2> DEFINE d == IF o = p THEN 1 ELSE 0
  <2>1. p # Nil BY <1>3
  <2>2. ByVars(p)' = ByVars(p) + (d - 0) BY <1>1, <1>3, <2>1, OneVariable
  <2>3. ByProps(p)' = ByProps(p) + 0
    <3>1. IsFiniteSet(alloc) BY <1>2, SlotFinite, FS_Subset
    <3>2. Count(alloc \cup {o}, prop, p) = Count(alloc, prop, p) + (IF prop[o] = p THEN 1 ELSE 0)
      <4>1. o \notin alloc BY <1>1
      <4>2. \A g : Count(alloc \cup {o}, g, p) = Count(alloc, g, p) + (IF g[o] = p THEN 1 ELSE 0)
        BY <3>1, <4>1, CountEntry
      <4> QED BY <4>2
    <3>3. prop[o] # p BY <1>6, <2>1
    <3>4. Count(alloc \cup {o}, prop, p) = Count(alloc, prop, p) + 0 BY <3>2, <3>3
    <3>5. ByProps(p)' = Count(alloc \cup {o}, prop, p) /\ ByProps(p) = Count(alloc, prop, p)
      BY <1>1, <1>5 DEF ByProps
    <3> QED BY <3>4, <3>5
  <2>4. ByCalls(p)' = ByCalls(p) + 0 BY <1>3, <1>5, SameHolders, HoldersSum
  <2>5. BySweep(p)' = BySweep(p) + 0 BY <1>5, <1>9 DEF BySweep
  <2>6. Holders(p)' = Holders(p) + ((d - 0) + 0 + 0 + 0) /\ Holders(p) \in Nat /\ Holders(p)' \in Nat
    BY <1>3, <1>8, <2>2, <2>3, <2>4, <2>5, Delta
  <2>7. d \in Nat OBVIOUS
  <2> HIDE DEF d
  <2>8. Holders(p)' = Holders(p) + d BY <2>6, <2>7
  <2> QED BY <2>6, <2>8 DEF d
<1>11. CountsExact'
  <2> SUFFICES ASSUME NEW p \in Stored'
               PROVE  Holders(p)' <= rc'[p] /\ (Excused' \/ Holders(p)' = rc'[p])
    BY DEF CountsExact
  <2>1. p \in Stored \cup {o} /\ p \in Object BY <1>2, <1>4
  <2>2. CASE p = o
    <3>1. Holders(o) = 0 BY <1>1, FreshUnheld
    <3>2. Holders(o)' = Holders(o) + 1 BY <1>10
    <3>3. rc'[o] = 1 BY <1>1, <1>3 DEF TypeOK
    <3> QED BY <2>2, <3>1, <3>2, <3>3
  <2>3. CASE p # o
    <3>1. p \in Stored BY <2>1, <2>3
    <3>2. Holders(p)' = Holders(p) + 0 /\ Holders(p) \in Nat BY <1>10, <2>1, <2>3
    <3>3. rc'[p] = rc[p] BY <1>1, <1>3, <2>1, <2>3 DEF TypeOK
    <3>4. Holders(p) <= rc[p] /\ (Excused \/ Holders(p) = rc[p]) BY <3>1 DEF IInv, CountsExact
    <3> QED BY <1>5, <3>2, <3>3, <3>4
  <2> QED BY <2>2, <2>3
<1>12. ReleasedHeld' BY <1>1, <1>2, <1>4, <1>6 DEF ReleasedHeld
<1>13. Calls'
  <2> SUFFICES ASSUME NEW i \in DOMAIN stack, NEW g, g = stack[i] PROVE FrameOK(g)'
    BY <1>5 DEF Calls, FrameOK
  <2>1. g \in Frames /\ g.at \notin {"enter", "check"} /\ FrameOK(g)
    <3>1. DOMAIN stack = 1 .. Len(stack) BY <1>2, LenProperties
    <3> QED BY <1>2, <3>1, ElementOfSeq DEF Waiting
  <2>2. g.at = "free" => g.obj \in alloc' \ Stored' BY <1>1, <1>4, <2>1 DEF FrameOK
  <2>3. g.at # "free" => g.obj \in Stored' BY <1>4, <2>1 DEF FrameOK
  <2> QED BY <1>7, <2>1, <2>2, <2>3, FrameStays
<1>14. References'
  <2>1. \A v \in Slot : vars'[v] \in Stored' \cup {Nil}
    BY <1>1, <1>3, <1>4 DEF IInv, References, TypeOK
  <2>2. \A p \in alloc' : prop'[p] \in Stored' \cup {Nil} /\ (p \notin Stored' => prop'[p] = Nil \/ Excused')
    BY <1>1, <1>4, <1>5, <1>6 DEF IInv, References
  <2> QED BY <2>1, <2>2 DEF References
<1>15. Fresh' BY <1>1, <1>7 DEF IInv, Fresh
<1>16. Nested(stack', Swept')
  <2>1. Swept' = Swept BY <1>5, <1>9 DEF Swept
  <2> QED BY <1>2, <1>5, <2>1
<1>17. RunsOnce' BY <1>1, <1>7 DEF IInv, RunsOnce
<1>18. phase = "sweep" => cursor \in 1 .. Top /\ noReuse BY DEF IInv, Control
<1>19. NoneMissed'
  <2> SUFFICES ASSUME phase' = "sweep", NEW i \in 1 .. cursor' - 1, i \in DOMAIN bucket',
      IsValid(i)'
               PROVE  bucket'[i].obj \in dtorCalled'
    BY DEF NoneMissed
  <2>1. cursor \in 1 .. Top /\ noReuse /\ i \in 1 .. cursor - 1 BY <1>5, <1>18
  <2>2. i < Top BY <1>4, <2>1
  <2>3. i \in DOMAIN bucket /\ bucket'[i] = bucket[i] BY <1>4, <2>1, <2>2
  <2>4. IsValid(i) BY <2>3 DEF IsValid
  <2>5. bucket[i].obj \in dtorCalled BY <1>5, <2>1, <2>3, <2>4 DEF IInv, NoneMissed
  <2> QED BY <1>7, <2>3, <2>5
<1>20. Control'
  <2>1. called' => phase' = "sweep" /\ cursor' \in DOMAIN bucket' /\ IsValid(cursor)'
                   /\ Swept' \in dtorCalled'
    <3>1. called => Swept' = Swept BY <1>5, <1>9 DEF Swept
    <3> QED BY <1>4, <1>5, <1>7, <1>9, <3>1 DEF IInv, Control, IsValid
  <2>2. phase' \in {"table", "destroy"} => cursor' <= Slots BY <1>5 DEF IInv, Control
  <2>3. phase' = "sweep" => cursor' \in 1 .. Top' /\ noReuse'
    <3> SUFFICES ASSUME phase = "sweep" PROVE cursor \in 1 .. Top' /\ noReuse BY <1>5
    <3> QED BY <1>4, <1>18
  <2>4. ~Releasing' /\ phase' \notin {"done", "aborted"} BY <1>2, <1>5
  <2> QED BY <2>1, <2>2, <2>3, <2>4 DEF Control
<1> QED BY <1>4, <1>8, <1>11, <1>12, <1>13, <1>14, <1>15, <1>16, <1>17, <1>19, <1>20 DEF IInv
-----------------------------------------------------------------------------
(* The end of the request.                                                  *)

LEMMA ShutdownStep ==
  ASSUME IInv, TypeOK', UNCHANGED <<storeVars, alloc, handle, runs>>,
         dtorCalled \subseteq dtorCalled', dtorCalled' \subseteq dtorCalled \cup alloc,
         freeCalled' \subseteq freeCalled \cup alloc, \A o \in Object \ alloc : prop'[o] = prop[o],
         References', CountsExact', ReleasedHeld', Calls', Nested(stack', Swept'), NoneMissed',
             Control'
  PROVE  IInv'
<1>1. HandlesExact' /\ FreeListLinked' BY StoreSame DEF IInv
<1>2. Fresh' BY DEF IInv, Fresh
<1>3. RunsOnce' BY DEF IInv, RunsOnce
<1> QED BY <1>1, <1>2, <1>3 DEF IInv

\* A phase ends, and the next begins.
LEMMA BeginFacts ==
  ASSUME TypeOK, NEW p, Begin(p),
         p \in {"functions", "table", "sweep", "output", "destroy", "release", "discard", "done"}
  PROVE  /\ phase' = p /\ cursor' \in Nat /\ symbols' \in Nat
         /\ p \in {"table", "destroy"} => cursor' <= Slots
         /\ p = "sweep" => cursor' = 1
         /\ p \in {"release", "discard"} => cursor' = Len(bucket)
<1>1. Slots \in Nat /\ IsFiniteSet(Slot) BY SlotFinite
<1>2. Symbols \in Nat
  <2>1. {s \in Slot : vars[s] # Nil} \subseteq Slot OBVIOUS
  <2>2. IsFiniteSet({s \in Slot : vars[s] # Nil}) BY <1>1, <2>1, FS_Subset
  <2> QED BY <2>2, FS_CardinalityType DEF Symbols
<1>3. Len(bucket) \in Nat BY LenProperties DEF TypeOK
<1>4. phase' = p /\ symbols' \in Nat BY <1>2 DEF Begin
<1>5. CASE p \in {"table", "destroy"} BY <1>1, <1>4, <1>5 DEF Begin
<1>6. CASE p = "sweep" BY <1>4, <1>6 DEF Begin
<1>7. CASE p \in {"release", "discard"} BY <1>3, <1>4, <1>7 DEF Begin
<1>8. CASE p \in {"functions", "output", "done"} BY <1>4, <1>8 DEF Begin
<1> QED BY <1>5, <1>6, <1>7, <1>8

LEMMA PhaseStep ==
  ASSUME IInv, stack = <<>>, ~called, phase \notin {"done", "aborted"},
         NEW p \in {"functions", "table", "sweep", "output", "destroy", "release", "discard", "done"},
         Begin(p), UNCHANGED <<storeVars, unclean, objects, rc, dtorCalled, prop, vars, called, stack, runs>>,
         noReuse' \in BOOLEAN, p = "sweep" => noReuse', Releasing => p = "done"
  PROVE  IInv'
<1>1. TypeOK BY DEF IInv
<1>2. /\ phase' = p /\ cursor' \in Nat /\ symbols' \in Nat
      /\ p \in {"table", "destroy"} => cursor' <= Slots
      /\ p = "sweep" => cursor' = 1
      /\ p \in {"release", "discard"} => cursor' = Len(bucket)
  BY <1>1, BeginFacts
<1>3. TypeOK' BY <1>1, <1>2 DEF TypeOK, storeVars, objects, UserPhase
<1>4. Stored' = Stored /\ Top' = Top /\ alloc' = alloc /\ freeCalled' = freeCalled
  BY StoreSame DEF objects, storeVars
<1>5. Excused => Excused' BY <1>2 DEF Excused
<1>6. ASSUME NEW o \in Stored PROVE Holders(o)' + rc[o] = Holders(o) +
    rc'[o] /\ Holders(o) \in Nat /\ rc'[o] \in Nat
  <2>1. o \in Object BY StoredFacts DEF IInv
  <2>2. ByVars(o)' = ByVars(o) /\ ByProps(o)' = ByProps(o) /\ ByCalls(o)' = ByCalls(o)
    BY SameHolders DEF objects
  <2>3. BySweep(o)' = BySweep(o) BY DEF BySweep
  <2>4. Holders(o)' = Holders(o) BY <1>1, <1>3, <2>1, <2>2, <2>3, HoldersSum, HoldersSumNext, Zenon
  <2> QED BY <1>1, <1>3, <2>1, <2>4, HoldersSum DEF TypeOK
<1>7. \A o \in Stored : Holders(o)' + rc[o] <= Holders(o) + rc'[o]
  <2> TAKE o \in Stored
  <2> QED BY <1>6
<1>8. CountsExact' BY <1>3, <1>4, <1>5, <1>6, <1>7, CountsKeep
<1>9. ReleasedHeld' BY <1>2, <1>3, <1>4, <1>7, ReleasedKeep
<1>10. References' BY <1>4, <1>5 DEF IInv, References
<1>11. Calls' /\ Nested(stack', Swept') BY NestedEmpty DEF Calls
<1>12. NoneMissed'
  <2>1. phase' = "sweep" => 1 .. cursor' - 1 = {} BY <1>2
  <2> QED BY <2>1 DEF NoneMissed
<1>13. Top \in Nat /\ 1 <= Top
  <2>1. Len(bucket) \in Nat BY <1>1, LenProperties DEF TypeOK
  <2> QED BY <2>1 DEF Top
<1>14. Control'
  <2>1. phase' = "sweep" => cursor' \in 1 .. Top' /\ noReuse' BY <1>2, <1>4, <1>13
  <2>2. Releasing' => cursor' <= Len(bucket')
    <3>1. Len(bucket) \in Nat /\ bucket' = bucket BY <1>1, LenProperties DEF TypeOK, storeVars
    <3>2. Releasing' => cursor' = Len(bucket) BY <1>2 DEF Releasing
    <3> QED BY <3>1, <3>2
  <2>3. phase' \in {"table", "destroy"} => cursor' <= Slots BY <1>2
  <2> QED BY <2>1, <2>2, <2>3 DEF Control
<1> QED BY <1>3, <1>4, <1>8, <1>9, <1>10, <1>11, <1>12, <1>14, ShutdownStep DEF objects

LEMMA PhaseEndsOK ==
  ASSUME IInv, PhaseEnds
  PROVE  IInv'
<1>1. /\ stack = <<>> /\ phase \in UserPhase
      /\ UNCHANGED <<storeVars, modes, objects, rc, dtorCalled, prop, vars, called, stack, runs>>
  BY DEF PhaseEnds
<1>2. PICK p \in After[phase] : Begin(p) BY DEF PhaseEnds
<1>3. p \in {"functions", "table", "destroy", "discard"} BY <1>1, <1>2 DEF After, UserPhase
<1>4. ~called /\ phase \notin {"done", "aborted"} /\ ~Releasing
  BY <1>1 DEF IInv, Control, UserPhase, Releasing
<1>5. noReuse' \in BOOLEAN /\ unclean' = unclean BY <1>1 DEF IInv, TypeOK, modes
<1> QED BY <1>1, <1>2, <1>3, <1>4, <1>5, PhaseStep

LEMMA TablePassEndsOK ==
  ASSUME IInv, TablePassEnds
  PROVE  IInv'
<1>1. /\ phase = "table" /\ stack = <<>>
      /\ UNCHANGED <<storeVars, unclean, objects, rc, dtorCalled, prop, vars, called, stack, runs>>
      /\ noReuse \in BOOLEAN
  BY DEF TablePassEnds, IInv, TypeOK
<1>2. ~called /\ ~Releasing BY <1>1 DEF IInv, Control, Releasing
<1>3. CASE symbols # Symbols
  <2>1. Begin("table") /\ noReuse' = noReuse BY <1>3 DEF TablePassEnds
  <2> QED BY <1>1, <1>2, <2>1, PhaseStep
<1>4. CASE symbols = Symbols
  <2>1. Begin("sweep") /\ noReuse' = TRUE BY <1>4 DEF TablePassEnds
  <2> QED BY <1>1, <1>2, <2>1, PhaseStep
<1> QED BY <1>3, <1>4

LEMMA SweepEndsOK ==
  ASSUME IInv, SweepEnds
  PROVE  IInv'
<1>1. /\ phase = "sweep" /\ stack = <<>> /\ ~called /\ Begin("output")
      /\ UNCHANGED <<storeVars, modes, objects, rc, dtorCalled, prop, vars, called, stack, runs>>
  BY DEF SweepEnds
<1>2. noReuse' \in BOOLEAN /\ unclean' = unclean /\ ~Releasing
  BY <1>1 DEF IInv, TypeOK, modes, Releasing
<1> QED BY <1>1, <1>2, PhaseStep

LEMMA DestroyEndsOK ==
  ASSUME IInv, DestroyEnds
  PROVE  IInv'
<1>1. /\ phase = "destroy" /\ stack = <<>> /\ Begin("release")
      /\ UNCHANGED <<storeVars, modes, objects, rc, dtorCalled, prop, vars, called, stack, runs>>
  BY DEF DestroyEnds
<1>2. noReuse' \in BOOLEAN /\ unclean' = unclean /\ ~Releasing /\ ~called
  BY <1>1 DEF IInv, TypeOK, modes, Releasing, Control
<1> QED BY <1>1, <1>2, PhaseStep

LEMMA ReleaseEndsOK ==
  ASSUME IInv, ReleaseEnds
  PROVE  IInv'
<1>1. /\ Releasing /\ stack = <<>> /\ Begin("done")
      /\ UNCHANGED <<storeVars, modes, objects, rc, dtorCalled, prop, vars, called, stack, runs>>
  BY DEF ReleaseEnds
<1>2. noReuse' \in BOOLEAN /\ unclean' = unclean /\ ~called /\ phase \notin {"done", "aborted"}
  BY <1>1 DEF IInv, TypeOK, modes, Releasing, Control
<1> QED BY <1>1, <1>2, PhaseStep
-----------------------------------------------------------------------------
(* Bailouts.                                                                *)

LEMMA Unwind ==
  ASSUME IInv, TypeOK', stack' = <<>>, unclean', ~called',
         UNCHANGED <<storeVars, objects, rc, prop, vars, runs>>,
         dtorCalled' \in {dtorCalled, dtorCalled \cup Stored},
         \/ phase' \in {"done", "aborted"}
         \/ ~Releasing /\ phase \notin {"done", "aborted"},
         phase' # "sweep", Control'
  PROVE  IInv'
<1>1. TypeOK BY DEF IInv
<1>2. Stored' = Stored /\ alloc' = alloc /\ freeCalled' = freeCalled
  BY StoreSame DEF objects, storeVars
<1>3. Excused' BY DEF Excused
<1>4. ASSUME NEW o \in Stored PROVE Holders(o)' + rc[o] <= Holders(o) + rc'[o]
  <2>1. o \in Object /\ rc[o] \in Nat /\ rc'[o] = rc[o] BY <1>1, StoredFacts DEF IInv, TypeOK
  <2>2. ByVars(o)' = ByVars(o) + 0 /\ ByProps(o)' = ByProps(o) + 0
    <3>1. ByVars(o)' = ByVars(o) /\ ByProps(o)' = ByProps(o) BY SameHolders DEF objects
    <3>2. ByVars(o) \in Nat /\ ByProps(o) \in Nat BY <1>1, <2>1, HoldersSum
    <3> QED BY <3>1, <3>2
  <2>3. ByCalls(o)' = 0 BY NestedEmpty, FS_EmptySet DEF ByCalls
  <2>4. BySweep(o)' = 0 BY DEF BySweep
  <2> DEFINE a == ByCalls(o)
             b == BySweep(o)
  <2>5. a \in Nat /\ b \in Nat BY <1>1, <2>1, HoldersSum
  <2>6. ByCalls(o)' = a + (0 - a) /\ BySweep(o)' = b + (0 - b)
    <3> HIDE DEF a, b
    <3> QED BY <2>3, <2>4, <2>5
  <2>7. 0 - a \in Int /\ 0 - b \in Int
    <3> HIDE DEF a, b
    <3> QED BY <2>5
  <2>8. Holders(o)' = Holders(o) + (0 + 0 + (0 - a) + (0 - b)) /\ Holders(o) \in Nat
    BY <1>1, <2>1, <2>2, <2>6, <2>7, Delta
  <2> HIDE DEF a, b
  <2> QED BY <2>1, <2>5, <2>8
<1>5. CountsExact' BY <1>2, <1>3, <1>4, CountsKeep
<1>6. ReleasedHeld' BY <1>2, <1>4, ReleasedKeep
<1>7. References' BY <1>2, <1>3 DEF IInv, References, objects
<1>8. Calls' /\ Nested(stack', Swept') BY NestedEmpty DEF Calls
<1>9. NoneMissed' BY DEF NoneMissed
<1>10. dtorCalled \subseteq dtorCalled' /\ dtorCalled' \subseteq dtorCalled \cup alloc
  BY StoredFacts DEF IInv
<1> QED BY <1>2, <1>5, <1>6, <1>7, <1>8, <1>9, <1>10, ShutdownStep DEF objects

LEMMA BailoutOK ==
  ASSUME IInv, NEW fatal \in Bailouts, Bailout(fatal)
  PROVE  IInv'
<1>1. /\ ActiveExecutor /\ unclean' = TRUE /\ stack' = <<>> /\ called' = FALSE
      /\ UNCHANGED <<storeVars, noReuse, objects, rc, prop, vars, runs>>
      /\ dtorCalled' \in {dtorCalled, dtorCalled \cup Stored}
  BY DEF Bailout
<1>2. PICK p \in (IF phase \in UserPhase THEN After[phase] ELSE {"output"}) : Begin(p)
  BY DEF Bailout
<1>3. p \in {"functions", "table", "destroy", "discard", "output"} BY <1>2 DEF After, UserPhase
<1>4. TypeOK BY DEF IInv
<1>5. /\ phase' = p /\ cursor' \in Nat /\ symbols' \in Nat
      /\ p \in {"table", "destroy"} => cursor' <= Slots
      /\ p \in {"release", "discard"} => cursor' = Len(bucket)
  BY <1>2, <1>3, <1>4, BeginFacts
<1>6. dtorCalled' \subseteq Object BY <1>1, <1>4, StoredFacts DEF IInv, TypeOK
<1>7. TypeOK'
  <2>1. <<>> \in Seq(Frames) BY NestedEmpty
  <2>2. phase' \in UserPhase \cup {"table", "sweep", "destroy", "release", "discard", "done", "aborted"}
    BY <1>3, <1>5 DEF UserPhase
  <2> QED BY <1>1, <1>4, <1>5, <1>6, <2>1, <2>2 DEF TypeOK, storeVars, objects
<1>8. ~Releasing /\ phase \notin {"done", "aborted"} BY <1>1 DEF ActiveExecutor, Releasing
<1>9. phase' # "sweep" BY <1>3, <1>5
<1>10. Control'
  <2>1. Len(bucket) \in Nat /\ bucket' = bucket BY <1>1, <1>4, LenProperties DEF TypeOK, storeVars
  <2>2. Releasing' => cursor' = Len(bucket) BY <1>5 DEF Releasing
  <2>3. Releasing' => cursor' <= Len(bucket') BY <2>1, <2>2
  <2> QED BY <1>1, <1>3, <1>5, <2>3 DEF Control
<1> QED BY <1>1, <1>7, <1>8, <1>9, <1>10, Unwind

LEMMA AbortOK ==
  ASSUME IInv, ~ActiveExecutor, Abort,
         UNCHANGED <<storeVars, noReuse, objects, rc, prop, vars, cursor, symbols, called, runs>>
  PROVE  IInv'
<1>1. /\ unclean' = TRUE /\ stack' = <<>> /\ phase' = "aborted"
      /\ dtorCalled' = dtorCalled \cup Stored
  BY DEF Abort
<1>2. ~called BY DEF IInv, Control, ActiveExecutor
<1>3. TypeOK BY DEF IInv
<1>4. dtorCalled' \subseteq Object BY <1>1, <1>3, StoredFacts DEF IInv, TypeOK
<1>5. TypeOK'
  <2>1. <<>> \in Seq(Frames) BY NestedEmpty
  <2> QED BY <1>1, <1>3, <1>4, <2>1 DEF TypeOK, storeVars, objects
<1>6. Control' BY <1>1, <1>2 DEF Control, Releasing
<1> QED BY <1>1, <1>2, <1>5, <1>6, Unwind
-----------------------------------------------------------------------------
(* The loops over the global variables.                                     *)

LEMMA LoopDrop ==
  ASSUME IInv, stack = <<>>, phase \in {"table", "destroy"}, cursor > 0,
      NEW c \in {vars[cursor], Nil},
         vars' = [vars EXCEPT ![cursor] = IF c = Nil THEN @ ELSE Nil],
         Drop(c, rc, stack), cursor' = cursor - 1,
         UNCHANGED <<storeVars, modes, objects, dtorCalled, prop, phase, symbols, called, runs>>
  PROVE  IInv'
<1>1. TypeOK /\ Nil \notin Object BY SlotFinite DEF IInv
<1>2. cursor \in Slot /\ cursor' \in Nat /\ cursor' <= Slots
  <2>1. cursor \in Nat /\ Slots \in Nat /\ cursor <= Slots
    BY <1>1, SlotFinite DEF TypeOK, IInv, Control
  <2> QED BY <2>1 DEF Slot
<1>3. c \in Stored \cup {Nil} /\ c \in Object \cup {Nil} /\ rc \in [Object -> Nat]
  BY <1>1, <1>2 DEF IInv, References, TypeOK
<1>4. c # Nil => c \in Stored /\ rc[c] # 0 /\ Holders(c) # 0
  <2>1. c # Nil => rc[c] # 0 BY <1>2, <1>3, Counted
  <2>2. c # Nil => Holders(c) # 0 BY <1>1, <1>2, <1>3, Unheld
  <2> QED BY <1>3, <2>1, <2>2
<1>5. <<>> \in Seq(Frames) /\ Nested(<<>>, Swept) /\ Waiting(<<>>) /\ DOMAIN <<>> = {}
      /\ \A o : HoldF(o, <<>>) = {}
  BY NestedEmpty DEF Waiting
<1>6. /\ rc' \in [Object -> Nat] /\ stack' \in Seq(Frames) /\ Nested(stack', Swept)
      /\ \A o \in Object : rc'[o] + (IF c = o THEN 1 ELSE 0) = rc[o]
      /\ \A o : Cardinality(HoldF(o, stack')) = Cardinality(HoldF(o, <<>>))
      /\ \A i \in DOMAIN stack' :
            \/ \E j \in DOMAIN <<>> : stack'[i] = <<>>[j]
            \/ c # Nil /\ stack'[i] = DelFrame(c, "enter") /\ rc'[c] = 0
  BY <1>3, <1>4, <1>5, DropOK
<1>7. vars' = [vars EXCEPT ![cursor] = IF c = Nil THEN vars[cursor] ELSE Nil]
  BY <1>1, <1>2 DEF TypeOK
<1>8. vars' \in [Slot -> Object \cup {Nil}]
  BY <1>1, <1>2, <1>7 DEF TypeOK
<1>9. TypeOK' BY <1>1, <1>2, <1>6, <1>8 DEF TypeOK, storeVars, modes, objects
<1>10. Stored' = Stored /\ Top' = Top /\ alloc' = alloc /\ freeCalled' = freeCalled /\
       Excused' = Excused
  BY StoreSame DEF objects, storeVars, modes, Excused, Releasing
<1>11. ~called /\ ~Releasing BY DEF IInv, Control, Releasing
<1>12. Stored \cap freeCalled = {} BY <1>11 DEF IInv, ReleasedHeld
<1>13. ASSUME NEW p \in Stored
       PROVE  Holders(p)' + rc[p] = Holders(p) + rc'[p] /\ Holders(p) \in Nat /\ rc'[p] \in Nat
  <2> DEFINE d == IF c = p THEN 1 ELSE 0
  <2>1. p \in Object /\ p # Nil BY <1>1, StoredFacts DEF IInv
  <2>2. ByVars(p)' = ByVars(p) + (0 - d)
    <3>1. CASE c = Nil
      <4>1. vars' = vars BY <1>1, <1>7, <3>1 DEF TypeOK
      <4>2. ByVars(p)' = ByVars(p) /\ ByVars(p) \in Nat /\ d = 0
        BY <1>1, <2>1, <3>1, <4>1, SameHolders, HoldersSum
      <4> QED BY <4>2
    <3>2. CASE c # Nil
      <4>1. vars' = [vars EXCEPT ![cursor] = Nil] /\ c = vars[cursor] BY <1>7, <3>2
      <4>2. ByVars(p)' = ByVars(p) + ((IF Nil = p THEN 1 ELSE 0) - (IF vars[cursor] = p THEN 1 ELSE 0))
        <5>1. TypeOK /\ p \in Object /\ cursor \in Slot BY <1>1, <1>2, <2>1
        <5> QED BY <4>1, <5>1, Cleared
      <4> QED BY <2>1, <4>1, <4>2
    <3> QED BY <3>1, <3>2
  <2>3. ByCalls(p)' = ByCalls(p) + 0
    <3>1. ByCalls(p)' = ByCalls(p) BY <1>6 DEF ByCalls
    <3> QED BY <1>1, <2>1, <3>1, HoldersSum
  <2>4. ByProps(p)' = ByProps(p) + 0 /\ BySweep(p)' = BySweep(p) + 0
    <3>1. ByProps(p)' = ByProps(p) BY SameHolders DEF objects
    <3>2. BySweep(p) = 0 /\ BySweep(p)' = 0 BY <1>11 DEF BySweep
    <3>3. ByProps(p) \in Nat BY <1>1, <2>1, HoldersSum
    <3> QED BY <3>1, <3>2, <3>3
  <2>5. Holders(p)' = Holders(p) + ((0 - d) + 0 + 0 + 0) /\ Holders(p) \in Nat
    BY <1>1, <1>9, <2>1, <2>2, <2>3, <2>4, Delta
  <2>6. rc'[p] + d = rc[p] /\ rc[p] \in Nat /\ rc'[p] \in Nat BY <1>3, <1>6, <2>1
  <2>7. d \in Nat OBVIOUS
  <2> HIDE DEF d
  <2> QED BY <2>5, <2>6, <2>7
<1>14. \A p \in Stored : Holders(p)' + rc[p] <= Holders(p) + rc'[p]
  <2> TAKE p \in Stored
  <2> QED BY <1>13
<1>15. CountsExact' BY <1>9, <1>10, <1>13, <1>14, CountsKeep
<1>16. ReleasedHeld' BY <1>9, <1>10, <1>14, ReleasedKeep
<1>17. Calls'
  <2>1. \A i \in DOMAIN <<>> : FrameOK(<<>>[i]) BY <1>5
  <2>2. c # Nil /\ rc'[c] = 0 /\ c \in freeCalled' => phase' = "discard" /\ c \in StdFree
    BY <1>4, <1>10, <1>12
  <2> QED BY <1>3, <1>5, <1>6, <1>10, <2>1, <2>2, CallsAfterDrop
<1>18. References'
  <2>1. \A s \in Slot : vars'[s] \in Stored \cup {Nil}
    BY <1>1, <1>2, <1>7 DEF IInv, References, TypeOK
  <2> QED BY <1>10, <2>1 DEF IInv, References
<1>19. Nested(stack', Swept')
  <2>1. Swept' = Swept BY <1>11 DEF Swept
  <2> QED BY <1>6, <2>1
<1>20. NoneMissed' BY DEF NoneMissed
<1>21. Control' BY <1>2, <1>11 DEF Control, Releasing
<1> QED BY <1>9, <1>10, <1>15, <1>16, <1>17, <1>18, <1>19, <1>20, <1>21, ShutdownStep DEF objects

LEMMA TableStepOK ==
  ASSUME IInv, TableStep
  PROVE  IInv'
<1> DEFINE o == vars[cursor]
           c == IF o # Nil /\ rc[o] = 1 THEN o ELSE Nil
<1>1. /\ phase = "table" /\ stack = <<>> /\ cursor > 0 /\ cursor' = cursor - 1 /\ Drop(c, rc, stack)
      /\ vars' = IF o # Nil /\ rc[o] = 1 THEN [vars EXCEPT ![cursor] = Nil] ELSE vars
      /\ UNCHANGED <<storeVars, modes, objects, dtorCalled, prop, phase, symbols, called, runs>>
  BY DEF TableStep
<1>2. vars \in [Slot -> Object \cup {Nil}] BY DEF IInv, TypeOK
<1>3. vars' = [vars EXCEPT ![cursor] = IF c = Nil THEN @ ELSE Nil]
  <2>1. CASE c = Nil BY <1>1, <1>2, <2>1
  <2>2. CASE c # Nil BY <1>1, <1>2, <2>2
  <2> QED BY <2>1, <2>2
<1>4. c \in {vars[cursor], Nil} OBVIOUS
<1> HIDE DEF c
<1> QED BY <1>1, <1>3, <1>4, LoopDrop

LEMMA DestroyStepOK ==
  ASSUME IInv, DestroyStep
  PROVE  IInv'
<1> DEFINE c == vars[cursor]
<1>1. /\ phase = "destroy" /\ stack = <<>> /\ cursor > 0 /\ cursor' =
                                                            cursor - 1 /\ Drop(c, rc, stack)
      /\ vars' = [vars EXCEPT ![cursor] = Nil]
      /\ UNCHANGED <<storeVars, modes, objects, dtorCalled, prop, phase, symbols, called, runs>>
  BY DEF DestroyStep
<1>2. vars \in [Slot -> Object \cup {Nil}] BY DEF IInv, TypeOK
<1>3. vars' = [vars EXCEPT ![cursor] = IF c = Nil THEN @ ELSE Nil]
  <2>1. CASE c = Nil BY <1>1, <1>2, <2>1
  <2>2. CASE c # Nil BY <1>1, <1>2, <2>2
  <2> QED BY <2>1, <2>2
<1>4. c \in {vars[cursor], Nil} OBVIOUS
<1> HIDE DEF c
<1> QED BY <1>1, <1>3, <1>4, LoopDrop
-----------------------------------------------------------------------------
(* The loop of call_destructors.                                            *)

\* Counts and the hold of the sweep change together.
LEMMA SweepCounts ==
  ASSUME IInv, TypeOK', phase = "sweep", phase' = phase, NEW k \in [Object -> Int],
         UNCHANGED <<storeVars, modes, objects, prop, vars>>,
         \A o \in Object : /\ ByCalls(o)' = ByCalls(o) /\ BySweep(o)' = BySweep(o) + k[o]
                           /\ rc'[o] = rc[o] + k[o]
  PROVE  CountsExact' /\ ReleasedHeld' /\ Excused' = Excused
<1>1. TypeOK BY DEF IInv
<1>2. Stored' = Stored /\ alloc' = alloc /\ freeCalled' = freeCalled /\ Excused' = Excused
  BY StoreSame DEF objects, storeVars, modes, Excused, Releasing
<1>3. ASSUME NEW p \in Stored
      PROVE  Holders(p)' + rc[p] = Holders(p) + rc'[p] /\ Holders(p) \in Nat /\ rc'[p] \in Nat
  <2>1. p \in Object /\ k[p] \in Int /\ rc[p] \in Nat /\ rc'[p] \in Nat
    BY <1>1, StoredFacts DEF IInv, TypeOK
  <2>2. ByVars(p)' = ByVars(p) + 0 /\ ByProps(p)' = ByProps(p) + 0 /\ ByCalls(p)' = ByCalls(p) + 0
    <3>1. ByVars(p)' = ByVars(p) /\ ByProps(p)' = ByProps(p) BY SameHolders DEF objects
    <3>2. ByVars(p) \in Nat /\ ByProps(p) \in Nat /\ ByCalls(p) \in Nat BY <1>1, <2>1, HoldersSum
    <3>3. ByCalls(p)' = ByCalls(p) BY <2>1
    <3> QED BY <3>1, <3>2, <3>3
  <2>3. BySweep(p)' = BySweep(p) + k[p] /\ rc'[p] = rc[p] + k[p] BY <2>1
  <2>4. Holders(p)' = Holders(p) + (0 + 0 + 0 + k[p]) /\ Holders(p) \in Nat
    BY <1>1, <2>1, <2>2, <2>3, Delta
  <2> QED BY <2>1, <2>3, <2>4
<1>4. \A p \in Stored : Holders(p)' + rc[p] <= Holders(p) + rc'[p]
  <2> TAKE p \in Stored
  <2> QED BY <1>3
<1>5. CountsExact' BY <1>2, <1>3, <1>4, CountsKeep
<1>6. ReleasedHeld' BY <1>2, <1>4, ReleasedKeep
<1> QED BY <1>2, <1>5, <1>6

LEMMA SweepStepOK ==
  ASSUME IInv, SweepStep
  PROVE  IInv'
<1> DEFINE o == bucket[cursor].obj
           fresh == IsValid(cursor) /\ o \notin dtorCalled
           call == fresh /\ HasHandler(o)
           f == DtorFrame(o, "enter")
           k == [p \in Object |-> IF call /\ p = o THEN 1 ELSE 0]
<1>1. /\ phase = "sweep" /\ stack = <<>> /\ ~called /\ cursor < Top
      /\ dtorCalled' = IF fresh THEN dtorCalled \cup {o} ELSE dtorCalled
      /\ called' = call
      /\ cursor' = IF call THEN cursor ELSE cursor + 1
      /\ rc' = IF call THEN [rc EXCEPT ![o] = @ + 1] ELSE rc
      /\ stack' = IF call THEN <<f>> ELSE <<>>
      /\ UNCHANGED <<storeVars, modes, objects, prop, vars, phase, symbols, runs>>
  BY DEF SweepStep
<1>2. TypeOK /\ cursor \in 1 .. Top /\ Top \in Nat /\ Top = Len(bucket) + 1 /\
      DOMAIN bucket = 1 .. Len(bucket)
      /\ Len(bucket) \in Nat
  <2>1. TypeOK /\ cursor \in 1 .. Top BY <1>1 DEF IInv, Control
  <2>2. DOMAIN bucket = 1 .. Len(bucket) /\ Len(bucket) \in Nat BY <2>1, LenProperties DEF TypeOK
  <2> QED BY <2>1, <2>2 DEF Top
<1>3. cursor \in DOMAIN bucket /\ cursor \in Nat /\ cursor + 1 \in 1 .. Top BY <1>1, <1>2
<1>4. IsValid(cursor) => o \in Stored /\ o \in Object BY <1>3, StoredFacts DEF IInv
<1>5. bucket' = bucket /\ Top' = Top /\ Stored' = Stored /\ alloc' = alloc /\ noReuse' = noReuse
  BY <1>1, StoreSame DEF storeVars, objects, modes
<1>6. call => f \in Frames /\ f.fn = "dtor" /\ f.at = "enter" /\ f.obj = o
  BY <1>4, FrameFacts
<1>7. dtorCalled \subseteq dtorCalled' /\ dtorCalled' \subseteq dtorCalled \cup alloc
      /\ (IsValid(cursor) => o \in dtorCalled')
  BY <1>1, <1>4, StoredFacts DEF IInv
<1>8. /\ stack' \in Seq(Frames) /\ Nested(stack', Swept')
      /\ \A p : Cardinality(HoldF(p, stack')) = 0
      /\ \A i \in DOMAIN stack' : call /\ stack'[i] = f
  <2>1. <<>> \in Seq(Frames) /\ (\A b : Nested(<<>>, b)) /\ DOMAIN <<>> = {}
        /\ \A p : HoldF(p, <<>>) = {} /\ Cardinality(HoldF(p, <<>>)) = 0
    BY NestedEmpty, FS_EmptySet
  <2>2. CASE ~call
    <3>1. stack' = <<>> BY <1>1, <2>2
    <3> QED BY <2>1, <3>1
  <2>3. CASE call
    <3>1. stack' = <<f>> \o <<>> /\ Swept' = o /\ stack' = <<f>>
      <4>1. Swept' = o BY <1>1, <1>5, <2>3 DEF Swept
      <4>2. stack' = <<f>> BY <1>1, <2>3
      <4>3. <<f>> = <<f>> \o <<>>
        <5> HIDE DEF f
        <5>1. <<f>> \in Seq({f}) OBVIOUS
        <5> QED BY <5>1, ConcatEmptySeq
      <4> QED BY <4>1, <4>2, <4>3
    <3>2. \A p : ~Holding(f, p) BY <1>6, <2>3 DEF Holding
    <3> HIDE DEF f, o, call
    <3>3. stack' \in Seq(Frames) /\ DOMAIN stack' = {1} /\ stack'[1] = f
      BY <1>6, <2>3, <3>1
    <3>4. Nested(<<f>> \o <<>>, o)
      <4>1. Waiting(<<>>) BY DEF Waiting
      <4> QED BY <1>6, <2>1, <2>3, <4>1, NestedCons DEF Waiting
    <3>5. \A p : Cardinality(HoldF(p, <<f>> \o <<>>)) = 0
      <4> TAKE p
      <4>1. Cardinality(HoldF(p, <<f>> \o <<>>)) = Cardinality(HoldF(p, <<>>)) +
          (IF Holding(f, p) THEN 1 ELSE 0)
        BY <1>6, <2>1, <2>3, HoldCons
      <4>2. Cardinality(HoldF(p, <<>>)) = 0 /\ ~Holding(f, p) BY <2>1, <3>2
      <4> QED BY <4>1, <4>2
    <3> QED BY <2>3, <3>1, <3>3, <3>4, <3>5
  <2> QED BY <2>2, <2>3
<1>9. TypeOK'
  <2>1. rc' \in [Object -> Nat] BY <1>1, <1>2, <1>4 DEF TypeOK
  <2>2. cursor' \in Nat BY <1>1, <1>3
  <2>3. dtorCalled' \subseteq Object BY <1>2, <1>7 DEF TypeOK
  <2>4. called' \in BOOLEAN BY <1>1
  <2> HIDE DEF call, f, o, fresh
  <2> QED BY <1>1, <1>2, <1>8, <2>1, <2>2, <2>3, <2>4 DEF TypeOK, storeVars, modes, objects
<1>10. \A p \in Object : /\ ByCalls(p)' = ByCalls(p) /\ BySweep(p)' = BySweep(p) + k[p]
                         /\ rc'[p] = rc[p] + k[p]
  <2> TAKE p \in Object
  <2>1. ByCalls(p) = 0 BY <1>1, NestedEmpty, FS_EmptySet DEF ByCalls
  <2>2. ByCalls(p)' = 0 BY <1>8 DEF ByCalls
  <2>3. BySweep(p) = 0 BY <1>1 DEF BySweep
  <2>4. BySweep(p)' = k[p] BY <1>1, <1>5 DEF BySweep
  <2>5. rc'[p] = rc[p] + k[p] BY <1>1, <1>2 DEF TypeOK
  <2>6. k[p] = 0 + k[p] OBVIOUS
  <2> HIDE DEF k
  <2> QED BY <2>1, <2>2, <2>3, <2>4, <2>5, <2>6
<1>11. CountsExact' /\ ReleasedHeld' /\ Excused' = Excused
  <2>1. k \in [Object -> Int] OBVIOUS
  <2> HIDE DEF k
  <2> QED BY <1>1, <1>9, <1>10, <2>1, SweepCounts
<1>12. Calls'
  <2> SUFFICES ASSUME NEW i \in DOMAIN stack', NEW g, g = stack'[i] PROVE FrameOK(g)'
    BY DEF Calls, FrameOK
  <2>1. call /\ g = f BY <1>8
  <2>2. g.fn = "dtor" /\ g.at = "enter" /\ g.obj = o BY <1>6, <2>1
  <2>3. o \in Stored /\ o \in Object /\ o \in dtorCalled' /\ runs'[o] = 0 /\ HasHandler(o)
    BY <1>1, <1>4, <1>7, <2>1 DEF IInv, RunsOnce
  <2> QED BY <1>5, <2>2, <2>3 DEF FrameOK, HasHandler
<1>13. References' BY <1>1, <1>5, <1>11 DEF IInv, References
<1>14. NoneMissed'
  <2> SUFFICES ASSUME NEW i \in 1 .. cursor' - 1, i \in DOMAIN bucket, IsValid(i)
               PROVE  bucket[i].obj \in dtorCalled'
    BY <1>5 DEF NoneMissed, IsValid
  <2>1. i \in 1 .. cursor - 1 \/ (i = cursor /\ ~call)
    <3>1. CASE call
      <4>1. cursor' = cursor BY <1>1, <3>1
      <4> QED BY <4>1
    <3>2. CASE ~call
      <4>1. cursor' = cursor + 1 BY <1>1, <3>2
      <4> QED BY <1>3, <3>2, <4>1
    <3> QED BY <3>1, <3>2
  <2>2. CASE i \in 1 .. cursor - 1
    <3>1. bucket[i].obj \in dtorCalled BY <1>1, <2>2 DEF IInv, NoneMissed
    <3> QED BY <1>7, <3>1
  <2>3. CASE i = cursor BY <1>7, <2>3
  <2> QED BY <2>1, <2>2, <2>3
<1>15. Control'
  <2>1. called' => /\ phase' = "sweep" /\ cursor' \in DOMAIN bucket'
                   /\ IsValid(cursor)' /\ Swept' \in dtorCalled'
    <3> SUFFICES ASSUME call
                 PROVE  /\ phase' = "sweep" /\ cursor' \in DOMAIN bucket'
                        /\ IsValid(cursor)' /\ Swept' \in dtorCalled'
      BY <1>1
    <3>1. cursor' = cursor /\ phase' = "sweep" /\ called' BY <1>1
    <3>2. Swept' = o BY <1>5, <3>1 DEF Swept
    <3> QED BY <1>3, <1>5, <1>7, <3>1, <3>2 DEF IsValid
  <2>2. cursor' \in 1 .. Top' /\ noReuse' BY <1>1, <1>2, <1>3, <1>5 DEF IInv, Control
  <2>3. phase' = "sweep" BY <1>1
  <2> HIDE DEF call, o, fresh
  <2> QED BY <2>1, <2>2, <2>3 DEF Control, Releasing
<1>16. Nested(stack', Swept') BY <1>8
<1>17. UNCHANGED <<storeVars, alloc, handle, runs, freeCalled, prop>> BY <1>1 DEF objects
<1> QED BY <1>7, <1>9, <1>11, <1>12, <1>13, <1>14, <1>15, <1>16, <1>17, ShutdownStep

LEMMA SweepCalledOK ==
  ASSUME IInv, SweepCalled
  PROVE  IInv'
<1> DEFINE o == bucket[cursor].obj
           k == [p \in Object |-> IF p = o THEN -1 ELSE 0]
<1>1. /\ phase = "sweep" /\ stack = <<>> /\ called /\ called' = FALSE /\ cursor' = cursor + 1
      /\ rc' = [rc EXCEPT ![o] = @ - 1]
      /\ UNCHANGED <<storeVars, modes, objects, dtorCalled, prop, vars, phase, symbols, stack, runs>>
  BY DEF SweepCalled
<1>2. /\ TypeOK /\ cursor \in DOMAIN bucket /\ IsValid(cursor) /\ o \in dtorCalled /\ noReuse
      /\ o \in Stored /\ o \in Object
  BY <1>1, StoredFacts DEF IInv, Control, Swept
<1>3. rc[o] # 0 /\ rc[o] \in Nat BY <1>1, <1>2, Counted
<1>4. cursor \in Nat /\ cursor + 1 \in 1 .. Top /\ cursor + 1 \in Nat
  <2>1. DOMAIN bucket = 1 .. Len(bucket) /\ Len(bucket) \in Nat BY <1>2, LenProperties DEF TypeOK
  <2> QED BY <1>2, <2>1 DEF Top
<1>5. bucket' = bucket /\ Top' = Top /\ Stored' = Stored /\ alloc' = alloc /\ noReuse' = noReuse
  BY <1>1, StoreSame DEF storeVars, objects, modes
<1>6. rc' \in [Object -> Nat]
  <2>1. rc[o] - 1 \in Nat BY <1>3
  <2> QED BY <1>1, <1>2, <2>1 DEF TypeOK
<1>7. TypeOK' BY <1>1, <1>2, <1>4, <1>6 DEF TypeOK, storeVars, modes, objects
<1>8. \A p \in Object : /\ ByCalls(p)' = ByCalls(p) /\ BySweep(p)' = BySweep(p) + k[p]
                        /\ rc'[p] = rc[p] + k[p]
  <2> TAKE p \in Object
  <2>1. ByCalls(p)' = ByCalls(p) BY <1>1, SameHolders
  <2>2. BySweep(p) = IF o = p THEN 1 ELSE 0 BY <1>1 DEF BySweep
  <2>3. BySweep(p)' = 0 BY <1>1 DEF BySweep
  <2>4. rc'[p] = rc[p] + k[p] BY <1>1, <1>2, <1>3 DEF TypeOK
  <2>5. 0 = (IF o = p THEN 1 ELSE 0) + k[p] OBVIOUS
  <2> HIDE DEF k, o
  <2> QED BY <2>1, <2>2, <2>3, <2>4, <2>5
<1>9. CountsExact' /\ ReleasedHeld' /\ Excused' = Excused
  <2>1. k \in [Object -> Int] OBVIOUS
  <2> HIDE DEF k
  <2> QED BY <1>1, <1>7, <1>8, <2>1, SweepCounts
<1>10. Calls' /\ Nested(stack', Swept') BY <1>1, NestedEmpty DEF Calls
<1>11. References' BY <1>1, <1>5, <1>9 DEF IInv, References
<1>12. NoneMissed'
  <2> SUFFICES ASSUME NEW i \in 1 .. cursor' - 1, i \in DOMAIN bucket, IsValid(i)
               PROVE  bucket[i].obj \in dtorCalled
    BY <1>1, <1>5 DEF NoneMissed, IsValid
  <2>1. i \in 1 .. cursor - 1 \/ i = cursor BY <1>1, <1>4
  <2>2. CASE i \in 1 .. cursor - 1 BY <1>1, <2>2 DEF IInv, NoneMissed
  <2>3. CASE i = cursor BY <1>2, <2>3
  <2> QED BY <2>1, <2>2, <2>3
<1>13. Control' BY <1>1, <1>2, <1>4, <1>5 DEF Control, Releasing
<1>14. UNCHANGED <<storeVars, alloc, handle, runs, freeCalled, prop, dtorCalled>>
  BY <1>1 DEF objects
<1> QED BY <1>7, <1>9, <1>10, <1>11, <1>12, <1>13, <1>14, ShutdownStep
-----------------------------------------------------------------------------
(* zend_objects_store_free_object_storage.                                  *)

LEMMA ReleaseStepOK ==
  ASSUME IInv, ReleaseStep
  PROVE  IInv'
<1> DEFINE o == bucket[cursor].obj
           fresh == IsValid(cursor) /\ o \notin freeCalled
           work == fresh /\ ~(phase = "discard" /\ o \in StdFree)
           c == IF work THEN prop[o] ELSE Nil
           r == IF work THEN [rc EXCEPT ![o] = @ + 1] ELSE rc
           e(p) == IF work /\ p = o THEN 1 ELSE 0
           d(p) == IF c = p THEN 1 ELSE 0
<1>1. /\ Releasing /\ stack = <<>> /\ cursor > 0 /\ cursor' = cursor - 1
      /\ freeCalled' = IF fresh THEN freeCalled \cup {o} ELSE freeCalled
      /\ work => DropProperty(o, r, stack)
      /\ ~work => prop' = prop /\ rc' = rc /\ stack' = stack
      /\ UNCHANGED <<storeVars, modes, alloc, handle, dtorCalled, vars, phase, symbols, called, runs>>
  BY DEF ReleaseStep
<1>2. TypeOK /\ Nil \notin Object BY SlotFinite DEF IInv
<1>3. cursor \in DOMAIN bucket /\ cursor' \in Nat /\ cursor' <= Len(bucket)
  <2>1. cursor \in Nat /\ cursor <= Len(bucket) BY <1>1, <1>2 DEF TypeOK, IInv, Control
  <2>2. DOMAIN bucket = 1 .. Len(bucket) /\ Len(bucket) \in Nat BY <1>2, LenProperties DEF TypeOK
  <2> QED BY <1>1, <2>1, <2>2
<1>4. fresh => o \in Stored /\ o \in Object /\ o \in alloc BY <1>3, StoredFacts DEF IInv
<1>5. ~called /\ phase \notin {"done", "aborted"} /\ Excused
  BY <1>1 DEF IInv, Control, Releasing, Excused
<1>6. Stored' = Stored /\ Top' = Top /\ alloc' = alloc /\ Excused' = Excused /\
      Releasing' = Releasing
      /\ phase' = phase /\ bucket' = bucket
  BY <1>1, StoreSame DEF storeVars, modes, Excused, Releasing
<1>7. c \in Stored \cup {Nil} /\ (c # Nil => work /\ rc[c] # 0 /\ Holders(c) # 0)
  <2>1. work => prop[o] \in Stored \cup {Nil} BY <1>4 DEF IInv, References
  <2>2. work /\ prop[o] # Nil => rc[prop[o]] # 0 BY <1>4, <2>1, Counted
  <2>3. work /\ prop[o] # Nil => Holders(prop[o]) # 0
    BY <1>2, <1>4, <2>1, StoredFacts, Unheld DEF IInv
  <2> HIDE DEF o
  <2> QED BY <2>1, <2>2, <2>3
<1>8. c \in Object \cup {Nil} BY <1>7, StoredFacts DEF IInv
<1>9. r \in [Object -> Nat] /\ \A p \in Object : r[p] = rc[p] + e(p) /\ rc[p] \in Nat
  <2>1. rc \in [Object -> Nat] BY <1>2 DEF TypeOK
  <2>2. CASE work
    <3>1. o \in Object /\ r = [rc EXCEPT ![o] = rc[o] + 1] /\ rc[o] \in Nat BY <1>4, <2>1, <2>2
    <3> QED BY <2>1, <2>2, <3>1
  <2>3. CASE ~work BY <2>1, <2>3
  <2> QED BY <2>2, <2>3
<1>10. c # Nil => r[c] # 0
  <2>1. c # Nil => rc[c] # 0 /\ c \in Object BY <1>7, <1>8
  <2>2. e(c) \in Nat OBVIOUS
  <2> HIDE DEF c, r, e
  <2> QED BY <1>9, <2>1, <2>2
<1>11. <<>> \in Seq(Frames) /\ Nested(<<>>, Swept) /\ Waiting(<<>>) /\ DOMAIN <<>> = {}
       /\ \A p : HoldF(p, <<>>) = {} /\ Cardinality(HoldF(p, <<>>)) = 0
  BY NestedEmpty, FS_EmptySet DEF Waiting
<1>12. Drop(c, r, <<>>)
  <2>1. CASE work BY <1>1, <2>1 DEF DropProperty
  <2>2. CASE ~work BY <1>1, <2>2 DEF Drop
  <2> QED BY <2>1, <2>2
<1>13. /\ rc' \in [Object -> Nat] /\ stack' \in Seq(Frames) /\ Nested(stack', Swept)
       /\ \A p \in Object : rc'[p] + d(p) = r[p]
       /\ \A p : Cardinality(HoldF(p, stack')) = 0
       /\ \A i \in DOMAIN stack' : c # Nil /\ stack'[i] = DelFrame(c, "enter") /\ rc'[c] = 0
  <2> HIDE DEF c, r
  <2>1. /\ rc' \in [Object -> Nat] /\ stack' \in Seq(Frames) /\ Nested(stack', Swept)
        /\ \A p \in Object : rc'[p] + (IF c = p THEN 1 ELSE 0) = r[p]
        /\ \A p : Cardinality(HoldF(p, stack')) = Cardinality(HoldF(p, <<>>))
        /\ \A i \in DOMAIN stack' :
              \/ \E j \in DOMAIN <<>> : stack'[i] = <<>>[j]
              \/ c # Nil /\ stack'[i] = DelFrame(c, "enter") /\ rc'[c] = 0
    BY <1>8, <1>9, <1>10, <1>11, <1>12, DropOK
  <2> QED BY <1>11, <2>1
<1>14. /\ prop' \in [Object -> Object \cup {Nil}]
       /\ work => prop' = [prop EXCEPT ![o] = Nil]
       /\ ~work => prop' = prop
       /\ \A p \in Object : prop'[p] = prop[p] \/ (work /\ p = o /\ prop'[p] = Nil)
  BY <1>1, <1>2 DEF DropProperty, TypeOK
<1>15. freeCalled \subseteq freeCalled' /\ freeCalled' \subseteq freeCalled \cup alloc
       /\ freeCalled' \subseteq Object
  BY <1>1, <1>2, <1>4 DEF TypeOK
<1>16. TypeOK'
  <2> HIDE DEF work, fresh, o, c, r
  <2> QED BY <1>1, <1>2, <1>3, <1>13, <1>14, <1>15 DEF TypeOK, storeVars, modes
<1>17. ASSUME NEW p \in Stored
       PROVE  /\ Holders(p)' + d(p) = Holders(p) /\ rc'[p] + d(p) = rc[p] + e(p)
              /\ Holders(p) \in Nat /\ Holders(p)' \in Nat /\ rc[p] \in Nat /\ rc'[p] \in Nat
              /\ p \in Object /\ d(p) \in Nat /\ e(p) \in {0, 1} /\ Holders(p) <= rc[p]
  <2>1. p \in Object /\ p # Nil BY <1>2, StoredFacts DEF IInv
  <2>2. ByProps(p)' = ByProps(p) + (0 - d(p))
    <3>1. CASE work
      <4>1. prop' = [prop EXCEPT ![o] = Nil] /\ c = prop[o] /\ o \in alloc BY <1>4, <1>14, <3>1
      <4> HIDE DEF o
      <4>2. \A q \in alloc : prop' = [prop EXCEPT ![q] = Nil] =>
               ByProps(p)' = ByProps(p) + ((IF Nil = p THEN 1 ELSE 0) - (IF prop[q] = p THEN 1 ELSE 0))
        BY <1>2, <1>6, <2>1, OneProperty
      <4> QED BY <2>1, <4>1, <4>2
    <3>2. CASE ~work
      <4>1. d(p) = 0 BY <2>1, <3>2
      <4>2. ByProps(p)' = ByProps(p) BY <1>6, <1>14, <3>2, SameHolders
      <4>3. ByProps(p) \in Nat BY <1>2, <2>1, HoldersSum
      <4> HIDE DEF d
      <4> QED BY <4>1, <4>2, <4>3
    <3> QED BY <3>1, <3>2
  <2>3. ByCalls(p)' = ByCalls(p) + 0
    <3>1. ByCalls(p) = 0 /\ ByCalls(p)' = 0 BY <1>1, <1>11, <1>13 DEF ByCalls
    <3> QED BY <3>1
  <2>4. BySweep(p)' = BySweep(p) + 0
    <3>1. BySweep(p) = 0 /\ BySweep(p)' = 0 BY <1>1, <1>5 DEF BySweep
    <3> QED BY <3>1
  <2>5. ByVars(p)' = ByVars(p) + 0 BY <1>1, <1>2, <2>1, SameHolders, HoldersSum
  <2>6. d(p) \in Nat /\ e(p) \in {0, 1} OBVIOUS
  <2>7. rc'[p] + d(p) = rc[p] + e(p) /\ rc[p] \in Nat /\ rc'[p] \in Nat BY <1>9, <1>13, <2>1
  <2> HIDE DEF d, e
  <2>8. 0 - d(p) \in Int BY <2>6
  <2>9. Holders(p)' = Holders(p) + (0 + (0 - d(p)) + 0 + 0) /\ Holders(p) \in Nat /\ Holders(p)' \in Nat
    BY <1>2, <1>16, <2>1, <2>2, <2>3, <2>4, <2>5, <2>8, Delta
  <2>10. Holders(p)' + d(p) = Holders(p) BY <2>6, <2>9
  <2>11. Holders(p) <= rc[p] BY Counted
  <2> QED BY <2>1, <2>6, <2>7, <2>9, <2>10, <2>11
<1>18. ASSUME NEW p \in Stored PROVE Holders(p)' + rc[p] <= Holders(p) + rc'[p]
  <2> HIDE DEF d, e
  <2> QED BY <1>17
<1>19. CountsExact' BY <1>5, <1>6, <1>16, <1>18, CountsKeep
<1>20. ReleasedHeld'
  <2> SUFFICES ASSUME NEW p \in Stored, p \in freeCalled'
               PROVE  (phase = "discard" /\ p \in StdFree) \/ Holders(p)' < rc'[p]
    BY <1>1, <1>6 DEF ReleasedHeld
  <2>1. CASE p \in freeCalled
    <3>1. (phase = "discard" /\ p \in StdFree) \/ Holders(p) < rc[p]
      BY <1>5, <2>1 DEF IInv, ReleasedHeld
    <3>2. Holders(p) < rc[p] => Holders(p)' < rc'[p]
      <4> HIDE DEF d, e
      <4> QED BY <1>17
    <3> QED BY <3>1, <3>2
  <2>2. CASE p \notin freeCalled
    <3>1. fresh /\ p = o BY <1>1, <2>2
    <3>2. CASE ~work BY <3>1, <3>2
    <3>3. CASE work
      <4>1. e(p) = 1 BY <3>1, <3>3
      <4> HIDE DEF d, e
      <4> QED BY <1>17, <4>1
    <3> QED BY <3>2, <3>3
  <2> QED BY <2>1, <2>2
<1>21. Calls'
  <2> SUFFICES ASSUME NEW i \in DOMAIN stack', NEW g, g = stack'[i] PROVE FrameOK(g)'
    BY DEF Calls, FrameOK
  <2>1. c # Nil /\ g = DelFrame(c, "enter") /\ rc'[c] = 0 /\ c \in Stored /\ c \in Object /\ work
    BY <1>7, <1>8, <1>13
  <2>2. g.fn = "del" /\ g.obj = c /\ g.at = "enter" BY <2>1, FrameFacts
  <2>3. d(c) = 1 OBVIOUS
  <2>4. e(c) = 0 /\ rc[c] = 1
    <3>1. ASSUME NEW p \in Stored, d(p) = 1, rc'[p] = 0 PROVE e(p) = 0 /\ rc[p] = 1
      <4> HIDE DEF d, e, c
      <4>1. Holders(p)' + 1 = Holders(p) /\ 0 + 1 = rc[p] + e(p) BY <1>17, <3>1
      <4>2. Holders(p) \in Nat /\ Holders(p)' \in Nat /\ rc[p] \in Nat /\ e(p) \in {0, 1} /\ Holders(p) <= rc[p]
        BY <1>17
      <4> QED BY <4>1, <4>2
    <3> HIDE DEF d, e, c
    <3> QED BY <2>1, <2>3, <3>1
  <2>5. c # o BY <2>1, <2>4
  <2>6. c \in freeCalled' => c \in freeCalled BY <1>1, <2>5
  <2>7. c \in freeCalled => phase = "discard" /\ c \in StdFree
    <3>1. Holders(c) # 0 BY <1>7, <2>1
    <3> HIDE DEF c
    <3> QED BY <1>5, <2>1, <2>4, <3>1, NotReleased
  <2> HIDE DEF c
  <2> QED BY <1>6, <2>1, <2>2, <2>6, <2>7 DEF FrameOK
<1>22. References'
  <2>1. \A s \in Slot : vars'[s] \in Stored \cup {Nil} BY <1>1 DEF IInv, References
  <2>2. \A p \in alloc : prop'[p] \in Stored \cup {Nil}
    <3> TAKE p \in alloc
    <3>1. p \in Object /\ prop[p] \in Stored \cup {Nil} BY <1>2 DEF IInv, References, TypeOK
    <3> HIDE DEF work, o
    <3> QED BY <1>14, <3>1
  <2> QED BY <1>5, <1>6, <2>1, <2>2 DEF References
<1>23. Nested(stack', Swept')
  <2>1. Swept' = Swept BY <1>1, <1>5 DEF Swept
  <2> QED BY <1>13, <2>1
<1>24. NoneMissed' BY <1>1, <1>6 DEF NoneMissed, Releasing
<1>25. Control' BY <1>1, <1>3, <1>5, <1>6 DEF Control, Releasing
<1>26. \A p \in Object \ alloc : prop'[p] = prop[p] BY <1>4, <1>14
<1>27. UNCHANGED <<storeVars, alloc, handle, runs, dtorCalled>> BY <1>1
<1> QED
  BY <1>15, <1>16, <1>19, <1>20, <1>21, <1>22, <1>23, <1>24, <1>25, <1>26, <1>27, ShutdownStep
-----------------------------------------------------------------------------
(* The invariant, and what follows from it.                                 *)

LEMMA InitOK == Init => IInv
<1> SUFFICES ASSUME Init PROVE IInv
  OBVIOUS
<1>1. /\ bucket = <<>> /\ size = InitSize /\ freeHead = None /\ noReuse = FALSE /\ unclean = FALSE
      /\ alloc = {} /\ dtorCalled = {} /\ freeCalled = {}
      /\ rc = [o \in Object |-> 0] /\ handle = [o \in Object |-> 0]
      /\ prop = [o \in Object |-> Nil] /\ vars = [s \in Slot |-> Nil]
      /\ phase = "script" /\ cursor = 0 /\ symbols = 0 /\ called = FALSE
      /\ stack = <<>> /\ runs = [o \in Object |-> 0]
  BY DEF Init
<1>2. InitSize \in Nat \ {0} BY StoreAssumption
<1>3. TypeOK
  <2>1. <<>> \in Seq(Buckets) /\ <<>> \in Seq(Frames) BY EmptySeq
  <2>2. bucket \in Seq(Buckets) /\ stack \in Seq(Frames) BY <1>1, <2>1
  <2>3. /\ size \in Nat /\ freeHead \in {None} \cup Nat
        /\ noReuse \in BOOLEAN /\ unclean \in BOOLEAN /\ called \in BOOLEAN
        /\ cursor \in Nat /\ symbols \in Nat
    BY <1>1, <1>2
  <2>4. /\ alloc \subseteq Object /\ dtorCalled \subseteq Object /\ freeCalled \subseteq Object
    BY <1>1
  <2>5. /\ rc \in [Object -> Nat] /\ handle \in [Object -> Nat] /\ runs \in [Object -> 0 .. 2]
    BY <1>1
  <2>6. /\ prop \in [Object -> Object \cup {Nil}] /\ vars \in [Slot -> Object \cup {Nil}]
    BY <1>1, Zenon
  <2>7. phase \in UserPhase \cup {"table", "sweep", "destroy", "release",
                                "discard", "done", "aborted"}
    BY <1>1 DEF UserPhase
  <2> QED BY <2>2, <2>3, <2>4, <2>5, <2>6, <2>7 DEF TypeOK
<1>4. DOMAIN bucket = {} /\ Len(bucket) = 0 /\ DOMAIN stack = {} BY <1>1, EmptySeq
<1>5. FreeBuckets = {} /\ Stored = {} BY <1>4 DEF FreeBuckets, Stored
<1>6. HandlesExact BY <1>1, <1>2, <1>4 DEF HandlesExact, Top
<1>7. FreeListLinked BY <1>1, <1>5 DEF FreeListLinked
<1>8. Fresh /\ References /\ CountsExact /\ RunsOnce
  BY <1>1, <1>5 DEF Fresh, References, CountsExact, RunsOnce
<1>9. Calls /\ Nested(stack, Swept) BY <1>1, <1>4, NestedEmpty DEF Calls
<1>10. ReleasedHeld /\ NoneMissed BY <1>1, <1>5 DEF ReleasedHeld, NoneMissed
<1>11. Control BY <1>1 DEF Control, Releasing
<1> QED BY <1>3, <1>6, <1>7, <1>8, <1>9, <1>10, <1>11 DEF IInv

LEMMA StutterOK == IInv /\ UNCHANGED vars_ => IInv'
<1> SUFFICES ASSUME IInv, UNCHANGED vars_ PROVE IInv'
  OBVIOUS
<1>1. UNCHANGED <<bucket, size, freeHead, noReuse, unclean, alloc, rc, handle, dtorCalled, freeCalled,
                  prop, vars, phase, cursor, symbols, called, stack, runs>>
  BY DEF vars_
<1>2. /\ Stored' = Stored /\ FreeBuckets' = FreeBuckets /\ Top' = Top
      /\ HandlesExact' /\ FreeListLinked' /\ \A h : IsValid(h)' = IsValid(h)
  BY <1>1, StoreSame DEF storeVars, IInv
<1>3. TypeOK' BY <1>1 DEF IInv, TypeOK
<1>4. Excused' = Excused /\ Releasing' = Releasing /\ Swept' = Swept
  BY <1>1 DEF Excused, Releasing, Swept
<1>5. Fresh' /\ References' /\ RunsOnce' BY <1>1, <1>2, <1>4 DEF IInv, Fresh, References, RunsOnce
<1>6. ASSUME NEW o \in Object PROVE Holders(o)' = Holders(o) BY <1>1 DEF Holders
<1>7. CountsExact' BY <1>1, <1>2, <1>4, <1>6, StoredFacts DEF IInv, CountsExact
<1>8. ReleasedHeld' BY <1>1, <1>2, <1>4, <1>6, StoredFacts DEF IInv, ReleasedHeld
<1>9. Calls' /\ Nested(stack', Swept') BY <1>1, <1>2, <1>4 DEF IInv, Calls, FrameOK
<1>10. NoneMissed' /\ Control' BY <1>1, <1>2, <1>4 DEF IInv, NoneMissed, Control
<1> QED BY <1>2, <1>3, <1>5, <1>7, <1>8, <1>9, <1>10 DEF IInv

LEMMA NextOK == IInv /\ [Next]_vars_ => IInv'
<1> SUFFICES ASSUME IInv, Next PROVE IInv'
  BY StutterOK
<1>1. CASE Program
  <2>1. ASSUME NEW o \in Object, NEW s \in Slot, NEW failed \in BOOLEAN, New(o, s, failed) PROVE
      IInv'
    BY <2>1, NewOK
  <2>2. ASSUME NEW o \in Object, NEW s \in Slot, Assign(s, o) PROVE IInv' BY <2>2, AssignOK
  <2>3. ASSUME NEW s \in Slot, Unset(s) PROVE IInv' BY <2>3, UnsetOK
  <2>4. ASSUME NEW o \in Object, UnsetProperty(o) PROVE IInv' BY <2>4, UnsetPropertyOK
  <2>5. ASSUME NEW o \in Object, NEW p \in Object, SetProperty(o, p) PROVE IInv'
    BY <2>5, SetPropertyOK
  <2>6. ASSUME NEW fatal \in Bailouts, Bailout(fatal) PROVE IInv' BY <2>6, BailoutOK
  <2>7. CASE LateBailout BY <2>7, AbortOK DEF LateBailout
  <2>8. CASE PhaseEnds BY <2>8, PhaseEndsOK
  <2> QED BY <1>1, <2>1, <2>2, <2>3, <2>4, <2>5, <2>6, <2>7, <2>8 DEF Program
<1>2. CASE Destructor
  <2>1. CASE DtorEnter BY <2>1, DtorEnterOK
  <2>2. CASE DtorRefused BY <2>2, DtorRefusedOK
  <2>3. CASE DtorInactive BY <2>3, AbortOK DEF DtorInactive
  <2>4. CASE DtorReturn BY <2>4, DtorReturnOK
  <2>5. CASE GeneratorEnter BY <2>5, GeneratorEnterOK
  <2>6. CASE GeneratorClose BY <2>6, GeneratorCloseOK
  <2> QED BY <1>2, <2>1, <2>2, <2>3, <2>4, <2>5, <2>6 DEF Destructor
<1>3. CASE Del
  <2>1. CASE DelEnter BY <2>1, DelEnterOK
  <2>2. CASE DelCalled BY <2>2, DelCalledOK
  <2>3. CASE DelRevived BY <2>3, DelRevivedOK
  <2>4. CASE DelRelease BY <2>4, DelReleaseOK
  <2>5. CASE DelFree BY <2>5, DelFreeOK
  <2> QED BY <1>3, <2>1, <2>2, <2>3, <2>4, <2>5 DEF Del
<1>4. CASE Shutdown
  <2>1. CASE TableStep BY <2>1, TableStepOK
  <2>2. CASE TablePassEnds BY <2>2, TablePassEndsOK
  <2>3. CASE SweepStep BY <2>3, SweepStepOK
  <2>4. CASE SweepCalled BY <2>4, SweepCalledOK
  <2>5. CASE SweepEnds BY <2>5, SweepEndsOK
  <2>6. CASE DestroyStep BY <2>6, DestroyStepOK
  <2>7. CASE DestroyEnds BY <2>7, DestroyEndsOK
  <2>8. CASE ReleaseStep BY <2>8, ReleaseStepOK
  <2>9. CASE ReleaseEnds BY <2>9, ReleaseEndsOK
  <2> QED BY <1>4, <2>1, <2>2, <2>3, <2>4, <2>5, <2>6, <2>7, <2>8, <2>9 DEF Shutdown
<1>5. CASE Finished BY <1>5, StutterOK DEF Finished
<1> QED BY <1>1, <1>2, <1>3, <1>4, <1>5 DEF Next

\* The inductive invariant: buckets, free list, counts, references and calls
\* in progress agree through every step of the program, of the destructors, of
\* zend_objects_store_del and of the end of the request, bailouts included.
THEOREM Inductive == Spec => []IInv
<1>1. Init => IInv BY InitOK
<1>2. IInv /\ [Next]_vars_ => IInv' BY NextOK
<1> QED BY <1>1, <1>2, PTL DEF Spec

\* The variables of the store and of the shutdown keep their types: in
\* particular no count and no handle is ever negative.
THEOREM TypeCorrect == Spec => []TypeOK
<1>1. IInv => TypeOK BY DEF IInv
<1> QED BY <1>1, Inductive, PTL

\* Handles and buckets name one another and the free list goes through each
\* free bucket once (zend_objects_store_put, zend_objects_store_del); counts
\* are what holds an object; whatever is referred to is allocated; and the
\* release (zend_objects_store_free_object_storage) lets nothing be freed that
\* it has freed the contents of.
THEOREM StoreIsSound == Spec => []StoreSound
<1>1. IInv => StoreSound
  <2> SUFFICES ASSUME IInv PROVE StoreSound
    OBVIOUS
  <2>1. StoreExact BY ListExact DEF IInv
  <2>2. CountsExact BY DEF IInv
  <2>3. NoneDangling
    <3>1. Stored \subseteq alloc BY StoredFacts DEF IInv
    <3>2. \A i \in DOMAIN stack : stack[i].obj \in alloc BY <3>1 DEF IInv, Calls, FrameOK
    <3> QED BY <3>1, <3>2 DEF NoneDangling, IInv, References, Control
  <2>4. ReleasedKept BY DEF ReleasedKept, IInv, Calls, FrameOK
  <2> QED BY <2>1, <2>2, <2>3, <2>4 DEF StoreSound
<1> QED BY <1>1, Inductive, PTL

\* A destructor runs at most once for each object, revived, deleted again or
\* met by the loop of zend_objects_store_call_destructors, and that loop
\* leaves behind no object whose destructor has not been called.
THEOREM CalledOnce == Spec => []DestructorsCalled
<1>1. IInv => DestructorsCalled
  <2> SUFFICES ASSUME IInv PROVE DestructorsCalled
    OBVIOUS
  <2>1. DestructedOnce BY DEF DestructedOnce, IInv, RunsOnce, TypeOK
  <2>2. NoneMissed BY DEF IInv
  <2> QED BY <2>1, <2>2 DEF DestructorsCalled
<1> QED BY <1>1, Inductive, PTL
=============================================================================
