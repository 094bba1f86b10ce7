----------------------------- MODULE ZendGCProofs -----------------------------
(***************************************************************************)
(* Proofs about ZendGC, for any objects, slots and owners: however         *)
(* destructors, revivals and collections follow and contain one another,   *)
(* counts are exact, nothing that is referred to is freed, no object is    *)
(* forgotten, the program sees the heap of ManagedHeap, and a collection   *)
(* that calls no destructor leaves no garbage.                             *)
(*                                                                         *)
(* First come facts about stacks of calls, the holders of an object and    *)
(* sets closed under references, then a lemma for each action or family of *)
(* actions, which shows the parts of the invariant it can disturb, and at  *)
(* the end one for the step of ManagedHeap that it is, and one for what it *)
(* leaves of a collection in progress.                                     *)
(***************************************************************************)
EXTENDS ZendGC, FiniteSetTheorems, SequenceTheorems, WellFoundedInduction, TLAPS
-----------------------------------------------------------------------------
(* Numbers, sets and sequences                                             *)

\* A non-empty set of natural numbers has a least element.
LEMMA NatMin ==
  ASSUME NEW T \in SUBSET Nat, T # {}
  PROVE  \E x \in T : \A y \in T : x <= y
<1> DEFINE R == OpToRel(<, Nat)
<1>1. IsWellFoundedOn(R, Nat) BY NatLessThanWellFounded
<1>2. \A x, y \in T : y < x => <<y, x>> \in R BY DEF OpToRel
<1> HIDE DEF R
<1>3. PICK x \in T : \A y \in T : ~(<<y, x>> \in R) BY <1>1, WFMin
<1>4. ASSUME NEW y \in T PROVE x <= y
  <2>1. ~(y < x) BY <1>2, <1>3
  <2> QED BY <2>1
<1> QED BY <1>4
-----------------------------------------------------------------------------
(* Calls, and stacks of calls, the innermost last.                          *)

LEMMA FrameTypes ==
  ASSUME NEW f \in Frames
  PROVE  /\ f.op \in {"delete", "destruct", "free", "full", "collect"}
         /\ f.op \in {"delete", "destruct", "free", "full"} \/ Is(f, "collect", "called") => f.obj \in Object
         /\ f.op # "collect" => f.obj \in Object
         /\ f.op = "collect" => /\ f.at \in {"called", "start", "dtors", "destroy"}
                                /\ f.at # "called" => f.obj = Nil
         /\ f.op = "delete" => f.at \in {"enter", "called"}
         /\ f.op = "destruct" => f.at = "run"
         /\ f.op = "free" => f.at \in {"delete", "collect"}
         /\ f.op = "full" => f.at = "wait"
         /\ Holds(f) <=> \/ Is(f, "delete", "called") \/ f.op \in {"destruct", "free", "full"}
                         \/ Is(f, "collect", "called")
BY DEF Frames, Is, Holds

LEMMA NewFrames ==
  ASSUME NEW o \in Object
  PROVE  /\ Delete(o) \in Frames /\ Is(Delete(o), "delete", "enter") /\ Delete(o).obj = o /\ ~Holds(Delete(o))
         /\ Destruct(o) \in Frames /\ Is(Destruct(o), "destruct", "run") /\ Destruct(o).obj = o /\ Holds(Destruct(o))
         /\ WhenFull(o) \in Frames /\ Is(WhenFull(o), "full", "wait") /\ WhenFull(o).obj = o /\ Holds(WhenFull(o))
         /\ \A by \in {"delete", "collect"} :
                Free(o, by) \in Frames /\ Is(Free(o, by), "free", by) /\ Free(o, by).obj = o /\ Holds(Free(o, by))
         /\ \A first \in BOOLEAN :
                /\ Collect(first) \in Frames /\ Is(Collect(first), "collect", "start")
                /\ Collect(first).obj = Nil /\ ~Holds(Collect(first))
BY DEF Frames, Is, Holds, Delete, Destruct, WhenFull, Free, Collect

Order(st) == \A i \in DOMAIN st : MayCall(SubSeq(st, 1, i - 1), st[i])
Below(st, tg) ==
    \A i \in DOMAIN st : st[i].op = "collect" => \A j \in 1 .. i - 1 : tg[st[j].obj] \in {"none", "root"}
Holders(st, o) == {i \in DOMAIN st : Holds(st[i]) /\ st[i].obj = o}

LEMMA HoldersFinite ==
  ASSUME NEW st \in Seq(Frames), NEW o
  PROVE  IsFiniteSet(Holders(st, o)) /\ Cardinality(Holders(st, o)) \in Nat
<1>1. DOMAIN st = 1 .. Len(st) /\ Len(st) \in Nat BY LenProperties
<1>2. IsFiniteSet(1 .. Len(st)) BY <1>1, FS_Interval
<1>3. Holders(st, o) \subseteq 1 .. Len(st) BY <1>1 DEF Holders
<1> QED BY <1>2, <1>3, FS_Subset, FS_CardinalityType

\* A call on top of others.
LEMMA Push ==
  ASSUME NEW st \in Seq(Frames), NEW f \in Frames
  PROVE  /\ Append(st, f) \in Seq(Frames) /\ Append(st, f) # <<>>
         /\ Last(Append(st, f)) = f /\ Front(Append(st, f)) = st
         /\ ToSet(Append(st, f)) = ToSet(st) \cup {f}
         /\ Order(Append(st, f)) <=> Order(st) /\ MayCall(st, f)
         /\ \A tg : Below(Append(st, f), tg) <=>
                /\ Below(st, tg)
                /\ f.op = "collect" => \A g \in ToSet(st) : tg[g.obj] \in {"none", "root"}
         /\ \A o : Cardinality(Holders(Append(st, f), o)) =
                Cardinality(Holders(st, o)) + (IF Holds(f) /\ f.obj = o THEN 1 ELSE 0)
<1> DEFINE t == Append(st, f)
           n == Len(st)
<1>1. /\ t \in Seq(Frames) /\ t # <<>> /\ Len(t) = n + 1 /\ t[n + 1] = f
      /\ \A i \in 1 .. n : t[i] = st[i]
  BY AppendProperties
<1>2. n \in Nat /\ DOMAIN st = 1 .. n /\ DOMAIN t = 1 .. (n + 1) BY <1>1, LenProperties
<1>3. ToSet(t) = ToSet(st) \cup {f}
  <2> HIDE DEF t, n
  <2>1. ASSUME NEW i \in 1 .. (n + 1) PROVE t[i] \in ToSet(st) \cup {f}
    <3>1. CASE i = n + 1 BY <1>1, <3>1
    <3>2. CASE i # n + 1
      <4>1. i \in 1 .. n BY <1>2, <3>2
      <4> QED BY <1>1, <1>2, <4>1 DEF ToSet
    <3> QED BY <3>1, <3>2
  <2>2. ASSUME NEW i \in 1 .. n PROVE st[i] \in ToSet(t)
    <3>1. i \in 1 .. (n + 1) BY <1>2
    <3> QED BY <1>1, <1>2, <3>1 DEF ToSet
  <2>3. f \in ToSet(t)
    <3>1. n + 1 \in 1 .. (n + 1) BY <1>2
    <3> QED BY <1>1, <1>2, <3>1 DEF ToSet
  <2> QED BY <1>2, <2>1, <2>2, <2>3 DEF ToSet
<1>4. ASSUME NEW i \in 1 .. (n + 1) PROVE SubSeq(t, 1, i - 1) = SubSeq(st, 1, i - 1)
  <2> HIDE DEF t, n
  <2>1. i - 1 \in 0 .. n BY <1>2
  <2>2. \A j \in 1 .. i - 1 : st[j] \in Frames /\ t[j] \in Frames
    <3>1. \A j \in 1 .. i - 1 : j \in 1 .. n /\ j \in 1 .. (n + 1) BY <2>1, <1>2
    <3> QED BY <3>1, <1>1, <1>2, ElementOfSeq DEF n
  <2>3. /\ SubSeq(t, 1, i - 1) \in Seq(Frames) /\ SubSeq(st, 1, i - 1) \in Seq(Frames)
        /\ Len(SubSeq(t, 1, i - 1)) = Len(SubSeq(st, 1, i - 1))
        /\ Len(SubSeq(t, 1, i - 1)) = i - 1
        /\ \A j \in 1 .. (i - 1) - 1 + 1 : SubSeq(t, 1, i - 1)[j] = t[1 + j - 1] /\ SubSeq(st, 1, i - 1)[j] = st[1 + j - 1]
    <3> DEFINE m == i - 1
    <3>1. m \in Nat BY <2>1, <1>2
    <3> HIDE DEF m
    <3>2. /\ SubSeq(t, 1, m) \in Seq(Frames) /\ Len(SubSeq(t, 1, m)) = IF 1 <= m THEN m - 1 + 1 ELSE 0
          /\ \A j \in 1 .. m - 1 + 1 : SubSeq(t, 1, m)[j] = t[1 + j - 1]
      BY <2>2, <3>1, SubSeqProperties DEF m
    <3>3. /\ SubSeq(st, 1, m) \in Seq(Frames) /\ Len(SubSeq(st, 1, m)) = IF 1 <= m THEN m - 1 + 1 ELSE 0
          /\ \A j \in 1 .. m - 1 + 1 : SubSeq(st, 1, m)[j] = st[1 + j - 1]
      BY <2>2, <3>1, SubSeqProperties DEF m
    <3>4. (IF 1 <= m THEN m - 1 + 1 ELSE 0) = m BY <3>1
    <3> QED BY <3>2, <3>3, <3>4 DEF m
  <2>4. ASSUME NEW j \in 1 .. i - 1 PROVE SubSeq(t, 1, i - 1)[j] = SubSeq(st, 1, i - 1)[j]
    <3>1. j \in 1 .. (i - 1) - 1 + 1 /\ 1 + j - 1 = j /\ j \in 1 .. n BY <2>1, <1>2
    <3> QED BY <2>3, <3>1, <1>1
  <2> QED BY <2>3, <2>4, SeqEqual
<1>5. SubSeq(st, 1, n) = st BY SubSeqFull
<1>6. Front(t) = st /\ Last(t) = f
  <2>1. n + 1 \in 1 .. (n + 1) /\ (n + 1) - 1 = n BY <1>2
  <2> HIDE DEF t, n
  <2> QED BY <2>1, <1>1, <1>4, <1>5 DEF Front, Last
<1>7. Order(t) <=> Order(st) /\ MayCall(st, f)
  <2> HIDE DEF t, n
  <2>1. \A i \in 1 .. n : i \in 1 .. (n + 1) BY <1>2
  <2>2. \A i \in 1 .. (n + 1) : i \in 1 .. n \/ i = n + 1 BY <1>2
  <2>3. n + 1 \in 1 .. (n + 1) /\ (n + 1) - 1 = n BY <1>2
  <2>4. \A i \in 1 .. n : MayCall(SubSeq(t, 1, i - 1), t[i]) <=> MayCall(SubSeq(st, 1, i - 1), st[i])
    BY <1>1, <1>4, <2>1
  <2>5. MayCall(SubSeq(t, 1, (n + 1) - 1), t[n + 1]) <=> MayCall(st, f) BY <1>1, <1>4, <1>5, <2>3
  <2> QED BY <1>2, <2>1, <2>2, <2>3, <2>4, <2>5 DEF Order
<1>8. ASSUME NEW tg
      PROVE  Below(t, tg) <=> /\ Below(st, tg)
                              /\ f.op = "collect" => \A g \in ToSet(st) : tg[g.obj] \in {"none", "root"}
  <2> HIDE DEF t, n
  <2>1. \A i \in 1 .. n : i \in 1 .. (n + 1) BY <1>2
  <2>2. \A i \in 1 .. (n + 1) : i \in 1 .. n \/ i = n + 1 BY <1>2
  <2>3. n + 1 \in 1 .. (n + 1) /\ (n + 1) - 1 = n BY <1>2
  <2>4. \A i \in 1 .. n : \A j \in 1 .. i - 1 : j \in 1 .. n BY <1>2
  <2>5. \A i \in 1 .. n :
            (t[i].op = "collect" => \A j \in 1 .. i - 1 : tg[t[j].obj] \in {"none", "root"}) <=>
            (st[i].op = "collect" => \A j \in 1 .. i - 1 : tg[st[j].obj] \in {"none", "root"})
    BY <1>1, <2>4
  <2>6. (\A j \in 1 .. (n + 1) - 1 : tg[t[j].obj] \in {"none", "root"}) <=>
        \A g \in ToSet(st) : tg[g.obj] \in {"none", "root"}
    <3>1. (\A j \in 1 .. (n + 1) - 1 : tg[t[j].obj] \in {"none", "root"}) <=>
          \A j \in 1 .. n : tg[st[j].obj] \in {"none", "root"}
      BY <1>1, <2>3
    <3> QED BY <3>1, <1>2 DEF ToSet
  <2> QED BY <1>1, <1>2, <2>1, <2>2, <2>3, <2>5, <2>6 DEF Below
<1>9. ASSUME NEW o
      PROVE  Cardinality(Holders(t, o)) = Cardinality(Holders(st, o)) + (IF Holds(f) /\ f.obj = o THEN 1 ELSE 0)
  <2> HIDE DEF t, n
  <2>1. IsFiniteSet(Holders(st, o)) /\ Cardinality(Holders(st, o)) \in Nat BY HoldersFinite
  <2>2. \A i \in 1 .. (n + 1) : i \in 1 .. n \/ i = n + 1 BY <1>2
  <2>3. \A i \in 1 .. n : i \in 1 .. (n + 1) /\ i # n + 1 BY <1>2
  <2>4. n + 1 \in 1 .. (n + 1) BY <1>2
  <2>5. CASE Holds(f) /\ f.obj = o
    <3>1. Holders(t, o) = Holders(st, o) \cup {n + 1} BY <1>1, <1>2, <2>2, <2>3, <2>4, <2>5 DEF Holders
    <3>2. n + 1 \notin Holders(st, o) BY <1>2 DEF Holders
    <3> QED BY <2>1, <2>5, <3>1, <3>2, FS_AddElement
  <2>6. CASE ~(Holds(f) /\ f.obj = o)
    <3>1. Holders(t, o) = Holders(st, o) BY <1>1, <1>2, <2>2, <2>3, <2>4, <2>6 DEF Holders
    <3> QED BY <2>1, <2>6, <3>1
  <2> QED BY <2>5, <2>6
<1> QED BY <1>1, <1>3, <1>6, <1>7, <1>8, <1>9

\* A stack is its innermost call on top of the others.
LEMMA Pop ==
  ASSUME NEW st \in Seq(Frames), st # <<>>
  PROVE  /\ Front(st) \in Seq(Frames) /\ Last(st) \in Frames
         /\ st = Append(Front(st), Last(st))
<1> DEFINE n == Len(st)
           t == Append(Front(st), Last(st))
<1>1. n \in Nat \ {0} /\ DOMAIN st = 1 .. n BY EmptySeq, LenProperties
<1>2. n \in 1 .. n /\ n - 1 \in Nat BY <1>1
<1>3. Last(st) \in Frames BY <1>2, ElementOfSeq DEF Last
<1>4. /\ Front(st) \in Seq(Frames) /\ Len(Front(st)) = n - 1
      /\ \A i \in 1 .. n - 1 : Front(st)[i] = st[i]
  <2> DEFINE m == n - 1
  <2>1. \A i \in 1 .. m : st[i] \in Frames
    <3>1. \A i \in 1 .. m : i \in 1 .. n BY <1>1
    <3> QED BY <3>1, ElementOfSeq
  <2>2. m \in Nat BY <1>2
  <2> HIDE DEF m, n
  <2>3. /\ SubSeq(st, 1, m) \in Seq(Frames) /\ Len(SubSeq(st, 1, m)) = IF 1 <= m THEN m - 1 + 1 ELSE 0
        /\ \A i \in 1 .. m - 1 + 1 : SubSeq(st, 1, m)[i] = st[1 + i - 1]
    BY <2>1, <2>2, SubSeqProperties
  <2>4. (IF 1 <= m THEN m - 1 + 1 ELSE 0) = m /\ m - 1 + 1 = m BY <2>2
  <2>5. \A i \in 1 .. m : 1 + i - 1 = i BY <2>2
  <2>6. Front(st) = SubSeq(st, 1, m) BY DEF Front, m, n
  <2> QED BY <2>3, <2>4, <2>5, <2>6 DEF m
<1>5. /\ t \in Seq(Frames) /\ Len(t) = Len(Front(st)) + 1
      /\ \A i \in 1 .. Len(Front(st)) : t[i] = Front(st)[i]
      /\ t[Len(Front(st)) + 1] = Last(st)
  BY <1>3, <1>4, AppendProperties
<1> HIDE DEF t, n
<1>6. Len(t) = n /\ (n - 1) + 1 = n BY <1>1, <1>4, <1>5
<1>7. ASSUME NEW i \in 1 .. n PROVE t[i] = st[i]
  <2>1. CASE i = n BY <1>4, <1>5, <1>6, <2>1 DEF Last, n
  <2>2. CASE i # n
    <3>1. i \in 1 .. n - 1 BY <1>1, <2>2
    <3> QED BY <1>4, <1>5, <3>1
  <2> QED BY <2>1, <2>2
<1>8. t = st BY <1>5, <1>6, <1>7, SeqEqual DEF n
<1> QED BY <1>3, <1>4, <1>8 DEF t

LEMMA LastIn ==
  ASSUME NEW st \in Seq(Frames), st # <<>>
  PROVE  Last(st) \in ToSet(st)
<1>1. Len(st) \in Nat \ {0} /\ DOMAIN st = 1 .. Len(st) BY EmptySeq, LenProperties
<1>2. Len(st) \in DOMAIN st BY <1>1
<1> QED BY <1>2 DEF Last, ToSet

LEMMA SubSeqTop ==
  ASSUME NEW st \in Seq(Frames), Order(st), NEW i \in 1 .. Len(st) - 1
  PROVE  /\ SubSeq(st, 1, i) \in Seq(Frames) /\ SubSeq(st, 1, i) # <<>>
         /\ Last(SubSeq(st, 1, i)) = st[i] /\ ToSet(SubSeq(st, 1, i)) \subseteq ToSet(st)
         /\ MayCall(SubSeq(st, 1, i), st[i + 1])
<1> DEFINE n == Len(st)
           p == SubSeq(st, 1, i)
<1>1. n \in Nat /\ DOMAIN st = 1 .. n BY LenProperties
<1>2. i \in 1 .. n /\ i + 1 \in 1 .. n /\ (i + 1) - 1 = i /\ i \in Nat /\ 1 <= i /\ i - 1 + 1 = i
  <2> HIDE DEF n
  <2>1. i \in 1 .. n - 1 BY DEF n
  <2> QED BY <1>1, <2>1
<1>3. \A j \in 1 .. i : j \in 1 .. n /\ st[j] \in Frames /\ 1 + j - 1 = j
  <2>1. \A j \in 1 .. i : j \in 1 .. n
    <3> HIDE DEF n
    <3> QED BY <1>1, <1>2
  <2>2. \A j \in 1 .. i : 1 + j - 1 = j OBVIOUS
  <2> QED BY <2>1, <2>2, ElementOfSeq
<1>4. p \in Seq(Frames) /\ Len(p) = i /\ \A j \in 1 .. i : p[j] = st[j]
  <2>1. /\ p \in Seq(Frames) /\ Len(p) = IF 1 <= i THEN i - 1 + 1 ELSE 0
        /\ \A j \in 1 .. i - 1 + 1 : p[j] = st[1 + j - 1]
    BY <1>2, <1>3, SubSeqProperties
  <2> HIDE DEF p
  <2> QED BY <2>1, <1>2, <1>3
<1> HIDE DEF p, n
<1>5. p # <<>> BY <1>2, <1>4, EmptySeq
<1>6. Last(p) = st[i]
  <2>1. i \in 1 .. i BY <1>2
  <2> QED BY <2>1, <1>4 DEF Last
<1>7. ToSet(p) \subseteq ToSet(st)
  <2>1. DOMAIN p = 1 .. i BY <1>4, LenProperties
  <2> QED BY <2>1, <1>1, <1>3, <1>4 DEF ToSet
<1>8. MayCall(p, st[i + 1])
  <2>1. MayCall(SubSeq(st, 1, (i + 1) - 1), st[i + 1]) BY <1>1, <1>2 DEF Order
  <2> QED BY <2>1, <1>2 DEF p
<1> QED BY <1>4, <1>5, <1>6, <1>7, <1>8 DEF p

LEMMA Active ==
  ASSUME NEW st \in Seq(Frames)
  PROVE  gc_active(st) <=> \E g \in ToSet(st) : g.op = "collect"
BY DEF gc_active, ToSet

\* What a call rules out below it.
LEMMA NotBelow ==
  ASSUME NEW st \in Seq(Frames), NEW f \in Frames, Order(Append(st, f)), NEW g \in ToSet(st)
  PROVE  /\ ~Is(g, "delete", "enter") /\ ~Is(g, "collect", "start")
         /\ f.op = "collect" => g.op # "collect" /\ ~Is(g, "free", "collect")
<1> DEFINE n == Len(st)
<1>1. n \in Nat /\ DOMAIN st = 1 .. n BY LenProperties
<1>2. Order(st) /\ MayCall(st, f) BY Push
<1>3. PICK i \in 1 .. n : g = st[i] BY <1>1 DEF ToSet
<1>4. st # <<>> BY <1>1, <1>3, EmptySeq
<1> HIDE DEF n
<1>5. ~Is(g, "delete", "enter") /\ ~Is(g, "collect", "start")
  <2>1. CASE i = n BY <1>2, <1>3, <1>4, <2>1 DEF MayCall, Last, n
  <2>2. CASE i # n
    <3>1. i \in 1 .. n - 1 BY <1>1, <1>3, <2>2
    <3>2. /\ SubSeq(st, 1, i) # <<>> /\ Last(SubSeq(st, 1, i)) = st[i]
          /\ MayCall(SubSeq(st, 1, i), st[i + 1])
      BY <1>2, <3>1, SubSeqTop DEF n
    <3> QED BY <1>3, <3>2 DEF MayCall
  <2> QED BY <2>1, <2>2
<1>6. f.op = "collect" => g.op # "collect" BY <1>2, Active DEF MayCall
<1>7. f.op = "collect" => ~Is(g, "free", "collect")
  <2> SUFFICES ASSUME f.op = "collect", Is(g, "free", "collect") PROVE FALSE OBVIOUS
  <2>1. ~gc_active(st) BY <1>2 DEF MayCall
  <2>2. MayCall(SubSeq(st, 1, i - 1), g) BY <1>1, <1>2, <1>3 DEF Order
  <2>3. SubSeq(st, 1, i - 1) # <<>> /\ Is(Last(SubSeq(st, 1, i - 1)), "collect", "destroy")
    BY <2>2 DEF MayCall
  <2>4. i # 1
    <3>1. SubSeq(st, 1, 0) = <<>> BY SubSeqEmpty
    <3> QED BY <2>3, <3>1
  <2>5. i - 1 \in 1 .. n - 1 /\ i - 1 \in 1 .. n BY <1>1, <1>3, <2>4
  <2>6. Last(SubSeq(st, 1, i - 1)) = st[i - 1] BY <1>2, <2>5, SubSeqTop DEF n
  <2> QED BY <1>1, <2>1, <2>3, <2>5, <2>6 DEF gc_active, Is
<1> QED BY <1>5, <1>6, <1>7

\* There is one collection at a time.
LEMMA OneCollection ==
  ASSUME NEW st \in Seq(Frames), Order(st), NEW i \in DOMAIN st, NEW j \in DOMAIN st,
         st[i].op = "collect", st[j].op = "collect", i < j
  PROVE  FALSE
<1>1. Len(st) \in Nat /\ DOMAIN st = 1 .. Len(st) BY LenProperties
<1>2. MayCall(SubSeq(st, 1, j - 1), st[j]) BY DEF Order
<1> DEFINE m == j - 1
<1>3. m \in 1 .. Len(st) - 1 /\ i \in 1 .. m BY <1>1
<1> DEFINE p == SubSeq(st, 1, m)
<1>4. /\ p \in Seq(Frames) /\ Len(p) = IF 1 <= m THEN m - 1 + 1 ELSE 0
      /\ \A k \in 1 .. m - 1 + 1 : p[k] = st[1 + k - 1]
  <2>1. m \in Int /\ \A k \in 1 .. m : k \in 1 .. Len(st) BY <1>1, <1>3
  <2> HIDE DEF m
  <2>2. \A k \in 1 .. m : st[k] \in Frames BY <2>1, ElementOfSeq
  <2> QED BY <2>1, <2>2, SubSeqProperties
<1>5. Len(p) = m /\ p[i] = st[i]
  <2>1. m - 1 + 1 = m /\ 1 + i - 1 = i /\ 1 <= m BY <1>1, <1>3
  <2> HIDE DEF p, m
  <2> QED BY <2>1, <1>3, <1>4
<1> HIDE DEF p, m
<1>6. i \in DOMAIN p BY <1>3, <1>4, <1>5, LenProperties
<1>7. ~gc_active(p) BY <1>2 DEF MayCall, p, m
<1> QED BY <1>5, <1>6, <1>7 DEF gc_active
-----------------------------------------------------------------------------
(* Who holds an object.                                                     *)

SlotsAt(h, o) == {s \in Slot : h[s] = o}
Exact(h, st, c) == \A o \in Object : c[o] = Cardinality(SlotsAt(h, o)) + Cardinality(Holders(st, o))

LEMMA ExactIs == CountsExact <=> Exact(heap, stack, rc)
BY DEF CountsExact, Exact, SlotsAt, Holders

LEMMA SlotsFinite ==
  ASSUME NEW h, NEW o
  PROVE  /\ IsFiniteSet(SlotsAt(h, o)) /\ Cardinality(SlotsAt(h, o)) \in Nat
         /\ Cardinality(SlotsAt(h, o)) = 0 <=> \A s \in Slot : h[s] # o
<1>1. SlotsAt(h, o) \subseteq Slot BY DEF SlotsAt
<1>2. IsFiniteSet(SlotsAt(h, o)) BY <1>1, FS_Subset, GCAssumption
<1>3. Cardinality(SlotsAt(h, o)) = 0 <=> SlotsAt(h, o) = {} BY <1>2, FS_EmptySet
<1> QED BY <1>2, <1>3, FS_CardinalityType DEF SlotsAt

\* A slot is given another value.
LEMMA SlotChanges ==
  ASSUME NEW h, NEW s \in Slot, NEW v, NEW o,
         NEW g, g[s] = v, \A r \in Slot : r # s => g[r] = h[r]
  PROVE  Cardinality(SlotsAt(g, o)) =
             Cardinality(SlotsAt(h, o)) + (IF v = o THEN 1 ELSE 0) - (IF h[s] = o THEN 1 ELSE 0)
<1> DEFINE A == SlotsAt(h, o)
           B == SlotsAt(g, o)
<1>1. IsFiniteSet(A) /\ IsFiniteSet(B) /\ Cardinality(A) \in Nat /\ Cardinality(B) \in Nat BY SlotsFinite
<1>2. B = IF v = o THEN A \cup {s} ELSE A \ {s} BY DEF SlotsAt
<1>3. s \in A <=> h[s] = o BY DEF SlotsAt
<1> HIDE DEF A, B
<1>4. /\ Cardinality(A \cup {s}) = IF s \in A THEN Cardinality(A) ELSE Cardinality(A) + 1
      /\ Cardinality(A \ {s}) = IF s \in A THEN Cardinality(A) - 1 ELSE Cardinality(A)
  BY <1>1, FS_AddElement, FS_RemoveElement
<1> QED BY <1>1, <1>2, <1>3, <1>4 DEF A, B

\* Somebody holds an object a call of the stack holds.
LEMMA HolderCounts ==
  ASSUME NEW st \in Seq(Frames), NEW o
  PROVE  Cardinality(Holders(st, o)) = 0 <=> \A f \in ToSet(st) : Holds(f) => f.obj # o
<1>1. IsFiniteSet(Holders(st, o)) BY HoldersFinite
<1>2. Cardinality(Holders(st, o)) = 0 <=> Holders(st, o) = {} BY <1>1, FS_EmptySet
<1> QED BY <1>2 DEF Holders, ToSet
-----------------------------------------------------------------------------
(* Sets that hold what their live objects refer to.                         *)

LEMMA ClosedIs ==
  ASSUME NEW T \in SUBSET Object
  PROVE  /\ Closed(T) <=> \A s \in Slot : Owner[s] \in T /\ memory[Owner[s]] = "live" /\ heap[s] # Nil => heap[s] \in T
         /\ Closed(T)' <=> \A s \in Slot : Owner[s] \in T /\ memory'[Owner[s]] = "live" /\ heap'[s] # Nil => heap'[s] \in T
BY DEF Closed, Refs, SlotsOf, Memory

LEMMA ReachFacts ==
  ASSUME TypeInv, NEW S \in SUBSET Object
  PROVE  /\ Reach(S) \in SUBSET Object /\ S \subseteq Reach(S) /\ Closed(Reach(S))
         /\ \A T \in SUBSET Object : S \subseteq T /\ Closed(T) => Reach(S) \subseteq T
<1>1. /\ Reach(S) \in SUBSET Object /\ S \subseteq Reach(S)
      /\ \A T \in SUBSET Object : S \subseteq T /\ Closed(T) => Reach(S) \subseteq T
  BY DEF Reach
<1>2. ASSUME NEW s \in Slot, Owner[s] \in Reach(S), memory[Owner[s]] = "live", heap[s] # Nil
      PROVE  heap[s] \in Reach(S)
  <2>1. heap[s] \in Object BY <1>2 DEF TypeInv
  <2>2. ASSUME NEW T \in SUBSET Object, S \subseteq T, Closed(T) PROVE heap[s] \in T
    <3>1. Owner[s] \in T BY <1>1, <1>2, <2>2
    <3> QED BY <1>2, <2>2, <3>1, ClosedIs
  <2> QED BY <2>1, <2>2 DEF Reach
<1>3. Closed(Reach(S)) BY <1>1, <1>2, ClosedIs
<1> QED BY <1>1, <1>3

\* The slots that anchor objects, one by one.
LEMMA AnchorsIn ==
  ASSUME NEW T \in SUBSET Object
  PROVE  /\ Anchors \subseteq T <=>
                /\ \A s \in Slot : heap[s] # Nil /\ (Owner[s] = Global \/ (Owner[s] \in Object /\ memory[Owner[s]] \in {"dying", "null"}))
                                    => heap[s] \in T
                /\ \A f \in ToSet(stack) : f.obj # Nil => f.obj \in T
                /\ \A o \in Object : tag[o] # "none" => o \in T
         /\ Anchors' \subseteq T <=>
                /\ \A s \in Slot : heap'[s] # Nil /\ (Owner[s] = Global \/ (Owner[s] \in Object /\ memory'[Owner[s]] \in {"dying", "null"}))
                                    => heap'[s] \in T
                /\ \A f \in ToSet(stack') : f.obj # Nil => f.obj \in T
                /\ \A o \in Object : tag'[o] # "none" => o \in T
<1>1. /\ Anchors \subseteq T <=>
                /\ \A s \in Slot : heap[s] # Nil /\ (Owner[s] = Global \/ (Owner[s] \in Object /\ memory[Owner[s]] \in {"dying", "null"}))
                                    => heap[s] \in T
                /\ \A f \in ToSet(stack) : f.obj # Nil => f.obj \in T
                /\ \A o \in Object : tag[o] # "none" => o \in T
  BY DEF Anchors, Refs, SlotsOf, Memory, Tagged
<1>2. Anchors' \subseteq T <=>
                /\ \A s \in Slot : heap'[s] # Nil /\ (Owner[s] = Global \/ (Owner[s] \in Object /\ memory'[Owner[s]] \in {"dying", "null"}))
                                    => heap'[s] \in T
                /\ \A f \in ToSet(stack') : f.obj # Nil => f.obj \in T
                /\ \A o \in Object : tag'[o] # "none" => o \in T
  BY DEF Anchors, Refs, SlotsOf, Memory, Tagged
<1> QED BY <1>1, <1>2
-----------------------------------------------------------------------------
(* What the invariant says of the calls in progress.                        *)

LEMMA StackIs ==
  /\ StackInv <=> /\ Order(stack) /\ Below(stack, tag)
                  /\ stack # <<>> /\ Is(Last(stack), "delete", "called") => tag[Last(stack).obj] # "none"
  /\ StackInv' <=> /\ Order(stack') /\ Below(stack', tag')
                   /\ stack' # <<>> /\ Is(Last(stack'), "delete", "called") => tag'[Last(stack').obj] # "none"
<1>1. StackInv <=> /\ Order(stack) /\ Below(stack, tag)
                   /\ stack # <<>> /\ Is(Last(stack), "delete", "called") => tag[Last(stack).obj] # "none"
  BY DEF StackInv, Order, Below, On, Top, Is
<1>2. StackInv' <=> /\ Order(stack') /\ Below(stack', tag')
                    /\ stack' # <<>> /\ Is(Last(stack'), "delete", "called") => tag'[Last(stack').obj] # "none"
  BY DEF StackInv, Order, Below, On, Top, Is, MayCall, gc_active
<1> QED BY <1>1, <1>2

LEMMA InStack ==
  ASSUME NEW st \in Seq(Frames), NEW f \in ToSet(st)
  PROVE  f \in Frames
<1>1. DOMAIN st = 1 .. Len(st) BY LenProperties
<1> QED BY <1>1, ElementOfSeq DEF ToSet

\* No condemned object while nothing is collected.
LEMMA Quiet ==
  ASSUME TypeInv, GarbageInv, ~gc_active(stack), NEW o
  PROVE  o \in Object => tag[o] \in {"none", "root"}
<1>1. ~Collecting({"dtors", "called"}) /\ ~Collecting({"dtors", "called", "destroy"})
  BY Active DEF Collecting, TypeInv
<1> QED BY <1>1 DEF GarbageInv, TypeInv, Tagged

\* The innermost call and the others.
LEMMA TopOn ==
  ASSUME TypeInv, StackInv, stack # <<>>
  PROVE  LET st == Front(stack)
         IN  /\ Top \in Frames /\ st \in Seq(Frames) /\ stack = Append(st, Top)
             /\ ToSet(stack) = ToSet(st) \cup {Top} /\ Top \in ToSet(stack)
             /\ Order(st) /\ MayCall(st, Top) /\ Below(st, tag)
             /\ Top.op = "collect" => \A g \in ToSet(st) : tag[g.obj] \in {"none", "root"}
             /\ \A g \in ToSet(st) :
                    /\ g \in Frames
                    /\ ~Is(g, "delete", "enter") /\ ~Is(g, "collect", "start")
                    /\ Top.op = "collect" => g.op # "collect" /\ ~Is(g, "free", "collect")
             /\ \A o : Cardinality(Holders(stack, o)) =
                    Cardinality(Holders(st, o)) + (IF Holds(Top) /\ Top.obj = o THEN 1 ELSE 0)
<1> DEFINE st == Front(stack)
<1>1. /\ stack \in Seq(Frames) /\ Order(stack) /\ Below(stack, tag) BY StackIs DEF TypeInv
<1>2. st \in Seq(Frames) /\ Top \in Frames /\ stack = Append(st, Top) BY <1>1, Pop DEF Top
<1> HIDE DEF st
<1>3. /\ ToSet(stack) = ToSet(st) \cup {Top}
      /\ Order(stack) <=> Order(st) /\ MayCall(st, Top)
      /\ \A tg : Below(stack, tg) <=>
                /\ Below(st, tg)
                /\ Top.op = "collect" => \A g \in ToSet(st) : tg[g.obj] \in {"none", "root"}
      /\ \A o : Cardinality(Holders(stack, o)) =
                Cardinality(Holders(st, o)) + (IF Holds(Top) /\ Top.obj = o THEN 1 ELSE 0)
  BY <1>2, Push
<1>4. \A g \in ToSet(st) :
          /\ g \in Frames
          /\ ~Is(g, "delete", "enter") /\ ~Is(g, "collect", "start")
          /\ Top.op = "collect" => g.op # "collect" /\ ~Is(g, "free", "collect")
  BY <1>1, <1>2, NotBelow, InStack
<1> QED BY <1>1, <1>2, <1>3, <1>4 DEF st
-----------------------------------------------------------------------------
(* A reference is given up.                                                 *)

\* What is left of a reference to o that is given up while the calls st wait:
\* the counts are those of the heap h, and o is noted, on the stack or in the
\* buffer.
GivenUp(o, h, st, cnt) ==
    /\ rc' \in [Object -> Int] /\ tag' \in [Object -> {"none", "root", "dtor", "garbage"}]
    /\ StackInv' /\ stack' \in Seq(Frames) /\ Exact(h, stack', rc')
    /\ ToSet(st) \subseteq ToSet(stack')
    /\ \A f \in ToSet(stack') :
          \/ f \in ToSet(st)
          \/ f = Delete(o) /\ rc'[o] = 0 /\ memory[o] = "live"
          \/ f = WhenFull(o) /\ memory[o] = "live" /\ tag'[o] = "none"
          \/ f = Collect(TRUE)
    /\ \A x \in Object : tag'[x] = tag[x] \/ (tag[x] = "none" /\ tag'[x] = "root" /\ memory[x] = "live")
    /\ \A x \in Object : x # o => rc'[x] = cnt[x]
    /\ tag'[o] # "none" \/ \E f \in ToSet(stack') : f.obj = o

Loses(o, h, st, cnt) ==
    \A x \in Object : cnt[x] = Cardinality(SlotsAt(h, x)) + Cardinality(Holders(st, x)) + (IF x = o THEN 1 ELSE 0)

LEMMA LessIs ==
  ASSUME NEW o \in Object, NEW h, NEW st \in Seq(Frames), NEW cnt \in [Object -> Int], Loses(o, h, st, cnt)
  PROVE  LET less == [cnt EXCEPT ![o] = @ - 1]
         IN  /\ less \in [Object -> Int] /\ Exact(h, st, less) /\ \A x \in Object : x # o => less[x] = cnt[x]
             /\ less[o] = cnt[o] - 1 /\ less[o] >= Cardinality(Holders(st, o))
<1> DEFINE less == [cnt EXCEPT ![o] = @ - 1]
<1>1. less \in [Object -> Int] /\ less[o] = cnt[o] - 1 /\ \A x \in Object : x # o => less[x] = cnt[x] OBVIOUS
<1>2. \A x \in Object : Cardinality(SlotsAt(h, x)) \in Nat /\ Cardinality(Holders(st, x)) \in Nat
  BY SlotsFinite, HoldersFinite
<1> HIDE DEF less
<1>3. \A x \in Object : less[x] = Cardinality(SlotsAt(h, x)) + Cardinality(Holders(st, x))
  <2> TAKE x \in Object
  <2>1. cnt[x] = Cardinality(SlotsAt(h, x)) + Cardinality(Holders(st, x)) + (IF x = o THEN 1 ELSE 0) BY DEF Loses
  <2> QED BY <1>1, <1>2, <2>1
<1>4. less[o] >= Cardinality(Holders(st, o)) BY <1>2, <1>3
<1> QED BY <1>1, <1>3, <1>4 DEF Exact, less

LEMMA DropStep ==
  ASSUME IInv, NEW o \in Object, memory[o] \in {"live", "null"}, NEW st \in Seq(Frames),
         \/ st = stack /\ (stack # <<>> => Top.op \in {"destruct", "free"})
         \/ stack = Append(st, Destruct(o)),
         NEW h, NEW cnt \in [Object -> Int], Loses(o, h, st, cnt), Drop(o, cnt, st)
  PROVE  GivenUp(o, h, st, cnt)
<1> DEFINE less == [cnt EXCEPT ![o] = @ - 1]
           fromDtor == stack = Append(st, Destruct(o))
<1>1. /\ TypeInv /\ StackInv /\ CallsInv /\ MemoryInv /\ GarbageInv BY DEF IInv
<1>2. /\ Order(stack) /\ Below(stack, tag) /\ stack \in Seq(Frames) BY <1>1, StackIs DEF TypeInv
<1>3. /\ less \in [Object -> Int] /\ Exact(h, st, less) /\ \A x \in Object : x # o => less[x] = cnt[x]
      /\ less[o] >= Cardinality(Holders(st, o)) /\ Cardinality(Holders(st, o)) \in Nat
  BY LessIs, HoldersFinite
<1>4. Order(st) /\ Below(st, tag)
  <2>1. CASE st = stack BY <1>2, <2>1
  <2>2. CASE fromDtor BY <1>2, <2>2, Push, NewFrames
  <2> QED BY <2>1, <2>2
\* Who calls the destructor holds the object.
<1>5. ASSUME fromDtor
      PROVE  /\ memory[o] = "live" /\ Cardinality(Holders(st, o)) > 0
             /\ st # <<>> /\ Last(st).obj = o
             /\ Is(Last(st), "delete", "called") \/ Is(Last(st), "collect", "called")
  <2>1. /\ Destruct(o) \in Frames /\ Is(Destruct(o), "destruct", "run") /\ Destruct(o).obj = o BY NewFrames
  <2>2. MayCall(st, Destruct(o)) /\ Destruct(o) \in ToSet(stack) BY <1>2, <1>5, <2>1, Push
  <2>3. /\ st # <<>> /\ Last(st).obj = o
        /\ Is(Last(st), "delete", "called") \/ Is(Last(st), "collect", "called")
    BY <2>1, <2>2 DEF MayCall, Is
  <2>4. memory[o] = "live" BY <1>1, <2>1, <2>2 DEF CallsInv, CallOK, Is
  <2>5. Last(st) \in Frames /\ st = Append(Front(st), Last(st)) /\ Front(st) \in Seq(Frames) BY <2>3, Pop
  <2>6. Last(st) \in ToSet(st) /\ Holds(Last(st)) BY <2>3, <2>5, LastIn, FrameTypes
  <2>7. Cardinality(Holders(st, o)) # 0 BY <2>3, <2>6, HolderCounts
  <2> QED BY <1>3, <2>3, <2>4, <2>7
<1>6. /\ memory[o] = "live" \/ tag[o] = "garbage"
      /\ tag \in [Object -> {"none", "root", "dtor", "garbage"}]
  BY <1>1 DEF MemoryInv, Memory, TypeInv
<1>7. ASSUME st # <<>>
      PROVE  /\ ~Is(Last(st), "delete", "enter") /\ ~Is(Last(st), "collect", "start")
             /\ Is(Last(st), "delete", "called") => fromDtor
  <2>1. CASE fromDtor
    <3>1. Last(st) \in Frames BY <1>7, Pop
    <3> QED BY <1>5, <2>1, <3>1 DEF Is
  <2>2. CASE st = stack /\ Top.op \in {"destruct", "free"} BY <2>2 DEF Top, Is
  <2> QED BY <1>7, <2>1, <2>2
\* The stack stays as it is.
<1>8. ASSUME NEW tg, Below(st, tg), tg[o] # "none",
             tg = tag \/ tg = [tag EXCEPT ![o] = "root"]
      PROVE  stack' = st /\ tag' = tg => StackInv'
  <2> SUFFICES ASSUME stack' = st, tag' = tg PROVE StackInv' OBVIOUS
  <2>1. Is(Last(st), "delete", "called") /\ st # <<>> => tg[Last(st).obj] # "none" BY <1>5, <1>7, <1>8
  <2> QED BY <1>4, <1>8, <2>1, StackIs
<1>9. CASE /\ less[o] = 0 /\ rc' = less /\ UNCHANGED tag
           /\ stack' = IF memory[o] = "live" THEN Append(st, Delete(o)) ELSE st
  <2>1. ~fromDtor BY <1>3, <1>5, <1>9
  <2>2. CASE memory[o] = "live"
    <3> DEFINE t == Append(st, Delete(o))
    <3>1. /\ Delete(o) \in Frames /\ Is(Delete(o), "delete", "enter") /\ Delete(o).obj = o /\ ~Holds(Delete(o))
      BY NewFrames
    <3>2. /\ t \in Seq(Frames) /\ t # <<>> /\ Last(t) = Delete(o) /\ ToSet(t) = ToSet(st) \cup {Delete(o)}
          /\ Order(t) <=> Order(st) /\ MayCall(st, Delete(o))
          /\ Below(t, tag) <=> /\ Below(st, tag)
                               /\ Delete(o).op = "collect" => \A g \in ToSet(st) : tag[g.obj] \in {"none", "root"}
          /\ \A x : Cardinality(Holders(t, x)) = Cardinality(Holders(st, x)) + (IF Holds(Delete(o)) /\ Delete(o).obj = x THEN 1 ELSE 0)
      BY <3>1, Push
    <3>3. MayCall(st, Delete(o)) BY <1>7, <2>1, <3>1 DEF MayCall, Is
    <3> HIDE DEF t
    <3>4. StackInv'
      <4>1. stack' = t /\ tag' = tag BY <1>9, <2>2 DEF t
      <4> QED BY <4>1, <1>4, <3>1, <3>2, <3>3, StackIs DEF Is
    <3>5. Exact(h, t, less)
      <4>1. \A x \in Object : Cardinality(Holders(t, x)) = Cardinality(Holders(st, x))
        BY <3>1, <3>2, HoldersFinite
      <4> QED BY <1>3, <4>1 DEF Exact
    <3>6. stack' = t /\ rc' = less /\ tag' = tag /\ less[o] = 0 BY <1>9, <2>2 DEF t
    <3> HIDE DEF less
    <3> QED BY <1>3, <1>6, <2>2, <3>1, <3>2, <3>4, <3>5, <3>6 DEF GivenUp
  <2>3. CASE memory[o] # "live"
    <3>1. stack' = st /\ rc' = less /\ tag' = tag /\ tag[o] = "garbage" BY <1>6, <1>9, <2>3
    <3>2. StackInv' BY <1>4, <1>8, <3>1
    <3> HIDE DEF less
    <3> QED BY <1>3, <1>6, <3>1, <3>2 DEF GivenUp
  <2> QED BY <2>2, <2>3
<1>10. CASE /\ tag[o] = "none"
            /\ rc' = less /\ tag' = [tag EXCEPT ![o] = "root"]
            /\ stack' = st
  <2>1. Below(st, tag')
    <3>1. \A x : tag[x] \in {"none", "root"} => tag'[x] \in {"none", "root"} BY <1>6, <1>10
    <3> QED BY <1>4, <3>1 DEF Below
  <2>2. tag'[o] = "root" BY <1>6, <1>10
  <2>3. StackInv' BY <1>8, <1>10, <2>1, <2>2
  <2>4. /\ tag' \in [Object -> {"none", "root", "dtor", "garbage"}] /\ memory[o] = "live"
        /\ \A x \in Object : x # o => tag'[x] = tag[x]
    BY <1>6, <1>10
  <2> HIDE DEF less
  <2> QED BY <1>3, <1>10, <2>2, <2>3, <2>4 DEF GivenUp
<1>11. CASE /\ tag[o] = "none" /\ ~gc_active(st)
            /\ rc' = cnt /\ UNCHANGED tag
            /\ stack' = st \o <<WhenFull(o), Collect(TRUE)>>
  <2> DEFINE w == WhenFull(o)
             c == Collect(TRUE)
             t == Append(st, w)
             u == Append(t, c)
  <2>1. /\ w \in Frames /\ w.op = "full" /\ w.at = "wait" /\ w.obj = o /\ Holds(w)
        /\ c \in Frames /\ c.op = "collect" /\ c.at = "start" /\ c.obj = Nil /\ ~Holds(c)
    BY NewFrames DEF Is
  <2>2. st \o <<w, c>> = u
    <3> HIDE DEF w, c
    <3> QED BY <2>1 DEF t, u
  <2> HIDE DEF w, c
  <2>3. /\ t \in Seq(Frames) /\ t # <<>> /\ Last(t) = w /\ ToSet(t) = ToSet(st) \cup {w}
        /\ Order(t) <=> Order(st) /\ MayCall(st, w)
        /\ Below(t, tag) <=> /\ Below(st, tag)
                             /\ w.op = "collect" => \A g \in ToSet(st) : tag[g.obj] \in {"none", "root"}
        /\ \A x : Cardinality(Holders(t, x)) = Cardinality(Holders(st, x)) + (IF Holds(w) /\ w.obj = x THEN 1 ELSE 0)
    BY <2>1, Push
  <2> HIDE DEF t
  <2>4. /\ u \in Seq(Frames) /\ u # <<>> /\ Last(u) = c /\ ToSet(u) = ToSet(t) \cup {c}
        /\ Order(u) <=> Order(t) /\ MayCall(t, c)
        /\ Below(u, tag) <=> /\ Below(t, tag)
                             /\ c.op = "collect" => \A g \in ToSet(t) : tag[g.obj] \in {"none", "root"}
        /\ \A x : Cardinality(Holders(u, x)) = Cardinality(Holders(t, x)) + (IF Holds(c) /\ c.obj = x THEN 1 ELSE 0)
    BY <2>1, <2>3, Push
  <2> HIDE DEF u
  <2>5. MayCall(st, w) BY <1>5, <1>7, <2>1 DEF MayCall, Is
  <2>6. ~gc_active(t) BY <1>11, <2>1, <2>3, Active
  <2>7. MayCall(t, c) BY <2>1, <2>3, <2>6 DEF MayCall, Is
  <2>8. ~gc_active(stack)
    <3>1. CASE st = stack BY <1>11, <3>1
    <3>2. CASE fromDtor
      <4>1. ToSet(stack) = ToSet(st) \cup {Destruct(o)} /\ Destruct(o).op = "destruct"
        BY <3>2, Push, NewFrames DEF Is
      <4> QED BY <1>2, <1>11, <4>1, Active
    <3> QED BY <3>1, <3>2
  <2>9. \A x \in Object : tag[x] \in {"none", "root"} BY <1>1, <2>8, Quiet
  <2>10. \A g \in ToSet(t) : g.op # "collect" /\ g.obj \in Object
    <3>1. \A g \in ToSet(t) : g.op # "collect" BY <2>3, <2>6, Active
    <3> QED BY <2>3, <3>1, InStack, FrameTypes
  <2>11. Order(u) /\ Below(u, tag) BY <1>4, <2>1, <2>3, <2>4, <2>5, <2>7, <2>9, <2>10
  <2>12. StackInv'
    <3>1. stack' = u /\ tag' = tag BY <1>11, <2>2 DEF w, c
    <3> QED BY <2>1, <2>4, <2>11, <3>1, StackIs DEF Is
  <2>13. Exact(h, u, cnt)
    <3>1. \A x \in Object : Cardinality(Holders(u, x)) = Cardinality(Holders(st, x)) + (IF o = x THEN 1 ELSE 0)
      <4>1. \A x \in Object : Cardinality(Holders(st, x)) \in Nat /\ Cardinality(Holders(t, x)) \in Nat
        BY <2>3, HoldersFinite
      <4> QED BY <2>1, <2>3, <2>4, <4>1
    <3>2. \A x \in Object : Cardinality(SlotsAt(h, x)) \in Nat /\ Cardinality(Holders(st, x)) \in Nat
      BY SlotsFinite, HoldersFinite
    <3>3. \A x \in Object : cnt[x] = Cardinality(SlotsAt(h, x)) + Cardinality(Holders(u, x))
      <4> TAKE x \in Object
      <4>1. cnt[x] = Cardinality(SlotsAt(h, x)) + Cardinality(Holders(st, x)) + (IF x = o THEN 1 ELSE 0) BY DEF Loses
      <4>2. Cardinality(Holders(u, x)) = Cardinality(Holders(st, x)) + (IF o = x THEN 1 ELSE 0) BY <3>1
      <4>3. Cardinality(SlotsAt(h, x)) \in Nat /\ Cardinality(Holders(st, x)) \in Nat BY <3>2
      <4> QED BY <4>1, <4>2, <4>3
    <3> QED BY <3>3 DEF Exact
  <2>14. stack' = u /\ rc' = cnt /\ tag' = tag /\ tag[o] = "none" /\ memory[o] = "live"
    BY <1>6, <1>11, <2>2 DEF w, c
  <2> QED BY <1>6, <2>1, <2>3, <2>4, <2>12, <2>13, <2>14 DEF GivenUp, w, c
<1>12. CASE /\ tag[o] # "none" /\ rc' = less /\ UNCHANGED tag
            /\ stack' = st
  <2>1. StackInv' BY <1>4, <1>8, <1>12
  <2> HIDE DEF less
  <2> QED BY <1>3, <1>6, <1>12, <2>1 DEF GivenUp
<1> QED BY <1>9, <1>10, <1>11, <1>12 DEF Drop
-----------------------------------------------------------------------------
(* The parts of the invariant, object by object.                            *)

CallOf(f, m, r, tg) ==
    /\ f.op \in {"delete", "destruct", "full"} \/ Is(f, "collect", "called") => m[f.obj] = "live"
    /\ Is(f, "collect", "called") => tg[f.obj] = "root"
    /\ Is(f, "delete", "enter") => r[f.obj] = 0
    /\ Is(f, "free", "delete") => m[f.obj] = "dying"
    /\ Is(f, "free", "collect") => m[f.obj] = "null"
    /\ Holds(f) /\ f.op # "free" => tg[f.obj] # "garbage"

LEMMA CallsIs ==
  /\ CallsInv <=> \A f \in ToSet(stack) : CallOf(f, memory, rc, tag)
  /\ CallsInv' <=> \A f \in ToSet(stack') : CallOf(f, memory', rc', tag')
<1>1. \A f : CallOK(f) <=> CallOf(f, memory, rc, tag) BY DEF CallOK, CallOf
<1>2. \A f : CallOK(f)' <=> CallOf(f, memory', rc', tag') BY DEF CallOK, CallOf, Is, Holds
<1> QED BY <1>1, <1>2 DEF CallsInv, ToSet

EmptyIn(h, o) == \A s \in Slot : Owner[s] = o => h[s] = Nil
FreedBy(fs, by, o) == \E f \in fs : Is(f, "free", by) /\ f.obj = o
MemoryOf(h, m, r, tg, fs) ==
    /\ \A o \in Object : m[o] = "free" => tg[o] = "none" /\ EmptyIn(h, o)
    /\ \A s \in Slot : \A o \in Object : h[s] = o => m[o] \notin {"free", "dying"}
    /\ \A o \in Object : m[o] = "dying" => r[o] = 1 /\ FreedBy(fs, "delete", o)
    /\ \A o \in Object : m[o] = "null" => tg[o] = "garbage" /\ (EmptyIn(h, o) \/ FreedBy(fs, "collect", o))

LEMMA MemoryIs ==
  /\ MemoryInv <=> MemoryOf(heap, memory, rc, tag, ToSet(stack))
  /\ MemoryInv' <=> MemoryOf(heap', memory', rc', tag', ToSet(stack'))
<1>1. MemoryInv <=> MemoryOf(heap, memory, rc, tag, ToSet(stack))
  BY DEF MemoryInv, MemoryOf, EmptyIn, FreedBy, Emptied, BeingFreed, Memory, SlotsOf
<1>2. MemoryInv' <=> MemoryOf(heap', memory', rc', tag', ToSet(stack'))
  <2>1. \A o : Emptied(o)' <=> EmptyIn(heap', o) BY DEF Emptied, EmptyIn, SlotsOf
  <2>2. \A o, by : BeingFreed(o, by)' <=> FreedBy(ToSet(stack'), by, o) BY DEF BeingFreed, FreedBy, ToSet, Is
  <2>3. \A m : Memory(m)' = {o \in Object : memory'[o] = m} BY DEF Memory
  <2> QED BY <2>1, <2>2, <2>3 DEF MemoryInv, MemoryOf
<1> QED BY <1>1, <1>2

CollectingIn(fs, at) == \E f \in fs : f.op = "collect" /\ f.at \in at
GarbageOf(h, tg, cl, fs) ==
    /\ \A s \in Slot : \A o \in Object : h[s] = o /\ tg[o] = "garbage" => Owner[s] \in Object /\ tg[Owner[s]] = "garbage"
    /\ \A o \in HasDestructor : tg[o] = "garbage" => o \in cl
    /\ \A o \in Object : tg[o] = "dtor" => CollectingIn(fs, {"dtors", "called"})
    /\ \A o \in Object : tg[o] = "garbage" => CollectingIn(fs, {"dtors", "called", "destroy"})

LEMMA GarbageIs ==
  /\ GarbageInv <=> GarbageOf(heap, tag, called, ToSet(stack))
  /\ GarbageInv' <=> GarbageOf(heap', tag', called', ToSet(stack'))
<1> HasDestructor \subseteq Object BY GCAssumption
<1>1. GarbageInv <=> GarbageOf(heap, tag, called, ToSet(stack))
  BY DEF GarbageInv, GarbageOf, Collecting, CollectingIn, Tagged
<1>2. GarbageInv' <=> GarbageOf(heap', tag', called', ToSet(stack'))
  <2>1. \A at : Collecting(at)' <=> CollectingIn(ToSet(stack'), at) BY DEF Collecting, CollectingIn, ToSet
  <2>2. \A t : Tagged(t)' = {o \in Object : tag'[o] = t} BY DEF Tagged
  <2> QED BY <2>1, <2>2 DEF GarbageInv, GarbageOf
<1> QED BY <1>1, <1>2

LEMMA ExactNext ==
  CountsExact' <=> Exact(heap', stack', rc')
BY DEF CountsExact, Exact, SlotsAt, Holders, Holds

LEMMA AnchoredNext ==
  /\ Anchored <=> \A T \in SUBSET Object : Anchors \subseteq T /\ Closed(T) => \A o \in Object : memory[o] = "live" => o \in T
  /\ Anchored' <=> \A T \in SUBSET Object : Anchors' \subseteq T /\ Closed(T)' => \A o \in Object : memory'[o] = "live" => o \in T
BY DEF Anchored, Memory

\* Objects the program can reach are there, and not garbage.
LEMMA KnownIsLive ==
  ASSUME IInv, NEW o \in Reachable
  PROVE  o \in Object /\ memory[o] = "live" /\ tag[o] # "garbage"
<1> DEFINE T == {x \in Object : memory[x] = "live" /\ tag[x] # "garbage"}
           S == Refs(SlotsOf({Global})) \cup Destructing
<1>1. /\ MemoryOf(heap, memory, rc, tag, ToSet(stack)) /\ GarbageOf(heap, tag, called, ToSet(stack))
      /\ \A f \in ToSet(stack) : CallOf(f, memory, rc, tag)
      /\ TypeInv /\ stack \in Seq(Frames)
  BY CallsIs, MemoryIs, GarbageIs DEF IInv, TypeInv
<1>2. ASSUME NEW s \in Slot, heap[s] # Nil, Owner[s] \in Object => Owner[s] \in T
      PROVE  heap[s] \in T
  <2>1. heap[s] \in Object /\ memory[heap[s]] \in {"live", "null"} BY <1>1, <1>2 DEF TypeInv, MemoryOf
  <2>2. tag[heap[s]] # "garbage" BY <1>1, <1>2, <2>1 DEF GarbageOf
  <2>3. memory[heap[s]] # "null" BY <1>1, <2>1, <2>2 DEF MemoryOf
  <2> QED BY <2>1, <2>2, <2>3
<1>3. Destructing \subseteq T
  <2> SUFFICES ASSUME NEW i \in DOMAIN stack, stack[i].op = "destruct" PROVE stack[i].obj \in T
    BY DEF Destructing
  <2>1. stack[i] \in ToSet(stack) BY DEF ToSet
  <2>2. stack[i] \in Frames BY <1>1, <2>1, InStack
  <2> HIDE DEF T
  <2> QED BY <1>1, <2>1, <2>2, FrameTypes DEF CallOf, T
<1>4. Refs(SlotsOf({Global})) \subseteq T
  <2> HIDE DEF T
  <2> QED BY <1>2, GCAssumption DEF Refs, SlotsOf
<1>5. Closed(T)
  <2>1. T \in SUBSET Object OBVIOUS
  <2> HIDE DEF T
  <2> QED BY <1>2, <2>1, ClosedIs
<1>6. S \in SUBSET Object /\ T \in SUBSET Object BY <1>3, <1>4
<1>7. Reach(S) \subseteq T BY <1>1, <1>3, <1>4, <1>5, <1>6, ReachFacts
<1> QED BY <1>7 DEF Reachable

LEMMA InvIs ==
  ASSUME IInv
  PROVE  /\ TypeInv /\ stack \in Seq(Frames)
         /\ StackInv /\ Order(stack) /\ Below(stack, tag)
         /\ \A f \in ToSet(stack) : f \in Frames /\ CallOf(f, memory, rc, tag)
         /\ MemoryOf(heap, memory, rc, tag, ToSet(stack))
         /\ GarbageOf(heap, tag, called, ToSet(stack))
         /\ Exact(heap, stack, rc)
         /\ \A T \in SUBSET Object : Anchors \subseteq T /\ Closed(T) => \A o \in Object : memory[o] = "live" => o \in T
BY CallsIs, MemoryIs, GarbageIs, ExactIs, AnchoredNext, StackIs, InStack DEF IInv, TypeInv

LEMMA InvNext ==
  ASSUME TypeInv', StackInv',
         \A f \in ToSet(stack') : CallOf(f, memory', rc', tag'),
         MemoryOf(heap', memory', rc', tag', ToSet(stack')),
         GarbageOf(heap', tag', called', ToSet(stack')),
         Exact(heap', stack', rc'),
         \A T \in SUBSET Object : Anchors' \subseteq T /\ Closed(T)' => \A o \in Object : memory'[o] = "live" => o \in T
  PROVE  IInv'
<1>1. CallsInv' /\ MemoryInv' /\ GarbageInv' /\ CountsExact' /\ Anchored'
  BY CallsIs, MemoryIs, GarbageIs, ExactNext, AnchoredNext
<1> QED BY <1>1 DEF IInv

\* A slot is given another value, which is counted, and what it held is given
\* up: for Assign, Unset, New and the properties of an object that is freed.
LEMMA ReplaceStep ==
  ASSUME IInv, NEW s \in Slot, NEW v \in Object \cup {Nil}, heap' = [heap EXCEPT ![s] = v],
         memory' \in [Object -> {"free", "live", "dying", "null"}],
         \A x \in Object : memory'[x] = memory[x] \/ (x = v /\ memory[x] = "free" /\ memory'[x] = "live"),
         called' \subseteq Object, \A x \in called : x \in called' \/ memory[x] = "free",
         v # Nil => memory'[v] = "live" /\ tag[v] # "garbage",
         \/ Owner[s] = Global \/ (Owner[s] \in Object /\ memory[Owner[s]] = "live")
         \/ v = Nil /\ Owner[s] \in Object /\ memory[Owner[s]] \in {"dying", "null"},
         stack # <<>> => Top.op \in {"destruct", "free"},
         NEW cnt, cnt = IF v = Nil THEN rc ELSE [rc EXCEPT ![v] = @ + 1],
         IF heap[s] = Nil THEN rc' = cnt /\ UNCHANGED <<tag, stack>> ELSE Drop(heap[s], cnt, stack)
  PROVE  IInv'
<1>1. /\ TypeInv /\ stack \in Seq(Frames)
      /\ StackInv /\ Order(stack) /\ Below(stack, tag)
      /\ \A f \in ToSet(stack) : f \in Frames /\ CallOf(f, memory, rc, tag)
      /\ MemoryOf(heap, memory, rc, tag, ToSet(stack))
      /\ GarbageOf(heap, tag, called, ToSet(stack))
      /\ Exact(heap, stack, rc)
      /\ \A T \in SUBSET Object : Anchors \subseteq T /\ Closed(T) => \A o \in Object : memory[o] = "live" => o \in T
  BY InvIs
<1>2. /\ Nil \notin Object /\ Global \notin Object
      /\ heap \in [Slot -> Object \cup {Nil}] /\ heap' \in [Slot -> Object \cup {Nil}]
      /\ memory \in [Object -> {"free", "live", "dying", "null"}]
      /\ rc \in [Object -> Int] /\ tag \in [Object -> {"none", "root", "dtor", "garbage"}]
      /\ Owner \in [Slot -> Object \cup {Global}] /\ HasDestructor \subseteq Object
      /\ heap'[s] = v /\ \A r \in Slot : r # s => heap'[r] = heap[r]
  BY <1>1, GCAssumption DEF TypeInv
<1>3. /\ cnt \in [Object -> Int]
      /\ \A x \in Object : cnt[x] = rc[x] + (IF v = x THEN 1 ELSE 0)
  <2>1. CASE v = Nil BY <1>2, <2>1
  <2>2. CASE v # Nil BY <1>2, <2>2
  <2> QED BY <2>1, <2>2
<1>4. \A x \in Object :
          cnt[x] = Cardinality(SlotsAt(heap', x)) + Cardinality(Holders(stack, x)) + (IF x = heap[s] THEN 1 ELSE 0)
  <2> TAKE x \in Object
  <2>1. Cardinality(SlotsAt(heap', x)) =
            Cardinality(SlotsAt(heap, x)) + (IF v = x THEN 1 ELSE 0) - (IF heap[s] = x THEN 1 ELSE 0)
    <3> DEFINE g == heap'
    <3>1. g[s] = v /\ \A r \in Slot : r # s => g[r] = heap[r] BY <1>2
    <3> HIDE DEF g
    <3>2. Cardinality(SlotsAt(g, x)) =
            Cardinality(SlotsAt(heap, x)) + (IF v = x THEN 1 ELSE 0) - (IF heap[s] = x THEN 1 ELSE 0)
      BY <3>1, SlotChanges
    <3> QED BY <3>2 DEF g
  <2>2. rc[x] = Cardinality(SlotsAt(heap, x)) + Cardinality(Holders(stack, x)) BY <1>1 DEF Exact
  <2>3. Cardinality(SlotsAt(heap, x)) \in Nat /\ Cardinality(Holders(stack, x)) \in Nat BY <1>1, SlotsFinite, HoldersFinite
  <2> QED BY <1>3, <2>1, <2>2, <2>3
\* What it held was live or null, and is noted.
<1>5. heap[s] # Nil => heap[s] \in Object /\ memory[heap[s]] \in {"live", "null"}
  BY <1>1, <1>2 DEF MemoryOf
<1>6. ~\E f \in ToSet(stack) : Is(f, "delete", "enter")
  <2>1. CASE stack = <<>>
    <3>1. ToSet(stack) = {} BY <2>1 DEF ToSet
    <3> QED BY <3>1
  <2>2. CASE stack # <<>> BY <1>1, <2>2, TopOn DEF Is
  <2> QED BY <2>1, <2>2
<1>7. /\ rc' \in [Object -> Int] /\ tag' \in [Object -> {"none", "root", "dtor", "garbage"}]
      /\ StackInv' /\ stack' \in Seq(Frames) /\ Exact(heap', stack', rc')
      /\ ToSet(stack) \subseteq ToSet(stack')
      /\ \A f \in ToSet(stack') :
            \/ f \in ToSet(stack)
            \/ heap[s] \in Object /\ f = Delete(heap[s]) /\ rc'[heap[s]] = 0 /\ memory[heap[s]] = "live"
            \/ heap[s] \in Object /\ f = WhenFull(heap[s]) /\ memory[heap[s]] = "live" /\ tag'[heap[s]] = "none"
            \/ f = Collect(TRUE)
      /\ \A x \in Object : tag'[x] = tag[x] \/ (tag[x] = "none" /\ tag'[x] = "root" /\ memory[x] = "live")
      /\ \A x \in Object : x # heap[s] => rc'[x] = cnt[x]
      /\ heap[s] # Nil => tag'[heap[s]] # "none" \/ \E f \in ToSet(stack') : f.obj = heap[s]
  <2>1. CASE heap[s] = Nil
    <3>1. rc' = cnt /\ tag' = tag /\ stack' = stack BY <2>1
    <3>2. StackInv' BY <1>1, <3>1, StackIs
    <3>3. Exact(heap', stack', rc')
      <4>1. \A x \in Object : cnt[x] = Cardinality(SlotsAt(heap', x)) + Cardinality(Holders(stack, x))
        <5> TAKE x \in Object
        <5>1. x # heap[s] BY <1>2, <2>1
        <5>2. Cardinality(SlotsAt(heap', x)) \in Nat /\ Cardinality(Holders(stack, x)) \in Nat BY <1>1, SlotsFinite, HoldersFinite
        <5>3. cnt[x] = Cardinality(SlotsAt(heap', x)) + Cardinality(Holders(stack, x)) + 0 BY <1>4, <5>1
        <5> QED BY <5>2, <5>3
      <4> QED BY <3>1, <4>1 DEF Exact
    <3> QED BY <1>1, <1>2, <1>3, <2>1, <3>1, <3>2, <3>3
  <2>2. CASE heap[s] # Nil
    <3> DEFINE o == heap[s]
    <3>1. o \in Object /\ memory[o] \in {"live", "null"} BY <1>5, <2>2
    <3>2. Drop(o, cnt, stack) BY <2>2
    <3>3. Loses(o, heap', stack, cnt) BY <1>4 DEF Loses
    <3> HIDE DEF o
    <3>4. GivenUp(o, heap', stack, cnt) BY <1>1, <1>3, <3>1, <3>2, <3>3, DropStep
    <3> QED BY <3>1, <3>4 DEF GivenUp, o
  <2> QED BY <2>1, <2>2
<1>8. ASSUME NEW x \in Object, memory[x] # "free" PROVE memory'[x] = memory[x] BY <1>8
<1>9. TypeInv' BY <1>2, <1>7 DEF TypeInv
<1>10. ASSUME NEW f \in ToSet(stack') PROVE CallOf(f, memory', rc', tag')
  <2>1. CASE f \in ToSet(stack)
    <3>1. f \in Frames /\ CallOf(f, memory, rc, tag) /\ ~Is(f, "delete", "enter") BY <1>1, <1>6, <2>1
    <3>2. /\ f.op \in {"delete", "destruct", "free", "full"} \/ Is(f, "collect", "called") => f.obj \in Object
          /\ Holds(f) /\ f.op # "free" => f.obj \in Object
      BY <3>1, FrameTypes DEF Is
    <3>3. /\ f.op \in {"delete", "destruct", "full"} \/ Is(f, "collect", "called") => memory'[f.obj] = "live"
          /\ Is(f, "free", "delete") => memory'[f.obj] = "dying"
          /\ Is(f, "free", "collect") => memory'[f.obj] = "null"
      BY <1>8, <3>1, <3>2 DEF CallOf, Is
    <3>4. /\ Is(f, "collect", "called") => tag'[f.obj] = "root"
          /\ Holds(f) /\ f.op # "free" => tag'[f.obj] # "garbage"
      BY <1>7, <3>1, <3>2 DEF CallOf
    <3> QED BY <3>1, <3>3, <3>4 DEF CallOf
  <2>2. ASSUME heap[s] \in Object, f = Delete(heap[s]), rc'[heap[s]] = 0, memory[heap[s]] = "live"
        PROVE  CallOf(f, memory', rc', tag')
    <3>1. f.op = "delete" /\ f.at = "enter" /\ f.obj = heap[s] /\ ~Holds(f) BY <2>2, NewFrames DEF Is
    <3> QED BY <1>8, <2>2, <3>1 DEF CallOf, Is
  <2>3. ASSUME heap[s] \in Object, f = WhenFull(heap[s]), memory[heap[s]] = "live", tag'[heap[s]] = "none"
        PROVE  CallOf(f, memory', rc', tag')
    <3>1. f.op = "full" /\ f.at = "wait" /\ f.obj = heap[s] BY <2>3, NewFrames DEF Is
    <3> QED BY <1>8, <2>3, <3>1 DEF CallOf, Is
  <2>4. CASE f = Collect(TRUE)
    <3>1. f.op = "collect" /\ f.at = "start" /\ ~Holds(f) BY <2>4 DEF Collect, Holds
    <3> QED BY <3>1 DEF CallOf, Is
  <2> QED BY <1>7, <2>1, <2>2, <2>3, <2>4
<1>11. MemoryOf(heap', memory', rc', tag', ToSet(stack'))
  <2>1. ASSUME NEW o \in Object, memory'[o] = "free" PROVE tag'[o] = "none" /\ EmptyIn(heap', o)
    <3>1. memory[o] = "free" BY <1>8, <2>1
    <3>2. tag[o] = "none" /\ EmptyIn(heap, o) BY <1>1, <3>1 DEF MemoryOf
    <3>3. tag'[o] = "none" BY <1>7, <3>1, <3>2
    <3>4. Owner[s] # o BY <1>2, <3>1
    <3> QED BY <1>2, <3>2, <3>3, <3>4 DEF EmptyIn
  <2>2. ASSUME NEW r \in Slot, NEW o \in Object, heap'[r] = o PROVE memory'[o] \notin {"free", "dying"}
    <3>1. CASE r = s BY <1>2, <2>2, <3>1
    <3>2. CASE r # s
      <4>1. heap[r] = o BY <1>2, <2>2, <3>2
      <4>2. memory[o] \notin {"free", "dying"} BY <1>1, <4>1 DEF MemoryOf
      <4> QED BY <1>8, <4>2
    <3> QED BY <3>1, <3>2
  <2>3. ASSUME NEW o \in Object, memory'[o] = "dying" PROVE rc'[o] = 1 /\ FreedBy(ToSet(stack'), "delete", o)
    <3>1. memory[o] = "dying" BY <1>2, <2>3
    <3>2. rc[o] = 1 /\ FreedBy(ToSet(stack), "delete", o) BY <1>1, <3>1 DEF MemoryOf
    <3>3. heap[s] # o /\ v # o BY <1>2, <1>5, <2>3, <3>1
    <3>4. rc'[o] = rc[o] BY <1>2, <1>3, <1>7, <3>3
    <3> QED BY <1>7, <3>2, <3>4 DEF FreedBy
  <2>4. ASSUME NEW o \in Object, memory'[o] = "null"
        PROVE  tag'[o] = "garbage" /\ (EmptyIn(heap', o) \/ FreedBy(ToSet(stack'), "collect", o))
    <3>1. memory[o] = "null" BY <1>2, <2>4
    <3>2. tag[o] = "garbage" /\ (EmptyIn(heap, o) \/ FreedBy(ToSet(stack), "collect", o)) BY <1>1, <3>1 DEF MemoryOf
    <3>3. tag'[o] = "garbage" BY <1>7, <3>2
    <3>4. Owner[s] = o => v = Nil BY <1>2, <3>1
    <3>5. EmptyIn(heap, o) => EmptyIn(heap', o) BY <1>2, <3>4 DEF EmptyIn
    <3> QED BY <1>7, <3>2, <3>3, <3>5 DEF FreedBy
  <2> QED BY <2>1, <2>2, <2>3, <2>4 DEF MemoryOf
<1>12. GarbageOf(heap', tag', called', ToSet(stack'))
  <2>1. \A x \in Object : tag'[x] \in {"garbage", "dtor"} => tag[x] = tag'[x] BY <1>7
  <2>2. \A x \in Object : tag[x] = "garbage" => tag'[x] = "garbage" BY <1>7
  <2>3. ASSUME NEW r \in Slot, NEW o \in Object, heap'[r] = o, tag'[o] = "garbage"
        PROVE  Owner[r] \in Object /\ tag'[Owner[r]] = "garbage"
    <3>1. r # s /\ heap[r] = o BY <1>2, <2>1, <2>3
    <3> QED BY <1>1, <2>1, <2>2, <2>3, <3>1 DEF GarbageOf
  <2>4. ASSUME NEW o \in HasDestructor, tag'[o] = "garbage" PROVE o \in called'
    <3>1. o \in Object /\ tag[o] = "garbage" BY <1>2, <2>1, <2>4
    <3>2. o \in called /\ memory[o] # "free" BY <1>1, <3>1 DEF GarbageOf, MemoryOf
    <3> QED BY <3>2
  <2>5. \A at : CollectingIn(ToSet(stack), at) => CollectingIn(ToSet(stack'), at) BY <1>7 DEF CollectingIn
  <2> QED BY <1>1, <2>1, <2>3, <2>4, <2>5 DEF GarbageOf
<1>13. ASSUME NEW T \in SUBSET Object, Anchors' \subseteq T, Closed(T)', NEW o \in Object, memory'[o] = "live"
       PROVE  o \in T
  <2>1. /\ \A r \in Slot : heap'[r] # Nil /\ (Owner[r] = Global \/ (Owner[r] \in Object /\ memory'[Owner[r]] \in {"dying", "null"}))
                                => heap'[r] \in T
        /\ \A f \in ToSet(stack') : f.obj # Nil => f.obj \in T
        /\ \A x \in Object : tag'[x] # "none" => x \in T
        /\ \A r \in Slot : Owner[r] \in T /\ memory'[Owner[r]] = "live" /\ heap'[r] # Nil => heap'[r] \in T
    BY <1>13, AnchorsIn, ClosedIs
  <2>2. heap[s] # Nil => heap[s] \in T BY <1>2, <1>5, <1>7, <2>1
  <2>3. \A r \in Slot : heap[r] # Nil /\ (Owner[r] = Global \/ (Owner[r] \in Object /\ memory[Owner[r]] \in {"dying", "null"}))
            => heap[r] \in T
    BY <1>2, <1>8, <2>1, <2>2
  <2>4. \A x \in Object : tag[x] # "none" => x \in T BY <1>7, <2>1
  <2>5. \A f \in ToSet(stack) : f.obj # Nil => f.obj \in T BY <1>7, <2>1
  <2>6. \A r \in Slot : Owner[r] \in T /\ memory[Owner[r]] = "live" /\ heap[r] # Nil => heap[r] \in T
    BY <1>2, <1>8, <2>1, <2>2
  <2>7. Anchors \subseteq T /\ Closed(T) BY <2>3, <2>4, <2>5, <2>6, AnchorsIn, ClosedIs
  <2>8. \A x \in Object : memory[x] = "live" => x \in T BY <1>1, <2>7
  <2>9. CASE memory[o] = "live" BY <2>8, <2>9
  <2>10. CASE memory[o] # "live"
    <3>1. o = v /\ heap'[s] = o /\ v # Nil /\ memory[o] = "free" BY <1>2, <1>13, <2>10
    <3>2. Owner[s] = Global \/ (Owner[s] \in Object /\ memory[Owner[s]] = "live") BY <3>1
    <3>3. CASE Owner[s] = Global BY <1>2, <2>1, <3>1, <3>3
    <3>4. CASE Owner[s] \in Object /\ memory[Owner[s]] = "live"
      <4>1. Owner[s] \in T /\ memory'[Owner[s]] = "live" BY <1>8, <2>8, <3>4
      <4> QED BY <1>2, <2>1, <3>1, <4>1
    <3> QED BY <3>2, <3>3, <3>4
  <2> QED BY <2>9, <2>10
<1> QED BY <1>7, <1>9, <1>10, <1>11, <1>12, <1>13, InvNext
-----------------------------------------------------------------------------
(* The program, and the properties of an object that is freed.              *)

LEMMA KnownSlot ==
  ASSUME IInv, NEW s \in SlotsOf(Reachable \cup {Global})
  PROVE  s \in Slot /\ (Owner[s] = Global \/ (Owner[s] \in Object /\ memory[Owner[s]] = "live"))
BY KnownIsLive DEF SlotsOf

LEMMA RunningTop ==
  ASSUME Running
  PROVE  stack # <<>> => Top.op \in {"destruct", "free"}
BY DEF Running, On

LEMMA AssignStep ==
  ASSUME IInv, Running, NEW s \in SlotsOf(Reachable \cup {Global}), NEW o \in Reachable, Assign(s, o)
  PROVE  IInv'
<1>1. TypeInv BY DEF IInv
<1>2. o \in Object /\ memory[o] = "live" /\ tag[o] # "garbage" /\ o # Nil BY KnownIsLive, GCAssumption
<1>3. s \in Slot /\ (Owner[s] = Global \/ (Owner[s] \in Object /\ memory[Owner[s]] = "live")) BY KnownSlot
<1> DEFINE cnt == [rc EXCEPT ![o] = @ + 1]
<1>4. cnt = IF o = Nil THEN rc ELSE [rc EXCEPT ![o] = @ + 1] BY <1>2
<1>5. /\ heap' = [heap EXCEPT ![s] = o]
      /\ IF heap[s] = Nil THEN rc' = cnt /\ UNCHANGED <<tag, stack>> ELSE Drop(heap[s], cnt, stack)
      /\ memory' = memory /\ called' = called
  BY DEF Assign, Replace
<1> HIDE DEF cnt
<1>6. memory' \in [Object -> {"free", "live", "dying", "null"}] /\ called' \subseteq Object
  BY <1>1, <1>5 DEF TypeInv
<1>7. o \in Object \cup {Nil} /\ memory'[o] = "live" /\ \A x \in Object : memory'[x] = memory[x] BY <1>2, <1>5
<1> QED BY <1>2, <1>3, <1>4, <1>5, <1>6, <1>7, RunningTop, ReplaceStep

LEMMA UnsetStep ==
  ASSUME IInv, Running, NEW s \in SlotsOf(Reachable \cup {Global}), Unset(s)
  PROVE  IInv'
<1>1. TypeInv BY DEF IInv
<1>2. s \in Slot /\ (Owner[s] = Global \/ (Owner[s] \in Object /\ memory[Owner[s]] = "live")) BY KnownSlot
<1>3. /\ heap' = [heap EXCEPT ![s] = Nil]
      /\ IF heap[s] = Nil THEN rc' = rc /\ UNCHANGED <<tag, stack>> ELSE Drop(heap[s], rc, stack)
      /\ memory' = memory /\ called' = called
  BY DEF Unset, Replace
<1>4. memory' \in [Object -> {"free", "live", "dying", "null"}] /\ called' \subseteq Object
  BY <1>1, <1>3 DEF TypeInv
<1>5. \A x \in Object : memory'[x] = memory[x] BY <1>3
<1>6. rc = IF Nil = Nil THEN rc ELSE [rc EXCEPT ![Nil] = @ + 1] OBVIOUS
<1> QED BY <1>2, <1>3, <1>4, <1>5, <1>6, RunningTop, ReplaceStep

\* Nothing counts for an object that does not exist.
LEMMA FreeUncounted ==
  ASSUME IInv, NEW o \in Object, memory[o] = "free"
  PROVE  rc[o] = 0
<1>1. /\ stack \in Seq(Frames) /\ Exact(heap, stack, rc)
      /\ \A f \in ToSet(stack) : f \in Frames /\ CallOf(f, memory, rc, tag)
      /\ MemoryOf(heap, memory, rc, tag, ToSet(stack))
  BY InvIs
<1>2. \A r \in Slot : heap[r] # o BY <1>1 DEF MemoryOf
<1>3. Cardinality(SlotsAt(heap, o)) = 0 BY <1>2, SlotsFinite
<1>4. \A f \in ToSet(stack) : Holds(f) => f.obj # o
  <2> SUFFICES ASSUME NEW f \in ToSet(stack), Holds(f), f.obj = o PROVE FALSE OBVIOUS
  <2>1. f \in Frames /\ CallOf(f, memory, rc, tag) BY <1>1
  <2> QED BY <2>1, FrameTypes DEF CallOf, Is
<1>5. Cardinality(Holders(stack, o)) = 0 BY <1>1, <1>4, HolderCounts
<1> QED BY <1>1, <1>3, <1>5 DEF Exact

LEMMA NewStep ==
  ASSUME IInv, Running, NEW s \in SlotsOf(Reachable \cup {Global}), NEW o \in Object, New(o, s)
  PROVE  IInv'
<1>1. TypeInv /\ MemoryOf(heap, memory, rc, tag, ToSet(stack)) BY InvIs
<1>2. memory[o] = "free" /\ memory' = [memory EXCEPT ![o] = "live"] /\ called' = called \ {o} BY DEF New
<1>3. s \in Slot /\ (Owner[s] = Global \/ (Owner[s] \in Object /\ memory[Owner[s]] = "live")) BY KnownSlot
<1>4. rc[o] = 0 /\ o # Nil BY <1>2, FreeUncounted, GCAssumption
<1> DEFINE cnt == [rc EXCEPT ![o] = 1]
<1>5. cnt = IF o = Nil THEN rc ELSE [rc EXCEPT ![o] = @ + 1] BY <1>1, <1>4 DEF TypeInv
<1>6. /\ heap' = [heap EXCEPT ![s] = o]
      /\ IF heap[s] = Nil THEN rc' = cnt /\ UNCHANGED <<tag, stack>> ELSE Drop(heap[s], cnt, stack)
  BY DEF New, Replace
<1> HIDE DEF cnt
<1>7. memory' \in [Object -> {"free", "live", "dying", "null"}] /\ called' \subseteq Object
  BY <1>1, <1>2 DEF TypeInv
<1>8. /\ memory'[o] = "live" /\ \A x \in Object : x # o => memory'[x] = memory[x]
      /\ \A x \in called : x \in called' \/ memory[x] = "free"
  BY <1>1, <1>2 DEF TypeInv
<1>9. tag[o] # "garbage" BY <1>1, <1>2 DEF MemoryOf
<1>10. o \in Object \cup {Nil} /\ \A x \in Object : memory'[x] = memory[x] \/ (x = o /\ memory[x] = "free" /\ memory'[x] = "live")
  BY <1>2, <1>8
<1> QED BY <1>3, <1>5, <1>6, <1>7, <1>8, <1>9, <1>10, RunningTop, ReplaceStep

LEMMA FreeSlotIs ==
  ASSUME IInv, FreeSlot
  PROVE  /\ stack # <<>> /\ Top.op = "free" /\ memory' = memory /\ called' = called
         /\ \E s \in Slot :
                /\ Owner[s] = Top.obj /\ Owner[s] \in Object /\ memory[Owner[s]] \in {"dying", "null"} /\ heap[s] # Nil
                /\ heap' = [heap EXCEPT ![s] = Nil] /\ Drop(heap[s], rc, stack)
<1>1. /\ TypeInv /\ StackInv /\ \A f \in ToSet(stack) : f \in Frames /\ CallOf(f, memory, rc, tag) BY InvIs
<1>2. stack # <<>> /\ Top.op = "free" /\ Left # {} BY DEF FreeSlot, Freeing
<1> DEFINE s == Min(Left)
<1>3. s \in Left
  <2>1. Left \in SUBSET Nat BY GCAssumption DEF Left, SlotsOf
  <2>2. \E x \in Left : \A y \in Left : x <= y BY <1>2, <2>1, NatMin
  <2> QED BY <2>2 DEF Min
<1>4. /\ heap' = [heap EXCEPT ![s] = Nil] /\ Drop(heap[s], rc, stack) /\ memory' = memory /\ called' = called
  BY DEF FreeSlot
<1> HIDE DEF s
<1>5. s \in Slot /\ Owner[s] = Top.obj /\ heap[s] # Nil BY <1>3 DEF Left, SlotsOf
<1>6. Top \in Frames /\ CallOf(Top, memory, rc, tag) BY <1>1, <1>2, TopOn
<1>7. Owner[s] \in Object /\ memory[Owner[s]] \in {"dying", "null"} BY <1>2, <1>5, <1>6, FrameTypes DEF CallOf, Is
<1> QED BY <1>2, <1>4, <1>5, <1>7

LEMMA FreeSlotStep ==
  ASSUME IInv, FreeSlot
  PROVE  IInv'
<1>1. stack # <<>> /\ Top.op = "free" /\ memory' = memory /\ called' = called BY FreeSlotIs
<1>2. PICK s \in Slot :
          /\ Owner[s] \in Object /\ memory[Owner[s]] \in {"dying", "null"} /\ heap[s] # Nil
          /\ heap' = [heap EXCEPT ![s] = Nil] /\ Drop(heap[s], rc, stack)
  BY FreeSlotIs
<1>3. memory' \in [Object -> {"free", "live", "dying", "null"}] /\ called' \subseteq Object
  BY <1>1, InvIs DEF TypeInv
<1>4. \A x \in Object : memory'[x] = memory[x] BY <1>1
<1>5. rc = IF Nil = Nil THEN rc ELSE [rc EXCEPT ![Nil] = @ + 1] OBVIOUS
<1>6. IF heap[s] = Nil THEN rc' = rc /\ UNCHANGED <<tag, stack>> ELSE Drop(heap[s], rc, stack) BY <1>2
<1>7. stack # <<>> => Top.op \in {"destruct", "free"} BY <1>1
<1> QED BY <1>1, <1>2, <1>3, <1>4, <1>5, <1>6, <1>7, ReplaceStep

LEMMA FrameIs ==
  ASSUME NEW f \in Frames
  PROVE  /\ f.op = "destruct" => f = Destruct(f.obj)
         /\ f.op = "delete" /\ f.at = "enter" => f = Delete(f.obj)
BY DEF Frames, Destruct, Delete

LEMMA DestructorReturnsStep ==
  ASSUME IInv, DestructorReturns
  PROVE  IInv'
<1> DEFINE o == Top.obj
           st == Front(stack)
<1>1. /\ TypeInv /\ stack \in Seq(Frames) /\ StackInv
      /\ \A f \in ToSet(stack) : f \in Frames /\ CallOf(f, memory, rc, tag)
      /\ MemoryOf(heap, memory, rc, tag, ToSet(stack))
      /\ GarbageOf(heap, tag, called, ToSet(stack))
      /\ Exact(heap, stack, rc)
      /\ \A T \in SUBSET Object : Anchors \subseteq T /\ Closed(T) => \A x \in Object : memory[x] = "live" => x \in T
  BY InvIs
<1>2. /\ stack # <<>> /\ Top.op = "destruct" /\ Top.at = "run"
      /\ Drop(o, rc, st) /\ heap' = heap /\ memory' = memory /\ called' = called
  BY DEF DestructorReturns, On
<1>3. /\ Top \in Frames /\ st \in Seq(Frames) /\ stack = Append(st, Top)
      /\ ToSet(stack) = ToSet(st) \cup {Top} /\ Top \in ToSet(stack)
      /\ \A f \in ToSet(st) : ~Is(f, "delete", "enter") /\ f \in Frames
      /\ \A x : Cardinality(Holders(stack, x)) = Cardinality(Holders(st, x)) + (IF Holds(Top) /\ Top.obj = x THEN 1 ELSE 0)
  BY <1>1, <1>2, TopOn
<1>4. /\ o \in Object /\ Top = Destruct(o) /\ Holds(Top) /\ memory[o] = "live" /\ tag[o] # "garbage"
  BY <1>1, <1>2, <1>3, FrameTypes, FrameIs DEF CallOf
<1> HIDE DEF o, st
<1>5. Loses(o, heap, st, rc)
  <2> SUFFICES ASSUME NEW x \in Object
               PROVE  rc[x] = Cardinality(SlotsAt(heap, x)) + Cardinality(Holders(st, x)) + (IF x = o THEN 1 ELSE 0)
    BY DEF Loses
  <2>1. rc[x] = Cardinality(SlotsAt(heap, x)) + Cardinality(Holders(stack, x)) BY <1>1 DEF Exact
  <2>2. Cardinality(Holders(stack, x)) = Cardinality(Holders(st, x)) + (IF x = o THEN 1 ELSE 0)
    BY <1>3, <1>4 DEF o
  <2>3. Cardinality(SlotsAt(heap, x)) \in Nat /\ Cardinality(Holders(st, x)) \in Nat BY <1>3, SlotsFinite, HoldersFinite
  <2> QED BY <2>1, <2>2, <2>3
<1>6. GivenUp(o, heap, st, rc)
  <2>1. rc \in [Object -> Int] /\ memory[o] \in {"live", "null"} /\ stack = Append(st, Destruct(o))
    BY <1>1, <1>3, <1>4 DEF TypeInv
  <2> QED BY <1>2, <1>3, <1>4, <1>5, <2>1, DropStep
<1>7. /\ rc' \in [Object -> Int] /\ tag' \in [Object -> {"none", "root", "dtor", "garbage"}]
      /\ StackInv' /\ stack' \in Seq(Frames) /\ Exact(heap', stack', rc')
      /\ ToSet(st) \subseteq ToSet(stack')
      /\ \A f \in ToSet(stack') :
            \/ f \in ToSet(st)
            \/ f = Delete(o) /\ rc'[o] = 0 /\ memory[o] = "live"
            \/ f = WhenFull(o) /\ memory[o] = "live" /\ tag'[o] = "none"
            \/ f = Collect(TRUE)
      /\ \A x \in Object : tag'[x] = tag[x] \/ (tag[x] = "none" /\ tag'[x] = "root" /\ memory[x] = "live")
      /\ \A x \in Object : x # o => rc'[x] = rc[x]
      /\ tag'[o] # "none" \/ \E f \in ToSet(stack') : f.obj = o
  BY <1>2, <1>6 DEF GivenUp
<1>8. TypeInv' BY <1>1, <1>2, <1>7 DEF TypeInv
<1>9. ASSUME NEW f \in ToSet(stack') PROVE CallOf(f, memory', rc', tag')
  <2>1. CASE f \in ToSet(st)
    <3>1. f \in Frames /\ CallOf(f, memory, rc, tag) /\ ~Is(f, "delete", "enter") BY <1>1, <1>3, <2>1
    <3>2. /\ Is(f, "collect", "called") => f.obj \in Object
          /\ Holds(f) /\ f.op # "free" => f.obj \in Object
      BY <3>1, FrameTypes DEF Is
    <3>3. /\ Is(f, "collect", "called") => tag'[f.obj] = "root"
          /\ Holds(f) /\ f.op # "free" => tag'[f.obj] # "garbage"
      BY <1>7, <3>1, <3>2 DEF CallOf
    <3> QED BY <1>2, <3>1, <3>3 DEF CallOf
  <2>2. CASE f = Delete(o) /\ rc'[o] = 0 /\ memory[o] = "live"
    <3>1. f.op = "delete" /\ f.at = "enter" /\ f.obj = o /\ ~Holds(f) BY <1>4, <2>2, NewFrames DEF Is
    <3> QED BY <1>2, <2>2, <3>1 DEF CallOf, Is
  <2>3. CASE f = WhenFull(o) /\ memory[o] = "live" /\ tag'[o] = "none"
    <3>1. f.op = "full" /\ f.at = "wait" /\ f.obj = o BY <1>4, <2>3, NewFrames DEF Is
    <3> QED BY <1>2, <2>3, <3>1 DEF CallOf, Is
  <2>4. CASE f = Collect(TRUE)
    <3>1. f.op = "collect" /\ f.at = "start" /\ ~Holds(f) BY <2>4 DEF Collect, Holds
    <3> QED BY <3>1 DEF CallOf, Is
  <2> QED BY <1>7, <2>1, <2>2, <2>3, <2>4
<1>10. MemoryOf(heap', memory', rc', tag', ToSet(stack'))
  <2>1. \A x \in Object : \A by : FreedBy(ToSet(stack), by, x) => FreedBy(ToSet(stack'), by, x)
    BY <1>2, <1>3, <1>7 DEF FreedBy, Is
  <2>2. \A x \in Object : memory[x] = "dying" => rc'[x] = rc[x] BY <1>4, <1>7
  <2>3. \A x \in Object : memory[x] # "live" => tag'[x] = tag[x] BY <1>7
  <2> QED BY <1>1, <1>2, <2>1, <2>2, <2>3 DEF MemoryOf
<1>11. GarbageOf(heap', tag', called', ToSet(stack'))
  <2>1. \A at : CollectingIn(ToSet(stack), at) => CollectingIn(ToSet(stack'), at)
    BY <1>2, <1>3, <1>7 DEF CollectingIn
  <2>2. \A x \in Object : /\ tag'[x] \in {"garbage", "dtor"} => tag[x] = tag'[x]
                          /\ tag[x] = "garbage" => tag'[x] = "garbage"
    BY <1>7
  <2>3. HasDestructor \subseteq Object BY GCAssumption
  <2> QED BY <1>1, <1>2, <2>1, <2>2, <2>3 DEF GarbageOf
<1>12. ASSUME NEW T \in SUBSET Object, Anchors' \subseteq T, Closed(T)', NEW x \in Object, memory'[x] = "live"
       PROVE  x \in T
  <2>1. /\ \A r \in Slot : heap'[r] # Nil /\ (Owner[r] = Global \/ (Owner[r] \in Object /\ memory'[Owner[r]] \in {"dying", "null"}))
                                => heap'[r] \in T
        /\ \A f \in ToSet(stack') : f.obj # Nil => f.obj \in T
        /\ \A y \in Object : tag'[y] # "none" => y \in T
        /\ \A r \in Slot : Owner[r] \in T /\ memory'[Owner[r]] = "live" /\ heap'[r] # Nil => heap'[r] \in T
    BY <1>12, AnchorsIn, ClosedIs
  <2>2. o \in T BY <1>4, <1>7, <2>1, GCAssumption
  <2>3. \A f \in ToSet(stack) : f.obj # Nil => f.obj \in T BY <1>3, <1>7, <2>1, <2>2 DEF o
  <2>4. \A y \in Object : tag[y] # "none" => y \in T BY <1>7, <2>1
  <2>5. Anchors \subseteq T /\ Closed(T) BY <1>2, <2>1, <2>3, <2>4, AnchorsIn, ClosedIs
  <2> QED BY <1>1, <1>2, <1>12, <2>5
<1> QED BY <1>7, <1>8, <1>9, <1>10, <1>11, <1>12, InvNext
-----------------------------------------------------------------------------
(* Deletions.                                                               *)

\* A call is replaced by another ...
LEMMA Restack ==
  ASSUME NEW st \in Seq(Frames), NEW f \in Frames, Order(st), MayCall(st, f), Below(st, tag'),
         f.op = "collect" => \A g \in ToSet(st) : tag'[g.obj] \in {"none", "root"},
         ~Is(f, "delete", "called"),
         stack' = Append(st, f)
  PROVE  /\ StackInv' /\ stack' \in Seq(Frames) /\ ToSet(stack') = ToSet(st) \cup {f}
         /\ \A x : Cardinality(Holders(stack', x)) = Cardinality(Holders(st, x)) + (IF Holds(f) /\ f.obj = x THEN 1 ELSE 0)
<1> DEFINE t == Append(st, f)
           tg == tag'
<1>1. Below(st, tg) /\ (f.op = "collect" => \A g \in ToSet(st) : tg[g.obj] \in {"none", "root"}) OBVIOUS
<1>2. /\ t \in Seq(Frames) /\ t # <<>> /\ Last(t) = f /\ ToSet(t) = ToSet(st) \cup {f}
      /\ Order(t) <=> Order(st) /\ MayCall(st, f)
      /\ Below(t, tg) <=> /\ Below(st, tg)
                          /\ f.op = "collect" => \A g \in ToSet(st) : tg[g.obj] \in {"none", "root"}
      /\ \A x : Cardinality(Holders(t, x)) = Cardinality(Holders(st, x)) + (IF Holds(f) /\ f.obj = x THEN 1 ELSE 0)
  <2> HIDE DEF tg
  <2> QED BY Push
<1> HIDE DEF t
<1>3. Order(t) /\ Below(t, tg) BY <1>1, <1>2
<1>4. stack' = t /\ tg = tag' BY DEF t
<1> HIDE DEF tg
<1>5. StackInv' BY <1>2, <1>3, <1>4, StackIs
<1> QED BY <1>2, <1>4, <1>5

\* ... and ends.
LEMMA Unstack ==
  ASSUME NEW st \in Seq(Frames), Order(st), Below(st, tag'), stack' = st,
         st # <<>> => ~Is(Last(st), "delete", "called") \/ tag'[Last(st).obj] # "none"
  PROVE  StackInv'
BY StackIs

\* The references stay; what a call anchored is noted elsewhere.
LEMMA AnchoredKept ==
  ASSUME IInv, heap' = heap, memory' = memory,
         \A f \in ToSet(stack) : f.obj = Nil \/ tag'[f.obj] # "none" \/ \E g \in ToSet(stack') : g.obj = f.obj,
         \A x \in Object : tag[x] # "none" => tag'[x] # "none"
  PROVE  \A T \in SUBSET Object : Anchors' \subseteq T /\ Closed(T)' => \A x \in Object : memory'[x] = "live" => x \in T
<1> SUFFICES ASSUME NEW T \in SUBSET Object, Anchors' \subseteq T, Closed(T)'
             PROVE  \A x \in Object : memory[x] = "live" => x \in T
  OBVIOUS
<1>1. /\ \A r \in Slot : heap'[r] # Nil /\ (Owner[r] = Global \/ (Owner[r] \in Object /\ memory'[Owner[r]] \in {"dying", "null"}))
                              => heap'[r] \in T
      /\ \A f \in ToSet(stack') : f.obj # Nil => f.obj \in T
      /\ \A y \in Object : tag'[y] # "none" => y \in T
      /\ \A r \in Slot : Owner[r] \in T /\ memory'[Owner[r]] = "live" /\ heap'[r] # Nil => heap'[r] \in T
  BY AnchorsIn, ClosedIs
<1>2. \A f \in ToSet(stack) : f.obj # Nil => f.obj \in Object
  <2> TAKE f \in ToSet(stack)
  <2>1. f \in Frames BY InvIs
  <2> QED BY <2>1 DEF Frames
<1>3. \A f \in ToSet(stack) : f.obj # Nil => f.obj \in T BY <1>1, <1>2
<1>4. Anchors \subseteq T /\ Closed(T) BY <1>1, <1>3, AnchorsIn, ClosedIs
<1> QED BY <1>4, InvIs

\* Counts move with the calls.
LEMMA ExactMoves ==
  ASSUME IInv, heap' = heap, stack' \in Seq(Frames),
         \A x \in Object : rc'[x] = rc[x] + Cardinality(Holders(stack', x)) - Cardinality(Holders(stack, x))
  PROVE  Exact(heap', stack', rc')
<1> SUFFICES ASSUME NEW x \in Object
             PROVE  rc'[x] = Cardinality(SlotsAt(heap, x)) + Cardinality(Holders(stack', x))
  BY DEF Exact
<1>1. rc[x] = Cardinality(SlotsAt(heap, x)) + Cardinality(Holders(stack, x)) BY InvIs DEF Exact
<1>2. /\ Cardinality(SlotsAt(heap, x)) \in Nat /\ Cardinality(Holders(stack, x)) \in Nat
      /\ Cardinality(Holders(stack', x)) \in Nat
  BY InvIs, SlotsFinite, HoldersFinite
<1>3. rc'[x] = rc[x] + Cardinality(Holders(stack', x)) - Cardinality(Holders(stack, x)) OBVIOUS
<1> QED BY <1>1, <1>2, <1>3

LEMMA FreeObjStep ==
  ASSUME IInv, stack # <<>>, Top.op = "delete", NEW o, o = Top.obj,
         Cardinality(SlotsAt(heap, o)) = 0, Cardinality(Holders(Front(stack), o)) = 0,
         FreeObj(o), UNCHANGED <<heap, tag, called>>
  PROVE  IInv'
<1> DEFINE st == Front(stack)
           f1 == Free(o, "delete")
<1>1. /\ TypeInv /\ stack \in Seq(Frames) /\ StackInv
      /\ \A f \in ToSet(stack) : f \in Frames /\ CallOf(f, memory, rc, tag)
      /\ MemoryOf(heap, memory, rc, tag, ToSet(stack))
      /\ GarbageOf(heap, tag, called, ToSet(stack))
      /\ Exact(heap, stack, rc)
      /\ \A T \in SUBSET Object : Anchors \subseteq T /\ Closed(T) => \A x \in Object : memory[x] = "live" => x \in T
  BY InvIs
<1>2. /\ Top \in Frames /\ st \in Seq(Frames) /\ stack = Append(st, Top)
      /\ ToSet(stack) = ToSet(st) \cup {Top} /\ Top \in ToSet(stack)
      /\ Order(st) /\ MayCall(st, Top) /\ Below(st, tag)
      /\ \A g \in ToSet(st) : g \in Frames /\ ~Is(g, "delete", "enter")
      /\ \A x : Cardinality(Holders(stack, x)) = Cardinality(Holders(st, x)) + (IF Holds(Top) /\ Top.obj = x THEN 1 ELSE 0)
  BY <1>1, TopOn
<1>3. o \in Object /\ memory[o] = "live" BY <1>1, <1>2, FrameTypes DEF CallOf
<1>4. /\ heap' = heap /\ tag' = tag /\ called' = called /\ stack' = Append(st, f1)
      /\ memory' = [memory EXCEPT ![o] = "dying"] /\ rc' = [rc EXCEPT ![o] = 1]
  BY DEF FreeObj, Above
<1>5. f1 \in Frames /\ f1.op = "free" /\ f1.at = "delete" /\ f1.obj = o /\ Holds(f1) BY <1>3, NewFrames DEF Is
<1>6. \A f \in ToSet(st) : Holds(f) => f.obj # o BY <1>2, HolderCounts
<1> HIDE DEF st, f1
<1>7. MayCall(st, f1) BY <1>2, <1>5 DEF MayCall, Is
<1>8. /\ StackInv' /\ stack' \in Seq(Frames) /\ ToSet(stack') = ToSet(st) \cup {f1}
      /\ \A x : Cardinality(Holders(stack', x)) = Cardinality(Holders(st, x)) + (IF Holds(f1) /\ f1.obj = x THEN 1 ELSE 0)
  <2>1. Below(st, tag') BY <1>2, <1>4
  <2>2. ~Is(f1, "delete", "called") BY <1>5 DEF Is
  <2> QED BY <1>2, <1>4, <1>5, <1>7, <2>1, <2>2, Restack
<1>9. /\ memory' \in [Object -> {"free", "live", "dying", "null"}] /\ rc' \in [Object -> Int]
      /\ memory'[o] = "dying" /\ rc'[o] = 1
      /\ \A x \in Object : x # o => memory'[x] = memory[x] /\ rc'[x] = rc[x]
  BY <1>1, <1>3, <1>4 DEF TypeInv
<1>10. TypeInv' BY <1>1, <1>4, <1>8, <1>9 DEF TypeInv
<1>11. ASSUME NEW f \in ToSet(stack') PROVE CallOf(f, memory', rc', tag')
  <2>1. CASE f = f1 BY <1>5, <1>9, <2>1 DEF CallOf, Is
  <2>2. CASE f \in ToSet(st)
    <3>1. f \in Frames /\ CallOf(f, memory, rc, tag) /\ ~Is(f, "delete", "enter") BY <1>1, <1>2, <2>2
    <3>2. /\ f.op \in {"delete", "destruct", "free", "full"} \/ Is(f, "collect", "called") => f.obj \in Object /\ f.obj # o
      BY <1>6, <2>2, <3>1, FrameTypes DEF Is
    <3> QED BY <1>4, <1>9, <3>1, <3>2 DEF CallOf, Is
  <2> QED BY <1>8, <2>1, <2>2
<1>12. MemoryOf(heap', memory', rc', tag', ToSet(stack'))
  <2>1. \A r \in Slot : heap[r] # o BY SlotsFinite
  <2>2. \A by, x : FreedBy(ToSet(stack), by, x) => FreedBy(ToSet(stack'), by, x)
    BY <1>2, <1>8 DEF FreedBy, Is
  <2>3. FreedBy(ToSet(stack'), "delete", o) BY <1>5, <1>8 DEF FreedBy, Is
  <2> QED BY <1>1, <1>3, <1>4, <1>9, <2>1, <2>2, <2>3 DEF MemoryOf
<1>13. GarbageOf(heap', tag', called', ToSet(stack'))
  <2>1. \A at : CollectingIn(ToSet(stack), at) => CollectingIn(ToSet(stack'), at)
    BY <1>2, <1>8 DEF CollectingIn
  <2>2. HasDestructor \subseteq Object BY GCAssumption
  <2> QED BY <1>1, <1>4, <2>1, <2>2 DEF GarbageOf
<1>14. Exact(heap', stack', rc')
  <2> SUFFICES ASSUME NEW x \in Object
               PROVE  rc'[x] = Cardinality(SlotsAt(heap, x)) + Cardinality(Holders(stack', x))
    BY <1>4 DEF Exact
  <2>1. rc[x] = Cardinality(SlotsAt(heap, x)) + Cardinality(Holders(stack, x)) BY <1>1 DEF Exact
  <2>2. Cardinality(SlotsAt(heap, x)) \in Nat /\ Cardinality(Holders(st, x)) \in Nat BY <1>2, SlotsFinite, HoldersFinite
  <2>3. CASE x = o
    <3>1. Cardinality(Holders(stack', x)) = Cardinality(Holders(st, x)) + 1 BY <1>5, <1>8, <2>3
    <3> QED BY <1>9, <2>3, <3>1 DEF st
  <2>4. CASE x # o
    <3>1. /\ Cardinality(Holders(stack', x)) = Cardinality(Holders(st, x)) + 0
          /\ Cardinality(Holders(stack, x)) = Cardinality(Holders(st, x)) + 0
      BY <1>2, <1>5, <1>8, <2>4
    <3> QED BY <1>9, <2>1, <2>4, <3>1
  <2> QED BY <2>3, <2>4
<1>15. ASSUME NEW T \in SUBSET Object, Anchors' \subseteq T, Closed(T)', NEW x \in Object, memory'[x] = "live"
       PROVE  x \in T
  <2>1. /\ \A r \in Slot : heap'[r] # Nil /\ (Owner[r] = Global \/ (Owner[r] \in Object /\ memory'[Owner[r]] \in {"dying", "null"}))
                                => heap'[r] \in T
        /\ \A f \in ToSet(stack') : f.obj # Nil => f.obj \in T
        /\ \A y \in Object : tag'[y] # "none" => y \in T
        /\ \A r \in Slot : Owner[r] \in T /\ memory'[Owner[r]] = "live" /\ heap'[r] # Nil => heap'[r] \in T
    BY <1>15, AnchorsIn, ClosedIs
  <2>2. o \in T BY <1>3, <1>5, <1>8, <2>1, GCAssumption
  <2>3. \A f \in ToSet(stack) : f.obj # Nil => f.obj \in T BY <1>2, <1>8, <2>1, <2>2
  <2>4. \A r \in Slot : heap[r] # Nil /\ (Owner[r] = Global \/ (Owner[r] \in Object /\ memory[Owner[r]] \in {"dying", "null"}))
            => heap[r] \in T
    BY <1>3, <1>4, <1>9, <2>1
  <2>5. \A r \in Slot : Owner[r] \in T /\ memory[Owner[r]] = "live" /\ heap[r] # Nil => heap[r] \in T
    BY <1>3, <1>4, <1>9, <2>1
  <2>6. Anchors \subseteq T /\ Closed(T) BY <1>4, <2>1, <2>3, <2>4, <2>5, AnchorsIn, ClosedIs
  <2>7. memory[x] = "live" BY <1>9, <1>15
  <2> QED BY <1>1, <2>6, <2>7
<1> QED BY <1>8, <1>10, <1>11, <1>12, <1>13, <1>14, <1>15, InvNext

LEMMA MovedFrames ==
  ASSUME NEW f \in Frames
  PROVE  /\ f.op = "delete" => LET g == [f EXCEPT !.at = "called"]
                               IN  g \in Frames /\ g.op = "delete" /\ g.at = "called" /\ g.obj = f.obj /\ Holds(g)
         /\ f.op = "collect" =>
               /\ \A o \in Object : LET g == [f EXCEPT !.at = "called", !.obj = o]
                                    IN  g \in Frames /\ g.op = "collect" /\ g.at = "called" /\ g.obj = o /\ Holds(g)
               /\ LET g == [f EXCEPT !.at = "dtors", !.obj = Nil]
                  IN  g \in Frames /\ g.op = "collect" /\ g.at = "dtors" /\ g.obj = Nil /\ ~Holds(g)
               /\ LET g == [f EXCEPT !.at = "destroy"]
                  IN  f.at = "dtors" => g \in Frames /\ g.op = "collect" /\ g.at = "destroy" /\ g.obj = Nil /\ ~Holds(g)
<1>1. ASSUME f.op = "delete"
      PROVE  LET g == [f EXCEPT !.at = "called"]
             IN  g \in Frames /\ g.op = "delete" /\ g.at = "called" /\ g.obj = f.obj /\ Holds(g)
  BY <1>1 DEF Frames, Holds
<1>2. ASSUME f.op = "collect"
      PROVE  f \in [op : {"collect"}, at : {"called"}, obj : Object, first : BOOLEAN, dtors : BOOLEAN]
                   \cup [op : {"collect"}, at : {"start", "dtors", "destroy"}, obj : {Nil}, first : BOOLEAN, dtors : BOOLEAN]
  BY <1>2 DEF Frames
<1>3. ASSUME f.op = "collect", NEW o \in Object
      PROVE  LET g == [f EXCEPT !.at = "called", !.obj = o]
             IN  g \in Frames /\ g.op = "collect" /\ g.at = "called" /\ g.obj = o /\ Holds(g)
  BY <1>2, <1>3 DEF Frames, Holds
<1>4. ASSUME f.op = "collect"
      PROVE  LET g == [f EXCEPT !.at = "dtors", !.obj = Nil]
             IN  g \in Frames /\ g.op = "collect" /\ g.at = "dtors" /\ g.obj = Nil /\ ~Holds(g)
  BY <1>2, <1>4 DEF Frames, Holds
<1>5. ASSUME f.op = "collect", f.at = "dtors"
      PROVE  LET g == [f EXCEPT !.at = "destroy"]
             IN  g \in Frames /\ g.op = "collect" /\ g.at = "destroy" /\ g.obj = Nil /\ ~Holds(g)
  BY <1>2, <1>5 DEF Frames, Holds
<1> QED BY <1>1, <1>3, <1>4, <1>5

LEMMA DelEnterStep ==
  ASSUME IInv, DelEnter
  PROVE  IInv'
<1> DEFINE o == Top.obj
           st == Front(stack)
<1>1. /\ TypeInv /\ stack \in Seq(Frames) /\ StackInv
      /\ \A f \in ToSet(stack) : f \in Frames /\ CallOf(f, memory, rc, tag)
      /\ MemoryOf(heap, memory, rc, tag, ToSet(stack))
      /\ GarbageOf(heap, tag, called, ToSet(stack))
      /\ Exact(heap, stack, rc)
      /\ \A T \in SUBSET Object : Anchors \subseteq T /\ Closed(T) => \A x \in Object : memory[x] = "live" => x \in T
  BY InvIs
<1>2. stack # <<>> /\ Top.op = "delete" /\ Top.at = "enter" BY DEF DelEnter, On
<1>3. /\ Top \in Frames /\ st \in Seq(Frames) /\ stack = Append(st, Top)
      /\ ToSet(stack) = ToSet(st) \cup {Top} /\ Top \in ToSet(stack)
      /\ Order(st) /\ MayCall(st, Top) /\ Below(st, tag)
      /\ \A g \in ToSet(st) : g \in Frames /\ ~Is(g, "delete", "enter")
      /\ \A x : Cardinality(Holders(stack, x)) = Cardinality(Holders(st, x)) + (IF Holds(Top) /\ Top.obj = x THEN 1 ELSE 0)
  BY <1>1, <1>2, TopOn
<1>4. o \in Object /\ memory[o] = "live" /\ rc[o] = 0 /\ ~Holds(Top)
  <2>1. CallOf(Top, memory, rc, tag) BY <1>1, <1>3
  <2> QED BY <1>2, <1>3, <2>1, FrameTypes DEF CallOf, Is
<1>5. Cardinality(SlotsAt(heap, o)) = 0 /\ Cardinality(Holders(st, o)) = 0
  <2>1. rc[o] = Cardinality(SlotsAt(heap, o)) + Cardinality(Holders(stack, o)) BY <1>1, <1>4 DEF Exact
  <2>2. Cardinality(Holders(stack, o)) = Cardinality(Holders(st, o)) + 0 BY <1>3, <1>4
  <2>3. Cardinality(SlotsAt(heap, o)) \in Nat /\ Cardinality(Holders(st, o)) \in Nat BY <1>3, SlotsFinite, HoldersFinite
  <2> QED BY <1>4, <2>1, <2>2, <2>3
<1>6. CASE ~NeedsDestructor(o)
  <2>1. FreeObj(o) /\ UNCHANGED <<heap, tag, called>> BY <1>6 DEF DelEnter
  <2> QED BY <1>2, <1>5, <2>1, FreeObjStep
<1>7. CASE NeedsDestructor(o)
  <2> DEFINE f1 == [Top EXCEPT !.at = "called"]
             f2 == Destruct(o)
             t == Append(st, f1)
  <2>1. /\ called' = called \cup {o} /\ rc' = [rc EXCEPT ![o] = 2] /\ stack' = Append(t, f2)
        /\ memory' = memory /\ heap' = heap /\ tag' = tag
    BY <1>7 DEF DelEnter, Goto, Above
  <2>2. /\ f1 \in Frames /\ f1.op = "delete" /\ f1.at = "called" /\ f1.obj = o /\ Holds(f1)
        /\ f2 \in Frames /\ f2.op = "destruct" /\ f2.at = "run" /\ f2.obj = o /\ Holds(f2)
    <3>1. f2 \in Frames /\ f2.op = "destruct" /\ f2.at = "run" /\ f2.obj = o /\ Holds(f2)
      BY <1>4, NewFrames DEF Is
    <3>2. f1 \in Frames /\ f1.op = "delete" /\ f1.at = "called" /\ f1.obj = o /\ Holds(f1)
      BY <1>2, <1>3, MovedFrames
    <3> QED BY <3>1, <3>2
  <2> HIDE DEF o, st, f1, f2
  <2>3. /\ t \in Seq(Frames) /\ t # <<>> /\ Last(t) = f1 /\ ToSet(t) = ToSet(st) \cup {f1}
        /\ Order(t) <=> Order(st) /\ MayCall(st, f1)
        /\ Below(t, tag) <=> /\ Below(st, tag)
                             /\ f1.op = "collect" => \A g \in ToSet(st) : tag[g.obj] \in {"none", "root"}
        /\ \A x : Cardinality(Holders(t, x)) = Cardinality(Holders(st, x)) + (IF Holds(f1) /\ f1.obj = x THEN 1 ELSE 0)
    BY <1>3, <2>2, Push
  <2> HIDE DEF t
  <2>4. MayCall(st, f1) BY <1>2, <1>3, <2>2 DEF MayCall, Is
  <2>5. Order(t) /\ Below(t, tag') BY <1>3, <2>1, <2>2, <2>3, <2>4
  <2>6. MayCall(t, f2) BY <2>2, <2>3 DEF MayCall, Is
  <2>7. /\ StackInv' /\ stack' \in Seq(Frames) /\ ToSet(stack') = ToSet(t) \cup {f2}
        /\ \A x : Cardinality(Holders(stack', x)) = Cardinality(Holders(t, x)) + (IF Holds(f2) /\ f2.obj = x THEN 1 ELSE 0)
    <3>1. f2.op # "collect" /\ ~Is(f2, "delete", "called") BY <2>2 DEF Is
    <3> QED BY <2>1, <2>2, <2>3, <2>5, <2>6, <3>1, Restack
  <2>8. ToSet(stack') = ToSet(st) \cup {f1, f2} BY <2>3, <2>7
  <2>9. /\ rc' \in [Object -> Int] /\ rc'[o] = 2 /\ \A x \in Object : x # o => rc'[x] = rc[x]
    BY <1>1, <1>4, <2>1 DEF TypeInv
  <2>10. TypeInv' BY <1>1, <1>4, <2>1, <2>7, <2>9 DEF TypeInv
  <2>11. tag[o] # "garbage" BY <1>1, <1>7 DEF NeedsDestructor, GarbageOf
  <2>12. ASSUME NEW f \in ToSet(stack') PROVE CallOf(f, memory', rc', tag')
    <3>1. CASE f \in {f1, f2} BY <1>4, <2>1, <2>2, <2>11, <3>1 DEF CallOf, Is
    <3>2. CASE f \in ToSet(st)
      <4>1. f \in Frames /\ CallOf(f, memory, rc, tag) /\ ~Is(f, "delete", "enter") BY <1>1, <1>3, <3>2
      <4> QED BY <2>1, <4>1 DEF CallOf
    <3> QED BY <2>8, <3>1, <3>2
  <2>13. MemoryOf(heap', memory', rc', tag', ToSet(stack'))
    <3>1. \A by, x : FreedBy(ToSet(stack), by, x) => FreedBy(ToSet(stack'), by, x)
      BY <1>2, <1>3, <2>8 DEF FreedBy, Is
    <3> QED BY <1>1, <1>4, <2>1, <2>9, <3>1 DEF MemoryOf
  <2>14. GarbageOf(heap', tag', called', ToSet(stack'))
    <3>1. \A at : CollectingIn(ToSet(stack), at) => CollectingIn(ToSet(stack'), at)
      BY <1>2, <1>3, <2>8 DEF CollectingIn
    <3>2. HasDestructor \subseteq Object BY GCAssumption
    <3> QED BY <1>1, <2>1, <3>1, <3>2 DEF GarbageOf
  <2>15. Exact(heap', stack', rc')
    <3> SUFFICES ASSUME NEW x \in Object
                 PROVE  rc'[x] = Cardinality(SlotsAt(heap, x)) + Cardinality(Holders(stack', x))
      BY <2>1 DEF Exact
    <3>1. rc[x] = Cardinality(SlotsAt(heap, x)) + Cardinality(Holders(stack, x)) BY <1>1 DEF Exact
    <3>2. Cardinality(SlotsAt(heap, x)) \in Nat /\ Cardinality(Holders(st, x)) \in Nat BY <1>3, SlotsFinite, HoldersFinite
    <3>3. CASE x = o
      <4>1. Cardinality(Holders(t, x)) = Cardinality(Holders(st, x)) + 1 BY <2>2, <2>3, <3>3
      <4>2. Cardinality(Holders(stack', x)) = Cardinality(Holders(t, x)) + 1 BY <2>2, <2>7, <3>3
      <4> QED BY <1>5, <2>9, <3>2, <3>3, <4>1, <4>2
    <3>4. CASE x # o
      <4>1. /\ Cardinality(Holders(t, x)) = Cardinality(Holders(st, x)) + 0
            /\ Cardinality(Holders(stack, x)) = Cardinality(Holders(st, x)) + 0
            /\ Cardinality(Holders(stack', x)) = Cardinality(Holders(t, x)) + 0
        BY <1>3, <1>4, <2>2, <2>3, <2>7, <3>4
      <4> QED BY <2>9, <3>1, <3>2, <3>4, <4>1
    <3> QED BY <3>3, <3>4
  <2>16. \A T \in SUBSET Object : Anchors' \subseteq T /\ Closed(T)' => \A x \in Object : memory'[x] = "live" => x \in T
    <3>1. \A f \in ToSet(stack) : \E g \in ToSet(stack') : g.obj = f.obj BY <1>3, <2>2, <2>8 DEF o
    <3> QED BY <2>1, <3>1, AnchoredKept
  <2> QED BY <2>7, <2>10, <2>12, <2>13, <2>14, <2>15, <2>16, InvNext
<1> QED BY <1>6, <1>7

\* Calls end and begin, tags become roots, the memory stays.
LEMMA CallsMove ==
  ASSUME IInv, heap' = heap, memory' = memory, called \subseteq called', called' \subseteq Object,
         rc' \in [Object -> Int], tag' \in [Object -> {"none", "root", "dtor", "garbage"}],
         stack' \in Seq(Frames), StackInv',
         \A x \in Object : rc'[x] = rc[x] + Cardinality(Holders(stack', x)) - Cardinality(Holders(stack, x)),
         \A x \in Object : memory[x] = "dying" => rc'[x] = rc[x],
         \A x \in Object : tag'[x] = tag[x] \/ (tag[x] \in {"none", "dtor"} /\ tag'[x] = "root" /\ memory[x] # "free"),
         \A f \in ToSet(stack') : (f \in ToSet(stack) /\ ~Is(f, "delete", "enter")) \/ CallOf(f, memory, rc', tag'),
         \A f \in ToSet(stack) :
            /\ f.op = "free" => f \in ToSet(stack') \/ (f.at = "collect" /\ EmptyIn(heap, f.obj))
            /\ f.obj = Nil \/ tag'[f.obj] # "none" \/ \E g \in ToSet(stack') : g.obj = f.obj,
         \A x \in Object : tag'[x] = "dtor" => CollectingIn(ToSet(stack'), {"dtors", "called"}),
         \A x \in Object : tag'[x] = "garbage" => CollectingIn(ToSet(stack'), {"dtors", "called", "destroy"})
  PROVE  IInv'
<1>1. /\ TypeInv /\ \A f \in ToSet(stack) : f \in Frames /\ CallOf(f, memory, rc, tag)
      /\ MemoryOf(heap, memory, rc, tag, ToSet(stack))
      /\ GarbageOf(heap, tag, called, ToSet(stack))
  BY InvIs
<1>2. TypeInv' BY <1>1 DEF TypeInv
<1>3. ASSUME NEW f \in ToSet(stack') PROVE CallOf(f, memory', rc', tag')
  <2>1. CASE f \in ToSet(stack) /\ ~Is(f, "delete", "enter")
    <3>1. f \in Frames /\ CallOf(f, memory, rc, tag) BY <1>1, <2>1
    <3>2. /\ Is(f, "collect", "called") => f.obj \in Object
          /\ Holds(f) /\ f.op # "free" => f.obj \in Object
      BY <3>1, FrameTypes DEF Is
    <3>3. /\ Is(f, "collect", "called") => tag'[f.obj] = "root"
          /\ Holds(f) /\ f.op # "free" => tag'[f.obj] # "garbage"
      BY <3>1, <3>2 DEF CallOf
    <3> QED BY <2>1, <3>1, <3>3 DEF CallOf
  <2>2. CASE CallOf(f, memory, rc', tag') BY <2>2
  <2> QED BY <2>1, <2>2
<1>4. MemoryOf(heap', memory', rc', tag', ToSet(stack'))
  <2>1. ASSUME NEW x \in Object, memory[x] = "free" PROVE tag'[x] = "none" /\ EmptyIn(heap, x)
    BY <1>1, <2>1 DEF MemoryOf
  <2>2. ASSUME NEW x \in Object, memory[x] = "dying" PROVE rc'[x] = 1 /\ FreedBy(ToSet(stack'), "delete", x)
    <3>1. rc[x] = 1 /\ FreedBy(ToSet(stack), "delete", x) BY <1>1, <2>2 DEF MemoryOf
    <3>2. FreedBy(ToSet(stack'), "delete", x) BY <3>1 DEF FreedBy, Is
    <3> QED BY <2>2, <3>1, <3>2
  <2>3. ASSUME NEW x \in Object, memory[x] = "null"
        PROVE  tag'[x] = "garbage" /\ (EmptyIn(heap, x) \/ FreedBy(ToSet(stack'), "collect", x))
    <3>1. tag[x] = "garbage" /\ (EmptyIn(heap, x) \/ FreedBy(ToSet(stack), "collect", x)) BY <1>1, <2>3 DEF MemoryOf
    <3>2. tag'[x] = "garbage" BY <3>1
    <3>3. FreedBy(ToSet(stack), "collect", x) => EmptyIn(heap, x) \/ FreedBy(ToSet(stack'), "collect", x)
      BY DEF FreedBy, Is
    <3> QED BY <3>1, <3>2, <3>3
  <2> QED BY <1>1, <2>1, <2>2, <2>3 DEF MemoryOf
<1>5. GarbageOf(heap', tag', called', ToSet(stack'))
  <2>1. \A x \in Object : tag'[x] = "garbage" <=> tag[x] = "garbage" OBVIOUS
  <2>2. HasDestructor \subseteq Object BY GCAssumption
  <2> QED BY <1>1, <2>1, <2>2 DEF GarbageOf
<1>6. Exact(heap', stack', rc') BY ExactMoves
<1>7. \A T \in SUBSET Object : Anchors' \subseteq T /\ Closed(T)' => \A x \in Object : memory'[x] = "live" => x \in T
  <2>1. \A x \in Object : tag[x] # "none" => tag'[x] # "none" OBVIOUS
  <2> QED BY <2>1, AnchoredKept
<1> QED BY <1>2, <1>3, <1>4, <1>5, <1>6, <1>7, InvNext

LEMMA DelCalledStep ==
  ASSUME IInv, DelCalled
  PROVE  IInv'
<1> DEFINE o == Top.obj
           st == Front(stack)
<1>1. /\ TypeInv /\ stack \in Seq(Frames) /\ StackInv
      /\ \A f \in ToSet(stack) : f \in Frames /\ CallOf(f, memory, rc, tag)
      /\ MemoryOf(heap, memory, rc, tag, ToSet(stack))
      /\ GarbageOf(heap, tag, called, ToSet(stack))
      /\ Exact(heap, stack, rc)
  BY InvIs
<1>2. stack # <<>> /\ Top.op = "delete" /\ Top.at = "called" BY DEF DelCalled, On
<1>3. /\ Top \in Frames /\ st \in Seq(Frames) /\ stack = Append(st, Top)
      /\ ToSet(stack) = ToSet(st) \cup {Top} /\ Top \in ToSet(stack)
      /\ Order(st) /\ MayCall(st, Top) /\ Below(st, tag)
      /\ \A g \in ToSet(st) : g \in Frames /\ ~Is(g, "delete", "enter")
      /\ \A x : Cardinality(Holders(stack, x)) = Cardinality(Holders(st, x)) + (IF Holds(Top) /\ Top.obj = x THEN 1 ELSE 0)
  BY <1>1, <1>2, TopOn
<1>4. o \in Object /\ memory[o] = "live" /\ Holds(Top)
  <2>1. CallOf(Top, memory, rc, tag) BY <1>1, <1>3
  <2> QED BY <1>2, <1>3, <2>1, FrameTypes DEF CallOf, Is
<1>5. \A x \in Object : /\ Cardinality(Holders(stack, x)) = Cardinality(Holders(st, x)) + (IF o = x THEN 1 ELSE 0)
                        /\ Cardinality(Holders(st, x)) \in Nat
  BY <1>3, <1>4, HoldersFinite
<1>6. CASE rc[o] = 1
  <2>1. Cardinality(SlotsAt(heap, o)) = 0 /\ Cardinality(Holders(st, o)) = 0
    <3>1. rc[o] = Cardinality(SlotsAt(heap, o)) + Cardinality(Holders(stack, o)) BY <1>1, <1>4 DEF Exact
    <3>2. Cardinality(Holders(stack, o)) = Cardinality(Holders(st, o)) + 1 BY <1>4, <1>5
    <3>3. Cardinality(SlotsAt(heap, o)) \in Nat /\ Cardinality(Holders(st, o)) \in Nat BY <1>3, SlotsFinite, HoldersFinite
    <3> QED BY <1>6, <3>1, <3>2, <3>3
  <2>2. FreeObj(o) /\ UNCHANGED <<heap, tag, called>> BY <1>6 DEF DelCalled
  <2> QED BY <1>2, <2>1, <2>2, FreeObjStep
<1>7. CASE rc[o] # 1
  <2>1. /\ rc' = [rc EXCEPT ![o] = @ - 1] /\ stack' = st /\ memory' = memory /\ heap' = heap /\ tag' = tag /\ called' = called
    BY <1>7 DEF DelCalled
  <2>2. tag[o] # "none" BY <1>1, <1>2, StackIs DEF Is, Top
  <2>3. StackInv'
    <3>1. st # <<>> => ~Is(Last(st), "delete", "called") BY <1>2, <1>3 DEF MayCall
    <3> HIDE DEF st
    <3> QED BY <1>3, <2>1, <3>1, Unstack
  <2>4. /\ rc' \in [Object -> Int] /\ \A x \in Object : rc'[x] = rc[x] - (IF o = x THEN 1 ELSE 0)
    BY <1>1, <1>4, <2>1 DEF TypeInv
  <2>5. \A x \in Object : rc'[x] = rc[x] + Cardinality(Holders(stack', x)) - Cardinality(Holders(stack, x))
    <3> TAKE x \in Object
    <3>1. rc[x] \in Int BY <1>1 DEF TypeInv
    <3>2. stack' = st BY <2>1
    <3>3. CASE o = x
      <4>1. Cardinality(Holders(stack, x)) = Cardinality(Holders(st, x)) + 1 BY <1>5, <3>3
      <4> HIDE DEF st
      <4> QED BY <1>5, <2>4, <3>1, <3>2, <3>3, <4>1
    <3>4. CASE o # x
      <4>1. Cardinality(Holders(stack, x)) = Cardinality(Holders(st, x)) + 0 /\ rc'[x] = rc[x] - 0 BY <1>5, <2>4, <3>4
      <4> HIDE DEF st
      <4> QED BY <1>5, <3>1, <3>2, <4>1
    <3> QED BY <3>3, <3>4
  <2>6. \A x \in Object : memory[x] = "dying" => rc'[x] = rc[x]
    <3>1. \A x \in Object : x # o => rc'[x] = rc[x] BY <1>1, <2>1 DEF TypeInv
    <3> QED BY <1>4, <3>1
  <2>7. \A f \in ToSet(stack') : f \in ToSet(stack) /\ ~Is(f, "delete", "enter") BY <1>3, <2>1
  <2>8. \A f \in ToSet(stack) :
            /\ f.op = "free" => f \in ToSet(stack')
            /\ f.obj = Nil \/ tag'[f.obj] # "none" \/ \E g \in ToSet(stack') : g.obj = f.obj
    BY <1>2, <1>3, <2>1, <2>2
  <2>9. \A at : CollectingIn(ToSet(stack), at) => CollectingIn(ToSet(stack'), at) BY <1>2, <1>3, <2>1 DEF CollectingIn
  <2> HIDE DEF o, st
  <2>10. stack' \in Seq(Frames) /\ called' \subseteq Object /\ tag' \in [Object -> {"none", "root", "dtor", "garbage"}]
    BY <1>1, <1>3, <2>1 DEF TypeInv
  <2>11. /\ \A x \in Object : tag'[x] = "dtor" => CollectingIn(ToSet(stack'), {"dtors", "called"})
         /\ \A x \in Object : tag'[x] = "garbage" => CollectingIn(ToSet(stack'), {"dtors", "called", "destroy"})
    BY <1>1, <2>1, <2>9 DEF GarbageOf
  <2> QED BY <2>1, <2>3, <2>4, <2>5, <2>6, <2>7, <2>8, <2>10, <2>11, CallsMove
<1> QED BY <1>6, <1>7

LEMMA FreeDoneStep ==
  ASSUME IInv, FreeDone
  PROVE  IInv'
<1> DEFINE o == Top.obj
           st == Front(stack)
<1>1. /\ TypeInv /\ stack \in Seq(Frames) /\ StackInv
      /\ \A f \in ToSet(stack) : f \in Frames /\ CallOf(f, memory, rc, tag)
      /\ MemoryOf(heap, memory, rc, tag, ToSet(stack))
      /\ GarbageOf(heap, tag, called, ToSet(stack))
      /\ Exact(heap, stack, rc)
      /\ \A T \in SUBSET Object : Anchors \subseteq T /\ Closed(T) => \A x \in Object : memory[x] = "live" => x \in T
  BY InvIs
<1>2. stack # <<>> /\ Top.op = "free" /\ Left = {} BY DEF FreeDone, Freeing
<1>3. /\ Top \in Frames /\ st \in Seq(Frames) /\ stack = Append(st, Top)
      /\ ToSet(stack) = ToSet(st) \cup {Top} /\ Top \in ToSet(stack)
      /\ Order(st) /\ MayCall(st, Top) /\ Below(st, tag)
      /\ \A g \in ToSet(st) : g \in Frames /\ ~Is(g, "delete", "enter")
      /\ \A x : Cardinality(Holders(stack, x)) = Cardinality(Holders(st, x)) + (IF Holds(Top) /\ Top.obj = x THEN 1 ELSE 0)
  BY <1>1, <1>2, TopOn
<1>4. /\ o \in Object /\ Holds(Top) /\ Top.at \in {"delete", "collect"}
      /\ Top.at = "delete" => memory[o] = "dying"
      /\ Top.at = "collect" => memory[o] = "null"
  <2>1. CallOf(Top, memory, rc, tag) BY <1>1, <1>3
  <2> QED BY <1>2, <1>3, <2>1, FrameTypes DEF CallOf, Is
<1>5. EmptyIn(heap, o) BY <1>2 DEF Left, EmptyIn, SlotsOf
<1>6. /\ heap' = heap /\ called' = called /\ stack' = st /\ rc' = [rc EXCEPT ![o] = @ - 1] BY DEF FreeDone
<1>7. \A x \in Object : /\ Cardinality(Holders(stack, x)) = Cardinality(Holders(st, x)) + (IF o = x THEN 1 ELSE 0)
                        /\ Cardinality(Holders(st, x)) \in Nat
  BY <1>3, <1>4, HoldersFinite
<1>8. st # <<>> => ~Is(Last(st), "delete", "called") BY <1>2, <1>3 DEF MayCall
<1>9. /\ rc' \in [Object -> Int] /\ rc'[o] = rc[o] - 1 /\ \A x \in Object : x # o => rc'[x] = rc[x]
  BY <1>1, <1>4, <1>6 DEF TypeInv
<1> HIDE DEF o, st
<1>10. \A x \in Object : rc'[x] = rc[x] + Cardinality(Holders(stack', x)) - Cardinality(Holders(stack, x))
  <2> TAKE x \in Object
  <2>1. rc[x] \in Int BY <1>1 DEF TypeInv
  <2>2. CASE o = x
    <3>1. Cardinality(Holders(stack, x)) = Cardinality(Holders(st, x)) + 1 BY <1>7, <2>2
    <3> QED BY <1>6, <1>7, <1>9, <2>1, <2>2, <3>1
  <2>3. CASE o # x
    <3>1. Cardinality(Holders(stack, x)) = Cardinality(Holders(st, x)) + 0 BY <1>7, <2>3
    <3> QED BY <1>6, <1>7, <1>9, <2>1, <2>3, <3>1
  <2> QED BY <2>2, <2>3
<1>11. stack' \in Seq(Frames) /\ ToSet(stack') = ToSet(st) BY <1>3, <1>6
<1>12. \A at : CollectingIn(ToSet(stack), at) => CollectingIn(ToSet(stack'), at) BY <1>2, <1>3, <1>11 DEF CollectingIn
<1>13. CASE Top.at = "collect"
  <2>1. memory' = memory /\ tag' = tag BY <1>13 DEF FreeDone
  <2>2. tag[o] = "garbage" BY <1>1, <1>4, <1>13 DEF MemoryOf
  <2>3. StackInv' BY <1>3, <1>6, <1>8, <2>1, Unstack
  <2>4. \A x \in Object : memory[x] = "dying" => rc'[x] = rc[x] BY <1>4, <1>9, <1>13
  <2>5. \A f \in ToSet(stack') : f \in ToSet(stack) /\ ~Is(f, "delete", "enter") BY <1>3, <1>11
  <2>6. \A f \in ToSet(stack) :
            /\ f.op = "free" => f \in ToSet(stack') \/ (f.at = "collect" /\ EmptyIn(heap, f.obj))
            /\ f.obj = Nil \/ tag'[f.obj] # "none" \/ \E g \in ToSet(stack') : g.obj = f.obj
    BY <1>3, <1>5, <1>11, <1>13, <2>1, <2>2 DEF o
  <2>7. called' \subseteq Object /\ tag' \in [Object -> {"none", "root", "dtor", "garbage"}]
    BY <1>1, <1>6, <2>1 DEF TypeInv
  <2>8. /\ \A x \in Object : tag'[x] = "dtor" => CollectingIn(ToSet(stack'), {"dtors", "called"})
        /\ \A x \in Object : tag'[x] = "garbage" => CollectingIn(ToSet(stack'), {"dtors", "called", "destroy"})
    BY <1>1, <1>12, <2>1 DEF GarbageOf
  <2> QED BY <1>6, <1>9, <1>10, <1>11, <2>1, <2>3, <2>4, <2>5, <2>6, <2>7, <2>8, CallsMove
<1>14. CASE Top.at = "delete"
  <2>1. memory' = [memory EXCEPT ![o] = "free"] /\ tag' = [tag EXCEPT ![o] = "none"] BY <1>14 DEF FreeDone, o
  <2>2. /\ memory' \in [Object -> {"free", "live", "dying", "null"}]
        /\ tag' \in [Object -> {"none", "root", "dtor", "garbage"}]
        /\ memory'[o] = "free" /\ tag'[o] = "none"
        /\ \A x \in Object : x # o => memory'[x] = memory[x] /\ tag'[x] = tag[x]
    BY <1>1, <1>4, <2>1 DEF TypeInv
  <2>3. memory[o] = "dying" /\ rc[o] = 1 BY <1>1, <1>4, <1>14 DEF MemoryOf
  <2>4. \A r \in Slot : heap[r] # o BY <1>1, <1>4, <2>3 DEF MemoryOf
  <2>5. \A f \in ToSet(st) : Holds(f) => f.obj # o
    <3>1. Cardinality(SlotsAt(heap, o)) = 0 BY <2>4, SlotsFinite
    <3>2. Cardinality(Holders(stack, o)) = Cardinality(Holders(st, o)) + 1 /\ Cardinality(Holders(st, o)) \in Nat
      BY <1>4, <1>7
    <3>3. Cardinality(Holders(st, o)) = 0 BY <1>1, <1>4, <2>3, <3>1, <3>2 DEF Exact
    <3> QED BY <1>3, <3>3, HolderCounts
  <2>6. StackInv'
    <3>1. Below(st, tag')
      <4>1. \A x : tag[x] \in {"none", "root"} => tag'[x] \in {"none", "root"} BY <1>1, <2>1 DEF TypeInv
      <4> QED BY <1>3, <4>1 DEF Below
    <3> QED BY <1>3, <1>6, <1>8, <3>1, Unstack
  <2>7. TypeInv' BY <1>1, <1>6, <1>9, <1>11, <2>2 DEF TypeInv
  <2>8. ASSUME NEW f \in ToSet(stack') PROVE CallOf(f, memory', rc', tag')
    <3>1. f \in Frames /\ CallOf(f, memory, rc, tag) /\ ~Is(f, "delete", "enter") BY <1>1, <1>3, <1>11, <2>8
    <3>2. /\ f.op \in {"delete", "destruct", "free", "full"} \/ Is(f, "collect", "called") => f.obj \in Object /\ f.obj # o
          /\ Holds(f) => f.obj \in Object /\ f.obj # o
      BY <1>11, <2>5, <2>8, <3>1, FrameTypes DEF Is
    <3> QED BY <2>2, <3>1, <3>2 DEF CallOf, Is
  <2>9. MemoryOf(heap', memory', rc', tag', ToSet(stack'))
    <3>1. \A by, x : x # o /\ FreedBy(ToSet(stack), by, x) => FreedBy(ToSet(stack'), by, x)
      BY <1>3, <1>11 DEF FreedBy, o
    <3> QED BY <1>1, <1>5, <1>6, <1>9, <2>2, <2>4, <3>1 DEF MemoryOf
  <2>10. GarbageOf(heap', tag', called', ToSet(stack'))
    <3>1. HasDestructor \subseteq Object BY GCAssumption
    <3>2. ASSUME NEW r \in Slot, NEW x \in Object, heap[r] = x, tag'[x] = "garbage"
          PROVE  Owner[r] \in Object /\ tag'[Owner[r]] = "garbage"
      <4>1. x # o /\ tag[x] = "garbage" BY <2>2, <3>2
      <4>2. Owner[r] \in Object /\ tag[Owner[r]] = "garbage" BY <1>1, <3>2, <4>1 DEF GarbageOf
      <4>3. Owner[r] # o BY <1>5, <3>2, GCAssumption DEF EmptyIn
      <4> QED BY <2>2, <4>2, <4>3
    <3>3. \A x \in Object : tag'[x] \in {"garbage", "dtor"} => tag[x] = tag'[x] BY <2>2
    <3> QED BY <1>1, <1>6, <1>12, <3>1, <3>2, <3>3 DEF GarbageOf
  <2>11. Exact(heap', stack', rc') BY <1>6, <1>10, <1>11, ExactMoves
  <2>12. ASSUME NEW T \in SUBSET Object, Anchors' \subseteq T, Closed(T)', NEW x \in Object, memory'[x] = "live"
         PROVE  x \in T
    <3> DEFINE U == T \cup {o}
    <3>1. /\ \A r \in Slot : heap'[r] # Nil /\ (Owner[r] = Global \/ (Owner[r] \in Object /\ memory'[Owner[r]] \in {"dying", "null"}))
                                  => heap'[r] \in T
          /\ \A f \in ToSet(stack') : f.obj # Nil => f.obj \in T
          /\ \A y \in Object : tag'[y] # "none" => y \in T
          /\ \A r \in Slot : Owner[r] \in T /\ memory'[Owner[r]] = "live" /\ heap'[r] # Nil => heap'[r] \in T
      BY <2>12, AnchorsIn, ClosedIs
    <3>2. U \in SUBSET Object BY <1>4
    <3>3. \A f \in ToSet(stack) : f.obj # Nil => f.obj \in U BY <1>3, <1>11, <3>1 DEF o
    <3>4. \A y \in Object : tag[y] # "none" => y \in U BY <2>2, <3>1
    <3>5. \A r \in Slot : heap[r] # Nil /\ (Owner[r] = Global \/ (Owner[r] \in Object /\ memory[Owner[r]] \in {"dying", "null"}))
              => heap[r] \in U
      <4> TAKE r \in Slot
      <4>1. Owner[r] = o => heap[r] = Nil BY <1>5 DEF EmptyIn
      <4> QED BY <1>6, <2>2, <3>1, <4>1
    <3>6. \A r \in Slot : Owner[r] \in U /\ memory[Owner[r]] = "live" /\ heap[r] # Nil => heap[r] \in U
      BY <1>6, <2>2, <2>3, <3>1
    <3> HIDE DEF U
    <3>7. Anchors \subseteq U /\ Closed(U) BY <3>2, <3>3, <3>4, <3>5, <3>6, AnchorsIn, ClosedIs
    <3>8. x # o /\ memory[x] = "live" BY <2>2, <2>12
    <3>9. x \in U BY <1>1, <3>2, <3>7, <3>8
    <3> QED BY <3>8, <3>9 DEF U
  <2> QED BY <2>6, <2>7, <2>8, <2>9, <2>10, <2>11, <2>12, InvNext
<1> QED BY <1>4, <1>13, <1>14
-----------------------------------------------------------------------------
(* The collector, and the destructors it calls.                             *)

LEMMA CollectMay ==
  ASSUME NEW st, NEW f, NEW g, MayCall(st, f), f.op = "collect", g.op = "collect"
  PROVE  MayCall(st, g)
BY DEF MayCall, Is

LEMMA CollectCyclesStep ==
  ASSUME IInv, Running, CollectCycles
  PROVE  IInv'
<1> DEFINE c == Collect(TRUE)
<1>1. /\ TypeInv /\ stack \in Seq(Frames) /\ StackInv /\ Order(stack) /\ Below(stack, tag)
      /\ \A f \in ToSet(stack) : f \in Frames
      /\ GarbageOf(heap, tag, called, ToSet(stack)) /\ GarbageInv
  BY InvIs DEF IInv
<1>2. /\ ~gc_active(stack) /\ stack' = Append(stack, c)
      /\ heap' = heap /\ memory' = memory /\ rc' = rc /\ tag' = tag /\ called' = called
  BY DEF CollectCycles
<1>3. c \in Frames /\ c.op = "collect" /\ c.at = "start" /\ c.obj = Nil /\ ~Holds(c)
  BY DEF Frames, Collect, Holds
<1> HIDE DEF c
<1>4. MayCall(stack, c) BY <1>2, <1>3 DEF MayCall, Is, Running, On, Top
<1>5. \A g \in ToSet(stack) : tag[g.obj] \in {"none", "root"}
  <2> TAKE g \in ToSet(stack)
  <2>1. g \in Frames /\ g.op # "collect" BY <1>1, <1>2, Active
  <2>2. g.obj \in Object BY <2>1, FrameTypes
  <2> QED BY <1>1, <1>2, <2>2, Quiet
<1>6. /\ StackInv' /\ stack' \in Seq(Frames) /\ ToSet(stack') = ToSet(stack) \cup {c}
      /\ \A x : Cardinality(Holders(stack', x)) = Cardinality(Holders(stack, x)) + (IF Holds(c) /\ c.obj = x THEN 1 ELSE 0)
  <2>1. ~Is(c, "delete", "called") /\ Below(stack, tag') /\ \A g \in ToSet(stack) : tag'[g.obj] \in {"none", "root"}
    BY <1>1, <1>2, <1>3, <1>5 DEF Is
  <2> QED BY <1>1, <1>2, <1>3, <1>4, <2>1, Restack
<1>7. \A x \in Object : rc'[x] = rc[x] + Cardinality(Holders(stack', x)) - Cardinality(Holders(stack, x))
  <2> TAKE x \in Object
  <2>1. Cardinality(Holders(stack', x)) = Cardinality(Holders(stack, x)) + 0 BY <1>3, <1>6
  <2>2. Cardinality(Holders(stack, x)) \in Nat /\ rc[x] \in Int BY <1>1, HoldersFinite DEF TypeInv
  <2> QED BY <1>2, <2>1, <2>2
<1>8. \A f \in ToSet(stack') : (f \in ToSet(stack) /\ ~Is(f, "delete", "enter")) \/ CallOf(f, memory, rc', tag')
  <2>1. \A f \in ToSet(stack) : CallOf(f, memory, rc, tag) BY InvIs
  <2>2. CallOf(c, memory, rc', tag') BY <1>3 DEF CallOf, Is
  <2> QED BY <1>2, <1>6, <2>1, <2>2
<1>9. \A f \in ToSet(stack) :
          /\ f.op = "free" => f \in ToSet(stack')
          /\ f.obj = Nil \/ tag'[f.obj] # "none" \/ \E g \in ToSet(stack') : g.obj = f.obj
  BY <1>6
<1>10. /\ \A x \in Object : tag'[x] = "dtor" => CollectingIn(ToSet(stack'), {"dtors", "called"})
       /\ \A x \in Object : tag'[x] = "garbage" => CollectingIn(ToSet(stack'), {"dtors", "called", "destroy"})
  BY <1>1, <1>2, Quiet
<1>11. /\ called' \subseteq Object /\ rc' \in [Object -> Int]
       /\ tag' \in [Object -> {"none", "root", "dtor", "garbage"}]
  BY <1>1, <1>2 DEF TypeInv
<1> QED BY <1>2, <1>6, <1>7, <1>8, <1>9, <1>10, <1>11, CallsMove

LEMMA FullReturnsStep ==
  ASSUME IInv, FullReturns
  PROVE  IInv'
<1> DEFINE o == Top.obj
           st == Front(stack)
           d == Delete(o)
<1>1. /\ TypeInv /\ stack \in Seq(Frames) /\ StackInv
      /\ \A f \in ToSet(stack) : f \in Frames /\ CallOf(f, memory, rc, tag)
      /\ GarbageOf(heap, tag, called, ToSet(stack))
      /\ Exact(heap, stack, rc)
  BY InvIs
<1>2. stack # <<>> /\ Top.op = "full" /\ Top.at = "wait" BY DEF FullReturns, On
<1>3. /\ Top \in Frames /\ st \in Seq(Frames) /\ stack = Append(st, Top)
      /\ ToSet(stack) = ToSet(st) \cup {Top} /\ Top \in ToSet(stack)
      /\ Order(st) /\ MayCall(st, Top) /\ Below(st, tag)
      /\ \A g \in ToSet(st) : g \in Frames /\ ~Is(g, "delete", "enter")
      /\ \A x : Cardinality(Holders(stack, x)) = Cardinality(Holders(st, x)) + (IF Holds(Top) /\ Top.obj = x THEN 1 ELSE 0)
  BY <1>1, <1>2, TopOn
<1>4. o \in Object /\ Holds(Top) /\ memory[o] = "live" /\ tag[o] # "garbage"
  <2>1. CallOf(Top, memory, rc, tag) BY <1>1, <1>3
  <2> QED BY <1>2, <1>3, <2>1, FrameTypes DEF CallOf, Is
<1>5. /\ heap' = heap /\ memory' = memory /\ called' = called /\ rc' = [rc EXCEPT ![o] = @ - 1]
      /\ IF rc[o] = 1
         THEN stack' = Append(st, d) /\ tag' = tag
         ELSE stack' = st /\ tag' = IF tag[o] = "none" THEN [tag EXCEPT ![o] = "root"] ELSE tag
  BY DEF FullReturns, Above
<1>6. d \in Frames /\ d.op = "delete" /\ d.at = "enter" /\ d.obj = o /\ ~Holds(d) BY <1>4, NewFrames DEF Is
<1>7. \A x \in Object : /\ Cardinality(Holders(stack, x)) = Cardinality(Holders(st, x)) + (IF o = x THEN 1 ELSE 0)
                        /\ Cardinality(Holders(st, x)) \in Nat
  BY <1>3, <1>4, HoldersFinite
<1>8. /\ rc' \in [Object -> Int] /\ rc'[o] = rc[o] - 1 /\ \A x \in Object : x # o => rc'[x] = rc[x]
  BY <1>1, <1>4, <1>5 DEF TypeInv
<1> HIDE DEF o, st, d
<1>9. st # <<>> /\ Is(Last(st), "delete", "called") => Last(st).obj = o BY <1>2, <1>3 DEF MayCall, o
<1>10. /\ ToSet(stack') \subseteq ToSet(st) \cup {d} /\ ToSet(st) \subseteq ToSet(stack') /\ stack' \in Seq(Frames) /\ StackInv'
       /\ d \in ToSet(stack') => rc[o] = 1
       /\ tag'[o] # "none" \/ \E g \in ToSet(stack') : g.obj = o
       /\ \A x \in Object : Cardinality(Holders(stack', x)) = Cardinality(Holders(st, x))
       /\ \A x \in Object : tag'[x] = tag[x] \/ (tag[x] = "none" /\ tag'[x] = "root" /\ x = o)
       /\ tag' \in [Object -> {"none", "root", "dtor", "garbage"}]
  <2>1. CASE rc[o] = 1
    <3>1. stack' = Append(st, d) /\ tag' = tag BY <1>5, <2>1
    <3>2. ~(st # <<>> /\ Is(Last(st), "delete", "called"))
      <4> SUFFICES ASSUME st # <<>>, Is(Last(st), "delete", "called") PROVE FALSE OBVIOUS
      <4>1. Last(st) \in ToSet(st) /\ Last(st) \in Frames /\ Last(st).obj = o BY <1>3, <1>9, LastIn
      <4>2. Holds(Last(st)) BY <4>1, FrameTypes
      <4>3. Cardinality(Holders(st, o)) # 0 BY <1>3, <4>1, <4>2, HolderCounts
      <4>4. rc[o] = Cardinality(SlotsAt(heap, o)) + Cardinality(Holders(stack, o)) BY <1>1, <1>4 DEF Exact
      <4>5. Cardinality(SlotsAt(heap, o)) \in Nat BY SlotsFinite
      <4>6. Cardinality(Holders(stack, o)) = Cardinality(Holders(st, o)) + 1 /\ Cardinality(Holders(st, o)) \in Nat
        BY <1>4, <1>7
      <4> QED BY <2>1, <4>3, <4>4, <4>5, <4>6
    <3>3. MayCall(st, d) BY <1>2, <1>3, <1>6, <3>2 DEF MayCall, Is
    <3>4. /\ StackInv' /\ stack' \in Seq(Frames) /\ ToSet(stack') = ToSet(st) \cup {d}
          /\ \A x : Cardinality(Holders(stack', x)) = Cardinality(Holders(st, x)) + (IF Holds(d) /\ d.obj = x THEN 1 ELSE 0)
      <4>1. Below(st, tag') /\ ~Is(d, "delete", "called") /\ d.op # "collect" BY <1>3, <1>6, <3>1 DEF Is
      <4> QED BY <1>3, <1>6, <3>1, <3>3, <4>1, Restack
    <3>5. \A x \in Object : Cardinality(Holders(stack', x)) = Cardinality(Holders(st, x)) BY <1>6, <1>7, <3>4
    <3> QED BY <1>1, <1>6, <2>1, <3>1, <3>4, <3>5 DEF TypeInv
  <2>2. CASE rc[o] # 1
    <3>1. stack' = st /\ tag' = IF tag[o] = "none" THEN [tag EXCEPT ![o] = "root"] ELSE tag BY <1>5, <2>2
    <3>2. /\ tag'[o] # "none" /\ \A x \in Object : tag'[x] = tag[x] \/ (tag[x] = "none" /\ tag'[x] = "root" /\ x = o)
          /\ tag' \in [Object -> {"none", "root", "dtor", "garbage"}]
          /\ \A x : tag[x] \in {"none", "root"} => tag'[x] \in {"none", "root"}
      BY <1>1, <1>4, <3>1 DEF TypeInv
    <3>3. Below(st, tag') BY <1>3, <3>2 DEF Below
    <3>4. st # <<>> => ~Is(Last(st), "delete", "called") \/ tag'[Last(st).obj] # "none" BY <1>9, <3>2
    <3>5. StackInv' BY <1>3, <3>1, <3>3, <3>4, Unstack
    <3>6. d \notin ToSet(st) BY <1>3, <1>6 DEF Is
    <3> QED BY <1>3, <3>1, <3>2, <3>5, <3>6
  <2> QED BY <2>1, <2>2
<1>11. \A x \in Object : rc'[x] = rc[x] + Cardinality(Holders(stack', x)) - Cardinality(Holders(stack, x))
  <2> TAKE x \in Object
  <2>1. rc[x] \in Int BY <1>1 DEF TypeInv
  <2>2. CASE o = x
    <3>1. Cardinality(Holders(stack, x)) = Cardinality(Holders(st, x)) + 1 BY <1>7, <2>2
    <3> QED BY <1>7, <1>8, <1>10, <2>1, <2>2, <3>1
  <2>3. CASE o # x
    <3>1. Cardinality(Holders(stack, x)) = Cardinality(Holders(st, x)) + 0 BY <1>7, <2>3
    <3> QED BY <1>7, <1>8, <1>10, <2>1, <2>3, <3>1
  <2> QED BY <2>2, <2>3
<1>12. \A x \in Object : memory[x] = "dying" => rc'[x] = rc[x] BY <1>4, <1>8
<1>13. \A f \in ToSet(stack') : (f \in ToSet(stack) /\ ~Is(f, "delete", "enter")) \/ CallOf(f, memory, rc', tag')
  <2> TAKE f \in ToSet(stack')
  <2>1. CASE f = d
    <3>1. rc'[o] = 0 BY <1>8, <1>10, <2>1
    <3> QED BY <1>4, <1>6, <2>1, <3>1 DEF CallOf, Is
  <2>2. CASE f \in ToSet(st) BY <1>3, <2>2
  <2> QED BY <1>10, <2>1, <2>2
<1>14. \A f \in ToSet(stack) :
          /\ f.op = "free" => f \in ToSet(stack')
          /\ f.obj = Nil \/ tag'[f.obj] # "none" \/ \E g \in ToSet(stack') : g.obj = f.obj
  BY <1>2, <1>3, <1>10 DEF o
<1>15. \A at : CollectingIn(ToSet(stack), at) => CollectingIn(ToSet(stack'), at)
  BY <1>2, <1>3, <1>10 DEF CollectingIn
<1>16. /\ \A x \in Object : tag'[x] = "dtor" => CollectingIn(ToSet(stack'), {"dtors", "called"})
       /\ \A x \in Object : tag'[x] = "garbage" => CollectingIn(ToSet(stack'), {"dtors", "called", "destroy"})
  BY <1>1, <1>10, <1>15 DEF GarbageOf
<1>17. \A x \in Object : tag'[x] = tag[x] \/ (tag[x] \in {"none", "dtor"} /\ tag'[x] = "root" /\ memory[x] # "free")
  BY <1>4, <1>10
<1>18. called' \subseteq Object BY <1>1, <1>5 DEF TypeInv
<1> QED BY <1>5, <1>8, <1>10, <1>11, <1>12, <1>13, <1>14, <1>16, <1>17, <1>18, CallsMove

\* While destructors are called or memory is released, the collection is on top
\* of calls that know nothing of it.
LEMMA CollectTop ==
  ASSUME IInv, stack # <<>>, Top.op = "collect"
  PROVE  LET st == Front(stack)
         IN  /\ Top \in Frames /\ st \in Seq(Frames) /\ stack = Append(st, Top)
             /\ ToSet(stack) = ToSet(st) \cup {Top} /\ Top \in ToSet(stack)
             /\ Order(st) /\ MayCall(st, Top) /\ Below(st, tag)
             /\ \A g \in ToSet(st) :
                    /\ g \in Frames /\ CallOf(g, memory, rc, tag)
                    /\ ~Is(g, "delete", "enter") /\ g.op # "collect" /\ ~Is(g, "free", "collect")
                    /\ g.obj \in Object /\ tag[g.obj] \in {"none", "root"} /\ Holds(g)
             /\ \A x : Cardinality(Holders(stack, x)) = Cardinality(Holders(st, x)) + (IF Holds(Top) /\ Top.obj = x THEN 1 ELSE 0)
             /\ \A x \in Object : memory[x] = "dying" => tag[x] \in {"none", "root"}
             /\ st # <<>> => ~Is(Last(st), "delete", "called")
<1> DEFINE st == Front(stack)
<1>1. /\ TypeInv /\ StackInv
      /\ \A f \in ToSet(stack) : f \in Frames /\ CallOf(f, memory, rc, tag)
      /\ MemoryOf(heap, memory, rc, tag, ToSet(stack))
  BY InvIs
<1>2. /\ Top \in Frames /\ st \in Seq(Frames) /\ stack = Append(st, Top)
      /\ ToSet(stack) = ToSet(st) \cup {Top} /\ Top \in ToSet(stack)
      /\ Order(st) /\ MayCall(st, Top) /\ Below(st, tag)
      /\ \A g \in ToSet(st) : tag[g.obj] \in {"none", "root"}
      /\ \A g \in ToSet(st) : /\ g \in Frames /\ ~Is(g, "delete", "enter")
                              /\ g.op # "collect" /\ ~Is(g, "free", "collect")
      /\ \A x : Cardinality(Holders(stack, x)) = Cardinality(Holders(st, x)) + (IF Holds(Top) /\ Top.obj = x THEN 1 ELSE 0)
  BY <1>1, TopOn
<1> HIDE DEF st
<1>3. \A g \in ToSet(st) : g.obj \in Object /\ Holds(g) BY <1>2, FrameTypes DEF Is
<1>4. \A x \in Object : memory[x] = "dying" => tag[x] \in {"none", "root"}
  <2> SUFFICES ASSUME NEW x \in Object, memory[x] = "dying" PROVE tag[x] \in {"none", "root"} OBVIOUS
  <2>1. PICK f \in ToSet(stack) : Is(f, "free", "delete") /\ f.obj = x BY <1>1 DEF MemoryOf, FreedBy
  <2>2. f \in ToSet(st) BY <1>2, <2>1 DEF Is
  <2> QED BY <1>2, <2>1, <2>2
<1>5. st # <<>> => ~Is(Last(st), "delete", "called") BY <1>2 DEF MayCall
<1> QED BY <1>1, <1>2, <1>3, <1>4, <1>5 DEF st

LEMMA CallDestructorStep ==
  ASSUME IInv, NEW o \in Object, CallDestructor(o)
  PROVE  IInv'
<1> DEFINE st == Front(stack)
           f1 == [Top EXCEPT !.at = "called", !.obj = o]
           f2 == Destruct(o)
           t == Append(st, f1)
<1>1. /\ TypeInv /\ stack \in Seq(Frames) /\ StackInv /\ Order(stack) /\ Below(stack, tag)
      /\ \A f \in ToSet(stack) : f \in Frames /\ CallOf(f, memory, rc, tag)
      /\ MemoryOf(heap, memory, rc, tag, ToSet(stack))
      /\ GarbageOf(heap, tag, called, ToSet(stack))
  BY InvIs
<1>2. /\ stack # <<>> /\ Top.op = "collect" /\ Top.at = "dtors" /\ tag[o] = "dtor"
      /\ tag' = [tag EXCEPT ![o] = "root"] /\ heap' = heap /\ memory' = memory
  BY DEF CallDestructor, On
<1>3. /\ Top \in Frames /\ st \in Seq(Frames) /\ stack = Append(st, Top)
      /\ ToSet(stack) = ToSet(st) \cup {Top} /\ Top \in ToSet(stack)
      /\ Order(st) /\ MayCall(st, Top) /\ Below(st, tag)
      /\ \A g \in ToSet(st) :
             /\ g \in Frames /\ ~Is(g, "delete", "enter") /\ g.op # "collect"
             /\ g.obj \in Object /\ tag[g.obj] \in {"none", "root"}
      /\ \A x : Cardinality(Holders(stack, x)) = Cardinality(Holders(st, x)) + (IF Holds(Top) /\ Top.obj = x THEN 1 ELSE 0)
      /\ \A x \in Object : memory[x] = "dying" => tag[x] \in {"none", "root"}
  BY <1>2, CollectTop
<1>4. memory[o] = "live" BY <1>1, <1>2, <1>3 DEF MemoryOf, TypeInv
<1>5. /\ tag' \in [Object -> {"none", "root", "dtor", "garbage"}] /\ tag'[o] = "root"
      /\ \A x \in Object : x # o => tag'[x] = tag[x]
      /\ \A x : tag[x] \in {"none", "root"} => tag'[x] \in {"none", "root"}
  BY <1>1, <1>2 DEF TypeInv
<1>6. /\ \A x \in Object : tag'[x] = tag[x] \/ (tag[x] \in {"none", "dtor"} /\ tag'[x] = "root" /\ memory[x] # "free")
  BY <1>2, <1>4, <1>5
<1>7. CASE o \in called
  <2>1. rc' = rc /\ called' = called /\ stack' = stack BY <1>7 DEF CallDestructor
  <2>2. StackInv'
    <3>1. Below(stack, tag') BY <1>1, <1>5 DEF Below
    <3>2. ~Is(Last(stack), "delete", "called") BY <1>2 DEF Is, Top
    <3> QED BY <1>1, <2>1, <3>1, <3>2, Unstack
  <2>3. \A x \in Object : rc'[x] = rc[x] + Cardinality(Holders(stack', x)) - Cardinality(Holders(stack, x))
    <3> TAKE x \in Object
    <3>1. Cardinality(Holders(stack, x)) \in Nat /\ rc[x] \in Int BY <1>1, HoldersFinite DEF TypeInv
    <3> QED BY <2>1, <3>1
  <2>4. \A f \in ToSet(stack') : f \in ToSet(stack) /\ ~Is(f, "delete", "enter") BY <1>2, <1>3, <2>1 DEF Is
  <2>5. \A f \in ToSet(stack) :
            /\ f.op = "free" => f \in ToSet(stack')
            /\ f.obj = Nil \/ tag'[f.obj] # "none" \/ \E g \in ToSet(stack') : g.obj = f.obj
    BY <2>1
  <2>6. /\ \A x \in Object : tag'[x] = "dtor" => CollectingIn(ToSet(stack'), {"dtors", "called"})
        /\ \A x \in Object : tag'[x] = "garbage" => CollectingIn(ToSet(stack'), {"dtors", "called", "destroy"})
    BY <1>1, <1>5, <2>1 DEF GarbageOf
  <2>7. rc' \in [Object -> Int] /\ called' \subseteq Object /\ stack' \in Seq(Frames) BY <1>1, <2>1 DEF TypeInv
  <2> QED BY <1>2, <1>5, <1>6, <2>1, <2>2, <2>3, <2>4, <2>5, <2>6, <2>7, CallsMove
<1>8. CASE o \notin called
  <2>1. called' = called \cup {o} /\ rc' = [rc EXCEPT ![o] = @ + 2] /\ stack' = Append(t, f2)
    BY <1>8 DEF CallDestructor, Above
  <2>2. /\ f1 \in Frames /\ f1.op = "collect" /\ f1.at = "called" /\ f1.obj = o /\ Holds(f1)
        /\ f2 \in Frames /\ f2.op = "destruct" /\ f2.at = "run" /\ f2.obj = o /\ Holds(f2)
        /\ ~Holds(Top)
    <3>1. f1 \in Frames /\ f1.op = "collect" /\ f1.at = "called" /\ f1.obj = o /\ Holds(f1)
      BY <1>2, <1>3, MovedFrames
    <3>2. f2 \in Frames /\ f2.op = "destruct" /\ f2.at = "run" /\ f2.obj = o /\ Holds(f2) BY NewFrames DEF Is
    <3>3. ~Holds(Top) BY <1>2 DEF Holds
    <3> QED BY <3>1, <3>2, <3>3
  <2> HIDE DEF st, f1, f2
  <2>3. /\ t \in Seq(Frames) /\ t # <<>> /\ Last(t) = f1 /\ ToSet(t) = ToSet(st) \cup {f1}
        /\ Order(t) <=> Order(st) /\ MayCall(st, f1)
        /\ \A tg : Below(t, tg) <=>
                      /\ Below(st, tg)
                      /\ f1.op = "collect" => \A g \in ToSet(st) : tg[g.obj] \in {"none", "root"}
        /\ \A x : Cardinality(Holders(t, x)) = Cardinality(Holders(st, x)) + (IF Holds(f1) /\ f1.obj = x THEN 1 ELSE 0)
    BY <1>3, <2>2, Push
  <2> HIDE DEF t
  <2>4. MayCall(st, f1) BY <1>2, <1>3, <2>2, CollectMay
  <2>5. Order(t) /\ Below(t, tag')
    <3> DEFINE tg == tag'
    <3>1. \A g \in ToSet(st) : tg[g.obj] \in {"none", "root"} BY <1>3, <1>5
    <3>2. Below(st, tg) BY <1>3, <1>5 DEF Below
    <3> HIDE DEF tg
    <3>3. Below(t, tg) BY <2>3, <3>1, <3>2
    <3> QED BY <1>3, <2>3, <2>4, <3>3 DEF tg
  <2>6. MayCall(t, f2) BY <2>2, <2>3 DEF MayCall, Is
  <2>7. /\ StackInv' /\ stack' \in Seq(Frames) /\ ToSet(stack') = ToSet(t) \cup {f2}
        /\ \A x : Cardinality(Holders(stack', x)) = Cardinality(Holders(t, x)) + (IF Holds(f2) /\ f2.obj = x THEN 1 ELSE 0)
    <3>1. f2.op # "collect" /\ ~Is(f2, "delete", "called") BY <2>2 DEF Is
    <3> QED BY <2>1, <2>2, <2>3, <2>5, <2>6, <3>1, Restack
  <2>8. ToSet(stack') = ToSet(st) \cup {f1, f2} BY <2>3, <2>7
  <2>9. /\ rc' \in [Object -> Int] /\ rc'[o] = rc[o] + 2 /\ \A x \in Object : x # o => rc'[x] = rc[x]
    BY <1>1, <2>1 DEF TypeInv
  <2>10. \A x \in Object : rc'[x] = rc[x] + Cardinality(Holders(stack', x)) - Cardinality(Holders(stack, x))
    <3> TAKE x \in Object
    <3>1. Cardinality(Holders(st, x)) \in Nat /\ rc[x] \in Int BY <1>1, <1>3, HoldersFinite DEF TypeInv
    <3>2. Cardinality(Holders(stack, x)) = Cardinality(Holders(st, x)) + 0 BY <1>3, <2>2
    <3>3. CASE x = o
      <4>1. Cardinality(Holders(t, x)) = Cardinality(Holders(st, x)) + 1 BY <2>2, <2>3, <3>3
      <4>2. Cardinality(Holders(stack', x)) = Cardinality(Holders(t, x)) + 1 BY <2>2, <2>7, <3>3
      <4> QED BY <2>9, <3>1, <3>2, <3>3, <4>1, <4>2
    <3>4. CASE x # o
      <4>1. /\ Cardinality(Holders(t, x)) = Cardinality(Holders(st, x)) + 0
            /\ Cardinality(Holders(stack', x)) = Cardinality(Holders(t, x)) + 0
        BY <2>2, <2>3, <2>7, <3>4
      <4> QED BY <2>9, <3>1, <3>2, <3>4, <4>1
    <3> QED BY <3>3, <3>4
  <2>11. \A x \in Object : memory[x] = "dying" => rc'[x] = rc[x] BY <1>4, <2>9
  <2>12. \A f \in ToSet(stack') : (f \in ToSet(stack) /\ ~Is(f, "delete", "enter")) \/ CallOf(f, memory, rc', tag')
    <3>1. CallOf(f1, memory, rc', tag') /\ CallOf(f2, memory, rc', tag') BY <1>4, <1>5, <2>2 DEF CallOf, Is
    <3> QED BY <1>3, <2>8, <3>1
  <2>13. \A f \in ToSet(stack) :
            /\ f.op = "free" => f \in ToSet(stack')
            /\ f.obj = Nil \/ tag'[f.obj] # "none" \/ \E g \in ToSet(stack') : g.obj = f.obj
    <3>1. Top.obj = Nil BY <1>2, <1>3, FrameTypes
    <3> QED BY <1>2, <1>3, <2>8, <3>1
  <2>14. \A at : CollectingIn(ToSet(stack'), {"dtors", "called"}) /\ CollectingIn(ToSet(stack'), {"dtors", "called", "destroy"})
    BY <2>2, <2>8 DEF CollectingIn
  <2>15. called \subseteq called' /\ called' \subseteq Object BY <1>1, <2>1 DEF TypeInv
  <2> QED BY <1>2, <1>5, <1>6, <2>7, <2>9, <2>10, <2>11, <2>12, <2>13, <2>14, <2>15, CallsMove
<1> QED BY <1>7, <1>8

LEMMA CalledStep ==
  ASSUME IInv, Called
  PROVE  IInv'
<1> DEFINE o == Top.obj
           st == Front(stack)
           f1 == [Top EXCEPT !.at = "dtors", !.obj = Nil]
<1>1. /\ TypeInv /\ stack \in Seq(Frames)
      /\ \A f \in ToSet(stack) : f \in Frames /\ CallOf(f, memory, rc, tag)
      /\ GarbageOf(heap, tag, called, ToSet(stack))
  BY InvIs
<1>2. /\ stack # <<>> /\ Top.op = "collect" /\ Top.at = "called"
      /\ rc' = [rc EXCEPT ![o] = @ - 1] /\ stack' = Append(st, f1)
      /\ heap' = heap /\ memory' = memory /\ tag' = tag /\ called' = called
  BY DEF Called, On, Above
<1>3. /\ Top \in Frames /\ st \in Seq(Frames) /\ stack = Append(st, Top)
      /\ ToSet(stack) = ToSet(st) \cup {Top} /\ Top \in ToSet(stack)
      /\ Order(st) /\ MayCall(st, Top) /\ Below(st, tag)
      /\ \A g \in ToSet(st) :
             g \in Frames /\ ~Is(g, "delete", "enter") /\ tag[g.obj] \in {"none", "root"}
      /\ \A x : Cardinality(Holders(stack, x)) = Cardinality(Holders(st, x)) + (IF Holds(Top) /\ Top.obj = x THEN 1 ELSE 0)
  BY <1>2, CollectTop
<1>4. /\ o \in Object /\ Holds(Top) /\ memory[o] = "live" /\ tag[o] = "root"
  <2>1. CallOf(Top, memory, rc, tag) BY <1>1, <1>3
  <2> QED BY <1>2, <1>3, <2>1, FrameTypes DEF CallOf, Is
<1>5. f1 \in Frames /\ f1.op = "collect" /\ f1.at = "dtors" /\ f1.obj = Nil /\ ~Holds(f1)
  BY <1>2, <1>3, MovedFrames
<1> HIDE DEF o, st, f1
<1>6. MayCall(st, f1) BY <1>2, <1>3, <1>5, CollectMay
<1>7. /\ StackInv' /\ stack' \in Seq(Frames) /\ ToSet(stack') = ToSet(st) \cup {f1}
      /\ \A x : Cardinality(Holders(stack', x)) = Cardinality(Holders(st, x)) + (IF Holds(f1) /\ f1.obj = x THEN 1 ELSE 0)
  <2>1. Below(st, tag') /\ ~Is(f1, "delete", "called") /\ \A g \in ToSet(st) : tag'[g.obj] \in {"none", "root"}
    BY <1>2, <1>3, <1>5 DEF Is
  <2> QED BY <1>2, <1>3, <1>5, <1>6, <2>1, Restack
<1>8. /\ rc' \in [Object -> Int] /\ rc'[o] = rc[o] - 1 /\ \A x \in Object : x # o => rc'[x] = rc[x]
  BY <1>1, <1>2, <1>4 DEF TypeInv
<1>9. \A x \in Object : rc'[x] = rc[x] + Cardinality(Holders(stack', x)) - Cardinality(Holders(stack, x))
  <2> TAKE x \in Object
  <2>1. Cardinality(Holders(st, x)) \in Nat /\ rc[x] \in Int BY <1>1, <1>3, HoldersFinite DEF TypeInv
  <2>2. Cardinality(Holders(stack', x)) = Cardinality(Holders(st, x)) + 0 BY <1>5, <1>7
  <2>3. CASE x = o
    <3>1. Cardinality(Holders(stack, x)) = Cardinality(Holders(st, x)) + 1 BY <1>3, <1>4, <2>3 DEF o
    <3> QED BY <1>8, <2>1, <2>2, <2>3, <3>1
  <2>4. CASE x # o
    <3>1. Cardinality(Holders(stack, x)) = Cardinality(Holders(st, x)) + 0 BY <1>3, <2>4 DEF o
    <3> QED BY <1>8, <2>1, <2>2, <2>4, <3>1
  <2> QED BY <2>3, <2>4
<1>10. \A x \in Object : memory[x] = "dying" => rc'[x] = rc[x] BY <1>4, <1>8
<1>11. \A f \in ToSet(stack') : (f \in ToSet(stack) /\ ~Is(f, "delete", "enter")) \/ CallOf(f, memory, rc', tag')
  <2>1. CallOf(f1, memory, rc', tag') BY <1>5 DEF CallOf, Is
  <2> QED BY <1>3, <1>7, <2>1
<1>12. \A f \in ToSet(stack) :
          /\ f.op = "free" => f \in ToSet(stack')
          /\ f.obj = Nil \/ tag'[f.obj] # "none" \/ \E g \in ToSet(stack') : g.obj = f.obj
  BY <1>2, <1>3, <1>4, <1>7 DEF o
<1>13. /\ CollectingIn(ToSet(stack'), {"dtors", "called"}) /\ CollectingIn(ToSet(stack'), {"dtors", "called", "destroy"})
  BY <1>5, <1>7 DEF CollectingIn
<1>14. called' \subseteq Object /\ tag' \in [Object -> {"none", "root", "dtor", "garbage"}] BY <1>1, <1>2 DEF TypeInv
<1> QED BY <1>2, <1>7, <1>8, <1>9, <1>10, <1>11, <1>12, <1>13, <1>14, CallsMove

LEMMA DestructorsCalledStep ==
  ASSUME IInv, DestructorsCalled
  PROVE  IInv'
<1> DEFINE st == Front(stack)
           f1 == [Top EXCEPT !.at = "destroy"]
<1>1. /\ TypeInv /\ stack \in Seq(Frames)
      /\ GarbageOf(heap, tag, called, ToSet(stack))
  BY InvIs
<1>2. /\ stack # <<>> /\ Top.op = "collect" /\ Top.at = "dtors" /\ Tagged("dtor") = {}
      /\ stack' = Append(st, f1)
      /\ heap' = heap /\ memory' = memory /\ rc' = rc /\ tag' = tag /\ called' = called
  BY DEF DestructorsCalled, On, Goto, Above
<1>3. /\ Top \in Frames /\ st \in Seq(Frames) /\ stack = Append(st, Top)
      /\ ToSet(stack) = ToSet(st) \cup {Top} /\ Top \in ToSet(stack)
      /\ Order(st) /\ MayCall(st, Top) /\ Below(st, tag)
      /\ \A g \in ToSet(st) :
             g \in Frames /\ ~Is(g, "delete", "enter") /\ tag[g.obj] \in {"none", "root"}
      /\ \A x : Cardinality(Holders(stack, x)) = Cardinality(Holders(st, x)) + (IF Holds(Top) /\ Top.obj = x THEN 1 ELSE 0)
  BY <1>2, CollectTop
<1>4. Top.obj = Nil /\ ~Holds(Top) BY <1>2, <1>3, FrameTypes DEF Holds
<1>5. f1 \in Frames /\ f1.op = "collect" /\ f1.at = "destroy" /\ f1.obj = Nil /\ ~Holds(f1)
  BY <1>2, <1>3, MovedFrames
<1> HIDE DEF st, f1
<1>6. MayCall(st, f1) BY <1>2, <1>3, <1>5, CollectMay
<1>7. /\ StackInv' /\ stack' \in Seq(Frames) /\ ToSet(stack') = ToSet(st) \cup {f1}
      /\ \A x : Cardinality(Holders(stack', x)) = Cardinality(Holders(st, x)) + (IF Holds(f1) /\ f1.obj = x THEN 1 ELSE 0)
  <2>1. Below(st, tag') /\ ~Is(f1, "delete", "called") /\ \A g \in ToSet(st) : tag'[g.obj] \in {"none", "root"}
    BY <1>2, <1>3, <1>5 DEF Is
  <2> QED BY <1>2, <1>3, <1>5, <1>6, <2>1, Restack
<1>8. \A x \in Object : rc'[x] = rc[x] + Cardinality(Holders(stack', x)) - Cardinality(Holders(stack, x))
  <2> TAKE x \in Object
  <2>1. Cardinality(Holders(st, x)) \in Nat /\ rc[x] \in Int BY <1>1, <1>3, HoldersFinite DEF TypeInv
  <2>2. /\ Cardinality(Holders(stack', x)) = Cardinality(Holders(st, x)) + 0
        /\ Cardinality(Holders(stack, x)) = Cardinality(Holders(st, x)) + 0
    BY <1>3, <1>4, <1>5, <1>7
  <2> QED BY <1>2, <2>1, <2>2
<1>9. \A f \in ToSet(stack') : (f \in ToSet(stack) /\ ~Is(f, "delete", "enter")) \/ CallOf(f, memory, rc', tag')
  <2>1. CallOf(f1, memory, rc', tag') BY <1>5 DEF CallOf, Is
  <2> QED BY <1>3, <1>7, <2>1
<1>10. \A f \in ToSet(stack) :
          /\ f.op = "free" => f \in ToSet(stack')
          /\ f.obj = Nil \/ tag'[f.obj] # "none" \/ \E g \in ToSet(stack') : g.obj = f.obj
  BY <1>2, <1>3, <1>4, <1>7
<1>11. /\ \A x \in Object : tag'[x] # "dtor"
       /\ CollectingIn(ToSet(stack'), {"dtors", "called", "destroy"})
  BY <1>2, <1>5, <1>7 DEF CollectingIn, Tagged
<1>12. called' \subseteq Object /\ tag' \in [Object -> {"none", "root", "dtor", "garbage"}] /\ rc' \in [Object -> Int]
  BY <1>1, <1>2 DEF TypeInv
<1> QED BY <1>2, <1>7, <1>8, <1>9, <1>10, <1>11, <1>12, CallsMove

LEMMA DestroyStep ==
  ASSUME IInv, NEW o \in Object, Destroy(o)
  PROVE  IInv'
<1> DEFINE st == Front(stack)
           f1 == Free(o, "collect")
<1>1. /\ TypeInv /\ stack \in Seq(Frames) /\ Order(stack) /\ Below(stack, tag)
      /\ \A f \in ToSet(stack) : f \in Frames /\ CallOf(f, memory, rc, tag)
      /\ MemoryOf(heap, memory, rc, tag, ToSet(stack))
      /\ GarbageOf(heap, tag, called, ToSet(stack))
      /\ \A T \in SUBSET Object : Anchors \subseteq T /\ Closed(T) => \A x \in Object : memory[x] = "live" => x \in T
  BY InvIs
<1>2. /\ stack # <<>> /\ Top.op = "collect" /\ Top.at = "destroy" /\ tag[o] = "garbage" /\ memory[o] = "live"
      /\ memory' = [memory EXCEPT ![o] = "null"] /\ rc' = [rc EXCEPT ![o] = @ + 1]
      /\ stack' = Append(stack, f1) /\ heap' = heap /\ tag' = tag /\ called' = called
  BY DEF Destroy, On
<1>3. /\ Top \in Frames /\ ToSet(stack) = ToSet(st) \cup {Top}
      /\ \A g \in ToSet(st) :
             /\ g \in Frames /\ ~Is(g, "delete", "enter")
             /\ g.obj \in Object /\ tag[g.obj] \in {"none", "root"}
  BY <1>2, CollectTop
<1>4. f1 \in Frames /\ f1.op = "free" /\ f1.at = "collect" /\ f1.obj = o /\ Holds(f1) BY NewFrames DEF Is
<1> HIDE DEF f1, st
<1>5. MayCall(stack, f1) BY <1>2, <1>4 DEF MayCall, Is, Top
<1>6. /\ StackInv' /\ stack' \in Seq(Frames) /\ ToSet(stack') = ToSet(stack) \cup {f1}
      /\ \A x : Cardinality(Holders(stack', x)) = Cardinality(Holders(stack, x)) + (IF Holds(f1) /\ f1.obj = x THEN 1 ELSE 0)
  <2>1. Below(stack, tag') /\ ~Is(f1, "delete", "called") /\ f1.op # "collect" BY <1>1, <1>2, <1>4 DEF Is
  <2> QED BY <1>1, <1>2, <1>4, <1>5, <2>1, Restack
<1>7. /\ rc' \in [Object -> Int] /\ rc'[o] = rc[o] + 1 /\ \A x \in Object : x # o => rc'[x] = rc[x]
      /\ memory' \in [Object -> {"free", "live", "dying", "null"}] /\ memory'[o] = "null"
      /\ \A x \in Object : x # o => memory'[x] = memory[x]
  BY <1>1, <1>2 DEF TypeInv
<1>8. \A x \in Object : rc'[x] = rc[x] + Cardinality(Holders(stack', x)) - Cardinality(Holders(stack, x))
  <2> TAKE x \in Object
  <2>1. Cardinality(Holders(stack, x)) \in Nat /\ rc[x] \in Int BY <1>1, HoldersFinite DEF TypeInv
  <2>2. CASE x = o
    <3>1. Cardinality(Holders(stack', x)) = Cardinality(Holders(stack, x)) + 1 BY <1>4, <1>6, <2>2
    <3> QED BY <1>7, <2>1, <2>2, <3>1
  <2>3. CASE x # o
    <3>1. Cardinality(Holders(stack', x)) = Cardinality(Holders(stack, x)) + 0 BY <1>4, <1>6, <2>3
    <3> QED BY <1>7, <2>1, <2>3, <3>1
  <2> QED BY <2>2, <2>3
<1>9. Exact(heap', stack', rc') BY <1>2, <1>6, <1>8, ExactMoves
<1>10. TypeInv' BY <1>1, <1>2, <1>6, <1>7 DEF TypeInv
\* No call relies on the garbage.
<1>11. ASSUME NEW f \in ToSet(stack') PROVE CallOf(f, memory', rc', tag')
  <2>1. CASE f = f1 BY <1>4, <1>7, <2>1 DEF CallOf, Is
  <2>2. CASE f = Top BY <1>2, <2>2 DEF CallOf, Is, Holds
  <2>3. CASE f \in ToSet(st)
    <3>1. /\ CallOf(f, memory, rc, tag) /\ ~Is(f, "delete", "enter") /\ f.obj \in Object /\ f.obj # o
      BY <1>1, <1>2, <1>3, <2>3
    <3> QED BY <1>2, <1>7, <3>1 DEF CallOf
  <2> QED BY <1>3, <1>6, <2>1, <2>2, <2>3
<1>12. MemoryOf(heap', memory', rc', tag', ToSet(stack'))
  <2>1. \A by, x : FreedBy(ToSet(stack), by, x) => FreedBy(ToSet(stack'), by, x) BY <1>6 DEF FreedBy
  <2>2. FreedBy(ToSet(stack'), "collect", o) BY <1>4, <1>6 DEF FreedBy, Is
  <2> QED BY <1>1, <1>2, <1>7, <2>1, <2>2 DEF MemoryOf
<1>13. GarbageOf(heap', tag', called', ToSet(stack'))
  <2>1. \A at : CollectingIn(ToSet(stack), at) => CollectingIn(ToSet(stack'), at) BY <1>6 DEF CollectingIn
  <2>2. HasDestructor \subseteq Object BY GCAssumption
  <2> QED BY <1>1, <1>2, <2>1, <2>2 DEF GarbageOf
<1>14. ASSUME NEW T \in SUBSET Object, Anchors' \subseteq T, Closed(T)', NEW x \in Object, memory'[x] = "live"
       PROVE  x \in T
  <2>1. /\ \A r \in Slot : heap'[r] # Nil /\ (Owner[r] = Global \/ (Owner[r] \in Object /\ memory'[Owner[r]] \in {"dying", "null"}))
                                => heap'[r] \in T
        /\ \A f \in ToSet(stack') : f.obj # Nil => f.obj \in T
        /\ \A y \in Object : tag'[y] # "none" => y \in T
        /\ \A r \in Slot : Owner[r] \in T /\ memory'[Owner[r]] = "live" /\ heap'[r] # Nil => heap'[r] \in T
    BY <1>14, AnchorsIn, ClosedIs
  <2>2. \A r \in Slot : heap[r] # Nil /\ (Owner[r] = Global \/ (Owner[r] \in Object /\ memory[Owner[r]] \in {"dying", "null"}))
            => heap[r] \in T
    BY <1>2, <1>7, <2>1
  <2>3. \A r \in Slot : Owner[r] \in T /\ memory[Owner[r]] = "live" /\ heap[r] # Nil => heap[r] \in T
    BY <1>2, <1>7, <2>1
  <2>4. Anchors \subseteq T /\ Closed(T) BY <1>2, <1>6, <2>1, <2>2, <2>3, AnchorsIn, ClosedIs
  <2>5. memory[x] = "live" BY <1>7, <1>14
  <2> QED BY <1>1, <2>4, <2>5
<1> QED BY <1>6, <1>9, <1>10, <1>11, <1>12, <1>13, <1>14, InvNext

\* What is reclaimed is released, holds nothing and is held by nothing.
LEMMA ReclaimStep ==
  ASSUME IInv, Reclaim
  PROVE  IInv'
<1> DEFINE st == Front(stack)
           c == Collect(FALSE)
<1>1. /\ TypeInv /\ stack \in Seq(Frames)
      /\ MemoryOf(heap, memory, rc, tag, ToSet(stack))
      /\ GarbageOf(heap, tag, called, ToSet(stack))
      /\ \A T \in SUBSET Object : Anchors \subseteq T /\ Closed(T) => \A x \in Object : memory[x] = "live" => x \in T
  BY InvIs
<1>2. /\ stack # <<>> /\ Top.op = "collect" /\ Top.at = "destroy"
      /\ Tagged("garbage") \cap Memory("live") = {}
      /\ memory' = [x \in Object |-> IF x \in Tagged("garbage") THEN "free" ELSE memory[x]]
      /\ tag' = [x \in Object |-> IF x \in Tagged("garbage") THEN "none" ELSE tag[x]]
      /\ stack' = Append(st, c) \/ stack' = st
      /\ heap' = heap /\ rc' = rc /\ called' = called
  BY DEF Reclaim, On
<1>3. /\ Top \in Frames /\ st \in Seq(Frames) /\ stack = Append(st, Top)
      /\ ToSet(stack) = ToSet(st) \cup {Top} /\ Top \in ToSet(stack)
      /\ Order(st) /\ MayCall(st, Top) /\ Below(st, tag)
      /\ \A g \in ToSet(st) :
             /\ g \in Frames /\ CallOf(g, memory, rc, tag)
             /\ ~Is(g, "delete", "enter") /\ g.op # "collect" /\ ~Is(g, "free", "collect")
             /\ g.obj \in Object /\ tag[g.obj] \in {"none", "root"}
      /\ \A x : Cardinality(Holders(stack, x)) = Cardinality(Holders(st, x)) + (IF Holds(Top) /\ Top.obj = x THEN 1 ELSE 0)
      /\ \A x \in Object : memory[x] = "dying" => tag[x] \in {"none", "root"}
      /\ st # <<>> => ~Is(Last(st), "delete", "called")
  BY <1>2, CollectTop
<1>4. Top.obj = Nil /\ ~Holds(Top) BY <1>2, <1>3, FrameTypes DEF Holds
<1>5. c \in Frames /\ c.op = "collect" /\ c.at = "start" /\ c.obj = Nil /\ ~Holds(c)
  BY DEF Frames, Collect, Holds
<1> HIDE DEF st, c
<1>6. /\ \A x \in Object : tag[x] = "garbage" <=> memory[x] = "null"
      /\ \A x \in Object : memory[x] = "null" => EmptyIn(heap, x)
      /\ \A x \in Object : tag[x] # "dtor"
  <2>1. \A x \in Object : memory[x] = "null" => ~FreedBy(ToSet(stack), "collect", x)
    BY <1>2, <1>3 DEF FreedBy, Is
  <2>2. \A x \in Object : tag[x] = "garbage" => memory[x] = "null"
    <3> TAKE x \in Object
    <3> HAVE tag[x] = "garbage"
    <3>1. memory[x] # "live" BY <1>2 DEF Tagged, Memory
    <3>2. memory[x] # "free" BY <1>1 DEF MemoryOf
    <3>3. memory[x] # "dying" BY <1>3
    <3> QED BY <1>1, <3>1, <3>2, <3>3 DEF TypeInv
  <2>3. ~CollectingIn(ToSet(stack), {"dtors", "called"}) BY <1>2, <1>3 DEF CollectingIn
  <2> QED BY <1>1, <2>1, <2>2, <2>3 DEF MemoryOf, GarbageOf
<1>7. \A r \in Slot : \A x \in Object : heap[r] = x => tag[x] # "garbage"
  <2> SUFFICES ASSUME NEW r \in Slot, NEW x \in Object, heap[r] = x, tag[x] = "garbage" PROVE FALSE OBVIOUS
  <2>1. Owner[r] \in Object /\ tag[Owner[r]] = "garbage" BY <1>1 DEF GarbageOf
  <2>2. heap[r] = Nil BY <1>6, <2>1 DEF EmptyIn
  <2> QED BY <2>2, GCAssumption
<1>8. /\ memory' \in [Object -> {"free", "live", "dying", "null"}]
      /\ tag' \in [Object -> {"none", "root", "dtor", "garbage"}]
      /\ \A x \in Object : tag[x] = "garbage" => memory'[x] = "free" /\ tag'[x] = "none"
      /\ \A x \in Object : tag[x] # "garbage" => memory'[x] = memory[x] /\ tag'[x] = tag[x]
  BY <1>1, <1>2 DEF TypeInv, Tagged
<1>9. \A g \in ToSet(st) : memory'[g.obj] = memory[g.obj] /\ tag'[g.obj] = tag[g.obj]
  BY <1>3, <1>8
<1>10. Below(st, tag')
  <2>1. DOMAIN st = 1 .. Len(st) /\ Len(st) \in Nat BY <1>3, LenProperties
  <2>2. \A i \in DOMAIN st : \A j \in 1 .. i - 1 : st[j] \in ToSet(st) BY <2>1 DEF ToSet
  <2> QED BY <1>3, <1>9, <2>2 DEF Below
<1>11. /\ StackInv' /\ stack' \in Seq(Frames)
       /\ ToSet(stack') \in {ToSet(st) \cup {c}, ToSet(st)}
       /\ \A x \in Object : Cardinality(Holders(stack', x)) = Cardinality(Holders(st, x))
  <2>1. CASE stack' = Append(st, c)
    <3>1. MayCall(st, c) BY <1>2, <1>3, <1>5, CollectMay
    <3>2. \A g \in ToSet(st) : tag'[g.obj] \in {"none", "root"} BY <1>3, <1>9
    <3>3. ~Is(c, "delete", "called") BY <1>5 DEF Is
    <3>4. /\ StackInv' /\ stack' \in Seq(Frames) /\ ToSet(stack') = ToSet(st) \cup {c}
          /\ \A x : Cardinality(Holders(stack', x)) = Cardinality(Holders(st, x)) + (IF Holds(c) /\ c.obj = x THEN 1 ELSE 0)
      BY <1>3, <1>5, <1>10, <2>1, <3>1, <3>2, <3>3, Restack
    <3>5. \A x \in Object : Cardinality(Holders(stack', x)) = Cardinality(Holders(st, x))
      <4>1. \A x \in Object : Cardinality(Holders(stack', x)) = Cardinality(Holders(st, x)) + 0 BY <1>5, <3>4
      <4> QED BY <1>3, <4>1, HoldersFinite
    <3> QED BY <3>4, <3>5
  <2>2. CASE stack' = st
    <3>1. StackInv' BY <1>3, <1>10, <2>2, Unstack
    <3> QED BY <1>3, <2>2, <3>1
  <2> QED BY <1>2, <2>1, <2>2
<1>12. \A x \in Object : rc'[x] = rc[x] + Cardinality(Holders(stack', x)) - Cardinality(Holders(stack, x))
  <2> TAKE x \in Object
  <2>1. Cardinality(Holders(st, x)) \in Nat /\ rc[x] \in Int BY <1>1, <1>3, HoldersFinite DEF TypeInv
  <2>2. Cardinality(Holders(stack, x)) = Cardinality(Holders(st, x)) + 0 BY <1>3, <1>4
  <2> QED BY <1>2, <1>11, <2>1, <2>2
<1>13. Exact(heap', stack', rc') BY <1>2, <1>11, <1>12, ExactMoves
<1>14. TypeInv' BY <1>1, <1>2, <1>8, <1>11 DEF TypeInv
<1>15. ASSUME NEW f \in ToSet(stack') PROVE CallOf(f, memory', rc', tag')
  <2>1. CASE f \in ToSet(st)
    <3>1. CallOf(f, memory, rc, tag) /\ memory'[f.obj] = memory[f.obj] /\ tag'[f.obj] = tag[f.obj] BY <1>3, <1>9, <2>1
    <3> QED BY <1>2, <3>1 DEF CallOf
  <2>2. CASE f = c BY <1>5, <2>2 DEF CallOf, Is
  <2> QED BY <1>11, <2>1, <2>2
<1>16. MemoryOf(heap', memory', rc', tag', ToSet(stack'))
  <2>1. \A x \in Object : FreedBy(ToSet(stack), "delete", x) => FreedBy(ToSet(stack'), "delete", x)
    BY <1>2, <1>3, <1>11 DEF FreedBy, Is
  <2> QED BY <1>1, <1>2, <1>6, <1>7, <1>8, <2>1 DEF MemoryOf
<1>17. GarbageOf(heap', tag', called', ToSet(stack'))
  <2>1. \A x \in Object : tag'[x] \notin {"garbage", "dtor"} BY <1>6, <1>8
  <2>2. HasDestructor \subseteq Object BY GCAssumption
  <2> QED BY <2>1, <2>2 DEF GarbageOf
<1>18. ASSUME NEW T \in SUBSET Object, Anchors' \subseteq T, Closed(T)', NEW x \in Object, memory'[x] = "live"
       PROVE  x \in T
  <2> DEFINE U == T \cup {y \in Object : tag[y] = "garbage"}
  <2>1. /\ \A r \in Slot : heap'[r] # Nil /\ (Owner[r] = Global \/ (Owner[r] \in Object /\ memory'[Owner[r]] \in {"dying", "null"}))
                                => heap'[r] \in T
        /\ \A f \in ToSet(stack') : f.obj # Nil => f.obj \in T
        /\ \A y \in Object : tag'[y] # "none" => y \in T
        /\ \A r \in Slot : Owner[r] \in T /\ memory'[Owner[r]] = "live" /\ heap'[r] # Nil => heap'[r] \in T
    BY <1>18, AnchorsIn, ClosedIs
  <2>2. U \in SUBSET Object OBVIOUS
  <2>3. \A f \in ToSet(stack) : f.obj # Nil => f.obj \in U BY <1>3, <1>4, <1>11, <2>1
  <2>4. \A y \in Object : tag[y] # "none" => y \in U BY <1>8, <2>1
  <2>5. \A r \in Slot : heap[r] # Nil /\ (Owner[r] = Global \/ (Owner[r] \in Object /\ memory[Owner[r]] \in {"dying", "null"}))
            => heap[r] \in U
    <3> TAKE r \in Slot
    <3>1. Owner[r] \in Object /\ memory[Owner[r]] = "null" => heap[r] = Nil BY <1>6 DEF EmptyIn
    <3>2. Owner[r] \in Object /\ memory[Owner[r]] = "dying" => memory'[Owner[r]] = "dying" BY <1>6, <1>8
    <3> QED BY <1>2, <2>1, <3>1, <3>2
  <2>6. \A r \in Slot : Owner[r] \in U /\ memory[Owner[r]] = "live" /\ heap[r] # Nil => heap[r] \in U
    <3> TAKE r \in Slot
    <3>1. ASSUME Owner[r] \in U, memory[Owner[r]] = "live"
          PROVE  Owner[r] \in T /\ memory'[Owner[r]] = "live"
      BY <1>6, <1>8, <3>1, <2>2
    <3> QED BY <1>2, <2>1, <3>1
  <2> HIDE DEF U
  <2>7. Anchors \subseteq U /\ Closed(U) BY <2>2, <2>3, <2>4, <2>5, <2>6, AnchorsIn, ClosedIs
  <2>8. tag[x] # "garbage" /\ memory[x] = "live" BY <1>8, <1>18
  <2>9. x \in U BY <1>1, <2>2, <2>7, <2>8
  <2> QED BY <2>8, <2>9 DEF U
<1> QED BY <1>11, <1>13, <1>14, <1>15, <1>16, <1>17, <1>18, InvNext
-----------------------------------------------------------------------------
(* What a trace finds.                                                      *)

\* When a collection starts nothing is condemned, and the calls around it hold
\* their objects.
LEMMA AtStart ==
  ASSUME IInv, On("collect", "start")
  PROVE  /\ \A x \in Object : tag[x] \in {"none", "root"} /\ memory[x] # "null"
         /\ Top.obj = Nil
         /\ \A f \in ToSet(Front(stack)) : Holds(f) /\ f.obj \in Object
<1> DEFINE st == Front(stack)
<1>1. /\ TypeInv /\ MemoryOf(heap, memory, rc, tag, ToSet(stack))
      /\ GarbageOf(heap, tag, called, ToSet(stack))
  BY InvIs
<1>2. stack # <<>> /\ Top.op = "collect" /\ Top.at = "start" BY DEF On
<1>3. /\ Top \in Frames /\ ToSet(stack) = ToSet(st) \cup {Top}
      /\ \A g \in ToSet(st) :
             Holds(g) /\ g.op # "collect" /\ g.obj \in Object
  BY <1>2, CollectTop
<1> HIDE DEF st
<1>4. Top.obj = Nil BY <1>2, <1>3, FrameTypes
<1>5. ~CollectingIn(ToSet(stack), {"dtors", "called"}) /\ ~CollectingIn(ToSet(stack), {"dtors", "called", "destroy"})
  BY <1>2, <1>3 DEF CollectingIn
<1>6. \A x \in Object : tag[x] \in {"none", "root"} BY <1>1, <1>5 DEF GarbageOf, TypeInv
<1>7. \A x \in Object : memory[x] # "null" BY <1>1, <1>6 DEF MemoryOf
<1> QED BY <1>3, <1>4, <1>6, <1>7 DEF st

\* White objects are live, held by no call, and by slots of white objects only.
LEMMA WhiteIs ==
  ASSUME IInv, On("collect", "start")
  PROVE  /\ Grey \in SUBSET Object /\ Closed(Grey) /\ Tagged("root") \subseteq Grey
         /\ \A x \in White :
                /\ x \in Object /\ memory[x] = "live"
                /\ \A f \in ToSet(stack) : f.obj # x
                /\ \A s \in Slot : heap[s] = x => Owner[s] \in White /\ memory[Owner[s]] = "live"
<1> DEFINE B == {x \in Grey : rc[x] > Within(x)}
           W(x) == {s \in SlotsOf(Grey \cap Memory("live")) : heap[s] = x}
<1>1. /\ TypeInv /\ stack \in Seq(Frames) /\ MemoryOf(heap, memory, rc, tag, ToSet(stack))
      /\ Exact(heap, stack, rc)
  BY InvIs
<1>2. /\ \A x \in Object : tag[x] \in {"none", "root"} /\ memory[x] # "null"
      /\ Top.obj = Nil
      /\ \A f \in ToSet(Front(stack)) : Holds(f) /\ f.obj \in Object
  BY AtStart
<1>3. ToSet(stack) = ToSet(Front(stack)) \cup {Top} BY CollectTop DEF On
<1>4. Tagged("root") \in SUBSET Object BY DEF Tagged
<1>5. /\ Grey \in SUBSET Object /\ Closed(Grey) /\ Tagged("root") \subseteq Grey
      /\ \A T \in SUBSET Object : Tagged("root") \subseteq T /\ Closed(T) => Grey \subseteq T
  BY <1>1, <1>4, ReachFacts DEF Grey
<1>6. Black \in SUBSET Object /\ B \subseteq Black /\ Closed(Black)
  <2>1. B \in SUBSET Object BY <1>5
  <2>2. Black = Reach(B) BY DEF Black
  <2> HIDE DEF B
  <2> QED BY <1>1, <2>1, <2>2, ReachFacts
<1>7. \A x \in Grey : memory[x] \in {"live", "dying"}
  <2> DEFINE T == {x \in Object : memory[x] \in {"live", "dying"}}
  <2>1. Tagged("root") \subseteq T BY <1>1, <1>2 DEF Tagged, MemoryOf, TypeInv
  <2>2. \A s \in Slot : heap[s] # Nil => heap[s] \in T BY <1>1, <1>2 DEF MemoryOf, TypeInv
  <2>3. T \in SUBSET Object OBVIOUS
  <2> HIDE DEF T
  <2>4. Closed(T) BY <2>2, <2>3, ClosedIs
  <2>5. Grey \subseteq T BY <1>5, <2>1, <2>3, <2>4
  <2> QED BY <2>5 DEF T
<1> HIDE DEF B
<1>8. ASSUME NEW x \in White
      PROVE  /\ x \in Object /\ memory[x] = "live"
             /\ \A f \in ToSet(stack) : f.obj # x
             /\ \A s \in Slot : heap[s] = x => Owner[s] \in White /\ memory[Owner[s]] = "live"
  <2>1. x \in Grey /\ x \notin Black /\ x \in Object BY <1>5 DEF White
  <2>2. ~(rc[x] > Cardinality(W(x))) BY <1>6, <2>1 DEF B, Within
  <2>3. rc[x] = Cardinality(SlotsAt(heap, x)) + Cardinality(Holders(stack, x)) BY <1>1, <2>1 DEF Exact
  <2>4. W(x) \subseteq SlotsAt(heap, x) BY DEF SlotsOf, SlotsAt
  <2> HIDE DEF W
  <2>5. IsFiniteSet(SlotsAt(heap, x)) /\ Cardinality(SlotsAt(heap, x)) \in Nat BY SlotsFinite
  <2>6. /\ IsFiniteSet(W(x)) /\ Cardinality(W(x)) <= Cardinality(SlotsAt(heap, x))
        /\ Cardinality(SlotsAt(heap, x)) = Cardinality(W(x)) => SlotsAt(heap, x) = W(x)
    BY <2>4, <2>5, FS_Subset
  <2>7. Cardinality(W(x)) \in Nat BY <2>6, FS_CardinalityType
  <2>8. Cardinality(Holders(stack, x)) \in Nat BY <1>1, HoldersFinite
  <2>9. Cardinality(Holders(stack, x)) = 0 /\ SlotsAt(heap, x) = W(x)
    BY <2>2, <2>3, <2>5, <2>6, <2>7, <2>8
  <2>10. \A f \in ToSet(stack) : f.obj # x
    <3>1. \A f \in ToSet(stack) : Holds(f) => f.obj # x BY <1>1, <2>9, HolderCounts
    <3> QED BY <1>2, <1>3, <2>1, <3>1, GCAssumption
  <2>11. memory[x] = "live"
    <3>1. memory[x] = "dying" => \E f \in ToSet(stack) : f.obj = x BY <1>1, <2>1 DEF MemoryOf, FreedBy
    <3> QED BY <1>7, <2>1, <2>10, <3>1
  <2>12. ASSUME NEW s \in Slot, heap[s] = x PROVE Owner[s] \in White /\ memory[Owner[s]] = "live"
    <3>1. s \in W(x) BY <2>9, <2>12 DEF SlotsAt
    <3>2. Owner[s] \in Grey /\ memory[Owner[s]] = "live" BY <3>1 DEF W, SlotsOf, Memory
    <3>3. Owner[s] \notin Black
      <4>1. heap[s] # Nil BY <2>1, <2>12, GCAssumption
      <4> QED BY <1>6, <2>1, <2>12, <3>2, <4>1, ClosedIs
    <3> QED BY <3>2, <3>3 DEF White
  <2> QED BY <2>1, <2>10, <2>11, <2>12
<1> QED BY <1>5, <1>8
\* The entries of a traced buffer: garbage is held by garbage only, and has no
\* destructor to be called.
LEMMA TraceTags ==
  ASSUME IInv, Trace
  PROVE  /\ tag' \in [Object -> {"none", "root", "dtor", "garbage"}]
         /\ \A x \in Object : tag'[x] \in {"none", "dtor", "garbage"} /\ (tag'[x] # "none" => x \in White)
         /\ \A s \in Slot : \A x \in Object :
                heap[s] = x /\ tag'[x] = "garbage" => Owner[s] \in Object /\ tag'[Owner[s]] = "garbage"
         /\ \A x \in HasDestructor : tag'[x] = "garbage" => x \in called
         /\ \A x \in Object : tag'[x] = "dtor" => x \in HasDestructor \ called
         /\ \A T \in SUBSET Object :
                Closed(T) /\ (\A x \in Object : tag'[x] # "none" => x \in T) => White \subseteq T
<1> DEFINE D == {x \in White : NeedsDestructor(x)}
           N == Nested(D)
<1>1. On("collect", "start") /\ tag' = Tag(D) BY DEF Trace
<1>2. /\ White \in SUBSET Object /\ TypeInv
      /\ \A x \in White : \A s \in Slot : heap[s] = x => Owner[s] \in White /\ memory[Owner[s]] = "live"
  BY <1>1, WhiteIs, InvIs
<1>3. D \subseteq White /\ \A x \in White \ D : x \in HasDestructor => x \in called BY DEF NeedsDestructor
<1> HIDE DEF D
<1>4. /\ D \subseteq Reach(D) /\ Reach(D) \in SUBSET Object /\ Closed(Reach(D))
      /\ \A T \in SUBSET Object : D \subseteq T /\ Closed(T) => Reach(D) \subseteq T
  BY <1>2, <1>3, ReachFacts
<1>5. N \subseteq Reach(D) /\ \A x \in White : x \in Reach(D) <=> x \in D \cup N BY <1>4 DEF Nested
<1> HIDE DEF N
<1>6. /\ tag' \in [Object -> {"none", "root", "dtor", "garbage"}]
      /\ \A x \in Object : /\ x \in D => tag'[x] = "dtor"
                           /\ x \in White \ (D \cup N) => tag'[x] = "garbage"
                           /\ x \notin D /\ x \notin White \ (D \cup N) => tag'[x] = "none"
  BY <1>1 DEF Tag, N
<1>7. \A x \in Object : tag'[x] = "garbage" => x \in White /\ x \notin Reach(D) /\ x \notin D
  BY <1>5, <1>6
<1>8. \A x \in Object : tag'[x] \in {"none", "dtor", "garbage"} /\ (tag'[x] # "none" => x \in White)
  BY <1>3, <1>6
<1>9. ASSUME NEW s \in Slot, NEW x \in Object, heap[s] = x, tag'[x] = "garbage"
      PROVE  Owner[s] \in Object /\ tag'[Owner[s]] = "garbage"
  <2>1. x \in White /\ x \notin Reach(D) BY <1>7, <1>9
  <2>2. Owner[s] \in White /\ memory[Owner[s]] = "live" BY <1>2, <1>9, <2>1
  <2>3. heap[s] # Nil BY <1>9, GCAssumption
  <2>4. Owner[s] \notin Reach(D) BY <1>4, <1>9, <2>1, <2>2, <2>3, ClosedIs
  <2>5. Owner[s] \in White \ (D \cup N) BY <1>5, <2>2, <2>4
  <2> QED BY <1>2, <1>6, <2>5
<1>10. \A x \in HasDestructor : tag'[x] = "garbage" => x \in called BY <1>3, <1>7, GCAssumption
<1>11. ASSUME NEW T \in SUBSET Object, Closed(T), \A x \in Object : tag'[x] # "none" => x \in T
       PROVE  White \subseteq T
  <2>1. D \subseteq T BY <1>2, <1>3, <1>6, <1>11
  <2>2. N \subseteq T BY <1>4, <1>5, <1>11, <2>1
  <2>3. \A x \in White \ (D \cup N) : x \in T BY <1>2, <1>6, <1>11
  <2> QED BY <2>1, <2>2, <2>3
<1>12. \A x \in Object : tag'[x] = "dtor" => x \in HasDestructor \ called BY <1>6 DEF D, NeedsDestructor
<1> QED BY <1>6, <1>8, <1>9, <1>10, <1>11, <1>12

\* What a trace takes out of the buffer is still reached: an object that is not
\* garbage is reached from what holds it outside of the traced part.
LEMMA TraceAnchors ==
  ASSUME IInv, Trace, ToSet(Front(stack)) \subseteq ToSet(stack'),
         NEW T \in SUBSET Object, Anchors' \subseteq T, Closed(T)', NEW x \in Object, memory'[x] = "live"
  PROVE  x \in T
<1> DEFINE B == {y \in Grey : rc[y] > Within(y)}
           W(y) == {s \in SlotsOf(Grey \cap Memory("live")) : heap[s] = y}
           st == Front(stack)
<1>1. /\ TypeInv /\ stack \in Seq(Frames) /\ Exact(heap, stack, rc)
      /\ MemoryOf(heap, memory, rc, tag, ToSet(stack))
      /\ \A V \in SUBSET Object : Anchors \subseteq V /\ Closed(V) => \A y \in Object : memory[y] = "live" => y \in V
  BY InvIs
<1>2. On("collect", "start") /\ heap' = heap /\ memory' = memory BY DEF Trace
<1>3. /\ Grey \in SUBSET Object /\ Closed(Grey) /\ Tagged("root") \subseteq Grey BY <1>2, WhiteIs
<1>4. /\ \A y \in Object : tag[y] \in {"none", "root"} /\ memory[y] # "null"
      /\ Top.obj = Nil
      /\ ToSet(stack) = ToSet(st) \cup {Top}
  BY <1>2, AtStart, CollectTop DEF On
<1> HIDE DEF st
<1>5. /\ \A r \in Slot : heap[r] # Nil /\ (Owner[r] = Global \/ (Owner[r] \in Object /\ memory[Owner[r]] \in {"dying", "null"}))
                              => heap[r] \in T
      /\ \A f \in ToSet(stack) : f.obj # Nil => f.obj \in T
      /\ \A y \in Object : tag'[y] # "none" => y \in T
      /\ \A r \in Slot : Owner[r] \in T /\ memory[Owner[r]] = "live" /\ heap[r] # Nil => heap[r] \in T
  BY <1>2, <1>4, AnchorsIn, ClosedIs DEF st
<1>6. Closed(T) BY <1>5, ClosedIs
<1>7. White \subseteq T BY <1>5, <1>6, TraceTags
<1>8. B \subseteq T
  <2> SUFFICES ASSUME NEW y \in Grey, rc[y] > Cardinality(W(y)), y \notin T PROVE FALSE BY DEF Within
  <2>1. y \in Object BY <1>3
  <2>2. \A f \in ToSet(stack) : Holds(f) => f.obj # y BY <1>5, <2>1, GCAssumption
  <2>3. Cardinality(Holders(stack, y)) = 0 BY <1>1, <2>2, HolderCounts
  <2>4. SlotsAt(heap, y) = W(y)
    <3>1. W(y) \subseteq SlotsAt(heap, y) BY DEF SlotsAt, SlotsOf
    <3>2. ASSUME NEW s \in SlotsAt(heap, y) PROVE s \in W(y)
      <4>1. s \in Slot /\ heap[s] = y /\ heap[s] # Nil BY <2>1, GCAssumption DEF SlotsAt
      <4>2. Owner[s] \in Object /\ memory[Owner[s]] \notin {"dying", "null"} BY <1>5, <4>1, GCAssumption
      <4>3. memory[Owner[s]] = "live"
        <5>1. memory[Owner[s]] # "free" BY <1>1, <4>1, <4>2 DEF MemoryOf, EmptyIn
        <5> QED BY <1>1, <4>2, <5>1 DEF TypeInv
      <4>4. Owner[s] \notin T BY <1>5, <4>1, <4>3
      <4>5. Owner[s] \in Grey
        <5> DEFINE V == T \cup Grey
        <5>1. V \in SUBSET Object BY <1>3
        <5>2. /\ \A r \in Slot : heap[r] # Nil /\ (Owner[r] = Global \/ (Owner[r] \in Object /\ memory[Owner[r]] \in {"dying", "null"}))
                                      => heap[r] \in V
              /\ \A f \in ToSet(stack) : f.obj # Nil => f.obj \in V
          BY <1>5
        <5>3. \A z \in Object : tag[z] # "none" => z \in V BY <1>3, <1>4 DEF Tagged
        <5>4. \A r \in Slot : Owner[r] \in V /\ memory[Owner[r]] = "live" /\ heap[r] # Nil => heap[r] \in V
          BY <1>3, <1>5, ClosedIs
        <5> HIDE DEF V
        <5>5. Anchors \subseteq V /\ Closed(V) BY <5>1, <5>2, <5>3, <5>4, AnchorsIn, ClosedIs
        <5>6. Owner[s] \in V BY <1>1, <4>2, <4>3, <5>1, <5>5
        <5> QED BY <4>4, <5>6 DEF V
      <4> QED BY <4>1, <4>2, <4>3, <4>5 DEF SlotsOf, Memory
    <3> HIDE DEF W
    <3> QED BY <3>1, <3>2
  <2>5. rc[y] = Cardinality(SlotsAt(heap, y)) + 0 BY <1>1, <2>1, <2>3 DEF Exact
  <2>6. Cardinality(SlotsAt(heap, y)) \in Nat BY SlotsFinite
  <2> HIDE DEF W
  <2> QED BY <2>4, <2>5, <2>6
<1>9. Black \subseteq T
  <2>1. B \in SUBSET Object /\ Black = Reach(B) BY <1>3 DEF Black
  <2> HIDE DEF B
  <2> QED BY <1>1, <1>6, <1>8, <2>1, ReachFacts
<1>10. Grey \subseteq T BY <1>7, <1>9 DEF White
<1>11. \A y \in Object : tag[y] # "none" => y \in T BY <1>3, <1>4, <1>10 DEF Tagged
<1>12. Anchors \subseteq T BY <1>5, <1>11, AnchorsIn
<1>13. memory[x] = "live" BY <1>2
<1> QED BY <1>1, <1>6, <1>12, <1>13
\* Nothing white is relied on by a call in progress, and a collection that found
\* something white goes on.
LEMMA TraceStep ==
  ASSUME IInv, Trace
  PROVE  IInv'
<1> DEFINE st == Front(stack)
           d == {x \in White : NeedsDestructor(x)} # {}
           f1 == [Top EXCEPT !.at = "dtors", !.dtors = d]
<1>1. /\ TypeInv /\ stack \in Seq(Frames) /\ Exact(heap, stack, rc)
      /\ MemoryOf(heap, memory, rc, tag, ToSet(stack))
  BY InvIs
<1>2. /\ On("collect", "start") /\ stack # <<>> /\ Top.op = "collect" /\ Top.at = "start"
      /\ stack' = IF White = {} THEN st ELSE Append(st, f1)
      /\ heap' = heap /\ memory' = memory /\ rc' = rc /\ called' = called
  BY DEF Trace, On, Above
<1>3. /\ Top \in Frames /\ st \in Seq(Frames) /\ stack = Append(st, Top)
      /\ ToSet(stack) = ToSet(st) \cup {Top}
      /\ Order(st) /\ MayCall(st, Top) /\ Below(st, tag)
      /\ \A g \in ToSet(st) :
             /\ g \in Frames /\ CallOf(g, memory, rc, tag)
             /\ ~Is(g, "delete", "enter") /\ g.op # "collect" /\ ~Is(g, "free", "collect")
             /\ g.obj \in Object
      /\ \A x : Cardinality(Holders(stack, x)) = Cardinality(Holders(st, x)) + (IF Holds(Top) /\ Top.obj = x THEN 1 ELSE 0)
      /\ st # <<>> => ~Is(Last(st), "delete", "called")
  BY <1>2, CollectTop
<1>4. f1 \in Frames /\ f1.op = "collect" /\ f1.at = "dtors" /\ f1.obj = Nil /\ ~Holds(f1)
  <2>1. d \in BOOLEAN OBVIOUS
  <2> HIDE DEF d
  <2>2. Top \in [op : {"collect"}, at : {"called"}, obj : Object, first : BOOLEAN, dtors : BOOLEAN]
                \cup [op : {"collect"}, at : {"start", "dtors", "destroy"}, obj : {Nil}, first : BOOLEAN, dtors : BOOLEAN]
    BY <1>2, <1>3 DEF Frames
  <2> QED BY <1>2, <2>1, <2>2 DEF Frames, Holds
<1>5. ~Holds(Top) BY <1>2, <1>3, FrameTypes DEF Is
<1>6. \A x \in Object : memory[x] # "null" BY <1>2, AtStart
<1>7. \A x \in White : x \in Object /\ memory[x] = "live" /\ \A f \in ToSet(stack) : f.obj # x BY <1>2, WhiteIs
<1>8. /\ tag' \in [Object -> {"none", "root", "dtor", "garbage"}]
      /\ \A x \in Object : tag'[x] \in {"none", "dtor", "garbage"} /\ (tag'[x] # "none" => x \in White)
      /\ \A s \in Slot : \A x \in Object :
             heap[s] = x /\ tag'[x] = "garbage" => Owner[s] \in Object /\ tag'[Owner[s]] = "garbage"
      /\ \A x \in HasDestructor : tag'[x] = "garbage" => x \in called
  BY TraceTags
<1> HIDE DEF st, f1
<1>9. \A g \in ToSet(st) : tag'[g.obj] = "none" BY <1>3, <1>7, <1>8
<1>10. Below(st, tag')
  <2>1. \A i \in DOMAIN st : st[i] \in ToSet(st) BY DEF ToSet
  <2> QED BY <1>3, <2>1 DEF Below
<1>11. /\ StackInv' /\ stack' \in Seq(Frames)
       /\ ToSet(stack') = IF White = {} THEN ToSet(st) ELSE ToSet(st) \cup {f1}
       /\ \A x \in Object : Cardinality(Holders(stack', x)) = Cardinality(Holders(st, x))
  <2>1. CASE White # {}
    <3>1. MayCall(st, f1) BY <1>2, <1>3, <1>4, CollectMay
    <3>2. ~Is(f1, "delete", "called") /\ \A g \in ToSet(st) : tag'[g.obj] \in {"none", "root"}
      BY <1>4, <1>9 DEF Is
    <3>3. stack' = Append(st, f1) BY <1>2, <2>1
    <3>4. /\ StackInv' /\ stack' \in Seq(Frames) /\ ToSet(stack') = ToSet(st) \cup {f1}
          /\ \A x : Cardinality(Holders(stack', x)) = Cardinality(Holders(st, x)) + (IF Holds(f1) /\ f1.obj = x THEN 1 ELSE 0)
      BY <1>3, <1>4, <1>10, <3>1, <3>2, <3>3, Restack
    <3>5. \A x \in Object : Cardinality(Holders(stack', x)) = Cardinality(Holders(st, x))
      <4>1. \A x \in Object : Cardinality(Holders(stack', x)) = Cardinality(Holders(st, x)) + 0 BY <1>4, <3>4
      <4> QED BY <1>3, <4>1, HoldersFinite
    <3> QED BY <2>1, <3>4, <3>5
  <2>2. CASE White = {}
    <3>1. stack' = st BY <1>2, <2>2
    <3>2. StackInv' BY <1>3, <1>10, <3>1, Unstack
    <3> QED BY <1>3, <2>2, <3>1, <3>2
  <2> QED BY <2>1, <2>2
<1>12. \A x \in Object : rc'[x] = rc[x] + Cardinality(Holders(stack', x)) - Cardinality(Holders(stack, x))
  <2> TAKE x \in Object
  <2>1. Cardinality(Holders(st, x)) \in Nat /\ rc[x] \in Int BY <1>1, <1>3, HoldersFinite DEF TypeInv
  <2>2. Cardinality(Holders(stack, x)) = Cardinality(Holders(st, x)) + 0 BY <1>3, <1>5
  <2> QED BY <1>2, <1>11, <2>1, <2>2
<1>13. Exact(heap', stack', rc') BY <1>2, <1>11, <1>12, ExactMoves
<1>14. TypeInv' BY <1>1, <1>2, <1>8, <1>11 DEF TypeInv
<1>15. ASSUME NEW f \in ToSet(stack') PROVE CallOf(f, memory', rc', tag')
  <2>1. CASE f \in ToSet(st) BY <1>2, <1>3, <1>9, <2>1 DEF CallOf, Is
  <2>2. CASE f = f1 BY <1>4, <2>2 DEF CallOf, Is
  <2> QED BY <1>11, <2>1, <2>2
<1>16. MemoryOf(heap', memory', rc', tag', ToSet(stack'))
  <2>1. \A x \in Object : FreedBy(ToSet(stack), "delete", x) => FreedBy(ToSet(stack'), "delete", x)
    BY <1>2, <1>3, <1>11 DEF FreedBy, Is
  <2>2. \A x \in Object : memory[x] = "free" => tag'[x] = "none" BY <1>7, <1>8
  <2> QED BY <1>1, <1>2, <1>6, <2>1, <2>2 DEF MemoryOf
<1>17. GarbageOf(heap', tag', called', ToSet(stack'))
  <2>1. ASSUME NEW x \in Object, tag'[x] # "none"
        PROVE  /\ CollectingIn(ToSet(stack'), {"dtors", "called"})
               /\ CollectingIn(ToSet(stack'), {"dtors", "called", "destroy"})
    <3>1. f1 \in ToSet(stack') BY <1>8, <1>11, <2>1
    <3> QED BY <1>4, <3>1 DEF CollectingIn
  <2> QED BY <1>2, <1>8, <2>1 DEF GarbageOf
<1>18. \A T \in SUBSET Object : Anchors' \subseteq T /\ Closed(T)' => \A x \in Object : memory'[x] = "live" => x \in T
  <2>1. ToSet(Front(stack)) \subseteq ToSet(stack') BY <1>11 DEF st
  <2> QED BY <2>1, TraceAnchors
<1> QED BY <1>11, <1>13, <1>14, <1>15, <1>16, <1>17, <1>18, InvNext
-----------------------------------------------------------------------------
(* The invariant.                                                           *)

LEMMA InitInv ==
  ASSUME Init
  PROVE  IInv
<1>1. /\ heap = [s \in Slot |-> Nil] /\ memory = [o \in Object |-> "free"] /\ rc = [o \in Object |-> 0]
      /\ tag = [o \in Object |-> "none"] /\ called = {} /\ stack = <<>>
  BY DEF Init
<1>2. stack \in Seq(Frames) /\ Len(stack) = 0 /\ DOMAIN stack = {} /\ ToSet(stack) = {} BY <1>1, EmptySeq DEF ToSet
<1>3. TypeInv BY <1>1, <1>2 DEF TypeInv
<1>4. StackInv BY <1>1, <1>2 DEF StackInv, On
<1>5. CallsInv BY <1>2 DEF CallsInv
<1>6. MemoryInv BY <1>1, GCAssumption DEF MemoryInv, Memory, Emptied, SlotsOf
<1>7. GarbageInv BY <1>1 DEF GarbageInv, Tagged
<1>8. CountsExact
  <2> SUFFICES ASSUME NEW o \in Object
               PROVE  rc[o] = Cardinality(SlotsAt(heap, o)) + Cardinality(Holders(stack, o))
    BY ExactIs DEF Exact
  <2>1. Cardinality(SlotsAt(heap, o)) = 0
    <3>1. \A s \in Slot : heap[s] # o BY <1>1, GCAssumption
    <3> QED BY <3>1, SlotsFinite
  <2>2. Cardinality(Holders(stack, o)) = 0 BY <1>2, HolderCounts
  <2> QED BY <1>1, <2>1, <2>2
<1>9. Anchored BY <1>1 DEF Anchored, Memory
<1> QED BY <1>3, <1>4, <1>5, <1>6, <1>7, <1>8, <1>9 DEF IInv

LEMMA NextInv ==
  ASSUME IInv, [Next]_vars
  PROVE  IInv'
<1>1. ASSUME Running, NEW s \in SlotsOf(Reachable \cup {Global}), Unset(s) PROVE IInv' BY <1>1, UnsetStep
<1>2. ASSUME Running, NEW s \in SlotsOf(Reachable \cup {Global}), NEW o \in Reachable, Assign(s, o) PROVE IInv'
  BY <1>2, AssignStep
<1>3. ASSUME Running, NEW s \in SlotsOf(Reachable \cup {Global}), NEW o \in Object, New(o, s) PROVE IInv'
  BY <1>3, NewStep
<1>4. ASSUME Running, CollectCycles PROVE IInv' BY <1>4, CollectCyclesStep
<1>5. ASSUME Program PROVE IInv' BY <1>1, <1>2, <1>3, <1>4, <1>5, DestructorReturnsStep DEF Program
<1>6. ASSUME Deletion PROVE IInv' BY <1>6, DelEnterStep, DelCalledStep, FreeSlotStep, FreeDoneStep DEF Deletion
<1>7. ASSUME Collector PROVE IInv'
  BY <1>7, TraceStep, CalledStep, DestructorsCalledStep, ReclaimStep, FullReturnsStep, CallDestructorStep,
     DestroyStep DEF Collector
<1>8. ASSUME UNCHANGED vars PROVE IInv'
  <2>1. /\ heap' = heap /\ memory' = memory /\ rc' = rc /\ tag' = tag /\ called' = called /\ stack' = stack
    BY <1>8 DEF vars
  <2>2. TypeInv' BY <2>1 DEF IInv, TypeInv
  <2>3. StackInv' BY <2>1, StackIs DEF IInv
  <2>4. Anchors' = Anchors /\ \A T \in SUBSET Object : Closed(T)' <=> Closed(T)
    BY <2>1, ClosedIs DEF Anchors, Refs, SlotsOf, Memory, Tagged, ToSet
  <2> QED BY <2>1, <2>2, <2>3, <2>4, InvIs, InvNext
<1> QED BY <1>5, <1>6, <1>7, <1>8 DEF Next

\* The inductive invariant: types, the order of the calls in progress and what
\* each relies on, what is free or condemned, exact counts, and that every live
\* object is reached from a variable, a call or an entry of the buffer.
THEOREM Inductive == Spec => []IInv
<1>1. Init => IInv BY InitInv
<1>2. IInv /\ [Next]_vars => IInv' BY NextInv
<1> QED BY <1>1, <1>2, PTL DEF Spec
-----------------------------------------------------------------------------
(* What follows from it.                                                    *)

LEMMA TypesFollow ==
  ASSUME IInv
  PROVE  TypeOK
<1>1. /\ TypeInv /\ stack \in Seq(Frames) /\ Order(stack) /\ Exact(heap, stack, rc)
      /\ \A f \in ToSet(stack) : f \in Frames
  BY InvIs
<1>2. rc \in [Object -> Nat]
  <2>1. ASSUME NEW o \in Object PROVE rc[o] \in Nat
    <3>1. Cardinality(SlotsAt(heap, o)) \in Nat /\ Cardinality(Holders(stack, o)) \in Nat
      BY <1>1, SlotsFinite, HoldersFinite
    <3> QED BY <1>1, <3>1 DEF Exact
  <2> QED BY <1>1, <2>1 DEF TypeInv
<1>3. ASSUME NEW i \in DOMAIN stack
      PROVE  /\ stack[i].op \in {"delete", "destruct", "free", "full", "collect"}
             /\ stack[i].op = "collect" => \A j \in DOMAIN stack : stack[j].op = "collect" => j = i
  <2>1. stack[i] \in Frames BY <1>1 DEF ToSet
  <2>2. ASSUME stack[i].op = "collect", NEW j \in DOMAIN stack, stack[j].op = "collect" PROVE j = i
    <3>1. DOMAIN stack = 1 .. Len(stack) BY <1>1, LenProperties
    <3>2. ~(i < j) BY <1>1, <2>2, OneCollection
    <3>3. ~(j < i) BY <1>1, <2>2, OneCollection
    <3> QED BY <3>1, <3>2, <3>3
  <2> QED BY <2>1, <2>2, FrameTypes
<1> QED BY <1>1, <1>2, <1>3 DEF TypeOK, TypeInv

LEMMA NothingDangles ==
  ASSUME IInv
  PROVE  NoneDangling
<1>1. TypeInv /\ MemoryOf(heap, memory, rc, tag, ToSet(stack)) BY InvIs
<1>2. \A o \in Reachable : memory[o] = "live" BY KnownIsLive
<1>3. \A s \in Slot : heap[s] # Nil => memory[heap[s]] # "free" BY <1>1 DEF MemoryOf, TypeInv
<1>4. Tagged("root") \cap (Memory("free") \cup Memory("null")) = {} BY <1>1 DEF MemoryOf, Tagged, Memory
<1> QED BY <1>2, <1>3, <1>4 DEF NoneDangling, SlotsOf

\* What is reached from variables and calls, and what is reached from the buffer,
\* are together closed, and hold every anchor.
LEMMA NothingForgotten ==
  ASSUME IInv
  PROVE  NoneForgotten
<1> DEFINE P == Refs(SlotsOf({Global})) \cup InProgress
           Q == Object \ Tagged("none")
           T == Reach(P) \cup Reach(Q)
<1>1. /\ TypeInv /\ \A f \in ToSet(stack) : f \in Frames
      /\ \A V \in SUBSET Object : Anchors \subseteq V /\ Closed(V) => \A o \in Object : memory[o] = "live" => o \in V
  BY InvIs
<1>2. \A i \in DOMAIN stack : stack[i].obj \in Object \cup {Nil}
  <2> TAKE i \in DOMAIN stack
  <2>1. stack[i] \in Frames BY <1>1 DEF ToSet
  <2> QED BY <2>1 DEF Frames
<1>3. P \in SUBSET Object /\ Q \in SUBSET Object
  BY <1>1, <1>2 DEF TypeInv, Refs, SlotsOf, InProgress
<1>4. Anchors \subseteq P \cup Q
  BY DEF Anchors, InProgress, Refs, SlotsOf, Memory, ToSet
<1> HIDE DEF P, Q
<1>5. /\ Reach(P) \in SUBSET Object /\ P \subseteq Reach(P) /\ Closed(Reach(P))
      /\ Reach(Q) \in SUBSET Object /\ Q \subseteq Reach(Q) /\ Closed(Reach(Q))
  BY <1>1, <1>3, ReachFacts
<1>6. T \in SUBSET Object /\ Anchors \subseteq T BY <1>4, <1>5
<1>7. Closed(T) BY <1>5, ClosedIs
<1>8. \A o \in Object : memory[o] = "live" => o \in T BY <1>1, <1>6, <1>7
<1>9. NoneForgotten <=> Memory("live") \ Reach(P) \subseteq Reach(Q) BY DEF NoneForgotten, Lost, P, Q
<1> QED BY <1>8, <1>9 DEF Memory

\* Type correctness; the calls in progress contain at most one collection.
THEOREM TypeCorrect == Spec => []TypeOK
<1>1. IInv => TypeOK BY TypesFollow
<1> QED BY <1>1, Inductive, PTL

\* After any sequence of assignments, destructors, revivals and collections inside
\* of one another counts are exact, nothing that is referred to is freed, and what
\* is out of reach is reached from the buffer.
THEOREM ReferencesAreSound == Spec => []ReferencesSound
<1>1. IInv => ReferencesSound
  <2>1. IInv => CountsExact BY DEF IInv
  <2> QED BY <2>1, NothingDangles, NothingForgotten DEF ReferencesSound
<1> QED BY <1>1, Inductive, PTL
-----------------------------------------------------------------------------
(* What the program is promised: the steps of ManagedHeap.                  *)

DepthsOf(st) == [i \in {j \in DOMAIN st : st[j].op = "destruct"} |-> st[i].obj]
ValueOf(h, m) == [s \in Slot |-> IF Owner[s] = Global \/ (Owner[s] \in Object /\ m[Owner[s]] = "live") THEN h[s] ELSE Nil]

LEMMA AbstractIs ==
  /\ Value = ValueOf(heap, memory) /\ Value' = ValueOf(heap', memory')
  /\ Destructors = DepthsOf(stack) /\ Destructors' = DepthsOf(stack')
  /\ \A x : x \in Doomed <=> x \in Object /\ tag[x] = "dtor" /\ x \notin called
  /\ \A x : x \in Doomed' <=> x \in Object /\ tag'[x] = "dtor" /\ x \notin called'
  /\ \A x : x \in Memory("live") <=> x \in Object /\ memory[x] = "live"
  /\ \A x : x \in Memory("live")' <=> x \in Object /\ memory'[x] = "live"
<1>1. Value = ValueOf(heap, memory) BY DEF Value, ValueOf, Memory
<1>2. Value' = ValueOf(heap', memory') BY DEF Value, ValueOf, Memory
<1>3. Destructors = DepthsOf(stack) /\ Destructors' = DepthsOf(stack') BY DEF Destructors, DepthsOf
<1>4. /\ \A x : x \in Doomed <=> x \in Object /\ tag[x] = "dtor" /\ x \notin called
      /\ \A x : x \in Doomed' <=> x \in Object /\ tag'[x] = "dtor" /\ x \notin called'
  BY DEF Doomed, Tagged
<1>5. /\ \A x : x \in Memory("live") <=> x \in Object /\ memory[x] = "live"
      /\ \A x : x \in Memory("live")' <=> x \in Object /\ memory'[x] = "live"
  BY DEF Memory
<1> QED BY <1>1, <1>2, <1>3, <1>4, <1>5

LEMMA FinalizedIs ==
  /\ FinalizedInv <=> /\ \A x \in Object : tag[x] = "dtor" /\ x \notin called => x \in HasDestructor /\ memory[x] = "live"
                      /\ \A f \in ToSet(stack) : Is(f, "delete", "called") => f.obj \in called
  /\ FinalizedInv' <=> /\ \A x \in Object : tag'[x] = "dtor" /\ x \notin called' => x \in HasDestructor /\ memory'[x] = "live"
                       /\ \A f \in ToSet(stack') : Is(f, "delete", "called") => f.obj \in called'
<1>1. FinalizedInv <=> /\ \A x \in Object : tag[x] = "dtor" /\ x \notin called => x \in HasDestructor /\ memory[x] = "live"
                       /\ \A f \in ToSet(stack) : Is(f, "delete", "called") => f.obj \in called
  BY DEF FinalizedInv, Doomed, Tagged, Memory
<1>2. FinalizedInv' <=> /\ Doomed' \subseteq HasDestructor \cap Memory("live")'
                        /\ \A f \in ToSet(stack') : Is(f, "delete", "called") => f.obj \in called'
  BY DEF FinalizedInv, ToSet, Is
<1>3. Doomed' \subseteq HasDestructor \cap Memory("live")' <=>
          \A x \in Object : tag'[x] = "dtor" /\ x \notin called' => x \in HasDestructor /\ memory'[x] = "live"
  BY AbstractIs
<1> QED BY <1>1, <1>2, <1>3

\* The program knows, by either definition, the same objects.
LEMMA KnownIs ==
  ASSUME TypeInv
  PROVE  /\ Abstract!Known = Reachable
         /\ \A T \in SUBSET Object :
                /\ \A s \in Slot : heap[s] # Nil /\ (Owner[s] = Global \/ (Owner[s] \in T /\ memory[Owner[s]] = "live")) => heap[s] \in T
                /\ \A f \in ToSet(stack) : f.op = "destruct" => f.obj \in T
                => Reachable \subseteq T
<1> DEFINE S == Refs(SlotsOf({Global})) \cup Destructing
           R == {Value[s] : s \in {t \in Slot : Owner[t] = Global}} \cup {Destructors[d] : d \in DOMAIN Destructors}
<1>1. ASSUME NEW T \in SUBSET Object PROVE Abstract!Closed(T, Value) <=> Closed(T)
  BY AbstractIs, ClosedIs, GCAssumption DEF Abstract!Closed, ValueOf
<1>2. stack \in Seq(Frames) /\ \A f \in ToSet(stack) : f.op = "destruct" => f.obj \in Object
  BY InStack, FrameTypes DEF TypeInv
<1>3. Destructing \in SUBSET Object /\ Destructing = {Destructors[d] : d \in DOMAIN Destructors}
  BY <1>2 DEF Destructing, Destructors, ToSet
<1>4. {Value[s] : s \in {t \in Slot : Owner[t] = Global}} \ {Nil} = Refs(SlotsOf({Global}))
  BY AbstractIs, GCAssumption DEF ValueOf, Refs, SlotsOf
<1>5. R \ {Nil} = S BY <1>3, <1>4, GCAssumption
<1>6. Abstract!Known = Abstract!Reach(R, Value) BY DEF Abstract!Known
<1>7. Reachable = Reach(S) BY DEF Reachable
<1>8. S \in SUBSET Object BY <1>3 DEF TypeInv, Refs, SlotsOf
<1> HIDE DEF S, R
<1>9. Abstract!Reach(R, Value) = Reach(S) BY <1>1, <1>5 DEF Abstract!Reach, Reach
<1>10. ASSUME NEW T \in SUBSET Object,
              \A s \in Slot : heap[s] # Nil /\ (Owner[s] = Global \/ (Owner[s] \in T /\ memory[Owner[s]] = "live")) => heap[s] \in T,
              \A f \in ToSet(stack) : f.op = "destruct" => f.obj \in T
       PROVE  Reachable \subseteq T
  <2>1. Destructing \subseteq T BY <1>10 DEF Destructing, ToSet
  <2>2. S \subseteq T BY <1>10, <2>1 DEF S, Refs, SlotsOf
  <2>3. Closed(T) BY <1>10, ClosedIs
  <2> QED BY <1>7, <1>8, <2>2, <2>3, ReachFacts
<1> QED BY <1>6, <1>7, <1>9, <1>10

\* Calls on top of others, as the destructors in progress: q, and the one of o.
OnTopAt(p, q, o, d) ==
    /\ \A e \in DOMAIN q : e \in Nat /\ e < d
    /\ p = [e \in DOMAIN q \cup {d} |-> IF e = d THEN o ELSE q[e]]
    /\ q = [e \in DOMAIN p \ {d} |-> p[e]]
OnTop(p, q, o) == \E d \in DOMAIN p \cap Nat : OnTopAt(p, q, o, d)

LEMMA DepthsPush ==
  ASSUME NEW st \in Seq(Frames), NEW f \in Frames
  PROVE  /\ f.op # "destruct" => DepthsOf(Append(st, f)) = DepthsOf(st)
         /\ f.op = "destruct" => OnTop(DepthsOf(Append(st, f)), DepthsOf(st), f.obj)
<1> DEFINE t == Append(st, f)
           n == Len(st)
           d == n + 1
           p == DepthsOf(t)
           q == DepthsOf(st)
<1>1. /\ t \in Seq(Frames) /\ Len(t) = n + 1 /\ t[n + 1] = f
      /\ \A i \in 1 .. n : t[i] = st[i]
  BY AppendProperties
<1>2. n \in Nat /\ DOMAIN st = 1 .. n /\ DOMAIN t = 1 .. (n + 1) BY <1>1, LenProperties
<1> HIDE DEF t, n
<1>3. /\ DOMAIN t = DOMAIN st \cup {d} /\ d \notin DOMAIN st /\ t[d] = f /\ d \in Nat
      /\ \A i \in DOMAIN st : t[i] = st[i] /\ i \in Nat /\ i < d
  BY <1>1, <1>2
<1> HIDE DEF d
<1>4. ASSUME f.op # "destruct" PROVE p = q BY <1>3, <1>4 DEF DepthsOf
<1>5. ASSUME f.op = "destruct" PROVE OnTop(p, q, f.obj)
  <2>1. DOMAIN p = DOMAIN q \cup {d} BY <1>3, <1>5 DEF DepthsOf
  <2>2. d \notin DOMAIN q /\ \A e \in DOMAIN q : e \in Nat /\ e < d BY <1>3 DEF DepthsOf
  <2>3. \A e \in DOMAIN q : p[e] = q[e] BY <1>3 DEF DepthsOf
  <2>4. p[d] = f.obj BY <1>3, <1>5 DEF DepthsOf
  <2>5. q = [e \in DOMAIN q |-> q[e]] BY DEF DepthsOf
  <2>6. p = [e \in DOMAIN p |-> p[e]] BY DEF DepthsOf
  <2> HIDE DEF p, q
  <2>7. p = [e \in DOMAIN q \cup {d} |-> IF e = d THEN f.obj ELSE q[e]] BY <2>1, <2>2, <2>3, <2>4, <2>6
  <2> DEFINE D == DOMAIN p \ {d}
  <2>8. D = DOMAIN q BY <2>1, <2>2
  <2> HIDE DEF D
  <2>9. q = [e \in D |-> p[e]] BY <2>3, <2>5, <2>8
  <2>10. d \in DOMAIN p \cap Nat BY <1>3, <2>1
  <2>11. q = [e \in DOMAIN p \ {d} |-> p[e]] BY <2>9 DEF D
  <2>12. OnTopAt(p, q, f.obj, d) BY <2>2, <2>7, <2>11 DEF OnTopAt
  <2> QED BY <2>10, <2>12 DEF OnTop
<1> QED BY <1>4, <1>5 DEF t
\* A reference that is given up leaves the destructors in progress, and those
\* that are due, as they are.
LEMMA DropMoves ==
  ASSUME TypeInv, NEW o \in Object, NEW cnt, NEW st \in Seq(Frames), Drop(o, cnt, st)
  PROVE  /\ DepthsOf(stack') = DepthsOf(st)
         /\ \A f \in ToSet(stack') : f \in ToSet(st) \/ ~Is(f, "delete", "called")
         /\ \A f \in ToSet(stack') : f \in ToSet(st) \/ f.op # "collect" \/ f.at = "start"
         /\ \A x \in Object : tag'[x] = "dtor" <=> tag[x] = "dtor"
<1> DEFINE a == Delete(o)
           w == WhenFull(o)
           c == Collect(TRUE)
           t == Append(st, w)
<1>1. /\ a \in Frames /\ a.op = "delete" /\ a.at = "enter"
      /\ w \in Frames /\ w.op = "full"
      /\ c \in Frames /\ c.op = "collect" /\ c.at = "start"
  BY NewFrames DEF Is
<1>2. /\ stack' \in {st, Append(st, a), st \o <<w, c>>}
      /\ tag' = tag \/ (tag[o] = "none" /\ tag' = [tag EXCEPT ![o] = "root"])
  BY DEF Drop
<1> HIDE DEF a, w, c
<1>3. t \in Seq(Frames) /\ ToSet(t) = ToSet(st) \cup {w} BY <1>1, Push
<1>4. st \o <<w, c>> = Append(t, c) BY <1>1
<1> HIDE DEF t
<1>5. ToSet(Append(st, a)) = ToSet(st) \cup {a} /\ ToSet(Append(t, c)) = ToSet(st) \cup {w, c}
  BY <1>1, <1>3, Push
<1>6. DepthsOf(Append(st, a)) = DepthsOf(st) BY <1>1, DepthsPush
<1>7. DepthsOf(Append(t, c)) = DepthsOf(t) BY <1>1, <1>3, DepthsPush
<1>8. DepthsOf(t) = DepthsOf(st) BY <1>1, DepthsPush DEF t
<1>9. \A x \in Object : tag'[x] = "dtor" <=> tag[x] = "dtor" BY <1>2 DEF TypeInv
<1>10. CASE stack' = st BY <1>9, <1>10
<1>11. CASE stack' = Append(st, a) BY <1>1, <1>5, <1>6, <1>9, <1>11 DEF Is
<1>12. CASE stack' = st \o <<w, c>>
  <2>1. stack' = Append(t, c) BY <1>4, <1>12
  <2> QED BY <1>1, <1>5, <1>7, <1>8, <1>9, <2>1 DEF Is
<1> QED BY <1>2, <1>10, <1>11, <1>12

\* The innermost call is replaced, or a call ends.
LEMMA DepthsTop ==
  ASSUME TypeInv, stack # <<>>
  PROVE  /\ Front(stack) \in Seq(Frames) /\ ToSet(stack) = ToSet(Front(stack)) \cup {Top}
         /\ Top \in Frames /\ stack = Append(Front(stack), Top)
         /\ Top.op # "destruct" => DepthsOf(Front(stack)) = DepthsOf(stack)
         /\ Top.op = "destruct" => OnTop(DepthsOf(stack), DepthsOf(Front(stack)), Top.obj)
<1> DEFINE st == Front(stack)
<1>1. stack \in Seq(Frames) BY DEF TypeInv
<1>2. st \in Seq(Frames) /\ Top \in Frames /\ stack = Append(st, Top) BY <1>1, Pop DEF Top
<1> HIDE DEF st
<1>3. ToSet(stack) = ToSet(st) \cup {Top} BY <1>2, Push
<1>4. /\ Top.op # "destruct" => DepthsOf(Append(st, Top)) = DepthsOf(st)
      /\ Top.op = "destruct" => OnTop(DepthsOf(Append(st, Top)), DepthsOf(st), Top.obj)
  BY <1>2, DepthsPush
<1> QED BY <1>2, <1>3, <1>4 DEF st

\* Destructors stay due, unless they have been called.
LEMMA FinalizedKept ==
  ASSUME IInv, FinalizedInv,
         \A x \in Object : tag'[x] = "dtor" /\ x \notin called' => tag[x] = "dtor" /\ memory'[x] = memory[x],
         \A x \in Object : x \in called => x \in called' \/ memory[x] = "free",
         \A f \in ToSet(stack') : Is(f, "delete", "called") => f \in ToSet(stack) \/ f.obj \in called'
  PROVE  FinalizedInv'
<1>1. /\ \A x \in Object : tag[x] = "dtor" /\ x \notin called => x \in HasDestructor /\ memory[x] = "live"
      /\ \A f \in ToSet(stack) : Is(f, "delete", "called") => f.obj \in called
  BY FinalizedIs
<1>2. /\ \A f \in ToSet(stack) : f \in Frames /\ CallOf(f, memory, rc, tag)
      /\ MemoryOf(heap, memory, rc, tag, ToSet(stack))
  BY InvIs
<1>3. ASSUME NEW x \in Object, tag'[x] = "dtor", x \notin called' PROVE x \in HasDestructor /\ memory'[x] = "live"
  <2>1. tag[x] = "dtor" /\ memory'[x] = memory[x] BY <1>3
  <2>2. x \notin called BY <1>2, <1>3, <2>1 DEF MemoryOf
  <2> QED BY <1>1, <2>1, <2>2
<1>4. ASSUME NEW f \in ToSet(stack'), Is(f, "delete", "called") PROVE f.obj \in called'
  <2>1. ASSUME f \in ToSet(stack) PROVE f.obj \in called'
    <3>1. f.obj \in Object /\ memory[f.obj] = "live" BY <1>2, <1>4, <2>1, FrameTypes DEF CallOf, Is
    <3>2. f.obj \in called BY <1>1, <1>4, <2>1
    <3> QED BY <3>1, <3>2
  <2> QED BY <1>4, <2>1
<1> QED BY <1>3, <1>4, FinalizedIs

AbstractStep == [Abstract!Next]_<<Value, Memory("live"), called, Doomed, Destructors>>

LEMMA ValueSame ==
  ASSUME \A s \in Slot : Owner[s] = Global \/ (Owner[s] \in Object /\ memory[Owner[s]] = "live") => heap'[s] = heap[s],
         \A x \in Object : memory'[x] = "live" <=> memory[x] = "live"
  PROVE  Value' = Value /\ Memory("live")' = Memory("live")
<1>1. ValueOf(heap', memory') = ValueOf(heap, memory) BY DEF ValueOf
<1> QED BY <1>1, AbstractIs

LEMMA Stutters ==
  ASSUME \A s \in Slot : Owner[s] = Global \/ (Owner[s] \in Object /\ memory[Owner[s]] = "live") => heap'[s] = heap[s],
         \A x \in Object : memory'[x] = "live" <=> memory[x] = "live",
         called' = called,
         \A x \in Object \ called : tag'[x] = "dtor" <=> tag[x] = "dtor",
         DepthsOf(stack') = DepthsOf(stack)
  PROVE  AbstractStep
<1>1. Value' = Value /\ Memory("live")' = Memory("live") BY ValueSame
<1>2. Doomed' = Doomed /\ Destructors' = Destructors BY AbstractIs
<1> QED BY <1>1, <1>2 DEF AbstractStep

\* A destructor is called.
LEMMA Finalizes ==
  ASSUME TypeInv, NEW o \in HasDestructor \ called, memory[o] = "live", o \notin Reachable \/ tag[o] = "dtor",
         heap' = heap, memory' = memory, called' = called \cup {o},
         \A x \in Object : x # o => (tag'[x] = "dtor" <=> tag[x] = "dtor"),
         OnTop(DepthsOf(stack'), DepthsOf(stack), o)
  PROVE  AbstractStep
<1>1. o \in Object BY GCAssumption
<1>2. Value' = Value /\ Memory("live")' = Memory("live") BY ValueSame
<1>3. o \in Memory("live") /\ (o \notin Reachable \/ o \in Doomed) BY <1>1, AbstractIs
<1>4. Doomed' = Doomed \ {o} BY AbstractIs
<1>5. \E d \in DOMAIN Destructors' :
          /\ \A e \in DOMAIN Destructors : e < d
          /\ Destructors' = [e \in DOMAIN Destructors \cup {d} |-> IF e = d THEN o ELSE Destructors[e]]
  BY AbstractIs DEF OnTop, OnTopAt
<1>6. Abstract!Finalize(o, Reachable) BY <1>2, <1>3, <1>4, <1>5 DEF Abstract!Finalize
<1>7. Abstract!Next BY <1>3, <1>6, KnownIs DEF Abstract!Next
<1> QED BY <1>7 DEF AbstractStep

\* An object disappears.
LEMMA Disappears ==
  ASSUME TypeInv, FinalizedInv, NEW o \in Object, memory[o] = "live", o \notin Reachable,
         o \in HasDestructor => o \in called, heap' = heap, called' = called, tag' = tag,
         memory'[o] # "live", \A x \in Object : x # o => memory'[x] = memory[x],
         DepthsOf(stack') = DepthsOf(stack)
  PROVE  AbstractStep
<1>1. Memory("live")' = Memory("live") \ {o} /\ o \in Memory("live") BY AbstractIs
<1>2. o \notin Doomed BY FinalizedIs, AbstractIs
<1>3. Doomed' = Doomed \ {o} /\ Destructors' = Destructors BY <1>2, AbstractIs
<1>4. Value' = [s \in Slot |-> IF Owner[s] = o THEN Nil ELSE Value[s]]
  <2>1. ValueOf(heap', memory') = [s \in Slot |-> IF Owner[s] = o THEN Nil ELSE ValueOf(heap, memory)[s]]
    BY GCAssumption DEF ValueOf
  <2> QED BY <2>1, AbstractIs
<1>5. Abstract!Reclaim(o, Reachable) BY <1>1, <1>3, <1>4 DEF Abstract!Reclaim
<1>6. Abstract!Next BY <1>1, <1>5, KnownIs DEF Abstract!Next
<1> QED BY <1>6 DEF AbstractStep

\* What no slot and no destructor holds is out of reach.
LEMMA Unreached ==
  ASSUME TypeInv, NEW o \in Object, \A s \in Slot : heap[s] # o,
         \A f \in ToSet(stack) : f.op = "destruct" => f.obj # o
  PROVE  o \notin Reachable
<1> DEFINE T == Object \ {o}
<1>1. \A s \in Slot : heap[s] # Nil => heap[s] \in T BY DEF TypeInv
<1>2. \A f \in ToSet(stack) : f.op = "destruct" => f.obj \in T BY InStack, FrameTypes DEF TypeInv
<1>3. T \in SUBSET Object /\ o \notin T OBVIOUS
<1> HIDE DEF T
<1> QED BY <1>1, <1>2, <1>3, KnownIs
LEMMA ReplaceMoves ==
  ASSUME TypeInv, NEW s \in Slot, NEW v, NEW cnt, Replace(s, v, cnt)
  PROVE  /\ heap' = [heap EXCEPT ![s] = v]
         /\ DepthsOf(stack') = DepthsOf(stack)
         /\ \A f \in ToSet(stack') : f \in ToSet(stack) \/ ~Is(f, "delete", "called")
         /\ \A f \in ToSet(stack') : f \in ToSet(stack) \/ f.op # "collect" \/ f.at = "start"
         /\ \A x \in Object : tag'[x] = "dtor" <=> tag[x] = "dtor"
<1>1. heap' = [heap EXCEPT ![s] = v] BY DEF Replace
<1>2. CASE heap[s] = Nil
  <2>1. stack' = stack /\ tag' = tag BY <1>2 DEF Replace
  <2> QED BY <1>1, <2>1
<1>3. CASE heap[s] # Nil
  <2>1. heap[s] \in Object /\ stack \in Seq(Frames) BY <1>3 DEF TypeInv
  <2>2. Drop(heap[s], cnt, stack) BY <1>3 DEF Replace
  <2> QED BY <1>1, <2>1, <2>2, DropMoves
<1> QED BY <1>2, <1>3

LEMMA AssignPromise ==
  ASSUME IInv, FinalizedInv, NEW s \in SlotsOf(Reachable \cup {Global}), NEW o \in Reachable \cup {Nil},
         NEW cnt, Replace(s, o, cnt), memory' = memory, called' = called
  PROVE  FinalizedInv' /\ AbstractStep
<1>1. TypeInv BY DEF IInv
<1>2. s \in Slot /\ (Owner[s] = Global \/ (Owner[s] \in Object /\ memory[Owner[s]] = "live")) BY KnownSlot
<1>3. /\ heap' = [heap EXCEPT ![s] = o]
      /\ DepthsOf(stack') = DepthsOf(stack)
      /\ \A f \in ToSet(stack') : f \in ToSet(stack) \/ ~Is(f, "delete", "called")
      /\ \A x \in Object : tag'[x] = "dtor" <=> tag[x] = "dtor"
  BY <1>1, <1>2, ReplaceMoves
<1>4. FinalizedInv' BY <1>3, FinalizedKept
<1>5. Value' = [Value EXCEPT ![s] = o]
  <2>1. ValueOf(heap', memory') = [ValueOf(heap, memory) EXCEPT ![s] = o] BY <1>1, <1>2, <1>3 DEF ValueOf, TypeInv
  <2> QED BY <2>1, AbstractIs
<1>6. Memory("live")' = Memory("live") BY DEF Memory
<1>7. Doomed' = Doomed /\ Destructors' = Destructors BY <1>3, AbstractIs
<1>8. Abstract!Assign(s, o) BY <1>5, <1>6, <1>7 DEF Abstract!Assign
<1>9. s \in {r \in Slot : Owner[r] \in Reachable \cup {Global}} BY DEF SlotsOf
<1>10. Abstract!Program(Reachable) BY <1>8, <1>9 DEF Abstract!Program
<1>11. Abstract!Next BY <1>1, <1>10, KnownIs DEF Abstract!Next
<1> QED BY <1>4, <1>11 DEF AbstractStep

LEMMA NewPromise ==
  ASSUME IInv, FinalizedInv, NEW s \in SlotsOf(Reachable \cup {Global}), NEW o \in Object, New(o, s)
  PROVE  FinalizedInv' /\ AbstractStep
<1>1. TypeInv /\ MemoryOf(heap, memory, rc, tag, ToSet(stack)) BY InvIs
<1>2. s \in Slot /\ (Owner[s] = Global \/ (Owner[s] \in Object /\ memory[Owner[s]] = "live")) BY KnownSlot
<1>3. /\ memory[o] = "free" /\ memory' = [memory EXCEPT ![o] = "live"] /\ called' = called \ {o}
      /\ Replace(s, o, [rc EXCEPT ![o] = 1])
  BY DEF New
<1> DEFINE cnt == [rc EXCEPT ![o] = 1]
<1>4. Replace(s, o, cnt) BY <1>3
<1> HIDE DEF cnt
<1>5. /\ heap' = [heap EXCEPT ![s] = o]
      /\ DepthsOf(stack') = DepthsOf(stack)
      /\ \A f \in ToSet(stack') : f \in ToSet(stack) \/ ~Is(f, "delete", "called")
      /\ \A x \in Object : tag'[x] = "dtor" <=> tag[x] = "dtor"
  BY <1>1, <1>2, <1>4, ReplaceMoves
<1>6. tag[o] = "none" /\ \A r \in Slot : Owner[r] = o => heap[r] = Nil BY <1>1, <1>3 DEF MemoryOf, EmptyIn
<1>7. memory'[o] = "live" /\ \A x \in Object : x # o => memory'[x] = memory[x] BY <1>1, <1>3 DEF TypeInv
<1>8. FinalizedInv' BY <1>3, <1>5, <1>6, <1>7, FinalizedKept
<1>9. Value' = [Value EXCEPT ![s] = o]
  <2>1. Owner[s] # o BY <1>2, <1>3, GCAssumption
  <2>2. ASSUME NEW r \in Slot, r # s PROVE ValueOf(heap', memory')[r] = ValueOf(heap, memory)[r]
    <3>1. heap'[r] = heap[r] BY <1>1, <1>5, <2>2 DEF TypeInv
    <3> QED BY <1>3, <1>6, <1>7, <3>1 DEF ValueOf
  <2>3. ValueOf(heap', memory')[s] = o BY <1>1, <1>2, <1>3, <1>5, <1>7, <2>1 DEF ValueOf, TypeInv
  <2>4. ValueOf(heap', memory') = [ValueOf(heap, memory) EXCEPT ![s] = o] BY <1>2, <2>2, <2>3 DEF ValueOf
  <2> QED BY <2>4, AbstractIs
<1>10. Memory("live")' = Memory("live") \cup {o} /\ o \notin Memory("live") BY <1>3, <1>7, AbstractIs
<1>11. Doomed' = Doomed /\ Destructors' = Destructors BY <1>3, <1>5, <1>6, AbstractIs
<1>12. Abstract!New(o, s) BY <1>3, <1>9, <1>10, <1>11 DEF Abstract!New
<1>13. s \in {r \in Slot : Owner[r] \in Reachable \cup {Global}} BY DEF SlotsOf
<1>14. Abstract!Program(Reachable) BY <1>12, <1>13 DEF Abstract!Program
<1>15. Abstract!Next BY <1>1, <1>14, KnownIs DEF Abstract!Next
<1> QED BY <1>8, <1>15 DEF AbstractStep

LEMMA ProgramPromise ==
  ASSUME IInv, FinalizedInv, Program
  PROVE  FinalizedInv' /\ AbstractStep
<1>1. TypeInv BY DEF IInv
<1>2. ASSUME NEW s \in SlotsOf(Reachable \cup {Global}), Unset(s) PROVE FinalizedInv' /\ AbstractStep
  BY <1>2, AssignPromise DEF Unset
<1>3. ASSUME NEW s \in SlotsOf(Reachable \cup {Global}), NEW o \in Reachable, Assign(s, o)
      PROVE  FinalizedInv' /\ AbstractStep
  <2> DEFINE cnt == [rc EXCEPT ![o] = @ + 1]
  <2>1. Replace(s, o, cnt) /\ memory' = memory /\ called' = called BY <1>3 DEF Assign
  <2> HIDE DEF cnt
  <2> QED BY <2>1, AssignPromise
<1>4. ASSUME CollectCycles PROVE FinalizedInv' /\ AbstractStep
  <2> DEFINE c == Collect(TRUE)
  <2>1. /\ stack' = Append(stack, c) /\ heap' = heap /\ memory' = memory /\ rc' = rc /\ tag' = tag /\ called' = called
    BY <1>4 DEF CollectCycles
  <2>2. c \in Frames /\ c.op = "collect" BY DEF Frames, Collect
  <2> HIDE DEF c
  <2>3. stack \in Seq(Frames) BY <1>1 DEF TypeInv
  <2>4. ToSet(stack') = ToSet(stack) \cup {c} /\ DepthsOf(stack') = DepthsOf(stack) BY <2>1, <2>2, <2>3, Push, DepthsPush
  <2>5. FinalizedInv' BY <2>1, <2>2, <2>4, FinalizedKept DEF Is
  <2> QED BY <2>1, <2>4, <2>5, Stutters
<1>5. ASSUME DestructorReturns PROVE FinalizedInv' /\ AbstractStep
  <2> DEFINE st == Front(stack)
  <2>1. stack # <<>> /\ Top.op = "destruct" /\ Drop(Top.obj, rc, st) /\ heap' = heap /\ memory' = memory /\ called' = called
    BY <1>5 DEF DestructorReturns, On
  <2>2. /\ st \in Seq(Frames) /\ ToSet(stack) = ToSet(st) \cup {Top} /\ Top \in Frames
        /\ OnTop(DepthsOf(stack), DepthsOf(st), Top.obj)
    BY <1>1, <2>1, DepthsTop
  <2>3. Top.obj \in Object BY <2>1, <2>2, FrameTypes
  <2> HIDE DEF st
  <2>4. /\ DepthsOf(stack') = DepthsOf(st)
        /\ \A f \in ToSet(stack') : f \in ToSet(st) \/ ~Is(f, "delete", "called")
        /\ \A x \in Object : tag'[x] = "dtor" <=> tag[x] = "dtor"
    BY <1>1, <2>1, <2>2, <2>3, DropMoves
  <2>5. FinalizedInv' BY <2>1, <2>2, <2>4, FinalizedKept
  <2>6. Value' = Value /\ Memory("live")' = Memory("live") BY <2>1, ValueSame
  <2>7. Doomed' = Doomed BY <2>1, <2>4, AbstractIs
  <2>8. \E d \in DOMAIN Destructors :
            /\ \A e \in DOMAIN Destructors : e <= d
            /\ Destructors' = [e \in DOMAIN Destructors \ {d} |-> Destructors[e]]
    <3> DEFINE p == DepthsOf(stack)
               q == DepthsOf(st)
    <3>1. PICK d \in DOMAIN p \cap Nat : OnTopAt(p, q, Top.obj, d) BY <2>2 DEF OnTop
    <3>2. Destructors = p /\ Destructors' = q BY <2>4, AbstractIs
    <3> HIDE DEF p, q
    <3>3. /\ \A e \in DOMAIN q : e \in Nat /\ e < d
          /\ p = [e \in DOMAIN q \cup {d} |-> IF e = d THEN Top.obj ELSE q[e]]
          /\ q = [e \in DOMAIN p \ {d} |-> p[e]]
      BY <3>1 DEF OnTopAt
    <3>4. DOMAIN p = DOMAIN q \cup {d} BY <3>3
    <3>5. \A e \in DOMAIN p : e <= d BY <3>3, <3>4
    <3> QED BY <3>2, <3>3, <3>5
  <2>9. Abstract!Return BY <2>1, <2>6, <2>7, <2>8 DEF Abstract!Return
  <2>10. Abstract!Next BY <2>9 DEF Abstract!Next
  <2> QED BY <2>5, <2>10 DEF AbstractStep
<1>6. ASSUME NEW s \in SlotsOf(Reachable \cup {Global}), NEW o \in Object, New(o, s) PROVE FinalizedInv' /\ AbstractStep
  BY <1>6, NewPromise
<1> QED BY <1>2, <1>3, <1>4, <1>5, <1>6 DEF Program
\* The innermost call is replaced by one that is no destructor, or ends, or another
\* is called on top of it.
LEMMA CallsPromise ==
  ASSUME IInv, FinalizedInv, stack # <<>>, Top.op # "destruct", NEW f \in Frames, ~Is(f, "delete", "called"),
         f.op # "destruct",
         stack' \in {Front(stack), Append(Front(stack), f), Append(stack, f)}
  PROVE  /\ DepthsOf(stack') = DepthsOf(stack)
         /\ \A g \in ToSet(stack') : Is(g, "delete", "called") => g \in ToSet(stack)
<1> DEFINE st == Front(stack)
<1>1. TypeInv /\ stack \in Seq(Frames) BY InvIs
<1>2. st \in Seq(Frames) /\ ToSet(stack) = ToSet(st) \cup {Top} /\ DepthsOf(st) = DepthsOf(stack) BY <1>1, DepthsTop
<1> HIDE DEF st
<1>3. ToSet(Append(st, f)) = ToSet(st) \cup {f} /\ ToSet(Append(stack, f)) = ToSet(stack) \cup {f} BY <1>1, <1>2, Push
<1>4. DepthsOf(Append(st, f)) = DepthsOf(st) BY <1>2, DepthsPush
<1>5. DepthsOf(Append(stack, f)) = DepthsOf(stack) BY <1>1, DepthsPush
<1>6. stack' \in {st, Append(st, f), Append(stack, f)} BY DEF st
<1> QED BY <1>2, <1>3, <1>4, <1>5, <1>6

LEMMA FreePromise ==
  ASSUME IInv, FinalizedInv, stack # <<>>, Top.op = "delete", NEW o \in Object, memory[o] = "live",
         o \notin Reachable, o \in HasDestructor => o \in called,
         FreeObj(o), heap' = heap, tag' = tag, called' = called
  PROVE  FinalizedInv' /\ AbstractStep
<1> DEFINE f == Free(o, "delete")
<1>1. TypeInv BY InvIs
<1>2. memory' = [memory EXCEPT ![o] = "dying"] /\ stack' = Append(Front(stack), f) BY DEF FreeObj, Above
<1>3. f \in Frames /\ f.op = "free" BY DEF Frames, Free
<1> HIDE DEF f
<1>4. /\ DepthsOf(stack') = DepthsOf(stack)
      /\ \A g \in ToSet(stack') : Is(g, "delete", "called") => g \in ToSet(stack)
  BY <1>2, <1>3, CallsPromise DEF Is
<1>5. memory'[o] = "dying" /\ \A x \in Object : x # o => memory'[x] = memory[x] BY <1>1, <1>2 DEF TypeInv
<1>6. tag[o] = "dtor" => o \in called BY FinalizedIs
<1>7. FinalizedInv' BY <1>4, <1>5, <1>6, FinalizedKept
<1>8. AbstractStep BY <1>1, <1>4, <1>5, Disappears
<1> QED BY <1>7, <1>8

\* What is deleted is held by the call that deletes it, at most.
LEMMA DeletedIs ==
  ASSUME IInv, stack # <<>>, Top.op = "delete", Top.at = "enter" \/ rc[Top.obj] = 1
  PROVE  Top.obj \in Object /\ memory[Top.obj] = "live" /\ Top.obj \notin Reachable
<1> DEFINE o == Top.obj
           st == Front(stack)
<1>1. /\ TypeInv /\ StackInv /\ stack \in Seq(Frames) /\ Exact(heap, stack, rc)
      /\ \A f \in ToSet(stack) : f \in Frames /\ CallOf(f, memory, rc, tag)
  BY InvIs
<1>2. /\ Top \in Frames /\ ToSet(stack) = ToSet(st) \cup {Top} /\ st \in Seq(Frames)
      /\ Cardinality(Holders(stack, o)) = Cardinality(Holders(st, o)) + (IF Holds(Top) /\ Top.obj = o THEN 1 ELSE 0)
  BY <1>1, TopOn
<1>3. CallOf(Top, memory, rc, tag) BY <1>1, <1>2
<1>4. o \in Object /\ memory[o] = "live" BY <1>2, <1>3, FrameTypes DEF CallOf
<1>5. rc[o] = Cardinality(SlotsAt(heap, o)) + Cardinality(Holders(stack, o)) BY <1>1, <1>4 DEF Exact
<1>6. /\ Cardinality(SlotsAt(heap, o)) \in Nat /\ Cardinality(Holders(stack, o)) \in Nat
      /\ Cardinality(Holders(st, o)) \in Nat
  BY <1>1, <1>2, SlotsFinite, HoldersFinite
<1> HIDE DEF o, st
<1>7. Cardinality(SlotsAt(heap, o)) = 0 /\ Cardinality(Holders(st, o)) = 0
  <2>1. CASE Top.at = "enter"
    <3>1. rc[o] = 0 BY <1>3, <2>1 DEF CallOf, Is, o
    <3>2. Cardinality(Holders(stack, o)) = Cardinality(Holders(st, o)) + 0
      BY <1>2, <2>1 DEF Holds
    <3> QED BY <1>5, <1>6, <3>1, <3>2
  <2>2. CASE Top.at = "called" /\ rc[o] = 1
    <3>1. Cardinality(Holders(stack, o)) = Cardinality(Holders(st, o)) + 1
      BY <1>2, <2>2 DEF Holds, o
    <3> QED BY <1>5, <1>6, <2>2, <3>1
  <2> QED BY <1>2, <2>1, <2>2, FrameTypes DEF o
<1>8. \A s \in Slot : heap[s] # o BY <1>7, SlotsFinite
<1>9. \A f \in ToSet(stack) : f.op = "destruct" => f.obj # o
  <2>1. \A f \in ToSet(st) : Holds(f) => f.obj # o BY <1>2, <1>7, HolderCounts
  <2>2. \A f \in ToSet(stack) : f.op = "destruct" => f \in ToSet(st) /\ Holds(f) BY <1>1, <1>2, FrameTypes
  <2> QED BY <2>1, <2>2
<1>10. o \notin Reachable BY <1>1, <1>4, <1>8, <1>9, Unreached
<1> QED BY <1>4, <1>10 DEF o

LEMMA DelEnterPromise ==
  ASSUME IInv, FinalizedInv, DelEnter
  PROVE  FinalizedInv' /\ AbstractStep
<1> DEFINE o == Top.obj
           st == Front(stack)
           f1 == [Top EXCEPT !.at = "called"]
           f2 == Destruct(o)
           t == Append(st, f1)
<1>1. TypeInv BY InvIs
<1>2. stack # <<>> /\ Top.op = "delete" /\ Top.at = "enter" /\ heap' = heap /\ tag' = tag BY DEF DelEnter, On
<1>3. o \in Object /\ memory[o] = "live" /\ o \notin Reachable BY <1>2, DeletedIs
<1>4. CASE NeedsDestructor(o)
  <2>1. called' = called \cup {o} /\ stack' = Append(t, f2) /\ memory' = memory
    BY <1>4 DEF DelEnter, Goto, Above
  <2>2. /\ st \in Seq(Frames) /\ ToSet(stack) = ToSet(st) \cup {Top} /\ Top \in Frames
        /\ DepthsOf(st) = DepthsOf(stack)
    BY <1>1, <1>2, DepthsTop
  <2>3. f1 \in Frames /\ f1.op = "delete" /\ f1.obj = o BY <1>2, <2>2, MovedFrames
  <2>4. f2 \in Frames /\ f2.op = "destruct" /\ f2.obj = o BY <1>3 DEF Frames, Destruct
  <2> HIDE DEF o, st, f1, f2
  <2>5. t \in Seq(Frames) /\ ToSet(t) = ToSet(st) \cup {f1} /\ DepthsOf(t) = DepthsOf(st) BY <2>2, <2>3, Push, DepthsPush
  <2> HIDE DEF t
  <2>6. ToSet(stack') = ToSet(t) \cup {f2} /\ OnTop(DepthsOf(stack'), DepthsOf(t), o) BY <2>1, <2>4, <2>5, Push, DepthsPush
  <2>7. FinalizedInv' BY <1>2, <2>1, <2>2, <2>3, <2>4, <2>5, <2>6, FinalizedKept DEF Is
  <2>8. o \in HasDestructor \ called BY <1>4 DEF NeedsDestructor
  <2>9. AbstractStep BY <1>1, <1>2, <1>3, <2>1, <2>2, <2>5, <2>6, <2>8, Finalizes
  <2> QED BY <2>7, <2>9
<1>5. CASE ~NeedsDestructor(o)
  <2>1. FreeObj(o) /\ called' = called BY <1>5 DEF DelEnter
  <2>2. o \in HasDestructor => o \in called BY <1>5 DEF NeedsDestructor
  <2> HIDE DEF o
  <2> QED BY <1>2, <1>3, <2>1, <2>2, FreePromise
<1> QED BY <1>4, <1>5

LEMMA DeletionPromise ==
  ASSUME IInv, FinalizedInv, Deletion
  PROVE  FinalizedInv' /\ AbstractStep
<1>1. /\ TypeInv /\ stack \in Seq(Frames)
      /\ \A f \in ToSet(stack) : f \in Frames /\ CallOf(f, memory, rc, tag)
  BY InvIs
<1>2. ASSUME DelCalled PROVE FinalizedInv' /\ AbstractStep
  <2> DEFINE o == Top.obj
  <2>1. stack # <<>> /\ Top.op = "delete" /\ Top.at = "called" /\ heap' = heap /\ tag' = tag /\ called' = called
    BY <1>2 DEF DelCalled, On
  <2>2. CASE rc[o] = 1
    <3>1. o \in Object /\ memory[o] = "live" /\ o \notin Reachable BY <2>1, <2>2, DeletedIs
    <3>2. Top \in ToSet(stack) BY <1>1, <2>1, LastIn DEF Top
    <3>3. o \in called BY <2>1, <3>2, FinalizedIs DEF Is
    <3>4. FreeObj(o) BY <1>2, <2>2 DEF DelCalled
    <3> HIDE DEF o
    <3> QED BY <2>1, <3>1, <3>3, <3>4, FreePromise
  <2>3. CASE rc[o] # 1
    <3>1. stack' = Front(stack) /\ memory' = memory BY <1>2, <2>3 DEF DelCalled
    <3>2. /\ ToSet(stack) = ToSet(stack') \cup {Top} /\ DepthsOf(stack') = DepthsOf(stack)
      BY <1>1, <2>1, <3>1, DepthsTop
    <3>3. FinalizedInv' BY <2>1, <3>1, <3>2, FinalizedKept
    <3> QED BY <2>1, <3>1, <3>2, <3>3, Stutters
  <2> QED BY <2>2, <2>3
<1>3. ASSUME FreeSlot PROVE FinalizedInv' /\ AbstractStep
  <2>1. memory' = memory /\ called' = called BY <1>3, FreeSlotIs
  <2>2. PICK s \in Slot :
            /\ Owner[s] \in Object /\ memory[Owner[s]] \in {"dying", "null"} /\ heap[s] # Nil
            /\ heap' = [heap EXCEPT ![s] = Nil] /\ Drop(heap[s], rc, stack)
    BY <1>3, FreeSlotIs
  <2>3. heap[s] \in Object BY <1>1, <2>2 DEF TypeInv
  <2>4. /\ DepthsOf(stack') = DepthsOf(stack)
        /\ \A f \in ToSet(stack') : f \in ToSet(stack) \/ ~Is(f, "delete", "called")
        /\ \A x \in Object : tag'[x] = "dtor" <=> tag[x] = "dtor"
    BY <1>1, <2>2, <2>3, DropMoves
  <2>5. FinalizedInv' BY <2>1, <2>4, FinalizedKept
  <2>6. \A r \in Slot : Owner[r] = Global \/ (Owner[r] \in Object /\ memory[Owner[r]] = "live") => heap'[r] = heap[r]
    BY <1>1, <2>2, GCAssumption DEF TypeInv
  <2>7. AbstractStep BY <2>1, <2>4, <2>6, Stutters
  <2> QED BY <2>5, <2>7
<1>4. ASSUME FreeDone PROVE FinalizedInv' /\ AbstractStep
  <2> DEFINE o == Top.obj
  <2>1. /\ stack # <<>> /\ Top.op = "free" /\ stack' = Front(stack) /\ heap' = heap /\ called' = called
        /\ \/ memory' = memory /\ tag' = tag
           \/ memory' = [memory EXCEPT ![o] = "free"] /\ tag' = [tag EXCEPT ![o] = "none"]
    BY <1>4 DEF FreeDone, Freeing
  <2>2. /\ ToSet(stack) = ToSet(stack') \cup {Top} /\ DepthsOf(stack') = DepthsOf(stack) /\ Top \in Frames
    BY <1>1, <2>1, DepthsTop
  <2>3. o \in Object /\ memory[o] # "live"
    <3>1. CallOf(Top, memory, rc, tag) BY <1>1, <2>2
    <3> QED BY <2>1, <2>2, <3>1, FrameTypes DEF CallOf, Is
  <2> HIDE DEF o
  <2>4. /\ \A x \in Object : x # o => memory'[x] = memory[x] /\ tag'[x] = tag[x]
        /\ memory'[o] # "live" /\ (tag'[o] = "dtor" => tag[o] = "dtor" /\ memory'[o] = memory[o])
    BY <1>1, <2>1, <2>3 DEF TypeInv
  <2>5. tag[o] = "dtor" => o \in called BY <2>3, FinalizedIs
  <2>6. FinalizedInv' BY <2>1, <2>2, <2>4, FinalizedKept
  <2>7. AbstractStep
    <3>1. \A x \in Object : memory'[x] = "live" <=> memory[x] = "live" BY <2>3, <2>4
    <3>2. \A x \in Object \ called : tag'[x] = "dtor" <=> tag[x] = "dtor" BY <2>3, <2>4, <2>5
    <3> QED BY <2>1, <2>2, <3>1, <3>2, Stutters
  <2> QED BY <2>6, <2>7
<1> QED BY <1>2, <1>3, <1>4, DelEnterPromise DEF Deletion
\* What a trace finds white the program does not know.
LEMMA WhiteUnknown ==
  ASSUME IInv, On("collect", "start")
  PROVE  Reachable \cap White = {}
<1> DEFINE T == Object \ White
<1>1. TypeInv BY InvIs
<1>2. \A x \in White :
          /\ x \in Object /\ \A f \in ToSet(stack) : f.obj # x
          /\ \A s \in Slot : heap[s] = x => Owner[s] \in White
  BY WhiteIs
<1>3. \A f \in ToSet(stack) : f.op = "destruct" => f.obj \in T
  <2>1. \A f \in ToSet(stack) : f.op = "destruct" => f.obj \in Object BY <1>1, InStack, FrameTypes DEF TypeInv
  <2> QED BY <1>2, <2>1
<1>4. \A s \in Slot : heap[s] # Nil /\ (Owner[s] = Global \/ (Owner[s] \in T /\ memory[Owner[s]] = "live")) => heap[s] \in T
  BY <1>1, <1>2, GCAssumption DEF TypeInv
<1>5. T \in SUBSET Object /\ T \cap White = {} OBVIOUS
<1> HIDE DEF T
<1>6. Reachable \subseteq T BY <1>1, <1>3, <1>4, <1>5, KnownIs
<1> QED BY <1>5, <1>6

LEMMA TracePromise ==
  ASSUME IInv, FinalizedInv, Trace
  PROVE  FinalizedInv' /\ AbstractStep
<1> DEFINE d == {x \in White : NeedsDestructor(x)} # {}
           f1 == [Top EXCEPT !.at = "dtors", !.dtors = d]
<1>1. TypeInv /\ \A f \in ToSet(stack) : f \in Frames BY InvIs
<1>2. /\ On("collect", "start") /\ stack # <<>> /\ Top.op = "collect" /\ Top.at = "start"
      /\ stack' \in {Front(stack), Append(Front(stack), f1)}
      /\ heap' = heap /\ memory' = memory /\ called' = called
  BY DEF Trace, On, Above
<1>3. f1 \in Frames /\ f1.op = "collect"
  <2>1. Top \in Frames /\ d \in BOOLEAN BY <1>1, <1>2, DepthsTop
  <2> HIDE DEF d
  <2> QED BY <1>2, <2>1 DEF Frames
<1> HIDE DEF f1
<1>4. /\ DepthsOf(stack') = DepthsOf(stack)
      /\ \A g \in ToSet(stack') : Is(g, "delete", "called") => g \in ToSet(stack)
  BY <1>2, <1>3, CallsPromise DEF Is
<1>5. \A x \in Object : tag'[x] = "dtor" => x \in White /\ memory[x] = "live" /\ x \in HasDestructor \ called
  <2>1. \A x \in Object : tag'[x] = "dtor" => x \in White /\ x \in HasDestructor \ called BY TraceTags
  <2> QED BY <1>2, <2>1, WhiteIs
<1>6. \A x \in Object : tag[x] # "dtor" BY <1>2, AtStart
<1>7. FinalizedInv' BY <1>2, <1>4, <1>5, FinalizedIs
<1>8. Value' = Value /\ Memory("live")' = Memory("live") BY <1>2, ValueSame
<1>9. Destructors' = Destructors BY <1>4, AbstractIs
<1>10. Doomed = {} BY <1>6, AbstractIs
<1>11. \A x \in Doomed' : x \in White /\ x \notin called BY <1>5, AbstractIs
<1>12. Doomed' \cap (Reachable \cup called) = {} BY <1>2, <1>11, WhiteUnknown
<1>13. Abstract!Doom(Reachable) BY <1>2, <1>8, <1>9, <1>10, <1>12 DEF Abstract!Doom
<1>14. Abstract!Next BY <1>1, <1>13, KnownIs DEF Abstract!Next
<1> QED BY <1>7, <1>14 DEF AbstractStep

LEMMA CallDestructorPromise ==
  ASSUME IInv, FinalizedInv, NEW o \in Object, CallDestructor(o)
  PROVE  FinalizedInv' /\ AbstractStep
<1> DEFINE st == Front(stack)
           f1 == [Top EXCEPT !.at = "called", !.obj = o]
           f2 == Destruct(o)
           t == Append(st, f1)
<1>1. TypeInv /\ stack \in Seq(Frames) BY InvIs
<1>2. /\ stack # <<>> /\ Top.op = "collect" /\ Top.at = "dtors" /\ tag[o] = "dtor"
      /\ heap' = heap /\ memory' = memory /\ tag' = [tag EXCEPT ![o] = "root"]
  BY DEF CallDestructor, On
<1>3. tag'[o] = "root" /\ \A x \in Object : x # o => tag'[x] = tag[x] BY <1>1, <1>2 DEF TypeInv
<1>4. CASE o \in called
  <2>1. called' = called /\ stack' = stack BY <1>4 DEF CallDestructor
  <2>2. FinalizedInv' BY <1>2, <1>3, <2>1, FinalizedKept
  <2>3. AbstractStep BY <1>2, <1>3, <1>4, <2>1, Stutters
  <2> QED BY <2>2, <2>3
<1>5. CASE o \notin called
  <2>1. called' = called \cup {o} /\ stack' = Append(t, f2) BY <1>5 DEF CallDestructor, Above
  <2>2. /\ st \in Seq(Frames) /\ ToSet(stack) = ToSet(st) \cup {Top} /\ Top \in Frames
        /\ DepthsOf(st) = DepthsOf(stack)
    BY <1>1, <1>2, DepthsTop
  <2>3. f1 \in Frames /\ f1.op = "collect"
    <3>1. Top \in Frames /\ Top.op = "collect" BY <1>2, <2>2
    <3> QED BY <3>1 DEF Frames
  <2>4. f2 \in Frames /\ f2.op = "destruct" /\ f2.obj = o BY DEF Frames, Destruct
  <2> HIDE DEF st, f1, f2
  <2>5. t \in Seq(Frames) /\ ToSet(t) = ToSet(st) \cup {f1} /\ DepthsOf(t) = DepthsOf(st) BY <2>2, <2>3, Push, DepthsPush
  <2> HIDE DEF t
  <2>6. ToSet(stack') = ToSet(t) \cup {f2} /\ OnTop(DepthsOf(stack'), DepthsOf(t), o) BY <2>1, <2>4, <2>5, Push, DepthsPush
  <2>7. FinalizedInv' BY <1>2, <1>3, <2>1, <2>2, <2>3, <2>4, <2>5, <2>6, FinalizedKept DEF Is
  <2>8. o \in HasDestructor \ called /\ memory[o] = "live" BY <1>2, <1>5, FinalizedIs
  <2>9. \A x \in Object : x # o => (tag'[x] = "dtor" <=> tag[x] = "dtor") BY <1>3
  <2>10. AbstractStep
    <3>1. OnTop(DepthsOf(stack'), DepthsOf(stack), o) BY <2>2, <2>5, <2>6
    <3> QED BY <1>1, <1>2, <2>1, <2>8, <2>9, <3>1, Finalizes
  <2> QED BY <2>7, <2>10
<1> QED BY <1>4, <1>5

LEMMA DestroyPromise ==
  ASSUME IInv, FinalizedInv, NEW o \in Object, Destroy(o)
  PROVE  FinalizedInv' /\ AbstractStep
<1> DEFINE f == Free(o, "collect")
<1>1. TypeInv /\ GarbageOf(heap, tag, called, ToSet(stack)) BY InvIs
<1>2. /\ stack # <<>> /\ Top.op = "collect" /\ tag[o] = "garbage" /\ memory[o] = "live"
      /\ memory' = [memory EXCEPT ![o] = "null"] /\ stack' = Append(stack, f)
      /\ heap' = heap /\ tag' = tag /\ called' = called
  BY DEF Destroy, On
<1>3. f \in Frames /\ f.op = "free" BY DEF Frames, Free
<1> HIDE DEF f
<1>4. /\ DepthsOf(stack') = DepthsOf(stack)
      /\ \A g \in ToSet(stack') : Is(g, "delete", "called") => g \in ToSet(stack)
  BY <1>2, <1>3, CallsPromise DEF Is
<1>5. memory'[o] = "null" /\ \A x \in Object : x # o => memory'[x] = memory[x] BY <1>1, <1>2 DEF TypeInv
<1>6. FinalizedInv' BY <1>2, <1>4, <1>5, FinalizedKept
<1>7. o \notin Reachable BY <1>2, KnownIsLive
<1>8. o \in HasDestructor => o \in called BY <1>1, <1>2 DEF GarbageOf
<1>9. AbstractStep BY <1>1, <1>2, <1>4, <1>5, <1>7, <1>8, Disappears
<1> QED BY <1>6, <1>9

LEMMA CollectorPromise ==
  ASSUME IInv, FinalizedInv, Collector
  PROVE  FinalizedInv' /\ AbstractStep
<1>1. TypeInv /\ stack \in Seq(Frames) BY InvIs
\* The other steps change counts, calls, and what is free.
<1>2. ASSUME stack # <<>>, Top.op # "destruct", NEW f \in Frames, f.op # "destruct", ~Is(f, "delete", "called"),
             stack' \in {Front(stack), Append(Front(stack), f)}, heap' = heap, called' = called,
             \A x \in Object : memory'[x] = memory[x] \/ (memory[x] # "live" /\ memory'[x] = "free" /\ tag'[x] = "none"),
             \A x \in Object : tag'[x] = "dtor" <=> tag[x] = "dtor"
      PROVE  FinalizedInv' /\ AbstractStep
  <2>1. stack' \in {Front(stack), Append(Front(stack), f), Append(stack, f)} BY <1>2
  <2>2. /\ DepthsOf(stack') = DepthsOf(stack)
        /\ \A g \in ToSet(stack') : Is(g, "delete", "called") => g \in ToSet(stack)
    BY <1>2, <2>1, CallsPromise
  <2>3. FinalizedInv' BY <1>2, <2>2, FinalizedKept
  <2>4. AbstractStep BY <1>2, <2>2, Stutters
  <2> QED BY <2>3, <2>4
<1>3. ASSUME Called PROVE FinalizedInv' /\ AbstractStep
  <2> DEFINE f == [Top EXCEPT !.at = "dtors", !.obj = Nil]
  <2>1. /\ stack # <<>> /\ Top.op = "collect" /\ stack' = Append(Front(stack), f)
        /\ heap' = heap /\ memory' = memory /\ tag' = tag /\ called' = called
    BY <1>3 DEF Called, On, Above
  <2>2. f \in Frames /\ f.op = "collect" BY <1>1, <2>1, DepthsTop, MovedFrames
  <2> HIDE DEF f
  <2> QED BY <1>2, <2>1, <2>2 DEF Is
<1>4. ASSUME DestructorsCalled PROVE FinalizedInv' /\ AbstractStep
  <2> DEFINE f == [Top EXCEPT !.at = "destroy"]
  <2>1. /\ stack # <<>> /\ Top.op = "collect" /\ Top.at = "dtors" /\ stack' = Append(Front(stack), f)
        /\ heap' = heap /\ memory' = memory /\ tag' = tag /\ called' = called
    BY <1>4 DEF DestructorsCalled, On, Above, Goto
  <2>2. f \in Frames /\ f.op = "collect" BY <1>1, <2>1, DepthsTop, MovedFrames
  <2> HIDE DEF f
  <2> QED BY <1>2, <2>1, <2>2 DEF Is
<1>5. ASSUME Reclaim PROVE FinalizedInv' /\ AbstractStep
  <2> DEFINE f == Collect(FALSE)
  <2>1. /\ stack # <<>> /\ Top.op = "collect" /\ stack' \in {Front(stack), Append(Front(stack), f)}
        /\ heap' = heap /\ called' = called
        /\ Tagged("garbage") \cap Memory("live") = {}
        /\ memory' = [x \in Object |-> IF x \in Tagged("garbage") THEN "free" ELSE memory[x]]
        /\ tag' = [x \in Object |-> IF x \in Tagged("garbage") THEN "none" ELSE tag[x]]
    BY <1>5 DEF Reclaim, On
  <2>2. f \in Frames /\ f.op = "collect" BY DEF Frames, Collect
  <2> HIDE DEF f
  <2>3. \A x \in Object : memory'[x] = memory[x] \/ (memory[x] # "live" /\ memory'[x] = "free" /\ tag'[x] = "none")
    BY <2>1 DEF Tagged, Memory
  <2>4. \A x \in Object : tag'[x] = "dtor" <=> tag[x] = "dtor" BY <2>1 DEF Tagged
  <2> QED BY <1>2, <2>1, <2>2, <2>3, <2>4 DEF Is
<1>6. ASSUME FullReturns PROVE FinalizedInv' /\ AbstractStep
  <2> DEFINE f == Delete(Top.obj)
  <2>1. /\ stack # <<>> /\ Top.op = "full" /\ stack' \in {Front(stack), Append(Front(stack), f)}
        /\ heap' = heap /\ memory' = memory /\ called' = called
        /\ tag' = tag \/ (tag[Top.obj] = "none" /\ tag' = [tag EXCEPT ![Top.obj] = "root"])
    BY <1>6 DEF FullReturns, On, Above
  <2>2. f \in Frames /\ f.op = "delete" /\ f.at = "enter"
    <3>1. Top.obj \in Object BY <1>1, <2>1, DepthsTop, FrameTypes
    <3> QED BY <3>1 DEF Frames, Delete
  <2> HIDE DEF f
  <2>3. \A x \in Object : tag'[x] = "dtor" <=> tag[x] = "dtor" BY <1>1, <2>1 DEF TypeInv
  <2> QED BY <1>2, <2>1, <2>2, <2>3 DEF Is
<1> QED BY <1>3, <1>4, <1>5, <1>6, TracePromise, CallDestructorPromise, DestroyPromise DEF Collector

\* Destructors are called for live objects whose destructor was not called yet.
THEOREM FinalizedInductive == Spec => [](IInv /\ FinalizedInv)
<1>1. Init => IInv /\ FinalizedInv
  <2> SUFFICES ASSUME Init PROVE FinalizedInv BY InitInv
  <2>1. (\A o \in Object : tag[o] = "none") /\ ToSet(stack) = {} BY DEF Init, ToSet
  <2> QED BY <2>1, FinalizedIs
<1>2. IInv /\ FinalizedInv /\ [Next]_vars => (IInv /\ FinalizedInv)'
  <2> SUFFICES ASSUME IInv, FinalizedInv, [Next]_vars PROVE FinalizedInv' BY NextInv
  <2>1. CASE Next BY <2>1, ProgramPromise, DeletionPromise, CollectorPromise DEF Next
  <2>2. CASE UNCHANGED vars
    <3>1. memory' = memory /\ tag' = tag /\ called' = called /\ stack' = stack BY <2>2 DEF vars
    <3> QED BY <3>1, FinalizedIs
  <2> QED BY <2>1, <2>2
<1> QED BY <1>1, <1>2, PTL DEF Spec

\* Every run of counts, destructors and collections is one of ManagedHeap: what a
\* program can reach stays as it left it, and an object goes only when it is out of
\* reach and its destructor, if it has one, has been called, once.
THEOREM HeapRefines == Spec => ImplementsManagedHeap
<1>1. Init => Abstract!Init
  <2> SUFFICES ASSUME Init PROVE Abstract!Init OBVIOUS
  <2>1. /\ heap = [s \in Slot |-> Nil] /\ memory = [o \in Object |-> "free"] /\ tag = [o \in Object |-> "none"]
        /\ called = {} /\ stack = <<>>
    BY DEF Init
  <2>2. ValueOf(heap, memory) = [s \in Slot |-> Nil] BY <2>1 DEF ValueOf
  <2>3. Memory("live") = {} /\ Doomed = {} BY <2>1, AbstractIs
  <2>4. Destructors = [d \in {} |-> Nil] BY <2>1 DEF Destructors
  <2> QED BY <2>1, <2>2, <2>3, <2>4, AbstractIs DEF Abstract!Init
<1>2. IInv /\ FinalizedInv /\ [Next]_vars => [Abstract!Next]_(Abstract!vars)
  <2> SUFFICES ASSUME IInv, FinalizedInv, [Next]_vars PROVE AbstractStep BY DEF AbstractStep, Abstract!vars
  <2>1. CASE Next BY <2>1, ProgramPromise, DeletionPromise, CollectorPromise DEF Next
  <2>2. CASE UNCHANGED vars BY <2>2, Stutters DEF vars
  <2> QED BY <2>1, <2>2
<1> QED BY <1>1, <1>2, FinalizedInductive, PTL DEF Spec, ImplementsManagedHeap, Abstract!Spec
-----------------------------------------------------------------------------
(* A collection without destructors collects all garbage.                   *)

Disposing(f, tg) == (f.op = "free" \/ Is(f, "delete", "enter")) /\ tg[f.obj] = "garbage"
Cleaning(st) == \E f \in ToSet(st) : Clean(f)
Disposed(st, tg) == \A i, j \in DOMAIN st : Clean(st[i]) /\ i < j => Disposing(st[j], tg)
Keeps(T, h, m, tg, fs) ==
    /\ \A s \in Slot :
            /\ h[s] # Nil
            /\ \/ Owner[s] = Global
               \/ /\ Owner[s] \in Object /\ tg[Owner[s]] # "garbage"
                  /\ m[Owner[s]] = "dying" \/ (m[Owner[s]] = "live" /\ Owner[s] \in T)
            => h[s] \in T
    /\ \A f \in fs : f.obj \in Object /\ tg[f.obj] # "garbage" => f.obj \in T
KeepsAll(h, m, tg, fs) ==
    \A T \in SUBSET Object : Keeps(T, h, m, tg, fs) => \A x \in Object : m[x] = "live" /\ tg[x] # "garbage" => x \in T

LEMMA CleanIs ==
  /\ CleanInv <=> /\ \A f \in ToSet(stack) : Is(f, "collect", "called") => f.dtors
                  /\ Disposed(stack, tag)
                  /\ Cleaning(stack) => (\A x \in Object : tag[x] # "dtor") /\ KeepsAll(heap, memory, tag, ToSet(stack))
  /\ CleanInv' <=> /\ \A f \in ToSet(stack') : Is(f, "collect", "called") => f.dtors
                   /\ Disposed(stack', tag')
                   /\ Cleaning(stack') => (\A x \in Object : tag'[x] # "dtor") /\ KeepsAll(heap', memory', tag', ToSet(stack'))
<1>1. /\ \A T \in SUBSET Object : KeptClosed(T) <=> Keeps(T, heap, memory, tag, ToSet(stack))
      /\ \A T \in SUBSET Object : KeptClosed(T)' <=> Keeps(T, heap', memory', tag', ToSet(stack'))
  BY GCAssumption DEF KeptClosed, Keeps, Memory, Tagged, ToSet
<1>2. /\ (\A T \in SUBSET Object : KeptClosed(T) => Memory("live") \ Tagged("garbage") \subseteq T)
          <=> KeepsAll(heap, memory, tag, ToSet(stack))
      /\ (\A T \in SUBSET Object : KeptClosed(T)' => (Memory("live") \ Tagged("garbage"))' \subseteq T)
          <=> KeepsAll(heap', memory', tag', ToSet(stack'))
  BY <1>1 DEF KeepsAll, Memory, Tagged
<1>3. /\ Tagged("dtor") = {} <=> \A x \in Object : tag[x] # "dtor"
      /\ Tagged("dtor")' = {} <=> \A x \in Object : tag'[x] # "dtor"
  BY DEF Tagged
<1>4. /\ (\A i, j \in DOMAIN stack : Clean(stack[i]) /\ i < j => Disposes(stack[j])) <=> Disposed(stack, tag)
      /\ (\A i, j \in DOMAIN stack : Clean(stack[i]) /\ i < j => Disposes(stack[j]))' <=> Disposed(stack', tag')
  BY DEF Disposed, Disposes, Disposing, Is, Clean
<1>5. CleanInv <=> /\ \A f \in ToSet(stack) : Is(f, "collect", "called") => f.dtors
                   /\ \A i, j \in DOMAIN stack : Clean(stack[i]) /\ i < j => Disposes(stack[j])
                   /\ Cleaning(stack) =>
                          /\ Tagged("dtor") = {}
                          /\ \A T \in SUBSET Object : KeptClosed(T) => Memory("live") \ Tagged("garbage") \subseteq T
  BY DEF CleanInv, Cleaning
<1>6. CleanInv' <=> /\ \A f \in ToSet(stack') : Is(f, "collect", "called") => f.dtors
                    /\ (\A i, j \in DOMAIN stack : Clean(stack[i]) /\ i < j => Disposes(stack[j]))'
                    /\ Cleaning(stack') =>
                           /\ Tagged("dtor")' = {}
                           /\ \A T \in SUBSET Object : KeptClosed(T)' => (Memory("live") \ Tagged("garbage"))' \subseteq T
  BY DEF CleanInv, Cleaning, Is, Clean, ToSet
<1> QED BY <1>2, <1>3, <1>4, <1>5, <1>6

LEMMA DisposedPush ==
  ASSUME NEW st \in Seq(Frames), NEW f \in Frames, NEW tg
  PROVE  Disposed(Append(st, f), tg) <=> Disposed(st, tg) /\ (Cleaning(st) => Disposing(f, tg))
<1> DEFINE n == Len(st)
           a == Append(st, f)
<1>1. n \in Nat /\ DOMAIN st = 1 .. n /\ DOMAIN a = 1 .. n + 1 /\ a[n + 1] = f /\ \A i \in 1 .. n : a[i] = st[i]
  BY LenProperties, AppendProperties
<1>2. Cleaning(st) <=> \E i \in 1 .. n : Clean(st[i]) BY <1>1 DEF Cleaning, ToSet
<1> HIDE DEF n, a
<1>3. ASSUME Disposed(a, tg) PROVE Disposed(st, tg) /\ (Cleaning(st) => Disposing(f, tg))
  <2>1. Disposed(st, tg) BY <1>1, <1>3 DEF Disposed
  <2>2. ASSUME Cleaning(st) PROVE Disposing(f, tg)
    <3>1. PICK i \in 1 .. n : Clean(st[i]) BY <1>2, <2>2
    <3>2. i \in DOMAIN a /\ n + 1 \in DOMAIN a /\ i < n + 1 BY <1>1
    <3> QED BY <1>1, <1>3, <3>1, <3>2 DEF Disposed
  <2> QED BY <2>1, <2>2
<1>4. ASSUME Disposed(st, tg), Cleaning(st) => Disposing(f, tg) PROVE Disposed(a, tg)
  <2> SUFFICES ASSUME NEW i \in DOMAIN a, NEW j \in DOMAIN a, Clean(a[i]), i < j PROVE Disposing(a[j], tg)
    BY DEF Disposed
  <2>1. i \in 1 .. n /\ Clean(st[i]) BY <1>1
  <2>2. CASE j = n + 1 BY <1>1, <1>2, <1>4, <2>1, <2>2
  <2>3. CASE j \in 1 .. n BY <1>1, <1>4, <2>1, <2>3 DEF Disposed
  <2> QED BY <1>1, <2>2, <2>3
<1> QED BY <1>3, <1>4 DEF a

\* The calls while a collection without destructors is in progress: it is the
\* innermost, or the innermost disposes of its garbage.
LEMMA CleanTop ==
  ASSUME IInv, CleanInv, Cleaning(stack)
  PROVE  LET st == Front(stack)
         IN  /\ stack # <<>> /\ st \in Seq(Frames) /\ Top \in Frames /\ stack = Append(st, Top)
             /\ ToSet(stack) = ToSet(st) \cup {Top}
             /\ \A g \in ToSet(st) : g \in Frames /\ ~Is(g, "delete", "enter")
             /\ Disposed(st, tag)
             /\ \/ Clean(Top) /\ ~Cleaning(st)
                \/ Cleaning(st) /\ Disposing(Top, tag) /\ Top.obj \in Object
<1> DEFINE st == Front(stack)
<1>1. TypeInv /\ StackInv BY InvIs
<1>2. stack # <<>> BY DEF Cleaning, ToSet
<1>3. /\ st \in Seq(Frames) /\ Top \in Frames /\ stack = Append(st, Top)
      /\ ToSet(stack) = ToSet(st) \cup {Top}
      /\ \A g \in ToSet(st) :
             /\ g \in Frames /\ ~Is(g, "delete", "enter")
             /\ Top.op = "collect" => g.op # "collect"
  BY <1>1, <1>2, TopOn
<1> HIDE DEF st
<1>4. Disposed(st, tag) /\ (Cleaning(st) => Disposing(Top, tag)) BY <1>3, CleanIs, DisposedPush
<1>5. Clean(Top) => ~Cleaning(st) BY <1>3 DEF Cleaning, Clean
<1>6. Clean(Top) \/ Cleaning(st) BY <1>3 DEF Cleaning
<1>7. Disposing(Top, tag) => Top.obj \in Object BY <1>3, FrameTypes DEF Disposing, Is
<1> QED BY <1>2, <1>3, <1>4, <1>5, <1>6, <1>7 DEF st

\* No collection without destructors is left.
LEMMA NoneClean ==
  ASSUME CleanInv,
         \A f \in ToSet(stack') : \/ f \in ToSet(stack) /\ ~Clean(f)
                                 \/ f.op # "collect" \/ f.at = "start" \/ f.dtors
  PROVE  CleanInv'
<1>1. \A f \in ToSet(stack) : Is(f, "collect", "called") => f.dtors BY CleanIs
<1>2. \A f \in ToSet(stack') : ~Clean(f) BY DEF Clean
<1>3. \A f \in ToSet(stack') : Is(f, "collect", "called") => f.dtors BY <1>1 DEF Is
<1>4. Disposed(stack', tag') /\ ~Cleaning(stack') BY <1>2 DEF Disposed, Cleaning, ToSet
<1> QED BY <1>3, <1>4, CleanIs

\* It is in progress still: garbage changes, and goes.
LEMMA CleanKept ==
  ASSUME CleanInv, Cleaning(stack), Disposed(stack', tag'),
         \A f \in ToSet(stack') : Is(f, "collect", "called") => f \in ToSet(stack),
         \A x \in Object : tag'[x] = "dtor" => tag[x] = "dtor",
         \A x \in Object : tag[x] # "garbage" => tag'[x] # "garbage" /\ memory'[x] = memory[x],
         \A x \in Object : tag[x] = "garbage" /\ tag'[x] # "garbage" => memory'[x] # "live",
         \A x \in Object : memory'[x] = "live" => memory[x] = "live",
         \A s \in Slot : heap'[s] # heap[s] => Owner[s] \in Object /\ tag[Owner[s]] = "garbage",
         \A f \in ToSet(stack) : f \in ToSet(stack') \/ f.obj \notin Object \/ tag[f.obj] = "garbage"
  PROVE  CleanInv'
<1>1. /\ \A f \in ToSet(stack) : Is(f, "collect", "called") => f.dtors
      /\ \A x \in Object : tag[x] # "dtor"
      /\ KeepsAll(heap, memory, tag, ToSet(stack))
  BY CleanIs
<1>2. KeepsAll(heap', memory', tag', ToSet(stack'))
  <2> SUFFICES ASSUME NEW T \in SUBSET Object, Keeps(T, heap', memory', tag', ToSet(stack')),
                      NEW x \in Object, memory'[x] = "live", tag'[x] # "garbage"
               PROVE  x \in T
    BY DEF KeepsAll
  <2>1. Keeps(T, heap, memory, tag, ToSet(stack))
    <3>1. ASSUME NEW s \in Slot, heap[s] # Nil,
                 \/ Owner[s] = Global
                 \/ /\ Owner[s] \in Object /\ tag[Owner[s]] # "garbage"
                    /\ memory[Owner[s]] = "dying" \/ (memory[Owner[s]] = "live" /\ Owner[s] \in T)
          PROVE  heap[s] \in T
      <4>1. heap'[s] = heap[s] BY <3>1, GCAssumption
      <4> QED BY <3>1, <4>1 DEF Keeps
    <3>2. ASSUME NEW f \in ToSet(stack), f.obj \in Object, tag[f.obj] # "garbage" PROVE f.obj \in T
      BY <3>2 DEF Keeps
    <3> QED BY <3>1, <3>2 DEF Keeps
  <2>2. memory[x] = "live" /\ tag[x] # "garbage" OBVIOUS
  <2> QED BY <1>1, <2>1, <2>2 DEF KeepsAll
<1> QED BY <1>1, <1>2, CleanIs

LEMMA ProgramClean ==
  ASSUME IInv, CleanInv, Program
  PROVE  CleanInv'
<1>1. TypeInv /\ stack \in Seq(Frames) BY InvIs
<1>2. stack # <<>> => Top.op = "destruct" BY DEF Program, Running, DestructorReturns, On
<1>3. ~Cleaning(stack) BY <1>2, CleanTop DEF Clean, Disposing, Is
<1>4. \A f \in ToSet(stack) : ~Clean(f) BY <1>3 DEF Cleaning
<1>5. ASSUME NEW s \in Slot, NEW v, NEW cnt, Replace(s, v, cnt) PROVE CleanInv'
  BY <1>1, <1>4, <1>5, ReplaceMoves, NoneClean
<1>6. ASSUME NEW s \in SlotsOf(Reachable \cup {Global}), Unset(s) PROVE CleanInv' BY <1>5, <1>6 DEF Unset, SlotsOf
<1>7. ASSUME NEW s \in SlotsOf(Reachable \cup {Global}), NEW o \in Reachable, Assign(s, o) PROVE CleanInv'
  <2> DEFINE cnt == [rc EXCEPT ![o] = @ + 1]
  <2>1. Replace(s, o, cnt) /\ s \in Slot BY <1>7 DEF Assign, SlotsOf
  <2> HIDE DEF cnt
  <2> QED BY <1>5, <2>1
<1>8. ASSUME NEW s \in SlotsOf(Reachable \cup {Global}), NEW o \in Object, New(o, s) PROVE CleanInv'
  <2> DEFINE cnt == [rc EXCEPT ![o] = 1]
  <2>1. Replace(s, o, cnt) /\ s \in Slot BY <1>8 DEF New, SlotsOf
  <2> HIDE DEF cnt
  <2> QED BY <1>5, <2>1
<1>9. ASSUME CollectCycles PROVE CleanInv'
  <2> DEFINE c == Collect(TRUE)
  <2>1. stack' = Append(stack, c) BY <1>9 DEF CollectCycles
  <2>2. c \in Frames /\ c.at = "start" BY DEF Frames, Collect
  <2> HIDE DEF c
  <2>3. ToSet(stack') = ToSet(stack) \cup {c} BY <1>1, <2>1, <2>2, Push
  <2> QED BY <1>4, <2>2, <2>3, NoneClean
<1>10. ASSUME DestructorReturns PROVE CleanInv'
  <2> DEFINE st == Front(stack)
  <2>1. stack # <<>> /\ Top.op = "destruct" /\ Drop(Top.obj, rc, st) BY <1>10 DEF DestructorReturns, On
  <2>2. st \in Seq(Frames) /\ ToSet(stack) = ToSet(st) \cup {Top} /\ Top \in Frames BY <1>1, <2>1, DepthsTop
  <2>3. Top.obj \in Object BY <2>1, <2>2, FrameTypes
  <2> HIDE DEF st
  <2>4. \A f \in ToSet(stack') : f \in ToSet(st) \/ f.op # "collect" \/ f.at = "start"
    BY <1>1, <2>1, <2>2, <2>3, DropMoves
  <2> QED BY <1>4, <2>2, <2>4, NoneClean
<1> QED BY <1>6, <1>7, <1>8, <1>9, <1>10 DEF Program

\* An object is freed: it may be the garbage of a collection below.
LEMMA FreeClean ==
  ASSUME IInv, CleanInv, stack # <<>>, Top.op = "delete", NEW o, o = Top.obj,
         FreeObj(o), heap' = heap, tag' = tag
  PROVE  CleanInv'
<1> DEFINE st == Front(stack)
           f == Free(o, "delete")
<1>1. TypeInv /\ stack \in Seq(Frames) BY InvIs
<1>2. memory' = [memory EXCEPT ![o] = "dying"] /\ stack' = Append(st, f) BY DEF FreeObj, Above
<1>3. st \in Seq(Frames) /\ ToSet(stack) = ToSet(st) \cup {Top} /\ Top \in Frames BY <1>1, DepthsTop
<1>4. o \in Object BY <1>3, FrameTypes
<1>5. f \in Frames /\ f.op = "free" /\ f.obj = o BY <1>4 DEF Frames, Free
<1> HIDE DEF f
<1>6. ToSet(stack') = ToSet(st) \cup {f} BY <1>2, <1>3, <1>5, Push DEF st
<1>7. CASE ~Cleaning(stack) BY <1>3, <1>5, <1>6, <1>7, NoneClean DEF Cleaning
<1>8. CASE Cleaning(stack)
  <2>1. Disposed(st, tag) /\ tag[o] = "garbage" BY <1>8, CleanTop DEF Clean, Disposing
  <2>2. Disposing(f, tag) BY <1>5, <2>1 DEF Disposing
  <2>3. Disposed(stack', tag') BY <1>2, <1>3, <1>5, <2>1, <2>2, DisposedPush DEF st
  <2>4. \A g \in ToSet(stack') : Is(g, "collect", "called") => g \in ToSet(stack) BY <1>3, <1>5, <1>6 DEF Is
  <2>5. /\ \A x \in Object : tag[x] # "garbage" => memory'[x] = memory[x]
        /\ \A x \in Object : memory'[x] = "live" => memory[x] = "live"
    BY <1>1, <1>2, <2>1 DEF TypeInv
  <2>6. \A g \in ToSet(stack) : g \in ToSet(stack') \/ tag[g.obj] = "garbage" BY <1>3, <1>6, <2>1
  <2> HIDE DEF st
  <2> QED BY <1>8, <2>3, <2>4, <2>5, <2>6, CleanKept
<1> QED BY <1>7, <1>8

LEMMA DelEnterClean ==
  ASSUME IInv, CleanInv, DelEnter
  PROVE  CleanInv'
<1> DEFINE o == Top.obj
           st == Front(stack)
           f1 == [Top EXCEPT !.at = "called"]
           f2 == Destruct(o)
           t == Append(st, f1)
<1>1. TypeInv /\ GarbageOf(heap, tag, called, ToSet(stack)) BY InvIs
<1>2. stack # <<>> /\ Top.op = "delete" /\ Top.at = "enter" /\ heap' = heap /\ tag' = tag BY DEF DelEnter, On
<1>3. /\ st \in Seq(Frames) /\ ToSet(stack) = ToSet(st) \cup {Top} /\ Top \in Frames
  BY <1>1, <1>2, DepthsTop
<1>4. CASE NeedsDestructor(o)
  <2>1. stack' = Append(t, f2) BY <1>4 DEF DelEnter, Goto, Above
  <2>2. o \in Object BY <1>2, <1>3, FrameTypes
  <2>3. f1 \in Frames /\ f1.op = "delete" BY <1>2, <1>3, MovedFrames
  <2>4. f2 \in Frames /\ f2.op = "destruct" BY <2>2 DEF Frames, Destruct
  <2>5. ~Cleaning(stack)
    <3>1. tag[o] # "garbage" BY <1>1, <1>4, <2>2 DEF GarbageOf, NeedsDestructor
    <3> QED BY <1>2, <3>1, CleanTop DEF Clean, Disposing
  <2> HIDE DEF o, st, f1, f2
  <2>6. t \in Seq(Frames) /\ ToSet(t) = ToSet(st) \cup {f1} BY <1>3, <2>3, Push
  <2> HIDE DEF t
  <2>7. ToSet(stack') = ToSet(t) \cup {f2} BY <2>1, <2>4, <2>6, Push
  <2> QED BY <1>3, <2>3, <2>4, <2>5, <2>6, <2>7, NoneClean DEF Cleaning
<1>5. CASE ~NeedsDestructor(o)
  <2>1. FreeObj(o) BY <1>5 DEF DelEnter
  <2> QED BY <1>2, <2>1, FreeClean
<1> QED BY <1>4, <1>5

\* What garbage refers to is not deleted before garbage is: who is not garbage is
\* referred to from outside.
LEMMA FreeSlotClean ==
  ASSUME IInv, CleanInv, FreeSlot
  PROVE  CleanInv'
<1>1. /\ TypeInv /\ stack \in Seq(Frames) /\ \A f \in ToSet(stack) : f \in Frames
      /\ StackInv
  BY InvIs
<1>2. stack # <<>> /\ Top.op = "free" /\ memory' = memory BY FreeSlotIs
<1>3. PICK s \in Slot :
          /\ Owner[s] = Top.obj /\ Owner[s] \in Object /\ heap[s] # Nil
          /\ heap' = [heap EXCEPT ![s] = Nil] /\ Drop(heap[s], rc, stack)
  BY FreeSlotIs
<1> DEFINE v == heap[s]
<1>4. v \in Object BY <1>1, <1>3 DEF TypeInv
<1>5. heap'[s] = Nil /\ \A r \in Slot : r # s => heap'[r] = heap[r] BY <1>1, <1>3 DEF TypeInv
<1>6. CASE ~Cleaning(stack)
  <2>1. \A f \in ToSet(stack') : f \in ToSet(stack) \/ f.op # "collect" \/ f.at = "start"
    BY <1>1, <1>3, <1>4, DropMoves
  <2> QED BY <1>6, <2>1, NoneClean DEF Cleaning
<1>7. CASE Cleaning(stack)
  <2>1. /\ ToSet(stack) = ToSet(Front(stack)) \cup {Top} /\ tag[Top.obj] = "garbage"
        /\ \A g \in ToSet(Front(stack)) : ~Is(g, "delete", "enter")
    BY <1>2, <1>7, CleanTop DEF Clean, Disposing
  <2>2. gc_active(stack) BY <1>1, <1>7, Active DEF Cleaning, Clean
  <2>3. Disposed(stack, tag) /\ KeepsAll(heap, memory, tag, ToSet(stack)) BY <1>7, CleanIs
  <2>4. \A x \in Object : tag'[x] = tag[x] \/ (tag[x] = "none" /\ tag'[x] = "root")
    BY <1>1, <1>3 DEF Drop, TypeInv
  <2> DEFINE d == Delete(v)
  <2>5. stack' = stack \/ (stack' = Append(stack, d) /\ rc'[v] = 0 /\ memory[v] = "live")
    BY <1>3, <2>2 DEF Drop
  <2>6. d \in Frames /\ d.op = "delete" /\ d.at = "enter" /\ d.obj = v BY <1>4 DEF Frames, Delete
  <2> HIDE DEF v, d
  <2>7. ToSet(stack) \subseteq ToSet(stack') /\ ToSet(stack') \subseteq ToSet(stack) \cup {d}
    BY <1>1, <2>5, <2>6, Push
  <2>8. ASSUME stack' = Append(stack, d), tag[v] # "garbage" PROVE FALSE
    <3> DEFINE T == Object \ {v}
    <3>1. rc'[v] = 0 /\ memory[v] = "live"
      <4>1. stack' # stack
        <5> SUFFICES ASSUME Append(stack, d) = stack PROVE FALSE BY <2>8
        <5> QED BY <1>1, <2>6, AppendProperties
      <4> QED BY <2>5, <4>1
    <3>2. Exact(heap', stack', rc')
      <4>1. IInv' BY FreeSlotStep
      <4> QED BY <4>1, ExactNext DEF IInv
    <3>3. stack' \in Seq(Frames) BY <1>1, <2>6, <2>8, Push
    <3>4. Cardinality(SlotsAt(heap', v)) = 0 /\ Cardinality(Holders(stack', v)) = 0
      <4> DEFINE h == heap'
                 z == stack'
      <4>1. rc'[v] = Cardinality(SlotsAt(h, v)) + Cardinality(Holders(z, v)) BY <1>4, <3>2 DEF Exact
      <4>2. z \in Seq(Frames) BY <3>3
      <4> HIDE DEF h, z
      <4>3. Cardinality(SlotsAt(h, v)) \in Nat /\ Cardinality(Holders(z, v)) \in Nat BY <4>2, SlotsFinite, HoldersFinite
      <4>4. Cardinality(SlotsAt(h, v)) = 0 /\ Cardinality(Holders(z, v)) = 0 BY <3>1, <4>1, <4>3
      <4> QED BY <4>4 DEF h, z
    <3>5. \A r \in Slot : r # s => heap[r] # v
      <4> DEFINE h == heap'
      <4>1. Cardinality(SlotsAt(h, v)) = 0 BY <3>4
      <4>2. \A r \in Slot : r # s => h[r] = heap[r] BY <1>5
      <4> HIDE DEF h
      <4> QED BY <4>1, <4>2, SlotsFinite
    <3>6. \A f \in ToSet(stack) : Holds(f) => f.obj # v
      <4> DEFINE z == stack'
      <4>1. Cardinality(Holders(z, v)) = 0 /\ z \in Seq(Frames) /\ ToSet(stack) \subseteq ToSet(z) BY <2>7, <3>3, <3>4
      <4> HIDE DEF z
      <4> QED BY <4>1, HolderCounts
    <3>7. \A f \in ToSet(stack) : f.obj # v
      <4> SUFFICES ASSUME NEW f \in ToSet(stack), f.obj = v PROVE FALSE OBVIOUS
      <4>1. f \in Frames /\ ~Holds(f) BY <1>1, <3>6
      <4>2. ~Is(f, "delete", "enter") BY <1>2, <2>1 DEF Is
      <4> QED BY <1>4, <4>1, <4>2, FrameTypes, GCAssumption DEF Is
    <3>8. Keeps(T, heap, memory, tag, ToSet(stack))
      <4>1. \A r \in Slot : heap[r] # Nil /\ r # s => heap[r] \in T BY <1>1, <3>5 DEF TypeInv
      <4>2. Owner[s] # Global /\ tag[Owner[s]] = "garbage" BY <1>3, <2>1, GCAssumption
      <4> QED BY <3>7, <4>1, <4>2 DEF Keeps
    <3>9. v \in T BY <1>4, <2>3, <2>8, <3>1, <3>8 DEF KeepsAll
    <3> QED BY <3>9
  <2>9. Disposed(stack, tag')
    <3>1. \A j \in DOMAIN stack : Disposing(stack[j], tag) => Disposing(stack[j], tag')
      <4> TAKE j \in DOMAIN stack
      <4>1. stack[j] \in Frames BY <1>1 DEF ToSet
      <4>2. stack[j].op = "free" \/ Is(stack[j], "delete", "enter") => stack[j].obj \in Object BY <4>1, FrameTypes DEF Is
      <4> QED BY <2>4, <4>2 DEF Disposing
    <3> QED BY <2>3, <3>1 DEF Disposed
  <2>10. Disposed(stack', tag')
    <3>1. CASE stack' = stack BY <2>9, <3>1
    <3>2. CASE stack' = Append(stack, d)
      <4> DEFINE tg == tag'
      <4>1. tg[v] = "garbage" BY <1>4, <2>4, <2>8, <3>2
      <4>2. Disposed(stack, tg) BY <2>9
      <4> HIDE DEF tg
      <4>3. Disposing(d, tg) BY <2>6, <4>1 DEF Disposing, Is
      <4>4. Disposed(Append(stack, d), tg) BY <1>1, <2>6, <4>2, <4>3, DisposedPush
      <4> QED BY <3>2, <4>4 DEF tg
    <3> QED BY <2>5, <3>1, <3>2
  <2>11. \A f \in ToSet(stack') : Is(f, "collect", "called") => f \in ToSet(stack) BY <2>6, <2>7 DEF Is
  <2>12. \A r \in Slot : heap'[r] # heap[r] => Owner[r] \in Object /\ tag[Owner[r]] = "garbage" BY <1>3, <1>5, <2>1
  <2> QED BY <1>2, <1>7, <2>4, <2>7, <2>10, <2>11, <2>12, CleanKept
<1> QED BY <1>6, <1>7

LEMMA FreeDoneClean ==
  ASSUME IInv, CleanInv, FreeDone
  PROVE  CleanInv'
<1> DEFINE o == Top.obj
           st == Front(stack)
<1>1. /\ TypeInv /\ stack \in Seq(Frames) /\ StackInv
      /\ \A f \in ToSet(stack) : f \in Frames /\ CallOf(f, memory, rc, tag)
      /\ MemoryOf(heap, memory, rc, tag, ToSet(stack))
      /\ Exact(heap, stack, rc)
  BY InvIs
<1>2. /\ stack # <<>> /\ Top.op = "free" /\ stack' = st /\ heap' = heap
      /\ \/ Top.at = "delete" /\ memory' = [memory EXCEPT ![o] = "free"] /\ tag' = [tag EXCEPT ![o] = "none"]
         \/ memory' = memory /\ tag' = tag
  BY DEF FreeDone, Freeing
<1>3. /\ Top \in Frames /\ st \in Seq(Frames)
      /\ ToSet(stack) = ToSet(st) \cup {Top} /\ Top \in ToSet(stack)
      /\ \A g \in ToSet(st) : g \in Frames /\ ~Is(g, "delete", "enter")
      /\ \A x : Cardinality(Holders(stack, x)) = Cardinality(Holders(st, x)) + (IF Holds(Top) /\ Top.obj = x THEN 1 ELSE 0)
  BY <1>1, <1>2, TopOn
<1>4. o \in Object /\ Holds(Top) BY <1>2, <1>3, FrameTypes
<1>5. CASE ~Cleaning(stack) BY <1>2, <1>3, <1>5, NoneClean DEF Cleaning
<1>6. CASE Cleaning(stack)
  <2>1. Disposed(st, tag) /\ tag[o] = "garbage" BY <1>2, <1>6, CleanTop DEF Clean, Disposing
  <2>2. \A x \in Object : x # o => memory'[x] = memory[x] /\ tag'[x] = tag[x] BY <1>1, <1>2 DEF TypeInv
  <2>3. memory[o] # "live"
    <3>1. CallOf(Top, memory, rc, tag) BY <1>1, <1>3
    <3> QED BY <1>2, <1>3, <3>1, FrameTypes DEF CallOf, Is
  <2>4. /\ memory'[o] # "live" /\ tag'[o] \in {"none", "garbage"}
    BY <1>1, <1>2, <1>4, <2>1, <2>3 DEF TypeInv
\* A dying object is freed by one call.
  <2>5. tag' # tag => \A g \in ToSet(st) : Holds(g) => g.obj # o
    <3> SUFFICES ASSUME tag' # tag PROVE \A g \in ToSet(st) : Holds(g) => g.obj # o OBVIOUS
    <3>1. memory[o] = "dying"
      <4>1. CallOf(Top, memory, rc, tag) BY <1>1, <1>3
      <4> QED BY <1>2, <4>1 DEF CallOf, Is
    <3>2. rc[o] = 1 BY <1>1, <1>4, <3>1 DEF MemoryOf
    <3>3. Cardinality(Holders(stack, o)) = Cardinality(Holders(st, o)) + 1
      <4>1. \A x : x = o => Cardinality(Holders(stack, x)) = Cardinality(Holders(st, x)) + 1 BY <1>3, <1>4
      <4> HIDE DEF o
      <4> QED BY <4>1
    <3>4. rc[o] = Cardinality(SlotsAt(heap, o)) + Cardinality(Holders(stack, o)) BY <1>1, <1>4 DEF Exact
    <3> HIDE DEF o, st
    <3>5. Cardinality(SlotsAt(heap, o)) \in Nat /\ Cardinality(Holders(st, o)) \in Nat BY <1>3, SlotsFinite, HoldersFinite
    <3>6. Cardinality(Holders(st, o)) = 0 BY <3>2, <3>3, <3>4, <3>5
    <3> QED BY <1>3, <3>6, HolderCounts
  <2>6. Disposed(st, tag')
    <3>1. \A j \in DOMAIN st : Disposing(st[j], tag) => Disposing(st[j], tag')
      <4> SUFFICES ASSUME NEW j \in DOMAIN st, Disposing(st[j], tag), tag' # tag PROVE Disposing(st[j], tag')
        OBVIOUS
      <4> DEFINE g == st[j]
      <4>1. g \in ToSet(st) BY DEF ToSet
      <4> HIDE DEF g, st, o
      <4>2. g \in Frames /\ g.op = "free" /\ g.obj \in Object /\ Holds(g)
        <5>1. g \in Frames /\ g.op = "free" BY <1>3, <4>1 DEF Disposing, g
        <5> QED BY <5>1, FrameTypes
      <4>3. tag'[g.obj] = tag[g.obj] BY <2>2, <2>5, <4>1, <4>2
      <4> QED BY <4>2, <4>3 DEF Disposing, g
    <3> QED BY <2>1, <3>1 DEF Disposed
  <2>7. \A g \in ToSet(stack) : g \in ToSet(stack') \/ tag[g.obj] = "garbage" BY <1>2, <1>3, <2>1
  <2>8. \A g \in ToSet(stack') : g \in ToSet(stack) BY <1>2, <1>3
  <2>9. Disposed(stack', tag') BY <1>2, <2>6
  <2> HIDE DEF o, st
  <2> QED BY <1>2, <1>6, <2>1, <2>2, <2>4, <2>7, <2>8, <2>9, CleanKept
<1> QED BY <1>5, <1>6

LEMMA DeletionClean ==
  ASSUME IInv, CleanInv, Deletion
  PROVE  CleanInv'
<1>1. ASSUME DelCalled PROVE CleanInv'
  <2>1. stack # <<>> /\ Top.op = "delete" /\ Top.at = "called" /\ heap' = heap /\ tag' = tag BY <1>1 DEF DelCalled, On
  <2>2. FreeObj(Top.obj) \/ stack' = Front(stack) BY <1>1 DEF DelCalled
  <2>3. CASE FreeObj(Top.obj) BY <2>1, <2>3, FreeClean
  <2>4. CASE stack' = Front(stack)
    <3>1. ToSet(stack) = ToSet(stack') \cup {Top} BY <2>1, <2>4, InvIs, DepthsTop
    <3>2. ~Cleaning(stack) BY <2>1, CleanTop DEF Clean, Disposing, Is
    <3> QED BY <3>1, <3>2, NoneClean DEF Cleaning
  <2> QED BY <2>2, <2>3, <2>4
<1> QED BY <1>1, DelEnterClean, FreeSlotClean, FreeDoneClean DEF Deletion

\* What is not white is reached from what is held outside of the traced part, even
\* without white objects.
LEMMA TraceKeeps ==
  ASSUME IInv, On("collect", "start"),
         NEW T \in SUBSET Object, NEW tg, \A x \in Object : tg[x] = "garbage" <=> x \in White,
         NEW fs, ToSet(Front(stack)) \subseteq fs, Keeps(T, heap, memory, tg, fs),
         NEW x \in Object, memory[x] = "live", x \notin White
  PROVE  x \in T
<1> DEFINE B == {y \in Grey : rc[y] > Within(y)}
           W(y) == {s \in SlotsOf(Grey \cap Memory("live")) : heap[s] = y}
           V == T \cup Grey
           U == T \ White
<1>1. /\ TypeInv /\ stack \in Seq(Frames) /\ Exact(heap, stack, rc)
      /\ MemoryOf(heap, memory, rc, tag, ToSet(stack))
      /\ \A Z \in SUBSET Object : Anchors \subseteq Z /\ Closed(Z) => \A y \in Object : memory[y] = "live" => y \in Z
  BY InvIs
<1>2. /\ Grey \in SUBSET Object /\ Closed(Grey) /\ Tagged("root") \subseteq Grey
      /\ \A y \in White :
             /\ memory[y] = "live" /\ \A f \in ToSet(stack) : f.obj # y
             /\ \A s \in Slot : heap[s] = y => Owner[s] \in White
  BY WhiteIs
<1>3. /\ \A y \in Object : tag[y] \in {"none", "root"} /\ memory[y] # "null"
      /\ Top.obj = Nil
      /\ \A f \in ToSet(Front(stack)) : f.obj \in Object
      /\ ToSet(stack) = ToSet(Front(stack)) \cup {Top}
  BY AtStart, CollectTop DEF On
<1>4. /\ \A r \in Slot : heap[r] # Nil
             /\ (Owner[r] = Global \/ (Owner[r] \in Object /\ (memory[Owner[r]] = "dying" \/ (memory[Owner[r]] = "live" /\ Owner[r] \in U))))
             => heap[r] \in T
      /\ \A f \in ToSet(stack) : f.obj # Nil => f.obj \in T
  <2>1. \A r \in Slot : Owner[r] \in Object /\ (memory[Owner[r]] = "dying" \/ Owner[r] \in U) => tg[Owner[r]] # "garbage"
    BY <1>2
  <2>2. \A f \in ToSet(stack) : f.obj # Nil => f \in fs /\ f.obj \in Object /\ tg[f.obj] # "garbage" BY <1>2, <1>3
  <2> QED BY <2>1, <2>2 DEF Keeps
\* All live objects are grey or kept.
<1>5. V \in SUBSET Object /\ Anchors \subseteq V /\ Closed(V)
  <2>1. V \in SUBSET Object BY <1>2
  <2>2. /\ \A r \in Slot : heap[r] # Nil /\ (Owner[r] = Global \/ (Owner[r] \in Object /\ memory[Owner[r]] \in {"dying", "null"}))
                              => heap[r] \in V
        /\ \A f \in ToSet(stack) : f.obj # Nil => f.obj \in V
    BY <1>3, <1>4
  <2>3. \A y \in Object : tag[y] # "none" => y \in V BY <1>2, <1>3 DEF Tagged
  <2>4. White \subseteq Grey BY DEF White
  <2>5. \A r \in Slot : Owner[r] \in V /\ memory[Owner[r]] = "live" /\ heap[r] # Nil => heap[r] \in V
    BY <1>2, <1>4, <2>1, <2>4, ClosedIs
  <2> HIDE DEF V
  <2> QED BY <2>1, <2>2, <2>3, <2>5, AnchorsIn, ClosedIs
<1>6. \A y \in Object : memory[y] = "live" => y \in T \cup Grey BY <1>1, <1>5
<1>7. U \in SUBSET Object OBVIOUS
<1>8. Closed(U)
  <2>1. \A r \in Slot : Owner[r] \in U /\ memory[Owner[r]] = "live" /\ heap[r] # Nil => heap[r] \in U BY <1>2, <1>4
  <2> HIDE DEF U
  <2> QED BY <1>7, <2>1, ClosedIs
<1>9. B \in SUBSET Object /\ B \subseteq Black /\ \A Z \in SUBSET Object : B \subseteq Z /\ Closed(Z) => Black \subseteq Z
  <2>1. B \in SUBSET Object BY <1>2
  <2>2. Black = Reach(B) BY DEF Black
  <2> HIDE DEF B
  <2> QED BY <1>1, <2>1, <2>2, ReachFacts
<1>10. B \subseteq T
  <2> SUFFICES ASSUME NEW y \in Grey, rc[y] > Cardinality(W(y)), y \notin T PROVE FALSE BY DEF Within
  <2>1. y \in Object /\ y \notin White BY <1>2, <1>9 DEF White, B, Within
  <2>2. \A f \in ToSet(stack) : Holds(f) => f.obj # y BY <1>4, <2>1, GCAssumption
  <2>3. Cardinality(Holders(stack, y)) = 0 BY <1>1, <2>2, HolderCounts
  <2>4. SlotsAt(heap, y) = W(y)
    <3>1. W(y) \subseteq SlotsAt(heap, y) BY DEF SlotsAt, SlotsOf
    <3>2. ASSUME NEW s \in SlotsAt(heap, y) PROVE s \in W(y)
      <4>1. s \in Slot /\ heap[s] = y /\ heap[s] # Nil BY <2>1, GCAssumption DEF SlotsAt
      <4>2. Owner[s] \in Object /\ memory[Owner[s]] # "dying" BY <1>4, <4>1, GCAssumption
      <4>3. memory[Owner[s]] = "live"
        <5>1. memory[Owner[s]] # "free" BY <1>1, <4>1, <4>2 DEF MemoryOf, EmptyIn
        <5> QED BY <1>1, <1>3, <4>2, <5>1 DEF TypeInv
      <4>4. Owner[s] \in Grey
        <5>1. Owner[s] \notin U BY <1>4, <4>1, <4>2, <4>3
        <5>2. White \subseteq Grey BY DEF White
        <5> QED BY <1>6, <4>2, <4>3, <5>1, <5>2
      <4> QED BY <4>1, <4>2, <4>3, <4>4 DEF SlotsOf, Memory
    <3> HIDE DEF W
    <3> QED BY <3>1, <3>2
  <2>5. rc[y] = Cardinality(SlotsAt(heap, y)) + 0 BY <1>1, <2>1, <2>3 DEF Exact
  <2>6. Cardinality(SlotsAt(heap, y)) \in Nat BY SlotsFinite
  <2> HIDE DEF W
  <2> QED BY <2>4, <2>5, <2>6
<1>11. B \subseteq U BY <1>9, <1>10 DEF White
<1>12. Black \subseteq T
  <2> HIDE DEF B
  <2>1. Black \subseteq U BY <1>7, <1>8, <1>9, <1>11
  <2> QED BY <2>1
<1> QED BY <1>6, <1>12 DEF White

\* A trace that finds no destructor to call leaves what is not garbage reached.
LEMMA TraceClean ==
  ASSUME IInv, CleanInv, Trace
  PROVE  CleanInv'
<1> DEFINE st == Front(stack)
           D == {o \in White : NeedsDestructor(o)}
           d == D # {}
           f1 == [Top EXCEPT !.at = "dtors", !.dtors = d]
<1>1. TypeInv /\ stack \in Seq(Frames) BY InvIs
<1>2. /\ On("collect", "start") /\ stack # <<>> /\ Top.op = "collect" /\ Top.at = "start"
      /\ stack' = IF White = {} THEN st ELSE Append(st, f1)
      /\ heap' = heap /\ memory' = memory /\ tag' = Tag(D)
  BY DEF Trace, On, Above
<1>3. /\ st \in Seq(Frames) /\ ToSet(stack) = ToSet(st) \cup {Top} /\ Top \in Frames
      /\ \A g \in ToSet(st) : g.op # "collect"
  BY <1>2, CollectTop
<1>4. f1 \in Frames /\ f1.op = "collect" /\ f1.at = "dtors" /\ f1.dtors = d
  <2>1. d \in BOOLEAN OBVIOUS
  <2> HIDE DEF d
  <2>2. Top \in [op : {"collect"}, at : {"called"}, obj : Object, first : BOOLEAN, dtors : BOOLEAN]
                \cup [op : {"collect"}, at : {"start", "dtors", "destroy"}, obj : {Nil}, first : BOOLEAN, dtors : BOOLEAN]
    BY <1>2, <1>3 DEF Frames
  <2> QED BY <1>2, <2>1, <2>2 DEF Frames
<1> HIDE DEF f1
<1>5. /\ White # {} => ToSet(stack') = ToSet(st) \cup {f1}
      /\ White = {} => ToSet(stack') = ToSet(st)
  BY <1>2, <1>3, <1>4, Push DEF st
<1> HIDE DEF st
<1>6. CASE White = {} \/ d BY <1>3, <1>4, <1>5, <1>6, NoneClean DEF Clean
<1>7. CASE White # {} /\ ~d
  <2>1. \A x \in Object : tag'[x] = IF x \in White THEN "garbage" ELSE "none"
    <3>1. Reach({}) = {}
      <4>1. {} \in SUBSET Object /\ Closed({}) BY DEF Closed, SlotsOf, Refs
      <4> QED BY <1>1, <4>1, ReachFacts
    <3>2. Nested({}) = {} BY <3>1 DEF Nested
    <3>3. D = {} /\ tag' = Tag({}) BY <1>2, <1>7
    <3> QED BY <3>2, <3>3 DEF Tag
  <2>2. \A f \in ToSet(stack') : Is(f, "collect", "called") => f.dtors BY <1>3, <1>4, <1>5, <1>7 DEF Is
  <2>3. Disposed(stack', tag')
    <3>1. ~Cleaning(st) BY <1>3 DEF Cleaning, Clean
    <3>2. Disposed(st, tag') BY <3>1 DEF Disposed, Cleaning, ToSet
    <3> DEFINE tg == tag'
    <3>3. stack' = Append(st, f1) /\ Disposed(st, tg) BY <1>2, <1>7, <3>2
    <3> HIDE DEF tg
    <3>4. Disposed(Append(st, f1), tg) BY <1>3, <1>4, <3>1, <3>3, DisposedPush
    <3> QED BY <3>3, <3>4 DEF tg
  <2>4. KeepsAll(heap', memory', tag', ToSet(stack'))
    <3> DEFINE tg == tag'
               fs == ToSet(stack')
    <3>1. (\A x \in Object : tg[x] = "garbage" <=> x \in White) /\ ToSet(Front(stack)) \subseteq fs
      BY <1>5, <1>7, <2>1 DEF st
    <3> HIDE DEF tg, fs
    <3>2. KeepsAll(heap, memory, tg, fs) BY <1>2, <3>1, TraceKeeps DEF KeepsAll
    <3> QED BY <1>2, <3>2 DEF tg, fs
  <2> QED BY <2>1, <2>2, <2>3, <2>4, CleanIs
<1> QED BY <1>6, <1>7

LEMMA CollectorClean ==
  ASSUME IInv, CleanInv, Collector
  PROVE  CleanInv'
<1> DEFINE st == Front(stack)
<1>1. /\ TypeInv /\ stack \in Seq(Frames)
      /\ \A f \in ToSet(stack) : Is(f, "collect", "called") => f.dtors
      /\ Cleaning(stack) => \A x \in Object : tag[x] # "dtor"
  BY InvIs, CleanIs
<1>2. ASSUME stack # <<>>
      PROVE  /\ st \in Seq(Frames) /\ Top \in Frames /\ stack = Append(st, Top)
             /\ ToSet(stack) = ToSet(st) \cup {Top} /\ Top \in ToSet(stack)
             /\ Top.op = "collect" => ~Cleaning(st) /\ Top.dtors \in BOOLEAN
  <2>1. st \in Seq(Frames) /\ Top \in Frames /\ stack = Append(st, Top) /\ ToSet(stack) = ToSet(st) \cup {Top}
    BY <1>1, <1>2, DepthsTop
  <2>2. Top.op = "collect" => ~Cleaning(st) BY <1>2, CollectTop DEF Cleaning, Clean
  <2>3. Top.op = "collect" => Top.dtors \in BOOLEAN BY <2>1 DEF Frames
  <2> QED BY <2>1, <2>2, <2>3
<1>3. \A f \in ToSet(st) : ~Cleaning(st) => ~Clean(f) BY DEF Cleaning
<1>4. ASSUME NEW o \in Object, CallDestructor(o) PROVE CleanInv'
  <2> DEFINE f1 == [Top EXCEPT !.at = "called", !.obj = o]
             f2 == Destruct(o)
             t == Append(st, f1)
  <2>1. stack # <<>> /\ Top.op = "collect" /\ Top.at = "dtors" /\ tag[o] = "dtor" BY <1>4 DEF CallDestructor, On
  <2>2. ~Cleaning(stack) BY <1>1, <2>1
  <2>3. CASE stack' = stack BY <2>2, <2>3, NoneClean DEF Cleaning
  <2>4. CASE stack' # stack
    <3>1. stack' = Append(t, f2) BY <1>4, <2>4 DEF CallDestructor, Above
    <3>2. Top.dtors = TRUE BY <1>2, <2>1, <2>2 DEF Cleaning, Clean
    <3>3. f1 \in Frames /\ f1.dtors = TRUE
      <4>1. Top \in Frames /\ Top.op = "collect" BY <1>2, <2>1
      <4> QED BY <3>2, <4>1 DEF Frames
    <3>4. f2 \in Frames /\ f2.op = "destruct" BY DEF Frames, Destruct
    <3> HIDE DEF st, f1, f2
    <3>5. t \in Seq(Frames) /\ ToSet(t) = ToSet(st) \cup {f1} BY <1>2, <2>1, <3>3, Push
    <3> HIDE DEF t
    <3>6. ToSet(stack') = ToSet(t) \cup {f2} BY <3>1, <3>4, <3>5, Push
    <3> QED BY <1>2, <1>3, <2>1, <3>3, <3>4, <3>5, <3>6, NoneClean
  <2> QED BY <2>3, <2>4
<1>5. ASSUME Called PROVE CleanInv'
  <2> DEFINE f == [Top EXCEPT !.at = "dtors", !.obj = Nil]
  <2>1. stack # <<>> /\ Top.op = "collect" /\ Top.at = "called" /\ stack' = Append(st, f) BY <1>5 DEF Called, On, Above
  <2>2. Top.dtors BY <1>1, <1>2, <2>1 DEF Is
  <2>3. f \in Frames /\ f.dtors
    <3>1. Top \in Frames BY <1>2, <2>1
    <3> QED BY <2>1, <2>2, <3>1 DEF Frames
  <2> HIDE DEF f, st
  <2>4. ToSet(stack') = ToSet(st) \cup {f} BY <1>2, <2>1, <2>3, Push
  <2> QED BY <1>2, <1>3, <2>1, <2>3, <2>4, NoneClean
<1>6. ASSUME DestructorsCalled PROVE CleanInv'
  <2> DEFINE f == [Top EXCEPT !.at = "destroy"]
  <2>1. /\ stack # <<>> /\ Top.op = "collect" /\ Top.at = "dtors" /\ stack' = Append(st, f)
        /\ heap' = heap /\ memory' = memory /\ tag' = tag
    BY <1>6 DEF DestructorsCalled, On, Above, Goto
  <2>2. f \in Frames /\ f.op = "collect" /\ f.at = "destroy" /\ f.dtors = Top.dtors /\ Top.obj = Nil
    <3>1. Top \in Frames BY <1>2, <2>1
    <3> QED BY <2>1, <3>1 DEF Frames
  <2> HIDE DEF f, st
  <2>3. ToSet(stack') = ToSet(st) \cup {f} BY <1>2, <2>1, <2>2, Push
  <2>4. CASE Top.dtors BY <1>2, <1>3, <2>1, <2>2, <2>3, <2>4, NoneClean
  <2>5. CASE ~Top.dtors
    <3>1. Cleaning(stack) BY <1>2, <2>1, <2>5 DEF Cleaning, Clean
    <3>2. Disposed(stack, tag) BY CleanIs
    <3>3. Disposed(st, tag) BY <1>2, <2>1, <3>2, DisposedPush
    <3>4. Disposed(stack', tag') BY <1>2, <2>1, <2>2, <3>3, DisposedPush
    <3>5. Nil \notin Object BY GCAssumption
    <3>6. \A g \in ToSet(stack) : g \in ToSet(stack') \/ g.obj \notin Object BY <1>2, <2>1, <2>2, <2>3, <3>5
    <3>7. \A g \in ToSet(stack') : Is(g, "collect", "called") => g \in ToSet(stack) BY <1>2, <2>1, <2>2, <2>3 DEF Is
    <3> QED BY <2>1, <3>1, <3>4, <3>6, <3>7, CleanKept
  <2> QED BY <1>2, <2>1, <2>4, <2>5
<1>7. ASSUME NEW o \in Object, Destroy(o) PROVE CleanInv'
  <2> DEFINE f == Free(o, "collect")
  <2>1. /\ tag[o] = "garbage" /\ memory[o] = "live" /\ memory' = [memory EXCEPT ![o] = "null"]
        /\ stack' = Append(stack, f) /\ heap' = heap /\ tag' = tag
    BY <1>7 DEF Destroy
  <2>2. f \in Frames /\ f.op = "free" /\ f.obj = o BY DEF Frames, Free
  <2> HIDE DEF f
  <2>3. ToSet(stack') = ToSet(stack) \cup {f} BY <1>1, <2>1, <2>2, Push
  <2>4. CASE ~Cleaning(stack) BY <2>2, <2>3, <2>4, NoneClean DEF Cleaning
  <2>5. CASE Cleaning(stack)
    <3>1. Disposed(stack, tag) BY CleanIs
    <3>2. Disposing(f, tag) BY <2>1, <2>2 DEF Disposing
    <3>3. Disposed(stack', tag') BY <1>1, <2>1, <2>2, <3>1, <3>2, DisposedPush
    <3>4. /\ memory'[o] = "null" /\ \A x \in Object : x # o => memory'[x] = memory[x] BY <1>1, <2>1 DEF TypeInv
    <3>5. \A g \in ToSet(stack') : Is(g, "collect", "called") => g \in ToSet(stack) BY <2>2, <2>3 DEF Is
    <3> QED BY <2>1, <2>3, <2>5, <3>3, <3>4, <3>5, CleanKept
  <2> QED BY <2>4, <2>5
<1>8. ASSUME Reclaim PROVE CleanInv'
  <2> DEFINE f == Collect(FALSE)
  <2>1. stack # <<>> /\ Top.op = "collect" /\ stack' \in {st, Append(st, f)} BY <1>8 DEF Reclaim, On
  <2>2. f \in Frames /\ f.at = "start" BY DEF Frames, Collect
  <2> HIDE DEF f, st
  <2>3. ToSet(stack') \subseteq ToSet(st) \cup {f}
    <3>1. st \in Seq(Frames) BY <1>2, <2>1
    <3>2. ToSet(Append(st, f)) = ToSet(st) \cup {f} BY <2>2, <3>1, Push
    <3> QED BY <2>1, <3>2
  <2> QED BY <1>2, <1>3, <2>1, <2>2, <2>3, NoneClean
<1>9. ASSUME FullReturns PROVE CleanInv'
  <2> DEFINE f == Delete(Top.obj)
  <2>1. stack # <<>> /\ Top.op = "full" /\ stack' \in {st, Append(st, f)} BY <1>9 DEF FullReturns, On, Above
  <2>2. f \in Frames /\ f.op = "delete"
    <3>1. Top.obj \in Object BY <1>2, <2>1, FrameTypes
    <3> QED BY <3>1 DEF Frames, Delete
  <2>3. ~Cleaning(stack) BY <2>1, CleanTop DEF Clean, Disposing, Is
  <2> HIDE DEF f, st
  <2>4. ToSet(stack') \subseteq ToSet(stack) \cup {f}
    <3>1. st \in Seq(Frames) /\ ToSet(st) \subseteq ToSet(stack) BY <1>2, <2>1
    <3>2. ToSet(Append(st, f)) = ToSet(st) \cup {f} BY <2>2, <3>1, Push
    <3> QED BY <2>1, <3>1, <3>2
  <2> QED BY <2>2, <2>3, <2>4, NoneClean DEF Cleaning
<1> QED BY <1>4, <1>5, <1>6, <1>7, <1>8, <1>9, TraceClean DEF Collector

\* Without destructors, nothing but the disposal of garbage happens inside of a
\* collection, and all that is not garbage stays reached from outside of it.
THEOREM CleanInductive == Spec => [](IInv /\ CleanInv)
<1>1. Init => IInv /\ CleanInv
  <2> SUFFICES ASSUME Init PROVE CleanInv BY InitInv
  <2>1. stack = <<>> BY DEF Init
  <2>2. DOMAIN stack = {} /\ ToSet(stack) = {} BY <2>1 DEF ToSet
  <2> QED BY <2>2, CleanIs DEF Disposed, Cleaning
<1>2. IInv /\ CleanInv /\ [Next]_vars => (IInv /\ CleanInv)'
  <2> SUFFICES ASSUME IInv, CleanInv, [Next]_vars PROVE CleanInv' BY NextInv
  <2>1. CASE Next BY <2>1, ProgramClean, DeletionClean, CollectorClean DEF Next
  <2>2. CASE UNCHANGED vars
    <3>1. heap' = heap /\ memory' = memory /\ tag' = tag /\ stack' = stack BY <2>2 DEF vars
    <3> QED BY <3>1, CleanIs
  <2> QED BY <2>1, <2>2
<1> QED BY <1>1, <1>2, PTL DEF Spec

\* A collection that calls no destructor leaves no garbage behind: when a trace finds
\* nothing white no entry is left, and when garbage is reclaimed what remains is
\* reached from outside of the collection.
LEMMA EndsClean ==
  ASSUME IInv, CleanInv, NoneForgotten', Next, stack # <<>>, Ends(Top), stack' = Front(stack), NEW x \in Lost'
  PROVE  FALSE
<1> DEFINE st == Front(stack)
           P == Refs(SlotsOf({Global})) \cup InProgress
<1>1. /\ TypeInv /\ stack \in Seq(Frames) /\ st \in Seq(Frames) /\ Top \in Frames /\ stack = Append(st, Top)
      /\ ToSet(stack) = ToSet(st) \cup {Top} /\ Top \in ToSet(stack)
  BY InvIs, DepthsTop
<1>2. Top.op = "collect" /\ Top.at \in {"start", "destroy"} /\ ~Top.dtors BY DEF Ends
<1>3. \A f : stack' # Append(st, f) /\ stack' # Append(stack, f)
  <2> HIDE DEF st
  <2>1. stack' = st /\ Len(stack) = Len(st) + 1 /\ Len(st) \in Nat BY <1>1, AppendProperties, LenProperties DEF st
  <2>2. \A f : Len(Append(st, f)) = Len(st) + 1 /\ Len(Append(stack, f)) = Len(stack) + 1 BY <1>1
  <2> QED BY <2>1, <2>2
<1>4. /\ x \in Object /\ memory'[x] = "live"
      /\ \E T \in SUBSET Object : P' \subseteq T /\ Closed(T)' /\ x \notin T
  <2>1. x \in Object /\ memory'[x] = "live" /\ x \notin Reach(P)' BY DEF Lost, Memory
  <2> HIDE DEF P
  <2> QED BY <2>1 DEF Reach
<1>5. Trace \/ Reclaim
  <2>1. ~Running /\ ~DestructorReturns /\ ~Deletion
    BY <1>2 DEF Running, DestructorReturns, Deletion, DelEnter, DelCalled, FreeSlot, FreeDone, Freeing, On
  <2>2. ~Called /\ ~DestructorsCalled /\ ~FullReturns /\ \A o \in Object : ~CallDestructor(o)
    BY <1>2 DEF Called, DestructorsCalled, FullReturns, CallDestructor, On
  <2>3. \A o \in Object : ~Destroy(o) BY <1>3 DEF Destroy
  <2> QED BY <2>1, <2>2, <2>3 DEF Next, Program, Collector
<1>6. CASE Trace
  <2>1. White = {}
    <3> DEFINE f == [Top EXCEPT !.at = "dtors", !.dtors = {o \in White : NeedsDestructor(o)} # {}]
    <3>1. White # {} => stack' = Append(st, f) BY <1>6 DEF Trace, Above
    <3> HIDE DEF f
    <3> QED BY <1>3, <3>1
  <2>2. \A y \in Object : tag'[y] = "none" BY <1>6, <2>1, TraceTags
  <2>3. (Object \ Tagged("none"))' = {} BY <2>2 DEF Tagged
  <2>4. x \in Reach(Object \ Tagged("none"))' BY DEF NoneForgotten
  <2>5. {} \in SUBSET Object /\ Closed({})' BY DEF Closed, SlotsOf, Refs
  <2> QED BY <2>3, <2>4, <2>5 DEF Reach
<1>7. CASE Reclaim
  <2>1. /\ Top.at = "destroy" /\ heap' = heap
        /\ memory' = [o \in Object |-> IF tag[o] = "garbage" THEN "free" ELSE memory[o]]
    BY <1>7 DEF Reclaim, On, Tagged
  <2>2. KeepsAll(heap, memory, tag, ToSet(stack))
    <3>1. Cleaning(stack) BY <1>1, <1>2, <2>1 DEF Cleaning, Clean
    <3> QED BY <3>1, CleanIs
  <2>3. PICK T \in SUBSET Object : P' \subseteq T /\ Closed(T)' /\ x \notin T BY <1>4
  <2>4. \A y \in Object : memory'[y] = IF tag[y] = "garbage" THEN "free" ELSE memory[y] BY <2>1
  <2>5. /\ \A s \in Slot : heap[s] # Nil /\ (Owner[s] = Global \/ (Owner[s] \in Object /\ memory'[Owner[s]] = "dying"))
                               => heap[s] \in T
        /\ \A i \in DOMAIN stack' : stack'[i].obj # Nil => stack'[i].obj \in T
    <3>1. P' \subseteq T <=> /\ Refs(SlotsOf({Global}))' \subseteq T
                             /\ Refs(SlotsOf(Memory("dying") \cup Memory("null")))' \subseteq T
                             /\ {stack'[i].obj : i \in DOMAIN stack'} \ {Nil} \subseteq T
      BY DEF InProgress
    <3> HIDE DEF P
    <3> QED BY <2>1, <2>3, <3>1 DEF Refs, SlotsOf, Memory
  <2>6. \A s \in Slot : Owner[s] \in T /\ memory'[Owner[s]] = "live" /\ heap[s] # Nil => heap[s] \in T
    BY <2>1, <2>3, ClosedIs
  <2>7. Keeps(T, heap, memory, tag, ToSet(stack))
    <3>1. \A f \in ToSet(st) : f.obj # Nil => f.obj \in T BY <2>5 DEF ToSet
    <3>2. Top.obj = Nil BY <1>1, <1>2, FrameTypes
    <3>3. \A f \in ToSet(stack) : f.obj \in Object => f.obj \in T BY <1>1, <3>1, <3>2, GCAssumption
    <3> QED BY <2>4, <2>5, <2>6, <3>3 DEF Keeps
  <2>8. memory[x] = "live" /\ tag[x] # "garbage" BY <1>4, <2>4
  <2> QED BY <1>4, <2>2, <2>3, <2>7, <2>8 DEF KeepsAll
<1> QED BY <1>5, <1>6, <1>7

\* Every collection, at any point of any program and whatever it contains, that calls
\* no destructor leaves no live object that cannot be reached.
THEOREM CollectionsAreComplete == Spec => CollectsAll
<1>1. IInv => NoneForgotten BY NothingForgotten
<1>2. IInv /\ CleanInv /\ NoneForgotten' /\ [Next]_vars
        => [stack # <<>> /\ Ends(Top) /\ stack' = Front(stack) => Lost' = {}]_vars
  BY EndsClean
<1> QED BY <1>1, <1>2, CleanInductive, PTL DEF Spec, CollectsAll
=============================================================================
