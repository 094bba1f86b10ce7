------------------------- MODULE GcRootBufferProofs -------------------------
(* Proofs about GcRootBuffer. *)
EXTENDS GcRootBuffer, FiniteSetTheorems, SequenceTheorems, WellFoundedInduction, TLAPS
-----------------------------------------------------------------------------
(* Numbers, sets and sequences                                             *)

\* A non-empty set of natural numbers has a least element.
LEMMA NatMin ==
  ASSUME NEW T \in SUBSET Nat, T # {}
  PROVE  \E x \in T : \A y \in T : x <= y
<1> DEFINE R == OpToRel(<, Nat)
<1>1. IsWellFoundedOn(R, Nat) BY NatLessThanWellFounded
<1>2. \A x, y \in T : y < x => <<y, x>> \in R BY DEF OpToRel
<1> HIDE DEF R
<1>3. PICK x \in T : \A y \in T : ~(<<y, x>> \in R) BY <1>1, WFMin
<1>4. ASSUME NEW y \in T PROVE x <= y
  <2>1. ~(y < x) BY <1>2, <1>3
  <2> QED BY <2>1
<1> QED BY <1>4

\* A non-empty bounded set of natural numbers has a greatest element.
LEMMA NatMax ==
  ASSUME NEW n \in Nat, NEW T \in SUBSET (0 .. n), T # {}
  PROVE  \E x \in T : \A y \in T : y <= x
<1> DEFINE U == {u \in 0 .. n : n - u \in T}
<1>1. PICK t \in T : TRUE OBVIOUS
<1>2. n - t \in U BY n - (n - t) = t
<1>3. PICK u \in U : \A v \in U : u <= v
  <2> U \in SUBSET Nat /\ U # {} BY <1>2
  <2> HIDE DEF U
  <2> QED BY NatMin
<1>4. ASSUME NEW y \in T PROVE y <= n - u
  <2>1. n - y \in U BY n - (n - y) = y
  <2>2. u <= n - y BY <1>3, <2>1
  <2> QED BY <2>2
<1> QED BY <1>4

\* How many elements 1..n has.
LEMMA IntervalFrom1 ==
  ASSUME NEW n \in Int
  PROVE  IsFiniteSet(1 .. n) /\ Cardinality(1 .. n) = IF 1 > n THEN 0 ELSE n
<1>1. /\ IsFiniteSet(1 .. n)
      /\ Cardinality(1 .. n) = IF 1 > n THEN 0 ELSE n - 1 + 1
  BY FS_Interval
<1>2. n - 1 + 1 = n OBVIOUS
<1> QED BY <1>1, <1>2

\* A subset of 1..n with at least n elements is all of 1..n.
LEMMA FullInterval ==
  ASSUME NEW n \in Nat, NEW S \in SUBSET (1 .. n), Cardinality(S) >= n
  PROVE  S = 1 .. n
<1>1. IsFiniteSet(1 .. n) /\ Cardinality(1 .. n) = n BY FS_Interval
<1>2. /\ IsFiniteSet(S) /\ Cardinality(S) <= n
      /\ Cardinality(1 .. n) = Cardinality(S) => 1 .. n = S
  BY <1>1, FS_Subset
<1>3. Cardinality(S) \in Nat BY <1>2, FS_CardinalityType
<1> QED BY <1>1, <1>2, <1>3

\* A subset of 1..n with fewer than n elements leaves one out.
LEMMA HoleInInterval ==
  ASSUME NEW n \in Nat, NEW S \in SUBSET (1 .. n), Cardinality(S) < n
  PROVE  \E i \in 1 .. n : i \notin S
<1>1. Cardinality(1 .. n) = n BY FS_Interval
<1>2. S # 1 .. n BY <1>1
<1> QED BY <1>2

\* A stack that is a sequence, after a push ...
LEMMA PushSeq ==
  ASSUME NEW S, NEW s \in Seq(S), NEW e \in S
  PROVE  /\ Append(s, e) \in Seq(S) /\ Append(s, e) # <<>>
         /\ \A i \in DOMAIN Append(s, e) :
                \/ Append(s, e)[i] = e
                \/ i \in DOMAIN s /\ Append(s, e)[i] = s[i]
<1>1. /\ Append(s, e) \in Seq(S) /\ Append(s, e) # <<>>
      /\ Len(Append(s, e)) = Len(s) + 1
      /\ \A i \in 1 .. Len(s) : Append(s, e)[i] = s[i]
      /\ Append(s, e)[Len(s) + 1] = e
  BY AppendProperties
<1>2. /\ Len(s) \in Nat /\ DOMAIN s = 1 .. Len(s)
      /\ DOMAIN Append(s, e) = 1 .. (Len(s) + 1)
  BY <1>1, LenProperties
<1> QED BY <1>1, <1>2

\* ... and after a pop.
LEMMA PopSeq ==
  ASSUME NEW S, NEW s \in Seq(S), s # <<>>
  PROVE  /\ Len(s) \in DOMAIN s /\ s[Len(s)] \in S
         /\ SubSeq(s, 1, Len(s) - 1) \in Seq(S)
         /\ SubSeq(s, 1, Len(s) - 1) = <<>> <=> Len(s) = 1
         /\ \A i \in DOMAIN SubSeq(s, 1, Len(s) - 1) :
                i \in DOMAIN s /\ SubSeq(s, 1, Len(s) - 1)[i] = s[i]
<1> DEFINE n == Len(s) - 1
           t == SubSeq(s, 1, n)
<1>1. /\ Len(s) \in Nat \ {0} /\ DOMAIN s = 1 .. Len(s) /\ \A i \in 1 .. Len(s) : s[i] \in S
  BY EmptySeq, LenProperties, ElementOfSeq
<1>2. n \in Nat /\ \A i \in 1 .. n : s[i] \in S BY <1>1
<1>3. /\ t \in Seq(S) /\ Len(t) = IF 1 <= n THEN n - 1 + 1 ELSE 0
      /\ \A i \in 1 .. (n - 1 + 1) : t[i] = s[1 + i - 1]
  <2> HIDE DEF n
  <2> QED BY <1>2, SubSeqProperties
<1>4. Len(t) = n /\ DOMAIN t = 1 .. n /\ \A i \in 1 .. n : t[i] = s[i]
  <2>1. n - 1 + 1 = n BY <1>2
  <2>2. \A i \in 1 .. n : 1 + i - 1 = i BY <1>2
  <2>3. Len(t) = n BY <1>2, <1>3, <2>1
  <2> HIDE DEF n, t
  <2>4. DOMAIN t = 1 .. n BY <1>3, <2>3, LenProperties
  <2> QED BY <1>2, <1>3, <2>1, <2>2, <2>3, <2>4
<1>5. t = <<>> <=> n = 0
  <2>1. Len(t) = 0 => t = <<>> BY <1>3, EmptySeq
  <2>2. Len(<<>>) = 0 BY EmptySeq
  <2> QED BY <1>4, <2>1, <2>2
<1> QED BY <1>1, <1>3, <1>4, <1>5

\* Compressing keeps an address in range and gc_decompress can reach the slot.
LEMMA CompressReach ==
  ASSUME NEW i \in Slots
  PROVE  /\ Compress(i) \in Nat /\ Compress(i) # 0
         /\ i \in Probes(Compress(i))
<1> DEFINE M == MaxUncompressed
<1> M \in Nat \ {0} /\ MaxBufSize \in Nat /\ i \in Nat \ {0} /\ i < MaxBufSize
  BY SizesAssumption DEF Slots
<1>1. CASE i < M
  <2>1. Compress(i) = i BY <1>1 DEF Compress
  <2>2. i = i + 0 * M /\ 0 \in 0 .. MaxBufSize OBVIOUS
  <2> QED BY <2>1, <2>2 DEF Probes
<1>2. CASE ~(i < M)
  <2> DEFINE q == i \div M
             m == i % M
  <2>1. i = M * q + m /\ m \in 0 .. (M - 1) /\ q \in Nat
    OBVIOUS
  <2>2. Compress(i) = m + M BY <1>2 DEF Compress
  <2>3. q # 0 BY <1>2, <2>1
  <2>4. q <= i
    <3>1. M * q >= q BY <2>1
    <3> QED BY <2>1, <3>1
  <2>5. PICK k \in Nat : q = k + 1 BY <2>1, <2>3
  <2>6. M * q = k * M + M BY <2>5
  <2>7. i = Compress(i) + k * MaxUncompressed
    <3> HIDE DEF m, q
    <3>1. k * M \in Nat OBVIOUS
    <3>2. m \in Nat BY <2>1
    <3> QED BY <2>1, <2>2, <2>6, <3>1, <3>2
  <2>8. k \in 0 .. MaxBufSize BY <2>4, <2>5, <2>1
  <2>9. Compress(i) \in Nat /\ Compress(i) # 0 BY <2>1, <2>2
  <2> QED BY <2>7, <2>8, <2>9 DEF Probes
<1> QED BY <1>1, <1>2

-----------------------------------------------------------------------------
(* The slots in use.                                                       *)

BufOK == AddressesMatchSlots /\ NumRootsExact /\ FreeListLinks /\ SlotsWellFormed
BufTypeOK == /\ buf \in [Slots -> Entry]
             /\ info \in [Ref -> [addr : Nat, color : Colors]]
             /\ unused \in Nat /\ first_unused \in Nat /\ num_roots \in Nat

LEMMA InUseFinite ==
  ASSUME Top \in Int
  PROVE  /\ InUse \subseteq 1 .. Top
         /\ IsFiniteSet(InUse)
         /\ Cardinality(InUse) \in Nat
<1>2. InUse \subseteq 1 .. Top BY DEF InUse
<1>3. IsFiniteSet(1 .. Top) BY FS_Interval
<1>4. IsFiniteSet(InUse) BY <1>2, <1>3, FS_Subset
<1>5. Cardinality(InUse) \in Nat BY <1>4, FS_CardinalityType
<1> QED BY <1>2, <1>4, <1>5

\* Entries that do not change, in a step that changes neither Top nor the
\* list, keep the buffer in order.
LEMMA BufFrame ==
  ASSUME BufOK, UNCHANGED bufVars, Top' = Top, pc' = "compact" \/ pc # "compact"
  PROVE  BufOK'
BY DEF BufOK, bufVars, AddressesMatchSlots, NumRootsExact, FreeListLinks, SlotsWellFormed,
       InUse, UnusedSlots, IsLive, IsUnused

\* gc_compress never yields the address 0, which means "no address".
LEMMA NoAddressNoSlot ==
  ASSUME BufTypeOK, AddressesMatchSlots, NEW r \in Ref, info[r].addr = 0,
         first_unused <= MaxBufSize, pc # "compact"
  PROVE  \A i \in InUse : buf[i].ref # r
<1> SUFFICES ASSUME NEW i \in InUse, buf[i].ref = r PROVE FALSE OBVIOUS
<1>1. i \in Slots BY SizesAssumption DEF InUse, Top, Slots, BufTypeOK
<1>2. Compress(i) # 0 BY <1>1, CompressReach
<1> QED BY <1>2 DEF AddressesMatchSlots

\* The slot the next value is stored in.
StoreSlot == IF HasUnused THEN unused ELSE first_unused

\* Storing a value takes one slot, which was not in use, and from the list
\* at most its head.
LEMMA StoreSlots ==
  ASSUME BufTypeOK, BufOK, pc # "compact", pc' # "compact",
         first_unused <= MaxBufSize,
         NEW r \in Ref, NEW tag \in LiveTags, NEW color \in Colors,
         \/ StoreInUnused(r, tag, color)
         \/ first_unused \in Slots /\ StoreInNext(r, tag, color)
  PROVE  /\ StoreSlot \in Slots /\ StoreSlot \notin InUse /\ StoreSlot \in 1 .. Top'
         /\ Top = first_unused - 1 /\ Top' = first_unused' - 1
         /\ Compress(StoreSlot) \in Nat /\ Compress(StoreSlot) # 0
         /\ \A j \in Slots : j # StoreSlot => buf'[j] = buf[j]
         /\ buf'[StoreSlot] = Live(tag, r)
         /\ \A q \in Ref : q # r => info'[q] = info[q]
         /\ info'[r] = Info(Compress(StoreSlot), color)
         /\ num_roots' = num_roots + 1
         /\ HasUnused => /\ StoreSlot = unused /\ unused \in UnusedSlots
                         /\ unused' = buf[unused].next /\ first_unused' = first_unused
         /\ ~HasUnused => /\ StoreSlot = first_unused /\ StoreSlot \notin UnusedSlots
                          /\ first_unused' = first_unused + 1 /\ unused' = unused /\ unused = 0
         /\ \A j \in 1 .. Top' : j # StoreSlot => j \in 1 .. Top
         /\ \A j \in 1 .. Top : j \in 1 .. Top' /\ j \in Slots
         /\ InUse' = InUse \cup {StoreSlot}
         /\ UnusedSlots' = UnusedSlots \ {StoreSlot}
         /\ BufTypeOK'
<1> DEFINE i == StoreSlot
<1> USE SizesAssumption
<1>1. /\ i \in Slots /\ Store(i, r, tag, color)
      /\ i \notin InUse /\ Top = first_unused - 1 /\ Top' = first_unused' - 1
      /\ HasUnused => i = unused /\ i \in UnusedSlots /\ unused' = buf[i].next /\ first_unused' = first_unused
      /\ ~HasUnused => i = first_unused /\ first_unused' = first_unused + 1 /\ unused' = unused /\ unused = 0
  BY DEF StoreInUnused, StoreInNext, HasUnused, Slots, BufTypeOK, BufOK, FreeListLinks, UnusedSlots,
         InUse, Top, IsLive, IsUnused, LiveTags, StoreSlot
<1>a. ~HasUnused => i \notin UnusedSlots BY <1>1 DEF UnusedSlots, BufTypeOK
<1> HIDE DEF i
<1>2. /\ buf' = [buf EXCEPT ![i] = Live(tag, r)]
      /\ info' = [info EXCEPT ![r] = Info(Compress(i), color)]
      /\ num_roots' = num_roots + 1
  BY <1>1 DEF Store
<1>3. Compress(i) \in Nat /\ Compress(i) # 0 BY <1>1, CompressReach
<1>4. BufTypeOK'
  <2>1. Live(tag, r) \in Entry BY DEF Live, Entry, LiveTags
  <2>2. Info(Compress(i), color) \in [addr : Nat, color : Colors] BY <1>3 DEF Info
  <2>3. unused' \in Nat /\ first_unused' \in Nat BY <1>1 DEF BufTypeOK, Entry
  <2> QED BY <1>1, <1>2, <2>1, <2>2, <2>3 DEF BufTypeOK
<1>5. /\ \A j \in Slots : j # i => buf'[j] = buf[j]
      /\ buf'[i] = Live(tag, r)
      /\ \A q \in Ref : q # r => info'[q] = info[q]
      /\ info'[r] = Info(Compress(i), color)
  BY <1>1, <1>2 DEF BufTypeOK
<1>6. buf'[i].tag = tag BY <1>5 DEF Live
<1>7. /\ \A j \in 1 .. Top' : j # i => j \in 1 .. Top
      /\ \A j \in 1 .. Top : j \in 1 .. Top' /\ j \in Slots
      /\ \A j \in 1 .. Top' : j \in Slots
      /\ i \in 1 .. Top'
  BY <1>1 DEF UnusedSlots, BufTypeOK, Slots
<1>8. InUse' = InUse \cup {i} BY <1>5, <1>6, <1>7 DEF InUse, IsLive
<1>9. UnusedSlots' = UnusedSlots \ {i}
  <2>1. buf'[i].tag # "unused" BY <1>6 DEF LiveTags
  <2>2. /\ UnusedSlots = {j \in 1 .. Top : IsUnused(j)}
        /\ UnusedSlots' = {j \in 1 .. Top' : IsUnused(j)'}
    BY <1>1 DEF UnusedSlots
  <2> QED BY <1>5, <1>7, <2>1, <2>2 DEF IsUnused
<1> QED BY <1>1, <1>a, <1>2, <1>3, <1>4, <1>5, <1>7, <1>8, <1>9 DEF i

\* A value stored in a slot that was not in use.
LEMMA StoreOK ==
  ASSUME BufTypeOK, BufOK, pc # "compact", pc' # "compact",
         first_unused <= MaxBufSize,
         NEW r \in Ref, info[r].addr = 0,
         NEW tag \in LiveTags, NEW color \in Colors,
         \/ StoreInUnused(r, tag, color)
         \/ first_unused \in Slots /\ StoreInNext(r, tag, color)
  PROVE  BufOK' /\ BufTypeOK'
<1> DEFINE i == StoreSlot
<1>1. /\ i \in Slots /\ i \notin InUse
      /\ \A j \in 1 .. Top' : j # i => j \in 1 .. Top
      /\ \A j \in 1 .. Top : j \in Slots
      /\ \A j \in Slots : j # i => buf'[j] = buf[j]
      /\ buf'[i] = Live(tag, r)
      /\ \A q \in Ref : q # r => info'[q] = info[q]
      /\ info'[r] = Info(Compress(i), color)
      /\ num_roots' = num_roots + 1
      /\ InUse' = InUse \cup {i} /\ UnusedSlots' = UnusedSlots \ {i} /\ BufTypeOK'
  BY StoreSlots
<1>2. /\ HasUnused => i = unused /\ unused' = buf[unused].next
      /\ ~HasUnused => i \notin UnusedSlots /\ unused' = unused
  BY StoreSlots
<1> HIDE DEF i
<1>3. /\ buf'[i].tag = tag /\ buf'[i].ref = r /\ info'[r].addr = Compress(i)
  BY <1>1 DEF Live, Info
<1>4. InUse \subseteq Slots BY <1>1 DEF InUse
<1>5. AddressesMatchSlots'
  <2>1. \A j \in InUse : buf[j].ref # r BY NoAddressNoSlot DEF BufOK
  <2>2. \A j \in InUse : j # i /\ j \in Slots /\ buf'[j] = buf[j] BY <1>1, <1>4
  <2>3. \A j \in InUse : buf[j].ref \in Ref
    BY DEF InUse, IsLive, IsUnused, LiveTags, BufOK, SlotsWellFormed
  <2> QED BY <1>1, <1>3, <2>1, <2>2, <2>3 DEF BufOK, AddressesMatchSlots
<1>6. NumRootsExact'
  <2>1. Top \in Int BY DEF Top, BufTypeOK
  <2>2. IsFiniteSet(InUse) BY <2>1, InUseFinite
  <2>3. Cardinality(InUse \cup {i}) = Cardinality(InUse) + 1 BY <1>1, <2>2, FS_AddElement
  <2> QED BY <1>1, <2>3 DEF BufOK, NumRootsExact
<1>7. FreeListLinks'
  <2>1. \A j \in UnusedSlots : j \in Slots BY <1>1 DEF UnusedSlots, Top
  <2>2. \A j \in UnusedSlots' : buf'[j] = buf[j] BY <1>1, <2>1
  <2>3. CASE HasUnused BY <1>1, <1>2, <2>2, <2>3 DEF BufOK, FreeListLinks, HasUnused
  <2>4. CASE ~HasUnused BY <1>1, <1>2, <2>2, <2>4 DEF BufOK, FreeListLinks, HasUnused
  <2> QED BY <2>3, <2>4
<1>8. SlotsWellFormed'
  BY <1>1, <1>3 DEF BufOK, SlotsWellFormed, IsLive, IsUnused
<1> QED BY <1>1, <1>5, <1>6, <1>7, <1>8 DEF BufOK

\* gc_remove_from_buffer finds the slot of a value that has an address.
LEMMA SlotOfOK ==
  ASSUME BufTypeOK, BufOK, pc # "compact", first_unused <= MaxBufSize,
         NEW r \in Ref, info[r].addr # 0
  PROVE  SlotOf(r) \in InUse /\ buf[SlotOf(r)].ref = r
<1> USE SizesAssumption, RefAssumption
<1>1. PICK i \in InUse : buf[i].ref = r /\ info[r].addr = Compress(i)
  BY DEF BufOK, AddressesMatchSlots
<1>2. i \in Slots /\ i < first_unused /\ i \in Nat BY DEF InUse, Top, Slots, BufTypeOK
<1>3. CASE first_unused < MaxUncompressed
  <2>1. Compress(i) = i BY <1>2, <1>3 DEF Compress, BufTypeOK
  <2> QED BY <1>1, <1>2, <1>3, <2>1 DEF SlotOf, BufTypeOK
<1>4. CASE ~(first_unused < MaxUncompressed)
  <2> DEFINE a == info[r].addr
             P(j) == /\ buf[j].ref = r
                     /\ \A k \in Probes(a) : k < j => buf[k].ref # r
  <2>1. i \in Probes(a) BY <1>1, <1>2, CompressReach
  <2>2. \A k \in Probes(a) : k \in Nat /\ (k < i => buf[k].ref # r)
    <3> SUFFICES ASSUME NEW k \in Probes(a), k < i, buf[k].ref = r PROVE FALSE
      BY DEF Probes, Slots
    <3>1. k \in 1 .. Top BY <1>2 DEF Probes, Slots, Top, BufTypeOK
    <3>2. IsLive(k) BY <3>1 DEF BufOK, SlotsWellFormed
    <3>3. k \in InUse BY <3>1, <3>2 DEF InUse
    <3> QED BY <1>1, <1>2, <3>3 DEF BufOK, AddressesMatchSlots, Probes, Slots
  <2>3. P(i) BY <1>1, <2>2
  <2>4. \A j \in Probes(a) : P(j) => j = i
    <3> SUFFICES ASSUME NEW j \in Probes(a), P(j) PROVE j = i OBVIOUS
    <3>1. j \in Nat BY <2>2
    <3> QED BY <1>1, <1>2, <2>1, <2>2, <3>1
  <2>5. Decompress(r, a) = i
    <3> HIDE DEF P, a
    <3>1. (CHOOSE j \in Probes(a) : P(j)) = i BY <2>1, <2>3, <2>4
    <3> QED BY <3>1 DEF P, Decompress
  <2> QED BY <1>1, <1>4, <2>5 DEF SlotOf, BufTypeOK
<1> QED BY <1>3, <1>4

\* A value unlinked from the slot it is in.
LEMMA UnlinkOK ==
  ASSUME BufTypeOK, BufOK, pc # "compact", pc' # "compact",
         first_unused <= MaxBufSize,
         NEW i \in InUse, NEW r \in Ref, buf[i].ref = r,
         Unlink(i, r)
  PROVE  /\ BufOK' /\ BufTypeOK'
         /\ InUse' = InUse \ {i}
         /\ i \notin UnusedSlots /\ UnusedSlots' = UnusedSlots \cup {i}
<1> USE SizesAssumption
<1>1. /\ i \in Slots /\ i \in 1 .. (first_unused - 1) /\ IsLive(i)
      /\ Top = first_unused - 1 /\ Top' = Top /\ Top \in Int
      /\ 1 .. Top \subseteq Slots
  BY DEF InUse, Top, Slots, BufTypeOK, Unlink
<1>2. /\ buf' = [buf EXCEPT ![i] = Unused(unused)]
      /\ unused' = i /\ num_roots' = num_roots - 1
      /\ info' = [info EXCEPT ![r] = NoInfo]
      /\ first_unused' = first_unused
  BY DEF Unlink
<1>3. IsFiniteSet(InUse) /\ Cardinality(InUse) \in Nat BY <1>1, InUseFinite
<1>4. /\ IsFiniteSet(InUse \ {i})
      /\ Cardinality(InUse \ {i}) = Cardinality(InUse) - 1
  BY <1>3, FS_RemoveElement
<1>5. Cardinality(InUse \ {i}) \in Nat BY <1>4, FS_CardinalityType
<1>6. num_roots' = Cardinality(InUse \ {i}) /\ num_roots' \in Nat
  BY <1>2, <1>4, <1>5 DEF BufOK, NumRootsExact
<1>7. BufTypeOK'
  <2>1. Unused(unused) \in Entry BY DEF Unused, Entry, BufTypeOK
  <2>2. NoInfo \in [addr : Nat, color : Colors] BY DEF NoInfo, Info, Colors
  <2>3. unused' \in Nat BY <1>1, <1>2 DEF Slots
  <2> QED BY <1>2, <1>6, <2>1, <2>2, <2>3 DEF BufTypeOK
<1>8. /\ \A j \in Slots : j # i => buf'[j] = buf[j]
      /\ buf'[i].tag = "unused" /\ buf'[i].ref = NoRef /\ buf'[i].next = unused
      /\ \A q \in Ref : q # r => info'[q] = info[q]
      /\ info'[r].addr = 0
  BY <1>1, <1>2 DEF BufTypeOK, Unused, NoInfo, Info
<1>9. InUse' = InUse \ {i}
  BY <1>1, <1>8 DEF InUse, IsLive, LiveTags
<1>10. AddressesMatchSlots'
  <2>1. \A j \in InUse : j \in Slots /\ buf[j].ref \in Ref
    BY <1>1, RefAssumption DEF InUse, IsLive, IsUnused, LiveTags, BufOK, SlotsWellFormed
  <2> QED BY <1>8, <1>9, <2>1 DEF BufOK, AddressesMatchSlots
<1>11. NumRootsExact' BY <1>6, <1>9 DEF NumRootsExact
<1>12. UnusedSlots' = UnusedSlots \cup {i}
  BY <1>1, <1>2, <1>8 DEF UnusedSlots, IsUnused
<1>13. FreeListLinks'
  <2>1. \A j \in UnusedSlots : j \in Slots /\ j # i
    BY <1>1 DEF UnusedSlots, IsLive, IsUnused, LiveTags
  <2>2. i # 0 BY <1>1 DEF Slots
  <2> QED BY <1>2, <1>8, <1>12, <2>1, <2>2 DEF BufOK, FreeListLinks
<1>14. SlotsWellFormed'
  BY <1>1, <1>8 DEF BufOK, SlotsWellFormed, IsLive, IsUnused
<1>15. i \notin UnusedSlots BY <1>1 DEF UnusedSlots, IsLive, IsUnused, LiveTags
<1> QED BY <1>7, <1>9, <1>10, <1>11, <1>12, <1>13, <1>14, <1>15 DEF BufOK

-----------------------------------------------------------------------------
(* gc_compact.                                                             *)

\* The inner loops stop: one at the first hole, the other at the last entry.
LEMMA FingersOK ==
  ASSUME BufTypeOK, BufOK, Fingers, pc = "compact", free < scan,
         free \in Nat, scan \in Nat, first_unused <= MaxBufSize
  PROVE  /\ FreeFinger \in free .. scan /\ IsUnused(FreeFinger)
         /\ \A j \in free .. (FreeFinger - 1) : ~IsUnused(j)
         /\ ScanFinger \in 1 .. scan /\ ~IsUnused(ScanFinger)
         /\ \A j \in (ScanFinger + 1) .. scan : IsUnused(j)
<1> USE SizesAssumption
<1>1. /\ Top = scan /\ InUse \subseteq 1 .. scan /\ Cardinality(InUse) = num_roots
      /\ num_roots \in Nat /\ num_roots # 0 /\ num_roots < scan
      /\ 1 <= free
      /\ 1 .. scan \subseteq Slots
  BY DEF BufTypeOK, BufOK, NumRootsExact, Fingers, Top, InUse, Slots
<1>2. \A j \in 1 .. scan : IsLive(j) <=> ~IsUnused(j)
  BY <1>1 DEF BufOK, SlotsWellFormed, IsLive, IsUnused, LiveTags
<1>3. \E j \in free .. scan : IsUnused(j)
  <2>1. PICK j \in 1 .. scan : j \notin InUse BY <1>1, HoleInInterval
  <2>2. ~IsLive(j) BY <1>1, <2>1 DEF InUse
  <2>3. j \notin 1 .. (free - 1) BY <2>2 DEF Fingers
  <2> QED BY <1>2, <2>1, <2>2, <2>3
<1>4. \E j \in 1 .. scan : ~IsUnused(j)
  <2>1. InUse # {} BY <1>1, FS_EmptySet
  <2> QED BY <1>1, <1>2, <2>1 DEF InUse
<1>5. PICK f \in free .. scan : IsUnused(f) /\ \A j \in free .. scan : IsUnused(j) => f <= j
  <2> DEFINE T == {j \in free .. scan : IsUnused(j)}
  <2>1. T \in SUBSET Nat /\ T # {} BY <1>3
  <2> HIDE DEF T
  <2>2. \E x \in T : \A y \in T : x <= y BY <2>1, NatMin
  <2> QED BY <2>2 DEF T
<1>6. PICK t \in 1 .. scan : ~IsUnused(t) /\ \A j \in 1 .. scan : ~IsUnused(j) => j <= t
  <2> DEFINE T == {j \in 1 .. scan : ~IsUnused(j)}
  <2>1. T \in SUBSET (0 .. scan) /\ T # {} BY <1>4
  <2> HIDE DEF T
  <2>2. \E x \in T : \A y \in T : y <= x BY <2>1, NatMax
  <2> QED BY <2>2 DEF T
<1> DEFINE P(i) == /\ i >= free /\ IsUnused(i)
                   /\ \A j \in Slots : j \in free .. (i - 1) => ~IsUnused(j)
           Q(i) == /\ i <= scan /\ ~IsUnused(i)
                   /\ \A j \in Slots : j \in (i + 1) .. scan => IsUnused(j)
<1>7. f \in Slots /\ P(f) BY <1>1, <1>5
<1>8. \A i \in Slots : P(i) => i = f BY <1>1, <1>5, <1>7 DEF Slots
<1>9. t \in Slots /\ Q(t) BY <1>1, <1>6
<1>10. \A i \in Slots : Q(i) => i = t BY <1>1, <1>6, <1>9 DEF Slots
<1>11. FreeFinger = f
  <2> HIDE DEF P
  <2>1. (CHOOSE i \in Slots : P(i)) = f BY <1>7, <1>8
  <2> QED BY <2>1 DEF P, FreeFinger
<1>12. ScanFinger = t
  <2> HIDE DEF Q
  <2>1. (CHOOSE i \in Slots : Q(i)) = t BY <1>9, <1>10
  <2> QED BY <2>1 DEF Q, ScanFinger
<1>13. \A j \in free .. (f - 1) : ~IsUnused(j) BY <1>5
<1>14. \A j \in (t + 1) .. scan : IsUnused(j) BY <1>6
<1> QED BY <1>5, <1>6, <1>11, <1>12, <1>13, <1>14

\* One entry moves into the first hole, and the last move closes the array.
LEMMA CompactMoveOK ==
  ASSUME BufTypeOK, BufOK, Fingers, free \in Nat, scan \in Nat, first_unused <= MaxBufSize,
         CompactMove
  PROVE  /\ BufOK' /\ BufTypeOK' /\ Fingers'
         /\ pc' # "compact" => num_roots' + 1 = first_unused'
         /\ \A i \in InUse' : \E j \in InUse : buf'[i] = buf[j]
         /\ \A j \in InUse : \E i \in InUse' : buf'[i] = buf[j]
         /\ \A q \in Ref : info'[q].color = info[q].color
<1> USE SizesAssumption
<1> DEFINE f == FreeFinger
           t == ScanFinger
           r == buf[t].ref
           K == (InUse \ {t}) \cup {f}
<1>1. pc = "compact" /\ free < scan /\ f < t BY DEF CompactMove
<1>2. /\ f \in free .. scan /\ IsUnused(f) /\ \A j \in free .. (f - 1) : ~IsUnused(j)
      /\ t \in 1 .. scan /\ ~IsUnused(t) /\ \A j \in (t + 1) .. scan : IsUnused(j)
  BY <1>1, FingersOK
<1>3. /\ buf' = [buf EXCEPT ![f] = buf[t]]
      /\ info' = [info EXCEPT ![r].addr = Compress(f)]
      /\ num_roots' = num_roots
      /\ IF t - 1 <= num_roots
         THEN unused' = 0 /\ first_unused' = num_roots + 1 /\ pc' = ret
         ELSE /\ free' = f + 1 /\ scan' = t - 1 /\ pc' = pc /\ ret' = ret
              /\ unused' = unused /\ first_unused' = first_unused
  BY DEF CompactMove, AllMoved, LeaveCompact, CompactDone
<1> HIDE DEF f, t
<1>4. /\ Top = scan /\ 1 .. scan \subseteq Slots /\ scan < first_unused /\ 1 <= free
      /\ ret \in {"trace", "tag", "after"} /\ num_roots \in Nat /\ num_roots # 0
      /\ \A i \in 1 .. (free - 1) : IsLive(i)
  BY <1>1 DEF Top, Slots, Fingers, BufTypeOK
<1>5. /\ f \in Nat /\ t \in Nat /\ f \in Slots /\ t \in Slots /\ f # t
      /\ t \in InUse /\ f \notin InUse /\ r \in Ref
  BY <1>1, <1>2, <1>4, RefAssumption DEF InUse, BufOK, SlotsWellFormed, IsLive, IsUnused, LiveTags, Slots
<1>6. /\ buf'[f] = buf[t] /\ \A j \in Slots : j # f => buf'[j] = buf[j]
      /\ info'[r].addr = Compress(f) /\ info'[r].color = info[r].color
      /\ \A q \in Ref : q # r => info'[q] = info[q]
  BY <1>3, <1>5 DEF BufTypeOK
<1>7. BufTypeOK'
  <2>1. Compress(f) \in Nat BY <1>5, CompressReach
  <2>2. info' \in [Ref -> [addr : Nat, color : Colors]] BY <1>3, <1>5, <2>1 DEF BufTypeOK
  <2>3. buf' \in [Slots -> Entry] BY <1>3, <1>5 DEF BufTypeOK
  <2>4. unused' \in Nat /\ first_unused' \in Nat /\ num_roots' \in Nat
    BY <1>3, <1>4 DEF BufTypeOK
  <2> QED BY <2>2, <2>3, <2>4 DEF BufTypeOK
<1>8. K \subseteq 1 .. (t - 1) /\ Cardinality(K) = num_roots
  <2>1. \A j \in InUse : j \in 1 .. scan /\ ~IsUnused(j)
    BY <1>4 DEF InUse, IsLive, IsUnused, LiveTags
  <2>2. K \subseteq 1 .. (t - 1) BY <1>1, <1>2, <1>4, <1>5, <2>1
  <2>3. IsFiniteSet(InUse) BY <1>4, InUseFinite
  <2>4. IsFiniteSet(InUse \ {t}) /\ Cardinality(InUse \ {t}) = num_roots - 1
    BY <1>5, <2>3, FS_RemoveElement DEF BufOK, NumRootsExact
  <2>5. f \notin InUse \ {t} BY <1>5
  <2>6. Cardinality(K) = Cardinality(InUse \ {t}) + 1 BY <2>4, <2>5, FS_AddElement
  <2>7. Cardinality(K) = num_roots BY <1>4, <2>4, <2>6
  <2> QED BY <2>2, <2>7
<1>9. \A i \in 1 .. (t - 1) : /\ i \in Slots
                              /\ i \in K <=> buf'[i].tag \in LiveTags
                              /\ \/ buf'[i].tag \in LiveTags /\ buf'[i].ref \in Ref
                                 \/ buf'[i].tag = "unused" /\ buf'[i].ref = NoRef
  <2> SUFFICES ASSUME NEW i \in 1 .. (t - 1)
               PROVE  /\ i \in Slots
                      /\ i \in K <=> buf'[i].tag \in LiveTags
                      /\ \/ buf'[i].tag \in LiveTags /\ buf'[i].ref \in Ref
                         \/ buf'[i].tag = "unused" /\ buf'[i].ref = NoRef
    OBVIOUS
  <2>1. i \in 1 .. scan /\ i \in Slots /\ i # t BY <1>2, <1>4
  <2>2. CASE i = f BY <2>1, <2>2, <1>5, <1>6 DEF InUse, IsLive
  <2>3. CASE i # f BY <2>1, <2>3, <1>4, <1>6 DEF BufOK, SlotsWellFormed, InUse, IsLive, IsUnused
  <2> QED BY <2>1, <2>2, <2>3
<1>10. InUse' = K /\ Top' <= t - 1 /\ Top' \in Nat
  <2>1. CASE t - 1 <= num_roots
    <3>1. K \subseteq 1 .. num_roots BY <1>4, <1>5, <1>8, <2>1
    <3>2. K = 1 .. num_roots
      <4> HIDE DEF K
      <4> QED BY <1>4, <1>8, <3>1, FullInterval
    <3>3. num_roots <= t - 1 BY <1>4, <1>8, <3>2
    <3>4. Top' = num_roots BY <1>3, <1>4, <2>1 DEF Top
    <3>5. \A j \in 1 .. num_roots : buf'[j].tag \in LiveTags
      BY <1>4, <1>5, <1>9, <3>2, <3>3
    <3>6. InUse' = 1 .. num_roots BY <3>4, <3>5 DEF InUse, IsLive
    <3> QED BY <1>4, <3>2, <3>3, <3>4, <3>6
  <2>2. CASE ~(t - 1 <= num_roots)
    <3>1. Top' = t - 1 BY <1>1, <1>3, <2>2 DEF Top
    <3> QED BY <1>5, <1>8, <1>9, <3>1 DEF InUse, IsLive, Slots
  <2> QED BY <2>1, <2>2
<1>11. AddressesMatchSlots'
  <2>1. \A j \in InUse : j \in Slots /\ buf[j].ref \in Ref /\ (j # t => buf[j].ref # r)
    BY <1>4, <1>5, RefAssumption
    DEF InUse, IsLive, IsUnused, LiveTags, BufOK, SlotsWellFormed, AddressesMatchSlots
  <2>2. \A j \in K : \/ j = f /\ buf'[j].ref = r
                     \/ j \in InUse /\ j # t /\ j # f /\ buf'[j] = buf[j]
    BY <1>5, <1>6, <2>1
  <2> HIDE DEF r
  <2>3. \A j \in K : info'[buf'[j].ref].addr = Compress(j)
    BY <1>6, <2>1, <2>2 DEF BufOK, AddressesMatchSlots
  <2>4. \A i, j \in K : buf'[i].ref = buf'[j].ref => i = j
    BY <2>1, <2>2 DEF BufOK, AddressesMatchSlots
  <2>5. \A q \in Ref : info'[q].addr # 0 => \E i \in K : buf'[i].ref = q
    <3> SUFFICES ASSUME NEW q \in Ref, info'[q].addr # 0 PROVE \E i \in K : buf'[i].ref = q
      OBVIOUS
    <3>1. CASE q = r
      <4>1. f \in K /\ buf'[f].ref = r BY <1>6 DEF r
      <4> QED BY <3>1, <4>1
    <3>2. CASE q # r
      <4>1. PICK i \in InUse : buf[i].ref = q BY <1>6, <3>2 DEF BufOK, AddressesMatchSlots
      <4>2. i # t BY <3>2, <4>1 DEF r
      <4>3. i \in K /\ buf'[i] = buf[i] BY <1>5, <1>6, <2>1, <4>1, <4>2
      <4> QED BY <4>1, <4>3
    <3> QED BY <3>1, <3>2
  <2> HIDE DEF K
  <2> QED BY <1>10, <2>3, <2>4, <2>5 DEF AddressesMatchSlots
<1>12. NumRootsExact' BY <1>3, <1>8, <1>10 DEF NumRootsExact
<1>13. SlotsWellFormed'
  <2>1. 1 .. Top' \subseteq 1 .. (t - 1) BY <1>5, <1>10
  <2> QED BY <1>9, <2>1 DEF SlotsWellFormed, IsLive, IsUnused
<1>14. FreeListLinks'
  <2>1. CASE t - 1 <= num_roots
    <3>1. K = 1 .. num_roots
      <4>1. K \subseteq 1 .. num_roots BY <1>4, <1>5, <1>8, <2>1
      <4> HIDE DEF K
      <4> QED BY <1>4, <1>8, <4>1, FullInterval
    <3>2. \A i \in 1 .. (first_unused' - 1) : buf'[i].tag \in LiveTags
      BY <1>3, <1>4, <1>8, <1>9, <2>1, <3>1
    <3>3. UnusedSlots' = {} BY <3>2 DEF UnusedSlots, IsUnused, LiveTags
    <3> QED BY <1>3, <2>1, <3>3 DEF FreeListLinks
  <2>2. CASE ~(t - 1 <= num_roots)
    BY <1>1, <1>3, <2>2 DEF FreeListLinks
  <2> QED BY <2>1, <2>2
<1>15. Fingers'
  <2>1. CASE t - 1 <= num_roots
    BY <1>3, <1>4, <2>1 DEF Fingers
  <2>2. CASE ~(t - 1 <= num_roots)
    <3>1. \A i \in 1 .. f : buf'[i].tag \in LiveTags
      <4> SUFFICES ASSUME NEW i \in 1 .. f PROVE buf'[i].tag \in LiveTags OBVIOUS
      <4>1. CASE i = f BY <4>1, <1>5, <1>6 DEF InUse, IsLive
      <4>2. CASE i \in free .. (f - 1)
        BY <4>2, <1>2, <1>4, <1>5, <1>6 DEF BufOK, SlotsWellFormed, IsLive
      <4>3. CASE i \in 1 .. (free - 1) BY <4>3, <1>2, <1>4, <1>5, <1>6 DEF IsLive
      <4> QED BY <4>1, <4>2, <4>3, <1>4, <1>5
    <3>2. free' \in 1 .. (scan' + 1) /\ scan' < first_unused'
      BY <1>1, <1>2, <1>3, <1>4, <1>5, <2>2 DEF BufTypeOK
    <3>3. num_roots' < scan' BY <1>3, <1>4, <1>5, <2>2
    <3>4. \A i \in 1 .. (free' - 1) : buf'[i].tag \in LiveTags BY <1>3, <1>5, <2>2, <3>1
    <3> QED BY <1>3, <1>4, <2>2, <3>2, <3>3, <3>4 DEF Fingers, IsLive
  <2> QED BY <2>1, <2>2
<1>16. pc' # "compact" => num_roots' + 1 = first_unused' BY <1>1, <1>3
<1>17. /\ \A i \in K : \E j \in InUse : buf'[i] = buf[j]
       /\ \A j \in InUse : \E i \in K : buf'[i] = buf[j]
  <2>1. \A j \in InUse : j \in Slots BY <1>4 DEF InUse
  <2>2. \A i \in K : \/ i = f /\ buf'[i] = buf[t]
                     \/ i \in InUse /\ buf'[i] = buf[i]
    BY <1>5, <1>6, <2>1
  <2>3. \A j \in InUse : \/ j = t /\ f \in K /\ buf'[f] = buf[j]
                         \/ j \in K /\ buf'[j] = buf[j]
    BY <1>5, <1>6, <2>1
  <2> HIDE DEF K
  <2> QED BY <1>5, <2>2, <2>3
<1>18. \A q \in Ref : info'[q].color = info[q].color BY <1>6
<1> HIDE DEF K
<1> QED BY <1>7, <1>10, <1>11, <1>12, <1>13, <1>14, <1>15, <1>16, <1>17, <1>18 DEF BufOK

\* The fingers cross: nothing moves, and what is left of the array is full.
LEMMA CompactCrossOK ==
  ASSUME BufTypeOK, BufOK, Fingers, free \in Nat, scan \in Nat, first_unused <= MaxBufSize,
         CompactCross
  PROVE  /\ BufOK' /\ BufTypeOK' /\ Fingers' /\ free' \in Nat /\ scan' \in Nat
         /\ InUse' = InUse
<1> USE SizesAssumption
<1> DEFINE f == FreeFinger
           t == ScanFinger
<1>1. /\ pc = "compact" /\ free < scan /\ f >= t
      /\ free' = f /\ scan' = t /\ pc' = pc /\ ret' = ret
      /\ buf' = buf /\ info' = info /\ unused' = unused
      /\ first_unused' = first_unused /\ num_roots' = num_roots
  BY DEF CompactCross, bufVars, ctlVars
<1>2. /\ f \in free .. scan /\ IsUnused(f) /\ \A j \in free .. (f - 1) : ~IsUnused(j)
      /\ t \in 1 .. scan /\ ~IsUnused(t) /\ \A j \in (t + 1) .. scan : IsUnused(j)
  BY <1>1, FingersOK
<1> HIDE DEF f, t
<1>3. /\ Top = scan /\ scan < first_unused /\ 1 <= free
      /\ \A i \in 1 .. (free - 1) : IsLive(i)
      /\ Top' = t /\ f \in Nat /\ t \in Nat
  BY <1>1, <1>2 DEF Top, Fingers
<1>4. \A i \in 1 .. (f - 1) : IsLive(i)
  <2> SUFFICES ASSUME NEW i \in 1 .. (f - 1) PROVE IsLive(i) OBVIOUS
  <2>1. CASE i < free BY <1>3, <2>1
  <2>2. CASE i >= free BY <1>2, <1>3, <2>2 DEF BufOK, SlotsWellFormed
  <2> QED BY <1>3, <2>1, <2>2
<1>5. f = t + 1
  <2>1. f # t BY <1>2
  <2>2. ~(t + 1 < f)
    <3> SUFFICES ASSUME t + 1 < f PROVE FALSE OBVIOUS
    <3>1. IsUnused(t + 1) BY <1>2, <1>3
    <3>2. IsLive(t + 1) BY <1>3, <1>4
    <3> QED BY <3>1, <3>2 DEF IsLive, IsUnused, LiveTags
  <2> QED BY <1>1, <1>3, <2>1, <2>2
<1>6. InUse' = InUse
  <2>1. \A i \in InUse : i \in 1 .. t
    BY <1>2, <1>3 DEF InUse, IsLive, IsUnused, LiveTags
  <2>2. 1 .. t \subseteq 1 .. scan BY <1>2, <1>3
  <2> QED BY <1>1, <1>3, <2>1, <2>2 DEF InUse, IsLive
<1>7. BufTypeOK' BY <1>1 DEF BufTypeOK
<1>8. AddressesMatchSlots' /\ NumRootsExact'
  BY <1>1, <1>6 DEF BufOK, AddressesMatchSlots, NumRootsExact
<1>9. SlotsWellFormed'
  <2>1. 1 .. t \subseteq 1 .. scan BY <1>2, <1>3
  <2> QED BY <1>1, <1>3, <2>1 DEF BufOK, SlotsWellFormed, IsLive, IsUnused
<1>10. FreeListLinks' BY <1>1 DEF FreeListLinks
<1>11. Fingers' BY <1>1, <1>2, <1>3, <1>4, <1>5 DEF Fingers, IsLive, BufTypeOK
<1> QED BY <1>1, <1>3, <1>6, <1>7, <1>8, <1>9, <1>10, <1>11 DEF BufOK

\* The fingers met: the slots in use are the first num_roots.
LEMMA CompactFinishOK ==
  ASSUME BufTypeOK, BufOK, Fingers, free \in Nat, scan \in Nat, first_unused <= MaxBufSize,
         CompactFinish
  PROVE  /\ BufOK' /\ BufTypeOK' /\ Fingers' /\ num_roots' + 1 = first_unused'
         /\ InUse' = InUse
<1> USE SizesAssumption
<1>1. /\ pc = "compact" /\ free >= scan /\ pc' = ret
      /\ buf' = buf /\ info' = info /\ unused' = 0
      /\ first_unused' = num_roots + 1 /\ num_roots' = num_roots
  BY DEF CompactFinish, LeaveCompact, CompactDone
<1>2. /\ Top = scan /\ scan < first_unused /\ free \in 1 .. (scan + 1)
      /\ \A i \in 1 .. (free - 1) : IsLive(i)
      /\ ret \in {"trace", "tag", "after"} /\ num_roots \in Nat
      /\ Cardinality(InUse) = num_roots
  BY <1>1 DEF Top, Fingers, BufTypeOK, BufOK, NumRootsExact
<1>3. InUse = 1 .. num_roots
  <2>1. CASE scan \in InUse
    <3>1. InUse = 1 .. scan BY <1>1, <1>2, <2>1 DEF InUse
    <3>2. Cardinality(1 .. scan) = scan BY FS_Interval
    <3> QED BY <1>2, <3>1, <3>2
  <2>2. CASE scan \notin InUse
    <3>1. InUse = 1 .. (scan - 1)
      <4>1. \A i \in 1 .. scan : i \in InUse <=> IsLive(i) BY <1>2 DEF InUse
      <4>2. \A i \in InUse : i \in 1 .. scan BY <1>2 DEF InUse
      <4>3. \A i \in 1 .. (scan - 1) : i \in 1 .. (free - 1) BY <1>1, <1>2
      <4>4. \A i \in 1 .. (scan - 1) : i \in 1 .. scan /\ i \in InUse BY <1>2, <4>1, <4>3
      <4>5. \A i \in InUse : i \in 1 .. (scan - 1) BY <2>2, <4>2
      <4> QED BY <4>4, <4>5
    <3>2. Cardinality(1 .. (scan - 1)) = IF 1 > scan - 1 THEN 0 ELSE scan - 1
      BY FS_Interval
    <3>3. InUse = 1 .. num_roots BY <1>2, <3>1, <3>2
    <3> QED BY <3>3
  <2> QED BY <2>1, <2>2
<1>4. num_roots <= scan
  <2>1. num_roots # 0 => num_roots \in InUse BY <1>2, <1>3
  <2> QED BY <1>2, <2>1 DEF InUse
<1>5. Top' = num_roots /\ InUse' = InUse
  <2>1. Top' = num_roots BY <1>1, <1>2 DEF Top
  <2> QED BY <1>1, <1>3, <2>1 DEF InUse, IsLive
<1>6. BufTypeOK' BY <1>1, <1>2 DEF BufTypeOK
<1>7. AddressesMatchSlots' /\ NumRootsExact'
  BY <1>1, <1>5 DEF BufOK, AddressesMatchSlots, NumRootsExact
<1>8. SlotsWellFormed'
  <2>1. 1 .. num_roots \subseteq 1 .. scan BY <1>2, <1>4
  <2> QED BY <1>1, <1>2, <1>5, <2>1 DEF BufOK, SlotsWellFormed, IsLive, IsUnused
<1>9. FreeListLinks'
  <2>1. UnusedSlots' = {}
    BY <1>1, <1>2, <1>3 DEF UnusedSlots, InUse, IsLive, IsUnused, LiveTags
  <2> QED BY <1>1, <2>1 DEF FreeListLinks
<1>10. Fingers' BY <1>1, <1>2 DEF Fingers
<1> QED BY <1>1, <1>5, <1>6, <1>7, <1>8, <1>9, <1>10 DEF BufOK

\* Entering gc_compact, which may have nothing to do.
LEMMA EnterCompactOK ==
  ASSUME BufTypeOK, BufOK, pc # "compact", first_unused <= MaxBufSize,
         NEW next \in {"trace", "tag", "after", "finish"},
         next = "finish" => num_roots = 0,
         num_roots # 0 => first_unused # 0,
         buf' = buf, info' = info, num_roots' = num_roots,
         EnterCompact(next)
  PROVE  /\ BufOK' /\ BufTypeOK' /\ Fingers' /\ InUse' = InUse
         /\ \/ pc' = next /\ num_roots' + 1 = first_unused'
                /\ UNCHANGED <<free, scan, ret>>
            \/ pc' = "compact" /\ ret' = next /\ next # "finish"
                /\ UNCHANGED first_unused /\ free' \in Nat /\ scan' \in Nat
<1> USE SizesAssumption
<1>1. CASE num_roots + 1 = first_unused
  <2>1. pc' = next /\ UNCHANGED <<unused, first_unused, free, scan, ret>>
    BY <1>1 DEF EnterCompact, NothingToMove
  <2>2. Top' = Top /\ UNCHANGED bufVars BY <2>1 DEF Top, bufVars
  <2>3. BufOK' BY <2>2, BufFrame
  <2>4. InUse' = InUse BY <2>2 DEF InUse, IsLive, bufVars
  <2> QED BY <1>1, <2>1, <2>3, <2>4 DEF BufTypeOK, Fingers
<1>2. CASE num_roots + 1 # first_unused /\ num_roots = 0
  <2>1. /\ pc' = next /\ UNCHANGED <<free, scan, ret>>
        /\ unused' = 0 /\ first_unused' = 1
    BY <1>2 DEF EnterCompact, NothingToMove, CompactDone
  <2>2. Top \in Int BY DEF Top, BufTypeOK
  <2>3. InUse = {} BY <1>2, <2>2, InUseFinite, FS_EmptySet DEF BufOK, NumRootsExact
  <2>4. Top' = 0 BY <2>1 DEF Top
  <2>5. InUse' = {} BY <2>4 DEF InUse
  <2>6. UnusedSlots' = {} BY <2>1 DEF UnusedSlots
  <2>7. AddressesMatchSlots' BY <2>3, <2>5 DEF BufOK, AddressesMatchSlots
  <2>8. NumRootsExact' BY <1>2, <2>5, FS_EmptySet DEF NumRootsExact
  <2>9. FreeListLinks' BY <2>1, <2>6 DEF FreeListLinks
  <2>10. SlotsWellFormed' BY <2>4 DEF SlotsWellFormed
  <2> QED BY <1>2, <2>1, <2>3, <2>5, <2>7, <2>8, <2>9, <2>10 DEF BufOK, BufTypeOK, Fingers
<1>3. CASE num_roots + 1 # first_unused /\ num_roots # 0
  <2>1. /\ pc' = "compact" /\ ret' = next
        /\ free' = 1 /\ scan' = first_unused - 1
        /\ UNCHANGED <<unused, first_unused>>
    BY <1>3 DEF EnterCompact, NothingToMove
  <2>2. Top' = Top /\ UNCHANGED bufVars BY <2>1 DEF Top, bufVars
  <2>3. BufOK' BY <2>2, BufFrame
  <2>5. InUse' = InUse BY <2>2 DEF InUse, IsLive, bufVars
  <2>4. num_roots < scan'
    <3>1. Top = first_unused - 1 /\ Top \in Int BY DEF Top, BufTypeOK
    <3>2. IsFiniteSet(1 .. Top) /\ Cardinality(1 .. Top) = IF 1 > Top THEN 0 ELSE Top
      BY <3>1, IntervalFrom1
    <3>3. Cardinality(InUse) <= Cardinality(1 .. Top) BY <3>1, <3>2, InUseFinite, FS_Subset
    <3> QED BY <1>3, <2>1, <3>1, <3>2, <3>3 DEF BufOK, NumRootsExact, BufTypeOK
  <2> QED BY <1>3, <2>1, <2>3, <2>4, <2>5 DEF BufTypeOK, Fingers
<1> QED BY <1>1, <1>2, <1>3

\* gc_reset, when no value of the new heap has an address.
LEMMA ResetOK ==
  ASSUME BufTypeOK, ResetGlobals, pc' # "compact", buf' = buf,
         info' \in [Ref -> [addr : Nat, color : Colors]],
         \A r \in Ref : info'[r].addr = 0
  PROVE  BufOK' /\ BufTypeOK'
<1>1. unused' = 0 /\ first_unused' = 1 /\ num_roots' = 0 BY DEF ResetGlobals
<1>2. Top' = 0 BY <1>1 DEF Top
<1>3. InUse' = {} BY <1>2 DEF InUse
<1>4. UnusedSlots' = {} BY <1>1 DEF UnusedSlots
<1>5. BufTypeOK' BY <1>1 DEF BufTypeOK
<1>6. AddressesMatchSlots' BY <1>3 DEF AddressesMatchSlots
<1>7. NumRootsExact' BY <1>1, <1>3, FS_EmptySet DEF NumRootsExact
<1>8. FreeListLinks' BY <1>1, <1>4 DEF FreeListLinks
<1>9. SlotsWellFormed' BY <1>2 DEF SlotsWellFormed
<1> QED BY <1>5, <1>6, <1>7, <1>8, <1>9 DEF BufOK

-----------------------------------------------------------------------------
(* Facts about a state that satisfies the invariant.                       *)

LEMMA InvFacts ==
  ASSUME IInv
  PROVE  /\ BufTypeOK /\ BufOK
         /\ first_unused <= MaxBufSize
         /\ num_roots # 0 => first_unused # 0 /\ buf_size # 0
         /\ pc # "compact" => Top = first_unused - 1
BY SizesAssumption DEF IInv, TypeOK, BufTypeOK, BufOK, Allocation, Top

\* Right after a compaction there is no hole, so the list is empty.
LEMMA NoHoles ==
  ASSUME BufTypeOK, BufOK, pc # "compact", num_roots + 1 = first_unused
  PROVE  unused = 0 /\ InUse = 1 .. (first_unused - 1)
<1>1. Top = num_roots /\ num_roots \in Nat BY DEF Top, BufTypeOK
<1>2. InUse \in SUBSET (1 .. num_roots) /\ Cardinality(InUse) >= num_roots
  BY <1>1, InUseFinite DEF BufOK, NumRootsExact
<1>3. InUse = 1 .. num_roots BY <1>1, <1>2, FullInterval
<1>4. first_unused - 1 = num_roots BY <1>1 DEF BufTypeOK
<1>5. UnusedSlots = {} BY <1>3, <1>4 DEF UnusedSlots, InUse, IsLive, IsUnused, LiveTags
<1> QED BY <1>3, <1>4, <1>5 DEF BufOK, FreeListLinks

\* Steps that change colours, and the tags of entries in use, only.
LEMMA RetagOK ==
  ASSUME BufTypeOK, BufOK, pc # "compact", pc' # "compact", first_unused <= MaxBufSize,
         UNCHANGED <<unused, first_unused, num_roots>>,
         buf' \in [Slots -> Entry], info' \in [Ref -> [addr : Nat, color : Colors]],
         \A i \in Slots : \/ buf'[i] = buf[i]
                          \/ /\ IsLive(i) /\ buf'[i].tag \in LiveTags
                             /\ buf'[i].ref = buf[i].ref,
         \A r \in Ref : info'[r].addr = info[r].addr
  PROVE  /\ BufOK' /\ BufTypeOK' /\ InUse' = InUse
         /\ UnusedSlots' = UnusedSlots /\ \A i \in UnusedSlots : buf'[i] = buf[i]
<1>1. Top' = Top /\ Top = first_unused - 1 BY DEF Top
<1>2. 1 .. Top \subseteq Slots BY <1>1, SizesAssumption DEF Slots, BufTypeOK
<1>3. BufTypeOK' BY DEF BufTypeOK
<1>4. /\ \A i \in Slots : buf'[i].tag \in LiveTags <=> IsLive(i)
      /\ \A i \in Slots : ~IsLive(i) => buf'[i] = buf[i]
      /\ \A i \in Slots : buf'[i].ref = buf[i].ref
  BY DEF IsLive
<1>5. InUse' = InUse BY <1>1, <1>2, <1>4 DEF InUse, IsLive
<1>6. \A i \in 1 .. Top : IsLive(i) => buf[i].ref \in Ref
  BY RefAssumption DEF BufOK, SlotsWellFormed, IsLive, IsUnused, LiveTags
<1>7. AddressesMatchSlots'
  <2>1. \A i \in InUse : i \in Slots /\ buf'[i].ref = buf[i].ref /\ buf[i].ref \in Ref
    BY <1>2, <1>4, <1>6 DEF InUse
  <2> QED BY <1>5, <2>1 DEF BufOK, AddressesMatchSlots
<1>8. NumRootsExact' BY <1>5 DEF BufOK, NumRootsExact
<1>9. UnusedSlots' = UnusedSlots /\ \A i \in UnusedSlots : buf'[i] = buf[i]
  <2>1. \A i \in 1 .. Top : IsUnused(i) => ~IsLive(i) BY DEF IsLive, IsUnused, LiveTags
  <2>2. \A i \in 1 .. Top : buf'[i].tag = "unused" <=> IsUnused(i)
    BY <1>2, <1>4, <2>1 DEF IsUnused, IsLive, LiveTags
  <2> QED BY <1>1, <1>2, <1>4, <2>1, <2>2 DEF UnusedSlots, IsUnused
<1>10. FreeListLinks' BY <1>9 DEF BufOK, FreeListLinks
<1>11. SlotsWellFormed'
  <2> SUFFICES ASSUME NEW i \in 1 .. Top
               PROVE  \/ buf'[i].tag \in LiveTags /\ buf'[i].ref \in Ref
                      \/ buf'[i].tag = "unused" /\ buf'[i].ref = NoRef
    BY <1>1 DEF SlotsWellFormed, IsLive, IsUnused
  <2>1. i \in Slots BY <1>2
  <2>2. CASE IsLive(i) BY <2>1, <2>2, <1>4, <1>6
  <2>3. CASE ~IsLive(i) BY <2>1, <2>3, <1>4 DEF BufOK, SlotsWellFormed, IsUnused
  <2> QED BY <2>2, <2>3
<1> QED BY <1>3, <1>5, <1>7, <1>8, <1>9, <1>10, <1>11 DEF BufOK

\* What storing a value leaves alone.
LEMMA StoreKeeps ==
  ASSUME BufTypeOK, BufOK, pc # "compact", first_unused <= MaxBufSize,
         NEW r \in Ref, NEW tag \in LiveTags, NEW color \in Colors,
         \/ StoreInUnused(r, tag, color)
         \/ first_unused \in Slots /\ StoreInNext(r, tag, color)
  PROVE  /\ \A j \in InUse : buf'[j] = buf[j]
         /\ \A q \in Ref : q # r => info'[q] = info[q]
         /\ info'[r].addr # 0 /\ info'[r].color = color
         /\ num_roots' = num_roots + 1
         /\ \/ first_unused' = first_unused /\ unused # 0
            \/ first_unused' = first_unused + 1 /\ first_unused \in Slots
<1> DEFINE i == IF HasUnused THEN unused ELSE first_unused
<1>1. i \in Slots /\ Store(i, r, tag, color) /\ i \notin InUse
  BY SizesAssumption
  DEF StoreInUnused, StoreInNext, HasUnused, Slots, BufTypeOK, BufOK, FreeListLinks, UnusedSlots,
      InUse, Top, IsLive, IsUnused, LiveTags
<1> HIDE DEF i
<1>2. Compress(i) # 0 BY <1>1, CompressReach
<1>3. InUse \subseteq Slots BY SizesAssumption DEF InUse, Top, Slots, BufTypeOK
<1>4. \A j \in InUse : buf'[j] = buf[j] BY <1>1, <1>3 DEF Store, BufTypeOK
<1>5. /\ \A q \in Ref : q # r => info'[q] = info[q]
      /\ info'[r] = Info(Compress(i), color) /\ num_roots' = num_roots + 1
  BY <1>1 DEF Store, BufTypeOK
<1>6. \/ first_unused' = first_unused /\ unused # 0
      \/ first_unused' = first_unused + 1 /\ first_unused \in Slots
  BY DEF StoreInUnused, StoreInNext, HasUnused
<1> QED BY <1>2, <1>4, <1>5, <1>6 DEF Info

\* What unlinking a value leaves alone.
LEMMA UnlinkKeeps ==
  ASSUME BufTypeOK, BufOK, NEW i \in Slots, NEW r \in Ref, Unlink(i, r)
  PROVE  /\ \A j \in Slots : j # i => buf'[j] = buf[j]
         /\ \A q \in Ref : q # r => info'[q] = info[q]
         /\ info'[r] = NoInfo /\ info'[r].addr = 0 /\ info'[r].color = "black"
         /\ first_unused' = first_unused
BY DEF Unlink, BufTypeOK, NoInfo, Info

\* gc_grow_root_buffer never shrinks the buffer and stops at the maximum.
LEMMA GrowOK ==
  ASSUME TypeOK, buf_size <= MaxBufSize, GrowRootBuffer
  PROVE  /\ buf_size' \in Nat /\ buf_size <= buf_size' /\ buf_size' <= MaxBufSize
         /\ gc_active' \in BOOLEAN /\ gc_protected' \in BOOLEAN /\ gc_full' \in BOOLEAN
         /\ gc_active => gc_active'
<1>1. /\ buf_size \in Nat /\ gc_active \in BOOLEAN /\ gc_protected \in BOOLEAN
      /\ gc_full \in BOOLEAN
  BY DEF TypeOK
<1>2. GrownSize \in Nat /\ buf_size <= GrownSize /\ GrownSize <= MaxBufSize
  BY <1>1, SizesAssumption DEF GrownSize
<1>3. CASE gc_active' = TRUE /\ gc_protected' = TRUE /\ gc_full' = TRUE /\ UNCHANGED buf_size
  BY <1>1, <1>3
<1>4. CASE buf_size' = GrownSize /\ UNCHANGED flagVars
  BY <1>1, <1>2, <1>4 DEF flagVars
<1> QED BY <1>3, <1>4 DEF GrowRootBuffer

\* A slot for a value whatever the threshold says.
LEMMA StoreOrGrowOK ==
  ASSUME IInv, buf_size # 0, pc # "compact", pc' # "compact",
         NEW r \in Ref, info[r].addr = 0,
         NEW tag \in LiveTags, NEW color \in Colors, NEW dropped,
         dropped \in [Ref -> [addr : Nat, color : Colors]],
         \A q \in Ref : dropped[q].addr = info[q].addr,
         \A q \in Ref : q # r => dropped[q] = info[q],
         StoreOrGrow(r, tag, color, dropped)
  PROVE  /\ BufOK' /\ BufTypeOK'
         /\ buf_size' \in Nat /\ buf_size <= buf_size' /\ buf_size' <= MaxBufSize
         /\ gc_active' \in BOOLEAN /\ gc_protected' \in BOOLEAN /\ gc_full' \in BOOLEAN
         /\ gc_active => gc_active'
         /\ first_unused' \in first_unused .. buf_size'
         /\ \A j \in InUse : buf'[j] = buf[j]
         /\ \A q \in Ref : q # r => info'[q] = info[q]
         /\ \/ info'[r].addr # 0 /\ info'[r].color = color
            \/ info'[r] = dropped[r]
         /\ num_roots + 1 = first_unused => num_roots' + 1 = first_unused'
<1> USE SizesAssumption
<1>1. /\ BufTypeOK /\ BufOK /\ first_unused <= MaxBufSize /\ TypeOK
      /\ buf_size <= MaxBufSize /\ first_unused \in 1 .. buf_size
      /\ buf_size \in Nat /\ num_roots \in Nat
  BY InvFacts DEF IInv, Allocation, TypeOK
<1>2. num_roots + 1 = first_unused => unused = 0 BY <1>1, NoHoles
<1>3. CASE /\ \/ StoreInUnused(r, tag, color)
              \/ HasNextUnused /\ StoreInNext(r, tag, color)
           /\ UNCHANGED <<buf_size, flagVars>>
  <2>1. \/ StoreInUnused(r, tag, color)
        \/ first_unused \in Slots /\ first_unused < buf_size /\ StoreInNext(r, tag, color)
    BY <1>1, <1>3 DEF HasNextUnused, Slots
  <2>2. BufOK' /\ BufTypeOK' BY <1>1, <2>1, StoreOK
  <2>3. first_unused' \in first_unused .. buf_size'
    BY <1>1, <1>3, <2>1 DEF StoreInUnused, StoreInNext
  <2> QED BY <1>1, <1>2, <1>3, <2>1, <2>2, <2>3, StoreKeeps DEF TypeOK, flagVars
<1>4. CASE ~HasUnused /\ ~HasNextUnused /\ GrowRootBuffer
  <2>1. /\ buf_size' \in Nat /\ buf_size <= buf_size' /\ buf_size' <= MaxBufSize
        /\ gc_active' \in BOOLEAN /\ gc_protected' \in BOOLEAN /\ gc_full' \in BOOLEAN
        /\ gc_active => gc_active'
    BY <1>1, <1>4, GrowOK
  <2>2. first_unused = buf_size BY <1>4 DEF HasNextUnused
  <2>3. CASE first_unused # buf_size' /\ StoreInNext(r, tag, color)
    <3>1. first_unused \in Slots BY <1>1, <2>1, <2>2, <2>3 DEF Slots
    <3>2. BufOK' /\ BufTypeOK' BY <1>1, <2>3, <3>1, StoreOK
    <3>3. first_unused' \in first_unused .. buf_size'
      BY <1>1, <2>1, <2>2, <2>3 DEF StoreInNext
    <3> QED BY <1>1, <1>2, <2>1, <2>3, <3>1, <3>2, <3>3, StoreKeeps
  <2>4. CASE /\ first_unused = buf_size' /\ info' = dropped
             /\ UNCHANGED <<buf, unused, first_unused, num_roots>>
    <3>1. BufOK' /\ BufTypeOK' BY <1>1, <2>4, RetagOK DEF BufTypeOK
    <3> QED BY <1>1, <2>1, <2>4, <3>1
  <2> QED BY <1>4, <2>1, <2>3, <2>4, <1>3 DEF StoreOrGrow, HasUnused, HasNextUnused, StoreInUnused, StoreInNext
<1> QED BY <1>3, <1>4 DEF StoreOrGrow

-----------------------------------------------------------------------------
(* The initial state satisfies the invariant.                              *)

LEMMA IInvInit == Init => IInv
<1> SUFFICES ASSUME Init PROVE IInv OBVIOUS
<1> USE SizesAssumption
<1>1. TypeOK
  <2>1. calls \in Seq(Ref \cup {NoRef}) BY EmptySeq DEF Init
  <2>2. buf \in [Slots -> Entry]
    <3>1. Fresh \in Entry BY DEF Fresh, Entry
    <3> QED BY <3>1 DEF Init
  <2>3. info \in [Ref -> [addr : Nat, color : Colors]]
    <3>1. NoInfo \in [addr : Nat, color : Colors] BY DEF NoInfo, Info, Colors
    <3> QED BY <3>1 DEF Init
  <2> QED BY <2>1, <2>2, <2>3 DEF Init, TypeOK, PCs
<1>2. Top \in Int /\ Top < 1 /\ InUse = {} BY DEF Init, Top, InUse
<1>3. AddressesMatchSlots BY <1>2 DEF Init, AddressesMatchSlots, NoInfo, Info
<1>4. NumRootsExact BY <1>2, FS_EmptySet DEF Init, NumRootsExact
<1>5. UnusedSlots = {} BY DEF Init, UnusedSlots
<1>6. FreeListLinks BY <1>5 DEF Init, FreeListLinks
<1>7. SlotsWellFormed BY <1>2 DEF SlotsWellFormed
<1>8. Allocation BY DEF Init, Allocation
<1>9. Control BY DEF Init, Control, InRun
<1>10. Fingers BY DEF Init, Fingers
<1>11. WhitesReachable BY DEF Init, WhitesReachable, Whitening, NoInfo, Info
<1> QED BY <1>1, <1>3, <1>4, <1>6, <1>7, <1>8, <1>9, <1>10, <1>11 DEF IInv

-----------------------------------------------------------------------------
(* The steps of the program.                                               *)

LEMMA GcEnablePreserves ==
  ASSUME IInv, NEW enable \in BOOLEAN, GcEnable(enable)
  PROVE  IInv'
<1> USE SizesAssumption
<1>1. /\ BufTypeOK /\ BufOK /\ TypeOK /\ Allocation /\ Control /\ WhitesReachable
      /\ pc \in {"idle", "calling", "freeing"}
      /\ UNCHANGED <<loopVars, ctlVars, info>>
  BY InvFacts DEF IInv, GcEnable, ProgramRuns, bufVars
<1>2. CASE /\ buf_size = 0 /\ buf_size' = DefaultBufSize /\ gc_threshold' = ThresholdDefault
           /\ ResetGlobals /\ UNCHANGED <<buf, info>>
  <2>1. pc = "idle" BY <1>1, <1>2 DEF Allocation
  <2>2. num_roots = 0 BY <1>1, <1>2 DEF Allocation
  <2>3. InUse = {}
    <3>1. Top \in Int BY <1>1 DEF Top, BufTypeOK
    <3> QED BY <1>1, <2>2, <3>1, InUseFinite, FS_EmptySet DEF BufOK, NumRootsExact
  <2>4. \A r \in Ref : info'[r].addr = 0 BY <1>2, <2>3, <1>1 DEF BufOK, AddressesMatchSlots
  <2>5. BufOK' /\ BufTypeOK'
    BY <1>1, <1>2, <2>1, <2>4, ResetOK DEF ctlVars, BufTypeOK
  <2>6. TypeOK' BY <1>1, <1>2, <2>5
    DEF TypeOK, GcEnable, BufTypeOK, ResetGlobals, ctlVars, loopVars, phaseVars, compactVars
  <2>7. Allocation' BY <1>2 DEF Allocation, ResetGlobals
  <2>8. Control' /\ Fingers' BY <1>1, <2>1 DEF Control, ctlVars, InRun, Fingers
  <2>9. WhitesReachable' BY <1>1, <2>1, <1>2 DEF WhitesReachable, Whitening, ctlVars
  <2> QED BY <2>5, <2>6, <2>7, <2>8, <2>9 DEF IInv, BufOK
<1>3. CASE UNCHANGED <<bufVars, sizeVars, flagVars>>
  <2>1. UNCHANGED <<buf, info, unused, first_unused, num_roots, gc_threshold, buf_size,
                    gc_active, gc_protected, gc_full, ret, free, scan, idx, end,
                    should_rerun, did_rerun, pc, calls>>
    BY <1>1, <1>3 DEF bufVars, sizeVars, flagVars, loopVars, compactVars, phaseVars, ctlVars
  <2>2. Top' = Top BY <2>1 DEF Top
  <2>3. BufOK' BY <1>1, <1>3, <2>1, <2>2, BufFrame
  <2>4. TypeOK' BY <1>1, <2>1 DEF TypeOK, GcEnable
  <2>5. Allocation' BY <1>1, <2>1 DEF Allocation
  <2>6. Control' BY <1>1, <2>1 DEF Control, InRun, IsRoot, IsGarbage, Caller
  <2>7. Fingers' BY <1>1, <2>1 DEF Fingers
  <2>8. WhitesReachable' BY <1>1, <2>1 DEF WhitesReachable, Whitening
  <2> QED BY <2>3, <2>4, <2>5, <2>6, <2>7, <2>8 DEF IInv, BufOK
<1> QED BY <1>2, <1>3 DEF GcEnable

LEMMA ResetPreserves ==
  ASSUME IInv, Reset
  PROVE  IInv'
<1> USE SizesAssumption
<1>1. /\ BufTypeOK /\ BufOK /\ TypeOK /\ Allocation /\ Control /\ pc = "idle" /\ buf_size # 0
      /\ ResetGlobals /\ info' = [r \in Ref |-> NoInfo]
      /\ UNCHANGED <<buf, gc_threshold, buf_size, gc_enabled, ret, free, scan, idx, end,
                     should_rerun, did_rerun, pc, calls>>
  BY InvFacts DEF IInv, Reset, sizeVars, loopVars, compactVars, phaseVars, ctlVars
<1>2. /\ info' \in [Ref -> [addr : Nat, color : Colors]]
      /\ \A r \in Ref : info'[r].addr = 0 /\ info'[r].color = "black"
  BY <1>1 DEF NoInfo, Info, Colors
<1>3. BufOK' /\ BufTypeOK' BY <1>1, <1>2, ResetOK
<1>4. TypeOK' BY <1>1, <1>3 DEF TypeOK, BufTypeOK, ResetGlobals
<1>5. Allocation' BY <1>1 DEF Allocation, ResetGlobals, TypeOK
<1>6. Control' /\ Fingers' BY <1>1 DEF Control, InRun, Fingers
<1>7. WhitesReachable' BY <1>1, <1>2 DEF WhitesReachable, Whitening
<1> QED BY <1>3, <1>4, <1>5, <1>6, <1>7 DEF IInv, BufOK

LEMMA BailoutPreserves ==
  ASSUME IInv, Bailout
  PROVE  IInv'
<1> USE SizesAssumption
<1>1. /\ BufTypeOK /\ BufOK /\ TypeOK /\ Allocation /\ Control /\ WhitesReachable
      /\ pc \in {"idle", "calling", "freeing"} /\ pc' = "idle" /\ calls' = <<>>
      /\ idx' = 0 /\ end' = 0 /\ should_rerun' = FALSE /\ did_rerun' = FALSE
      /\ gc_protected' = TRUE
      /\ UNCHANGED <<bufVars, gc_threshold, buf_size, gc_enabled, gc_active, gc_full, ret, free, scan>>
  BY InvFacts DEF IInv, Bailout, LocalsDie, ProgramRuns, sizeVars, compactVars
<1>2. Top' = Top BY <1>1 DEF Top, bufVars
<1>3. BufOK' BY <1>1, <1>2, BufFrame
<1>4. TypeOK'
  <2>1. calls' \in Seq(Ref \cup {NoRef}) BY <1>1, EmptySeq
  <2> QED BY <1>1, <2>1 DEF TypeOK, bufVars, PCs
<1>5. Allocation' BY <1>1 DEF Allocation, bufVars
<1>6. Control' /\ Fingers' BY <1>1 DEF Control, InRun, Fingers
<1>7. WhitesReachable' BY <1>1 DEF WhitesReachable, Whitening, bufVars
<1> QED BY <1>3, <1>4, <1>5, <1>6, <1>7 DEF IInv, BufOK

LEMMA CallPreserves ==
  ASSUME IInv, NEW r \in Ref \cup {NoRef}, r \in Ref => buf_size # 0,
         pc \in {"idle", "calling", "freeing", "finish"},
         Call(r), UNCHANGED gc_enabled
  PROVE  IInv'
<1> USE SizesAssumption
<1>1. /\ BufTypeOK /\ BufOK /\ TypeOK /\ Allocation /\ Control /\ WhitesReachable
      /\ pc' = "start" /\ calls' = Append(calls, r)
      /\ idx' = 0 /\ end' = 0 /\ should_rerun' = FALSE /\ did_rerun' = FALSE
      /\ UNCHANGED <<bufVars, gc_threshold, buf_size, gc_enabled, gc_active, gc_protected,
                     gc_full, ret, free, scan>>
  BY InvFacts DEF IInv, Call, LocalsDie, sizeVars, flagVars, compactVars
<1>2. /\ calls \in Seq(Ref \cup {NoRef}) /\ calls' \in Seq(Ref \cup {NoRef}) /\ calls' # <<>>
      /\ \A i \in DOMAIN calls' : calls'[i] = r \/ (i \in DOMAIN calls /\ calls'[i] = calls[i])
  BY <1>1, PushSeq DEF TypeOK
<1>3. Top' = Top BY <1>1 DEF Top, bufVars
<1>4. BufOK' BY <1>1, <1>3, BufFrame
<1>5. TypeOK' BY <1>1, <1>2 DEF TypeOK, bufVars, PCs
<1>6. Allocation'
  <2>1. CASE buf_size = 0
    <3>1. r = NoRef BY <2>1
    <3>2. \A i \in DOMAIN calls' : calls'[i] = NoRef BY <1>1, <1>2, <2>1, <3>1 DEF Allocation
    <3> QED BY <1>1, <2>1, <3>2 DEF Allocation, bufVars
  <2>2. CASE buf_size # 0 BY <1>1, <2>2 DEF Allocation, bufVars
  <2> QED BY <2>1, <2>2
<1>7. Control' /\ Fingers' BY <1>1, <1>2 DEF Control, InRun, Fingers
<1>8. WhitesReachable' BY <1>1 DEF WhitesReachable, Whitening, bufVars
<1> QED BY <1>4, <1>5, <1>6, <1>7, <1>8 DEF IInv, BufOK

\* The part of a step that stores a value while the program runs which
\* does not depend on where the slot came from.
LEMMA StoredPreserves ==
  ASSUME IInv, BufOK', BufTypeOK', buf_size # 0,
         pc \in {"idle", "calling", "freeing", "finish"},
         NEW r \in Ref,
         \A j \in InUse : buf'[j] = buf[j],
         \A q \in Ref : q # r => info'[q] = info[q],
         info'[r].addr # 0 \/ info'[r] = info[r],
         first_unused' \in first_unused .. buf_size',
         buf_size' \in Nat, buf_size <= buf_size', buf_size' <= MaxBufSize,
         gc_active' \in BOOLEAN, gc_protected' \in BOOLEAN, gc_full' \in BOOLEAN,
         gc_active => gc_active',
         UNCHANGED <<gc_threshold, gc_enabled, loopVars, ctlVars>>
  PROVE  IInv'
<1>1. /\ TypeOK /\ Allocation /\ Control /\ WhitesReachable /\ BufOK
      /\ UNCHANGED <<ret, free, scan, idx, end, should_rerun, did_rerun, pc, calls>>
  BY InvFacts DEF IInv, loopVars, compactVars, phaseVars, ctlVars
<1>2. TypeOK' BY <1>1 DEF TypeOK, BufTypeOK
<1>3. Allocation' BY <1>1 DEF Allocation, TypeOK
<1>4. /\ pc = "calling" => IsRoot(idx)'
      /\ pc = "freeing" => IsGarbage(idx)'
  <2>1. pc \in {"calling", "freeing"} => idx \in 1 .. (first_unused - 1) /\ idx \in Nat
    BY <1>1 DEF Control, TypeOK
  <2>2. pc \in {"calling", "freeing"} => idx \in InUse
    BY <1>1, <2>1 DEF Control, InUse, Top, IsLive, IsRoot, IsGarbage, LiveTags
  <2> QED BY <1>1, <2>2 DEF Control, IsRoot, IsGarbage
<1>5. Control' BY <1>1, <1>4 DEF Control, InRun, TypeOK
<1>6. Fingers' BY <1>1 DEF Fingers
<1>7. WhitesReachable' BY <1>1 DEF WhitesReachable, Whitening
<1> QED BY <1>2, <1>3, <1>5, <1>6, <1>7 DEF IInv, BufOK

LEMMA PossibleRootPreserves ==
  ASSUME IInv, NEW r \in Ref, PossibleRoot(r)
  PROVE  IInv'
<1> USE SizesAssumption
<1>1. /\ TypeOK /\ BufTypeOK /\ BufOK /\ Allocation /\ first_unused <= MaxBufSize
      /\ pc \in {"idle", "calling", "freeing", "finish"}
      /\ info[r].addr = 0 /\ ~gc_protected /\ UNCHANGED gc_enabled
  BY InvFacts DEF IInv, PossibleRoot, ProgramRuns, NoInfo, Info
<1>2. buf_size # 0 /\ first_unused \in 1 .. buf_size /\ "purple" \in Colors /\ "root" \in LiveTags
  BY <1>1 DEF Allocation, Colors, LiveTags
<1>3. CASE /\ \/ StoreInUnused(r, "root", "purple")
              \/ HasNextUnusedUnderThreshold /\ StoreInNext(r, "root", "purple")
           /\ UNCHANGED <<sizeVars, flagVars, loopVars, ctlVars>>
  <2>1. UNCHANGED <<gc_threshold, buf_size, gc_active, gc_protected, gc_full, pc>>
    BY <1>3 DEF sizeVars, flagVars, ctlVars
  <2>2. \/ StoreInUnused(r, "root", "purple")
        \/ first_unused \in Slots /\ first_unused < buf_size /\ StoreInNext(r, "root", "purple")
    BY <1>1, <1>2, <1>3 DEF HasNextUnusedUnderThreshold, Slots, Allocation, TypeOK
  <2>3. pc # "compact" /\ pc' # "compact" BY <1>1, <2>1
  <2>4. BufOK' /\ BufTypeOK' BY <1>1, <1>2, <2>2, <2>3, StoreOK
  <2>5. first_unused' \in first_unused .. buf_size'
    BY <1>1, <1>2, <2>1, <2>2 DEF StoreInUnused, StoreInNext, TypeOK
  <2>6. /\ \A j \in InUse : buf'[j] = buf[j]
        /\ \A q \in Ref : q # r => info'[q] = info[q]
        /\ info'[r].addr # 0
    BY <1>1, <1>2, <2>2, <2>3, StoreKeeps
  <2>7. /\ buf_size' \in Nat /\ buf_size <= buf_size' /\ buf_size' <= MaxBufSize
        /\ gc_active' \in BOOLEAN /\ gc_protected' \in BOOLEAN /\ gc_full' \in BOOLEAN
    BY <1>1, <2>1 DEF TypeOK, Allocation
  <2> QED BY <1>1, <1>2, <1>3, <2>1, <2>4, <2>5, <2>6, <2>7, StoredPreserves
<1>4. CASE Call(r)
  BY <1>1, <1>2, <1>4, CallPreserves
<1>5. CASE StoreOrGrow(r, "root", "purple", info) /\ UNCHANGED <<gc_threshold, loopVars, ctlVars>>
  <2>1. pc # "compact" /\ pc' # "compact" BY <1>1, <1>5 DEF ctlVars
  <2>2. info \in [Ref -> [addr : Nat, color : Colors]] BY <1>1 DEF TypeOK
  <2>3. /\ BufOK' /\ BufTypeOK'
        /\ buf_size' \in Nat /\ buf_size <= buf_size' /\ buf_size' <= MaxBufSize
        /\ gc_active' \in BOOLEAN /\ gc_protected' \in BOOLEAN /\ gc_full' \in BOOLEAN
        /\ gc_active => gc_active'
        /\ first_unused' \in first_unused .. buf_size'
        /\ \A j \in InUse : buf'[j] = buf[j]
        /\ \A q \in Ref : q # r => info'[q] = info[q]
        /\ info'[r].addr # 0 \/ info'[r] = info[r]
    BY <1>1, <1>2, <1>5, <2>1, <2>2, StoreOrGrowOK
  <2> QED BY <1>1, <1>2, <1>5, <2>3, StoredPreserves
<1> QED BY <1>3, <1>4, <1>5 DEF PossibleRoot

\* The part that does not depend on which value leaves the buffer.
LEMMA UnlinkedPreserves ==
  ASSUME IInv, pc \in {"idle", "calling", "freeing", "nested"},
         NEW r \in Ref, NEW i \in InUse, buf[i].ref = r, Unlink(i, r),
         pc \in {"calling", "freeing"} => i # idx,
         UNCHANGED <<sizeVars, gc_enabled, flagVars, loopVars, ctlVars>>
  PROVE  IInv'
<1> USE SizesAssumption
<1>1. /\ TypeOK /\ Allocation /\ Control /\ WhitesReachable /\ BufOK /\ BufTypeOK
      /\ first_unused <= MaxBufSize
      /\ UNCHANGED <<gc_threshold, buf_size, gc_enabled, gc_active, gc_protected, gc_full,
                     ret, free, scan, idx, end, should_rerun, did_rerun, pc, calls>>
  BY InvFacts DEF IInv, sizeVars, flagVars, loopVars, compactVars, phaseVars, ctlVars
<1>2. pc # "compact" /\ pc' # "compact" BY <1>1
<1>3. i \in Slots BY <1>1, <1>2 DEF InUse, Top, Slots, BufTypeOK
<1>4. BufOK' /\ BufTypeOK' BY <1>1, <1>2, UnlinkOK
<1>5. /\ \A j \in Slots : j # i => buf'[j] = buf[j]
      /\ \A q \in Ref : q # r => info'[q] = info[q]
      /\ info'[r].addr = 0 /\ info'[r].color = "black"
      /\ first_unused' = first_unused
  BY <1>1, <1>3, UnlinkKeeps
<1>6. TypeOK' BY <1>1, <1>4 DEF TypeOK, BufTypeOK
<1>7. Allocation'
  <2>1. num_roots # 0
    <3>1. Top \in Int BY <1>1 DEF Top, TypeOK
    <3> QED BY <1>1, <3>1, InUseFinite, FS_EmptySet DEF BufOK, NumRootsExact
  <2> QED BY <1>1, <1>5, <2>1 DEF Allocation
<1>8. Control'
  <2>1. pc \in {"calling", "freeing"} => buf'[idx] = buf[idx]
    BY <1>1, <1>5 DEF Control, Slots, TypeOK
  <2> QED BY <1>1, <1>5, <2>1 DEF Control, InRun, IsRoot, IsGarbage
<1>9. Fingers' BY <1>2 DEF Fingers
<1>10. WhitesReachable' BY <1>1, <1>5 DEF WhitesReachable, Whitening
<1> QED BY <1>4, <1>6, <1>7, <1>8, <1>9, <1>10 DEF IInv, BufOK

LEMMA RemoveFromBufferPreserves ==
  ASSUME IInv, NEW r \in Ref, RemoveFromBuffer(r)
  PROVE  IInv'
<1> USE SizesAssumption
<1>1. /\ TypeOK /\ BufTypeOK /\ BufOK /\ first_unused <= MaxBufSize /\ Control /\ WhitesReachable
      /\ pc \in {"idle", "calling", "freeing"} /\ info[r] # NoInfo
      /\ ~Called(r) /\ ~Destroyed(r) /\ Unlink(SlotOf(r), r)
      /\ UNCHANGED <<sizeVars, gc_enabled, flagVars, loopVars, ctlVars>>
  BY InvFacts DEF IInv, RemoveFromBuffer, ProgramRuns
<1>2. info[r].addr # 0
  <2>1. info[r].addr = 0 => info[r].color = "black" BY <1>1 DEF WhitesReachable, Whitening
  <2>2. info[r].addr = 0 /\ info[r].color = "black" => info[r] = NoInfo
    BY <1>1 DEF BufTypeOK, NoInfo, Info
  <2> QED BY <1>1, <2>1, <2>2
<1> DEFINE i == SlotOf(r)
<1>3. i \in InUse /\ buf[i].ref = r BY <1>1, <1>2, SlotOfOK
<1> HIDE DEF i
<1>4. pc = "calling" => i # idx BY <1>1, <1>3 DEF Called
<1>5. pc = "freeing" => i # idx
  <2> SUFFICES ASSUME pc = "freeing", i = idx PROVE FALSE OBVIOUS
  <2>1. idx \in Slots /\ idx \in 1 .. idx /\ buf[idx].tag = "garbage" /\ buf[idx].ref = r
    BY <1>1, <1>3 DEF Control, Slots, IsGarbage, TypeOK
  <2> QED BY <1>1, <2>1 DEF Destroyed, IsGarbage
<1>6. Unlink(i, r) BY <1>1 DEF i
<1> QED BY <1>1, <1>3, <1>4, <1>5, <1>6, UnlinkedPreserves

LEMMA CollectCyclesPreserves ==
  ASSUME IInv, CollectCycles
  PROVE  IInv'
<1>1. /\ NoRef \in Ref \cup {NoRef} /\ NoRef \notin Ref
      /\ pc \in {"idle", "calling", "freeing", "finish"}
      /\ Call(NoRef) /\ UNCHANGED gc_enabled
  BY RefAssumption DEF CollectCycles, ProgramRuns
<1> QED BY <1>1, CallPreserves

-----------------------------------------------------------------------------
(* The steps of the collector that leave the buffer as it is.              *)

\* The parts of the invariant a step that leaves the buffer alone can touch.
LEMMA ControlStep ==
  ASSUME IInv, pc # "compact", pc' # "compact", UNCHANGED bufVars,
         TypeOK', Allocation', Control', WhitesReachable'
  PROVE  IInv'
<1>1. BufOK BY InvFacts
<1>2. Top' = Top BY DEF Top, bufVars
<1>3. BufOK' BY <1>1, <1>2, BufFrame
<1>4. Fingers' BY DEF Fingers
<1> QED BY <1>3, <1>4 DEF IInv, BufOK

\* The loops over the slots after gc_collect_roots.
LoopPCs == {"nested", "dtor", "calling", "destroy", "freeing", "free", "after", "finish"}
LEMMA LoopStep ==
  ASSUME IInv, pc \in LoopPCs \ {"finish"}, pc' \in LoopPCs \cup {"start"},
         UNCHANGED <<bufVars, sizeVars, gc_enabled, flagVars, calls, compactVars>>,
         idx' \in Nat, end' \in Nat, should_rerun' \in BOOLEAN, did_rerun' \in BOOLEAN,
         Control'
  PROVE  IInv'
<1>1. /\ TypeOK /\ Allocation /\ WhitesReachable
      /\ UNCHANGED <<buf, info, unused, first_unused, num_roots, gc_threshold, buf_size,
                     gc_enabled, gc_active, gc_protected, gc_full, ret, free, scan, calls>>
  BY DEF IInv, bufVars, sizeVars, flagVars, compactVars
<1>2. TypeOK' BY <1>1 DEF TypeOK, LoopPCs, PCs
<1>3. Allocation' BY <1>1 DEF Allocation, LoopPCs
<1>4. WhitesReachable' BY <1>1 DEF WhitesReachable, Whitening, LoopPCs
<1> QED BY <1>2, <1>3, <1>4, ControlStep DEF LoopPCs

LEMMA NestedDonePreserves ==
  ASSUME IInv, NestedDone
  PROVE  IInv'
<1>1. /\ TypeOK /\ Control /\ pc = "nested" /\ pc' = "dtor"
      /\ UNCHANGED <<bufVars, first_unused, gc_active, calls, idx, end, ret>>
  BY DEF IInv, NestedDone, bufVars, flagVars, loopVars, phaseVars, compactVars
<1>2. Control' BY <1>1 DEF Control, InRun, TypeOK
<1> QED BY <1>1, <1>2, LoopStep DEF IInv, TypeOK, NestedDone, LoopPCs, loopVars, phaseVars

LEMMA DtorReturnsPreserves ==
  ASSUME IInv, DtorReturns
  PROVE  IInv'
<1>1. /\ TypeOK /\ Control /\ pc = "calling" /\ pc' = "dtor" /\ idx' = idx + 1
      /\ UNCHANGED <<first_unused, gc_active, calls, end, ret>>
  BY DEF IInv, DtorReturns, bufVars, flagVars, compactVars
<1>2. Control' BY <1>1 DEF Control, InRun, TypeOK
<1> QED BY <1>1, <1>2, LoopStep DEF IInv, TypeOK, DtorReturns, LoopPCs

LEMMA DestroySlotPreserves ==
  ASSUME IInv, DestroySlot
  PROVE  IInv'
<1>1. /\ TypeOK /\ Control /\ pc = "destroy" /\ idx # end
      /\ UNCHANGED <<buf, first_unused, gc_active, calls, end, ret>>
      /\ \/ IsGarbage(idx) /\ pc' = "freeing" /\ idx' = idx
         \/ pc' = "destroy" /\ idx' = idx + 1
  BY DEF IInv, DestroySlot, bufVars, flagVars, compactVars
<1>2. idx \in 1 .. (end - 1) BY <1>1 DEF Control, TypeOK
<1>3. Control' BY <1>1, <1>2 DEF Control, InRun, TypeOK, IsGarbage
<1> QED BY <1>1, <1>3, LoopStep DEF IInv, TypeOK, DestroySlot, LoopPCs

LEMMA DestroyReturnsPreserves ==
  ASSUME IInv, DestroyReturns
  PROVE  IInv'
<1>1. /\ TypeOK /\ Control /\ pc = "freeing" /\ pc' = "destroy" /\ idx' = idx + 1
      /\ UNCHANGED <<first_unused, gc_active, calls, end, ret>>
  BY DEF IInv, DestroyReturns, bufVars, flagVars, compactVars
<1>2. Control' BY <1>1 DEF Control, InRun, TypeOK
<1> QED BY <1>1, <1>2, LoopStep DEF IInv, TypeOK, DestroyReturns, LoopPCs

LEMMA DestroyDonePreserves ==
  ASSUME IInv, DestroyDone
  PROVE  IInv'
<1>1. /\ TypeOK /\ Control /\ pc = "destroy" /\ pc' = "free" /\ idx' = 1 /\ idx = end
      /\ UNCHANGED <<first_unused, gc_active, calls, end, ret>>
  BY DEF IInv, DestroyDone, bufVars, flagVars, compactVars
<1>2. Control' BY <1>1 DEF Control, InRun, TypeOK
<1> QED BY <1>1, <1>2, LoopStep DEF IInv, TypeOK, DestroyDone, LoopPCs

LEMMA AfterPreserves ==
  ASSUME IInv, After
  PROVE  IInv'
<1>1. /\ TypeOK /\ Control /\ pc = "after" /\ pc' \in {"start", "finish"}
      /\ did_rerun' \in BOOLEAN
      /\ UNCHANGED <<first_unused, gc_active, calls, ret, should_rerun, idx, end>>
  BY DEF IInv, After, TypeOK, bufVars, flagVars, compactVars
<1>2. Control' BY <1>1 DEF Control, InRun
<1> QED BY <1>1, <1>2, LoopStep DEF IInv, TypeOK, After, LoopPCs

LEMMA TagBeginPreserves ==
  ASSUME IInv, TagBegin
  PROVE  IInv'
<1>1. /\ TypeOK /\ BufTypeOK /\ Allocation /\ Control /\ WhitesReachable /\ BufOK
      /\ pc = "tag" /\ pc' = "tagging" /\ idx' = 1 /\ end' = first_unused
      /\ UNCHANGED <<buf, info, unused, first_unused, num_roots, gc_threshold, buf_size,
                     gc_enabled, gc_active, gc_protected, gc_full, ret, free, scan, calls,
                     should_rerun, did_rerun>>
  BY InvFacts DEF IInv, TagBegin, bufVars, sizeVars, flagVars, compactVars
<1>2. TypeOK' BY <1>1 DEF TypeOK, PCs
<1>3. Allocation' BY <1>1 DEF Allocation
<1>4. Control' BY <1>1 DEF Control, InRun, Allocation, TypeOK
<1>5. WhitesReachable'
  <2>1. /\ \A r \in Ref : info[r].color \in {"black", "white"}
        /\ (\E r \in Ref : info[r].color = "white") =>
              \E r \in Ref : info[r].color = "white" /\ info[r].addr # 0
    BY <1>1 DEF WhitesReachable, Whitening
  <2>2. (\E r \in Ref : info[r].color = "white") =>
              \E i \in 1 .. (first_unused - 1) : info[buf[i].ref].color = "white"
    BY <1>1, <2>1 DEF BufOK, AddressesMatchSlots, InUse, Top
  <2> QED BY <1>1, <2>1, <2>2 DEF WhitesReachable, Whitening
<1> QED BY <1>1, <1>2, <1>3, <1>4, <1>5, ControlStep DEF bufVars

-----------------------------------------------------------------------------
(* Back to the caller of the collection.                                   *)

LEMMA ResumeOK ==
  ASSUME IInv, pc # "idle", Resume
  PROVE  /\ calls' \in Seq(Ref \cup {NoRef}) /\ pc' \in {"idle", "finish"}
         /\ pc' = "idle" <=> calls' = <<>>
         /\ \A i \in DOMAIN calls' : i \in DOMAIN calls /\ calls'[i] = calls[i]
<1>1. calls \in Seq(Ref \cup {NoRef}) /\ calls # <<>> BY DEF IInv, TypeOK, Control
<1>2. calls' = SubSeq(calls, 1, Len(calls) - 1) BY DEF Resume, Pop
<1>3. /\ calls' \in Seq(Ref \cup {NoRef})
      /\ calls' = <<>> <=> Len(calls) = 1
      /\ \A i \in DOMAIN calls' : i \in DOMAIN calls /\ calls'[i] = calls[i]
  BY <1>1, <1>2, PopSeq
<1>4. /\ pc' \in {"idle", "finish"}
      /\ pc' = "idle" <=> Len(calls) = 1
  BY DEF Resume
<1> QED BY <1>3, <1>4

LEMMA ReturnOK ==
  ASSUME IInv, pc # "idle", ReturnToCaller
  PROVE  /\ calls' \in Seq(Ref \cup {NoRef}) /\ pc' \in {"idle", "finish", "adjust"}
         /\ pc' = "idle" <=> calls' = <<>>
         /\ \A i \in DOMAIN calls' : i \in DOMAIN calls /\ calls'[i] = calls[i]
         /\ pc' = "adjust" => calls' = calls /\ Caller \in Ref /\ buf_size # 0
<1>1. CASE Resume BY <1>1, ResumeOK
<1>2. CASE Caller # NoRef /\ pc' = "adjust" /\ UNCHANGED calls
  <2>1. calls \in Seq(Ref \cup {NoRef}) /\ calls # <<>> BY DEF IInv, TypeOK, Control
  <2>2. Len(calls) \in DOMAIN calls /\ Caller \in Ref \cup {NoRef} BY <2>1, PopSeq DEF Caller
  <2>3. buf_size # 0 BY <1>2, <2>2 DEF IInv, Allocation, Caller
  <2> QED BY <1>2, <2>1, <2>2, <2>3
<1> QED BY <1>1, <1>2 DEF ReturnToCaller

\* Steps outside the loops that leave the buffer alone.
LEMMA ReturnStep ==
  ASSUME IInv, pc \in {"dtor", "finish", "place"},
         calls' \in Seq(Ref \cup {NoRef}), pc' \in {"idle", "finish", "adjust"},
         pc' = "idle" <=> calls' = <<>>,
         \A i \in DOMAIN calls' : i \in DOMAIN calls /\ calls'[i] = calls[i],
         pc' = "adjust" => calls' = calls /\ Caller \in Ref /\ buf_size # 0,
         UNCHANGED <<bufVars, sizeVars, gc_enabled, flagVars, compactVars>>,
         idx' \in Nat, end' \in Nat, should_rerun' \in BOOLEAN, did_rerun' \in BOOLEAN
  PROVE  IInv'
<1>1. /\ TypeOK /\ Allocation /\ Control /\ WhitesReachable
      /\ UNCHANGED <<buf, info, unused, first_unused, num_roots, gc_threshold, buf_size,
                     gc_enabled, gc_active, gc_protected, gc_full, ret, free, scan>>
  BY DEF IInv, bufVars, sizeVars, flagVars, compactVars
<1>2. TypeOK' BY <1>1 DEF TypeOK, PCs
<1>3. Allocation' BY <1>1 DEF Allocation
<1>4. Control' BY <1>1 DEF Control, InRun, Caller
<1>5. WhitesReachable' BY <1>1 DEF WhitesReachable, Whitening
<1> QED BY <1>2, <1>3, <1>4, <1>5, ControlStep

LEMMA DtorDonePreserves ==
  ASSUME IInv, DtorDone
  PROVE  IInv'
<1>1. CASE ReturnToCaller /\ LocalsDie
  BY <1>1, ReturnOK, ReturnStep DEF DtorDone, LocalsDie
<1>2. CASE pc' = "destroy" /\ idx' = 1 /\ UNCHANGED <<calls, end, should_rerun, did_rerun>>
  <2>1. /\ TypeOK /\ Control /\ pc = "dtor" /\ pc' = "destroy" /\ idx' = 1 /\ idx = end
        /\ UNCHANGED <<first_unused, gc_active, calls, end, ret>>
    BY <1>2 DEF IInv, DtorDone, bufVars, flagVars, compactVars
  <2>2. Control' BY <2>1 DEF Control, InRun, TypeOK
  <2> QED BY <1>2, <2>1, <2>2, LoopStep DEF IInv, TypeOK, DtorDone, LoopPCs
<1> QED BY <1>1, <1>2 DEF DtorDone

LEMMA FinishPreserves ==
  ASSUME IInv, Finish
  PROVE  IInv'
BY ReturnOK, ReturnStep DEF Finish, LocalsDie

LEMMA DropHeldPreserves ==
  ASSUME IInv, DropHeld
  PROVE  IInv'
<1>1. /\ calls' \in Seq(Ref \cup {NoRef}) /\ pc' \in {"idle", "finish"}
      /\ pc' = "idle" <=> calls' = <<>>
      /\ \A i \in DOMAIN calls' : i \in DOMAIN calls /\ calls'[i] = calls[i]
  BY ResumeOK DEF DropHeld
<1>2. /\ pc = "place"
      /\ UNCHANGED <<bufVars, sizeVars, gc_enabled, flagVars, compactVars,
                     idx, end, should_rerun, did_rerun>>
  BY DEF DropHeld, loopVars, phaseVars
<1> QED BY <1>1, <1>2, ReturnStep DEF IInv, TypeOK

LEMMA AdjustThresholdPreserves ==
  ASSUME IInv, NEW few \in BOOLEAN, AdjustThreshold(few)
  PROVE  IInv'
<1> USE SizesAssumption
<1>1. /\ TypeOK /\ Allocation /\ Control /\ WhitesReachable
      /\ pc = "adjust" /\ pc' = "place"
      /\ UNCHANGED <<buf, info, unused, first_unused, num_roots, gc_enabled, calls,
                     ret, free, scan, idx, end, should_rerun, did_rerun>>
  BY DEF IInv, AdjustThreshold, bufVars, loopVars, phaseVars, compactVars
<1>2. buf_size # 0 /\ buf_size \in Nat /\ gc_threshold \in Nat /\ buf_size <= MaxBufSize
  BY <1>1 DEF Allocation, TypeOK
<1>3. /\ buf_size' \in Nat /\ buf_size <= buf_size' /\ buf_size' <= MaxBufSize
      /\ gc_active' \in BOOLEAN /\ gc_protected' \in BOOLEAN /\ gc_full' \in BOOLEAN
      /\ gc_threshold' \in Nat /\ gc_threshold' <= buf_size'
  <2> DEFINE more == IF gc_threshold + ThresholdStep > ThresholdMax THEN ThresholdMax
                     ELSE gc_threshold + ThresholdStep
             less == IF gc_threshold - ThresholdStep < ThresholdDefault THEN ThresholdDefault
                     ELSE gc_threshold - ThresholdStep
  <2>1. more \in Nat BY <1>2
  <2>2. gc_threshold > ThresholdDefault => less \in Nat /\ less <= gc_threshold BY <1>2
  <2>3. /\ gc_active \in BOOLEAN /\ gc_protected \in BOOLEAN /\ gc_full \in BOOLEAN
        /\ gc_threshold <= buf_size
    BY <1>1 DEF TypeOK, Allocation
  <2>4. \/ /\ IF more > buf_size THEN GrowRootBuffer ELSE UNCHANGED <<buf_size, flagVars>>
           /\ gc_threshold' = IF more <= buf_size' THEN more ELSE gc_threshold
        \/ /\ gc_threshold > ThresholdDefault /\ gc_threshold' = less
           /\ UNCHANGED <<buf_size, flagVars>>
        \/ UNCHANGED <<sizeVars, flagVars>>
    BY DEF AdjustThreshold
  <2> HIDE DEF more, less
  <2>5. CASE /\ IF more > buf_size THEN GrowRootBuffer ELSE UNCHANGED <<buf_size, flagVars>>
             /\ gc_threshold' = IF more <= buf_size' THEN more ELSE gc_threshold
    <3>1. CASE GrowRootBuffer BY <1>1, <1>2, <2>1, <2>3, <2>5, <3>1, GrowOK
    <3>2. CASE UNCHANGED <<buf_size, flagVars>> BY <1>2, <2>1, <2>3, <2>5, <3>2 DEF flagVars
    <3> QED BY <2>5, <3>1, <3>2
  <2>6. CASE /\ gc_threshold > ThresholdDefault /\ gc_threshold' = less
             /\ UNCHANGED <<buf_size, flagVars>>
    BY <1>2, <2>2, <2>3, <2>6 DEF flagVars
  <2>7. CASE UNCHANGED <<sizeVars, flagVars>>
    BY <1>2, <2>3, <2>7 DEF flagVars, sizeVars
  <2> QED BY <2>4, <2>5, <2>6, <2>7
<1>4. TypeOK' BY <1>1, <1>3 DEF TypeOK, PCs
<1>5. Allocation' BY <1>1, <1>2, <1>3 DEF Allocation, TypeOK
<1>6. Control' BY <1>1 DEF Control, InRun, Caller
<1>7. WhitesReachable' BY <1>1 DEF WhitesReachable, Whitening
<1> QED BY <1>1, <1>4, <1>5, <1>6, <1>7, ControlStep DEF bufVars

LEMMA PlaceHeldPreserves ==
  ASSUME IInv, PlaceHeld
  PROVE  IInv'
<1> USE SizesAssumption
<1> DEFINE r == Caller
<1>1. /\ TypeOK /\ Allocation /\ Control /\ WhitesReachable /\ pc = "place"
      /\ r \in Ref /\ info[r].addr = 0 /\ StoreOrGrow(r, "root", "purple", info)
      /\ UNCHANGED <<gc_threshold, gc_enabled, ret, free, scan, idx, end,
                     should_rerun, did_rerun>>
  BY DEF IInv, PlaceHeld, Control, NoInfo, Info, loopVars, phaseVars, compactVars
<1> HIDE DEF r
<1>2. buf_size # 0 /\ info \in [Ref -> [addr : Nat, color : Colors]]
      /\ "purple" \in Colors /\ "root" \in LiveTags
  BY <1>1 DEF Allocation, TypeOK, Colors, LiveTags
<1>3. /\ calls' \in Seq(Ref \cup {NoRef}) /\ pc' \in {"idle", "finish"}
      /\ pc' = "idle" <=> calls' = <<>>
  BY <1>1, ResumeOK DEF PlaceHeld
<1>4. /\ BufOK' /\ BufTypeOK'
      /\ buf_size' \in Nat /\ buf_size <= buf_size' /\ buf_size' <= MaxBufSize
      /\ gc_active' \in BOOLEAN /\ gc_protected' \in BOOLEAN /\ gc_full' \in BOOLEAN
      /\ first_unused' \in first_unused .. buf_size'
      /\ \A q \in Ref : q # r => info'[q] = info[q]
      /\ info'[r].addr # 0 \/ info'[r] = info[r]
  BY <1>1, <1>2, <1>3, StoreOrGrowOK
<1>5. TypeOK' BY <1>1, <1>3, <1>4 DEF TypeOK, BufTypeOK, PCs
<1>6. Allocation' BY <1>1, <1>2, <1>4 DEF Allocation, TypeOK
<1>7. Control' /\ Fingers' BY <1>3 DEF Control, InRun, Fingers
<1>8. WhitesReachable' BY <1>1, <1>3, <1>4 DEF WhitesReachable, Whitening
<1> QED BY <1>4, <1>5, <1>6, <1>7, <1>8 DEF IInv, BufOK

-----------------------------------------------------------------------------
(* Marking, tagging and freeing.                                           *)

LEMMA TracePreserves ==
  ASSUME IInv, Trace
  PROVE  IInv'
<1>1. /\ TypeOK /\ BufTypeOK /\ BufOK /\ Allocation /\ Control /\ first_unused <= MaxBufSize
      /\ pc = "trace" /\ pc' = "unroot" /\ idx' = 1 /\ end' = first_unused
      /\ UNCHANGED <<buf, unused, first_unused, num_roots, gc_threshold, buf_size,
                     gc_enabled, gc_active, gc_protected, gc_full, ret, free, scan, calls,
                     should_rerun, did_rerun>>
  BY InvFacts DEF IInv, Trace, sizeVars, flagVars, compactVars
<1>2. PICK W \in SUBSET (Ref \ Held) :
         /\ (\E r \in W : info[r].addr = 0) => (\E r \in W : info[r].addr # 0)
         /\ info' = [r \in Ref |-> Info(info[r].addr, IF r \in W THEN "white" ELSE "black")]
  BY DEF Trace
<1>3. \A r \in Ref : /\ info'[r].addr = info[r].addr
                     /\ info'[r].color = IF r \in W THEN "white" ELSE "black"
  BY <1>2 DEF Info
<1>4. info' \in [Ref -> [addr : Nat, color : Colors]]
  BY <1>1, <1>2 DEF Info, Colors, BufTypeOK
<1>5. BufOK' /\ BufTypeOK' BY <1>1, <1>3, <1>4, RetagOK DEF BufTypeOK
<1>6. TypeOK' BY <1>1, <1>4 DEF TypeOK, PCs
<1>7. Allocation' BY <1>1 DEF Allocation
<1>8. Control' /\ Fingers' BY <1>1 DEF Control, InRun, Allocation, TypeOK, Fingers
<1>9. WhitesReachable'
  <2>1. \A r \in Ref : info'[r].color \in {"black", "white"} BY <1>3
  <2>2. (\E r \in Ref : info'[r].color = "white") =>
          \E r \in Ref : info'[r].color = "white" /\ info'[r].addr # 0
    BY <1>2, <1>3
  <2> QED BY <1>1, <2>1, <2>2 DEF WhitesReachable, Whitening
<1> QED BY <1>5, <1>6, <1>7, <1>8, <1>9 DEF IInv, BufOK

LEMMA TagSlotPreserves ==
  ASSUME IInv, TagSlot
  PROVE  IInv'
<1> DEFINE r == buf[idx].ref
<1>1. /\ TypeOK /\ BufTypeOK /\ BufOK /\ Allocation /\ Control /\ WhitesReachable
      /\ first_unused <= MaxBufSize /\ pc = "tagging" /\ idx # end /\ idx' = idx + 1
      /\ buf' = [buf EXCEPT ![idx].tag = "garbage"]
      /\ IF info[r].color = "white"
         THEN info' = [info EXCEPT ![r].color = "black"] /\ pc' = "collect"
         ELSE info' = info /\ pc' = pc
      /\ UNCHANGED <<unused, first_unused, num_roots, gc_threshold, buf_size,
                     gc_enabled, gc_active, gc_protected, gc_full, ret, free, scan, calls,
                     end, should_rerun, did_rerun>>
  BY InvFacts DEF IInv, TagSlot, sizeVars, flagVars, compactVars
<1>2. idx \in 1 .. (end - 1) /\ idx \in 1 .. (first_unused - 1) /\ num_roots + 1 = first_unused
  BY <1>1 DEF Control, TypeOK
<1>3. InUse = 1 .. (first_unused - 1) BY <1>1, <1>2, NoHoles
<1>4. idx \in Slots /\ IsLive(idx) /\ r \in Ref
  <2>1. idx \in InUse BY <1>2, <1>3
  <2>2. idx \in Slots
    <3>1. first_unused <= MaxBufSize /\ first_unused \in Nat /\ MaxBufSize \in Nat
      BY <1>1, SizesAssumption DEF TypeOK
    <3> QED BY <1>2, <3>1 DEF Slots
  <2>3. Top = first_unused - 1 BY <1>1 DEF Top
  <2> QED BY <1>1, <1>2, <2>1, <2>2, <2>3
      DEF InUse, BufOK, SlotsWellFormed, IsLive, IsUnused, LiveTags
<1> HIDE DEF r
<1>5. /\ buf' \in [Slots -> Entry] /\ info' \in [Ref -> [addr : Nat, color : Colors]]
      /\ \A i \in Slots : i # idx => buf'[i] = buf[i]
      /\ buf'[idx].tag = "garbage" /\ buf'[idx].ref = buf[idx].ref
      /\ \A q \in Ref : info'[q].addr = info[q].addr
      /\ \A q \in Ref : info'[q].color = info[q].color \/ info'[q].color = "black"
  <2>1. /\ buf' \in [Slots -> Entry] /\ \A i \in Slots : i # idx => buf'[i] = buf[i]
        /\ buf'[idx].tag = "garbage" /\ buf'[idx].ref = buf[idx].ref
    <3>1. buf \in [Slots -> Entry] /\ buf' = [buf EXCEPT ![idx].tag = "garbage"]
      BY <1>1 DEF BufTypeOK
    <3> QED BY <1>4, <3>1 DEF Entry, LiveTags
  <2>2. info \in [Ref -> [addr : Nat, color : Colors]] BY <1>1 DEF BufTypeOK
  <2>3. CASE info' = [info EXCEPT ![r].color = "black"]
    BY <1>4, <2>1, <2>2, <2>3 DEF Colors
  <2>4. CASE info' = info BY <2>1, <2>2, <2>4
  <2> QED BY <1>1, <2>3, <2>4
<1>6. pc # "compact" /\ pc' # "compact" BY <1>1
<1>7. BufOK' /\ BufTypeOK'
  <2>1. \A i \in Slots : \/ buf'[i] = buf[i]
                         \/ /\ IsLive(i) /\ buf'[i].tag \in LiveTags
                            /\ buf'[i].ref = buf[i].ref
    BY <1>4, <1>5 DEF LiveTags
  <2> QED BY <1>1, <1>5, <1>6, <2>1, RetagOK
<1>8. TypeOK' BY <1>1, <1>5 DEF TypeOK, PCs
<1>9. Allocation' BY <1>1 DEF Allocation
<1>10. Control' /\ Fingers' BY SMTT(30), <1>1, <1>2 DEF Control, InRun, Fingers, TypeOK
<1>11. WhitesReachable'
  <2>1. \A q \in Ref : info[q].color \in {"black", "white"}
    BY <1>1 DEF WhitesReachable, Whitening
  <2>2. CASE info[r].color = "white"
    BY <1>1, <1>5, <2>1, <2>2 DEF WhitesReachable, Whitening
  <2>3. CASE info[r].color # "white"
    <3>1. info' = info /\ pc' = "tagging" BY <1>1, <2>3
    <3>2. (\E q \in Ref : info[q].color = "white") =>
             \E i \in idx .. (end - 1) : info[buf[i].ref].color = "white"
      BY <1>1 DEF WhitesReachable
    <3>3. \A i \in idx .. (end - 1) : i # idx => i \in Slots /\ i \in (idx + 1) .. (end - 1)
      <4>1. /\ end <= first_unused /\ first_unused <= MaxBufSize
            /\ first_unused \in Nat /\ MaxBufSize \in Nat /\ end \in Nat /\ idx \in Nat
        BY <1>1, SizesAssumption DEF TypeOK, Control
      <4> QED BY <1>2, <4>1 DEF Slots
    <3>4. (\E q \in Ref : info[q].color = "white") =>
             \E i \in (idx + 1) .. (end - 1) : info'[buf'[i].ref].color = "white"
      BY <1>5, <2>3, <3>1, <3>2, <3>3 DEF r
    <3> QED BY <1>1, <2>1, <3>1, <3>4 DEF WhitesReachable, Whitening
  <2> QED BY <2>2, <2>3
<1> QED BY <1>7, <1>8, <1>9, <1>10, <1>11 DEF IInv, BufOK

LEMMA CollectWhiteDonePreserves ==
  ASSUME IInv, CollectWhiteDone
  PROVE  IInv'
<1>1. /\ TypeOK /\ BufTypeOK /\ BufOK /\ Allocation /\ Control /\ WhitesReachable
      /\ first_unused <= MaxBufSize /\ pc = "collect" /\ pc' = "tagging"
      /\ UNCHANGED <<buf, unused, first_unused, num_roots, gc_threshold, buf_size,
                     gc_enabled, gc_active, gc_protected, gc_full, ret, free, scan, calls,
                     idx, end, should_rerun, did_rerun>>
  BY InvFacts DEF IInv, CollectWhiteDone, sizeVars, flagVars, compactVars, loopVars, phaseVars
<1>2. PICK B \in SUBSET {r \in Ref : info[r].color = "white"} :
         /\ {r \in Ref \ B : info[r].color = "white"} # {} =>
               \E i \in idx .. (end - 1) : buf[i].ref \in {r \in Ref \ B : info[r].color = "white"}
         /\ info' = SetColor(B, "black")
  BY DEF CollectWhiteDone
<1>3. /\ info' \in [Ref -> [addr : Nat, color : Colors]]
      /\ \A r \in Ref : info'[r].addr = info[r].addr
      /\ \A r \in Ref : info'[r].color = IF r \in B THEN "black" ELSE info[r].color
  BY <1>1, <1>2 DEF SetColor, BufTypeOK, Colors
<1>4. BufOK' /\ BufTypeOK' BY <1>1, <1>3, RetagOK DEF BufTypeOK
<1>5. TypeOK' BY <1>1, <1>3 DEF TypeOK, PCs
<1>6. Allocation' BY <1>1 DEF Allocation
<1>7. Control' /\ Fingers' BY <1>1 DEF Control, InRun, Fingers
<1>8. WhitesReachable'
  <2>1. \A q \in Ref : info'[q].color \in {"black", "white"}
    BY <1>1, <1>3 DEF WhitesReachable, Whitening
  <2>2. (\E q \in Ref : info'[q].color = "white") =>
           \E i \in idx .. (end - 1) : info'[buf[i].ref].color = "white"
    BY <1>2, <1>3
  <2> QED BY <1>1, <2>1, <2>2 DEF WhitesReachable, Whitening
<1> QED BY <1>4, <1>5, <1>6, <1>7, <1>8 DEF IInv, BufOK

LEMMA CollectedPreserves ==
  ASSUME IInv, Collected
  PROVE  IInv'
<1>1. /\ TypeOK /\ BufTypeOK /\ BufOK /\ Allocation /\ Control /\ WhitesReachable
      /\ first_unused <= MaxBufSize /\ pc = "tagging" /\ idx = end
      /\ idx' = 1 /\ end' = first_unused
      /\ UNCHANGED <<unused, first_unused, num_roots, gc_threshold, buf_size,
                     gc_enabled, gc_protected, gc_full, ret, free, scan, calls, did_rerun>>
  BY InvFacts DEF IInv, Collected, sizeVars, compactVars
<1>2. \A r \in Ref : info[r].color = "black"
  <2>1. \A r \in Ref : info[r].color \in {"black", "white"}
    BY <1>1 DEF WhitesReachable, Whitening
  <2>2. idx .. (end - 1) = {} BY <1>1 DEF TypeOK
  <2> QED BY <1>1, <2>1, <2>2 DEF WhitesReachable
<1>3. buf_size # 0 /\ first_unused \in Nat /\ first_unused >= 1
  BY <1>1 DEF Allocation, TypeOK
<1>4. CASE num_roots = 0 /\ gc_active' = FALSE /\ pc' = "finish" /\ UNCHANGED <<buf, info, should_rerun>>
  <2>1. TypeOK'
    <3>1. pc' \in PCs /\ gc_active' \in BOOLEAN BY <1>4 DEF PCs
    <3>2. /\ UNCHANGED <<buf, info, should_rerun>>
          /\ idx' \in Nat /\ end' \in Nat
      BY <1>1, <1>4 DEF TypeOK
    <3> QED BY ZenonT(40), <1>1, <3>1, <3>2 DEF TypeOK
  <2>2. Allocation' BY <1>1, <1>4 DEF Allocation
  <2>3. Control' BY <1>1, <1>4 DEF Control, InRun
  <2>4. WhitesReachable' BY <1>2, <1>4 DEF WhitesReachable, Whitening
  <2> QED BY <1>1, <1>4, <2>1, <2>2, <2>3, <2>4, ControlStep DEF bufVars
<1>5. CASE \E D \in SUBSET {i \in 1 .. (first_unused - 1) : IsGarbage(i)},
               has_destructors \in BOOLEAN :
              /\ D # {} => has_destructors
              /\ has_destructors => D # {} \/ gc_full
              /\ buf' = [i \in Slots |-> IF i \in D THEN [buf[i] EXCEPT !.tag = "dtor"] ELSE buf[i]]
              /\ info' = SetColor({buf[i].ref : i \in D}, "purple")
              /\ should_rerun' = (should_rerun \/ has_destructors)
              /\ pc' = IF has_destructors THEN "nested" ELSE "destroy"
              /\ UNCHANGED gc_active
  <2>1. PICK D \in SUBSET {i \in 1 .. (first_unused - 1) : IsGarbage(i)},
               has_destructors \in BOOLEAN :
              /\ D # {} => has_destructors
              /\ buf' = [i \in Slots |-> IF i \in D THEN [buf[i] EXCEPT !.tag = "dtor"] ELSE buf[i]]
              /\ info' = SetColor({buf[i].ref : i \in D}, "purple")
              /\ should_rerun' = (should_rerun \/ has_destructors)
              /\ pc' = IF has_destructors THEN "nested" ELSE "destroy"
              /\ gc_active' = gc_active
    BY <1>5
  <2>2. /\ buf' \in [Slots -> Entry]
        /\ \A i \in Slots : \/ buf'[i] = buf[i]
                            \/ /\ IsLive(i) /\ buf'[i].tag \in LiveTags
                               /\ buf'[i].ref = buf[i].ref
    BY <1>1, <2>1 DEF BufTypeOK, Entry, IsLive, IsGarbage, LiveTags
  <2>3. /\ info' \in [Ref -> [addr : Nat, color : Colors]]
        /\ \A r \in Ref : info'[r].addr = info[r].addr
        /\ \A r \in Ref : info'[r].color = info[r].color \/ \E i \in D : buf[i].ref = r
    BY <1>1, <2>1 DEF SetColor, BufTypeOK, Colors
  <2>4. pc' \in {"nested", "destroy"} BY <2>1
  <2>5. BufOK' /\ BufTypeOK' BY <1>1, <2>2, <2>3, <2>4, RetagOK
  <2>6. should_rerun' \in BOOLEAN BY <1>1, <2>1 DEF TypeOK
  <2>7. TypeOK'
    <3>1. pc' \in PCs BY <2>4 DEF PCs
    <3>2. gc_active' = gc_active /\ idx' \in Nat /\ end' \in Nat
      BY <1>1, <2>1 DEF TypeOK
    <3> QED BY ZenonT(40), <1>1, <2>2, <2>3, <2>6, <3>1, <3>2 DEF TypeOK
  <2>8. Allocation' BY <1>1, <1>3 DEF Allocation
  <2>9. Control' /\ Fingers' BY <1>1, <1>3, <2>1, <2>4 DEF Control, InRun, Fingers
  <2>10. \A i \in D : info[buf[i].ref].addr # 0
    <3> SUFFICES ASSUME NEW i \in D PROVE info[buf[i].ref].addr # 0 OBVIOUS
    <3>1. i \in InUse /\ i \in Slots
      BY <1>1, SizesAssumption DEF InUse, Top, IsLive, IsGarbage, LiveTags, Slots, TypeOK
    <3>2. Compress(i) # 0 BY <3>1, CompressReach
    <3> QED BY <1>1, <3>1, <3>2 DEF BufOK, AddressesMatchSlots
  <2>11. WhitesReachable'
    BY <1>2, <2>3, <2>4, <2>10 DEF WhitesReachable, Whitening
  <2> QED BY <2>5, <2>7, <2>8, <2>9, <2>11 DEF IInv, BufOK
<1> QED BY <1>4, <1>5 DEF Collected

LEMMA DtorSlotPreserves ==
  ASSUME IInv, DtorSlot
  PROVE  IInv'
<1>1. /\ TypeOK /\ BufTypeOK /\ BufOK /\ Allocation /\ Control /\ WhitesReachable
      /\ first_unused <= MaxBufSize /\ pc = "dtor" /\ idx # end
      /\ UNCHANGED <<info, unused, first_unused, num_roots, gc_threshold, buf_size,
                     gc_enabled, gc_active, gc_protected, gc_full, ret, free, scan, calls,
                     end, should_rerun, did_rerun>>
  BY InvFacts DEF IInv, DtorSlot, sizeVars, flagVars, compactVars
<1>2. idx \in 1 .. (end - 1) /\ idx \in Slots /\ idx \in Nat
  <2>1. /\ end <= first_unused /\ first_unused <= MaxBufSize /\ idx \in 1 .. end
        /\ first_unused \in Nat /\ MaxBufSize \in Nat /\ end \in Nat /\ idx \in Nat
    BY <1>1, SizesAssumption DEF TypeOK, Control
  <2> QED BY <1>1, <2>1 DEF Slots
<1>3. /\ \/ buf' = buf
         \/ IsDtorGarbage(idx) /\ buf' = [buf EXCEPT ![idx].tag = "root"]
      /\ \/ pc' = "calling" /\ idx' = idx /\ buf' = [buf EXCEPT ![idx].tag = "root"]
         \/ pc' = "dtor" /\ idx' = idx + 1
  BY <1>1 DEF DtorSlot
<1>4. /\ buf' \in [Slots -> Entry]
      /\ \A i \in Slots : \/ buf'[i] = buf[i]
                          \/ /\ IsLive(i) /\ buf'[i].tag \in LiveTags
                             /\ buf'[i].ref = buf[i].ref
      /\ pc' = "calling" => buf'[idx].tag = "root"
  BY <1>1, <1>2, <1>3 DEF BufTypeOK, Entry, IsLive, IsDtorGarbage, LiveTags
<1>5. /\ info' \in [Ref -> [addr : Nat, color : Colors]]
      /\ \A r \in Ref : info'[r].addr = info[r].addr
      /\ pc # "compact" /\ pc' # "compact"
  BY <1>1, <1>3 DEF BufTypeOK
<1>6. BufOK' /\ BufTypeOK' BY <1>1, <1>4, <1>5, RetagOK
<1>7. TypeOK' BY <1>1, <1>2, <1>3, <1>4 DEF TypeOK, PCs
<1>8. Allocation' BY <1>1 DEF Allocation
<1>9. Control'
  <2>1. CASE pc' = "calling" /\ idx' = idx
    BY <1>1, <1>2, <1>4, <2>1 DEF Control, InRun, IsRoot
  <2>2. CASE pc' = "dtor" /\ idx' = idx + 1
    BY <1>1, <1>2, <2>2 DEF Control, InRun, TypeOK
  <2> QED BY <1>3, <2>1, <2>2
<1>10. WhitesReachable' /\ Fingers' BY <1>1, <1>3 DEF WhitesReachable, Whitening, Fingers
<1> QED BY <1>6, <1>7, <1>8, <1>9, <1>10 DEF IInv, BufOK

LEMMA RemoveNestedPreserves ==
  ASSUME IInv, NEW r \in Ref, RemoveNested(r)
  PROVE  IInv'
<1>1. /\ BufTypeOK /\ BufOK /\ first_unused <= MaxBufSize
      /\ pc = "nested" /\ info[r].addr # 0 /\ Unlink(SlotOf(r), r)
      /\ UNCHANGED <<sizeVars, gc_enabled, flagVars, loopVars, ctlVars>>
  BY InvFacts DEF RemoveNested
<1> DEFINE i == SlotOf(r)
<1>2. i \in InUse /\ buf[i].ref = r BY <1>1, SlotOfOK
<1>3. Unlink(i, r) BY <1>1
<1> HIDE DEF i
<1> QED BY <1>1, <1>2, <1>3, UnlinkedPreserves

\* The two loops over the slots that give some of them back.
LEMMA SlotLoopPreserves ==
  ASSUME IInv, pc \in {"unroot", "free"}, idx # end, idx' = idx + 1,
         \/ UNCHANGED bufVars
         \/ /\ \/ IsRoot(idx) /\ info[buf[idx].ref].color = "black"
               \/ pc = "free" /\ IsGarbage(idx)
            /\ Unlink(idx, buf[idx].ref),
         UNCHANGED <<sizeVars, gc_enabled, flagVars, ctlVars, end, should_rerun, did_rerun,
                     compactVars>>
  PROVE  IInv'
<1>1. /\ TypeOK /\ BufTypeOK /\ BufOK /\ Allocation /\ Control /\ WhitesReachable
      /\ first_unused <= MaxBufSize
      /\ UNCHANGED <<gc_threshold, buf_size, gc_enabled, gc_active, gc_protected, gc_full,
                     ret, free, scan, calls, pc, end, should_rerun, did_rerun>>
  BY InvFacts DEF IInv, sizeVars, flagVars, compactVars, ctlVars
<1>2. idx \in 1 .. (end - 1) /\ idx \in 1 .. (first_unused - 1) /\ idx \in Slots /\ idx \in Nat
  <2>1. /\ end <= first_unused /\ first_unused <= MaxBufSize /\ idx \in 1 .. end
        /\ first_unused \in Nat /\ MaxBufSize \in Nat /\ end \in Nat /\ idx \in Nat
    BY <1>1, SizesAssumption DEF TypeOK, Control
  <2> QED BY <2>1 DEF Slots
<1>3. CASE UNCHANGED bufVars
  <2>1. TypeOK' BY <1>1, <1>2, <1>3 DEF TypeOK, bufVars
  <2>2. Allocation' BY <1>1, <1>3 DEF Allocation, bufVars
  <2>3. Control' BY <1>1, <1>2, <1>3 DEF Control, InRun, bufVars, TypeOK
  <2>4. WhitesReachable' BY <1>1, <1>3 DEF WhitesReachable, Whitening, bufVars
  <2> QED BY <1>1, <1>3, <2>1, <2>2, <2>3, <2>4, ControlStep
<1>4. CASE /\ \/ IsRoot(idx) /\ info[buf[idx].ref].color = "black"
              \/ pc = "free" /\ IsGarbage(idx)
           /\ Unlink(idx, buf[idx].ref)
  <2> DEFINE r == buf[idx].ref
  <2>1. idx \in InUse /\ r \in Ref
    <3>1. IsLive(idx) BY <1>4 DEF IsRoot, IsGarbage, IsLive, LiveTags
    <3>2. Top = first_unused - 1 BY <1>1 DEF Top
    <3> QED BY <1>1, <1>2, <3>1, <3>2
        DEF InUse, BufOK, SlotsWellFormed, IsLive, IsUnused, LiveTags
  <2>2. r = buf[idx].ref OBVIOUS
  <2>3. Unlink(idx, r) BY <1>4
  <2>4. pc = "unroot" => info[r].color = "black" BY <1>4
  <2> HIDE DEF r
  <2>5. BufOK' /\ BufTypeOK' BY <1>1, <2>1, <2>2, <2>3, UnlinkOK
  <2>6. /\ \A q \in Ref : q # r => info'[q] = info[q]
        /\ info'[r].addr = 0 /\ info'[r].color = "black"
        /\ first_unused' = first_unused
    BY <1>1, <1>2, <2>1, <2>3, UnlinkKeeps
  <2>7. TypeOK' BY <1>1, <1>2, <2>5 DEF TypeOK, BufTypeOK
  <2>8. Allocation' BY <1>1, <2>6 DEF Allocation
  <2>9. Control' /\ Fingers' BY <1>1, <1>2, <2>6 DEF Control, InRun, TypeOK, Fingers
  <2>10. WhitesReachable'
    <3>1. CASE pc = "free" BY <1>1, <2>1, <2>6, <3>1 DEF WhitesReachable, Whitening
    <3>2. CASE pc = "unroot"
      <4>1. /\ \A q \in Ref : info[q].color \in {"black", "white"}
            /\ (\E q \in Ref : info[q].color = "white") =>
                  \E q \in Ref : info[q].color = "white" /\ info[q].addr # 0
        BY <1>1, <3>2 DEF WhitesReachable, Whitening
      <4>2. \A q \in Ref : info'[q].color \in {"black", "white"} BY <2>6, <4>1
      <4>3. \A q \in Ref : info'[q].color = "white" <=> info[q].color = "white"
        BY <2>1, <2>4, <2>6, <3>2
      <4>4. \A q \in Ref : info[q].color = "white" => info'[q].addr = info[q].addr
        BY <2>4, <2>6, <3>2
      <4> QED BY <1>1, <3>2, <4>1, <4>2, <4>3, <4>4 DEF WhitesReachable, Whitening
    <3> QED BY <3>1, <3>2
  <2> QED BY <2>5, <2>7, <2>8, <2>9, <2>10 DEF IInv, BufOK
<1> QED BY <1>3, <1>4

LEMMA UnrootSlotPreserves ==
  ASSUME IInv, UnrootSlot
  PROVE  IInv'
BY SlotLoopPreserves DEF UnrootSlot

LEMMA FreeSlotPreserves ==
  ASSUME IInv, FreeSlot
  PROVE  IInv'
BY SlotLoopPreserves DEF FreeSlot

LEMMA AddGarbagePreserves ==
  ASSUME IInv, NEW r \in Ref, AddGarbage(r)
  PROVE  IInv'
<1>1. /\ TypeOK /\ BufTypeOK /\ BufOK /\ Allocation /\ Control /\ WhitesReachable
      /\ first_unused <= MaxBufSize /\ pc = "collect"
      /\ info[r].addr = 0
      /\ StoreOrGrow(r, "garbage", "black", [info EXCEPT ![r].color = "black"])
      /\ UNCHANGED <<gc_threshold, gc_enabled, ret, free, scan, idx, end,
                     should_rerun, did_rerun, pc, calls>>
  BY InvFacts DEF IInv, AddGarbage, Info, loopVars, phaseVars, compactVars, ctlVars
<1> DEFINE dropped == [info EXCEPT ![r].color = "black"]
<1>2. /\ buf_size # 0 /\ "black" \in Colors /\ "garbage" \in LiveTags
      /\ dropped \in [Ref -> [addr : Nat, color : Colors]]
      /\ \A q \in Ref : dropped[q].addr = info[q].addr
      /\ \A q \in Ref : q # r => dropped[q] = info[q]
      /\ dropped[r].color = "black"
  BY <1>1 DEF Allocation, BufTypeOK, Colors, LiveTags
<1>3. StoreOrGrow(r, "garbage", "black", dropped) BY <1>1
<1> HIDE DEF dropped
<1>4. /\ BufOK' /\ BufTypeOK'
      /\ buf_size' \in Nat /\ buf_size <= buf_size' /\ buf_size' <= MaxBufSize
      /\ gc_active' \in BOOLEAN /\ gc_protected' \in BOOLEAN /\ gc_full' \in BOOLEAN
      /\ gc_active => gc_active'
      /\ first_unused' \in first_unused .. buf_size'
      /\ \A q \in Ref : q # r => info'[q] = info[q]
      /\ \/ info'[r].addr # 0 /\ info'[r].color = "black"
         \/ info'[r] = dropped[r]
      /\ num_roots + 1 = first_unused => num_roots' + 1 = first_unused'
  BY <1>1, <1>2, <1>3, StoreOrGrowOK
<1>5. TypeOK' BY <1>1, <1>4 DEF TypeOK, BufTypeOK
<1>6. Allocation' BY <1>1, <1>2, <1>4 DEF Allocation, TypeOK
<1>7. Control' /\ Fingers' BY <1>1, <1>4 DEF Control, InRun, TypeOK, Fingers
<1>8. WhitesReachable'
  <2>1. \A q \in Ref : info[q].color \in {"black", "white"}
    BY <1>1 DEF WhitesReachable, Whitening
  <2>2. \A q \in Ref : info'[q].color \in {"black", "white"} BY <1>2, <1>4, <2>1
  <2> QED BY <1>1, <2>2 DEF WhitesReachable, Whitening
<1> QED BY <1>4, <1>5, <1>6, <1>7, <1>8 DEF IInv, BufOK

-----------------------------------------------------------------------------
(* Compaction.                                                             *)

\* Entering gc_compact from one of the three phases that do.
LEMMA EnterPreserves ==
  ASSUME IInv, NEW next \in {"trace", "tag", "after", "finish"},
         \/ pc = "start" /\ next = (IF num_roots # 0 THEN "trace" ELSE "finish")
         \/ pc = "unroot" /\ next = "tag"
         \/ pc = "free" /\ next = "after",
         EnterCompact(next),
         gc_active' \in BOOLEAN,
         next \in {"trace", "tag"} => gc_active',
         UNCHANGED <<buf, info, num_roots, sizeVars, gc_enabled, gc_protected, gc_full, calls,
                     phaseVars>>
  PROVE  IInv'
<1>1. /\ TypeOK /\ BufTypeOK /\ BufOK /\ Allocation /\ Control /\ WhitesReachable
      /\ first_unused <= MaxBufSize /\ (num_roots # 0 => first_unused # 0)
      /\ UNCHANGED <<buf, info, num_roots, gc_threshold, buf_size, gc_enabled, gc_protected,
                     gc_full, calls, idx, end, should_rerun, did_rerun>>
  BY InvFacts DEF IInv, sizeVars, phaseVars
<1>2. pc # "compact" /\ (next = "finish" => num_roots = 0) OBVIOUS
<1>3. /\ BufOK' /\ BufTypeOK' /\ Fingers'
      /\ \/ pc' = next /\ num_roots' + 1 = first_unused' /\ UNCHANGED <<free, scan, ret>>
         \/ pc' = "compact" /\ ret' = next /\ next # "finish"
             /\ UNCHANGED first_unused /\ free' \in Nat /\ scan' \in Nat
  BY <1>1, <1>2, EnterCompactOK
<1>4. num_roots + 1 <= first_unused \/ num_roots = 0
  <2>1. Top = first_unused - 1 /\ Top \in Int BY <1>1, <1>2 DEF Top, TypeOK
  <2>2. IsFiniteSet(1 .. Top) /\ Cardinality(1 .. Top) = IF 1 > Top THEN 0 ELSE Top
    BY <2>1, IntervalFrom1
  <2>3. Cardinality(InUse) <= Cardinality(1 .. Top) BY <2>1, <2>2, InUseFinite, FS_Subset
  <2> QED BY <1>1, <2>1, <2>2, <2>3 DEF BufOK, NumRootsExact, TypeOK
<1>5. TypeOK' BY <1>1, <1>3 DEF TypeOK, BufTypeOK, PCs
<1>6. Allocation'
  <2>1. CASE buf_size = 0
    <3>1. num_roots = 0 /\ pc = "start" /\ next = "finish" BY <1>1, <2>1 DEF Allocation
    <3> QED BY <1>1, <1>3, <2>1, <3>1 DEF Allocation, BufTypeOK
  <2>2. CASE buf_size # 0
    <3>1. first_unused' = first_unused \/ first_unused' = num_roots + 1 BY <1>1, <1>3 DEF BufTypeOK
    <3>2. first_unused' \in 1 .. buf_size'
      BY <1>1, <1>4, <2>2, <3>1 DEF Allocation, TypeOK
    <3> QED BY <1>1, <2>2, <3>2 DEF Allocation
  <2> QED BY <2>1, <2>2
<1>7. Control'
  <2>1. calls # <<>> BY <1>1 DEF Control
  <2> QED BY <1>1, <1>3, <2>1 DEF Control, InRun
<1>8. WhitesReachable' BY <1>1, <1>3 DEF WhitesReachable, Whitening
<1> QED BY <1>3, <1>5, <1>6, <1>7, <1>8 DEF IInv, BufOK

LEMMA StartPreserves ==
  ASSUME IInv, Start
  PROVE  IInv'
<1>1. gc_active' \in BOOLEAN /\ (num_roots # 0 => gc_active') BY DEF Start, IInv, TypeOK
<1>2. CASE num_roots # 0
  <2>1. EnterCompact("trace") BY <1>2 DEF Start
  <2> QED BY <1>1, <1>2, <2>1, EnterPreserves DEF Start
<1>3. CASE num_roots = 0
  <2>1. EnterCompact("finish") BY <1>3 DEF Start
  <2> QED BY <1>1, <1>3, <2>1, EnterPreserves DEF Start
<1> QED BY <1>2, <1>3

LEMMA UnrootDonePreserves ==
  ASSUME IInv, UnrootDone
  PROVE  IInv'
<1>1. gc_active' \in BOOLEAN /\ gc_active'
  BY DEF UnrootDone, IInv, TypeOK, Control, InRun, flagVars
<1> QED BY <1>1, EnterPreserves DEF UnrootDone, flagVars

LEMMA FreeDonePreserves ==
  ASSUME IInv, FreeDone
  PROVE  IInv'
BY EnterPreserves DEF FreeDone

LEMMA CompactCrossPreserves ==
  ASSUME IInv, CompactCross
  PROVE  IInv'
<1>1. /\ TypeOK /\ BufTypeOK /\ BufOK /\ Allocation /\ Control /\ WhitesReachable /\ Fingers
      /\ first_unused <= MaxBufSize /\ free \in Nat /\ scan \in Nat
      /\ UNCHANGED <<buf, info, unused, first_unused, num_roots, gc_threshold, buf_size,
                     gc_enabled, gc_active, gc_protected, gc_full, calls, pc, ret, idx, end,
                     should_rerun, did_rerun>>
  BY InvFacts DEF IInv, TypeOK, CompactCross, bufVars, sizeVars, flagVars, ctlVars, phaseVars
<1>2. BufOK' /\ BufTypeOK' /\ Fingers' /\ free' \in Nat /\ scan' \in Nat BY <1>1, CompactCrossOK
<1>3. TypeOK' BY <1>1, <1>2 DEF TypeOK
<1>4. Allocation' BY <1>1 DEF Allocation
<1>5. Control' BY <1>1 DEF Control, InRun, CompactCross
<1>6. WhitesReachable' BY <1>1 DEF WhitesReachable, Whitening
<1> QED BY <1>2, <1>3, <1>4, <1>5, <1>6 DEF IInv, BufOK

\* The rest of a step that may leave gc_compact.
LEMMA LeavePreserves ==
  ASSUME IInv, pc = "compact", BufOK', BufTypeOK', Fingers',
         \/ pc' = "compact" /\ UNCHANGED <<ret, first_unused>> /\ free' \in Nat /\ scan' \in Nat
         \/ /\ pc' = ret /\ num_roots' + 1 = first_unused'
            /\ free' = 0 /\ scan' = 0 /\ ret' = "idle",
         first_unused' \in 1 .. buf_size,
         \A r \in Ref : info'[r].color = info[r].color,
         \A r \in Ref : info'[r].addr = 0 <=> info[r].addr = 0,
         UNCHANGED <<num_roots, sizeVars, gc_enabled, flagVars, calls, phaseVars>>
  PROVE  IInv'
<1>1. /\ TypeOK /\ Allocation /\ Control /\ WhitesReachable /\ Fingers
      /\ UNCHANGED <<num_roots, gc_threshold, buf_size, gc_enabled, gc_active, gc_protected,
                     gc_full, calls, idx, end, should_rerun, did_rerun>>
  BY DEF IInv, sizeVars, flagVars, phaseVars
<1>2. ret \in {"trace", "tag", "after"} BY <1>1 DEF Fingers
<1>3. buf_size # 0 /\ calls # <<>> BY <1>1 DEF Allocation, Control
<1>4. TypeOK' BY <1>1, <1>2 DEF TypeOK, BufTypeOK, PCs
<1>5. Allocation' BY <1>1, <1>3 DEF Allocation
<1>6. Control' BY <1>1, <1>2, <1>3 DEF Control, InRun
<1>7. WhitesReachable' BY <1>1, <1>2 DEF WhitesReachable, Whitening
<1> QED BY <1>4, <1>5, <1>6, <1>7 DEF IInv, BufOK

LEMMA CompactMovePreserves ==
  ASSUME IInv, CompactMove
  PROVE  IInv'
<1> USE SizesAssumption
<1> DEFINE r == buf[ScanFinger].ref
<1>1. /\ TypeOK /\ BufTypeOK /\ BufOK /\ Fingers /\ Allocation
      /\ first_unused <= MaxBufSize /\ free \in Nat /\ scan \in Nat
      /\ pc = "compact" /\ free < scan
  BY InvFacts DEF IInv, TypeOK, CompactMove
<1>2. BufOK' /\ BufTypeOK' /\ Fingers' BY <1>1, CompactMoveOK
<1>3. /\ FreeFinger \in free .. scan
      /\ ScanFinger \in 1 .. scan /\ ~IsUnused(ScanFinger)
  BY <1>1, FingersOK
<1>4. 1 <= free /\ scan < first_unused /\ num_roots # 0 /\ num_roots < scan
      /\ ret \in {"trace", "tag", "after"}
  BY <1>1 DEF Fingers
<1>5. /\ info' = [info EXCEPT ![r].addr = Compress(FreeFinger)]
      /\ num_roots' = num_roots
  BY DEF CompactMove
<1>6. /\ FreeFinger \in Slots /\ ScanFinger \in InUse /\ ScanFinger \in Slots /\ r \in Ref
  <2>1. Top = scan BY <1>1 DEF Top
  <2>2. ScanFinger \in Slots /\ FreeFinger \in Slots
    BY <1>1, <1>3, <1>4 DEF Slots, TypeOK
  <2> QED BY <1>1, <1>3, <2>1, <2>2, RefAssumption
      DEF BufOK, SlotsWellFormed, InUse, IsLive, IsUnused, LiveTags
<1>7. Compress(FreeFinger) # 0 /\ Compress(ScanFinger) # 0 BY <1>6, CompressReach
<1>8. info[r].addr # 0 BY <1>1, <1>6, <1>7 DEF BufOK, AddressesMatchSlots
<1>9. /\ \A q \in Ref : info'[q].color = info[q].color
      /\ \A q \in Ref : info'[q].addr = 0 <=> info[q].addr = 0
  <2> HIDE DEF r
  <2>1. info \in [Ref -> [addr : Nat, color : Colors]] BY <1>1 DEF TypeOK
  <2> QED BY <1>5, <1>6, <1>7, <1>8, <2>1
<1> HIDE DEF r
<1>10. \/ pc' = "compact" /\ UNCHANGED <<ret, first_unused>> /\ free' = FreeFinger + 1
              /\ scan' = ScanFinger - 1
       \/ /\ pc' = ret /\ first_unused' = num_roots + 1
          /\ free' = 0 /\ scan' = 0 /\ ret' = "idle"
  BY <1>1 DEF CompactMove, LeaveCompact, CompactDone
<1>11. /\ (free' \in Nat /\ scan' \in Nat) \/ pc' = ret
       /\ first_unused' \in 1 .. buf_size
       /\ pc' = ret => num_roots' + 1 = first_unused'
  <2>1. buf_size # 0 BY <1>1 DEF Allocation
  <2>2. num_roots + 1 \in 1 .. buf_size /\ first_unused \in 1 .. buf_size
    BY <1>1, <1>4, <2>1 DEF Allocation, TypeOK
  <2> QED BY <1>1, <1>3, <1>4, <1>5, <1>10, <2>2
<1> QED
  <2>1. UNCHANGED <<num_roots, sizeVars, gc_enabled, flagVars, calls, phaseVars>>
    BY DEF CompactMove
  <2>2. \/ pc' = "compact" /\ UNCHANGED <<ret, first_unused>> /\ free' \in Nat /\ scan' \in Nat
        \/ /\ pc' = ret /\ num_roots' + 1 = first_unused'
           /\ free' = 0 /\ scan' = 0 /\ ret' = "idle"
    BY <1>3, <1>4, <1>10, <1>11
  <2> QED BY <1>1, <1>2, <1>9, <1>11, <2>1, <2>2, LeavePreserves

LEMMA CompactFinishPreserves ==
  ASSUME IInv, CompactFinish
  PROVE  IInv'
<1>1. /\ TypeOK /\ BufTypeOK /\ BufOK /\ Fingers /\ Allocation
      /\ first_unused <= MaxBufSize /\ free \in Nat /\ scan \in Nat
      /\ pc = "compact" /\ pc' = ret /\ free' = 0 /\ scan' = 0 /\ ret' = "idle"
      /\ info' = info /\ first_unused' = num_roots + 1
  BY InvFacts DEF IInv, TypeOK, CompactFinish, LeaveCompact, CompactDone
<1>2. BufOK' /\ BufTypeOK' /\ Fingers' /\ num_roots' + 1 = first_unused' BY <1>1, CompactFinishOK
<1>3. first_unused' \in 1 .. buf_size
  <2>1. buf_size # 0 /\ first_unused \in 1 .. buf_size BY <1>1 DEF Allocation
  <2>2. Top = scan /\ scan < first_unused /\ num_roots \in Nat BY <1>1 DEF Top, Fingers, TypeOK
  <2>3. IsFiniteSet(1 .. Top) /\ Cardinality(1 .. Top) = IF 1 > Top THEN 0 ELSE Top
    BY <1>1, <2>2, IntervalFrom1
  <2>4. Cardinality(InUse) <= Cardinality(1 .. Top)
    BY <1>1, <2>2, <2>3, InUseFinite, FS_Subset
  <2>5. num_roots <= scan BY <1>1, <2>2, <2>3, <2>4 DEF BufOK, NumRootsExact
  <2> QED BY <1>1, <2>1, <2>2, <2>5 DEF TypeOK
<1>4. UNCHANGED <<num_roots, sizeVars, gc_enabled, flagVars, calls, phaseVars>>
  BY DEF CompactFinish
<1> QED BY <1>1, <1>2, <1>3, <1>4, LeavePreserves

-----------------------------------------------------------------------------
(* The theorems.                                                           *)

LEMMA ProgramPreserves ==
  ASSUME IInv, Program
  PROVE  IInv'
<1>1. ASSUME NEW enable \in BOOLEAN, GcEnable(enable) PROVE IInv' BY <1>1, GcEnablePreserves
<1>2. ASSUME NEW r \in Ref, PossibleRoot(r) PROVE IInv' BY <1>2, PossibleRootPreserves
<1>3. ASSUME NEW r \in Ref, RemoveFromBuffer(r) PROVE IInv' BY <1>3, RemoveFromBufferPreserves
<1>4. CASE Reset BY <1>4, ResetPreserves
<1>5. CASE Bailout BY <1>5, BailoutPreserves
<1>6. CASE CollectCycles BY <1>6, CollectCyclesPreserves
<1> QED BY <1>1, <1>2, <1>3, <1>4, <1>5, <1>6 DEF Program

LEMMA CollectorPreserves ==
  ASSUME IInv, Collector
  PROVE  IInv'
<1>1. CASE Start \/ UnrootDone \/ FreeDone
  BY <1>1, StartPreserves, UnrootDonePreserves, FreeDonePreserves
<1>2. CASE CompactMove \/ CompactCross \/ CompactFinish
  BY <1>2, CompactMovePreserves, CompactCrossPreserves, CompactFinishPreserves
<1>3. CASE Trace \/ TagBegin \/ TagSlot \/ CollectWhiteDone \/ Collected
  BY <1>3, TracePreserves, TagBeginPreserves, TagSlotPreserves, CollectWhiteDonePreserves,
     CollectedPreserves
<1>4. CASE UnrootSlot \/ FreeSlot BY <1>4, UnrootSlotPreserves, FreeSlotPreserves
<1>5. ASSUME NEW r \in Ref, AddGarbage(r) \/ RemoveNested(r)
      PROVE  IInv'
  BY <1>5, AddGarbagePreserves, RemoveNestedPreserves
<1>6. CASE NestedDone \/ DtorSlot \/ DtorReturns \/ DtorDone
  BY <1>6, NestedDonePreserves, DtorSlotPreserves, DtorReturnsPreserves, DtorDonePreserves
<1>7. CASE DestroySlot \/ DestroyReturns \/ DestroyDone
  BY <1>7, DestroySlotPreserves, DestroyReturnsPreserves, DestroyDonePreserves
<1>8. CASE After \/ Finish BY <1>8, AfterPreserves, FinishPreserves
<1>9. ASSUME NEW few \in BOOLEAN, AdjustThreshold(few) PROVE IInv'
  BY <1>9, AdjustThresholdPreserves
<1>10. CASE PlaceHeld \/ DropHeld BY <1>10, PlaceHeldPreserves, DropHeldPreserves
<1> QED BY <1>1, <1>2, <1>3, <1>4, <1>5, <1>6, <1>7, <1>8, <1>9, <1>10 DEF Collector

LEMMA StutterPreserves ==
  ASSUME IInv, UNCHANGED vars
  PROVE  IInv'
<1>1. UNCHANGED <<buf, info, unused, first_unused, num_roots, gc_threshold, buf_size, gc_enabled,
                  gc_active, gc_protected, gc_full, ret, free, scan, idx, end,
                  should_rerun, did_rerun, pc, calls>>
  BY DEF vars, bufVars, sizeVars, flagVars, loopVars, compactVars, phaseVars, ctlVars
<1>2. Top' = Top /\ BufOK BY <1>1, InvFacts DEF Top
<1>3. BufOK' BY <1>1, <1>2
  DEF BufOK, AddressesMatchSlots, NumRootsExact, FreeListLinks, SlotsWellFormed,
      InUse, UnusedSlots, IsLive, IsUnused
<1>4. TypeOK' BY <1>1 DEF IInv, TypeOK
<1>5. Allocation' BY <1>1 DEF IInv, Allocation
<1>6. Control' BY <1>1 DEF IInv, Control, InRun, IsRoot, IsGarbage, Caller
<1>7. Fingers' BY <1>1 DEF IInv, Fingers, IsLive
<1>8. WhitesReachable' BY <1>1 DEF IInv, WhitesReachable, Whitening
<1> QED BY <1>3, <1>4, <1>5, <1>6, <1>7, <1>8 DEF IInv, BufOK

\* The invariant is inductive, for every size of the buffer and every number
\* of values.
THEOREM Inductive == Spec => []IInv
<1>1. ASSUME IInv, [Next]_vars PROVE IInv'
  <2>1. CASE Program BY <1>1, <2>1, ProgramPreserves
  <2>2. CASE Collector BY <1>1, <2>2, CollectorPreserves
  <2>3. CASE UNCHANGED vars BY <1>1, <2>3, StutterPreserves
  <2> QED BY <1>1, <2>1, <2>2, <2>3 DEF Next
<1> QED BY <1>1, IInvInit, PTL DEF Spec

\* Every variable of gc_globals keeps its type: num_roots in particular never
\* goes below zero, and no entry is read that was never written.
THEOREM TypeCorrect == Spec => []TypeOK
<1>1. IInv => TypeOK BY DEF IInv
<1> QED BY <1>1, Inductive, PTL

\* A value with an address is in exactly one slot, the one the address stands
\* for: gc_remove_from_buffer always finds the value it is called for, however
\* many slots share a compressed address.  num_roots is the number of slots in
\* use, in every phase.  No slot outside the allocation is ever handed out,
\* although the fast path of gc_possible_root compares with the threshold only.
THEOREM BufferIsSound == Spec => []BufferSound
<1>1. IInv => AddressesMatchSlots /\ NumRootsExact BY DEF IInv
<1>2. IInv => WithinAllocation BY DEF IInv, Allocation, WithinAllocation, TypeOK
<1>3. IInv => BufferSound BY <1>1, <1>2 DEF BufferSound
<1> QED BY <1>3, Inductive, PTL

\* The unbounded inner loops of gc_compact stop inside the array.
THEOREM FingersAlwaysStop == Spec => []FingersStop
<1>1. ASSUME IInv PROVE FingersStop
  <2> SUFFICES ASSUME pc = "compact", free < scan
               PROVE  /\ \E i \in free .. scan : IsUnused(i)
                      /\ \E i \in 1 .. scan : IsLive(i) /\ i >= free - 1
    BY DEF FingersStop
  <2>1. /\ BufTypeOK /\ BufOK /\ Fingers /\ first_unused <= MaxBufSize
        /\ free \in Nat /\ scan \in Nat
    BY <1>1, InvFacts DEF IInv, TypeOK
  <2>2. /\ FreeFinger \in free .. scan /\ IsUnused(FreeFinger)
        /\ \A j \in free .. (FreeFinger - 1) : ~IsUnused(j)
        /\ ScanFinger \in 1 .. scan /\ ~IsUnused(ScanFinger)
        /\ \A j \in (ScanFinger + 1) .. scan : IsUnused(j)
    BY <2>1, FingersOK
  <2>3. Top = scan /\ free \in 1 .. (scan + 1) BY <2>1 DEF Top, Fingers
  <2>4. IsLive(ScanFinger) BY <2>1, <2>2, <2>3 DEF BufOK, SlotsWellFormed
  <2>5. ScanFinger >= free - 1
    <3> SUFFICES ASSUME ScanFinger < free - 1 PROVE FALSE BY <2>1, <2>2
    <3>1. (free - 1) \in (ScanFinger + 1) .. scan /\ (free - 1) \in 1 .. (free - 1)
      BY <2>1, <2>2, <2>3
    <3>2. IsUnused(free - 1) /\ IsLive(free - 1) BY <2>1, <2>2, <3>1 DEF Fingers
    <3> QED BY <3>2 DEF IsLive, IsUnused, LiveTags
  <2> QED BY <2>2, <2>4, <2>5
<1> QED BY <1>1, Inductive, PTL

\* gc_collect_cycles() called by a destructor or a free handler of a running
\* collection cannot reach the compaction at the start of a new one.
THEOREM CallbacksAreSafe == Spec => []CallbackFindsRoots
<1>1. ASSUME IInv PROVE CallbackFindsRoots
  <2> SUFFICES ASSUME pc \in {"calling", "freeing"} PROVE gc_active /\ num_roots # 0
    BY DEF CallbackFindsRoots
  <2>1. /\ gc_active /\ idx \in 1 .. (end - 1) /\ end <= first_unused
        /\ end \in Nat /\ first_unused \in Nat
        /\ IsRoot(idx) \/ IsGarbage(idx)
    BY <1>1 DEF IInv, Control, InRun, TypeOK
  <2>2. Top = first_unused - 1 /\ Top \in Int BY <2>1 DEF Top
  <2>3. idx \in InUse BY <2>1, <2>2 DEF InUse, IsLive, IsRoot, IsGarbage, LiveTags
  <2>4. num_roots # 0 BY <1>1, <2>2, <2>3, InUseFinite, FS_EmptySet DEF IInv, NumRootsExact
  <2> QED BY <2>1, <2>4
<1> QED BY <1>1, Inductive, PTL
-----------------------------------------------------------------------------
(* No freed slot is lost.                                                  *)

\* Steps that change neither the list nor its entries.
LEMMA ListKeep ==
  ASSUME BufOK, ListWhole, pc # "compact", UnusedSlots' = UnusedSlots, unused' = unused,
         \A i \in UnusedSlots : buf'[i].next = buf[i].next
  PROVE  ListWhole'
<1> SUFFICES ASSUME NEW S \in SUBSET UnusedSlots', Closed(S)'
             PROVE  S = UnusedSlots'
  BY DEF ListWhole
<1>1. S \in SUBSET UnusedSlots /\ Closed(S) BY DEF Closed
<1> QED BY <1>1 DEF ListWhole

\* A compaction, like gc_reset, leaves no slot to list.
LEMMA ListEmpty ==
  ASSUME UnusedSlots' = {}
  PROVE  ListWhole'
BY DEF ListWhole

\* The head of the list is taken, or a slot that was never on it.
LEMMA ListStore ==
  ASSUME BufTypeOK, BufOK, ListWhole, pc # "compact", pc' # "compact",
         first_unused <= MaxBufSize,
         NEW r \in Ref, NEW tag \in LiveTags, NEW color \in Colors,
         \/ StoreInUnused(r, tag, color)
         \/ first_unused \in Slots /\ StoreInNext(r, tag, color)
  PROVE  ListWhole'
<1>1. /\ UnusedSlots' = UnusedSlots \ {StoreSlot}
      /\ \A j \in Slots : j # StoreSlot => buf'[j] = buf[j]
      /\ HasUnused => StoreSlot = unused /\ unused \in UnusedSlots /\ unused' = buf[unused].next
      /\ ~HasUnused => StoreSlot \notin UnusedSlots /\ unused' = unused
      /\ Top = first_unused - 1 /\ \A j \in 1 .. Top : j \in Slots
  BY StoreSlots
<1>2. \A j \in UnusedSlots : j \in Slots BY <1>1 DEF UnusedSlots
<1>3. CASE HasUnused
  <2> SUFFICES ASSUME NEW S \in SUBSET UnusedSlots', Closed(S)'
               PROVE  S = UnusedSlots'
    BY DEF ListWhole
  <2>1. S \cup {unused} \in SUBSET UnusedSlots BY <1>1, <1>3
  <2>2. Closed(S \cup {unused})
    <3>1. \A j \in S : buf[j].next # 0 => buf[j].next \in S BY <1>1, <1>2, <1>3 DEF Closed
    <3>2. buf[unused].next # 0 => buf[unused].next \in S BY <1>1, <1>3 DEF Closed
    <3> QED BY <3>1, <3>2 DEF Closed
  <2>3. S \cup {unused} = UnusedSlots BY <2>1, <2>2 DEF ListWhole
  <2> QED BY <1>1, <1>3, <2>3
<1>4. CASE ~HasUnused
  <2>1. UnusedSlots' = UnusedSlots /\ unused' = unused BY <1>1, <1>4
  <2>2. \A i \in UnusedSlots : buf'[i].next = buf[i].next BY <1>1, <1>2, <1>4
  <2> QED BY <2>1, <2>2, ListKeep
<1> QED BY <1>3, <1>4

\* A freed slot becomes the head of the list.
LEMMA ListUnlink ==
  ASSUME BufTypeOK, BufOK, ListWhole, pc # "compact", pc' # "compact",
         first_unused <= MaxBufSize,
         NEW i \in InUse, NEW r \in Ref, buf[i].ref = r,
         Unlink(i, r)
  PROVE  ListWhole'
<1>1. i \notin UnusedSlots /\ UnusedSlots' = UnusedSlots \cup {i} BY UnlinkOK
<1>2. i \in Slots /\ i # 0 /\ \A j \in UnusedSlots : j \in Slots
  BY SizesAssumption DEF InUse, Top, Slots, BufTypeOK, UnusedSlots
<1>3. /\ \A j \in Slots : j # i => buf'[j] = buf[j]
      /\ buf'[i].next = unused /\ unused' = i
  BY <1>2 DEF Unlink, BufTypeOK, Unused
<1> SUFFICES ASSUME NEW S \in SUBSET UnusedSlots', Closed(S)'
             PROVE  S = UnusedSlots'
  BY DEF ListWhole
<1>4. i \in S /\ (unused # 0 => unused \in S) BY <1>2, <1>3 DEF Closed
<1>5. unused # i /\ \A j \in UnusedSlots : buf[j].next # i
  BY <1>1, <1>2 DEF BufOK, FreeListLinks
<1>6. S \ {i} \in SUBSET UnusedSlots BY <1>1
<1>7. Closed(S \ {i})
  <2>1. \A j \in S \ {i} : buf[j].next # 0 => buf[j].next \in S \ {i}
    BY <1>1, <1>2, <1>3, <1>5, <1>6 DEF Closed
  <2> QED BY <1>4, <1>5, <2>1 DEF Closed
<1>8. S \ {i} = UnusedSlots BY <1>6, <1>7 DEF ListWhole
<1> QED BY <1>1, <1>4, <1>8
-----------------------------------------------------------------------------
(* The tags of a phase.                                                    *)

\* Right after a compaction no slot is free.
LEMMA FullAfterCompact ==
  IInv /\ pc # "compact" /\ num_roots + 1 = first_unused =>
      UnusedSlots = {} /\ InUse = 1 .. (first_unused - 1)
<1> SUFFICES ASSUME IInv, pc # "compact", num_roots + 1 = first_unused
             PROVE  UnusedSlots = {} /\ InUse = 1 .. (first_unused - 1)
  OBVIOUS
<1>1. InUse = 1 .. (first_unused - 1) BY InvFacts, NoHoles
<1> QED BY <1>1 DEF UnusedSlots, InUse, IsLive, IsUnused, LiveTags

\* What an entry in use is.
LEMMA EntryFacts ==
  ASSUME IInv, NEW i \in InUse
  PROVE  /\ i \in Slots /\ i \in Nat /\ i >= 1 /\ IsLive(i) /\ buf[i].ref \in Ref
         /\ info[buf[i].ref].addr # 0 /\ num_roots # 0
         /\ pc # "compact" => i < first_unused
         /\ \A j \in InUse : buf[j].ref = buf[i].ref => j = i
<1>1. /\ BufTypeOK /\ BufOK /\ first_unused <= MaxBufSize /\ Fingers /\ scan \in Nat
      /\ pc # "compact" => Top = first_unused - 1
  BY InvFacts DEF IInv, TypeOK
<1>2. Top \in Int /\ Top < MaxBufSize
  BY <1>1, SizesAssumption DEF Top, Fingers, BufTypeOK
<1>3. i \in 1 .. Top /\ IsLive(i) BY DEF InUse
<1>4. i \in Slots /\ i \in Nat /\ i >= 1 /\ (pc # "compact" => i < first_unused)
  BY <1>1, <1>2, <1>3, SizesAssumption DEF Slots, BufTypeOK
<1>5. buf[i].ref \in Ref
  BY <1>1, <1>3 DEF BufOK, SlotsWellFormed, IsLive, IsUnused, LiveTags
<1>6. Compress(i) # 0 BY <1>4, CompressReach
<1>7. num_roots # 0 BY <1>1, <1>2, InUseFinite, FS_EmptySet DEF BufOK, NumRootsExact
<1> QED BY <1>1, <1>3, <1>4, <1>5, <1>6, <1>7 DEF BufOK, AddressesMatchSlots

LEMMA PhaseInit == ASSUME Init PROVE PhaseInv
<1>1. InUse = {} /\ UnusedSlots = {}
  BY DEF Init, InUse, Top, UnusedSlots
<1>2. TagsOfPhase BY <1>1 DEF Init, TagsOfPhase, PurpleRoots, RootPhase
<1>3. ListWhole BY <1>1 DEF ListWhole
<1> QED BY <1>2, <1>3 DEF PhaseInv

\* Steps that leave the array alone keep its list and its tags.
LEMMA SameBuffer ==
  ASSUME IInv, PhaseInv, pc # "compact", pc' # "compact", UNCHANGED bufVars
  PROVE  /\ ListWhole' /\ InUse' = InUse /\ buf' = buf /\ info' = info
         /\ num_roots' = num_roots /\ first_unused' = first_unused
         /\ (\A i \in InUse : IsRoot(i) /\ Purple(i)) => PurpleRoots'
<1>1. Top' = Top /\ buf' = buf /\ unused' = unused /\ first_unused' = first_unused
  BY DEF bufVars, Top
<1>2. InUse' = InUse /\ UnusedSlots' = UnusedSlots BY <1>1 DEF InUse, IsLive, UnusedSlots, IsUnused
<1>3. ListWhole' BY <1>1, <1>2, InvFacts, ListKeep DEF PhaseInv
<1> QED BY <1>1, <1>2, <1>3 DEF bufVars, PurpleRoots, IsRoot, Purple

\* Back to the program: only the tags at rest matter.
LEMMA QuietStep ==
  ASSUME IInv, PhaseInv, pc # "compact",
         pc' \in {"idle", "finish", "adjust", "place"}, UNCHANGED bufVars,
         gc_active => gc_active'
  PROVE  PhaseInv'
<1>1. ListWhole' /\ (PurpleRoots => PurpleRoots') BY SameBuffer DEF PurpleRoots
<1>2. TagsOfPhase' BY <1>1 DEF PhaseInv, TagsOfPhase, RootPhase
<1> QED BY <1>1, <1>2 DEF PhaseInv

\* A collection is called for: while one runs there are no entries.
LEMMA CallPhase ==
  ASSUME IInv, PhaseInv, pc # "compact", pc' = "start", UNCHANGED <<bufVars, gc_active>>,
         num_roots = 0 \/ ~gc_active
  PROVE  PhaseInv'
<1>1. ListWhole' /\ (PurpleRoots => PurpleRoots') /\ num_roots' = num_roots
  BY SameBuffer DEF PurpleRoots
<1>2. TagsOfPhase' BY <1>1 DEF PhaseInv, TagsOfPhase, RootPhase
<1> QED BY <1>1, <1>2 DEF PhaseInv

\* The loops after gc_collect_roots.
LEMMA LoopPhase ==
  ASSUME IInv, PhaseInv, UNCHANGED <<bufVars, gc_active>>,
         NestedDone \/ DtorReturns \/ DestroySlot \/ DestroyReturns \/ DestroyDone
           \/ (DtorDone /\ pc' = "destroy")
  PROVE  PhaseInv'
<1>1. /\ pc \in {"nested", "dtor", "calling", "destroy", "freeing"}
      /\ pc' \in {"dtor", "destroy", "freeing", "free"}
  BY DEF NestedDone, DtorReturns, DestroySlot, DestroyReturns, DestroyDone, DtorDone
<1>2. /\ ListWhole' /\ InUse' = InUse /\ buf' = buf /\ info' = info
      /\ num_roots' = num_roots /\ (PurpleRoots => PurpleRoots')
  BY <1>1, SameBuffer DEF PurpleRoots
<1>c. /\ idx \in Nat /\ end \in Nat /\ (pc = "calling" => IsRoot(idx))
  BY DEF IInv, TypeOK, Control
<1>d. /\ end' = end /\ (pc' = "free" => idx' = 1)
      /\ pc = "nested" => pc' = "dtor" /\ idx' = idx
      /\ pc = "calling" => pc' = "dtor" /\ idx' = idx + 1
      /\ pc = "dtor" => idx = end
  <2>1. CASE NestedDone BY <2>1 DEF NestedDone, loopVars, phaseVars
  <2>2. CASE DtorReturns BY <2>2 DEF DtorReturns
  <2>3. CASE DestroySlot \/ DestroyReturns \/ DestroyDone
    BY <2>3 DEF DestroySlot, DestroyReturns, DestroyDone
  <2>4. CASE DtorDone /\ pc' = "destroy" BY <2>4 DEF DtorDone, ReturnToCaller, Resume
  <2> QED BY <2>1, <2>2, <2>3, <2>4
<1>3. \A i \in InUse :
         \/ IsRoot(i) /\ Purple(i)
         \/ /\ IsDtorGarbage(i) /\ Purple(i)
            /\ pc' = "dtor" /\ i \in idx' .. (end' - 1)
         \/ IsGarbage(i) /\ i < end' /\ (pc' = "free" => idx' <= i)
  <2> SUFFICES ASSUME NEW i \in InUse
               PROVE  \/ IsRoot(i) /\ Purple(i)
                      \/ /\ IsDtorGarbage(i) /\ Purple(i)
                         /\ pc' = "dtor" /\ i \in idx' .. (end' - 1)
                      \/ IsGarbage(i) /\ i < end' /\ (pc' = "free" => idx' <= i)
    OBVIOUS
  <2>1. i \in Nat /\ i >= 1 BY EntryFacts
  <2>2. \/ IsRoot(i) /\ Purple(i)
        \/ /\ IsDtorGarbage(i) /\ Purple(i)
           /\ pc \in {"nested", "dtor", "calling"} /\ i \in idx .. (end - 1)
        \/ IsGarbage(i) /\ i < end
    BY <1>1 DEF PhaseInv, TagsOfPhase
  <2>3. ~(IsDtorGarbage(i) /\ (IsRoot(i) \/ IsGarbage(i)))
    BY DEF IsRoot, IsDtorGarbage, IsGarbage
  <2>4. CASE pc = "calling"
    <3>1. IsDtorGarbage(i) => i # idx BY <1>c, <2>4 DEF IsRoot, IsDtorGarbage
    <3> QED BY <1>c, <1>d, <2>1, <2>2, <2>3, <2>4, <3>1
  <2> QED BY <1>c, <1>d, <2>1, <2>2, <2>3, <2>4
<1>4. TagsOfPhase'
  <2>1. ~gc_active' => PurpleRoots' BY <1>2 DEF PhaseInv, TagsOfPhase
  <2>2. \A i \in InUse' :
         \/ IsRoot(i)' /\ Purple(i)'
         \/ /\ IsDtorGarbage(i)' /\ Purple(i)'
            /\ pc' \in {"nested", "dtor", "calling"} /\ i \in idx' .. (end' - 1)
         \/ IsGarbage(i)' /\ i < end' /\ (pc' = "free" => idx' <= i)
    BY <1>2, <1>3 DEF IsRoot, Purple, IsDtorGarbage, IsGarbage
  <2> QED BY <1>1, <2>1, <2>2 DEF TagsOfPhase, RootPhase
<1> QED BY <1>2, <1>4 DEF PhaseInv
LEMMA AfterPhase ==
  ASSUME IInv, PhaseInv, After
  PROVE  PhaseInv'
<1>1. pc = "after" /\ pc' \in {"start", "finish"} /\ UNCHANGED <<bufVars, gc_active>>
  BY DEF After, flagVars
<1>2. ~gc_active BY <1>1 DEF PhaseInv, TagsOfPhase
<1> QED BY <1>1, <1>2, QuietStep, CallPhase

LEMMA TagBeginPhase ==
  ASSUME IInv, PhaseInv, TagBegin
  PROVE  PhaseInv'
<1>1. /\ pc = "tag" /\ pc' = "tagging" /\ idx' = 1 /\ end' = first_unused
      /\ UNCHANGED <<bufVars, gc_active>>
  BY DEF TagBegin, flagVars
<1>2. /\ ListWhole' /\ InUse' = InUse /\ buf' = buf
      /\ PurpleRoots => PurpleRoots'
  BY <1>1, SameBuffer DEF PurpleRoots
<1>3. \A i \in InUse : i \in 1 .. (first_unused - 1) /\ IsRoot(i)
  BY <1>1, EntryFacts DEF PhaseInv, TagsOfPhase, RootPhase, IInv, TypeOK
<1>4. TagsOfPhase'
  <2>1. \A i \in InUse' : IF i \in idx' .. (end' - 1) THEN IsRoot(i)' ELSE IsGarbage(i)'
    BY <1>1, <1>2, <1>3 DEF IsRoot
  <2> QED BY <1>1, <1>2, <2>1 DEF PhaseInv, TagsOfPhase, RootPhase
<1> QED BY <1>2, <1>4 DEF PhaseInv

\* gc_reset empties the buffer.
LEMMA ResetPhase ==
  ASSUME IInv, pc = "idle", pc' = "idle", ResetGlobals
  PROVE  PhaseInv'
<1>1. InUse' = {} /\ UnusedSlots' = {}
  BY DEF ResetGlobals, InUse, Top, UnusedSlots
<1>2. TagsOfPhase' BY <1>1 DEF TagsOfPhase, PurpleRoots, RootPhase
<1> QED BY <1>1, <1>2, ListEmpty DEF PhaseInv

LEMMA ProgramQuietPhase ==
  ASSUME IInv, PhaseInv,
         (\E enable \in BOOLEAN : GcEnable(enable)) \/ Reset \/ Bailout
  PROVE  PhaseInv'
<1>1. CASE Reset BY <1>1, ResetPhase DEF Reset, ctlVars
<1>2. CASE Bailout BY <1>2, QuietStep DEF Bailout, ProgramRuns
<1>3. ASSUME NEW enable \in BOOLEAN, GcEnable(enable) PROVE PhaseInv'
  <2>1. CASE buf_size = 0 /\ ResetGlobals
    <3>1. pc = "idle" /\ pc' = "idle" BY <1>3, <2>1 DEF GcEnable, ProgramRuns, ctlVars, IInv, Allocation
    <3> QED BY <2>1, <3>1, ResetPhase
  <2>2. CASE UNCHANGED <<bufVars, sizeVars, flagVars>>
    <3>1. /\ pc \in {"idle", "calling", "freeing"} /\ pc' = pc
          /\ UNCHANGED <<bufVars, gc_active, idx, end>>
      BY <1>3, <2>2 DEF GcEnable, ProgramRuns, ctlVars, flagVars, loopVars, phaseVars
    <3>2. /\ ListWhole' /\ InUse' = InUse /\ buf' = buf /\ info' = info
          /\ PurpleRoots => PurpleRoots'
      BY <3>1, SameBuffer DEF PurpleRoots
    <3>3. TagsOfPhase' BY <3>1, <3>2
      DEF PhaseInv, TagsOfPhase, RootPhase, IsRoot, IsGarbage, IsDtorGarbage, Purple
    <3> QED BY <3>2, <3>3 DEF PhaseInv
  <2> QED BY <1>3, <2>1, <2>2 DEF GcEnable
<1> QED BY <1>1, <1>2, <1>3

-----------------------------------------------------------------------------
(* Storing and unlinking.                                                  *)

\* A purple root more, while the program runs.
LEMMA StoreRootPhase ==
  ASSUME IInv, PhaseInv, pc \in {"idle", "calling", "freeing", "finish", "place"},
         pc' = pc \/ pc' \in {"idle", "finish"}, UNCHANGED <<idx, end>>,
         gc_active => gc_active',
         NEW r \in Ref, info[r].addr = 0,
         \/ StoreInUnused(r, "root", "purple")
         \/ first_unused \in Slots /\ StoreInNext(r, "root", "purple")
  PROVE  PhaseInv'
<1>1. /\ BufTypeOK /\ BufOK /\ first_unused <= MaxBufSize /\ ListWhole
      /\ pc # "compact" /\ pc' # "compact" /\ "root" \in LiveTags /\ "purple" \in Colors
  BY InvFacts DEF PhaseInv, LiveTags, Colors
<1>2. ListWhole' BY <1>1, ListStore
<1>3. /\ StoreSlot \in Slots /\ StoreSlot \notin InUse /\ InUse' = InUse \cup {StoreSlot}
      /\ \A j \in Slots : j # StoreSlot => buf'[j] = buf[j]
      /\ buf'[StoreSlot] = Live("root", r)
      /\ \A q \in Ref : q # r => info'[q] = info[q]
      /\ info'[r] = Info(Compress(StoreSlot), "purple")
  BY <1>1, StoreSlots
<1>4. /\ buf'[StoreSlot].tag = "root" /\ buf'[StoreSlot].ref = r /\ info'[r].color = "purple"
  BY <1>3 DEF Live, Info
<1>5. \A j \in InUse : buf'[j] = buf[j] /\ info'[buf[j].ref].color = info[buf[j].ref].color
  <2> SUFFICES ASSUME NEW j \in InUse
               PROVE  buf'[j] = buf[j] /\ info'[buf[j].ref].color = info[buf[j].ref].color
    OBVIOUS
  <2>1. j \in Slots /\ buf[j].ref \in Ref /\ info[buf[j].ref].addr # 0 BY EntryFacts
  <2> QED BY <1>3, <2>1
<1>6. \A j \in InUse' : \/ j \in InUse /\ buf'[j] = buf[j] /\ (Purple(j) => Purple(j)')
                        \/ IsRoot(j)' /\ Purple(j)'
  BY <1>3, <1>4, <1>5 DEF IsRoot, Purple
<1>7. TagsOfPhase'
  <2>1. ~gc_active' => PurpleRoots'
    BY <1>6 DEF PhaseInv, TagsOfPhase, PurpleRoots, IsRoot
  <2>2. pc' \in {"calling", "freeing"} => pc' = pc OBVIOUS
  <2> QED BY <1>6, <2>1, <2>2
      DEF PhaseInv, TagsOfPhase, RootPhase, IsRoot, IsGarbage, IsDtorGarbage
<1> QED BY <1>2, <1>7 DEF PhaseInv

\* What the outcomes of StoreOrGrow are.
LEMMA GrowCases ==
  ASSUME IInv, buf_size # 0, NEW r, NEW tag, NEW color, NEW dropped,
         StoreOrGrow(r, tag, color, dropped)
  PROVE  /\ gc_active => gc_active'
         /\ \/ StoreInUnused(r, tag, color)
            \/ first_unused \in Slots /\ StoreInNext(r, tag, color)
            \/ info' = dropped /\ UNCHANGED <<buf, unused, first_unused, num_roots>>
<1> USE SizesAssumption
<1>1. /\ TypeOK /\ buf_size <= MaxBufSize /\ first_unused \in 1 .. buf_size
  BY DEF IInv, Allocation, TypeOK
<1>2. CASE /\ \/ StoreInUnused(r, tag, color)
              \/ HasNextUnused /\ StoreInNext(r, tag, color)
           /\ UNCHANGED <<buf_size, flagVars>>
  BY <1>1, <1>2 DEF HasNextUnused, Slots, flagVars, TypeOK
<1>3. CASE /\ ~HasUnused /\ ~HasNextUnused /\ GrowRootBuffer
           /\ \/ first_unused # buf_size' /\ StoreInNext(r, tag, color)
              \/ /\ first_unused = buf_size' /\ info' = dropped
                 /\ UNCHANGED <<buf, unused, first_unused, num_roots>>
  <2>1. /\ buf_size' \in Nat /\ buf_size <= buf_size' /\ buf_size' <= MaxBufSize
        /\ gc_active => gc_active'
    BY <1>1, <1>3, GrowOK
  <2>2. first_unused = buf_size BY <1>3 DEF HasNextUnused
  <2>3. first_unused # buf_size' => first_unused \in Slots BY <1>1, <2>1, <2>2 DEF Slots, TypeOK
  <2> QED BY <1>3, <2>1, <2>3
<1> QED BY <1>2, <1>3 DEF StoreOrGrow

LEMMA PossibleRootPhase ==
  ASSUME IInv, PhaseInv, NEW r \in Ref, PossibleRoot(r)
  PROVE  PhaseInv'
<1>1. /\ pc \in {"idle", "calling", "freeing", "finish"} /\ info[r].addr = 0
      /\ buf_size # 0 /\ first_unused \in 1 .. buf_size /\ buf_size <= MaxBufSize
      /\ gc_threshold <= buf_size /\ TypeOK
  BY DEF IInv, Allocation, PossibleRoot, ProgramRuns, NoInfo, Info
<1>2. CASE /\ \/ StoreInUnused(r, "root", "purple")
              \/ HasNextUnusedUnderThreshold /\ StoreInNext(r, "root", "purple")
           /\ UNCHANGED <<sizeVars, flagVars, loopVars, ctlVars>>
  <2>1. \/ StoreInUnused(r, "root", "purple")
        \/ first_unused \in Slots /\ StoreInNext(r, "root", "purple")
    BY <1>1, <1>2, SizesAssumption DEF HasNextUnusedUnderThreshold, Slots, TypeOK
  <2>2. pc' = pc /\ gc_active' = gc_active /\ UNCHANGED <<idx, end>>
    BY <1>2 DEF ctlVars, flagVars, loopVars, phaseVars
  <2> QED BY <1>1, <2>1, <2>2, StoreRootPhase
<1>3. CASE gc_enabled /\ ~gc_active /\ Call(r)
  BY <1>1, <1>3, CallPhase DEF Call, flagVars
<1>4. CASE StoreOrGrow(r, "root", "purple", info) /\ UNCHANGED <<gc_threshold, loopVars, ctlVars>>
  <2>1. pc' = pc /\ UNCHANGED <<idx, end>> BY <1>4 DEF ctlVars, loopVars, phaseVars
  <2>2. /\ gc_active => gc_active'
        /\ \/ StoreInUnused(r, "root", "purple")
           \/ first_unused \in Slots /\ StoreInNext(r, "root", "purple")
           \/ UNCHANGED <<buf, info, unused, first_unused, num_roots>>
    BY <1>1, <1>4, GrowCases
  <2>3. CASE UNCHANGED <<buf, info, unused, first_unused, num_roots>>
    <3>1. /\ ListWhole' /\ InUse' = InUse
          /\ PurpleRoots => PurpleRoots'
      BY <1>1, <2>1, <2>3, SameBuffer DEF PurpleRoots, bufVars
    <3>2. TagsOfPhase' BY <1>1, <2>1, <2>2, <2>3, <3>1
      DEF PhaseInv, TagsOfPhase, RootPhase, IsRoot, IsGarbage, IsDtorGarbage, Purple
    <3> QED BY <3>1, <3>2 DEF PhaseInv
  <2> QED BY <1>1, <2>1, <2>2, <2>3, StoreRootPhase
<1> QED BY <1>2, <1>3, <1>4 DEF PossibleRoot

LEMMA PlaceHeldPhase ==
  ASSUME IInv, PhaseInv, PlaceHeld
  PROVE  PhaseInv'
<1>1. /\ pc = "place" /\ pc' \in {"idle", "finish"} /\ Caller \in Ref
      /\ info[Caller].addr = 0 /\ UNCHANGED <<idx, end>>
      /\ buf_size # 0
  BY DEF PlaceHeld, IInv, Control, Allocation, Resume, NoInfo, Info, loopVars, phaseVars
<1>2. /\ gc_active => gc_active'
      /\ \/ StoreInUnused(Caller, "root", "purple")
         \/ first_unused \in Slots /\ StoreInNext(Caller, "root", "purple")
         \/ UNCHANGED <<buf, info, unused, first_unused, num_roots>>
  BY <1>1, GrowCases DEF PlaceHeld
<1>3. CASE UNCHANGED <<buf, info, unused, first_unused, num_roots>>
  BY <1>1, <1>2, <1>3, QuietStep DEF bufVars
<1> QED BY <1>1, <1>2, <1>3, StoreRootPhase

\* gc_add_garbage appends: after a compaction there is no free slot between
\* the roots still to be condemned.
LEMMA AddGarbagePhase ==
  ASSUME IInv, PhaseInv, NEW r \in Ref, AddGarbage(r)
  PROVE  PhaseInv'
<1>1. /\ pc = "collect" /\ pc' = pc /\ info[r].addr = 0 /\ UNCHANGED <<idx, end>>
      /\ buf_size # 0 /\ gc_active /\ num_roots + 1 = first_unused /\ end <= first_unused
      /\ idx \in 1 .. end /\ end \in Nat /\ first_unused \in Nat
  BY DEF AddGarbage, IInv, Control, InRun, Allocation, Info, loopVars, phaseVars, ctlVars, TypeOK
<1>2. /\ gc_active'
      /\ \/ StoreInUnused(r, "garbage", "black")
         \/ first_unused \in Slots /\ StoreInNext(r, "garbage", "black")
         \/ UNCHANGED <<buf, unused, first_unused, num_roots>>
  BY <1>1, GrowCases DEF AddGarbage
<1>3. /\ BufTypeOK /\ BufOK /\ first_unused <= MaxBufSize /\ ListWhole
      /\ "garbage" \in LiveTags /\ "black" \in Colors
  BY InvFacts DEF PhaseInv, LiveTags, Colors
<1>4. InUse = 1 .. (first_unused - 1) BY <1>1, FullAfterCompact
<1>5. CASE \/ StoreInUnused(r, "garbage", "black")
           \/ first_unused \in Slots /\ StoreInNext(r, "garbage", "black")
  <2>1. ListWhole' BY <1>1, <1>3, <1>5, ListStore
  <2>2. /\ StoreSlot \in Slots /\ StoreSlot \notin InUse /\ InUse' = InUse \cup {StoreSlot}
        /\ \A j \in Slots : j # StoreSlot => buf'[j] = buf[j]
        /\ buf'[StoreSlot] = Live("garbage", r)
    BY <1>1, <1>3, <1>5, StoreSlots
  <2>3. StoreSlot \notin idx .. (end - 1) BY <1>1, <1>4, <2>2
  <2>4. \A j \in InUse : j \in Slots /\ buf'[j] = buf[j] BY <2>2, EntryFacts
  <2>5. buf'[StoreSlot].tag = "garbage" BY <2>2 DEF Live
  <2>6. TagsOfPhase' BY <1>1, <1>2, <2>2, <2>3, <2>4, <2>5
    DEF PhaseInv, TagsOfPhase, RootPhase, IsRoot, IsGarbage
  <2> QED BY <2>1, <2>6 DEF PhaseInv
<1>6. CASE UNCHANGED <<buf, unused, first_unused, num_roots>>
  <2>1. Top' = Top BY <1>1, <1>6 DEF Top
  <2>2. InUse' = InUse /\ UnusedSlots' = UnusedSlots
    BY <1>6, <2>1 DEF InUse, IsLive, UnusedSlots, IsUnused
  <2>3. ListWhole' BY <1>1, <1>3, <1>6, <2>2, ListKeep
  <2>4. TagsOfPhase' BY <1>1, <1>2, <1>6, <2>2 DEF PhaseInv, TagsOfPhase, RootPhase, IsRoot, IsGarbage
  <2> QED BY <2>3, <2>4 DEF PhaseInv
<1> QED BY <1>2, <1>5, <1>6
\* One entry less: every entry left is an entry that was there.
LEMMA UnlinkPhase ==
  ASSUME IInv, PhaseInv, pc # "compact", pc' # "compact", gc_active' = gc_active,
         NEW i \in InUse, NEW r \in Ref, buf[i].ref = r, Unlink(i, r)
  PROVE  /\ ListWhole' /\ InUse' = InUse \ {i}
         /\ \A j \in InUse' : /\ buf'[j] = buf[j]
                              /\ Purple(j)' <=> Purple(j)
         /\ PurpleRoots => PurpleRoots'
<1>1. /\ BufTypeOK /\ BufOK /\ first_unused <= MaxBufSize /\ ListWhole
  BY InvFacts DEF PhaseInv
<1>2. ListWhole' BY <1>1, ListUnlink
<1>3. InUse' = InUse \ {i} BY <1>1, UnlinkOK
<1>4. i \in Slots BY EntryFacts
<1>5. /\ \A j \in Slots : j # i => buf'[j] = buf[j]
      /\ \A q \in Ref : q # r => info'[q] = info[q]
  BY <1>1, <1>4, UnlinkKeeps
<1>6. ASSUME NEW j \in InUse'
      PROVE  buf'[j] = buf[j] /\ info'[buf'[j].ref] = info[buf[j].ref]
  <2>1. j \in InUse /\ j # i BY <1>3
  <2>2. j \in Slots /\ buf[j].ref \in Ref BY <2>1, EntryFacts
  <2>3. buf[j].ref # r
    <3>1. BufOK BY <1>1
    <3> QED BY <2>1, <3>1 DEF BufOK, AddressesMatchSlots
  <2> QED BY <1>5, <2>1, <2>2, <2>3
<1> QED BY <1>2, <1>3, <1>6 DEF Purple, PurpleRoots, IsRoot

\* A value the program frees, or a destructor may reach, that has any header
\* bits has a slot: GC_REMOVE_FROM_BUFFER's test is enough.
LEMMA RemovedHasSlot ==
  ASSUME IInv, NEW r \in Ref, RemoveFromBuffer(r) \/ RemoveNested(r)
  PROVE  info[r].addr # 0
<1>1. CASE RemoveNested(r) BY <1>1 DEF RemoveNested
<1>2. CASE RemoveFromBuffer(r)
  <2>1. pc \in {"idle", "calling", "freeing"} /\ info[r] # NoInfo
    BY <1>2 DEF RemoveFromBuffer, ProgramRuns
  <2>2. info[r].addr = 0 => info[r].color = "black"
    BY <2>1 DEF IInv, WhitesReachable, Whitening
  <2>3. info[r].addr = 0 /\ info[r].color = "black" => info[r] = NoInfo
    BY InvFacts DEF BufTypeOK, NoInfo, Info
  <2> QED BY <2>1, <2>2, <2>3
<1> QED BY <1>1, <1>2

LEMMA RemovePhase ==
  ASSUME IInv, PhaseInv, NEW r \in Ref, RemoveFromBuffer(r) \/ RemoveNested(r)
  PROVE  PhaseInv'
<1>1. /\ pc \in {"idle", "calling", "freeing", "nested"} /\ Unlink(SlotOf(r), r)
      /\ UNCHANGED <<sizeVars, gc_enabled, flagVars, loopVars, ctlVars>>
  BY DEF RemoveFromBuffer, RemoveNested, ProgramRuns
<1>2. info[r].addr # 0 BY RemovedHasSlot
<1>3. SlotOf(r) \in InUse /\ buf[SlotOf(r)].ref = r
  <2>1. pc # "compact" BY <1>1
  <2> QED BY <1>2, <2>1, InvFacts, SlotOfOK
<1>4. pc' = pc /\ gc_active' = gc_active /\ UNCHANGED <<idx, end>>
  BY <1>1 DEF flagVars, ctlVars, loopVars, phaseVars
<1>5. /\ ListWhole' /\ InUse' = InUse \ {SlotOf(r)}
      /\ \A j \in InUse' : buf'[j] = buf[j] /\ (Purple(j)' <=> Purple(j))
      /\ PurpleRoots => PurpleRoots'
  <2> DEFINE i == SlotOf(r)
  <2>1. i \in InUse /\ buf[i].ref = r /\ Unlink(i, r) BY <1>1, <1>3
  <2>2. pc # "compact" /\ pc' # "compact" BY <1>1, <1>4
  <2> HIDE DEF i
  <2>3. /\ ListWhole' /\ InUse' = InUse \ {i}
        /\ \A j \in InUse' : buf'[j] = buf[j] /\ (Purple(j)' <=> Purple(j))
        /\ PurpleRoots => PurpleRoots'
    BY <1>4, <2>1, <2>2, UnlinkPhase
  <2> QED BY <2>3 DEF i
<1>6. TagsOfPhase'
  <2>1. \A j \in InUse' : j \in InUse BY <1>5
  <2> QED BY <1>1, <1>4, <1>5, <2>1
      DEF PhaseInv, TagsOfPhase, RootPhase, IsRoot, IsGarbage, IsDtorGarbage
<1> QED BY <1>5, <1>6 DEF PhaseInv

\* The two loops over the slots that unlink as they go.
LEMMA SlotLoopPhase ==
  ASSUME IInv, PhaseInv, UnrootSlot \/ FreeSlot
  PROVE  PhaseInv'
<1>1. /\ pc \in {"unroot", "free"} /\ pc' = pc /\ gc_active' = gc_active /\ idx # end
      /\ idx' = idx + 1 /\ end' = end
      /\ \/ UNCHANGED bufVars
         \/ Unlink(idx, buf[idx].ref) /\ (IsRoot(idx) \/ IsGarbage(idx))
      /\ pc = "free" /\ IsGarbage(idx) => Unlink(idx, buf[idx].ref)
  BY DEF UnrootSlot, FreeSlot, ctlVars, flagVars, bufVars
<1>2. /\ idx \in Nat /\ end \in Nat /\ idx \in 1 .. (first_unused - 1)
      /\ gc_active
  BY <1>1 DEF IInv, TypeOK, Control, InRun
<1>3. /\ ListWhole' /\ \A j \in InUse' : j \in InUse /\ buf'[j] = buf[j] /\ (Purple(j)' <=> Purple(j))
      /\ pc = "free" /\ IsGarbage(idx) => idx \notin InUse'
  <2>1. CASE Unlink(idx, buf[idx].ref) /\ (IsRoot(idx) \/ IsGarbage(idx))
    <3>1. idx \in InUse
      BY <1>1, <1>2, <2>1 DEF InUse, Top, IsRoot, IsGarbage, IsLive, LiveTags
    <3>2. buf[idx].ref \in Ref BY <3>1, EntryFacts
    <3>3. pc # "compact" /\ pc' # "compact" BY <1>1
    <3> QED BY <1>1, <2>1, <3>1, <3>2, <3>3, UnlinkPhase
  <2>2. CASE UNCHANGED bufVars /\ ~(pc = "free" /\ IsGarbage(idx))
    BY <1>1, <2>2, SameBuffer DEF Purple
  <2>3. CASE pc = "free" /\ IsGarbage(idx) BY <1>1, <2>1, <2>3
  <2> QED BY <1>1, <2>1, <2>2, <2>3
<1>4. TagsOfPhase'
  <2>1. CASE pc = "unroot"
    BY <1>1, <1>2, <1>3, <2>1 DEF PhaseInv, TagsOfPhase, RootPhase, IsRoot
  <2>2. CASE pc = "free"
    <3>1. \A j \in InUse' : \/ IsRoot(j)' /\ Purple(j)'
                            \/ IsGarbage(j)' /\ j < end' /\ idx' <= j
      <4> SUFFICES ASSUME NEW j \in InUse'
                   PROVE  \/ IsRoot(j)' /\ Purple(j)'
                          \/ IsGarbage(j)' /\ j < end' /\ idx' <= j
        OBVIOUS
      <4>1. j \in InUse /\ buf'[j] = buf[j] /\ (Purple(j)' <=> Purple(j)) BY <1>3
      <4>2. \/ IsRoot(j) /\ Purple(j)
            \/ IsGarbage(j) /\ j < end /\ idx <= j
        BY <2>2, <4>1 DEF PhaseInv, TagsOfPhase
      <4>3. IsGarbage(j) => j # idx BY <1>3, <2>2
      <4>4. j \in Nat BY <4>1, EntryFacts
      <4>5. (IsRoot(j)' <=> IsRoot(j)) /\ (IsGarbage(j)' <=> IsGarbage(j))
        BY <4>1 DEF IsRoot, IsGarbage
      <4> QED BY <1>1, <1>2, <4>1, <4>2, <4>3, <4>4, <4>5
    <3> QED BY <1>1, <1>2, <2>2, <3>1 DEF TagsOfPhase, RootPhase
  <2> QED BY <1>1, <2>1, <2>2
<1> QED BY <1>3, <1>4 DEF PhaseInv

-----------------------------------------------------------------------------
(* Tags and colours.                                                       *)

LEMMA TracePhase ==
  ASSUME IInv, PhaseInv, Trace
  PROVE  PhaseInv'
<1>1. /\ pc = "trace" /\ pc' = "unroot" /\ gc_active /\ gc_active'
      /\ UNCHANGED <<buf, unused, first_unused>>
  BY DEF Trace, flagVars, IInv, Control, InRun
<1>2. Top' = Top BY <1>1 DEF Top
<1>3. InUse' = InUse /\ UnusedSlots' = UnusedSlots
  BY <1>1, <1>2 DEF InUse, IsLive, UnusedSlots, IsUnused
<1>4. ListWhole' BY <1>1, <1>3, InvFacts, ListKeep DEF PhaseInv
<1>5. TagsOfPhase' BY <1>1, <1>3 DEF PhaseInv, TagsOfPhase, RootPhase, IsRoot
<1> QED BY <1>4, <1>5 DEF PhaseInv

LEMMA CollectWhiteDonePhase ==
  ASSUME IInv, PhaseInv, CollectWhiteDone
  PROVE  PhaseInv'
<1>1. /\ pc = "collect" /\ pc' = "tagging" /\ gc_active /\ gc_active'
      /\ UNCHANGED <<buf, unused, first_unused, idx, end>>
  BY DEF CollectWhiteDone, flagVars, loopVars, phaseVars, IInv, Control, InRun
<1>2. Top' = Top BY <1>1 DEF Top
<1>3. InUse' = InUse /\ UnusedSlots' = UnusedSlots
  BY <1>1, <1>2 DEF InUse, IsLive, UnusedSlots, IsUnused
<1>4. ListWhole' BY <1>1, <1>3, InvFacts, ListKeep DEF PhaseInv
<1>5. TagsOfPhase' BY <1>1, <1>3 DEF PhaseInv, TagsOfPhase, RootPhase, IsRoot, IsGarbage
<1> QED BY <1>4, <1>5 DEF PhaseInv

\* Only the tag of entries in use changes.
LEMMA RetagList ==
  ASSUME IInv, PhaseInv, pc # "compact", pc' # "compact", UNCHANGED <<unused, first_unused>>,
         NEW D \in SUBSET InUse,
         \A i \in Slots \ D : buf'[i] = buf[i],
         \A i \in D : buf'[i].tag \in LiveTags
  PROVE  ListWhole' /\ InUse' = InUse
<1>1. BufTypeOK /\ BufOK /\ first_unused <= MaxBufSize /\ ListWhole BY InvFacts DEF PhaseInv
<1>2. Top' = Top /\ Top = first_unused - 1 /\ \A i \in 1 .. Top : i \in Slots
  BY <1>1, SizesAssumption DEF Top, Slots, BufTypeOK
<1>3. \A i \in D : IsLive(i) BY DEF InUse
<1>4. InUse' = InUse BY <1>2, <1>3 DEF InUse, IsLive
<1>5. UnusedSlots' = UnusedSlots /\ \A i \in UnusedSlots : buf'[i] = buf[i]
  <2>1. \A i \in D : ~IsUnused(i) /\ ~IsUnused(i)' BY <1>3 DEF IsLive, IsUnused, LiveTags
  <2>2. \A i \in UnusedSlots : i \in Slots \ D BY <1>2, <2>1 DEF UnusedSlots
  <2> QED BY <1>2, <2>1, <2>2 DEF UnusedSlots, IsUnused
<1>6. ListWhole' BY <1>1, <1>5, ListKeep
<1> QED BY <1>4, <1>6

LEMMA TagSlotPhase ==
  ASSUME IInv, PhaseInv, TagSlot
  PROVE  PhaseInv'
<1>1. /\ pc = "tagging" /\ pc' \in {"tagging", "collect"} /\ gc_active /\ gc_active'
      /\ idx # end /\ idx' = idx + 1 /\ end' = end
      /\ UNCHANGED <<unused, first_unused>>
      /\ buf' = [buf EXCEPT ![idx].tag = "garbage"]
  BY DEF TagSlot, flagVars, IInv, Control, InRun
<1>2. /\ idx \in Nat /\ end \in Nat /\ idx \in 1 .. (first_unused - 1) /\ idx \in 1 .. (end - 1)
      /\ num_roots + 1 = first_unused /\ buf \in [Slots -> Entry]
  BY <1>1 DEF IInv, Control, TypeOK
<1>3. idx \in InUse BY <1>1, <1>2, FullAfterCompact
<1>4. idx \in Slots BY <1>3, EntryFacts
<1>5. /\ buf'[idx].tag = "garbage"
      /\ \A i \in Slots : i # idx => buf'[i] = buf[i]
  BY <1>1, <1>2, <1>4 DEF Entry
<1>6. ListWhole' /\ InUse' = InUse
  <2>1. {idx} \in SUBSET InUse BY <1>3
  <2>2. pc # "compact" /\ pc' # "compact" BY <1>1
  <2>3. \A i \in {idx} : buf'[i].tag \in LiveTags BY <1>5 DEF LiveTags
  <2>4. \A i \in Slots \ {idx} : buf'[i] = buf[i] BY <1>5
  <2> QED BY <1>1, <2>1, <2>2, <2>3, <2>4, RetagList
<1>7. \A i \in InUse : IF i \in (idx + 1) .. (end - 1) THEN IsRoot(i)' ELSE IsGarbage(i)'
  <2> SUFFICES ASSUME NEW i \in InUse
               PROVE  IF i \in (idx + 1) .. (end - 1) THEN IsRoot(i)' ELSE IsGarbage(i)'
    OBVIOUS
  <2>1. i \in Nat /\ i \in Slots BY EntryFacts
  <2>2. IF i \in idx .. (end - 1) THEN IsRoot(i) ELSE IsGarbage(i)
    BY <1>1 DEF PhaseInv, TagsOfPhase
  <2>3. CASE i = idx BY <1>2, <1>5, <2>3 DEF IsGarbage
  <2>4. CASE i # idx BY <1>2, <1>5, <2>1, <2>2, <2>4 DEF IsGarbage, IsRoot
  <2> QED BY <2>3, <2>4
<1>8. TagsOfPhase' BY <1>1, <1>6, <1>7 DEF TagsOfPhase, RootPhase
<1> QED BY <1>6, <1>8 DEF PhaseInv

LEMMA DtorSlotPhase ==
  ASSUME IInv, PhaseInv, DtorSlot
  PROVE  PhaseInv'
<1>1. /\ pc = "dtor" /\ pc' \in {"dtor", "calling"} /\ gc_active /\ gc_active'
      /\ idx # end /\ end' = end /\ info' = info
      /\ UNCHANGED <<unused, first_unused>>
      /\ IF IsDtorGarbage(idx)
         THEN /\ buf' = [buf EXCEPT ![idx].tag = "root"]
              /\ \/ pc' = "calling" /\ idx' = idx
                 \/ idx' = idx + 1
         ELSE idx' = idx + 1 /\ buf' = buf /\ pc' = "dtor"
  BY DEF DtorSlot, flagVars, IInv, Control, InRun
<1>2. /\ idx \in Nat /\ end \in Nat /\ idx \in 1 .. (first_unused - 1)
      /\ buf \in [Slots -> Entry]
  BY <1>1 DEF IInv, Control, TypeOK
<1>3. CASE IsDtorGarbage(idx)
  <2>1. idx \in InUse BY <1>1, <1>2, <1>3 DEF InUse, Top, IsLive, IsDtorGarbage, LiveTags
  <2>2. idx \in Slots BY <2>1, EntryFacts
  <2>3. /\ buf'[idx].tag = "root" /\ buf'[idx].ref = buf[idx].ref
        /\ \A i \in Slots : i # idx => buf'[i] = buf[i]
    BY <1>1, <1>2, <1>3, <2>2 DEF Entry
  <2>4. ListWhole' /\ InUse' = InUse
    <3>1. {idx} \in SUBSET InUse BY <2>1
    <3>2. pc # "compact" /\ pc' # "compact" BY <1>1
    <3>3. \A i \in {idx} : buf'[i].tag \in LiveTags BY <2>3 DEF LiveTags
    <3>4. \A i \in Slots \ {idx} : buf'[i] = buf[i] BY <2>3
    <3> QED BY <1>1, <3>1, <3>2, <3>3, <3>4, RetagList
  <2>5. \A i \in InUse : \/ IsRoot(i)' /\ Purple(i)'
                         \/ IsDtorGarbage(i)' /\ Purple(i)' /\ i \in (idx + 1) .. (end - 1)
                         \/ IsGarbage(i)' /\ i < end
    <3> SUFFICES ASSUME NEW i \in InUse
                 PROVE  \/ IsRoot(i)' /\ Purple(i)'
                        \/ IsDtorGarbage(i)' /\ Purple(i)' /\ i \in (idx + 1) .. (end - 1)
                        \/ IsGarbage(i)' /\ i < end
      OBVIOUS
    <3>1. i \in Nat /\ i \in Slots BY EntryFacts
    <3>2. \/ IsRoot(i) /\ Purple(i)
          \/ IsDtorGarbage(i) /\ Purple(i) /\ i \in idx .. (end - 1)
          \/ IsGarbage(i) /\ i < end
      BY <1>1 DEF PhaseInv, TagsOfPhase
    <3>3. CASE i = idx
      BY <1>1, <1>3, <2>3, <3>2, <3>3 DEF IsRoot, IsDtorGarbage, IsGarbage, Purple
    <3>4. CASE i # idx
      BY <1>1, <1>2, <2>3, <3>1, <3>2, <3>4 DEF IsRoot, IsDtorGarbage, IsGarbage, Purple
    <3> QED BY <3>3, <3>4
  <2>6. (idx + 1) .. (end - 1) \subseteq idx' .. (end' - 1) BY <1>1, <1>2, <1>3
  <2>7. TagsOfPhase' BY <1>1, <2>4, <2>5, <2>6 DEF TagsOfPhase, RootPhase
  <2> QED BY <2>4, <2>7 DEF PhaseInv
<1>4. CASE ~IsDtorGarbage(idx)
  <2>1. Top' = Top /\ buf' = buf BY <1>1, <1>4 DEF Top
  <2>2. InUse' = InUse /\ UnusedSlots' = UnusedSlots
    BY <1>1, <2>1 DEF InUse, IsLive, UnusedSlots, IsUnused
  <2>3. ListWhole' BY <1>1, <2>1, <2>2, InvFacts, ListKeep DEF PhaseInv
  <2>4. \A i \in InUse : \/ IsRoot(i)' /\ Purple(i)'
                         \/ IsDtorGarbage(i)' /\ Purple(i)' /\ i \in (idx + 1) .. (end - 1)
                         \/ IsGarbage(i)' /\ i < end
    <3> SUFFICES ASSUME NEW i \in InUse
                 PROVE  \/ IsRoot(i)' /\ Purple(i)'
                        \/ IsDtorGarbage(i)' /\ Purple(i)' /\ i \in (idx + 1) .. (end - 1)
                        \/ IsGarbage(i)' /\ i < end
      OBVIOUS
    <3>1. i \in Nat BY EntryFacts
    <3>2. \/ IsRoot(i) /\ Purple(i)
          \/ IsDtorGarbage(i) /\ Purple(i) /\ i \in idx .. (end - 1)
          \/ IsGarbage(i) /\ i < end
      BY <1>1 DEF PhaseInv, TagsOfPhase
    <3>3. IsDtorGarbage(i) => i # idx BY <1>4
    <3> QED BY <1>1, <1>2, <2>1, <3>1, <3>2, <3>3 DEF IsRoot, IsDtorGarbage, IsGarbage, Purple
  <2>5. TagsOfPhase' BY <1>1, <1>4, <2>2, <2>4 DEF TagsOfPhase, RootPhase
  <2> QED BY <2>3, <2>5 DEF PhaseInv
<1> QED BY <1>3, <1>4
\* All are garbage; those with a destructor are set apart.
LEMMA CollectedPhase ==
  ASSUME IInv, PhaseInv, Collected
  PROVE  PhaseInv'
<1>1. /\ pc = "tagging" /\ idx = end /\ idx' = 1 /\ end' = first_unused /\ gc_active
      /\ UNCHANGED <<unused, first_unused>>
  BY DEF Collected, IInv, Control, InRun
<1>2. BufTypeOK /\ BufOK /\ ListWhole /\ idx \in Nat /\ end \in Nat /\ first_unused \in Nat
  BY InvFacts DEF PhaseInv, IInv, TypeOK
<1>3. \A i \in InUse : IsGarbage(i) /\ i \in Nat /\ i \in Slots /\ i >= 1 /\ i < first_unused
  BY <1>1, <1>2, EntryFacts DEF PhaseInv, TagsOfPhase
<1>4. CASE num_roots = 0 /\ pc' = "finish" /\ UNCHANGED <<buf, info>>
  <2>1. Top' = Top BY <1>1, <1>4 DEF Top
  <2>2. InUse' = InUse /\ UnusedSlots' = UnusedSlots
    BY <1>1, <1>4, <2>1 DEF InUse, IsLive, UnusedSlots, IsUnused
  <2>3. InUse = {} BY <1>4, EntryFacts
  <2>4. ListWhole' BY <1>1, <1>2, <1>4, <2>2, ListKeep
  <2>5. TagsOfPhase' BY <1>4, <2>2, <2>3 DEF TagsOfPhase, RootPhase, PurpleRoots
  <2> QED BY <2>4, <2>5 DEF PhaseInv
<1>5. CASE \E D \in SUBSET {i \in 1 .. (first_unused - 1) : IsGarbage(i)},
               has_destructors \in BOOLEAN :
              /\ D # {} => has_destructors
              /\ has_destructors => D # {} \/ gc_full
              /\ buf' = [i \in Slots |-> IF i \in D THEN [buf[i] EXCEPT !.tag = "dtor"] ELSE buf[i]]
              /\ info' = SetColor({buf[i].ref : i \in D}, "purple")
              /\ should_rerun' = (should_rerun \/ has_destructors)
              /\ pc' = IF has_destructors THEN "nested" ELSE "destroy"
              /\ UNCHANGED gc_active
  <2>1. PICK D \in SUBSET {i \in 1 .. (first_unused - 1) : IsGarbage(i)},
               has_destructors \in BOOLEAN :
              /\ D # {} => has_destructors
              /\ buf' = [i \in Slots |-> IF i \in D THEN [buf[i] EXCEPT !.tag = "dtor"] ELSE buf[i]]
              /\ info' = SetColor({buf[i].ref : i \in D}, "purple")
              /\ pc' = IF has_destructors THEN "nested" ELSE "destroy"
              /\ gc_active' = gc_active
    BY <1>5
  <2>2. \A i \in D : i \in InUse BY <1>1, <2>1 DEF InUse, Top, IsLive, IsGarbage, LiveTags
  <2>3. \A i \in D : i \in Slots /\ buf[i].ref \in Ref BY <2>2, EntryFacts
  <2>4. /\ \A i \in D : buf'[i].tag = "dtor" /\ buf'[i].ref = buf[i].ref
        /\ \A i \in Slots \ D : buf'[i] = buf[i]
        /\ \A i \in D : info'[buf[i].ref].color = "purple"
    BY <1>2, <2>1, <2>3 DEF BufTypeOK, Entry, SetColor
  <2>5. ListWhole' /\ InUse' = InUse
    <3>1. D \in SUBSET InUse BY <2>2
    <3>2. pc # "compact" /\ pc' # "compact" BY <1>1, <2>1
    <3>3. \A i \in D : buf'[i].tag \in LiveTags BY <2>4 DEF LiveTags
    <3> QED BY <1>1, <2>4, <3>1, <3>2, <3>3, RetagList
  <2>6. \A i \in InUse : \/ D # {} /\ IsDtorGarbage(i)' /\ Purple(i)' /\ i \in 1 .. (first_unused - 1)
                         \/ IsGarbage(i)' /\ i < first_unused
    BY <1>2, <1>3, <2>4 DEF IsDtorGarbage, IsGarbage, Purple
  <2>7. TagsOfPhase'
    <3>1. pc' \in {"nested", "destroy"} /\ (D # {} => pc' = "nested") /\ gc_active' BY <1>1, <2>1
    <3> QED BY <1>1, <2>5, <2>6, <3>1 DEF TagsOfPhase, RootPhase
  <2> QED BY <2>5, <2>7 DEF PhaseInv
<1> QED BY <1>1, <1>4, <1>5 DEF Collected

-----------------------------------------------------------------------------
(* gc_compact.                                                             *)

\* FullAfterCompact in the state after a step.
LEMMA FullNext ==
  (IInv /\ pc # "compact" /\ num_roots + 1 = first_unused)' => UnusedSlots' = {}
<1>1. (IInv /\ pc # "compact" /\ num_roots + 1 = first_unused => UnusedSlots = {})'
  <2>1. IInv /\ pc # "compact" /\ num_roots + 1 = first_unused => UnusedSlots = {}
    BY FullAfterCompact
  <2> QED BY <2>1, PTL
<1> QED BY <1>1

\* A step of the compaction keeps the entries, with their colours; the list
\* is empty when it is done.
LEMMA CompactPhase ==
  ASSUME IInv, IInv', PhaseInv,
         \A i \in InUse' : \E j \in InUse : buf'[i] = buf[j],
         \A q \in Ref : info'[q].color = info[q].color,
         pc' = "compact" \/ num_roots' + 1 = first_unused',
         (PurpleRoots => PurpleRoots') => TagsOfPhase'
  PROVE  PhaseInv'
<1>1. ListWhole' BY FullNext, ListEmpty DEF ListWhole
<1>2. PurpleRoots => PurpleRoots'
  <2> SUFFICES ASSUME PurpleRoots, NEW i \in InUse' PROVE IsRoot(i)' /\ Purple(i)'
    BY DEF PurpleRoots
  <2>1. PICK j \in InUse : buf'[i] = buf[j] OBVIOUS
  <2>2. buf[j].ref \in Ref BY EntryFacts
  <2> QED BY <2>1, <2>2 DEF PurpleRoots, IsRoot, Purple
<1> QED BY <1>1, <1>2 DEF PhaseInv

LEMMA CompactMovePhase ==
  ASSUME IInv, IInv', PhaseInv, CompactMove
  PROVE  PhaseInv'
<1>1. /\ \A i \in InUse' : \E j \in InUse : buf'[i] = buf[j]
      /\ \A q \in Ref : info'[q].color = info[q].color
      /\ pc' # "compact" => num_roots' + 1 = first_unused'
  BY InvFacts, CompactMoveOK DEF IInv, TypeOK
<1>2. /\ pc = "compact" /\ gc_active' = gc_active /\ ret \in {"trace", "tag", "after"}
      /\ pc' = ret \/ (pc' = "compact" /\ ret' = ret)
  BY DEF CompactMove, LeaveCompact, flagVars, IInv, Fingers
<1>3. (PurpleRoots => PurpleRoots') => TagsOfPhase'
  BY <1>1, <1>2 DEF PhaseInv, TagsOfPhase, RootPhase, IsRoot
<1> QED BY <1>1, <1>3, CompactPhase

LEMMA CompactStopPhase ==
  ASSUME IInv, IInv', PhaseInv, CompactCross \/ CompactFinish
  PROVE  PhaseInv'
<1>1. buf' = buf /\ info' = info BY DEF CompactCross, CompactFinish, bufVars
<1>2. InUse' = InUse BY InvFacts, CompactCrossOK, CompactFinishOK DEF IInv, TypeOK
<1>3. pc' = "compact" \/ num_roots' + 1 = first_unused'
  <2>1. CASE CompactCross BY <2>1 DEF CompactCross, ctlVars
  <2>2. CASE CompactFinish BY <2>2, InvFacts, CompactFinishOK DEF IInv, TypeOK
  <2> QED BY <2>1, <2>2
<1>4. /\ pc = "compact" /\ gc_active' = gc_active /\ ret \in {"trace", "tag", "after"}
      /\ pc' = ret \/ (pc' = "compact" /\ ret' = ret)
  BY DEF CompactCross, CompactFinish, LeaveCompact, flagVars, ctlVars, IInv, Fingers
<1>5. (PurpleRoots => PurpleRoots') => TagsOfPhase'
  BY <1>1, <1>2, <1>4 DEF PhaseInv, TagsOfPhase, RootPhase, IsRoot
<1> QED BY <1>1, <1>2, <1>3, <1>5, CompactPhase

\* What the three entries have in common.
LEMMA EnterEntries ==
  ASSUME IInv, pc # "compact", NEW next \in {"trace", "tag", "after", "finish"},
         next = "finish" => num_roots = 0,
         buf' = buf, info' = info, num_roots' = num_roots, EnterCompact(next)
  PROVE  /\ InUse' = InUse
         /\ \/ pc' = next /\ num_roots' + 1 = first_unused'
            \/ pc' = "compact" /\ ret' = next
<1>1. BufTypeOK /\ BufOK /\ first_unused <= MaxBufSize /\ (num_roots # 0 => first_unused # 0)
  BY InvFacts
<1> QED BY <1>1, EnterCompactOK

LEMMA StartPhase ==
  ASSUME IInv, IInv', PhaseInv, Start
  PROVE  PhaseInv'
<1>1. /\ pc = "start" /\ buf' = buf /\ info' = info /\ num_roots' = num_roots
      /\ gc_active' = (num_roots # 0 \/ gc_active)
      /\ num_roots = 0 \/ ~gc_active
  BY DEF Start, PhaseInv, TagsOfPhase
<1>2. CASE num_roots # 0
  <2>1. EnterCompact("trace") BY <1>2 DEF Start
  <2>2. /\ InUse' = InUse
        /\ \/ pc' = "trace" /\ num_roots' + 1 = first_unused'
           \/ pc' = "compact" /\ ret' = "trace"
    BY <1>1, <1>2, <2>1, EnterEntries
  <2>3. (PurpleRoots => PurpleRoots') => TagsOfPhase'
    BY <1>1, <1>2, <2>2 DEF PhaseInv, TagsOfPhase, RootPhase, IsRoot, PurpleRoots
  <2> QED BY <1>1, <2>2, <2>3, CompactPhase
<1>3. CASE num_roots = 0
  <2>1. EnterCompact("finish") BY <1>3 DEF Start
  <2>2. /\ InUse' = InUse
        /\ \/ pc' = "finish" /\ num_roots' + 1 = first_unused'
           \/ pc' = "compact" /\ ret' = "finish"
    BY <1>1, <1>3, <2>1, EnterEntries
  <2>3. ret' # "finish" \/ pc' # "compact" BY DEF IInv, Fingers
  <2>4. (PurpleRoots => PurpleRoots') => TagsOfPhase'
    BY <1>1, <1>3, <2>2, <2>3 DEF PhaseInv, TagsOfPhase, RootPhase, IsRoot, PurpleRoots
  <2> QED BY <1>1, <2>2, <2>4, CompactPhase
<1> QED BY <1>2, <1>3

LEMMA UnrootDonePhase ==
  ASSUME IInv, IInv', PhaseInv, UnrootDone
  PROVE  PhaseInv'
<1>1. /\ pc = "unroot" /\ buf' = buf /\ info' = info /\ num_roots' = num_roots
      /\ gc_active' = gc_active /\ gc_active /\ EnterCompact("tag")
  BY DEF UnrootDone, flagVars, IInv, Control, InRun
<1>2. /\ InUse' = InUse
      /\ \/ pc' = "tag" /\ num_roots' + 1 = first_unused'
         \/ pc' = "compact" /\ ret' = "tag"
  BY <1>1, EnterEntries
<1>3. (PurpleRoots => PurpleRoots') => TagsOfPhase'
  BY <1>1, <1>2 DEF PhaseInv, TagsOfPhase, RootPhase, IsRoot
<1> QED BY <1>1, <1>2, <1>3, CompactPhase

\* The last loop freed all garbage: purple roots are left.
LEMMA FreeDonePhase ==
  ASSUME IInv, IInv', PhaseInv, FreeDone
  PROVE  PhaseInv'
<1>1. /\ pc = "free" /\ idx = end /\ buf' = buf /\ info' = info /\ num_roots' = num_roots
      /\ gc_active' = FALSE /\ EnterCompact("after") /\ idx \in Nat
  BY DEF FreeDone, IInv, TypeOK
<1>2. /\ InUse' = InUse
      /\ \/ pc' = "after" /\ num_roots' + 1 = first_unused'
         \/ pc' = "compact" /\ ret' = "after"
  BY <1>1, EnterEntries
<1>3. PurpleRoots
  <2> SUFFICES ASSUME NEW i \in InUse PROVE IsRoot(i) /\ Purple(i) BY DEF PurpleRoots
  <2>1. i \in Nat BY EntryFacts
  <2> QED BY <1>1, <2>1 DEF PhaseInv, TagsOfPhase
<1>4. (PurpleRoots => PurpleRoots') => TagsOfPhase'
  BY <1>1, <1>2, <1>3 DEF TagsOfPhase, RootPhase
<1> QED BY <1>1, <1>2, <1>4, CompactPhase

-----------------------------------------------------------------------------
LEMMA ReturnPhase ==
  ASSUME IInv, PhaseInv,
         Finish \/ DropHeld \/ (\E few \in BOOLEAN : AdjustThreshold(few))
           \/ (DtorDone /\ pc' # "destroy")
  PROVE  PhaseInv'
<1>1. CASE Finish
  BY <1>1, QuietStep DEF Finish, ReturnToCaller, Resume, flagVars
<1>2. CASE DropHeld BY <1>2, QuietStep DEF DropHeld, Resume, flagVars
<1>3. CASE DtorDone /\ pc' # "destroy"
  BY <1>3, QuietStep DEF DtorDone, ReturnToCaller, Resume, flagVars
<1>4. ASSUME NEW few \in BOOLEAN, AdjustThreshold(few) PROVE PhaseInv'
  <2>1. pc = "adjust" /\ pc' = "place" /\ UNCHANGED bufVars BY <1>4 DEF AdjustThreshold
  <2>2. TypeOK /\ buf_size <= MaxBufSize BY DEF IInv, Allocation
  <2>3. GrowRootBuffer \/ UNCHANGED flagVars BY <1>4 DEF AdjustThreshold
  <2>4. gc_active => gc_active' BY <2>2, <2>3, GrowOK DEF flagVars
  <2> QED BY <2>1, <2>4, QuietStep
<1> QED BY <1>1, <1>2, <1>3, <1>4

LEMMA CollectCyclesPhase ==
  ASSUME IInv, PhaseInv, CollectCycles
  PROVE  PhaseInv'
BY CallPhase DEF CollectCycles, ProgramRuns, Call, flagVars

LEMMA PhaseStep ==
  ASSUME IInv, IInv', PhaseInv, [Next]_vars
  PROVE  PhaseInv'
<1>1. CASE Program
  <2>1. ASSUME NEW r \in Ref, PossibleRoot(r) PROVE PhaseInv' BY <2>1, PossibleRootPhase
  <2>2. ASSUME NEW r \in Ref, RemoveFromBuffer(r) PROVE PhaseInv' BY <2>2, RemovePhase
  <2> QED BY <1>1, <2>1, <2>2, ProgramQuietPhase, CollectCyclesPhase DEF Program
<1>2. CASE Collector
  <2>1. CASE Start \/ UnrootDone \/ FreeDone
    BY <2>1, StartPhase, UnrootDonePhase, FreeDonePhase
  <2>2. CASE CompactMove \/ CompactCross \/ CompactFinish
    BY <2>2, CompactMovePhase, CompactStopPhase
  <2>3. CASE Trace \/ TagBegin \/ TagSlot \/ CollectWhiteDone \/ Collected
    BY <2>3, TracePhase, TagBeginPhase, TagSlotPhase, CollectWhiteDonePhase, CollectedPhase
  <2>4. CASE UnrootSlot \/ FreeSlot BY <2>4, SlotLoopPhase
  <2>5. ASSUME NEW r \in Ref, AddGarbage(r) \/ RemoveNested(r) PROVE PhaseInv'
    BY <2>5, AddGarbagePhase, RemovePhase
  <2>6. CASE NestedDone \/ DtorReturns \/ DestroySlot \/ DestroyReturns \/ DestroyDone
    BY <2>6, LoopPhase DEF NestedDone, DtorReturns, DestroySlot, DestroyReturns, DestroyDone, flagVars
  <2>7. CASE DtorDone BY <2>7, LoopPhase, ReturnPhase DEF DtorDone, flagVars
  <2>8. CASE DtorSlot \/ After BY <2>8, DtorSlotPhase, AfterPhase
  <2>9. CASE Finish \/ DropHeld \/ PlaceHeld \/ \E few \in BOOLEAN : AdjustThreshold(few)
    BY <2>9, ReturnPhase, PlaceHeldPhase
  <2> QED BY <1>2, <2>1, <2>2, <2>3, <2>4, <2>5, <2>6, <2>7, <2>8, <2>9 DEF Collector
<1>3. CASE UNCHANGED vars
  <2>1. UNCHANGED <<buf, info, unused, first_unused, num_roots, gc_active, pc, ret, idx, end, scan>>
    BY <1>3 DEF vars, bufVars, flagVars, loopVars, compactVars, phaseVars, ctlVars
  <2>2. Top' = Top BY <2>1 DEF Top
  <2>3. InUse' = InUse /\ UnusedSlots' = UnusedSlots
    BY <2>1, <2>2 DEF InUse, IsLive, UnusedSlots, IsUnused
  <2>4. ListWhole' BY <2>1, <2>3 DEF ListWhole, PhaseInv, Closed
  <2>5. TagsOfPhase' BY <2>1, <2>3
    DEF PhaseInv, TagsOfPhase, RootPhase, PurpleRoots, Purple, IsRoot, IsGarbage, IsDtorGarbage
  <2> QED BY <2>4, <2>5 DEF PhaseInv
<1> QED BY <1>1, <1>2, <1>3 DEF Next

\* The phases of a collection leave the tags the next one counts on, and no
\* freed slot falls off the list, at every step of every run.
THEOREM PhasesInductive == Spec => [](IInv /\ PhaseInv)
<1>1. Spec => []IInv BY Inductive
<1>2. Init => PhaseInv BY PhaseInit
<1>3. IInv /\ IInv' /\ PhaseInv /\ [Next]_vars => PhaseInv' BY PhaseStep
<1> QED BY <1>1, <1>2, <1>3, PTL DEF Spec

\* Between collections the buffer holds purple roots only, so the next
\* gc_mark_roots misses none; gc_collect_roots finds plain roots wherever it
\* is about to condemn one, although gc_add_garbage appends to the array it
\* loops over; and a callback finds a buffer that is not empty.
THEOREM RootsAreFound == Spec => []RootsFound
<1>1. ASSUME IInv, PhaseInv PROVE RootsPurpleAtRest
  BY <1>1 DEF RootsPurpleAtRest, PhaseInv, TagsOfPhase, PurpleRoots, Purple
<1>2. ASSUME IInv, PhaseInv PROVE TagFindsRoots
  <2> SUFFICES ASSUME pc = "tagging", NEW i \in idx .. (end - 1) PROVE IsRoot(i)
    BY DEF TagFindsRoots
  <2>1. /\ idx \in 1 .. end /\ end <= first_unused /\ num_roots + 1 = first_unused
        /\ end \in Nat /\ first_unused \in Nat
    BY <1>2 DEF IInv, Control, TypeOK
  <2>2. i \in InUse BY <1>2, <2>1, FullAfterCompact
  <2> QED BY <1>2, <2>2 DEF PhaseInv, TagsOfPhase
<1>3. Spec => []CallbackFindsRoots BY CallbacksAreSafe
<1>4. IInv /\ PhaseInv /\ CallbackFindsRoots => RootsFound BY <1>1, <1>2 DEF RootsFound
<1> QED BY <1>3, <1>4, PhasesInductive, PTL
-----------------------------------------------------------------------------
(* The list of freed slots, followed from its head.                        *)

Follow(g, m) == [n \in 0 .. m |-> IF n = 0 THEN unused
                                  ELSE IF g[n - 1] \in Slots THEN buf[g[n - 1]].next ELSE 0]

\* The recursion has a solution.
LEMMA FollowExists ==
  ASSUME NEW m \in Nat
  PROVE  \E g : g = Follow(g, m)
<1> DEFINE T == {k \in Nat : ~\E g : g = Follow(g, k)}
<1>1. T = {}
  <2> SUFFICES ASSUME T # {} PROVE FALSE OBVIOUS
  <2>1. T \in SUBSET Nat OBVIOUS
  <2> HIDE DEF T
  <2>2. PICK k \in T : \A j \in T : k <= j BY <2>1, NatMin
  <2>3. k \in Nat /\ ~\E g : g = Follow(g, k) BY <2>2 DEF T
  <2>4. k # 0
    <3> DEFINE g == [n \in 0 .. 0 |-> unused]
    <3>1. g = Follow(g, 0) BY DEF Follow
    <3> QED BY <2>3, <3>1
  <2>5. k - 1 \in Nat /\ ~(k <= k - 1) BY <2>3, <2>4
  <2>6. PICK g : g = Follow(g, k - 1) BY <2>2, <2>5 DEF T
  <2> DEFINE last == IF g[k - 1] \in Slots THEN buf[g[k - 1]].next ELSE 0
             h == [n \in 0 .. k |-> IF n = k THEN last ELSE g[n]]
  <2>7. \A n \in 0 .. k : h[n] = Follow(h, k)[n]
    <3> SUFFICES ASSUME NEW n \in 0 .. k PROVE h[n] = Follow(h, k)[n] OBVIOUS
    <3>1. Follow(h, k)[n] = IF n = 0 THEN unused
                            ELSE IF h[n - 1] \in Slots THEN buf[h[n - 1]].next ELSE 0
      BY DEF Follow
    <3>2. n # 0 => n - 1 \in 0 .. k /\ n - 1 # k BY <2>3
    <3>3. n # 0 => h[n - 1] = g[n - 1] BY <3>2
    <3>4. CASE n = k
      <4>1. h[n] = last /\ n # 0 BY <2>4, <3>4
      <4> QED BY <3>1, <3>3, <3>4, <4>1
    <3>5. CASE n # k
      <4>1. h[n] = g[n] /\ n \in 0 .. (k - 1) BY <2>3, <3>5
      <4>2. Follow(g, k - 1)[n] = IF n = 0 THEN unused
                                  ELSE IF g[n - 1] \in Slots THEN buf[g[n - 1]].next ELSE 0
        BY <4>1 DEF Follow
      <4> QED BY <2>6, <3>1, <3>3, <4>1, <4>2
    <3> QED BY <3>4, <3>5
  <2>8. DOMAIN Follow(h, k) = 0 .. k /\ Follow(h, k) = [n \in 0 .. k |-> Follow(h, k)[n]]
    BY DEF Follow
  <2>9. h = [n \in 0 .. k |-> h[n]] OBVIOUS
  <2> HIDE DEF h
  <2>10. h = Follow(h, k) BY <2>7, <2>8, <2>9
  <2> QED BY <2>3, <2>10
<1> QED BY <1>1

\* A solution stays on the list, never meets a slot twice before its end,
\* and so reaches the end.
LEMMA FollowEnds ==
  ASSUME IInv, pc # "compact", NEW g, g = Follow(g, MaxBufSize)
  PROVE  /\ \A n \in 0 .. MaxBufSize : g[n] \in UnusedSlots \cup {0}
         /\ g[MaxBufSize] = 0
         /\ g[0] = unused
         /\ \A n \in 0 .. MaxBufSize : n # 0 /\ g[n - 1] # 0 => g[n] = buf[g[n - 1]].next
<1> DEFINE N == MaxBufSize
<1>1. /\ N \in Nat /\ first_unused \in Nat /\ first_unused <= N
      /\ unused \in UnusedSlots \cup {0}
      /\ \A i \in UnusedSlots : /\ buf[i].next \in UnusedSlots \cup {0}
                                /\ buf[i].next = unused => unused = 0
      /\ \A i, j \in UnusedSlots : buf[i].next = buf[j].next => i = j \/ buf[i].next = 0
  BY InvFacts, SizesAssumption DEF BufOK, BufTypeOK, FreeListLinks
<1>2. UnusedSlots \subseteq 1 .. N /\ \A i \in UnusedSlots : i \in Slots /\ i # 0
  BY <1>1 DEF UnusedSlots, Slots
<1>3. 0 \notin Slots BY <1>1 DEF Slots
<1>4. g[0] = unused BY <1>1 DEF Follow
<1>5. \A n \in 0 .. N : n # 0 => n - 1 \in 0 .. N
                        /\ g[n] = IF g[n - 1] \in Slots THEN buf[g[n - 1]].next ELSE 0
  BY <1>1 DEF Follow
<1> HIDE DEF N
<1>6. \A n \in 0 .. N : g[n] \in UnusedSlots \cup {0}
  <2> DEFINE T == {n \in 0 .. N : g[n] \notin UnusedSlots \cup {0}}
  <2> SUFFICES ASSUME T # {} PROVE FALSE OBVIOUS
  <2>1. T \in SUBSET Nat BY <1>1
  <2> HIDE DEF T
  <2>2. PICK n \in T : \A y \in T : n <= y BY <2>1, NatMin
  <2>3. n \in 0 .. N /\ g[n] \notin UnusedSlots \cup {0} BY <2>2 DEF T
  <2>4. n # 0 BY <1>1, <1>4, <2>3
  <2>5. n - 1 \in 0 .. N /\ ~(n <= n - 1) BY <1>5, <2>3, <2>4
  <2>6. g[n - 1] \in UnusedSlots \cup {0} BY <2>2, <2>5 DEF T
  <2> QED BY <1>1, <1>3, <1>5, <2>3, <2>4, <2>6
<1>7. \A n \in 0 .. N : n # 0 /\ g[n - 1] # 0 => g[n] = buf[g[n - 1]].next
  BY <1>2, <1>5, <1>6
<1>8. \A m, n \in 0 .. N : m < n /\ g[m] = g[n] => g[m] = 0
  <2> DEFINE T == {m \in 0 .. N : \E n \in 0 .. N : m < n /\ g[m] = g[n] /\ g[m] # 0}
  <2> SUFFICES ASSUME T # {} PROVE FALSE OBVIOUS
  <2>1. T \in SUBSET Nat BY <1>1
  <2> HIDE DEF T
  <2>2. PICK m \in T : \A y \in T : m <= y BY <2>1, NatMin
  <2>3. m \in 0 .. N /\ \E n \in 0 .. N : m < n /\ g[m] = g[n] /\ g[m] # 0 BY <2>2 DEF T
  <2>4. PICK n \in 0 .. N : m < n /\ g[m] = g[n] /\ g[m] # 0 BY <2>3
  <2>5. n # 0 /\ m \in Nat /\ n \in Nat BY <1>1, <2>3, <2>4
  <2>6. g[n - 1] \in UnusedSlots /\ buf[g[n - 1]].next = g[n]
    BY <1>3, <1>5, <1>6, <1>7, <2>4, <2>5
  <2>7. m # 0 BY <1>1, <1>4, <2>4, <2>6
  <2>8. g[m - 1] \in UnusedSlots /\ buf[g[m - 1]].next = g[m]
    BY <1>3, <1>5, <1>6, <1>7, <2>3, <2>4, <2>7
  <2>9. g[m - 1] = g[n - 1] /\ g[m - 1] # 0 BY <1>1, <1>2, <2>4, <2>6, <2>8
  <2>10. m - 1 \in 0 .. N /\ n - 1 \in 0 .. N /\ m - 1 < n - 1 /\ ~(m <= m - 1)
    BY <1>5, <2>3, <2>4, <2>5, <2>7
  <2>11. m - 1 \in T BY <2>9, <2>10 DEF T
  <2> QED BY <2>2, <2>10, <2>11
<1>9. g[N] = 0
  <2> SUFFICES ASSUME g[N] # 0 PROVE FALSE OBVIOUS
  <2>1. \A n \in 0 .. N : g[n] # 0
    <3> DEFINE T == {n \in 0 .. N : g[n] = 0}
    <3> SUFFICES ASSUME T # {} PROVE FALSE OBVIOUS
    <3>1. T \in SUBSET (0 .. N) OBVIOUS
    <3> HIDE DEF T
    <3>2. PICK n \in T : \A y \in T : y <= n BY <1>1, <3>1, NatMax
    <3>3. n \in 0 .. N /\ g[n] = 0 BY <3>2 DEF T
    <3>4. n # N BY <3>3
    <3>5. n + 1 \in 0 .. N /\ n + 1 # 0 /\ (n + 1) - 1 = n /\ ~(n + 1 <= n)
      BY <1>1, <3>3, <3>4
    <3>6. g[n + 1] = 0 BY <1>3, <1>5, <3>3, <3>5
    <3> QED BY <3>2, <3>5, <3>6 DEF T
  <2> DEFINE f == [n \in 0 .. N |-> g[n]]
             D == 0 .. N
  <2>2. f \in [D -> UnusedSlots] BY <1>6, <2>1
  <2>3. /\ IsFiniteSet(1 .. N) /\ Cardinality(1 .. N) <= N
        /\ IsFiniteSet(0 .. N) /\ Cardinality(0 .. N) = N + 1
    <3>1. IsFiniteSet(1 .. N) /\ Cardinality(1 .. N) <= N BY <1>1, IntervalFrom1
    <3>2. IsFiniteSet(0 .. N) /\ Cardinality(0 .. N) = IF 0 > N THEN 0 ELSE N - 0 + 1
      BY <1>1, FS_Interval
    <3> QED BY <1>1, <3>1, <3>2
  <2>4. IsFiniteSet(UnusedSlots) /\ Cardinality(UnusedSlots) <= Cardinality(1 .. N)
    BY <1>2, <2>3, FS_Subset
  <2>5. Cardinality(UnusedSlots) < Cardinality(0 .. N)
    <3>1. Cardinality(UnusedSlots) \in Nat /\ Cardinality(1 .. N) \in Nat
      BY <2>3, <2>4, FS_CardinalityType
    <3> QED BY <1>1, <2>3, <2>4, <3>1
  <2>6. PICK x, y \in D : x # y /\ f[x] = f[y]
    <3>1. IsFiniteSet(UnusedSlots) /\ IsFiniteSet(D) /\ Cardinality(UnusedSlots) < Cardinality(D)
      BY <2>3, <2>4, <2>5
    <3> HIDE DEF f, D
    <3> QED BY <2>2, <3>1, FS_PigeonHole
  <2>7. g[x] = g[y] BY <2>6
  <2>8. x < y \/ y < x BY <1>1, <2>6
  <2> QED BY <1>8, <2>1, <2>7, <2>8
<1> QED BY <1>4, <1>6, <1>7, <1>9 DEF N

\* No slot is lost and none is listed twice: what is reached from the head of
\* the list of freed slots is every slot below first_unused that no value
\* uses, however often slots were taken, given back, appended and compacted.
THEOREM FreeListIsExact == Spec => []FreeListExact
<1>1. ASSUME IInv, PhaseInv PROVE FreeListExact
  <2> SUFFICES ASSUME pc # "compact"
               PROVE  FreeList = {i \in 1 .. (first_unused - 1) : ~IsLive(i)}
    BY DEF FreeListExact
  <2> DEFINE g == CHOOSE f : f = Follow(f, MaxBufSize)
  <2>1. MaxBufSize \in Nat BY SizesAssumption
  <2>2. g = Follow(g, MaxBufSize)
    <3>1. \E f : f = Follow(f, MaxBufSize) BY <2>1, FollowExists
    <3> QED BY <3>1
  <2>3. FreeList = {g[n] : n \in 0 .. MaxBufSize} \ {0} BY DEF FreeList, Follow
  <2> HIDE DEF g
  <2>4. /\ \A n \in 0 .. MaxBufSize : g[n] \in UnusedSlots \cup {0}
        /\ g[MaxBufSize] = 0
        /\ g[0] = unused
        /\ \A n \in 0 .. MaxBufSize : n # 0 /\ g[n - 1] # 0 => g[n] = buf[g[n - 1]].next
    BY <1>1, <2>2, FollowEnds
  <2>5. FreeList \in SUBSET UnusedSlots BY <2>3, <2>4
  <2>6. Closed(FreeList)
    <3>1. unused # 0 => unused \in FreeList BY <2>1, <2>3, <2>4
    <3>2. ASSUME NEW i \in FreeList, buf[i].next # 0 PROVE buf[i].next \in FreeList
      <4>1. PICK n \in 0 .. MaxBufSize : i = g[n] /\ g[n] # 0 BY <2>3
      <4>2. n # MaxBufSize BY <2>4, <4>1
      <4>3. n + 1 \in 0 .. MaxBufSize /\ n + 1 # 0 /\ (n + 1) - 1 = n BY <2>1, <4>1, <4>2
      <4>4. g[n + 1] = buf[i].next BY <2>4, <4>1, <4>3
      <4> QED BY <2>3, <3>2, <4>3, <4>4
    <3> QED BY <3>1, <3>2 DEF Closed
  <2>7. FreeList = UnusedSlots BY <1>1, <2>5, <2>6 DEF PhaseInv, ListWhole
  <2>8. Top = first_unused - 1 BY DEF Top
  <2> QED BY <1>1, <2>7, <2>8 DEF UnusedSlots, IInv, SlotsWellFormed, IsLive, IsUnused, LiveTags
<1> QED BY <1>1, PhasesInductive, PTL
-----------------------------------------------------------------------------
(* The refinement of the root set.                                         *)

\* Addresses, slots and the abstract tags say the same.
LEMMA TagsOfEntries ==
  IInv => /\ RootTags = [r \in Ref |-> RootTags[r]]
          /\ \A i \in InUse : RootTags[buf[i].ref] = buf[i].tag
          /\ \A r \in Ref : (\A i \in InUse : buf[i].ref # r) => RootTags[r] = "none"
<1> SUFFICES ASSUME IInv
             PROVE  /\ RootTags = [r \in Ref |-> RootTags[r]]
                    /\ \A i \in InUse : RootTags[buf[i].ref] = buf[i].tag
                    /\ \A r \in Ref : (\A i \in InUse : buf[i].ref # r) => RootTags[r] = "none"
  OBVIOUS
<1>1. RootTags = [r \in Ref |-> RootTags[r]] BY DEF RootTags
<1>2. \A r \in Ref : (\A i \in InUse : buf[i].ref # r) => RootTags[r] = "none"
  BY DEF RootTags
<1>3. ASSUME NEW i \in InUse PROVE RootTags[buf[i].ref] = buf[i].tag
  <2> DEFINE r == buf[i].ref
  <2>1. /\ r \in Ref /\ info[r].addr # 0
        /\ \A j \in InUse : buf[j].ref = r => j = i
    BY EntryFacts
  <2> HIDE DEF r
  <2>2. buf[i].ref = r BY DEF r
  <2>3. (CHOOSE j \in InUse : buf[j].ref = r) = i BY <2>1, <2>2
  <2>4. RootTags[r] = buf[i].tag BY <2>1, <2>2, <2>3 DEF RootTags
  <2> QED BY <2>4 DEF r
<1> QED BY <1>1, <1>2, <1>3

LEMMA TagsNext ==
  IInv' => /\ RootTags' = [r \in Ref |-> RootTags'[r]]
           /\ \A i \in InUse' : RootTags'[buf'[i].ref] = buf'[i].tag
           /\ \A r \in Ref : (\A i \in InUse' : buf'[i].ref # r) => RootTags'[r] = "none"
<1>1. (IInv => /\ RootTags = [r \in Ref |-> RootTags[r]]
               /\ \A i \in InUse : RootTags[buf[i].ref] = buf[i].tag
               /\ \A r \in Ref : (\A i \in InUse : buf[i].ref # r) => RootTags[r] = "none")'
  <2>1. IInv => /\ RootTags = [r \in Ref |-> RootTags[r]]
                /\ \A i \in InUse : RootTags[buf[i].ref] = buf[i].tag
                /\ \A r \in Ref : (\A i \in InUse : buf[i].ref # r) => RootTags[r] = "none"
    BY TagsOfEntries
  <2> QED BY <2>1, PTL
<1> QED BY <1>1

\* Values whose entries a step keeps, wherever it puts them, keep their tag.
LEMMA TagsElsewhere ==
  ASSUME IInv, IInv', NEW R \in SUBSET Ref,
         \A i \in InUse : buf[i].ref \notin R =>
             \E j \in InUse' : buf'[j].ref = buf[i].ref /\ buf'[j].tag = buf[i].tag,
         \A j \in InUse' : buf'[j].ref \notin R =>
             \E i \in InUse : buf[i].ref = buf'[j].ref
  PROVE  \A r \in Ref \ R : RootTags'[r] = RootTags[r]
<1> SUFFICES ASSUME NEW r \in Ref \ R PROVE RootTags'[r] = RootTags[r] OBVIOUS
<1>1. CASE \E i \in InUse : buf[i].ref = r
  <2>1. PICK i \in InUse : buf[i].ref = r BY <1>1
  <2>2. PICK j \in InUse' : buf'[j].ref = r /\ buf'[j].tag = buf[i].tag BY <2>1
  <2> QED BY <2>1, <2>2, TagsOfEntries, TagsNext
<1>2. CASE \A i \in InUse : buf[i].ref # r
  <2>1. \A j \in InUse' : buf'[j].ref # r BY <1>2
  <2> QED BY <1>2, <2>1, TagsOfEntries, TagsNext
<1> QED BY <1>1, <1>2

\* Two tag functions that agree everywhere are one.
LEMMA TagsSame ==
  ASSUME IInv, IInv', \A r \in Ref : RootTags'[r] = RootTags[r]
  PROVE  RootTags' = RootTags
BY TagsOfEntries, TagsNext

LEMMA TagsExcept ==
  ASSUME IInv, IInv', NEW r \in Ref, NEW tag, RootTags'[r] = tag,
         \A q \in Ref \ {r} : RootTags'[q] = RootTags[q]
  PROVE  RootTags' = [RootTags EXCEPT ![r] = tag]
<1> DEFINE new == RootTags'
           old == RootTags
<1>1. new = [q \in Ref |-> new[q]] /\ old = [q \in Ref |-> old[q]]
  BY TagsOfEntries, TagsNext
<1>2. new[r] = tag /\ \A q \in Ref \ {r} : new[q] = old[q] OBVIOUS
<1> HIDE DEF new, old
<1>3. new = [old EXCEPT ![r] = tag] BY <1>1, <1>2
<1> QED BY <1>3 DEF new, old

\* Steps that keep entries and tags.
LEMMA KeptTags ==
  ASSUME IInv, IInv', InUse' = InUse, \A i \in InUse : buf'[i] = buf[i]
  PROVE  RootTags' = RootTags
<1>1. \A r \in Ref \ {} : RootTags'[r] = RootTags[r]
  <2>1. {} \in SUBSET Ref OBVIOUS
  <2> QED BY <2>1, TagsElsewhere
<1> QED BY <1>1, TagsSame

LEMMA SameTags ==
  ASSUME IInv, IInv', pc # "compact", pc' # "compact", UNCHANGED <<buf, first_unused>>
  PROVE  RootTags' = RootTags
<1>1. Top' = Top BY DEF Top
<1>2. InUse' = InUse BY <1>1 DEF InUse, IsLive
<1> QED BY <1>2, KeptTags

\* Storing a value is Add.
LEMMA StoreTags ==
  ASSUME IInv, IInv', pc # "compact", pc' # "compact",
         NEW r \in Ref, info[r].addr = 0, NEW tag \in {"root", "garbage"}, NEW color \in Colors,
         \/ StoreInUnused(r, tag, color)
         \/ first_unused \in Slots /\ StoreInNext(r, tag, color)
  PROVE  RootSet!Add(r, tag)
<1>1. BufTypeOK /\ BufOK /\ first_unused <= MaxBufSize /\ tag \in LiveTags
  BY InvFacts DEF LiveTags
<1>2. /\ StoreSlot \in Slots /\ StoreSlot \notin InUse /\ InUse' = InUse \cup {StoreSlot}
      /\ \A j \in Slots : j # StoreSlot => buf'[j] = buf[j]
      /\ buf'[StoreSlot] = Live(tag, r)
  BY <1>1, StoreSlots
<1>3. buf'[StoreSlot].ref = r /\ buf'[StoreSlot].tag = tag BY <1>2 DEF Live
<1>4. \A i \in InUse : i \in Slots /\ buf[i].ref # r
  BY <1>1, EntryFacts, NoAddressNoSlot DEF BufOK
<1>5. \A q \in Ref \ {r} : RootTags'[q] = RootTags[q]
  <2>1. {r} \in SUBSET Ref OBVIOUS
  <2>2. \A i \in InUse : i \in InUse' /\ buf'[i] = buf[i] BY <1>2, <1>4
  <2>3. \A j \in InUse' : buf'[j].ref \notin {r} => j \in InUse BY <1>2, <1>3
  <2> QED BY <2>1, <2>2, <2>3, TagsElsewhere
<1>6. RootTags[r] = "none" BY <1>4, TagsOfEntries
<1>7. RootTags'[r] = tag BY <1>2, <1>3, TagsNext
<1>8. RootTags' = [RootTags EXCEPT ![r] = tag] BY <1>5, <1>7, TagsExcept
<1> QED BY <1>6, <1>8 DEF RootSet!Add

LEMMA LiveTag ==
  ASSUME IInv, NEW i \in InUse
  PROVE  RootTags[buf[i].ref] \in {"root", "garbage", "dtor"} /\ RootTags[buf[i].ref] = buf[i].tag
BY EntryFacts, TagsOfEntries DEF IsLive, LiveTags

\* Unlinking it is Remove.
LEMMA UnlinkTags ==
  ASSUME IInv, IInv', pc # "compact", pc' # "compact",
         NEW i \in InUse, NEW r \in Ref, buf[i].ref = r, Unlink(i, r)
  PROVE  RootSet!Remove(r)
<1>1. BufTypeOK /\ BufOK /\ first_unused <= MaxBufSize BY InvFacts
<1>2. InUse' = InUse \ {i} BY <1>1, UnlinkOK
<1>3. \A j \in Slots : j # i => buf'[j] = buf[j] BY <1>1 DEF Unlink, BufTypeOK
<1>4. /\ \A j \in InUse : j \in Slots
      /\ \A j \in InUse : buf[j].ref = r => j = i
  BY EntryFacts
<1>5. \A j \in InUse' : buf'[j] = buf[j] /\ buf'[j].ref # r /\ j \in InUse BY <1>2, <1>3, <1>4
<1>6. \A q \in Ref \ {r} : RootTags'[q] = RootTags[q]
  <2>1. {r} \in SUBSET Ref OBVIOUS
  <2>2. \A j \in InUse : buf[j].ref \notin {r} => j \in InUse' BY <1>2
  <2> QED BY <1>5, <2>1, <2>2, TagsElsewhere
<1>7. RootTags'[r] = "none" BY <1>5, TagsNext
<1>8. RootTags[r] # "none" BY LiveTag
<1>9. RootTags' = [RootTags EXCEPT ![r] = "none"] BY <1>6, <1>7, TagsExcept
<1> QED BY <1>8, <1>9 DEF RootSet!Remove

\* Writing another tag into one entry.
LEMMA RetagOne ==
  ASSUME IInv, IInv', pc # "compact", pc' # "compact", UNCHANGED first_unused,
         NEW i \in InUse, NEW tag \in LiveTags, buf' = [buf EXCEPT ![i].tag = tag]
  PROVE  RootTags' = [RootTags EXCEPT ![buf[i].ref] = tag]
<1> DEFINE r == buf[i].ref
<1>1. BufTypeOK /\ i \in Slots /\ r \in Ref /\ \A j \in InUse : j \in Slots /\ (buf[j].ref = r => j = i)
  BY InvFacts, EntryFacts
<1>2. /\ buf'[i].tag = tag /\ buf'[i].ref = r
      /\ \A j \in Slots : j # i => buf'[j] = buf[j]
  BY <1>1 DEF BufTypeOK, Entry
<1>3. Top' = Top /\ Top = first_unused - 1 BY DEF Top
<1>4. 1 .. Top \subseteq Slots BY <1>1, <1>3, InvFacts, SizesAssumption DEF Slots, BufTypeOK
<1>5. InUse' = InUse BY <1>2, <1>3, <1>4 DEF InUse, IsLive
<1> HIDE DEF r
<1>6. \A q \in Ref \ {r} : RootTags'[q] = RootTags[q]
  <2>1. {r} \in SUBSET Ref BY <1>1
  <2>2. \A j \in InUse : buf'[j] = buf[j] \/ (buf'[j].ref = r /\ buf[j].ref = r)
    BY <1>1, <1>2 DEF r
  <2> QED BY <1>5, <2>1, <2>2, TagsElsewhere
<1>7. RootTags'[r] = tag BY <1>2, <1>5, TagsNext
<1>8. RootTags' = [RootTags EXCEPT ![r] = tag] BY <1>1, <1>6, <1>7, TagsExcept
<1> QED BY <1>8 DEF r

\* An empty buffer has no tags.
LEMMA EmptyTags ==
  ASSUME IInv', InUse' = {}
  PROVE  RootSet!Clear
<1>1. \A r \in Ref : RootTags'[r] = "none" BY TagsNext
<1> QED BY <1>1, TagsNext DEF RootSet!Clear

\* What a step may do to the root set.
SetStep == [RootSet!Next]_RootTags

LEMMA InitTags ==
  ASSUME Init
  PROVE  RootSet!Init
<1>1. \A r \in Ref : RootTags[r] = "none" BY DEF Init, RootTags, NoInfo, Info
<1>2. RootTags = [r \in Ref |-> RootTags[r]] BY DEF RootTags
<1> QED BY <1>1, <1>2 DEF RootSet!Init

\* The steps that touch no entry.
LEMMA QuietSet ==
  ASSUME IInv, IInv',
         \/ Bailout \/ CollectCycles \/ Trace \/ TagBegin \/ CollectWhiteDone
         \/ NestedDone \/ DtorReturns \/ DtorDone
         \/ DestroySlot \/ DestroyReturns \/ DestroyDone \/ After \/ Finish
         \/ (\E few \in BOOLEAN : AdjustThreshold(few)) \/ DropHeld
  PROVE  SetStep
<1>1. CASE Bailout \/ CollectCycles
  <2>1. pc # "compact" /\ pc' # "compact" /\ UNCHANGED <<buf, first_unused>>
    BY <1>1 DEF Bailout, CollectCycles, Call, ProgramRuns, bufVars
  <2> QED BY <2>1, SameTags DEF SetStep
<1>2. CASE Trace \/ TagBegin \/ CollectWhiteDone
  <2>1. pc # "compact" /\ pc' # "compact" /\ UNCHANGED <<buf, first_unused>>
    BY <1>2 DEF Trace, TagBegin, CollectWhiteDone, bufVars
  <2> QED BY <2>1, SameTags DEF SetStep
<1>3. CASE \/ NestedDone \/ DtorReturns \/ DtorDone
           \/ DestroySlot \/ DestroyReturns \/ DestroyDone \/ After
  <2>1. pc # "compact" /\ pc' # "compact" /\ UNCHANGED <<buf, first_unused>>
    BY <1>3 DEF NestedDone, DtorReturns, DtorDone, DestroySlot, DestroyReturns, DestroyDone, After,
                ReturnToCaller, Resume, bufVars
  <2> QED BY <2>1, SameTags DEF SetStep
<1>4. CASE Finish \/ (\E few \in BOOLEAN : AdjustThreshold(few)) \/ DropHeld
  <2>1. pc # "compact" /\ pc' # "compact" /\ UNCHANGED <<buf, first_unused>>
    BY <1>4 DEF Finish, AdjustThreshold, DropHeld, ReturnToCaller, Resume, bufVars
  <2> QED BY <2>1, SameTags DEF SetStep
<1> QED BY <1>1, <1>2, <1>3, <1>4

LEMMA ResetSet ==
  ASSUME IInv, IInv', Reset \/ \E enable \in BOOLEAN : GcEnable(enable)
  PROVE  SetStep
<1>1. CASE ResetGlobals /\ pc' = pc /\ pc # "compact"
  <2>1. Top' = 0 BY <1>1 DEF ResetGlobals, Top
  <2>2. InUse' = {} BY <2>1 DEF InUse
  <2> QED BY <2>2, EmptyTags DEF SetStep, RootSet!Next
<1>2. CASE UNCHANGED bufVars /\ pc' = pc /\ pc # "compact"
  BY <1>2, SameTags DEF SetStep, bufVars
<1>3. pc' = pc /\ pc # "compact" /\ (ResetGlobals \/ UNCHANGED bufVars)
  BY DEF Reset, GcEnable, ProgramRuns, ctlVars
<1> QED BY <1>1, <1>2, <1>3

\* Storing, or not, as StoreOrGrow has it.
LEMMA StoreSet ==
  ASSUME IInv, IInv', pc # "compact", pc' # "compact",
         NEW r \in Ref, info[r].addr = 0, NEW tag \in {"root", "garbage"}, NEW color \in Colors,
         \/ StoreInUnused(r, tag, color)
         \/ first_unused \in Slots /\ StoreInNext(r, tag, color)
         \/ UNCHANGED <<buf, first_unused>>
  PROVE  SetStep
<1>1. CASE UNCHANGED <<buf, first_unused>> BY <1>1, SameTags DEF SetStep
<1>2. CASE \/ StoreInUnused(r, tag, color)
           \/ first_unused \in Slots /\ StoreInNext(r, tag, color)
  <2>1. RootSet!Add(r, tag) BY <1>2, StoreTags
  <2> QED BY <2>1 DEF SetStep, RootSet!Next
<1> QED BY <1>1, <1>2

LEMMA PossibleRootSet ==
  ASSUME IInv, IInv', NEW r \in Ref, PossibleRoot(r)
  PROVE  SetStep
<1>1. /\ pc \in {"idle", "calling", "freeing", "finish"} /\ info[r].addr = 0
      /\ buf_size # 0 /\ first_unused \in 1 .. buf_size /\ buf_size <= MaxBufSize
      /\ gc_threshold <= buf_size /\ TypeOK /\ "purple" \in Colors
  BY DEF IInv, Allocation, PossibleRoot, ProgramRuns, NoInfo, Info, Colors
<1>2. CASE /\ \/ StoreInUnused(r, "root", "purple")
              \/ HasNextUnusedUnderThreshold /\ StoreInNext(r, "root", "purple")
           /\ UNCHANGED <<sizeVars, flagVars, loopVars, ctlVars>>
  <2>1. \/ StoreInUnused(r, "root", "purple")
        \/ first_unused \in Slots /\ StoreInNext(r, "root", "purple")
    BY <1>1, <1>2, SizesAssumption DEF HasNextUnusedUnderThreshold, Slots, TypeOK
  <2>2. pc' = pc BY <1>2 DEF ctlVars
  <2> QED BY <1>1, <2>1, <2>2, StoreSet
<1>3. CASE Call(r)
  BY <1>1, <1>3, SameTags DEF Call, bufVars, SetStep
<1>4. CASE StoreOrGrow(r, "root", "purple", info) /\ UNCHANGED <<gc_threshold, loopVars, ctlVars>>
  <2>1. pc' = pc BY <1>4 DEF ctlVars
  <2>2. \/ StoreInUnused(r, "root", "purple")
        \/ first_unused \in Slots /\ StoreInNext(r, "root", "purple")
        \/ UNCHANGED <<buf, first_unused>>
    BY <1>1, <1>4, GrowCases
  <2> QED BY <1>1, <2>1, <2>2, StoreSet
<1> QED BY <1>2, <1>3, <1>4 DEF PossibleRoot

LEMMA PlaceHeldSet ==
  ASSUME IInv, IInv', PlaceHeld
  PROVE  SetStep
<1>1. /\ pc = "place" /\ pc' \in {"idle", "finish"} /\ Caller \in Ref
      /\ info[Caller].addr = 0 /\ buf_size # 0 /\ "purple" \in Colors
  BY DEF PlaceHeld, IInv, Control, Allocation, Resume, NoInfo, Info, Colors
<1>2. \/ StoreInUnused(Caller, "root", "purple")
      \/ first_unused \in Slots /\ StoreInNext(Caller, "root", "purple")
      \/ UNCHANGED <<buf, first_unused>>
  BY <1>1, GrowCases DEF PlaceHeld
<1> QED BY <1>1, <1>2, StoreSet

LEMMA AddGarbageSet ==
  ASSUME IInv, IInv', NEW r \in Ref, AddGarbage(r)
  PROVE  SetStep
<1>1. /\ pc = "collect" /\ pc' = pc /\ info[r].addr = 0 /\ buf_size # 0 /\ "black" \in Colors
  BY DEF AddGarbage, IInv, Allocation, Info, ctlVars, Colors
<1>2. \/ StoreInUnused(r, "garbage", "black")
      \/ first_unused \in Slots /\ StoreInNext(r, "garbage", "black")
      \/ UNCHANGED <<buf, first_unused>>
  BY <1>1, GrowCases DEF AddGarbage
<1> QED BY <1>1, <1>2, StoreSet

LEMMA UnlinkSet ==
  ASSUME IInv, IInv', pc # "compact", pc' # "compact",
         NEW i \in InUse, NEW r \in Ref, buf[i].ref = r, Unlink(i, r)
  PROVE  SetStep
<1>1. RootSet!Remove(r) BY UnlinkTags
<1> QED BY <1>1 DEF SetStep, RootSet!Next

LEMMA RemoveSet ==
  ASSUME IInv, IInv', NEW r \in Ref, RemoveFromBuffer(r) \/ RemoveNested(r)
  PROVE  SetStep
<1> DEFINE i == SlotOf(r)
<1>1. pc \in {"idle", "calling", "freeing", "nested"} /\ Unlink(i, r) /\ pc' = pc
  BY DEF RemoveFromBuffer, RemoveNested, ProgramRuns, ctlVars
<1>2. info[r].addr # 0 BY RemovedHasSlot
<1>3. pc # "compact" /\ pc' # "compact" BY <1>1
<1>4. i \in InUse /\ buf[i].ref = r BY <1>2, <1>3, InvFacts, SlotOfOK
<1> HIDE DEF i
<1> QED BY <1>1, <1>3, <1>4, UnlinkSet

LEMMA SlotLoopSet ==
  ASSUME IInv, IInv', UnrootSlot \/ FreeSlot
  PROVE  SetStep
<1>1. /\ pc \in {"unroot", "free"} /\ pc' = pc /\ idx # end
      /\ \/ UNCHANGED bufVars
         \/ Unlink(idx, buf[idx].ref) /\ (IsRoot(idx) \/ IsGarbage(idx))
  BY DEF UnrootSlot, FreeSlot, ctlVars, bufVars
<1>2. idx \in 1 .. (first_unused - 1)
  <2>1. first_unused \in Nat /\ end \in Nat BY DEF IInv, TypeOK
  <2>2. idx \in 1 .. end /\ end <= first_unused BY <1>1, <2>1 DEF IInv, Control
  <2> QED BY <1>1, <2>1, <2>2
<1>3. CASE UNCHANGED bufVars BY <1>1, <1>3, SameTags DEF SetStep, bufVars
<1>4. CASE Unlink(idx, buf[idx].ref) /\ (IsRoot(idx) \/ IsGarbage(idx))
  <2>1. idx \in InUse
    BY <1>1, <1>2, <1>4 DEF InUse, Top, IsRoot, IsGarbage, IsLive, LiveTags
  <2>2. buf[idx].ref \in Ref BY <2>1, EntryFacts
  <2>3. pc # "compact" /\ pc' # "compact" BY <1>1
  <2> QED BY <1>4, <2>1, <2>2, <2>3, UnlinkSet
<1> QED BY <1>1, <1>3, <1>4

\* Condemning a root, and releasing it when its destructor runs.
LEMMA TagSlotSet ==
  ASSUME IInv, IInv', PhaseInv, TagSlot
  PROVE  SetStep
<1>1. /\ pc = "tagging" /\ pc' \in {"tagging", "collect"} /\ idx # end
      /\ buf' = [buf EXCEPT ![idx].tag = "garbage"] /\ UNCHANGED first_unused
  BY DEF TagSlot
<1>2. /\ idx \in idx .. (end - 1) /\ idx \in 1 .. (first_unused - 1) /\ num_roots + 1 = first_unused
  <2>1. /\ idx \in Nat /\ end \in Nat /\ first_unused \in Nat /\ num_roots + 1 = first_unused
        /\ idx \in 1 .. end /\ end <= first_unused /\ idx # end
    BY <1>1 DEF IInv, TypeOK, Control
  <2> QED BY <2>1
<1>3. idx \in InUse BY <1>1, <1>2, FullAfterCompact
<1>4. IsRoot(idx) BY <1>1, <1>2, <1>3 DEF PhaseInv, TagsOfPhase
<1>5. RootTags' = [RootTags EXCEPT ![buf[idx].ref] = "garbage"]
  <2>1. "garbage" \in LiveTags /\ pc # "compact" /\ pc' # "compact" BY <1>1 DEF LiveTags
  <2> QED BY <1>1, <1>3, <2>1, RetagOne
<1>6. RootTags[buf[idx].ref] = "root" /\ buf[idx].ref \in Ref
  BY <1>3, <1>4, LiveTag, EntryFacts DEF IsRoot
<1>7. RootSet!Condemn(buf[idx].ref) BY <1>5, <1>6 DEF RootSet!Condemn
<1> QED BY <1>6, <1>7 DEF SetStep, RootSet!Next

LEMMA DtorSlotSet ==
  ASSUME IInv, IInv', DtorSlot
  PROVE  SetStep
<1>1. /\ pc = "dtor" /\ pc' \in {"dtor", "calling"} /\ idx # end /\ UNCHANGED first_unused
      /\ IF IsDtorGarbage(idx) THEN buf' = [buf EXCEPT ![idx].tag = "root"] ELSE buf' = buf
  BY DEF DtorSlot
<1>2. idx \in 1 .. (first_unused - 1)
  <2>1. /\ idx \in Nat /\ end \in Nat /\ first_unused \in Nat
        /\ idx \in 1 .. end /\ end <= first_unused /\ idx # end
    BY <1>1 DEF IInv, TypeOK, Control
  <2> QED BY <2>1
<1>3. CASE ~IsDtorGarbage(idx) BY <1>1, <1>3, SameTags DEF SetStep
<1>4. CASE IsDtorGarbage(idx)
  <2>1. idx \in InUse BY <1>1, <1>2, <1>4 DEF InUse, Top, IsLive, IsDtorGarbage, LiveTags
  <2>2. RootTags' = [RootTags EXCEPT ![buf[idx].ref] = "root"]
    <3>1. "root" \in LiveTags /\ pc # "compact" /\ pc' # "compact" BY <1>1 DEF LiveTags
    <3> QED BY <1>1, <1>4, <2>1, <3>1, RetagOne
  <2>3. RootTags[buf[idx].ref] = "dtor" /\ buf[idx].ref \in Ref
    BY <1>4, <2>1, LiveTag, EntryFacts DEF IsDtorGarbage
  <2>4. RootSet!Release(buf[idx].ref) BY <2>2, <2>3 DEF RootSet!Release
  <2> QED BY <2>3, <2>4 DEF SetStep, RootSet!Next
<1> QED BY <1>3, <1>4

LEMMA CollectedSet ==
  ASSUME IInv, IInv', Collected
  PROVE  SetStep
<1>1. /\ pc = "tagging" /\ UNCHANGED <<first_unused>> /\ first_unused \in Nat
      /\ buf \in [Slots -> Entry] /\ pc' \in {"finish", "nested", "destroy"}
  BY DEF Collected, IInv, TypeOK
<1>2. CASE buf' = buf BY <1>1, <1>2, SameTags DEF SetStep
<1>3. CASE \E D \in SUBSET {i \in 1 .. (first_unused - 1) : IsGarbage(i)} :
             buf' = [i \in Slots |-> IF i \in D THEN [buf[i] EXCEPT !.tag = "dtor"] ELSE buf[i]]
  <2>1. PICK D \in SUBSET {i \in 1 .. (first_unused - 1) : IsGarbage(i)} :
             buf' = [i \in Slots |-> IF i \in D THEN [buf[i] EXCEPT !.tag = "dtor"] ELSE buf[i]]
    BY <1>3
  <2> DEFINE R == {buf[i].ref : i \in D}
  <2>2. \A i \in D : i \in InUse /\ IsGarbage(i)
    BY <1>1, <2>1 DEF InUse, Top, IsLive, IsGarbage, LiveTags
  <2>3. \A i \in InUse : i \in Slots /\ buf[i].ref \in Ref
    BY EntryFacts
  <2>4. /\ \A i \in D : buf'[i].tag = "dtor" /\ buf'[i].ref = buf[i].ref
        /\ \A i \in Slots \ D : buf'[i] = buf[i]
    BY <1>1, <2>1, <2>2, <2>3 DEF Entry
  <2>5. Top' = Top /\ Top = first_unused - 1 BY <1>1 DEF Top
  <2>6. 1 .. Top \subseteq Slots BY <2>5, InvFacts, SizesAssumption DEF Slots, BufTypeOK
  <2>7. InUse' = InUse
    <3>1. \A i \in 1 .. Top : IsLive(i)' <=> IsLive(i)
      BY <2>2, <2>4, <2>6 DEF IsLive, IsGarbage, LiveTags
    <3> QED BY <2>5, <3>1 DEF InUse
  <2>8. R \in SUBSET Ref BY <2>2, <2>3
  <2>9. \A i \in InUse : buf'[i] = buf[i] \/ (i \in D /\ buf'[i].ref = buf[i].ref /\ buf[i].ref \in R)
    BY <2>3, <2>4
  <2> HIDE DEF R
  <2>10. \A q \in Ref \ R : RootTags'[q] = RootTags[q]
    BY <2>7, <2>8, <2>9, TagsElsewhere
  <2>11. \A q \in R : RootTags[q] = "garbage" /\ RootTags'[q] = "dtor"
    <3> SUFFICES ASSUME NEW i \in D
                 PROVE  RootTags[buf[i].ref] = "garbage" /\ RootTags'[buf[i].ref] = "dtor"
      BY DEF R
    <3>1. i \in InUse /\ i \in InUse' /\ buf[i].tag = "garbage" BY <2>2, <2>7 DEF IsGarbage
    <3>2. buf'[i].tag = "dtor" /\ buf'[i].ref = buf[i].ref BY <2>4
    <3> QED BY <3>1, <3>2, TagsOfEntries, TagsNext
  <2>12. CASE R = {} BY <2>10, <2>12, TagsSame DEF SetStep
  <2>13. CASE R # {}
    <3>1. RootTags' = [q \in Ref |-> IF q \in R THEN "dtor" ELSE RootTags[q]]
      BY <2>10, <2>11, TagsNext
    <3>2. RootSet!SetApart(R) BY <2>11, <2>13, <3>1 DEF RootSet!SetApart
    <3> QED BY <2>8, <3>2 DEF SetStep, RootSet!Next
  <2> QED BY <2>12, <2>13
<1> QED BY <1>2, <1>3 DEF Collected

\* Compaction moves entries and changes none.
LEMMA CompactSet ==
  ASSUME IInv, IInv', CompactMove \/ CompactCross \/ CompactFinish
  PROVE  SetStep
<1>1. BufTypeOK /\ BufOK /\ Fingers /\ free \in Nat /\ scan \in Nat /\ first_unused <= MaxBufSize
  BY InvFacts DEF IInv, TypeOK
<1>2. CASE CompactMove
  <2>1. /\ \A i \in InUse' : \E j \in InUse : buf'[i] = buf[j]
        /\ \A j \in InUse : \E i \in InUse' : buf'[i] = buf[j]
    BY <1>1, <1>2, CompactMoveOK
  <2>2. \A r \in Ref \ {} : RootTags'[r] = RootTags[r]
    <3>1. {} \in SUBSET Ref OBVIOUS
    <3> QED BY <2>1, <3>1, TagsElsewhere
  <2> QED BY <2>2, TagsSame DEF SetStep
<1>3. CASE CompactCross
  <2>1. InUse' = InUse /\ buf' = buf BY <1>1, <1>3, CompactCrossOK DEF CompactCross, bufVars
  <2> QED BY <2>1, KeptTags DEF SetStep
<1>4. CASE CompactFinish
  <2>1. InUse' = InUse /\ buf' = buf BY <1>1, <1>4, CompactFinishOK DEF CompactFinish
  <2> QED BY <2>1, KeptTags DEF SetStep
<1> QED BY <1>2, <1>3, <1>4

LEMMA EnterSet ==
  ASSUME IInv, IInv', Start \/ UnrootDone \/ FreeDone
  PROVE  SetStep
<1>1. /\ pc # "compact" /\ buf' = buf /\ info' = info /\ num_roots' = num_roots
      /\ \E next \in {"trace", "tag", "after", "finish"} :
            EnterCompact(next) /\ (next = "finish" => num_roots = 0)
  BY DEF Start, UnrootDone, FreeDone
<1>2. InUse' = InUse BY <1>1, EnterEntries
<1> QED BY <1>1, <1>2, KeptTags DEF SetStep

LEMMA SetStepHolds ==
  ASSUME IInv, IInv', PhaseInv, [Next]_vars
  PROVE  SetStep
<1>1. CASE Program
  <2>1. ASSUME NEW r \in Ref, PossibleRoot(r) PROVE SetStep BY <2>1, PossibleRootSet
  <2>2. ASSUME NEW r \in Ref, RemoveFromBuffer(r) PROVE SetStep BY <2>2, RemoveSet
  <2> QED BY <1>1, <2>1, <2>2, ResetSet, QuietSet DEF Program
<1>2. CASE Collector
  <2>1. CASE Start \/ UnrootDone \/ FreeDone BY <2>1, EnterSet
  <2>2. CASE CompactMove \/ CompactCross \/ CompactFinish BY <2>2, CompactSet
  <2>3. CASE TagSlot \/ Collected \/ DtorSlot BY <2>3, TagSlotSet, CollectedSet, DtorSlotSet
  <2>4. CASE UnrootSlot \/ FreeSlot BY <2>4, SlotLoopSet
  <2>5. ASSUME NEW r \in Ref, AddGarbage(r) \/ RemoveNested(r) PROVE SetStep
    BY <2>5, AddGarbageSet, RemoveSet
  <2>6. CASE \/ Trace \/ TagBegin \/ CollectWhiteDone \/ NestedDone \/ DtorReturns \/ DtorDone
             \/ DestroySlot \/ DestroyReturns \/ DestroyDone \/ After \/ Finish
             \/ (\E few \in BOOLEAN : AdjustThreshold(few)) \/ DropHeld
    BY <2>6, QuietSet
  <2>7. CASE PlaceHeld BY <2>7, PlaceHeldSet
  <2> QED BY <1>2, <2>1, <2>2, <2>3, <2>4, <2>5, <2>6, <2>7 DEF Collector
<1>3. CASE UNCHANGED vars
  <2>1. UNCHANGED <<buf, first_unused, pc, scan>>
    BY <1>3 DEF vars, bufVars, loopVars, compactVars, ctlVars
  <2>2. Top' = Top BY <2>1 DEF Top
  <2>3. InUse' = InUse BY <2>1, <2>2 DEF InUse, IsLive
  <2> QED BY <2>1, <2>3, KeptTags DEF SetStep
<1> QED BY <1>1, <1>2, <1>3 DEF Next

\* The array of slots, compressed addresses, the list of freed slots, growth
\* and compaction implement a set of tagged values: no operation loses or
\* changes an entry other than its own, whatever the sizes of the array.
THEOREM BufferRefines == Spec => ImplementsRootSet
<1>1. Init => RootSet!Init BY InitTags
<1>2. IInv /\ IInv' /\ PhaseInv /\ [Next]_vars => [RootSet!Next]_RootTags
  BY SetStepHolds DEF SetStep
<1>3. Spec => RootSet!Spec
  BY <1>1, <1>2, PhasesInductive, PTL DEF Spec, RootSet!Spec
<1> QED BY <1>3 DEF ImplementsRootSet
=============================================================================
