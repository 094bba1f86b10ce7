-------------------------- MODULE ZendFiberProofs --------------------------
(***************************************************************************)
(* Proofs about ZendFiber, for every set of fibers and every nesting of    *)
(* destructors: the contexts stay sound, and they are a stack of           *)
(* coroutines.                                                             *)
(***************************************************************************)
EXTENDS ZendFiber, FiniteSetTheorems, SequenceTheorems, WellFoundedInduction, TLAPS
-----------------------------------------------------------------------------
(* Numbers, sets and sequences                                             *)

\* A non-empty set of natural numbers has a least element.
LEMMA NatMin ==
  ASSUME NEW T \in SUBSET Nat, T # {}
  PROVE  \E x \in T : \A y \in T : x <= y
<1> DEFINE R == OpToRel(<, Nat)
<1>1. IsWellFoundedOn(R, Nat) BY NatLessThanWellFounded
<1>2. \A x, y \in T : y < x => <<y, x>> \in R BY DEF OpToRel
<1> HIDE DEF R
<1>3. PICK x \in T : \A y \in T : ~(<<y, x>> \in R) BY <1>1, WFMin
<1>4. ASSUME NEW y \in T PROVE x <= y
  <2>1. ~(y < x) BY <1>2, <1>3
  <2> QED BY <2>1
<1> QED BY <1>4

\* ... and after a pop.
LEMMA PopSeq ==
  ASSUME NEW S, NEW s \in Seq(S), s # <<>>
  PROVE  /\ Len(s) \in DOMAIN s /\ s[Len(s)] \in S
         /\ SubSeq(s, 1, Len(s) - 1) \in Seq(S)
         /\ SubSeq(s, 1, Len(s) - 1) = <<>> <=> Len(s) = 1
         /\ \A i \in DOMAIN SubSeq(s, 1, Len(s) - 1) :
                i \in DOMAIN s /\ SubSeq(s, 1, Len(s) - 1)[i] = s[i]
<1> DEFINE n == Len(s) - 1
           t == SubSeq(s, 1, n)
<1>1. /\ Len(s) \in Nat \ {0} /\ DOMAIN s = 1 .. Len(s) /\ \A i \in 1 .. Len(s) : s[i] \in S
  BY EmptySeq, LenProperties, ElementOfSeq
<1>2. n \in Nat /\ \A i \in 1 .. n : s[i] \in S BY <1>1
<1>3. /\ t \in Seq(S) /\ Len(t) = IF 1 <= n THEN n - 1 + 1 ELSE 0
      /\ \A i \in 1 .. (n - 1 + 1) : t[i] = s[1 + i - 1]
  <2> HIDE DEF n
  <2> QED BY <1>2, SubSeqProperties
<1>4. Len(t) = n /\ DOMAIN t = 1 .. n /\ \A i \in 1 .. n : t[i] = s[i]
  <2>1. n - 1 + 1 = n BY <1>2
  <2>2. \A i \in 1 .. n : 1 + i - 1 = i BY <1>2
  <2>3. Len(t) = n BY <1>2, <1>3, <2>1
  <2> HIDE DEF n, t
  <2>4. DOMAIN t = 1 .. n BY <1>3, <2>3, LenProperties
  <2> QED BY <1>2, <1>3, <2>1, <2>2, <2>3, <2>4
<1>5. t = <<>> <=> n = 0
  <2>1. Len(t) = 0 => t = <<>> BY <1>3, EmptySeq
  <2>2. Len(<<>>) = 0 BY EmptySeq
  <2> QED BY <1>4, <2>1, <2>2
<1> QED BY <1>1, <1>3, <1>4, <1>5

\* The contexts from Main to the one that runs.  Who has a caller is on it.
IsChain(s) ==
    /\ s \in Seq(Contexts) /\ Len(s) >= 1
    /\ s[1] = Main /\ s[Len(s)] = current
    /\ \A i, j \in 1..Len(s) : s[i] = s[j] => i = j
    /\ \A i \in 2..Len(s) : caller[s[i]] = s[i - 1]
    /\ \A c \in Contexts : caller[c] # Nobody => \E i \in 2..Len(s) : s[i] = c
    /\ Len(s) = Cardinality(Called) + 1
ChainInv == \E s : IsChain(s)

\* The VM's state is the one of the running context.
VmInv ==
    /\ \A c \in Contexts : status[c] = "running" <=> c = current
    /\ bailout = current
    /\ active \in {Nobody, current}
    /\ current = Main => active = Nobody
    /\ ~bailing /\ current # Main => active = current
    /\ bailing => fatal

\* What a context that waits has on its stack: the state to go on with.
InCall == {"resume", "destroy", "swept"}
FrameSound(c, i, frame) ==
    /\ frame.op \in Waits => i = Len(frames[c])
    /\ frame.op \in InCall =>
          /\ caller[frame.fiber] = c
          /\ frame.bailout = c
          /\ frame.previous = (IF c = Main THEN Nobody ELSE c)
          /\ frame.op # "resume" => "DESTROYED" \in flags[frame.fiber]
    /\ frame.op = "suspend" =>
          /\ c # Main /\ caller[c] = Nobody /\ i = 1
          /\ frame.active = c /\ frame.bailout = c
    /\ frame.op = "sweep" => c = Main /\ i = 1 /\ phase = "destructors"
    /\ frame.op = "swept destructor" => c = Main
WaitsInv == \A c \in Contexts : \A i \in DOMAIN frames[c] : FrameSound(c, i, frames[c][i])

\* Who waits has such a frame on top; who has not begun or has ended has none.
TopsInv ==
    \A f \in Fibers :
        /\ caller[f] # Nobody =>
              /\ status[f] \in {"running", "suspended"}
              /\ frames[caller[f]] # <<>>
              /\ frames[caller[f]][Len(frames[caller[f]])].op \in InCall
              /\ frames[caller[f]][Len(frames[caller[f]])].fiber = f
        /\ f \in Left => frames[f] # <<>> /\ frames[f][Len(frames[f])].op = "suspend"
        /\ status[f] \in {"init", "dead"} => frames[f] = <<>>

DepthInv ==
    /\ \A c \in Contexts : Len(frames[c]) <= Nesting + 1
    /\ Len(frames[current]) <= Nesting

BlockingInv ==
    /\ blocking >= Cardinality(Blocking)
    /\ fatal \/ blocking = Cardinality(Blocking)

\* The objects of fibers that are held, or on the chain, are alive.
ObjectsInv ==
    /\ \A f \in held : object[f] = "alive"
    /\ \A f \in destructed : object[f] # "none"
    /\ \A f \in Fibers : caller[f] # Nobody => object[f] = "alive"
    /\ \A f \in Left : "DESTROYED" \notin flags[f]
    /\ \A f \in stack : status[f] \in {"running", "suspended"}

\* Unless an error is fatal: who is left suspended is alive and the sweep will
\* find it; it cannot be begun once it was destructed; after the sweep no stack
\* is left.
SweepRuns == frames[Main] # <<>> /\ frames[Main][1].op = "sweep"
SweepInv ==
    ~fatal /\ ~late =>
        /\ \A f \in Left : object[f] = "alive" /\ f \notin destructed
        /\ \A f \in destructed : status[f] \in {"init", "dead"} \/ "DESTROYED" \in flags[f]
        /\ \/ SweepRuns \/ phase \in {"late", "over"}
           \/ \A f \in destructed : status[f] = "init" => f \notin held
        /\ phase \in {"late", "over"} => stack = {}

IInv ==
    /\ TypeOK /\ ChainInv /\ VmInv /\ WaitsInv /\ TopsInv
    /\ DepthInv /\ BlockingInv /\ ObjectsInv /\ SweepInv
-----------------------------------------------------------------------------
(* Sequences and counting                                                  *)

\* The part of the state that sequences of frames are made of.
LEMMA FrameSeqs ==
    ASSUME TypeOK, NEW c \in Contexts
    PROVE  /\ frames[c] \in Seq(Frames) /\ Len(frames[c]) \in Nat
           /\ DOMAIN frames[c] = 1..Len(frames[c])
           /\ frames[c] = <<>> <=> Len(frames[c]) = 0
           /\ frames[c] # <<>> => Len(frames[c]) >= 1 /\ Len(frames[c]) \in DOMAIN frames[c]
           /\ \A i \in DOMAIN frames[c] : frames[c][i] \in Frames
<1>1. frames[c] \in Seq(Frames)
  BY DEF TypeOK
<1>2. /\ Len(frames[c]) \in Nat /\ DOMAIN frames[c] = 1..Len(frames[c])
      /\ \A i \in 1..Len(frames[c]) : frames[c][i] \in Frames
  BY <1>1, LenProperties, ElementOfSeq
<1>3. frames[c] = <<>> <=> Len(frames[c]) = 0
  BY <1>1, EmptySeq
<1> QED BY <1>1, <1>2, <1>3

\* A push and a pop, frame by frame.
LEMMA Pushed ==
    ASSUME NEW s \in Seq(Frames), NEW e \in Frames
    PROVE  /\ Append(s, e) \in Seq(Frames)
           /\ Len(Append(s, e)) = Len(s) + 1 /\ Len(s) \in Nat
           /\ DOMAIN Append(s, e) = 1..Len(s) + 1 /\ DOMAIN s = 1..Len(s)
           /\ \A i \in 1..Len(s) : Append(s, e)[i] = s[i]
           /\ Append(s, e)[Len(s) + 1] = e
           /\ Append(s, e) # <<>>
<1>1. /\ Append(s, e) \in Seq(Frames) /\ Append(s, e) # <<>>
      /\ Len(Append(s, e)) = Len(s) + 1
      /\ \A i \in 1..Len(s) : Append(s, e)[i] = s[i]
      /\ Append(s, e)[Len(s) + 1] = e
  BY AppendProperties
<1> QED BY <1>1, LenProperties

LEMMA Popped ==
    ASSUME NEW s \in Seq(Frames), s # <<>>
    PROVE  /\ Front(s) \in Seq(Frames)
           /\ Last(s) = s[Len(s)] /\ Last(s) \in Frames
           /\ Len(s) \in Nat /\ Len(s) >= 1 /\ DOMAIN s = 1..Len(s)
           /\ Len(Front(s)) = Len(s) - 1 /\ DOMAIN Front(s) = 1..Len(s) - 1
           /\ \A i \in 1..Len(s) - 1 : Front(s)[i] = s[i]
           /\ Front(s) = <<>> <=> Len(s) = 1
<1>1. /\ Len(s) \in DOMAIN s /\ s[Len(s)] \in Frames
      /\ SubSeq(s, 1, Len(s) - 1) \in Seq(Frames)
      /\ SubSeq(s, 1, Len(s) - 1) = <<>> <=> Len(s) = 1
  BY PopSeq
<1>2. Len(s) \in Nat /\ DOMAIN s = 1..Len(s) /\ Len(s) >= 1
  BY <1>1, LenProperties
<1>3. Front(s) = SubSeq(s, 1, Len(s) - 1) /\ Last(s) = s[Len(s)]
  BY DEF Front, Last
<1>4. Len(Front(s)) = Len(s) - 1 /\ DOMAIN Front(s) = 1..Len(s) - 1
  BY <1>1, <1>2, <1>3
<1>5. \A i \in 1..Len(s) - 1 : Front(s)[i] = s[i]
  BY <1>1, <1>2, <1>3
<1> QED BY <1>1, <1>2, <1>3, <1>4, <1>5

LEMMA LessThanSucc ==
    ASSUME NEW k \in Nat, NEW m \in Nat, k <= m
    PROVE  k <= m + 1
OBVIOUS

LEMMA BlockingFinite == IsFiniteSet(Blocking) /\ IsFiniteSet(Blocking')
<1>1. IsFiniteSet(1..Nesting + 1)
  BY FiberAssumption, FS_Interval
<1>2. IsFiniteSet(Contexts)
  BY FiberAssumption, FS_AddElement DEF Contexts
<1>3. IsFiniteSet(Contexts \X (1..Nesting + 1))
  BY <1>1, <1>2, FS_Product
<1>4. Blocking \in SUBSET (Contexts \X (1..Nesting + 1))
  BY DEF Blocking
<1>5. Blocking' \in SUBSET (Contexts \X (1..Nesting + 1))
  BY DEF Blocking
<1> QED BY <1>3, <1>4, <1>5, FS_Subset

-----------------------------------------------------------------------------
(* The chain                                                               *)

LEMMA ChainFacts ==
    ASSUME TypeOK, ChainInv
    PROVE  /\ caller[Main] = Nobody
           /\ current # Main => caller[current] \in Contexts /\ caller[current] # current
           /\ \A c \in Contexts : caller[c] # current
           /\ \A c, d \in Contexts : caller[c] = caller[d] /\ caller[c] # Nobody => c = d
           /\ \A c \in Contexts : caller[c] \in Fibers => caller[caller[c]] # Nobody
           /\ current = Main => \A c \in Contexts : caller[c] = Nobody
<1> PICK s : IsChain(s)
  BY DEF ChainInv
<1>1. /\ s \in Seq(Contexts) /\ Len(s) \in Nat /\ Len(s) >= 1
      /\ \A i \in 1..Len(s) : s[i] \in Contexts
      /\ s[1] = Main /\ s[Len(s)] = current
      /\ \A i, j \in 1..Len(s) : s[i] = s[j] => i = j
      /\ \A i \in 2..Len(s) : caller[s[i]] = s[i - 1]
      /\ \A c \in Contexts : caller[c] # Nobody => \E i \in 2..Len(s) : s[i] = c
  BY ElementOfSeq, LenProperties DEF IsChain
<1>2. caller[Main] = Nobody
  BY <1>1 DEF Contexts
<1>3. ASSUME current # Main PROVE caller[current] \in Contexts /\ caller[current] # current
  BY <1>1, <1>3
<1>4. \A c \in Contexts : caller[c] # current
  <2> SUFFICES ASSUME NEW c \in Contexts, caller[c] = current PROVE FALSE
    OBVIOUS
  <2>1. current # Nobody
    BY FiberAssumption DEF TypeOK
  <2>2. PICK i \in 2..Len(s) : s[i] = c
    BY <1>1, <2>1
  <2>3. s[i - 1] = s[Len(s)] /\ i - 1 \in 1..Len(s) /\ Len(s) \in 1..Len(s)
    BY <1>1, <2>2
  <2> QED BY <1>1, <2>3
<1>5. ASSUME NEW c \in Contexts, NEW d \in Contexts, caller[c] = caller[d], caller[c] # Nobody
      PROVE  c = d
  <2>1. PICK i \in 2..Len(s) : s[i] = c
    BY <1>1, <1>5
  <2>2. PICK j \in 2..Len(s) : s[j] = d
    BY <1>1, <1>5
  <2>3. s[i - 1] = s[j - 1] /\ i - 1 \in 1..Len(s) /\ j - 1 \in 1..Len(s)
    BY <1>1, <1>5, <2>1, <2>2
  <2>4. i - 1 = j - 1
    BY <1>1, <2>3
  <2>5. i = j
    BY <1>1, <2>4
  <2> QED BY <2>1, <2>2, <2>5
<1>6. ASSUME current = Main PROVE \A c \in Contexts : caller[c] = Nobody
  <2>1. 1 \in 1..Len(s) /\ Len(s) \in 1..Len(s) /\ s[1] = s[Len(s)]
    BY <1>1, <1>6
  <2>2. Len(s) = 1
    BY <1>1, <2>1
  <2> QED BY <1>1, <2>2
<1>7. ASSUME NEW c \in Contexts, caller[c] \in Fibers PROVE caller[caller[c]] # Nobody
  <2>1. Nobody \notin Contexts /\ Main \notin Fibers /\ Fibers \subseteq Contexts
    BY FiberAssumption DEF Contexts
  <2>2. PICK i \in 2..Len(s) : s[i] = c
    BY <1>1, <1>7, <2>1
  <2>3. s[i - 1] = caller[c] /\ i - 1 # 1
    BY <1>1, <1>7, <2>1, <2>2
  <2>4. i - 1 \in 2..Len(s) /\ i - 2 \in 1..Len(s) /\ (i - 1) - 1 = i - 2
    BY <1>1, <2>3
  <2>5. caller[s[i - 1]] = s[i - 2] /\ s[i - 2] \in Contexts
    BY <1>1, <2>4
  <2> QED BY <2>1, <2>3, <2>5
<1> QED BY <1>2, <1>3, <1>4, <1>5, <1>6, <1>7

\* A context that is called comes on top of the chain ...
LEMMA ChainPush ==
    ASSUME TypeOK, NEW s, IsChain(s), NEW f \in Fibers, caller[f] = Nobody, f # current,
           current' = f, caller' = [caller EXCEPT ![f] = current]
    PROVE  IsChain(Append(s, f))'
<1> DEFINE t == Append(s, f)
<1>1. /\ s \in Seq(Contexts) /\ Len(s) \in Nat /\ Len(s) >= 1
      /\ \A i \in 1..Len(s) : s[i] \in Contexts
      /\ s[1] = Main /\ s[Len(s)] = current
      /\ \A i, j \in 1..Len(s) : s[i] = s[j] => i = j
      /\ \A i \in 2..Len(s) : caller[s[i]] = s[i - 1]
      /\ \A c \in Contexts : caller[c] # Nobody => \E i \in 2..Len(s) : s[i] = c
      /\ Len(s) = Cardinality(Called) + 1
  BY ElementOfSeq, LenProperties DEF IsChain
<1>2. f \in Contexts /\ f # Main /\ Main \in Contexts /\ Nobody \notin Contexts
  BY FiberAssumption DEF Contexts
<1>3. caller \in [Contexts -> Contexts \cup {Nobody}] /\ current \in Contexts
  BY DEF TypeOK
<1>4. /\ t \in Seq(Contexts) /\ Len(t) = Len(s) + 1
      /\ \A i \in 1..Len(s) : t[i] = s[i]
      /\ t[Len(s) + 1] = f
  BY <1>1, <1>2, AppendProperties
<1>5. \A i \in 1..Len(s) : s[i] # f
  BY <1>1, <1>2, <1>3
<1>6. t[1] = Main /\ t[Len(t)] = f /\ Len(t) >= 1
  BY <1>1, <1>4
<1>7. \A i, j \in 1..Len(t) : t[i] = t[j] => i = j
  BY <1>1, <1>4, <1>5
<1>8. \A i \in 2..Len(t) : caller'[t[i]] = t[i - 1]
  <2> SUFFICES ASSUME NEW i \in 2..Len(t) PROVE caller'[t[i]] = t[i - 1]
    OBVIOUS
  <2>1. CASE i = Len(s) + 1
    BY <1>1, <1>2, <1>3, <1>4, <2>1
  <2>2. CASE i \in 2..Len(s)
    <3>1. t[i] = s[i] /\ t[i - 1] = s[i - 1] /\ s[i] \in Contexts /\ s[i] # f
      BY <1>1, <1>4, <1>5, <2>2
    <3> QED BY <1>1, <1>3, <2>2, <3>1
  <2> QED BY <1>1, <1>4, <2>1, <2>2
<1>9. \A c \in Contexts : caller'[c] # Nobody => \E i \in 2..Len(t) : t[i] = c
  <2> SUFFICES ASSUME NEW c \in Contexts, caller'[c] # Nobody
               PROVE  \E i \in 2..Len(t) : t[i] = c
    OBVIOUS
  <2>1. CASE c = f
    BY <1>1, <1>4, <2>1
  <2>2. CASE c # f
    <3>1. PICK i \in 2..Len(s) : s[i] = c
      BY <1>1, <1>3, <2>2
    <3> QED BY <1>1, <1>4, <3>1
  <2> QED BY <2>1, <2>2
<1>10. Len(t) = Cardinality(Called') + 1
  <2>1. Called' = Called \cup {f} /\ f \notin Called
    BY <1>2, <1>3 DEF Called, Contexts
  <2>2. IsFiniteSet(Called)
    BY FiberAssumption, FS_Subset DEF Called
  <2>3. Cardinality(Called') = Cardinality(Called) + 1
    BY <2>1, <2>2, FS_AddElement
  <2>4. Cardinality(Called) \in Nat
    BY <2>2, FS_CardinalityType
  <2> QED BY <1>1, <1>4, <2>3, <2>4
<1> HIDE DEF t
<1>11. IsChain(t)'
  BY <1>4, <1>6, <1>7, <1>8, <1>9, <1>10 DEF IsChain
<1> QED BY <1>11 DEF t

\* ... and goes from there.
LEMMA ChainPop ==
    ASSUME TypeOK, NEW s, IsChain(s), current # Main,
           current' = caller[current], caller' = [caller EXCEPT ![current] = Nobody]
    PROVE  /\ IsChain(SubSeq(s, 1, Len(s) - 1))'
           /\ Len(s) > 1 /\ s[Len(s)] = current
<1> DEFINE n == Len(s) - 1
           t == SubSeq(s, 1, n)
<1>1. /\ s \in Seq(Contexts) /\ Len(s) \in Nat /\ Len(s) >= 1
      /\ \A i \in 1..Len(s) : s[i] \in Contexts
      /\ s[1] = Main /\ s[Len(s)] = current
      /\ \A i, j \in 1..Len(s) : s[i] = s[j] => i = j
      /\ \A i \in 2..Len(s) : caller[s[i]] = s[i - 1]
      /\ \A c \in Contexts : caller[c] # Nobody => \E i \in 2..Len(s) : s[i] = c
      /\ Len(s) = Cardinality(Called) + 1
  BY ElementOfSeq, LenProperties DEF IsChain
<1>2. current \in Fibers /\ Main \in Contexts /\ Nobody \notin Contexts
  BY FiberAssumption DEF Contexts, TypeOK
<1>3. caller \in [Contexts -> Contexts \cup {Nobody}] /\ current \in Contexts
  BY DEF TypeOK
<1>4. Len(s) > 1 /\ n \in Nat /\ n >= 1
  BY <1>1
<1>5. t \in Seq(Contexts) /\ Len(t) = n /\ \A i \in 1..n : t[i] = s[i]
  BY <1>1, <1>4
<1>6. \A i \in 1..n : s[i] # current
  BY <1>1, <1>4
<1>7. t[1] = Main /\ t[Len(t)] = current' /\ Len(t) >= 1
  <2>1. t[n] = s[n] /\ caller[s[Len(s)]] = s[Len(s) - 1] /\ t[1] = s[1]
    BY <1>1, <1>4, <1>5
  <2> QED BY <1>1, <1>4, <1>5, <2>1
<1>8. \A i, j \in 1..Len(t) : t[i] = t[j] => i = j
  BY <1>1, <1>4, <1>5
<1>9. \A i \in 2..Len(t) : caller'[t[i]] = t[i - 1]
  <2> SUFFICES ASSUME NEW i \in 2..Len(t) PROVE caller'[t[i]] = t[i - 1]
    OBVIOUS
  <2>1. t[i] = s[i] /\ t[i - 1] = s[i - 1] /\ s[i] \in Contexts /\ s[i] # current
    BY <1>1, <1>4, <1>5, <1>6
  <2>2. caller[s[i]] = s[i - 1]
    BY <1>1, <1>4, <1>5
  <2> QED BY <1>3, <2>1, <2>2
<1>10. \A c \in Contexts : caller'[c] # Nobody => \E i \in 2..Len(t) : t[i] = c
  <2> SUFFICES ASSUME NEW c \in Contexts, caller'[c] # Nobody
               PROVE  \E i \in 2..Len(t) : t[i] = c
    OBVIOUS
  <2>1. c # current /\ caller[c] # Nobody
    BY <1>3
  <2>2. PICK i \in 2..Len(s) : s[i] = c
    BY <1>1, <2>1
  <2>3. i \in 2..n
    BY <1>1, <1>4, <2>1, <2>2
  <2> QED BY <1>4, <1>5, <2>2, <2>3
<1>11. Len(t) = Cardinality(Called') + 1
  <2>1. caller[current] # Nobody
    BY <1>1, <1>2, <1>4
  <2>2. Called' = Called \ {current} /\ current \in Called
    BY <1>2, <1>3, <2>1 DEF Called, Contexts
  <2>3. IsFiniteSet(Called)
    BY FiberAssumption, FS_Subset DEF Called
  <2>4. Cardinality(Called') = Cardinality(Called) - 1
    BY <2>2, <2>3, FS_RemoveElement
  <2>5. Cardinality(Called) \in Nat
    BY <2>3, FS_CardinalityType
  <2> QED BY <1>1, <1>5, <2>4, <2>5
<1> HIDE DEF t
<1>12. IsChain(t)'
  BY <1>5, <1>7, <1>8, <1>9, <1>10, <1>11 DEF IsChain
<1> QED BY <1>1, <1>4, <1>12 DEF t

-----------------------------------------------------------------------------
(* Switches                                                                *)

LEMMA FrameAt ==
    ASSUME IInv, NEW c \in Contexts, NEW i \in DOMAIN frames[c]
    PROVE  FrameSound(c, i, frames[c][i])
BY DEF IInv, WaitsInv

\* The running context has only calls of destructors on its stack.
LEMMA CurrentFrames ==
    ASSUME IInv
    PROVE  /\ \A i \in DOMAIN frames[current] : frames[current][i].op \notin Waits
           /\ current # Main =>
                 \A i \in DOMAIN frames[current] : frames[current][i].op = "destructor"
<1>1. current \in Contexts
  BY DEF IInv, TypeOK
<1>2. \A c \in Contexts : caller[c] # current
  BY ChainFacts DEF IInv
<1>3. current # Main => caller[current] # Nobody
  BY ChainFacts, FiberAssumption DEF IInv
<1>4. ASSUME NEW i \in DOMAIN frames[current]
      PROVE  /\ frames[current][i].op \notin Waits
             /\ current # Main => frames[current][i].op = "destructor"
  <2> DEFINE frame == frames[current][i]
  <2>1. frame \in Frames
    BY <1>1, FrameSeqs DEF IInv
  <2>2. frame.op \in Waits => frame.fiber \in Contexts
    BY <2>1 DEF Frames, Waits, Contexts
  <2>3. /\ frame.op \in InCall => caller[frame.fiber] = current
        /\ frame.op = "suspend" => current # Main /\ caller[current] = Nobody
        /\ frame.op = "sweep" => current = Main
        /\ frame.op = "swept destructor" => current = Main
    <3>1. FrameSound(current, i, frames[current][i])
      BY <1>1, FrameAt
    <3> QED BY <3>1 DEF FrameSound
  <2>4. frame.op \in Waits \cup {"destructor", "swept destructor", "sweep"}
    BY <2>1 DEF Frames
  <2>5. frame.op \notin Waits
    BY <1>2, <1>3, <2>2, <2>3 DEF Waits, InCall
  <2> QED BY <2>3, <2>4, <2>5
<1> QED BY <1>4

\* What zend_fiber_resume comes to, for a fiber that is not on the chain.
Pushes(f, op) ==
    /\ current' = f /\ active' = f /\ bailout' = f
    /\ caller' = [caller EXCEPT ![f] = current]
    /\ status' = [status EXCEPT ![f] = "running", ![current] = "suspended"]
    /\ frames' = [frames EXCEPT ![current] = Append(@, Frame(op, f, active, f)), ![f] = <<>>]

LEMMA EnterPushes ==
    ASSUME IInv, NEW f \in Fibers, NEW op, caller[f] = Nobody,
           status[f] \in {"init", "suspended"}, Enter(f, op)
    PROVE  f # current /\ Pushes(f, op)
<1>1. f # current
  BY DEF IInv, VmInv, TypeOK, Contexts
<1>2. f \in Contexts /\ current \in Contexts /\ frames \in [Contexts -> Seq(Frames)]
  BY DEF IInv, TypeOK, Contexts
<1>3. CASE status[f] = "init"
  <2>1. frames[f] = <<>>
    BY <1>3 DEF IInv, TopsInv
  <2>2. frames' = [frames EXCEPT ![current] = Append(@, Frame(op, f, active, f))]
    BY <1>3 DEF Enter
  <2>3. frames' = [frames EXCEPT ![current] = Append(@, Frame(op, f, active, f)), ![f] = <<>>]
    BY <1>1, <1>2, <2>1, <2>2
  <2> QED BY <1>1, <1>3, <2>3 DEF Enter, Pushes
<1>4. CASE status[f] = "suspended"
  <2>1. f \in Left
    BY <1>4 DEF Left
  <2>2. frames[f] # <<>> /\ frames[f][Len(frames[f])].op = "suspend"
    BY <2>1 DEF IInv, TopsInv
  <2>3. Len(frames[f]) \in DOMAIN frames[f]
    BY <1>2, <2>2, FrameSeqs DEF IInv
  <2>4. /\ Len(frames[f]) = 1
        /\ frames[f][Len(frames[f])].active = f
        /\ frames[f][Len(frames[f])].bailout = f
    <3>1. FrameSound(f, Len(frames[f]), frames[f][Len(frames[f])])
      BY <1>2, <2>3, FrameAt
    <3> QED BY <2>2, <3>1 DEF FrameSound
  <2>5. Front(frames[f]) = <<>> /\ Last(frames[f]) = frames[f][Len(frames[f])]
    BY <1>2, <2>2, <2>4, Popped
  <2>6. Top(f).active = f /\ Top(f).bailout = f
    BY <2>2, <2>4, <2>5 DEF Top
  <2>7. frames' = [frames EXCEPT ![current] = Append(@, Frame(op, f, active, f)),
                                 ![f] = Front(@)]
    BY <1>4 DEF Enter
  <2>8. frames' = [frames EXCEPT ![current] = Append(@, Frame(op, f, active, f)), ![f] = <<>>]
    BY <1>1, <1>2, <2>5, <2>7
  <2>9. active' = f /\ bailout' = f
    BY <1>4, <2>6 DEF Enter
  <2> QED BY <1>1, <2>8, <2>9 DEF Enter, Pushes
<1> QED BY <1>3, <1>4

\* Frames after it, one by one.
LEMMA PushFrames ==
    ASSUME IInv, NEW f \in Fibers, NEW op \in InCall, f # current, Pushes(f, op)
    PROVE  /\ frames' \in [Contexts -> Seq(Frames)]
           /\ frames'[f] = <<>>
           /\ \A c \in Contexts \ {f, current} : frames'[c] = frames[c]
           /\ Len(frames'[current]) = Len(frames[current]) + 1 /\ Len(frames[current]) \in Nat
           /\ DOMAIN frames'[current] = 1..Len(frames[current]) + 1
           /\ DOMAIN frames[current] = 1..Len(frames[current])
           /\ \A i \in 1..Len(frames[current]) : frames'[current][i] = frames[current][i]
           /\ frames'[current][Len(frames[current]) + 1] = Frame(op, f, active, f)
           /\ frames'[current] # <<>>
<1> DEFINE e == Frame(op, f, active, f)
<1>1. /\ f \in Contexts /\ current \in Contexts /\ frames \in [Contexts -> Seq(Frames)]
      /\ active \in Fibers \cup {Nobody} /\ bailout \in Contexts
  BY DEF IInv, TypeOK, Contexts
<1>2. e \in Frames
  BY <1>1 DEF Frame, Frames, InCall, Waits
<1>3. /\ frames'[f] = <<>> /\ frames'[current] = Append(frames[current], e)
      /\ \A c \in Contexts \ {f, current} : frames'[c] = frames[c]
  BY <1>1 DEF Pushes
<1>4. Append(frames[current], e) \in Seq(Frames) /\ <<>> \in Seq(Frames)
  BY <1>1, <1>2, Pushed
<1>5. frames' \in [Contexts -> Seq(Frames)]
  BY <1>1, <1>4 DEF Pushes
<1> HIDE DEF e
<1>6. /\ Len(Append(frames[current], e)) = Len(frames[current]) + 1 /\ Len(frames[current]) \in Nat
      /\ DOMAIN Append(frames[current], e) = 1..Len(frames[current]) + 1
      /\ DOMAIN frames[current] = 1..Len(frames[current])
      /\ \A i \in 1..Len(frames[current]) :
             Append(frames[current], e)[i] = frames[current][i]
      /\ Append(frames[current], e)[Len(frames[current]) + 1] = e
      /\ Append(frames[current], e) # <<>>
  BY <1>1, <1>2, Pushed
<1> QED BY <1>3, <1>5, <1>6 DEF e

LEMMA PushKeeps ==
    ASSUME IInv, NEW f \in Fibers, NEW op \in InCall, f # current, caller[f] = Nobody,
           Pushes(f, op), ~bailing, UNCHANGED <<bailing, phase, fatal>>,
           \A g \in Fibers : flags[g] \subseteq flags'[g],
           op # "resume" => "DESTROYED" \in flags'[f]
    PROVE  ChainInv' /\ VmInv' /\ WaitsInv' /\ TopsInv' /\ DepthInv'
<1>1. /\ f \in Contexts /\ f # Main /\ current \in Contexts /\ Main \in Contexts
      /\ Nobody \notin Contexts
      /\ caller \in [Contexts -> Contexts \cup {Nobody}] /\ status \in [Contexts -> Statuses]
  BY FiberAssumption DEF IInv, TypeOK, Contexts
<1>2. /\ caller'[f] = current /\ \A c \in Contexts \ {f} : caller'[c] = caller[c]
      /\ status'[f] = "running" /\ status'[current] = "suspended"
      /\ \A c \in Contexts \ {f, current} : status'[c] = status[c]
      /\ current' = f
  BY <1>1 DEF Pushes
<1>3. /\ \A c \in Contexts : caller[c] # current
      /\ current # Main => caller[current] # Nobody
  BY ChainFacts, FiberAssumption DEF IInv
<1>4. ChainInv'
  <2>1. PICK s : IsChain(s)
    BY DEF IInv, ChainInv
  <2>2. IsChain(Append(s, f))'
    BY <2>1, ChainPush DEF IInv, Pushes
  <2> QED BY <2>2 DEF ChainInv
<1>5. VmInv'
  BY <1>1, <1>2 DEF IInv, VmInv, Pushes
<1>6. WaitsInv'
  <2> SUFFICES ASSUME NEW c \in Contexts, NEW i \in DOMAIN frames'[c]
               PROVE  FrameSound(c, i, frames[c][i])'
    BY DEF WaitsInv
  <2>1. c # f
    <3>1. DOMAIN <<>> = {}
      OBVIOUS
    <3> QED BY <3>1, PushFrames
  <2>2. CASE c = current /\ i = Len(frames[current]) + 1
    <3>1. frames'[c][i] = Frame(op, f, active, f) /\ i = Len(frames'[c])
      BY <2>2, PushFrames
    <3>2. /\ frames'[c][i].op = op /\ frames'[c][i].fiber = f
          /\ frames'[c][i].previous = active /\ frames'[c][i].bailout = bailout
      BY <3>1 DEF Frame
    <3>3. bailout = c /\ active = (IF c = Main THEN Nobody ELSE c)
      BY <2>2 DEF IInv, VmInv
    <3> QED BY <1>2, <2>2, <3>1, <3>2, <3>3 DEF InCall, FrameSound
  <2>3. CASE c = current /\ i # Len(frames[current]) + 1
    <3>1. i \in DOMAIN frames[current] /\ frames'[c][i] = frames[c][i]
      BY <2>3, PushFrames
    <3>2. frames[c][i].op \notin Waits
      BY <2>3, <3>1, CurrentFrames
    <3>3. FrameSound(c, i, frames[c][i])
      BY <2>3, <3>1, FrameAt
    <3> QED BY <3>1, <3>2, <3>3 DEF Waits, InCall, FrameSound
  <2>4. CASE c # current
    <3>1. frames'[c] = frames[c] /\ frames[c][i] \in Frames /\ i \in DOMAIN frames[c]
      BY <2>1, <2>4, PushFrames, FrameSeqs DEF IInv
    <3>2. FrameSound(c, i, frames[c][i])
      BY <3>1, FrameAt
    <3>3. frames[c][i].op \in InCall => frames[c][i].fiber \in Fibers
      BY <3>1 DEF Frames, InCall, Waits
    <3>4. caller[c] = caller'[c] /\ \A g \in Fibers : caller[g] = c => caller'[g] = c
      BY <1>1, <1>2, <2>1 DEF Contexts
    <3> QED BY <1>1, <3>1, <3>2, <3>3, <3>4 DEF FrameSound
  <2> QED BY <2>1, <2>2, <2>3, <2>4
<1>7. TopsInv'
  <2> SUFFICES ASSUME NEW g \in Fibers
               PROVE
        /\ caller'[g] # Nobody =>
              /\ status'[g] \in {"running", "suspended"}
              /\ frames'[caller'[g]] # <<>>
              /\ frames'[caller'[g]][Len(frames'[caller'[g]])].op \in InCall
              /\ frames'[caller'[g]][Len(frames'[caller'[g]])].fiber = g
        /\ status'[g] = "suspended" /\ caller'[g] = Nobody =>
              frames'[g] # <<>> /\ frames'[g][Len(frames'[g])].op = "suspend"
        /\ status'[g] \in {"init", "dead"} => frames'[g] = <<>>
    BY DEF TopsInv, Left
  <2>1. CASE g = f
    <3>1. /\ frames'[current] # <<>>
          /\ frames'[current][Len(frames'[current])] = Frame(op, f, active, f)
      BY PushFrames
    <3>2. Frame(op, f, active, f).op = op /\ Frame(op, f, active, f).fiber = f
      BY DEF Frame
    <3> QED BY <1>1, <1>2, <2>1, <3>1, <3>2
  <2>2. CASE g = current
    <3>1. /\ caller'[g] = caller[g] /\ caller[g] # Nobody /\ g \in Contexts
          /\ caller[g] # f /\ caller[g] # current /\ caller[g] \in Contexts
      <4>1. caller[g] # Nobody /\ g \in Contexts
        BY <1>1, <1>3, <2>2, FiberAssumption DEF Contexts
      <4>2. caller[g] \in Contexts /\ caller[g] # current
        BY <1>1, <1>3, <4>1
      <4> QED BY <1>1, <1>2, <2>2, <4>1, <4>2, ChainFacts DEF IInv
    <3>2. frames'[caller'[g]] = frames[caller[g]]
      BY <3>1, PushFrames
    <3> QED BY <1>2, <2>2, <3>1, <3>2 DEF IInv, TopsInv
  <2>3. CASE g \notin {f, current}
    <3>1. /\ caller'[g] = caller[g] /\ status'[g] = status[g] /\ frames'[g] = frames[g]
          /\ g \in Contexts
      BY <1>2, <2>3, PushFrames DEF Contexts
    <3>2. caller[g] # Nobody => caller[g] \in Contexts /\ caller[g] # current
      BY <1>1, <1>3, <3>1
    <3>3. caller[g] # Nobody => caller[g] # f
      BY <1>1, <3>1, ChainFacts DEF IInv
    <3>4. caller[g] # Nobody => frames'[caller[g]] = frames[caller[g]]
      BY <3>2, <3>3, PushFrames
    <3> QED BY <3>1, <3>4 DEF IInv, TopsInv, Left
  <2> QED BY <2>1, <2>2, <2>3
<1>8. DepthInv'
  <2>1. \A c \in Contexts : Len(frames'[c]) <= Nesting + 1
    <3> SUFFICES ASSUME NEW c \in Contexts PROVE Len(frames'[c]) <= Nesting + 1
      OBVIOUS
    <3>1. Len(frames[current]) <= Nesting /\ Nesting \in Nat \ {0}
      BY FiberAssumption DEF IInv, DepthInv
    <3>2. Len(frames[c]) <= Nesting + 1
      BY DEF IInv, DepthInv
    <3>3. CASE c = f
      BY <3>1, <3>3, PushFrames
    <3>4. CASE c = current
      BY <3>1, <3>4, PushFrames
    <3>5. CASE c \notin {f, current}
      BY <3>2, <3>5, PushFrames
    <3> QED BY <3>3, <3>4, <3>5
  <2>2. Len(frames'[current']) <= Nesting
    <3>1. frames'[f] = <<>> /\ Nesting >= 0
      BY FiberAssumption, PushFrames
    <3> QED BY <1>2, <3>1
  <2> QED BY <2>1, <2>2 DEF DepthInv
<1> QED BY <1>4, <1>5, <1>6, <1>7, <1>8

\* What every way back to the caller comes to: the context that is left has
\* status x and the frames X.
Pops(x, X) ==
    /\ current' = caller[current] /\ bailout' = caller[current]
    /\ active' = IF bailing' \/ caller[current] = Main THEN Nobody ELSE caller[current]
    /\ caller' = [caller EXCEPT ![current] = Nobody]
    /\ status' = [status EXCEPT ![current] = x, ![caller[current]] = "running"]
    /\ frames' = [frames EXCEPT ![current] = X, ![caller[current]] = Front(@)]

\* The caller waits in a call of the running fiber.
LEMMA CallerWaits ==
    ASSUME IInv, current # Main
    PROVE  LET c == caller[current]
               n == Len(frames[c])
           IN  /\ current \in Fibers /\ c \in Contexts /\ c # current
               /\ frames[c] \in Seq(Frames) /\ frames[c] # <<>>
               /\ n \in Nat /\ n \in DOMAIN frames[c] /\ DOMAIN frames[c] = 1..n
               /\ frames[c][n] \in Frames /\ frames[c][n].op \in InCall
               /\ frames[c][n].fiber = current /\ frames[c][n].bailout = c
               /\ frames[c][n].previous = (IF c = Main THEN Nobody ELSE c)
               /\ frames[c][n].op # "resume" => "DESTROYED" \in flags[current]
               /\ \A i \in 1..n - 1 : frames[c][i].op \notin Waits
<1> DEFINE c == caller[current]
           n == Len(frames[c])
<1>1. /\ current \in Fibers /\ current \in Contexts
      /\ c \in Contexts /\ c # current /\ c # Nobody
  BY ChainFacts, FiberAssumption DEF IInv, TypeOK, Contexts
<1> HIDE DEF c
<1>2. /\ frames[c] # <<>> /\ frames[c][n].op \in InCall /\ frames[c][n].fiber = current
  BY <1>1 DEF IInv, TopsInv, c
<1>3. /\ frames[c] \in Seq(Frames) /\ n \in Nat /\ n \in DOMAIN frames[c]
      /\ DOMAIN frames[c] = 1..n /\ frames[c][n] \in Frames
  BY <1>1, <1>2, FrameSeqs DEF IInv
<1>4. FrameSound(c, n, frames[c][n])
  BY <1>1, <1>3, FrameAt
<1>5. /\ frames[c][n].bailout = c
      /\ frames[c][n].previous = (IF c = Main THEN Nobody ELSE c)
      /\ frames[c][n].op # "resume" => "DESTROYED" \in flags[current]
  BY <1>2, <1>4 DEF FrameSound
<1>6. ASSUME NEW i \in 1..n - 1 PROVE frames[c][i].op \notin Waits
  <2>1. FrameSound(c, i, frames[c][i]) /\ i # n
    BY <1>1, <1>3, <1>6, FrameAt
  <2> QED BY <2>1 DEF FrameSound
<1> QED BY <1>1, <1>2, <1>3, <1>5, <1>6 DEF c

LEMMA ArrivePops ==
    ASSUME IInv, current # Main, NEW transfer, NEW x, NEW X, NEW st, NEW fr, NEW fl,
           st = [status EXCEPT ![current] = x], fr = [frames EXCEPT ![current] = X],
           Arrive(caller[current], current, transfer, st, fr, fl)
    PROVE  LET top == frames[caller[current]][Len(frames[caller[current]])]
               closed == top.op = "destroy" /\ transfer # "bailout"
           IN  /\ Pops(x, X)
               /\ flags' = fl /\ bailing' = (transfer = "bailout")
               /\ stack' = IF x = "dead" THEN stack \ {current} ELSE stack
               /\ blocking' = IF closed THEN blocking - 1 ELSE blocking
               /\ object' = IF closed /\ current \notin held
                            THEN [object EXCEPT ![current] = "freed"] ELSE object
<1> DEFINE c == caller[current]
           top == frames[c][Len(frames[c])]
<1>1. /\ current \in Contexts /\ c \in Contexts /\ c # current
      /\ frames \in [Contexts -> Seq(Frames)] /\ status \in [Contexts -> Statuses]
      /\ frames[c] \in Seq(Frames) /\ frames[c] # <<>>
      /\ top.fiber = current /\ top.bailout = c
      /\ top.previous = (IF c = Main THEN Nobody ELSE c)
  BY CallerWaits DEF IInv, TypeOK
<1>2. fr[c] = frames[c] /\ st[current] = x
  BY <1>1
<1>3. Last(fr[c]) = top
  BY <1>1, <1>2, Popped
<1>4. /\ status' = [status EXCEPT ![current] = x, ![c] = "running"]
      /\ frames' = [frames EXCEPT ![current] = X, ![c] = Front(@)]
  BY <1>1, <1>2 DEF Arrive
<1> HIDE DEF top, c
<1>5. /\ current' = c /\ bailout' = top.bailout
      /\ active' = IF transfer = "bailout" THEN Nobody ELSE top.previous
      /\ caller' = [caller EXCEPT ![current] = Nobody]
      /\ bailing' = (transfer = "bailout") /\ flags' = fl
      /\ stack' = IF x = "dead" THEN stack \ {current} ELSE stack
  BY <1>2, <1>3 DEF Arrive, ActiveAfter, StackAfter, c
<1>7. blocking' = IF top.op = "destroy" /\ transfer # "bailout" THEN blocking - 1 ELSE blocking
  BY <1>3 DEF Arrive, c
<1>8. object' = IF (top.op = "destroy" /\ transfer # "bailout") /\ top.fiber \notin held
                THEN [object EXCEPT ![top.fiber] = "freed"] ELSE object
  BY <1>3 DEF Arrive, c
<1>6. Pops(x, X)
  BY <1>1, <1>4, <1>5 DEF Pops, c
<1> QED BY <1>1, <1>5, <1>6, <1>7, <1>8 DEF c, top

\* What is left behind by the end of a fiber, and by its suspension.
Suspended == Append(<<>>, Frame("suspend", current, current, current))
Leaves(x, X) == <<x, X>> \in {<<"dead", <<>>>>, <<"suspended", Suspended>>}

\* Frames after it, one by one.
LEMMA PopFrames ==
    ASSUME IInv, current # Main, NEW x, NEW X, Leaves(x, X), Pops(x, X)
    PROVE  LET c == caller[current]
               n == Len(frames[c])
           IN  /\ frames' \in [Contexts -> Seq(Frames)]
               /\ frames'[current] = X /\ Len(X) \in {0, 1} /\ DOMAIN X = 1..Len(X)
               /\ X # <<>> => Len(X) = 1 /\ X[1] = Frame("suspend", current, current, current)
               /\ X = Suspended => X # <<>>
               /\ \A d \in Contexts \ {c, current} : frames'[d] = frames[d]
               /\ Len(frames'[c]) = n - 1 /\ DOMAIN frames'[c] = 1..n - 1
               /\ \A i \in 1..n - 1 : frames'[c][i] = frames[c][i]
<1> DEFINE c == caller[current]
           n == Len(frames[c])
<1>1. /\ current \in Fibers /\ current \in Contexts /\ c \in Contexts /\ c # current
      /\ frames[c] \in Seq(Frames) /\ frames[c] # <<>>
      /\ frames \in [Contexts -> Seq(Frames)] /\ bailout = current
  BY CallerWaits DEF IInv, TypeOK, VmInv
<1>2. Frame("suspend", current, current, current) \in Frames
  BY <1>1 DEF Frame, Frames, Waits
<1>3. /\ X \in Seq(Frames) /\ Len(X) \in {0, 1} /\ DOMAIN X = 1..Len(X)
      /\ X # <<>> => Len(X) = 1 /\ X[1] = Frame("suspend", current, current, current)
      /\ X = Suspended => X # <<>>
  <2>1. CASE X = <<>> /\ X # Suspended
    BY <2>1
  <2>2. CASE X = Suspended
    <3> DEFINE e == Frame("suspend", current, current, current)
    <3> HIDE DEF e
    <3>1. X = Append(<<>>, e) /\ e \in Frames
      BY <1>2, <2>2 DEF Suspended, e
    <3>2. <<>> \in Seq(Frames) /\ Len(<<>>) = 0
      BY EmptySeq
    <3>3. /\ X \in Seq(Frames) /\ X # <<>> /\ Len(X) = Len(<<>>) + 1
          /\ DOMAIN X = 1..Len(<<>>) + 1 /\ X[Len(<<>>) + 1] = e
      BY <3>1, <3>2, Pushed
    <3> QED BY <3>2, <3>3 DEF e
  <2> QED BY <2>1, <2>2 DEF Leaves
<1> HIDE DEF c
<1>4. /\ frames'[current] = X /\ frames'[c] = Front(frames[c])
      /\ \A d \in Contexts \ {c, current} : frames'[d] = frames[d]
  BY <1>1 DEF Pops, c
<1>5. /\ Front(frames[c]) \in Seq(Frames) /\ Len(Front(frames[c])) = n - 1
      /\ DOMAIN Front(frames[c]) = 1..n - 1
      /\ \A i \in 1..n - 1 : Front(frames[c])[i] = frames[c][i]
  BY <1>1, Popped
<1>6. frames' \in [Contexts -> Seq(Frames)]
  BY <1>1, <1>3, <1>5 DEF Pops, c
<1> QED BY <1>3, <1>4, <1>5, <1>6 DEF c

LEMMA PopKeeps ==
    ASSUME IInv, current # Main, NEW x, NEW X, Leaves(x, X), Pops(x, X),
           UNCHANGED <<phase, fatal>>, bailing' => fatal,
           \A g \in Fibers : flags[g] \subseteq flags'[g]
    PROVE  ChainInv' /\ VmInv' /\ WaitsInv' /\ TopsInv' /\ DepthInv'
<1> DEFINE c == caller[current]
           n == Len(frames[c])
<1>1. /\ current \in Fibers /\ current \in Contexts /\ c \in Contexts /\ c # current
      /\ frames[c][n].op \in InCall /\ frames[c][n].fiber = current
      /\ \A i \in 1..n - 1 : frames[c][i].op \notin Waits
      /\ n \in Nat /\ n >= 1 /\ DOMAIN frames[c] = 1..n
  <2>1. /\ current \in Fibers /\ c \in Contexts /\ c # current
        /\ frames[c][n].op \in InCall /\ frames[c][n].fiber = current
        /\ \A i \in 1..n - 1 : frames[c][i].op \notin Waits
        /\ n \in Nat /\ n \in DOMAIN frames[c] /\ DOMAIN frames[c] = 1..n
    BY CallerWaits
  <2>2. current \in Contexts /\ n >= 1
    BY <2>1 DEF Contexts
  <2> QED BY <2>1, <2>2
<1>2. /\ Main \in Contexts /\ Nobody \notin Contexts /\ Main \notin Fibers
      /\ caller \in [Contexts -> Contexts \cup {Nobody}] /\ status \in [Contexts -> Statuses]
      /\ x \in {"dead", "suspended"}
  BY FiberAssumption DEF IInv, TypeOK, Contexts, Leaves
<1>3. /\ \A d \in Contexts : caller[d] # current
      /\ \A d, e \in Contexts : caller[d] = caller[e] /\ caller[d] # Nobody => d = e
      /\ \A d \in Contexts : caller[d] \in Fibers => caller[caller[d]] # Nobody
  BY ChainFacts DEF IInv
<1> HIDE DEF c
<1>4. /\ caller'[current] = Nobody /\ \A d \in Contexts \ {current} : caller'[d] = caller[d]
      /\ status'[c] = "running" /\ status'[current] = x
      /\ \A d \in Contexts \ {c, current} : status'[d] = status[d]
      /\ current' = c /\ bailout' = c
      /\ active' = IF bailing' \/ c = Main THEN Nobody ELSE c
  BY <1>1, <1>2 DEF Pops, c
<1>5. ChainInv'
  <2>1. PICK s : IsChain(s)
    BY DEF IInv, ChainInv
  <2>2. IsChain(SubSeq(s, 1, Len(s) - 1))'
    BY <2>1, ChainPop DEF IInv, Pops
  <2> QED BY <2>2 DEF ChainInv
<1>6. VmInv'
  BY <1>1, <1>2, <1>4 DEF IInv, VmInv
<1>7. WaitsInv'
  <2> SUFFICES ASSUME NEW d \in Contexts, NEW i \in DOMAIN frames'[d]
               PROVE  FrameSound(d, i, frames[d][i])'
    BY DEF WaitsInv
  <2>1. CASE d = current
    <3>1. i = 1 /\ Len(frames'[d]) = 1
          /\ frames'[d][i] = Frame("suspend", current, current, current)
      BY <1>1, <2>1, PopFrames
    <3>2. /\ frames'[d][i].op = "suspend" /\ frames'[d][i].active = current
          /\ frames'[d][i].bailout = current
      BY <3>1 DEF Frame, IInv, VmInv
    <3> QED BY <1>1, <1>2, <1>4, <2>1, <3>1, <3>2 DEF InCall, FrameSound
  <2>2. CASE d = c
    <3>1. i \in 1..n - 1 /\ frames'[d][i] = frames[d][i]
      BY <2>2, PopFrames DEF c
    <3>2. i \in DOMAIN frames[d] /\ frames[d][i].op \notin Waits
      BY <1>1, <2>2, <3>1
    <3>3. FrameSound(d, i, frames[d][i])
      BY <3>2, FrameAt
    <3> QED BY <3>1, <3>2, <3>3 DEF Waits, InCall, FrameSound
  <2>3. CASE d \notin {c, current}
    <3>1. frames'[d] = frames[d] /\ frames[d][i] \in Frames /\ i \in DOMAIN frames[d]
      BY <2>3, PopFrames, FrameSeqs DEF IInv, c
    <3>2. FrameSound(d, i, frames[d][i])
      BY <3>1, FrameAt
    <3>3. frames[d][i].op \in InCall => frames[d][i].fiber \in Fibers
      BY <3>1 DEF Frames, InCall, Waits
    <3>4. caller[d] = caller'[d] /\ \A g \in Fibers : caller[g] = d => caller'[g] = d
      BY <1>1, <1>2, <1>4, <2>3 DEF Contexts, c
    <3> QED BY <1>1, <3>1, <3>2, <3>3, <3>4 DEF FrameSound
  <2> QED BY <2>1, <2>2, <2>3
<1>8. TopsInv'
  <2> SUFFICES ASSUME NEW g \in Fibers
               PROVE
        /\ caller'[g] # Nobody =>
              /\ status'[g] \in {"running", "suspended"}
              /\ frames'[caller'[g]] # <<>>
              /\ frames'[caller'[g]][Len(frames'[caller'[g]])].op \in InCall
              /\ frames'[caller'[g]][Len(frames'[caller'[g]])].fiber = g
        /\ status'[g] = "suspended" /\ caller'[g] = Nobody =>
              frames'[g] # <<>> /\ frames'[g][Len(frames'[g])].op = "suspend"
        /\ status'[g] \in {"init", "dead"} => frames'[g] = <<>>
    BY DEF TopsInv, Left
  <2>1. CASE g = current
    <3>1. CASE x = "dead"
      BY <1>4, <2>1, <3>1, PopFrames DEF Leaves
    <3>2. CASE x = "suspended" /\ X = Suspended
      <4>1. X # <<>>
        BY <3>2, PopFrames
      <4>2. /\ frames'[g] = X /\ Len(X) = 1
            /\ X[1] = Frame("suspend", current, current, current)
        BY <2>1, <4>1, PopFrames
      <4>3. X[1].op = "suspend"
        BY <4>2 DEF Frame
      <4> QED BY <1>4, <2>1, <3>2, <4>1, <4>2, <4>3
    <3> QED BY <3>1, <3>2 DEF Leaves
  <2>2. CASE g # current
    <3>1. g \in Contexts /\ caller'[g] = caller[g]
      BY <1>4, <2>2 DEF Contexts
    <3>2. /\ caller[g] # Nobody =>
              /\ status[g] \in {"running", "suspended"}
              /\ frames[caller[g]] # <<>>
              /\ frames[caller[g]][Len(frames[caller[g]])].op \in InCall
              /\ frames[caller[g]][Len(frames[caller[g]])].fiber = g
          /\ status[g] = "suspended" /\ caller[g] = Nobody =>
              frames[g] # <<>> /\ frames[g][Len(frames[g])].op = "suspend"
          /\ status[g] \in {"init", "dead"} => frames[g] = <<>>
      BY DEF IInv, TopsInv, Left
    <3>3. caller[g] # Nobody =>
             caller[g] \in Contexts /\ caller[g] # current /\ caller[g] # c
      BY <1>1, <1>2, <1>3, <2>2, <3>1 DEF c
    <3>4. caller[g] # Nobody => frames'[caller[g]] = frames[caller[g]]
      BY <3>3, PopFrames DEF c
    <3>5. CASE g = c
      <4>1. caller[g] # Nobody
        BY <1>1, <1>3, <3>5 DEF c
      <4> QED BY <1>4, <3>1, <3>2, <3>4, <3>5, <4>1
    <3>6. CASE g # c
      <4>1. frames'[g] = frames[g] /\ status'[g] = status[g]
        BY <1>4, <2>2, <3>1, <3>6, PopFrames DEF c
      <4> QED BY <3>1, <3>2, <3>4, <4>1
    <3> QED BY <3>5, <3>6
  <2> QED BY <2>1, <2>2
<1>9. DepthInv'
  <2>1. /\ \A d \in Contexts : Len(frames[d]) <= Nesting + 1
        /\ Nesting \in Nat \ {0}
    BY FiberAssumption DEF IInv, DepthInv
  <2>2. Len(frames'[c]) = n - 1 /\ Len(frames'[c]) <= Nesting
    BY <1>1, <2>1, PopFrames DEF c
  <2>3. ASSUME NEW d \in Contexts PROVE Len(frames'[d]) <= Nesting + 1
    <3>1. CASE d = c
      BY <2>1, <2>2, <3>1, <1>1
    <3>2. CASE d = current
      <4>1. frames'[d] = X /\ Len(X) \in {0, 1}
        BY <3>2, PopFrames
      <4>2. Nesting \in Nat
        BY <2>1
      <4>3. \A k \in {0, 1} : k <= Nesting + 1
        BY <4>2
      <4>4. Len(X) <= Nesting + 1
        BY <4>1, <4>3
      <4> QED BY <4>1, <4>4
    <3>3. CASE d \notin {c, current}
      <4>1. frames'[d] = frames[d]
        BY <3>3, PopFrames DEF c
      <4> QED BY <2>1, <4>1
    <3> QED BY <3>1, <3>2, <3>3
  <2> QED BY <1>4, <2>2, <2>3 DEF DepthInv
<1> QED BY <1>5, <1>6, <1>7, <1>8, <1>9

-----------------------------------------------------------------------------
(* Destructors                                                             *)

\* The running context's own frames change, and they are not those of a switch.
LEMMA LocalKeeps ==
    ASSUME IInv, NEW F \in Seq(Frames), Len(F) <= Nesting,
           frames' = [frames EXCEPT ![current] = F],
           UNCHANGED <<status, caller, vmvars>>,
           \A g \in Fibers : flags[g] \subseteq flags'[g],
           fatal => fatal', bailing' => fatal', ~bailing' /\ bailing => current = Main,
           \A i \in DOMAIN F : F[i].op \notin Waits,
           \A i \in DOMAIN F : F[i].op = "sweep" => current = Main /\ i = 1 /\ phase' = "destructors",
           \A i \in DOMAIN F : F[i].op = "swept destructor" => current = Main,
           phase' = phase \/ current = Main
    PROVE  ChainInv' /\ VmInv' /\ WaitsInv' /\ TopsInv' /\ DepthInv'
<1>1. /\ current \in Contexts /\ frames \in [Contexts -> Seq(Frames)]
      /\ caller \in [Contexts -> Contexts \cup {Nobody}]
      /\ \A c \in Contexts : caller[c] # current
      /\ Nobody \notin Contexts
      /\ current # Main => caller[current] # Nobody
  BY ChainFacts, FiberAssumption DEF IInv, TypeOK
<1>2. frames'[current] = F /\ \A c \in Contexts \ {current} : frames'[c] = frames[c]
  BY <1>1
<1>3. ChainInv'
  <2>1. PICK s : IsChain(s)
    BY DEF IInv, ChainInv
  <2>2. IsChain(s)'
    BY <2>1 DEF IsChain, Called, vmvars
  <2> QED BY <2>2 DEF ChainInv
<1>4. VmInv'
  BY DEF IInv, VmInv, vmvars
<1>5. WaitsInv'
  <2> SUFFICES ASSUME NEW c \in Contexts, NEW i \in DOMAIN frames'[c]
               PROVE  FrameSound(c, i, frames[c][i])'
    BY DEF WaitsInv
  <2>1. CASE c = current
    BY <1>2, <2>1 DEF Waits, InCall, FrameSound
  <2>2. CASE c # current
    <3>1. frames'[c] = frames[c] /\ frames[c][i] \in Frames /\ i \in DOMAIN frames[c]
      BY <1>2, <2>2, FrameSeqs DEF IInv
    <3>2. FrameSound(c, i, frames[c][i])
      BY <3>1, FrameAt
    <3>3. frames[c][i].op \in InCall => frames[c][i].fiber \in Fibers
      BY <3>1 DEF Frames, InCall, Waits
    <3>4. c = Main => phase' = phase
      BY <2>2
    <3> QED BY <3>1, <3>2, <3>3, <3>4 DEF FrameSound
  <2> QED BY <2>1, <2>2
<1>6. TopsInv'
  <2> SUFFICES ASSUME NEW g \in Fibers
               PROVE
        /\ caller'[g] # Nobody =>
              /\ status'[g] \in {"running", "suspended"}
              /\ frames'[caller'[g]] # <<>>
              /\ frames'[caller'[g]][Len(frames'[caller'[g]])].op \in InCall
              /\ frames'[caller'[g]][Len(frames'[caller'[g]])].fiber = g
        /\ status'[g] = "suspended" /\ caller'[g] = Nobody =>
              frames'[g] # <<>> /\ frames'[g][Len(frames'[g])].op = "suspend"
        /\ status'[g] \in {"init", "dead"} => frames'[g] = <<>>
    BY DEF TopsInv, Left
  <2>1. /\ caller[g] # Nobody =>
              /\ status[g] \in {"running", "suspended"}
              /\ frames[caller[g]] # <<>>
              /\ frames[caller[g]][Len(frames[caller[g]])].op \in InCall
              /\ frames[caller[g]][Len(frames[caller[g]])].fiber = g
        /\ status[g] = "suspended" /\ caller[g] = Nobody =>
              frames[g] # <<>> /\ frames[g][Len(frames[g])].op = "suspend"
        /\ status[g] \in {"init", "dead"} => frames[g] = <<>>
    BY DEF IInv, TopsInv, Left
  <2>2. g \in Contexts
    BY DEF Contexts
  <2>3. caller[g] # Nobody => frames'[caller[g]] = frames[caller[g]]
    BY <1>1, <1>2, <2>2
  <2>4. status[g] # "running" => frames'[g] = frames[g]
    BY <1>1, <1>2, <2>2 DEF IInv, VmInv
  <2> QED BY <2>1, <2>3, <2>4
<1>7. DepthInv'
  <2>1. Nesting \in Nat /\ \A c \in Contexts : Len(frames[c]) <= Nesting + 1
    BY FiberAssumption DEF IInv, DepthInv
  <2>2. Len(F) \in Nat
    BY LenProperties
  <2>3. ASSUME NEW c \in Contexts PROVE Len(frames'[c]) <= Nesting + 1
    <3>1. CASE c = current
      <4>1. Len(F) <= Nesting + 1
        BY <2>1, <2>2, LessThanSucc
      <4> QED BY <1>2, <3>1, <4>1
    <3>2. CASE c # current
      <4>1. frames'[c] = frames[c]
        BY <1>2, <3>2
      <4> QED BY <2>1, <4>1
    <3> QED BY <3>1, <3>2
  <2> QED BY <1>2, <2>3 DEF DepthInv, vmvars
<1> QED BY <1>3, <1>4, <1>5, <1>6, <1>7

-----------------------------------------------------------------------------
(* Counting blocks                                                         *)

LEMMA InBlocking ==
    ASSUME NEW c \in Contexts, NEW i
    PROVE  /\ <<c, i>> \in Blocking <=>
                 i \in 1..Nesting + 1 /\ i \in DOMAIN frames[c] /\ Blocks(frames[c][i])
           /\ <<c, i>> \in Blocking' <=>
                 i \in 1..Nesting + 1 /\ i \in DOMAIN frames'[c] /\ Blocks(frames'[c][i])
BY DEF Blocking, Blocks

\* Sets of blocks agree when they do place by place.
LEMMA BlockingPlaces ==
    ASSUME NEW B, B \subseteq Contexts \X (1..Nesting + 1),
           \A c \in Contexts : \A i \in 1..Nesting + 1 : <<c, i>> \in Blocking' <=> <<c, i>> \in B
    PROVE  Blocking' = B
BY DEF Blocking

LEMMA BlockAdded ==
    ASSUME IInv, NEW b, b \notin Blocking, Blocking' = Blocking \cup {b},
           blocking' = blocking + 1, fatal' = fatal
    PROVE  BlockingInv' /\ blocking' \in Nat
<1>1. Cardinality(Blocking') = Cardinality(Blocking) + 1
  BY BlockingFinite, FS_AddElement
<1>2. Cardinality(Blocking) \in Nat /\ blocking \in Nat
  BY BlockingFinite, FS_CardinalityType DEF IInv, TypeOK
<1>3. blocking >= Cardinality(Blocking) /\ (fatal \/ blocking = Cardinality(Blocking))
  BY DEF IInv, BlockingInv
<1> QED BY <1>1, <1>2, <1>3 DEF BlockingInv

LEMMA BlockRemoved ==
    ASSUME IInv, NEW b, b \in Blocking, Blocking' \subseteq Blocking \ {b},
           blocking' = blocking - 1, fatal' = fatal,
           fatal \/ Blocking' = Blocking \ {b}
    PROVE  BlockingInv' /\ blocking' \in Nat
<1>1. /\ IsFiniteSet(Blocking \ {b})
      /\ Cardinality(Blocking \ {b}) = Cardinality(Blocking) - 1
  BY BlockingFinite, FS_RemoveElement
<1>2. /\ Cardinality(Blocking') <= Cardinality(Blocking \ {b})
      /\ Cardinality(Blocking') \in Nat
  BY <1>1, BlockingFinite, FS_Subset, FS_CardinalityType
<1>3. Cardinality(Blocking) \in Nat /\ blocking \in Nat
  BY BlockingFinite, FS_CardinalityType DEF IInv, TypeOK
<1>4. blocking >= Cardinality(Blocking) /\ (fatal \/ blocking = Cardinality(Blocking))
  BY DEF IInv, BlockingInv
<1>5. fatal \/ Cardinality(Blocking') = Cardinality(Blocking) - 1
  BY <1>1
<1> QED BY <1>1, <1>2, <1>3, <1>4, <1>5 DEF BlockingInv

LEMMA BlocksStay ==
    ASSUME IInv, Blocking' \subseteq Blocking, blocking' = blocking, fatal => fatal',
           fatal' \/ Blocking' = Blocking
    PROVE  BlockingInv' /\ blocking' \in Nat
<1>1. Cardinality(Blocking') <= Cardinality(Blocking) /\ Cardinality(Blocking') \in Nat
  BY BlockingFinite, FS_Subset, FS_CardinalityType
<1>2. Cardinality(Blocking) \in Nat /\ blocking \in Nat
  BY BlockingFinite, FS_CardinalityType DEF IInv, TypeOK
<1>3. blocking >= Cardinality(Blocking) /\ (fatal \/ blocking = Cardinality(Blocking))
  BY DEF IInv, BlockingInv
<1>4. fatal' \/ Cardinality(Blocking') = Cardinality(Blocking)
  OBVIOUS
<1> QED BY <1>1, <1>2, <1>3, <1>4 DEF BlockingInv

\* While nothing blocks, the fiber that runs is in no destructor.
LEMMA NotBlocked ==
    ASSUME IInv, blocking = 0
    PROVE  /\ Blocking = {}
           /\ current # Main => frames[current] = <<>>
<1>1. Blocking = {}
  <2>1. Cardinality(Blocking) <= 0 /\ Cardinality(Blocking) \in Nat
    BY BlockingFinite, FS_CardinalityType DEF IInv, BlockingInv
  <2> QED BY <2>1, BlockingFinite, FS_EmptySet
<1>2. ASSUME current # Main PROVE frames[current] = <<>>
  <2> SUFFICES ASSUME frames[current] # <<>> PROVE FALSE
    OBVIOUS
  <2>1. current \in Contexts
    BY DEF IInv, TypeOK
  <2>2. 1 \in DOMAIN frames[current]
    BY <2>1, FrameSeqs DEF IInv
  <2>3. frames[current][1].op = "destructor"
    BY <1>2, <2>2, CurrentFrames
  <2>4. 1 \in 1..Nesting + 1
    BY FiberAssumption
  <2>5. <<current, 1>> \in Blocking
    BY <2>1, <2>2, <2>3, <2>4, InBlocking DEF Blocks
  <2> QED BY <1>1, <2>5
<1> QED BY <1>1, <1>2

LEMMA SweepBlocks ==
    ASSUME IInv, SweepRuns
    PROVE  <<Main, 1>> \in Blocking /\ blocking # 0 /\ phase = "destructors"
<1>1. Main \in Contexts
  BY DEF Contexts
<1>2. 1 \in DOMAIN frames[Main] /\ 1 \in 1..Nesting + 1
  BY <1>1, FiberAssumption, FrameSeqs DEF IInv, SweepRuns
<1>3. <<Main, 1>> \in Blocking
  BY <1>1, <1>2, InBlocking DEF Blocks, SweepRuns
<1>4. FrameSound(Main, 1, frames[Main][1])
  BY <1>1, <1>2, FrameAt
<1> QED BY <1>3, <1>4, NotBlocked DEF FrameSound, SweepRuns

-----------------------------------------------------------------------------
(* A fiber is switched to                                                  *)

LEMMA CallKeeps ==
    ASSUME IInv, NEW f \in Fibers, NEW op \in InCall, f # current, caller[f] = Nobody,
           status[f] \in {"init", "suspended"},
           Pushes(f, op), ~bailing, UNCHANGED <<bailing, phase, fatal>>,
           flags' \in {flags, [flags EXCEPT ![f] = @ \cup {"DESTROYED"}]},
           op # "resume" => "DESTROYED" \in flags'[f],
           blocking' = IF op = "destroy" THEN blocking + 1 ELSE blocking
    PROVE  /\ ChainInv' /\ VmInv' /\ WaitsInv' /\ TopsInv' /\ DepthInv'
           /\ BlockingInv' /\ blocking' \in Nat
           /\ status' \in [Contexts -> Statuses]
           /\ caller' \in [Contexts -> Contexts \cup {Nobody}]
           /\ flags' \in [Contexts -> SUBSET {"DESTROYED", "THREW", "BAILOUT"}]
           /\ frames' \in [Contexts -> Seq(Frames)]
           /\ current' \in Contexts /\ active' \in Fibers \cup {Nobody} /\ bailout' \in Contexts
           /\ Left' \subseteq Left \ {f}
           /\ \A g \in Left' : flags'[g] = flags[g]
           /\ \A g \in Fibers : /\ caller'[g] # Nobody => g = f \/ caller[g] # Nobody
                                /\ status'[g] # status[g] => status'[g] \in {"running", "suspended"}
                                /\ flags[g] \subseteq flags'[g]
                                /\ g # f /\ status'[g] = "suspended" =>
                                      status[g] \in {"running", "suspended"}
           /\ status'[f] = "running"
           /\ SweepRuns => SweepRuns'
<1>1. /\ f \in Contexts /\ f # Main /\ current \in Contexts /\ Main \in Contexts
      /\ Nobody \notin Contexts
      /\ caller \in [Contexts -> Contexts \cup {Nobody}] /\ status \in [Contexts -> Statuses]
      /\ flags \in [Contexts -> SUBSET {"DESTROYED", "THREW", "BAILOUT"}]
      /\ Fibers \subseteq Contexts
  BY FiberAssumption DEF IInv, TypeOK, Contexts
<1>2. /\ flags' \in [Contexts -> SUBSET {"DESTROYED", "THREW", "BAILOUT"}]
      /\ \A g \in Fibers : flags[g] \subseteq flags'[g]
      /\ \A g \in Fibers \ {f} : flags'[g] = flags[g]
  BY <1>1
<1>3. ChainInv' /\ VmInv' /\ WaitsInv' /\ TopsInv' /\ DepthInv'
  BY <1>2, PushKeeps
<1>4. /\ status' \in [Contexts -> Statuses]
      /\ caller' \in [Contexts -> Contexts \cup {Nobody}]
      /\ current' \in Contexts /\ active' \in Fibers \cup {Nobody} /\ bailout' \in Contexts
  BY <1>1 DEF Pushes, Statuses
<1>5. frames' \in [Contexts -> Seq(Frames)]
  BY PushFrames
<1>6. /\ caller'[f] = current /\ \A c \in Contexts \ {f} : caller'[c] = caller[c]
      /\ status'[f] = "running" /\ status'[current] = "suspended"
      /\ \A c \in Contexts \ {f, current} : status'[c] = status[c]
      /\ status[current] = "running"
  BY <1>1 DEF Pushes, IInv, VmInv
<1>7. current # Main => caller[current] # Nobody
  BY <1>1, ChainFacts DEF IInv
<1>8. Left' \subseteq Left \ {f}
  <2> SUFFICES ASSUME NEW g \in Left' PROVE g \in Left /\ g # f
    OBVIOUS
  <2>1. g \in Fibers /\ status'[g] = "suspended" /\ caller'[g] = Nobody
    BY DEF Left
  <2>2. g # f /\ caller[g] = Nobody
    BY <1>1, <1>6, <2>1
  <2>3. g # current
    BY <1>1, <1>7, <2>1, <2>2, FiberAssumption
  <2> QED BY <1>1, <1>6, <2>1, <2>2, <2>3 DEF Left
<1>9. \A g \in Fibers : /\ caller'[g] # Nobody => g = f \/ caller[g] # Nobody
                        /\ status'[g] # status[g] => status'[g] \in {"running", "suspended"}
                        /\ g # f /\ status'[g] = "suspended" =>
                              status[g] \in {"running", "suspended"}
  BY <1>1, <1>6
<1>10. SweepRuns => SweepRuns'
  <2> SUFFICES ASSUME SweepRuns PROVE SweepRuns'
    OBVIOUS
  <2>1. CASE current = Main
    <3>1. Len(frames[Main]) >= 1
      BY <1>1, FrameSeqs DEF IInv, SweepRuns
    <3>2. 1 \in 1..Len(frames[Main])
      BY <1>1, <3>1, FrameSeqs DEF IInv
    <3>3. frames'[Main] # <<>> /\ frames'[Main][1] = frames[Main][1]
      BY <2>1, <3>2, PushFrames
    <3> QED BY <3>3 DEF SweepRuns
  <2>2. CASE current # Main
    <3>1. frames'[Main] = frames[Main]
      BY <1>1, <2>2, PushFrames
    <3> QED BY <3>1 DEF SweepRuns
  <2> QED BY <2>1, <2>2
<1>11. BlockingInv' /\ blocking' \in Nat
  <2> DEFINE n == Len(frames[current])
             b == <<current, n + 1>>
  <2>1. /\ n \in Nat /\ n + 1 \in 1..Nesting + 1
    BY <1>1, FiberAssumption, FrameSeqs DEF IInv, DepthInv
  <2>2. b \notin Blocking
    <3>1. n + 1 \notin DOMAIN frames[current]
      BY <2>1, PushFrames
    <3> QED BY <1>1, <3>1, InBlocking
  <2>3. \A i \in 1..Nesting + 1 : <<f, i>> \notin Blocking /\ <<f, i>> \notin Blocking'
    <3> SUFFICES ASSUME NEW i \in 1..Nesting + 1
                 PROVE  <<f, i>> \notin Blocking /\ <<f, i>> \notin Blocking'
      OBVIOUS
    <3>1. DOMAIN frames'[f] = {}
      BY PushFrames
    <3>2. ASSUME i \in DOMAIN frames[f] PROVE ~Blocks(frames[f][i])
      <4>1. f \in Left
        BY <3>2 DEF IInv, TopsInv, Left
      <4>2. frames[f] # <<>> /\ frames[f][Len(frames[f])].op = "suspend"
        BY <4>1 DEF IInv, TopsInv
      <4>3. Len(frames[f]) \in DOMAIN frames[f] /\ DOMAIN frames[f] = 1..Len(frames[f])
        BY <1>1, <4>2, FrameSeqs DEF IInv
      <4>4. FrameSound(f, Len(frames[f]), frames[f][Len(frames[f])])
        BY <1>1, <4>3, FrameAt
      <4>5. i = Len(frames[f])
        BY <3>2, <4>2, <4>3, <4>4 DEF FrameSound
      <4> QED BY <4>2, <4>5 DEF Blocks
    <3> QED BY <1>1, <3>1, <3>2, InBlocking
  <2>4. \A i \in 1..Nesting + 1 : i # n + 1 =>
            (<<current, i>> \in Blocking' <=> <<current, i>> \in Blocking)
    <3> SUFFICES ASSUME NEW i \in 1..Nesting + 1, i # n + 1
                 PROVE  <<current, i>> \in Blocking' <=> <<current, i>> \in Blocking
      OBVIOUS
    <3>1. i \in DOMAIN frames'[current] <=> i \in DOMAIN frames[current]
      BY <2>1, PushFrames
    <3>2. i \in DOMAIN frames[current] => frames'[current][i] = frames[current][i]
      BY PushFrames
    <3> QED BY <1>1, <3>1, <3>2, InBlocking
  <2>5. b \in Blocking' <=> op = "destroy"
    <3>1. /\ n + 1 \in DOMAIN frames'[current]
          /\ frames'[current][n + 1] = Frame(op, f, active, f)
      BY <2>1, PushFrames
    <3>2. Blocks(frames'[current][n + 1]) <=> op = "destroy"
      BY <3>1 DEF Blocks, Frame, InCall
    <3> QED BY <1>1, <2>1, <3>1, <3>2, InBlocking
  <2>6. \A c \in Contexts \ {f, current} : \A i \in 1..Nesting + 1 :
            <<c, i>> \in Blocking' <=> <<c, i>> \in Blocking
    BY PushFrames, InBlocking
  <2>7. Blocking \subseteq Contexts \X (1..Nesting + 1) /\ b \in Contexts \X (1..Nesting + 1)
    BY <1>1, <2>1 DEF Blocking
  <2> HIDE DEF n
  <2>8. CASE op = "destroy"
    <3>1. Blocking' = Blocking \cup {b}
      <4> DEFINE B == Blocking \cup {b}
      <4>1. \A c \in Contexts : \A i \in 1..Nesting + 1 :
                <<c, i>> \in Blocking' <=> <<c, i>> \in B
        BY <2>3, <2>4, <2>5, <2>6, <2>8
      <4>2. B \subseteq Contexts \X (1..Nesting + 1)
        BY <2>7
      <4> HIDE DEF B
      <4>3. Blocking' = B
        BY <4>1, <4>2, BlockingPlaces
      <4> QED BY <4>3 DEF B
    <3> QED BY <2>2, <2>8, <3>1, BlockAdded
  <2>9. CASE op # "destroy"
    <3>1. \A c \in Contexts : \A i \in 1..Nesting + 1 :
              <<c, i>> \in Blocking' <=> <<c, i>> \in Blocking
      BY <2>2, <2>3, <2>4, <2>5, <2>6, <2>9
    <3>2. Blocking' = Blocking
      BY <2>7, <3>1, BlockingPlaces
    <3> QED BY <2>9, <3>2, BlocksStay
  <2> QED BY <2>8, <2>9
<1>12. \A g \in Left' : flags'[g] = flags[g]
  <2>1. Left' \subseteq Fibers \ {f}
    BY <1>8 DEF Left
  <2> QED BY <1>2, <2>1
<1>13. \A g \in Fibers : /\ caller'[g] # Nobody => g = f \/ caller[g] # Nobody
                         /\ status'[g] # status[g] => status'[g] \in {"running", "suspended"}
                         /\ flags[g] \subseteq flags'[g]
                         /\ g # f /\ status'[g] = "suspended" =>
                               status[g] \in {"running", "suspended"}
  BY <1>2, <1>9
<1> QED BY <1>2, <1>3, <1>4, <1>5, <1>6, <1>8, <1>10, <1>11, <1>12, <1>13

-----------------------------------------------------------------------------
(* Control comes back                                                      *)

LEMMA ReturnKeeps ==
    ASSUME IInv, current # Main, NEW x, NEW X, Leaves(x, X), Pops(x, X),
           UNCHANGED <<phase, fatal>>, bailing' => fatal,
           frames[current] = <<>> \/ (fatal /\ bailing'),
           flags' \in {flags, [flags EXCEPT ![current] = @ \cup {"THREW"}],
                              [flags EXCEPT ![current] = @ \cup {"BAILOUT"}]},
           blocking' = IF /\ frames[caller[current]][Len(frames[caller[current]])].op = "destroy"
                          /\ ~bailing'
                       THEN blocking - 1 ELSE blocking
    PROVE  /\ ChainInv' /\ VmInv' /\ WaitsInv' /\ TopsInv' /\ DepthInv'
           /\ BlockingInv' /\ blocking' \in Nat
           /\ status' \in [Contexts -> Statuses]
           /\ caller' \in [Contexts -> Contexts \cup {Nobody}]
           /\ flags' \in [Contexts -> SUBSET {"DESTROYED", "THREW", "BAILOUT"}]
           /\ frames' \in [Contexts -> Seq(Frames)]
           /\ current' \in Contexts /\ active' \in Fibers \cup {Nobody} /\ bailout' \in Contexts
           /\ Left' \subseteq Left \cup {current}
           /\ x = "dead" => Left' \subseteq Left
           /\ current \notin Left /\ status'[current] = x
           /\ \A g \in Fibers : /\ caller'[g] # Nobody => g # current /\ caller[g] # Nobody
                                /\ "DESTROYED" \in flags[g] <=> "DESTROYED" \in flags'[g]
                                /\ g # current => \/ status'[g] = status[g]
                                                  \/ /\ status'[g] = "running"
                                                     /\ status[g] = "suspended"
           /\ SweepRuns => SweepRuns'
<1> DEFINE c == caller[current]
           n == Len(frames[c])
<1>1. /\ current \in Fibers /\ current \in Contexts /\ c \in Contexts /\ c # current
      /\ frames[c][n].op \in InCall /\ frames[c][n].fiber = current
      /\ n \in Nat /\ n >= 1 /\ n \in DOMAIN frames[c] /\ DOMAIN frames[c] = 1..n
  <2>1. /\ current \in Fibers /\ c \in Contexts /\ c # current
        /\ frames[c][n].op \in InCall /\ frames[c][n].fiber = current
        /\ n \in Nat /\ n \in DOMAIN frames[c] /\ DOMAIN frames[c] = 1..n
    BY CallerWaits
  <2>2. current \in Contexts /\ n >= 1
    BY <2>1 DEF Contexts
  <2> QED BY <2>1, <2>2
<1>2. /\ Main \in Contexts /\ Nobody \notin Contexts /\ Main \notin Fibers
      /\ caller \in [Contexts -> Contexts \cup {Nobody}] /\ status \in [Contexts -> Statuses]
      /\ flags \in [Contexts -> SUBSET {"DESTROYED", "THREW", "BAILOUT"}]
      /\ x \in {"dead", "suspended"} /\ Fibers \subseteq Contexts
      /\ Contexts \ {Main} \subseteq Fibers
  BY FiberAssumption DEF IInv, TypeOK, Contexts, Leaves
<1> HIDE DEF c, n
<1>3. /\ caller'[current] = Nobody /\ \A d \in Contexts \ {current} : caller'[d] = caller[d]
      /\ status'[c] = "running" /\ status'[current] = x
      /\ \A d \in Contexts \ {c, current} : status'[d] = status[d]
      /\ current' = c /\ bailout' = c
      /\ active' = IF bailing' \/ c = Main THEN Nobody ELSE c
  BY <1>1, <1>2 DEF Pops, c
<1>4. /\ flags' \in [Contexts -> SUBSET {"DESTROYED", "THREW", "BAILOUT"}]
      /\ \A g \in Fibers : /\ flags[g] \subseteq flags'[g]
                           /\ "DESTROYED" \in flags[g] <=> "DESTROYED" \in flags'[g]
  BY <1>1, <1>2
<1>5. ChainInv' /\ VmInv' /\ WaitsInv' /\ TopsInv' /\ DepthInv'
  BY <1>4, PopKeeps
<1>6. /\ status' \in [Contexts -> Statuses]
      /\ caller' \in [Contexts -> Contexts \cup {Nobody}]
      /\ current' \in Contexts /\ active' \in Fibers \cup {Nobody} /\ bailout' \in Contexts
  <2>1. /\ status' \in [Contexts -> Statuses]
        /\ caller' \in [Contexts -> Contexts \cup {Nobody}]
    BY <1>1, <1>2 DEF Pops, Statuses
  <2> QED BY <1>1, <1>2, <1>3, <2>1
<1>7. frames' \in [Contexts -> Seq(Frames)]
  BY PopFrames
<1>8. status[current] = "running" /\ current \notin Left
  BY <1>1 DEF IInv, VmInv, Left
<1>9. \A g \in Fibers \ {current} : status[g] # "running"
  BY <1>2 DEF IInv, VmInv
<1>10. c \in Fibers => status[c] = "suspended" /\ caller[c] # Nobody
  <2> SUFFICES ASSUME c \in Fibers PROVE status[c] = "suspended" /\ caller[c] # Nobody
    OBVIOUS
  <2>1. caller[c] # Nobody
    BY <1>1, ChainFacts DEF IInv, c
  <2>2. status[c] \in {"running", "suspended"}
    BY <2>1 DEF IInv, TopsInv
  <2> QED BY <1>1, <1>9, <2>1, <2>2
<1>11. \A g \in Fibers : /\ caller'[g] # Nobody => g # current /\ caller[g] # Nobody
                         /\ g # current => \/ status'[g] = status[g]
                                           \/ status'[g] = "running" /\ status[g] = "suspended"
  BY <1>2, <1>3, <1>10
<1>12. Left' \subseteq Left \cup {current} /\ (x = "dead" => Left' \subseteq Left)
  <2> SUFFICES ASSUME NEW g \in Left' PROVE g \in Left \/ (g = current /\ x # "dead")
    OBVIOUS
  <2>1. g \in Fibers /\ status'[g] = "suspended" /\ caller'[g] = Nobody
    BY DEF Left
  <2>2. CASE g = current
    BY <1>3, <2>1, <2>2
  <2>3. CASE g # current
    BY <1>2, <1>3, <1>11, <2>1, <2>3 DEF Left
  <2> QED BY <2>2, <2>3
<1>13. SweepRuns => SweepRuns'
  <2> SUFFICES ASSUME SweepRuns PROVE SweepRuns'
    OBVIOUS
  <2>1. CASE c = Main
    <3>1. n # 1
      BY <1>1, <2>1 DEF InCall, SweepRuns, n
    <3>2. 1 \in 1..n - 1 /\ n - 1 # 0
      BY <1>1, <3>1
    <3>5. /\ Len(frames'[c]) = n - 1
          /\ \A i \in 1..n - 1 : frames'[c][i] = frames[c][i]
      BY PopFrames DEF c, n
    <3>3. frames'[Main][1] = frames[Main][1] /\ Len(frames'[Main]) # 0
      BY <2>1, <3>2, <3>5
    <3>4. frames'[Main] # <<>>
      BY <1>2, <1>7, <3>3, EmptySeq
    <3> QED BY <3>3, <3>4 DEF SweepRuns
  <2>2. CASE c # Main
    <3>1. frames'[Main] = frames[Main]
      BY <1>2, <2>2, PopFrames DEF c
    <3> QED BY <3>1 DEF SweepRuns
  <2> QED BY <2>1, <2>2
<1>14. BlockingInv' /\ blocking' \in Nat
  <2> DEFINE b == <<c, n>>
             B == IF frames[c][n].op = "destroy" THEN Blocking \ {b} ELSE Blocking
  <2>1. n \in 1..Nesting + 1
    BY <1>1, FiberAssumption DEF IInv, DepthInv, n
  <2>2. b \in Blocking <=> frames[c][n].op = "destroy"
    BY <1>1, <2>1, InBlocking DEF Blocks, InCall
  <2>3. \A i \in 1..Nesting + 1 : <<c, i>> \in Blocking' <=> <<c, i>> \in B
    <3> SUFFICES ASSUME NEW i \in 1..Nesting + 1
                 PROVE  <<c, i>> \in Blocking' <=> <<c, i>> \in B
      OBVIOUS
    <3>1. DOMAIN frames'[c] = 1..n - 1 /\ \A k \in 1..n - 1 : frames'[c][k] = frames[c][k]
      BY PopFrames DEF c, n
    <3>2. CASE i \in 1..n - 1
      <4>1. <<c, i>> # b /\ i \in DOMAIN frames[c]
        BY <1>1, <3>2
      <4> QED BY <1>1, <3>1, <3>2, <4>1, InBlocking
    <3>3. CASE i = n
      <4>1. i \notin DOMAIN frames'[c]
        BY <1>1, <3>1, <3>3
      <4> QED BY <1>1, <2>2, <3>3, <4>1, InBlocking
    <3>4. CASE i \notin 1..n
      <4>1. i \notin DOMAIN frames'[c] /\ i \notin DOMAIN frames[c]
        BY <1>1, <3>1, <3>4
      <4> QED BY <1>1, <4>1, InBlocking
    <3> QED BY <1>1, <3>2, <3>3, <3>4
  <2>4. \A d \in Contexts \ {c, current} : \A i \in 1..Nesting + 1 :
            <<d, i>> \in Blocking' <=> <<d, i>> \in B
    <3>1. \A d \in Contexts \ {c, current} : frames'[d] = frames[d]
      BY PopFrames DEF c
    <3> QED BY <3>1, InBlocking
  <2>5. \A i \in 1..Nesting + 1 : <<current, i>> \notin Blocking'
    <3>1. frames'[current] = X /\ DOMAIN X = 1..Len(X) /\ Len(X) \in {0, 1}
          /\ (X # <<>> => Len(X) = 1 /\ X[1] = Frame("suspend", current, current, current))
      BY PopFrames
    <3>2. ASSUME NEW i \in DOMAIN X PROVE ~Blocks(X[i])
      <4>1. i = 1 /\ X # <<>>
        BY <3>1, <3>2
      <4> QED BY <3>1, <4>1 DEF Blocks, Frame
    <3> QED BY <1>1, <3>1, <3>2, InBlocking
  <2>6. frames[current] = <<>> => \A i \in 1..Nesting + 1 : <<current, i>> \notin Blocking
    <3>1. frames[current] = <<>> => DOMAIN frames[current] = {}
      OBVIOUS
    <3> QED BY <1>1, <3>1, InBlocking
  <2>7. Blocking \subseteq Contexts \X (1..Nesting + 1)
        /\ Blocking' \subseteq Contexts \X (1..Nesting + 1)
    BY DEF Blocking
  <2>8. \A d \in Contexts : \A i \in 1..Nesting + 1 :
            <<d, i>> \in Blocking' => <<d, i>> \in B
    BY <2>3, <2>4, <2>5
  <2>9. Blocking' \subseteq B
    BY <2>7, <2>8
  <2>10. frames[current] = <<>> => Blocking' = B
    <3>1. frames[current] = <<>> => \A d \in Contexts : \A i \in 1..Nesting + 1 :
              <<d, i>> \in Blocking' <=> <<d, i>> \in B
      BY <2>3, <2>4, <2>5, <2>6
    <3>2. B \subseteq Contexts \X (1..Nesting + 1)
      BY <2>7
    <3> HIDE DEF B
    <3> QED BY <3>1, <3>2, BlockingPlaces
  <2> HIDE DEF b
  <2>11. CASE frames[c][n].op = "destroy" /\ ~bailing'
    <3>1. blocking' = blocking - 1 /\ B = Blocking \ {b} /\ b \in Blocking
          /\ frames[current] = <<>>
      BY <2>2, <2>11 DEF c, n
    <3> QED BY <2>9, <2>10, <3>1, BlockRemoved
  <2>12. CASE ~(frames[c][n].op = "destroy" /\ ~bailing')
    <3>1. blocking' = blocking /\ B \subseteq Blocking
      BY <2>12 DEF c, n
    <3>2. fatal' \/ Blocking' = Blocking
      BY <2>10, <2>12
    <3> QED BY <2>9, <3>1, <3>2, BlocksStay
  <2> QED BY <2>11, <2>12
<1> QED BY <1>3, <1>4, <1>5, <1>6, <1>7, <1>8, <1>11, <1>12, <1>13, <1>14

-----------------------------------------------------------------------------
(* The stacks stay as they are                                             *)

LEMMA StayKeeps ==
    ASSUME IInv, UNCHANGED <<status, caller, frames, flags, vmvars, blocking>>,
           fatal => fatal', bailing => bailing', bailing' => fatal',
           phase' = phase \/ (current = Main /\ frames[Main] = <<>>)
    PROVE  /\ ChainInv' /\ VmInv' /\ WaitsInv' /\ TopsInv' /\ DepthInv'
           /\ BlockingInv' /\ blocking' \in Nat /\ Left' = Left
<1>1. /\ current \in Contexts /\ frames \in [Contexts -> Seq(Frames)]
      /\ frames[current] \in Seq(Frames) /\ Len(frames[current]) <= Nesting
  BY DEF IInv, TypeOK, DepthInv
<1>2. frames' = [frames EXCEPT ![current] = frames[current]]
  BY <1>1
<1>3. ASSUME NEW i \in DOMAIN frames[current]
      PROVE  /\ frames[current][i].op \notin Waits
             /\ frames[current][i].op = "sweep" =>
                   current = Main /\ i = 1 /\ phase' = "destructors"
             /\ frames[current][i].op = "swept destructor" => current = Main
  <2>1. FrameSound(current, i, frames[current][i]) /\ frames[current] # <<>>
    BY <1>1, FrameAt
  <2> QED BY <1>3, <2>1, CurrentFrames DEF FrameSound
<1>4. ChainInv' /\ VmInv' /\ WaitsInv' /\ TopsInv' /\ DepthInv'
  BY <1>1, <1>2, <1>3, LocalKeeps
<1>5. Blocking' = Blocking /\ Left' = Left
  BY DEF Blocking, Left
<1>6. BlockingInv' /\ blocking' \in Nat
  BY <1>5, BlocksStay
<1> QED BY <1>4, <1>5, <1>6

LEMMA NewKeeps ==
    ASSUME IInv, NEW f \in Fibers, New(f)
    PROVE  IInv'
<1> USE DEF New, objectvars, fibervars, vmvars
<1>1. /\ ChainInv' /\ VmInv' /\ WaitsInv' /\ TopsInv' /\ DepthInv'
      /\ BlockingInv' /\ blocking' \in Nat /\ Left' = Left
  BY StayKeeps DEF IInv, VmInv
<1>2. TypeOK'
  BY DEF IInv, TypeOK
<1>3. object'[f] = "alive" /\ \A g \in Fibers \ {f} : object'[g] = object[g]
  BY DEF IInv, TypeOK
<1>4. ObjectsInv'
  BY <1>1, <1>3 DEF IInv, ObjectsInv, Left, TypeOK
<1>5. SweepInv'
  <2>1. f \notin destructed
    BY DEF IInv, ObjectsInv
  <2> QED BY <1>1, <1>3, <2>1 DEF IInv, SweepInv, SweepRuns, Left
<1> QED BY <1>1, <1>2, <1>4, <1>5 DEF IInv

LEMMA GetCurrentKeeps ==
    ASSUME IInv, GetCurrent
    PROVE  IInv'
<1> USE DEF GetCurrent, Running, objectvars, fibervars, vmvars
<1>1. /\ ChainInv' /\ VmInv' /\ WaitsInv' /\ TopsInv' /\ DepthInv'
      /\ BlockingInv' /\ blocking' \in Nat /\ Left' = Left
  BY StayKeeps DEF IInv, VmInv
<1>2. TypeOK'
  BY DEF IInv, TypeOK
<1>3. active = current /\ current \in Fibers /\ current # Main
  BY FiberAssumption DEF IInv, VmInv, TypeOK
<1>4. status[current] = "running" /\ object[current] = "alive"
  <2>1. caller[current] # Nobody
    BY <1>3, ChainFacts, FiberAssumption DEF IInv
  <2> QED BY <1>3, <2>1 DEF IInv, VmInv, ObjectsInv, Contexts
<1>5. ObjectsInv'
  BY <1>1, <1>3, <1>4 DEF IInv, ObjectsInv, Left
<1>6. SweepInv'
  BY <1>1, <1>3, <1>4 DEF IInv, SweepInv, SweepRuns, Left
<1> QED BY <1>1, <1>2, <1>5, <1>6 DEF IInv

LEMMA FatalKeeps ==
    ASSUME IInv, Fatal
    PROVE  IInv'
<1> USE DEF Fatal, objectvars, fibervars, vmvars
<1>1. /\ ChainInv' /\ VmInv' /\ WaitsInv' /\ TopsInv' /\ DepthInv'
      /\ BlockingInv' /\ blocking' \in Nat /\ Left' = Left
  BY StayKeeps
<1>2. TypeOK'
  BY DEF IInv, TypeOK
<1>3. ObjectsInv'
  BY <1>1 DEF IInv, ObjectsInv
<1>4. SweepInv'
  BY DEF SweepInv
<1> QED BY <1>1, <1>2, <1>3, <1>4 DEF IInv

LEMMA AfterPhases ==
    /\ After("script") = "functions" /\ After("functions") = "destructors"
    /\ After("destructors") = "late" /\ After("late") = "over"
<1>1. Phases[1] = "script" /\ Phases[2] = "functions" /\ Phases[3] = "destructors"
      /\ Phases[4] = "late" /\ Phases[5] = "over" /\ DOMAIN Phases = {1, 2, 3, 4, 5}
  BY DEF Phases
<1> QED BY <1>1 DEF After

LEMMA PhaseValues == ToSet(Phases) = {"script", "functions", "destructors", "late", "over"}
<1>1. Phases[1] = "script" /\ Phases[2] = "functions" /\ Phases[3] = "destructors"
      /\ Phases[4] = "late" /\ Phases[5] = "over" /\ DOMAIN Phases = {1, 2, 3, 4, 5}
  BY DEF Phases
<1> QED BY <1>1 DEF ToSet

LEMMA NextPhaseKeeps ==
    ASSUME IInv, NextPhase
    PROVE  IInv'
<1> USE DEF NextPhase, objectvars, fibervars, vmvars
<1>1. /\ ChainInv' /\ VmInv' /\ WaitsInv' /\ TopsInv' /\ DepthInv'
      /\ BlockingInv' /\ blocking' \in Nat /\ Left' = Left
  BY StayKeeps DEF IInv, VmInv
<1>2. /\ phase' \in {"functions", "destructors", "over"}
      /\ IF phase' = "over" THEN phase = "late" ELSE phase \notin {"late", "over"}
  BY AfterPhases
<1>3. TypeOK'
  BY <1>2, PhaseValues DEF IInv, TypeOK
<1>4. ObjectsInv'
  BY <1>1 DEF IInv, ObjectsInv
<1>5. SweepInv'
  BY <1>1, <1>2 DEF IInv, SweepInv, SweepRuns
<1> QED BY <1>1, <1>3, <1>4, <1>5 DEF IInv

LEMMA StutterKeeps ==
    ASSUME IInv, UNCHANGED vars
    PROVE  IInv'
<1> USE DEF vars, objectvars, fibervars, vmvars
<1>1. /\ ChainInv' /\ VmInv' /\ WaitsInv' /\ TopsInv' /\ DepthInv'
      /\ BlockingInv' /\ blocking' \in Nat /\ Left' = Left
  BY StayKeeps DEF IInv, VmInv
<1>2. TypeOK'
  BY DEF IInv, TypeOK
<1>3. ObjectsInv'
  BY <1>1 DEF IInv, ObjectsInv
<1>4. SweepInv'
  BY <1>1 DEF IInv, SweepInv, SweepRuns
<1> QED BY <1>1, <1>2, <1>3, <1>4 DEF IInv

-----------------------------------------------------------------------------
(* Calls of fibers                                                         *)

\* Who starts, resumes or closes a fiber that is not on the chain.
LEMMA StartKeeps ==
    ASSUME IInv, NEW f \in Fibers, Start(f)
    PROVE  IInv'
<1> USE DEF Start, Running, Blocked, objectvars
<1>1. caller[f] = Nobody
  BY DEF IInv, TopsInv
<1>2. f # current /\ Pushes(f, "resume")
  BY <1>1, EnterPushes
<1>3. /\ ChainInv' /\ VmInv' /\ WaitsInv' /\ TopsInv' /\ DepthInv'
      /\ BlockingInv' /\ blocking' \in Nat
      /\ status' \in [Contexts -> Statuses]
      /\ caller' \in [Contexts -> Contexts \cup {Nobody}]
      /\ flags' \in [Contexts -> SUBSET {"DESTROYED", "THREW", "BAILOUT"}]
      /\ frames' \in [Contexts -> Seq(Frames)]
      /\ current' \in Contexts /\ active' \in Fibers \cup {Nobody} /\ bailout' \in Contexts
      /\ Left' \subseteq Left \ {f}
      /\ \A g \in Fibers : /\ caller'[g] # Nobody => g = f \/ caller[g] # Nobody
                           /\ status'[g] # status[g] => status'[g] \in {"running", "suspended"}
                           /\ g # f /\ status'[g] = "suspended" =>
                                 status[g] \in {"running", "suspended"}
      /\ status'[f] = "running"
      /\ SweepRuns => SweepRuns'
  BY <1>1, <1>2, CallKeeps DEF InCall
<1>4. TypeOK'
  BY <1>3 DEF IInv, TypeOK, Late
<1>5. ObjectsInv'
  BY <1>3 DEF IInv, ObjectsInv, Left, TypeOK
<1>6. SweepInv'
  <2> SUFFICES ASSUME ~fatal, ~late, phase # "late"
               PROVE  /\ \A g \in Left' : object[g] = "alive" /\ g \notin destructed
                      /\ \A g \in destructed :
                             status'[g] \in {"init", "dead"} \/ "DESTROYED" \in flags[g]
                      /\ \A g \in destructed : status'[g] = "init" => g \notin held
    BY DEF SweepInv, Late
  <2>1. /\ \A g \in Left : object[g] = "alive" /\ g \notin destructed
        /\ \A g \in destructed : status[g] \in {"init", "dead"} \/ "DESTROYED" \in flags[g]
        /\ SweepRuns \/ \A g \in destructed : status[g] = "init" => g \notin held
    BY DEF IInv, SweepInv
  <2>2. \A g \in destructed : status[g] = "init" => g \notin held
    BY <2>1, SweepBlocks
  <2>3. f \notin destructed
    BY <2>2
  <2>4. destructed \subseteq Fibers
    BY DEF IInv, TypeOK
  <2>5. ASSUME NEW g \in destructed
        PROVE  /\ status'[g] \in {"init", "dead"} \/ "DESTROYED" \in flags[g]
               /\ status'[g] = "init" => g \notin held
    <3>1. g # f /\ g \in Fibers
      BY <2>3, <2>4
    <3>2. CASE status'[g] = status[g]
      BY <2>1, <2>2, <3>2
    <3>3. CASE status'[g] # status[g]
      <4>1. status'[g] \in {"running", "suspended"}
        BY <1>3, <3>1, <3>3
      <4>2. status'[g] = "suspended"
        BY <1>2, <3>1, <4>1 DEF Pushes, IInv, VmInv, TypeOK, Contexts
      <4>3. status[g] \in {"running", "suspended"}
        BY <1>3, <3>1, <4>2
      <4> QED BY <2>1, <4>2, <4>3
    <3> QED BY <3>2, <3>3
  <2> QED BY <1>3, <2>1, <2>5
<1> QED BY <1>3, <1>4, <1>5, <1>6 DEF IInv

LEMMA ResumeKeeps ==
    ASSUME IInv, NEW f \in Fibers, Resume(f)
    PROVE  IInv'
<1> USE DEF Resume, Running, Blocked, Resumable, objectvars
<1>1. f \in Left
  BY DEF Left
<1>2. f # current /\ Pushes(f, "resume")
  BY EnterPushes
<1>3. /\ ChainInv' /\ VmInv' /\ WaitsInv' /\ TopsInv' /\ DepthInv'
      /\ BlockingInv' /\ blocking' \in Nat
      /\ status' \in [Contexts -> Statuses]
      /\ caller' \in [Contexts -> Contexts \cup {Nobody}]
      /\ flags' \in [Contexts -> SUBSET {"DESTROYED", "THREW", "BAILOUT"}]
      /\ frames' \in [Contexts -> Seq(Frames)]
      /\ current' \in Contexts /\ active' \in Fibers \cup {Nobody} /\ bailout' \in Contexts
      /\ Left' \subseteq Left \ {f}
      /\ \A g \in Fibers : /\ caller'[g] # Nobody => g = f \/ caller[g] # Nobody
                           /\ status'[g] # status[g] => status'[g] \in {"running", "suspended"}
                           /\ g # f /\ status'[g] = "suspended" =>
                                 status[g] \in {"running", "suspended"}
      /\ status'[f] = "running"
      /\ SweepRuns => SweepRuns'
  BY <1>2, CallKeeps DEF InCall
<1>4. TypeOK'
  BY <1>3 DEF IInv, TypeOK, Late
<1>5. ObjectsInv'
  BY <1>3 DEF IInv, ObjectsInv, Left, TypeOK
<1>6. SweepInv'
  <2> SUFFICES ASSUME ~fatal, ~late, phase # "late"
               PROVE  /\ \A g \in Left' : object[g] = "alive" /\ g \notin destructed
                      /\ \A g \in destructed :
                             status'[g] \in {"init", "dead"} \/ "DESTROYED" \in flags[g]
                      /\ SweepRuns' \/ \A g \in destructed : status'[g] = "init" => g \notin held
    BY DEF SweepInv, Late
  <2>1. /\ \A g \in Left : object[g] = "alive" /\ g \notin destructed
        /\ \A g \in destructed : status[g] \in {"init", "dead"} \/ "DESTROYED" \in flags[g]
        /\ SweepRuns \/ \A g \in destructed : status[g] = "init" => g \notin held
    BY DEF IInv, SweepInv
  <2>2. f \notin destructed /\ destructed \subseteq Fibers
    BY <1>1, <2>1 DEF IInv, TypeOK
  <2>3. ASSUME NEW g \in destructed
        PROVE  /\ status'[g] \in {"init", "dead"} \/ "DESTROYED" \in flags[g]
               /\ status'[g] = "init" => status[g] = "init"
    <3>1. g # f /\ g \in Fibers
      BY <2>2
    <3>2. CASE status'[g] = status[g]
      BY <2>1, <3>2
    <3>3. CASE status'[g] # status[g]
      <4>1. status'[g] \in {"running", "suspended"}
        BY <1>3, <3>1, <3>3
      <4>2. status'[g] = "suspended"
        BY <1>2, <3>1, <4>1 DEF Pushes, IInv, VmInv, TypeOK, Contexts
      <4>3. status[g] \in {"running", "suspended"}
        BY <1>3, <3>1, <4>2
      <4> QED BY <2>1, <4>2, <4>3
    <3> QED BY <3>2, <3>3
  <2> QED BY <1>3, <2>1, <2>3
<1> QED BY <1>3, <1>4, <1>5, <1>6 DEF IInv

\* A fiber that no stack waits for is not on the chain.
LEMMA OffStack ==
    ASSUME IInv, NEW f \in Fibers, ~OnStack(f)
    PROVE  caller[f] = Nobody /\ status[f] # "running"
<1>1. caller[f] = Nobody
  <2> SUFFICES ASSUME caller[f] # Nobody PROVE FALSE
    OBVIOUS
  <2> DEFINE c == caller[f]
             n == Len(frames[c])
  <2>1. c \in Contexts
    BY DEF IInv, TypeOK, Contexts
  <2>2. frames[c] # <<>> /\ frames[c][n].op \in InCall /\ frames[c][n].fiber = f
    BY DEF IInv, TopsInv
  <2>3. n \in DOMAIN frames[c]
    BY <2>1, <2>2, FrameSeqs DEF IInv
  <2> QED BY <2>1, <2>2, <2>3 DEF OnStack, InCall
<1>2. status[f] # "running"
  <2>1. f \in Contexts /\ f # Main
    BY FiberAssumption DEF Contexts
  <2>2. f # current
    BY <1>1, <2>1, ChainFacts, FiberAssumption DEF IInv
  <2> QED BY <2>1, <2>2 DEF IInv, VmInv
<1> QED BY <1>1, <1>2

LEMMA ReleaseKeeps ==
    ASSUME IInv, NEW f \in Fibers, Release(f)
    PROVE  IInv'
<1> USE DEF Release
<1>1. /\ caller[f] = Nobody /\ status[f] # "running" /\ object[f] = "alive"
      /\ ~bailing /\ phase # "over"
  BY OffStack DEF ValuesDie, Running, IInv, ObjectsInv
<1>2. CASE Closes(f)
  <2>1. /\ f \notin destructed /\ status[f] = "suspended" /\ f \in Left
        /\ Close(f, "destroy") /\ blocking' = blocking + 1 /\ object' = object
    BY <1>1, <1>2 DEF Closes, Left
  <2>2. f # current /\ Pushes(f, "destroy")
    BY <1>1, <2>1, EnterPushes DEF Close
  <2>3. /\ flags' = [flags EXCEPT ![f] = @ \cup {"DESTROYED"}] /\ stack' = stack
        /\ "DESTROYED" \in flags'[f]
    BY <2>1 DEF Close, IInv, TypeOK, Contexts
  <2>4. /\ ChainInv' /\ VmInv' /\ WaitsInv' /\ TopsInv' /\ DepthInv'
        /\ BlockingInv' /\ blocking' \in Nat
        /\ status' \in [Contexts -> Statuses]
        /\ caller' \in [Contexts -> Contexts \cup {Nobody}]
        /\ flags' \in [Contexts -> SUBSET {"DESTROYED", "THREW", "BAILOUT"}]
        /\ frames' \in [Contexts -> Seq(Frames)]
        /\ current' \in Contexts /\ active' \in Fibers \cup {Nobody} /\ bailout' \in Contexts
        /\ Left' \subseteq Left \ {f}
        /\ \A g \in Left' : flags'[g] = flags[g]
        /\ \A g \in Fibers : /\ caller'[g] # Nobody => g = f \/ caller[g] # Nobody
                             /\ status'[g] # status[g] => status'[g] \in {"running", "suspended"}
                             /\ flags[g] \subseteq flags'[g]
                             /\ g # f /\ status'[g] = "suspended" =>
                                   status[g] \in {"running", "suspended"}
        /\ status'[f] = "running"
        /\ SweepRuns => SweepRuns'
    BY <1>1, <2>1, <2>2, <2>3, CallKeeps DEF InCall
  <2>5. TypeOK'
    BY <2>1, <2>3, <2>4 DEF IInv, TypeOK, Late
  <2>6. ObjectsInv'
    BY <1>1, <2>1, <2>3, <2>4 DEF IInv, ObjectsInv, Left, TypeOK
  <2>7. SweepInv'
    <3> SUFFICES ASSUME ~fatal, ~late, phase # "late"
                 PROVE  /\ \A g \in Left' : object[g] = "alive" /\ g \notin destructed'
                        /\ \A g \in destructed' :
                               status'[g] \in {"init", "dead"} \/ "DESTROYED" \in flags'[g]
                        /\ \/ SweepRuns'
                           \/ \A g \in destructed' : status'[g] = "init" => g \notin held'
      BY <1>1, <2>1 DEF SweepInv, Late
    <3>1. /\ \A g \in Left : object[g] = "alive" /\ g \notin destructed
          /\ \A g \in destructed : status[g] \in {"init", "dead"} \/ "DESTROYED" \in flags[g]
          /\ SweepRuns \/ \A g \in destructed : status[g] = "init" => g \notin held
      BY <1>1 DEF IInv, SweepInv
    <3>2. destructed \subseteq Fibers
      BY DEF IInv, TypeOK
    <3>3. ASSUME NEW g \in destructed
          PROVE  /\ status'[g] \in {"init", "dead"} \/ "DESTROYED" \in flags'[g]
                 /\ status'[g] = "init" => status[g] = "init"
      <4>1. g # f /\ g \in Fibers
        BY <2>1, <3>2
      <4>2. CASE status'[g] = status[g]
        BY <2>4, <3>1, <4>1, <4>2
      <4>3. CASE status'[g] # status[g]
        <5>1. status'[g] \in {"running", "suspended"}
          BY <2>4, <4>1, <4>3
        <5>2. status'[g] = "suspended"
          BY <2>2, <4>1, <5>1, <4>3 DEF Pushes, IInv, VmInv, TypeOK, Contexts
        <5>3. status[g] \in {"running", "suspended"}
          BY <2>4, <4>1, <5>2
        <5> QED BY <2>4, <3>1, <4>1, <5>2, <5>3
      <4> QED BY <4>2, <4>3
    <3> QED BY <2>3, <2>4, <3>1, <3>3
  <2> QED BY <2>4, <2>5, <2>6, <2>7 DEF IInv
<1>3. CASE ~Closes(f)
  <2>1. /\ object' = [object EXCEPT ![f] = "freed"]
        /\ UNCHANGED <<fibervars, vmvars, blocking, bailing, phase, fatal>>
    BY <1>3
  <2>2. /\ ChainInv' /\ VmInv' /\ WaitsInv' /\ TopsInv' /\ DepthInv'
        /\ BlockingInv' /\ blocking' \in Nat /\ Left' = Left
    BY <2>1, StayKeeps DEF fibervars, IInv, VmInv
  <2>3. TypeOK'
    BY <2>1, <2>2 DEF IInv, TypeOK, Late, fibervars, vmvars
  <2>4. object'[f] = "freed" /\ \A g \in Fibers \ {f} : object'[g] = object[g]
    BY <2>1 DEF IInv, TypeOK
  <2>5. ObjectsInv'
    BY <1>1, <2>1, <2>2, <2>4 DEF IInv, ObjectsInv, Left, TypeOK, fibervars
  <2>6. SweepInv'
    <3> SUFFICES ASSUME ~fatal, ~late, phase # "late"
                 PROVE  /\ \A g \in Left' : object'[g] = "alive" /\ g \notin destructed'
                        /\ \A g \in destructed' :
                               status'[g] \in {"init", "dead"} \/ "DESTROYED" \in flags'[g]
                        /\ \/ SweepRuns'
                           \/ \A g \in destructed' : status'[g] = "init" => g \notin held'
      <4>1. fatal' = fatal /\ phase' = phase /\ (late' <=> late \/ phase = "late")
        BY <2>1 DEF Late
      <4> HIDE DEF Release
      <4> QED BY <1>1, <4>1 DEF SweepInv
    <3>0. /\ status' = status /\ flags' = flags /\ frames' = frames /\ Left' = Left
          /\ (SweepRuns' <=> SweepRuns)
      BY <2>1, <2>2 DEF fibervars, SweepRuns
    <3>1. /\ \A g \in Left : object[g] = "alive" /\ g \notin destructed
          /\ \A g \in destructed : status[g] \in {"init", "dead"} \/ "DESTROYED" \in flags[g]
          /\ SweepRuns \/ \A g \in destructed : status[g] = "init" => g \notin held
      BY <1>1 DEF IInv, SweepInv
    <3>2. status[f] \in {"init", "dead"} /\ f \notin Left
      <4>1. f \notin Left
        BY <1>3, <3>1 DEF Closes, Left
      <4> QED BY <1>1, <4>1 DEF Left, IInv, TypeOK, Statuses, Contexts
    <3>3. Left \subseteq Fibers
      BY DEF Left
    <3> QED BY <2>4, <3>0, <3>1, <3>2, <3>3
  <2> QED BY <2>2, <2>3, <2>5, <2>6 DEF IInv
<1> QED BY <1>2, <1>3

\* The sweep is at the bottom of the main stack, and nothing is above it.
LEMMA SweepingFacts ==
    ASSUME IInv, Sweeping
    PROVE  /\ frames[Main] # <<>> /\ Len(frames[Main]) = 1 /\ frames[Main][1].op = "sweep"
           /\ phase = "destructors" /\ ~bailing /\ current = Main
           /\ \A c \in Contexts : caller[c] = Nobody
           /\ \A f \in Fibers : status[f] # "running"
<1>1. /\ current = Main /\ ~bailing /\ Main \in Contexts /\ frames[Main] # <<>>
      /\ Last(frames[Main]).op = "sweep"
  BY DEF Sweeping, Top, Call, Contexts
<1>2. /\ Len(frames[Main]) \in DOMAIN frames[Main]
      /\ frames[Main][Len(frames[Main])].op = "sweep"
  BY <1>1, FrameSeqs, Popped DEF IInv
<1>3. FrameSound(Main, Len(frames[Main]), frames[Main][Len(frames[Main])])
  BY <1>1, <1>2, FrameAt
<1>4. Len(frames[Main]) = 1 /\ phase = "destructors"
  BY <1>2, <1>3 DEF FrameSound
<1>5. \A c \in Contexts : caller[c] = Nobody
  BY <1>1, ChainFacts DEF IInv
<1>6. \A f \in Fibers : status[f] # "running"
  BY <1>1, FiberAssumption DEF IInv, VmInv, Contexts
<1> QED BY <1>1, <1>2, <1>4, <1>5, <1>6

LEMMA SweepFiberKeeps ==
    ASSUME IInv, NEW f \in Fibers, SweepFiber(f)
    PROVE  IInv'
<1> USE DEF SweepFiber
<1>1. /\ frames[Main] # <<>> /\ Len(frames[Main]) = 1 /\ frames[Main][1].op = "sweep"
      /\ phase = "destructors" /\ ~bailing /\ current = Main
      /\ caller[f] = Nobody /\ status[f] # "running"
      /\ \A g \in Fibers : status[g] # "running"
      /\ SweepRuns
  BY SweepingFacts DEF Contexts, SweepRuns
<1>2. CASE Closes(f)
  <2>1. /\ f \notin destructed /\ status[f] = "suspended" /\ f \in Left
        /\ Close(f, "swept") /\ blocking' = blocking /\ object' = object /\ held' = held
    BY <1>1, <1>2 DEF Closes, Left
  <2>2. f # current /\ Pushes(f, "swept")
    BY <1>1, <2>1, EnterPushes DEF Close
  <2>3. /\ flags' = [flags EXCEPT ![f] = @ \cup {"DESTROYED"}] /\ stack' = stack
        /\ "DESTROYED" \in flags'[f]
    BY <2>1 DEF Close, IInv, TypeOK, Contexts
  <2>4. /\ ChainInv' /\ VmInv' /\ WaitsInv' /\ TopsInv' /\ DepthInv'
        /\ BlockingInv' /\ blocking' \in Nat
        /\ status' \in [Contexts -> Statuses]
        /\ caller' \in [Contexts -> Contexts \cup {Nobody}]
        /\ flags' \in [Contexts -> SUBSET {"DESTROYED", "THREW", "BAILOUT"}]
        /\ frames' \in [Contexts -> Seq(Frames)]
        /\ current' \in Contexts /\ active' \in Fibers \cup {Nobody} /\ bailout' \in Contexts
        /\ Left' \subseteq Left \ {f}
        /\ \A g \in Left' : flags'[g] = flags[g]
        /\ \A g \in Fibers : /\ caller'[g] # Nobody => g = f \/ caller[g] # Nobody
                             /\ status'[g] # status[g] => status'[g] \in {"running", "suspended"}
                             /\ flags[g] \subseteq flags'[g]
                             /\ g # f /\ status'[g] = "suspended" =>
                                   status[g] \in {"running", "suspended"}
        /\ status'[f] = "running"
        /\ SweepRuns'
    BY <1>1, <2>1, <2>2, <2>3, CallKeeps DEF InCall
  <2>5. TypeOK'
    BY <2>1, <2>3, <2>4 DEF IInv, TypeOK
  <2>6. ObjectsInv'
    BY <2>1, <2>3, <2>4 DEF IInv, ObjectsInv, Left, TypeOK
  <2>7. SweepInv'
    <3> SUFFICES ASSUME ~fatal, ~late
                 PROVE  /\ \A g \in Left' : object[g] = "alive" /\ g \notin destructed'
                        /\ \A g \in destructed' :
                               status'[g] \in {"init", "dead"} \/ "DESTROYED" \in flags'[g]
      BY <1>1, <2>1, <2>4 DEF SweepInv
    <3>1. /\ \A g \in Left : object[g] = "alive" /\ g \notin destructed
          /\ \A g \in destructed : status[g] \in {"init", "dead"} \/ "DESTROYED" \in flags[g]
      BY DEF IInv, SweepInv
    <3>2. destructed \subseteq Fibers
      BY DEF IInv, TypeOK
    <3>3. ASSUME NEW g \in destructed
          PROVE  status'[g] \in {"init", "dead"} \/ "DESTROYED" \in flags'[g]
      <4>1. g # f /\ g \in Fibers /\ g # current
        BY <1>1, <2>1, <3>2, FiberAssumption
      <4>2. status'[g] = status[g]
        BY <2>2, <4>1 DEF Pushes, IInv, TypeOK, Contexts
      <4> QED BY <2>4, <3>1, <4>1, <4>2
    <3> QED BY <2>3, <2>4, <3>1, <3>3
  <2> QED BY <2>4, <2>5, <2>6, <2>7 DEF IInv
<1>3. CASE ~Closes(f)
  <2>1. UNCHANGED <<fibervars, vmvars, object, held, blocking, bailing, phase, fatal, late>>
    BY <1>3
  <2>2. /\ ChainInv' /\ VmInv' /\ WaitsInv' /\ TopsInv' /\ DepthInv'
        /\ BlockingInv' /\ blocking' \in Nat /\ Left' = Left
    BY <2>1, StayKeeps DEF fibervars, IInv, VmInv
  <2>3. TypeOK'
    BY <2>1, <2>2 DEF IInv, TypeOK, fibervars, vmvars
  <2>4. ObjectsInv'
    BY <2>1, <2>2 DEF IInv, ObjectsInv, fibervars
  <2>5. SweepInv'
    <3>1. status[f] # "suspended"
      BY <1>3 DEF Closes
    <3>2. status[f] \in {"init", "dead"} /\ f \notin Left
      BY <1>1, <3>1 DEF Left, IInv, TypeOK, Statuses, Contexts
    <3>3. /\ fatal' = fatal /\ phase' = phase /\ late' = late /\ stack' = stack
          /\ status' = status /\ flags' = flags /\ frames' = frames /\ object' = object
      BY <2>1 DEF fibervars
    <3> QED BY <1>1, <2>2, <3>2, <3>3 DEF IInv, SweepInv, SweepRuns
  <2> QED BY <2>2, <2>3, <2>4, <2>5 DEF IInv
<1> QED BY <1>2, <1>3

-----------------------------------------------------------------------------
(* Ways back                                                               *)

LEMMA SuspendKeeps ==
    ASSUME IInv, Suspend
    PROVE  /\ IInv'
           /\ current # Main /\ Pops("suspended", Suspended)
<1> USE DEF Suspend, Running, MaySuspend, Blocked
<1>1. active = current /\ current \in Fibers /\ current # Main /\ bailout = current
  BY FiberAssumption DEF IInv, VmInv, TypeOK, Contexts
<1>2. frames[current] = <<>>
  BY <1>1, NotBlocked
<1> DEFINE top == frames[caller[current]][Len(frames[caller[current]])]
<1>3. top.op # "destroy" /\ caller[current] # Nobody
  BY <1>1, CallerWaits, FiberAssumption
<1>4. Append(frames[current], Frame("suspend", active, active, active)) = Suspended
  <2> QED BY <1>1, <1>2 DEF Suspended
<1>5. [frames EXCEPT ![current] = Append(@, Frame("suspend", active, active, active))]
        = [frames EXCEPT ![current] = Suspended]
  BY <1>4 DEF IInv, TypeOK
<1>6. /\ Pops("suspended", Suspended)
      /\ flags' = flags /\ bailing' = FALSE /\ stack' = stack
      /\ blocking' = blocking /\ object' = object
  <2>1. Arrive(caller[current], current, "value", [status EXCEPT ![current] = "suspended"],
               [frames EXCEPT ![current] = Suspended], flags)
    BY <1>1, <1>5
  <2> HIDE DEF top
  <2>2. /\ Pops("suspended", Suspended)
        /\ flags' = flags /\ bailing' = ("value" = "bailout")
        /\ stack' = IF "suspended" = "dead" THEN stack \ {current} ELSE stack
        /\ blocking' = IF top.op = "destroy" /\ "value" # "bailout" THEN blocking - 1 ELSE blocking
        /\ object' = IF (top.op = "destroy" /\ "value" # "bailout") /\ current \notin held
                     THEN [object EXCEPT ![current] = "freed"] ELSE object
    BY <1>1, <2>1, ArrivePops DEF top
  <2> QED BY <1>3, <2>2
<1>7. Leaves("suspended", Suspended)
  BY DEF Leaves
<1>8. /\ ChainInv' /\ VmInv' /\ WaitsInv' /\ TopsInv' /\ DepthInv'
      /\ BlockingInv' /\ blocking' \in Nat
      /\ status' \in [Contexts -> Statuses]
      /\ caller' \in [Contexts -> Contexts \cup {Nobody}]
      /\ flags' \in [Contexts -> SUBSET {"DESTROYED", "THREW", "BAILOUT"}]
      /\ frames' \in [Contexts -> Seq(Frames)]
      /\ current' \in Contexts /\ active' \in Fibers \cup {Nobody} /\ bailout' \in Contexts
      /\ Left' \subseteq Left \cup {current}
      /\ current \notin Left /\ status'[current] = "suspended"
      /\ \A g \in Fibers : /\ caller'[g] # Nobody => g # current /\ caller[g] # Nobody
                           /\ g # current => \/ status'[g] = status[g]
                                             \/ status'[g] = "running" /\ status[g] = "suspended"
      /\ SweepRuns => SweepRuns'
  BY <1>1, <1>2, <1>3, <1>6, <1>7, ReturnKeeps
<1>9. TypeOK'
  BY <1>6, <1>8 DEF IInv, TypeOK
<1>10. /\ "DESTROYED" \notin flags[current] /\ object[current] = "alive"
       /\ status[current] = "running"
  BY <1>1, <1>3 DEF IInv, ObjectsInv, VmInv, Contexts
<1>11. ObjectsInv'
  BY <1>1, <1>6, <1>8, <1>10 DEF IInv, ObjectsInv, TypeOK
<1>12. SweepInv'
  <2> SUFFICES ASSUME ~fatal, ~late
               PROVE  /\ \A g \in Left' : object[g] = "alive" /\ g \notin destructed
                      /\ \A g \in destructed :
                             status'[g] \in {"init", "dead"} \/ "DESTROYED" \in flags[g]
                      /\ \/ SweepRuns' \/ phase \in {"late", "over"}
                         \/ \A g \in destructed : status'[g] = "init" => g \notin held
                      /\ phase \in {"late", "over"} => stack = {}
    BY <1>6 DEF SweepInv
  <2>1. /\ \A g \in Left : object[g] = "alive" /\ g \notin destructed
        /\ \A g \in destructed : status[g] \in {"init", "dead"} \/ "DESTROYED" \in flags[g]
        /\ \/ SweepRuns \/ phase \in {"late", "over"}
           \/ \A g \in destructed : status[g] = "init" => g \notin held
        /\ phase \in {"late", "over"} => stack = {}
    BY DEF IInv, SweepInv
  <2>2. current \notin destructed /\ destructed \subseteq Fibers
    BY <1>10, <2>1 DEF IInv, TypeOK
  <2> QED BY <1>8, <1>10, <2>1, <2>2
<1> QED BY <1>1, <1>6, <1>8, <1>9, <1>11, <1>12 DEF IInv

\* A fiber that ends, by itself or by a bailout.
LEMMA EndsKeep ==
    ASSUME IInv, current # Main, NEW transfer, NEW fl,
           Arrive(caller[current], current, transfer, [status EXCEPT ![current] = "dead"],
                  [frames EXCEPT ![current] = <<>>], fl),
           fl \in {flags, [flags EXCEPT ![current] = @ \cup {"THREW"}],
                          [flags EXCEPT ![current] = @ \cup {"BAILOUT"}]},
           IF transfer = "bailout" THEN fatal ELSE frames[current] = <<>>,
           UNCHANGED <<held, destructed, phase, fatal, late>>
    PROVE  IInv' /\ Pops("dead", <<>>)
<1> DEFINE top == frames[caller[current]][Len(frames[caller[current]])]
<1>1. current \in Fibers /\ caller[current] # Nobody
  BY CallerWaits, FiberAssumption
<1>2. /\ Pops("dead", <<>>)
      /\ flags' = fl /\ bailing' = (transfer = "bailout") /\ stack' = stack \ {current}
      /\ blocking' = IF top.op = "destroy" /\ ~bailing' THEN blocking - 1 ELSE blocking
      /\ object' \in {object, [object EXCEPT ![current] = "freed"]}
      /\ object' # object => current \notin held
  <2> HIDE DEF top
  <2>1. /\ Pops("dead", <<>>)
        /\ flags' = fl /\ bailing' = (transfer = "bailout")
        /\ stack' = IF "dead" = "dead" THEN stack \ {current} ELSE stack
        /\ blocking' = IF top.op = "destroy" /\ transfer # "bailout" THEN blocking - 1 ELSE blocking
        /\ object' = IF (top.op = "destroy" /\ transfer # "bailout") /\ current \notin held
                     THEN [object EXCEPT ![current] = "freed"] ELSE object
    BY ArrivePops DEF top
  <2> QED BY <2>1
<1>3. Leaves("dead", <<>>)
  BY DEF Leaves
<1>4. /\ ChainInv' /\ VmInv' /\ WaitsInv' /\ TopsInv' /\ DepthInv'
      /\ BlockingInv' /\ blocking' \in Nat
      /\ status' \in [Contexts -> Statuses]
      /\ caller' \in [Contexts -> Contexts \cup {Nobody}]
      /\ flags' \in [Contexts -> SUBSET {"DESTROYED", "THREW", "BAILOUT"}]
      /\ frames' \in [Contexts -> Seq(Frames)]
      /\ current' \in Contexts /\ active' \in Fibers \cup {Nobody} /\ bailout' \in Contexts
      /\ Left' \subseteq Left
      /\ current \notin Left /\ status'[current] = "dead"
      /\ \A g \in Fibers : /\ caller'[g] # Nobody => g # current /\ caller[g] # Nobody
                           /\ "DESTROYED" \in flags[g] <=> "DESTROYED" \in flags'[g]
                           /\ g # current => \/ status'[g] = status[g]
                                             \/ status'[g] = "running" /\ status[g] = "suspended"
      /\ SweepRuns => SweepRuns'
  BY <1>2, <1>3, ReturnKeeps
<1>5. /\ object' \in [Fibers -> {"none", "alive", "freed"}]
      /\ \A g \in Fibers \ {current} : object'[g] = object[g]
      /\ object'[current] \in {object[current], "freed"}
      /\ current \in held => object'[current] = object[current]
  BY <1>1, <1>2 DEF IInv, TypeOK
<1>6. TypeOK'
  BY <1>2, <1>4, <1>5 DEF IInv, TypeOK
<1>7. /\ Left' \subseteq Fibers /\ held \subseteq Fibers /\ destructed \subseteq Fibers
      /\ stack \subseteq Fibers
  BY DEF IInv, TypeOK, Left
<1>8. ObjectsInv'
  BY <1>1, <1>2, <1>4, <1>5, <1>7 DEF IInv, ObjectsInv
<1>9. SweepInv'
  <2> SUFFICES ASSUME ~fatal, ~late
               PROVE  /\ \A g \in Left' : object'[g] = "alive" /\ g \notin destructed
                      /\ \A g \in destructed :
                             status'[g] \in {"init", "dead"} \/ "DESTROYED" \in flags'[g]
                      /\ \/ SweepRuns' \/ phase \in {"late", "over"}
                         \/ \A g \in destructed : status'[g] = "init" => g \notin held
                      /\ phase \in {"late", "over"} => stack' = {}
    BY DEF SweepInv
  <2>1. /\ \A g \in Left : object[g] = "alive" /\ g \notin destructed
        /\ \A g \in destructed : status[g] \in {"init", "dead"} \/ "DESTROYED" \in flags[g]
        /\ \/ SweepRuns \/ phase \in {"late", "over"}
           \/ \A g \in destructed : status[g] = "init" => g \notin held
        /\ phase \in {"late", "over"} => stack = {}
    BY DEF IInv, SweepInv
  <2>2. \A g \in destructed : /\ status'[g] \in {"init", "dead"} \/ "DESTROYED" \in flags'[g]
                              /\ status'[g] = "init" => status[g] = "init"
    BY <1>4, <1>7, <2>1
  <2> QED BY <1>2, <1>4, <1>5, <1>7, <2>1, <2>2
<1> QED BY <1>2, <1>4, <1>6, <1>8, <1>9 DEF IInv

LEMMA EndKeeps ==
    ASSUME IInv, NEW transfer \in {"value", "error"}, End(transfer)
    PROVE  IInv' /\ current # Main /\ Pops("dead", <<>>)
<1> USE DEF End
<1>1. frames = [frames EXCEPT ![current] = <<>>]
  BY DEF IInv, TypeOK
<1> QED BY <1>1, EndsKeep

LEMMA CaughtInFiberKeeps ==
    ASSUME IInv, CaughtInFiber
    PROVE  IInv' /\ current # Main /\ Pops("dead", <<>>)
BY EndsKeep DEF CaughtInFiber, IInv, VmInv

-----------------------------------------------------------------------------
(* Destructors begin and end                                               *)

Calls == {"destructor", "swept destructor", "sweep"}

\* Place by place: only the last one differs.
LEMMA PushedAt ==
    ASSUME NEW s \in Seq(Frames), NEW e \in Frames, Nesting \in Nat, Len(s) < Nesting
    PROVE  LET k == Len(s) + 1
           IN /\ k \in 1..Nesting + 1 /\ k \in Nat
              /\ Append(s, e) \in Seq(Frames) /\ Append(s, e) # <<>>
              /\ Len(Append(s, e)) <= Nesting
              /\ k \in DOMAIN Append(s, e) /\ k \notin DOMAIN s /\ Append(s, e)[k] = e
              /\ \A i : i # k => (i \in DOMAIN Append(s, e) <=> i \in DOMAIN s)
              /\ \A i \in DOMAIN s : Append(s, e)[i] = s[i]
              /\ s = <<>> => k = 1
              /\ s # <<>> => 1 \in DOMAIN s
<1>1. /\ Append(s, e) \in Seq(Frames)
      /\ Len(Append(s, e)) = Len(s) + 1 /\ Len(s) \in Nat
      /\ DOMAIN Append(s, e) = 1..Len(s) + 1 /\ DOMAIN s = 1..Len(s)
      /\ \A i \in 1..Len(s) : Append(s, e)[i] = s[i]
      /\ Append(s, e)[Len(s) + 1] = e
      /\ Append(s, e) # <<>>
  BY Pushed
<1>2. s = <<>> <=> Len(s) = 0
  BY EmptySeq
<1>3. \A i : i # Len(s) + 1 => (i \in 1..Len(s) + 1 <=> i \in 1..Len(s))
  BY <1>1
<1>4. /\ Len(s) + 1 \in 1..Nesting + 1 /\ Len(s) + 1 \in Nat
      /\ Len(s) + 1 \in 1..Len(s) + 1 /\ Len(s) + 1 \notin 1..Len(s)
      /\ Len(s) + 1 <= Nesting
      /\ Len(s) = 0 => Len(s) + 1 = 1
      /\ Len(s) # 0 => 1 \in 1..Len(s)
  BY <1>1
<1> QED BY <1>1, <1>2, <1>3, <1>4

LEMMA PoppedAt ==
    ASSUME NEW s \in Seq(Frames), s # <<>>, Nesting \in Nat, Len(s) <= Nesting
    PROVE  LET k == Len(s)
           IN /\ k \in 1..Nesting + 1 /\ k \in Nat
              /\ Front(s) \in Seq(Frames) /\ Len(Front(s)) <= Nesting
              /\ k \notin DOMAIN Front(s) /\ k \in DOMAIN s /\ s[k] = Last(s)
              /\ \A i : i # k => (i \in DOMAIN Front(s) <=> i \in DOMAIN s)
              /\ \A i \in DOMAIN Front(s) : i \in DOMAIN s /\ Front(s)[i] = s[i] /\ k # 1
              /\ 1 \in DOMAIN s
              /\ k # 1 => Front(s) # <<>> /\ 1 \in DOMAIN Front(s)
<1>1. /\ Front(s) \in Seq(Frames)
      /\ Last(s) = s[Len(s)]
      /\ Len(s) \in Nat /\ Len(s) >= 1 /\ DOMAIN s = 1..Len(s)
      /\ Len(Front(s)) = Len(s) - 1 /\ DOMAIN Front(s) = 1..Len(s) - 1
      /\ \A i \in 1..Len(s) - 1 : Front(s)[i] = s[i]
      /\ Front(s) = <<>> <=> Len(s) = 1
  BY Popped
<1>2. \A i : i # Len(s) => (i \in 1..Len(s) - 1 <=> i \in 1..Len(s))
  BY <1>1
<1>3. /\ Len(s) \in 1..Nesting + 1
      /\ Len(s) - 1 <= Nesting
      /\ Len(s) \in 1..Len(s) /\ Len(s) \notin 1..Len(s) - 1
      /\ \A i \in 1..Len(s) - 1 : i \in 1..Len(s) /\ Len(s) # 1
      /\ 1 \in 1..Len(s)
      /\ Len(s) # 1 => 1 \in 1..Len(s) - 1
  BY <1>1
<1> QED BY <1>1, <1>2, <1>3

LEMMA PushCall ==
    ASSUME IInv, NEW op \in Calls,
           Len(frames[current]) < Nesting,
           frames' = [frames EXCEPT ![current] = Append(@, Call(op))],
           UNCHANGED <<objectvars, status, caller, flags, stack, vmvars, bailing, phase, fatal, late>>,
           op # "destructor" => current = Main,
           op = "sweep" => frames[Main] = <<>> /\ phase = "destructors",
           blocking' = IF op = "swept destructor" THEN blocking ELSE blocking + 1
    PROVE  IInv'
<1> USE DEF objectvars, vmvars
<1> DEFINE s == frames[current]
           F == Append(s, Call(op))
           k == Len(s) + 1
           b == <<current, k>>
<1>1. /\ current \in Contexts /\ Main \in Contexts /\ frames \in [Contexts -> Seq(Frames)]
      /\ s \in Seq(Frames) /\ Nesting \in Nat /\ Len(s) < Nesting
  BY FiberAssumption DEF IInv, TypeOK, Contexts
<1>2. Call(op) \in Frames /\ Call(op).op = op
  BY DEF Call, Frames, Calls
<1>3. /\ k \in 1..Nesting + 1
      /\ F \in Seq(Frames) /\ F # <<>> /\ Len(F) <= Nesting
      /\ k \in DOMAIN F /\ k \notin DOMAIN s /\ F[k] = Call(op)
      /\ \A i : i # k => (i \in DOMAIN F <=> i \in DOMAIN s)
      /\ \A i \in DOMAIN s : F[i] = s[i]
      /\ s = <<>> => k = 1
      /\ s # <<>> => 1 \in DOMAIN s
  <2> HIDE DEF s
  <2> QED BY <1>1, <1>2, PushedAt
<1>4. frames' = [frames EXCEPT ![current] = F]
  OBVIOUS
<1> HIDE DEF F, k
<1>5. frames' \in [Contexts -> Seq(Frames)]
  BY <1>1, <1>3, <1>4
<1>6. frames'[current] = F /\ \A c \in Contexts \ {current} : frames'[c] = frames[c]
  BY <1>1, <1>4
<1>7. ASSUME NEW i \in DOMAIN F
      PROVE  /\ F[i].op \notin Waits
             /\ F[i].op = "sweep" => current = Main /\ i = 1 /\ phase' = "destructors"
             /\ F[i].op = "swept destructor" => current = Main
  <2>1. CASE i = k
    BY <1>2, <1>3, <2>1 DEF Calls, Waits
  <2>2. CASE i # k
    <3>1. i \in DOMAIN s /\ F[i] = s[i]
      BY <1>3, <2>2
    <3>2. FrameSound(current, i, s[i])
      BY <1>1, <3>1, FrameAt
    <3> QED BY <3>1, <3>2, CurrentFrames DEF FrameSound
  <2> QED BY <2>1, <2>2
<1>8. ChainInv' /\ VmInv' /\ WaitsInv' /\ TopsInv' /\ DepthInv'
  <2>1. bailing' => fatal'
    BY DEF IInv, VmInv
  <2> QED BY <1>3, <1>4, <1>7, <2>1, LocalKeeps
<1>9. BlockingInv' /\ blocking' \in Nat
  <2>1. b \notin Blocking
    BY <1>1, <1>3, InBlocking
  <2>2. b \in Blocking' <=> op # "swept destructor"
    <3>1. k \in DOMAIN frames'[current] /\ frames'[current][k] = Call(op)
      BY <1>3, <1>6
    <3>2. Blocks(frames'[current][k]) <=> op # "swept destructor"
      BY <1>2, <3>1 DEF Blocks, Calls
    <3> QED BY <1>1, <1>3, <3>1, <3>2, InBlocking
  <2>3. \A i \in 1..Nesting + 1 : i # k =>
            (<<current, i>> \in Blocking' <=> <<current, i>> \in Blocking)
    <3> SUFFICES ASSUME NEW i \in 1..Nesting + 1, i # k
                 PROVE  <<current, i>> \in Blocking' <=> <<current, i>> \in Blocking
      OBVIOUS
    <3>1. /\ i \in DOMAIN F <=> i \in DOMAIN s
          /\ i \in DOMAIN s => F[i] = s[i]
      BY <1>3
    <3> QED BY <1>1, <1>6, <3>1, InBlocking
  <2>4. \A c \in Contexts \ {current} : \A i \in 1..Nesting + 1 :
            <<c, i>> \in Blocking' <=> <<c, i>> \in Blocking
    BY <1>6, InBlocking
  <2>5. Blocking \subseteq Contexts \X (1..Nesting + 1) /\ b \in Contexts \X (1..Nesting + 1)
    BY <1>1, <1>3 DEF Blocking
  <2>6. CASE op # "swept destructor"
    <3> DEFINE B == Blocking \cup {b}
    <3>1. \A c \in Contexts : \A i \in 1..Nesting + 1 :
              <<c, i>> \in Blocking' <=> <<c, i>> \in B
      BY <2>2, <2>3, <2>4, <2>6
    <3>2. B \subseteq Contexts \X (1..Nesting + 1)
      BY <2>5
    <3> HIDE DEF B
    <3>3. Blocking' = B
      BY <3>1, <3>2, BlockingPlaces
    <3> QED BY <2>1, <2>6, <3>3, BlockAdded DEF B
  <2>7. CASE op = "swept destructor"
    <3>1. \A c \in Contexts : \A i \in 1..Nesting + 1 :
              <<c, i>> \in Blocking' <=> <<c, i>> \in Blocking
      BY <2>1, <2>2, <2>3, <2>4, <2>7
    <3>2. Blocking' = Blocking
      BY <2>5, <3>1, BlockingPlaces
    <3> QED BY <2>7, <3>2, BlocksStay
  <2> QED BY <2>6, <2>7
<1>10. TypeOK'
  BY <1>5, <1>9 DEF IInv, TypeOK
<1>11. Left' = Left
  BY DEF Left
<1>12. ObjectsInv'
  BY <1>11 DEF IInv, ObjectsInv
<1>13. SweepRuns => SweepRuns'
  <2> SUFFICES ASSUME SweepRuns PROVE SweepRuns'
    OBVIOUS
  <2>1. CASE current = Main
    BY <1>3, <1>6, <2>1 DEF SweepRuns
  <2>2. CASE current # Main
    BY <1>1, <1>6, <2>2 DEF SweepRuns
  <2> QED BY <2>1, <2>2
<1>14. SweepInv'
  BY <1>11, <1>13 DEF IInv, SweepInv
<1> QED BY <1>8, <1>9, <1>10, <1>12, <1>14 DEF IInv

LEMMA PopCall ==
    ASSUME IInv, NEW op \in Calls, Top(current).op = op,
           frames' = [frames EXCEPT ![current] = Front(@)],
           UNCHANGED <<objectvars, status, caller, flags, stack, vmvars, bailing, fatal, late>>,
           op # "sweep" => phase' = phase,
           phase' = phase \/ current = Main,
           blocking' = IF op = "swept destructor" THEN blocking ELSE blocking - 1
    PROVE  /\ ChainInv' /\ VmInv' /\ WaitsInv' /\ TopsInv' /\ DepthInv'
           /\ BlockingInv' /\ blocking' \in Nat
           /\ frames' \in [Contexts -> Seq(Frames)] /\ ObjectsInv' /\ Left' = Left
           /\ op # "sweep" /\ SweepRuns => SweepRuns'
<1> USE DEF objectvars, vmvars
<1> DEFINE s == frames[current]
           F == Front(s)
           k == Len(s)
           b == <<current, k>>
<1>1. /\ current \in Contexts /\ Main \in Contexts /\ frames \in [Contexts -> Seq(Frames)]
      /\ s \in Seq(Frames) /\ Nesting \in Nat /\ Len(s) <= Nesting
  BY FiberAssumption DEF IInv, TypeOK, Contexts, DepthInv
<1>2. s # <<>> /\ Last(s).op = op
  BY DEF Top, Call, Calls
<1>3. /\ k \in 1..Nesting + 1
      /\ F \in Seq(Frames) /\ Len(F) <= Nesting
      /\ k \notin DOMAIN F /\ k \in DOMAIN s /\ s[k] = Last(s)
      /\ \A i : i # k => (i \in DOMAIN F <=> i \in DOMAIN s)
      /\ \A i \in DOMAIN F : i \in DOMAIN s /\ F[i] = s[i] /\ k # 1
      /\ 1 \in DOMAIN s
      /\ k # 1 => F # <<>> /\ 1 \in DOMAIN F
  <2> HIDE DEF s
  <2> QED BY <1>1, <1>2, PoppedAt
<1>4. frames' = [frames EXCEPT ![current] = F]
  OBVIOUS
<1> HIDE DEF F, k
<1>5. frames' \in [Contexts -> Seq(Frames)]
  BY <1>1, <1>3, <1>4
<1>6. frames'[current] = F /\ \A c \in Contexts \ {current} : frames'[c] = frames[c]
  BY <1>1, <1>4
<1>15. op = "sweep" => k = 1
  <2>1. FrameSound(current, k, s[k])
    BY <1>1, <1>3, FrameAt
  <2> QED BY <1>2, <1>3, <2>1 DEF FrameSound
<1>7. ASSUME NEW i \in DOMAIN F
      PROVE  /\ F[i].op \notin Waits
             /\ F[i].op = "sweep" => current = Main /\ i = 1 /\ phase' = "destructors"
             /\ F[i].op = "swept destructor" => current = Main
  <2>1. i \in DOMAIN s /\ F[i] = s[i] /\ k # 1
    BY <1>3
  <2>2. FrameSound(current, i, s[i])
    BY <1>1, <2>1, FrameAt
  <2>3. op # "sweep"
    BY <1>15, <2>1
  <2> QED BY <2>1, <2>2, <2>3, CurrentFrames DEF FrameSound
<1>8. ChainInv' /\ VmInv' /\ WaitsInv' /\ TopsInv' /\ DepthInv'
  <2>1. bailing' => fatal'
    BY DEF IInv, VmInv
  <2> QED BY <1>3, <1>4, <1>7, <2>1, LocalKeeps
<1>9. BlockingInv' /\ blocking' \in Nat
  <2>1. b \in Blocking <=> op # "swept destructor"
    <3>1. b \in Blocking <=> Blocks(s[k])
      BY <1>1, <1>3, InBlocking
    <3> QED BY <1>2, <1>3, <3>1 DEF Blocks, Calls
  <2>2. b \notin Blocking'
    BY <1>1, <1>3, <1>6, InBlocking
  <2>3. \A i \in 1..Nesting + 1 : i # k =>
            (<<current, i>> \in Blocking' <=> <<current, i>> \in Blocking)
    <3> SUFFICES ASSUME NEW i \in 1..Nesting + 1, i # k
                 PROVE  <<current, i>> \in Blocking' <=> <<current, i>> \in Blocking
      OBVIOUS
    <3>1. /\ i \in DOMAIN F <=> i \in DOMAIN s
          /\ i \in DOMAIN F => F[i] = s[i]
      BY <1>3
    <3> QED BY <1>1, <1>6, <3>1, InBlocking
  <2>4. \A c \in Contexts \ {current} : \A i \in 1..Nesting + 1 :
            <<c, i>> \in Blocking' <=> <<c, i>> \in Blocking
    BY <1>6, InBlocking
  <2>5. Blocking \subseteq Contexts \X (1..Nesting + 1)
    BY DEF Blocking
  <2>6. CASE op # "swept destructor"
    <3> DEFINE B == Blocking \ {b}
    <3>1. \A c \in Contexts : \A i \in 1..Nesting + 1 :
              <<c, i>> \in Blocking' <=> <<c, i>> \in B
      BY <2>2, <2>3, <2>4
    <3>2. B \subseteq Contexts \X (1..Nesting + 1)
      BY <2>5
    <3> HIDE DEF B
    <3>3. Blocking' = B
      BY <3>1, <3>2, BlockingPlaces
    <3> QED BY <2>1, <2>6, <3>3, BlockRemoved DEF B
  <2>7. CASE op = "swept destructor"
    <3>1. \A c \in Contexts : \A i \in 1..Nesting + 1 :
              <<c, i>> \in Blocking' <=> <<c, i>> \in Blocking
      BY <2>1, <2>2, <2>3, <2>4, <2>7
    <3>2. Blocking' = Blocking
      BY <2>5, <3>1, BlockingPlaces
    <3> QED BY <2>7, <3>2, BlocksStay
  <2> QED BY <2>6, <2>7
<1>11. Left' = Left
  BY DEF Left
<1>12. ObjectsInv'
  BY <1>11 DEF IInv, ObjectsInv
<1>13. ASSUME op # "sweep", SweepRuns PROVE SweepRuns'
  <2>1. CASE current = Main
    <3>1. k # 1
      BY <1>2, <1>3, <1>13, <2>1 DEF SweepRuns
    <3> QED BY <1>3, <1>6, <1>13, <2>1, <3>1 DEF SweepRuns
  <2>2. CASE current # Main
    BY <1>1, <1>6, <1>13, <2>2 DEF SweepRuns
  <2> QED BY <2>1, <2>2
<1> QED BY <1>5, <1>8, <1>9, <1>11, <1>12, <1>13

LEMMA BeginsKeep ==
    ASSUME IInv, DestructorBegin \/ SweepBegin \/ SweepBeginObject
    PROVE  IInv'
<1>1. CASE DestructorBegin
  BY <1>1, PushCall DEF DestructorBegin, Calls
<1>2. CASE SweepBegin
  <2>1. Len(frames[Main]) < Nesting
    BY <1>2, FiberAssumption, EmptySeq DEF SweepBegin
  <2> QED BY <1>2, <2>1, PushCall DEF SweepBegin, Calls
<1>3. CASE SweepBeginObject
  BY <1>3, PushCall DEF SweepBeginObject, Sweeping, Calls
<1> QED BY <1>1, <1>2, <1>3

LEMMA EndsOfCallsKeep ==
    ASSUME IInv, DestructorEnd \/ SweepEndObject
    PROVE  IInv'
<1>1. PICK op \in {"destructor", "swept destructor"} :
          /\ Top(current).op = op
          /\ frames' = [frames EXCEPT ![current] = Front(@)]
          /\ blocking' = IF op = "swept destructor" THEN blocking ELSE blocking - 1
          /\ UNCHANGED <<objectvars, status, caller, flags, stack, vmvars, bailing, phase, fatal, late>>
  BY DEF DestructorEnd, SweepEndObject
<1>2. /\ ChainInv' /\ VmInv' /\ WaitsInv' /\ TopsInv' /\ DepthInv'
      /\ BlockingInv' /\ blocking' \in Nat
      /\ frames' \in [Contexts -> Seq(Frames)] /\ ObjectsInv' /\ Left' = Left
      /\ SweepRuns => SweepRuns'
  BY <1>1, PopCall DEF Calls
<1>3. TypeOK'
  BY <1>1, <1>2 DEF IInv, TypeOK, objectvars, vmvars
<1>4. SweepInv'
  BY <1>1, <1>2 DEF IInv, SweepInv, objectvars
<1> QED BY <1>2, <1>3, <1>4 DEF IInv

\* The sweep has found every fiber: none is left suspended, no stack is left.
LEMMA SweepEndKeeps ==
    ASSUME IInv, SweepEnd
    PROVE  IInv'
<1> USE DEF SweepEnd
<1>1. /\ frames[Main] # <<>> /\ Len(frames[Main]) = 1
      /\ phase = "destructors" /\ current = Main
      /\ \A c \in Contexts : caller[c] = Nobody
      /\ \A f \in Fibers : status[f] # "running"
  BY SweepingFacts
<1>2. Top(current).op = "sweep"
  BY <1>1 DEF Sweeping
<1>3. frames' = [frames EXCEPT ![current] = Front(@)]
  <2>1. frames \in [Contexts -> Seq(Frames)] /\ Main \in Contexts
    BY DEF IInv, TypeOK, Contexts
  <2>2. Front(frames[Main]) = <<>>
    BY <1>1, <2>1, Popped
  <2> QED BY <1>1, <2>1, <2>2
<1>4. /\ ChainInv' /\ VmInv' /\ WaitsInv' /\ TopsInv' /\ DepthInv'
      /\ BlockingInv' /\ blocking' \in Nat
      /\ frames' \in [Contexts -> Seq(Frames)] /\ ObjectsInv' /\ Left' = Left
  BY <1>1, <1>2, <1>3, PopCall DEF Calls
<1>5. phase' = "late"
  BY <1>1, AfterPhases
<1>6. TypeOK'
  BY <1>4, <1>5, PhaseValues DEF IInv, TypeOK, objectvars, vmvars
<1>7. SweepInv'
  <2> SUFFICES ASSUME ~fatal, ~late
               PROVE  /\ \A g \in Left : object[g] = "alive" /\ g \notin destructed
                      /\ \A g \in destructed :
                             status[g] \in {"init", "dead"} \/ "DESTROYED" \in flags[g]
                      /\ stack = {}
    BY <1>4, <1>5 DEF SweepInv, objectvars
  <2>1. /\ \A g \in Left : object[g] = "alive" /\ g \notin destructed
        /\ \A g \in destructed : status[g] \in {"init", "dead"} \/ "DESTROYED" \in flags[g]
    BY DEF IInv, SweepInv
  <2>2. \A f \in Fibers : object[f] = "alive" => f \in destructed
    OBVIOUS
  <2>3. stack \subseteq Fibers /\ \A f \in stack : status[f] \in {"running", "suspended"}
    BY DEF IInv, TypeOK, ObjectsInv
  <2>4. \A f \in stack : f \in Left
    BY <1>1, <2>3 DEF Left, Contexts
  <2> QED BY <2>1, <2>2, <2>3, <2>4
<1> QED BY <1>4, <1>6, <1>7 DEF IInv

LEMMA CaughtInMainKeeps ==
    ASSUME IInv, phase # "over", CaughtInMain
    PROVE  IInv'
<1> USE DEF CaughtInMain
<1>1. fatal /\ fatal' = fatal /\ current = Main /\ Main \in Contexts
  BY DEF IInv, VmInv, Contexts
<1>2. <<>> \in Seq(Frames) /\ Len(<<>>) = 0 /\ DOMAIN <<>> = {}
  BY EmptySeq
<1>3. ChainInv' /\ VmInv' /\ WaitsInv' /\ TopsInv' /\ DepthInv'
  <2> DEFINE F == <<>>
  <2>1. F \in Seq(Frames) /\ Len(F) <= Nesting /\ DOMAIN F = {}
    BY <1>2, FiberAssumption
  <2>2. /\ frames' = [frames EXCEPT ![current] = F]
        /\ UNCHANGED <<status, caller, vmvars>>
        /\ \A g \in Fibers : flags[g] \subseteq flags'[g]
        /\ ~bailing'
    BY <1>1
  <2> HIDE DEF F, CaughtInMain
  <2>3. \A i \in DOMAIN F : FALSE
    BY <2>1
  <2> QED BY <1>1, <2>1, <2>2, <2>3, LocalKeeps
<1>4. frames \in [Contexts -> Seq(Frames)]
  BY DEF IInv, TypeOK
<1>5. frames' \in [Contexts -> Seq(Frames)]
  BY <1>2, <1>4
<1>6. BlockingInv' /\ blocking' \in Nat
  <2>1. Blocking' \subseteq Blocking
    <3> SUFFICES ASSUME NEW b \in Blocking' PROVE b \in Blocking
      OBVIOUS
    <3>1. /\ b \in Contexts \X (1..Nesting + 1)
          /\ b[2] \in DOMAIN frames'[b[1]] /\ Blocks(frames'[b[1]][b[2]])
      BY DEF Blocking, Blocks
    <3>2. b[1] # Main
      BY <1>1, <1>2, <1>4, <3>1
    <3>3. frames'[b[1]] = frames[b[1]]
      BY <1>4, <3>1, <3>2
    <3> QED BY <3>1, <3>3 DEF Blocking
  <2> QED BY <1>1, <2>1, BlocksStay
<1>7. phase' \in ToSet(Phases)
  <2>1. phase \in {"script", "functions", "destructors", "late"}
    BY PhaseValues DEF IInv, TypeOK
  <2> QED BY <2>1, AfterPhases, PhaseValues
<1>8. TypeOK'
  BY <1>5, <1>6, <1>7 DEF IInv, TypeOK, vmvars
<1>9. Left' = Left
  BY DEF Left
<1>10. ObjectsInv'
  BY <1>9 DEF IInv, ObjectsInv
<1>11. SweepInv'
  BY <1>1 DEF SweepInv
<1> QED BY <1>3, <1>6, <1>8, <1>10, <1>11 DEF IInv

-----------------------------------------------------------------------------
(* The invariant                                                           *)

\* While a bailout is on its way the request is not over.
Unwinding == bailing => phase # "over"

LEMMA InitHolds ==
    ASSUME Init
    PROVE  IInv /\ Unwinding
<1> USE DEF Init
<1> DEFINE s == Append(<<>>, Main)
<1>1. /\ Main \in Contexts /\ Nobody \notin Contexts /\ Fibers \subseteq Contexts
      /\ Main \notin Fibers /\ Nesting \in Nat
  BY FiberAssumption DEF Contexts
<1>2. <<>> \in Seq(Frames) /\ Len(<<>>) = 0 /\ DOMAIN <<>> = {}
  BY EmptySeq
<1>3. TypeOK
  BY <1>1, <1>2, PhaseValues DEF TypeOK, Statuses
<1>4. \A c \in Contexts : frames[c] = <<>> /\ caller[c] = Nobody /\ DOMAIN frames[c] = {}
  BY <1>2
<1>5. ChainInv
  <2>1. s \in Seq(Contexts) /\ Len(s) = 1 /\ s[1] = Main
    <3>1. <<>> \in Seq(Contexts) /\ Len(<<>>) = 0
      BY EmptySeq
    <3> QED BY <1>1, <3>1, AppendProperties
  <2>2. Called = {}
    BY <1>1, <1>4 DEF Called
  <2>3. Cardinality(Called) = 0
    BY <2>2, FS_EmptySet
  <2>4. IsChain(s)
    <3> HIDE DEF s
    <3> QED BY <1>4, <2>1, <2>3 DEF IsChain
  <2> QED BY <2>4 DEF ChainInv
<1>6. VmInv
  BY <1>1 DEF VmInv, Contexts
<1>7. WaitsInv
  BY <1>4 DEF WaitsInv
<1>8. TopsInv
  BY <1>1, <1>4 DEF TopsInv, Left
<1>9. DepthInv
  <2>1. 0 <= Nesting + 1 /\ 0 <= Nesting
    BY <1>1
  <2> QED BY <1>2, <1>4, <1>1, <2>1 DEF DepthInv
<1>10. BlockingInv
  <2>1. Blocking = {}
    BY <1>4 DEF Blocking
  <2>2. Cardinality(Blocking) = 0
    BY <2>1, FS_EmptySet
  <2> QED BY <2>2 DEF BlockingInv
<1>11. Left = {}
  BY <1>1 DEF Left
<1>12. ObjectsInv
  BY <1>1, <1>4, <1>11 DEF ObjectsInv
<1>13. SweepInv
  BY <1>11 DEF SweepInv
<1> QED BY <1>3, <1>5, <1>6, <1>7, <1>8, <1>9, <1>10, <1>12, <1>13 DEF IInv, Unwinding

LEMMA StepKeepsUnwinding ==
    ASSUME Unwinding, Next
    PROVE  Unwinding'
<1> USE DEF Unwinding
<1>1. CASE CaughtInFiber
  BY <1>1 DEF CaughtInFiber
<1>2. CASE Fatal
  BY <1>2 DEF Fatal
<1>3. CASE Suspend \/ End("value") \/ End("error")
  BY <1>3 DEF Suspend, End, Arrive, Running
<1>4. CASE \E f \in Fibers : New(f) \/ Start(f) \/ Resume(f) \/ Release(f) \/ SweepFiber(f)
  BY <1>4 DEF New, Start, Resume, Release, SweepFiber
<1>5. CASE GetCurrent \/ DestructorBegin \/ DestructorEnd \/ SweepBegin \/ SweepBeginObject
           \/ SweepEndObject
  BY <1>5 DEF GetCurrent, DestructorBegin, DestructorEnd, SweepBegin, SweepBeginObject,
              SweepEndObject
<1>6. CASE SweepEnd \/ NextPhase \/ CaughtInMain
  BY <1>6 DEF SweepEnd, Sweeping, NextPhase, CaughtInMain
<1>7. CASE Over
  BY <1>7 DEF Over, vars
<1> QED BY <1>1, <1>2, <1>3, <1>4, <1>5, <1>6, <1>7 DEF Next

LEMMA StepKeeps ==
    ASSUME IInv, Unwinding, [Next]_vars
    PROVE  IInv' /\ Unwinding'
<1>1. CASE UNCHANGED vars
  <2>1. UNCHANGED <<bailing, phase>>
    BY <1>1 DEF vars
  <2>2. Unwinding'
    BY <2>1 DEF Unwinding
  <2> QED BY <1>1, <2>2, StutterKeeps
<1>2. CASE Next
  <2>1. Unwinding'
    BY <1>2, StepKeepsUnwinding
  <2>2. ASSUME NEW f \in Fibers, New(f) \/ Start(f) \/ Resume(f) \/ Release(f) \/ SweepFiber(f)
        PROVE  IInv'
    BY <2>2, NewKeeps, StartKeeps, ResumeKeeps, ReleaseKeeps, SweepFiberKeeps
  <2>3. CASE Suspend \/ End("value") \/ End("error") \/ CaughtInFiber
    BY <2>1, <2>3, SuspendKeeps, EndKeeps, CaughtInFiberKeeps
  <2>4. CASE GetCurrent \/ Fatal \/ NextPhase
    BY <2>1, <2>4, GetCurrentKeeps, FatalKeeps, NextPhaseKeeps
  <2>5. CASE DestructorBegin \/ SweepBegin \/ SweepBeginObject
    BY <2>1, <2>5, BeginsKeep
  <2>6. CASE DestructorEnd \/ SweepEndObject
    BY <2>1, <2>6, EndsOfCallsKeep
  <2>7. CASE SweepEnd
    BY <2>1, <2>7, SweepEndKeeps
  <2>8. CASE CaughtInMain
    BY <2>8, CaughtInMainKeeps DEF Unwinding, CaughtInMain
  <2>9. CASE Over
    BY <2>1, <2>9, StutterKeeps DEF Over
  <2> QED BY <1>2, <2>1, <2>2, <2>3, <2>4, <2>5, <2>6, <2>7, <2>8, <2>9 DEF Next
<1> QED BY <1>1, <1>2

\* The inductive invariant: contexts, frames, blocks, objects and the sweep
\* stay related the way the switches expect, whatever the program does.
THEOREM Inductive == Spec => [](IInv /\ Unwinding)
<1>1. Init => IInv /\ Unwinding
  BY InitHolds
<1>2. IInv /\ Unwinding /\ [Next]_vars => (IInv /\ Unwinding)'
  BY StepKeeps
<1> QED BY <1>1, <1>2, PTL DEF Spec

\* Every variable keeps its type, for any set of fibers.
THEOREM TypeCorrect == Spec => []TypeOK
<1>1. IInv => TypeOK
  BY DEF IInv
<1> QED BY <1>1, Inductive, PTL

LEMMA OneRunsHolds ==
    ASSUME IInv
    PROVE  OneRuns
<1>1. current \in Contexts /\ Nobody \notin Contexts
  BY FiberAssumption DEF IInv, TypeOK
<1>2. {c \in Contexts : status[c] = "running"} = {current} /\ bailout = current
  BY <1>1 DEF IInv, VmInv
<1>3. ~bailing => active = (IF current = Main THEN Nobody ELSE current)
  BY DEF IInv, VmInv
<1>4. current # Main => caller[current] # Nobody
  BY <1>1, ChainFacts DEF IInv
<1> QED BY <1>2, <1>3, <1>4 DEF OneRuns

LEMMA DestructorsStayHolds ==
    ASSUME IInv
    PROVE  DestructorsStay
<1>1. ASSUME NEW f \in Left PROVE Len(frames[f]) = 1
  <2>1. f \in Fibers /\ f \in Contexts
    BY DEF Left, Contexts
  <2>2. frames[f] # <<>> /\ frames[f][Len(frames[f])].op = "suspend"
    BY <1>1, <2>1 DEF IInv, TopsInv
  <2>3. FrameSound(f, Len(frames[f]), frames[f][Len(frames[f])])
    BY <2>1, <2>2, FrameSeqs, FrameAt DEF IInv
  <2> QED BY <2>2, <2>3 DEF FrameSound
<1> QED BY <1>1 DEF DestructorsStay, IInv, BlockingInv

LEMMA ForceClosedHolds ==
    ASSUME IInv
    PROVE  ForceClosed
<1> SUFFICES ASSUME NEW f \in Fibers
             PROVE  /\ "DESTROYED" \in flags[f] => f \notin Left
                    /\ object[f] = "freed" =>
                          /\ status[f] # "running" /\ caller[f] = Nobody
                          /\ active # f /\ ~OnStack(f)
  BY DEF ForceClosed
<1>1. "DESTROYED" \in flags[f] => f \notin Left
  BY DEF IInv, ObjectsInv
<1>2. ASSUME object[f] = "freed"
      PROVE  status[f] # "running" /\ caller[f] = Nobody /\ active # f /\ ~OnStack(f)
  <2>1. f \in Contexts /\ f # Main /\ f # Nobody
    BY FiberAssumption DEF Contexts
  <2>2. caller[f] = Nobody
    BY <1>2 DEF IInv, ObjectsInv
  <2>3. current # f
    BY <2>1, <2>2, ChainFacts, FiberAssumption DEF IInv
  <2>4. status[f] # "running" /\ active # f
    BY <2>1, <2>3 DEF IInv, VmInv
  <2>5. ~OnStack(f)
    <3> SUFFICES ASSUME NEW c \in Contexts, NEW i \in DOMAIN frames[c],
                        frames[c][i].op \in {"resume", "destroy", "swept"},
                        frames[c][i].fiber = f
                 PROVE  FALSE
      BY DEF OnStack
    <3>1. caller[f] = c
      BY FrameAt DEF FrameSound, InCall
    <3> QED BY <2>2, <3>1, FiberAssumption
  <2> QED BY <2>2, <2>4, <2>5
<1> QED BY <1>1, <1>2

\* One context runs, on its own stack and as its own fiber; no fiber is left
\* suspended in a destructor; a fiber that is closed stays closed and its
\* object outlives every wait for it; no C stack outlives the request.
THEOREM FibersAreSound == Spec => []FibersSound
<1>1. ASSUME IInv PROVE FibersSound
  <2>1. StacksFreed
    BY <1>1 DEF IInv, SweepInv, StacksFreed
  <2> QED BY <1>1, <2>1, OneRunsHolds, DestructorsStayHolds, ForceClosedHolds
          DEF FibersSound, ClosedForGood
<1> QED BY <1>1, Inductive, PTL

-----------------------------------------------------------------------------
(* The stack of coroutines                                                 *)

\* What the callers of the running context are, one below the other.
LEMMA ChainIs ==
    ASSUME NEW top, NEW callers, NEW depth \in Nat, NEW s \in Seq(Contexts),
           Len(s) = depth + 1, s[Len(s)] = top,
           \A i \in 2..Len(s) : callers[s[i]] = s[i - 1]
    PROVE  ChainOf(top, callers, depth) = s
<1> DEFINE Below(g) == [n \in 0..depth |->
               IF n = 0 THEN top
               ELSE IF g[n - 1] \in Contexts THEN callers[g[n - 1]] ELSE Nobody]
           w == [n \in 0..depth |-> s[depth + 1 - n]]
           below == CHOOSE g : g = Below(g)
<1>1. \A i \in 1..depth + 1 : s[i] \in Contexts
  BY ElementOfSeq
<1>2. w = Below(w)
  <2>1. ASSUME NEW n \in 0..depth, n # 0
        PROVE  /\ n - 1 \in 0..depth /\ depth + 1 - (n - 1) \in 2..depth + 1
               /\ depth + 1 - (n - 1) - 1 = depth + 1 - n
    BY <2>1
  <2>2. ASSUME NEW n \in 0..depth, n # 0
        PROVE  w[n - 1] \in Contexts /\ callers[w[n - 1]] = s[depth + 1 - n]
    <3>1. w[n - 1] = s[depth + 1 - (n - 1)]
      BY <2>1, <2>2
    <3> DEFINE i == depth + 1 - (n - 1)
    <3>2. i \in 2..depth + 1 /\ i \in 1..depth + 1 /\ i - 1 = depth + 1 - n
      BY <2>1, <2>2
    <3> HIDE DEF i
    <3>3. s[i] \in Contexts /\ callers[s[i]] = s[i - 1]
      BY <1>1, <3>2
    <3> QED BY <3>1, <3>2, <3>3 DEF i
  <2>3. s[depth + 1 - 0] = top
    OBVIOUS
  <2> QED BY <2>2, <2>3
<1>3. ASSUME NEW g, g = Below(g) PROVE g = w
  <2> DEFINE T == {n \in 0..depth : g[n] # w[n]}
  <2>1. T = {}
    <3> SUFFICES ASSUME T # {} PROVE FALSE
      OBVIOUS
    <3>1. T \in SUBSET Nat
      OBVIOUS
    <3> HIDE DEF T
    <3>2. PICK n \in T : \A y \in T : n <= y
      BY <3>1, NatMin
    <3>3. n \in 0..depth /\ g[n] # w[n]
      BY <3>2 DEF T
    <3>4. n # 0
      BY <1>2, <1>3, <3>3
    <3>5. n - 1 \in 0..depth /\ ~(n <= n - 1)
      BY <3>3, <3>4
    <3>6. g[n - 1] = w[n - 1]
      BY <3>2, <3>5 DEF T
    <3> QED BY <1>2, <1>3, <3>3, <3>4, <3>5, <3>6
  <2>2. DOMAIN g = 0..depth
    BY <1>3
  <2>3. g = [n \in 0..depth |-> g[n]]
    BY <1>3
  <2> QED BY <2>1, <2>3
<1>4. below = w
  <2>1. below = Below(below)
    BY <1>2
  <2> HIDE DEF below, w, Below
  <2> QED BY <1>3, <2>1
<1>5. ChainOf(top, callers, depth) = [i \in 1..depth + 1 |-> below[depth + 1 - i]]
  BY DEF ChainOf
<1>6. \A i \in 1..depth + 1 : depth + 1 - i \in 0..depth /\ depth + 1 - (depth + 1 - i) = i
  OBVIOUS
<1>7. \A i \in 1..depth + 1 : w[depth + 1 - i] = s[i]
  BY <1>6
<1>8. s = [i \in 1..depth + 1 |-> s[i]]
  BY LenProperties
<1> HIDE DEF below, w
<1> QED BY <1>4, <1>5, <1>7, <1>8

LEMMA ChainIsTheChain ==
    ASSUME TypeOK, NEW s, IsChain(s)
    PROVE  Chain = s
<1>1. IsFiniteSet(Called)
  BY FiberAssumption, FS_Subset DEF Called
<1>2. Cardinality(Called) \in Nat
  BY <1>1, FS_CardinalityType
<1> QED BY <1>2, ChainIs DEF IsChain, Chain

LEMMA ChainIsTheChainAfter ==
    ASSUME TypeOK', NEW s, IsChain(s)'
    PROVE  Chain' = s
<1>1. IsFiniteSet(Called')
  BY FiberAssumption, FS_Subset DEF Called
<1>2. Cardinality(Called') \in Nat
  BY <1>1, FS_CardinalityType
<1> QED BY <1>2, ChainIs DEF IsChain, Chain

Dead == {f \in Fibers : status[f] = "dead"}

\* Control goes to a fiber.
LEMMA CallIsCall ==
    ASSUME IInv, IInv', NEW f \in Fibers, NEW op, f # current, caller[f] = Nobody,
           status[f] \in {"init", "suspended"}, Pushes(f, op)
    PROVE  Abstract!Call(f)
<1>1. PICK s : IsChain(s)
  BY DEF IInv, ChainInv
<1>2. current' = f /\ caller' = [caller EXCEPT ![f] = current]
  BY DEF Pushes
<1>3. IsChain(Append(s, f))'
  BY <1>1, <1>2, ChainPush DEF IInv
<1>4. Chain = s /\ Chain' = Append(s, f)
  BY <1>1, <1>3, ChainIsTheChain, ChainIsTheChainAfter DEF IInv
<1>5. /\ f \in Contexts /\ f # Main /\ Main \in Contexts /\ Nobody \notin Contexts
      /\ current \in Contexts /\ Fibers \subseteq Contexts
      /\ caller \in [Contexts -> Contexts \cup {Nobody}] /\ status \in [Contexts -> Statuses]
  BY FiberAssumption DEF Contexts, IInv, TypeOK
<1>6. ~Contains(Chain, f)
  <2> SUFFICES ASSUME NEW i \in 1..Len(s), s[i] = f PROVE FALSE
    BY <1>4 DEF Contains
  <2>1. i # 1
    BY <1>1, <1>5 DEF IsChain
  <2>2. i \in 2..Len(s) /\ i - 1 \in 1..Len(s)
    BY <1>1, <2>1, LenProperties DEF IsChain
  <2>3. caller[f] = s[i - 1] /\ s[i - 1] \in Contexts
    BY <1>1, <2>2, ElementOfSeq DEF IsChain
  <2> QED BY <1>5, <2>3
<1>7. status' = [status EXCEPT ![f] = "running", ![current] = "suspended"]
  BY DEF Pushes
<1>8. status[current] = "running"
  BY <1>5 DEF IInv, VmInv
<1>9. f \notin Dead /\ Dead' = Dead
  BY <1>5, <1>7, <1>8 DEF Dead
<1>10. current # Main => caller[current] # Nobody
  BY ChainFacts, <1>5 DEF IInv
<1>11. Left' = Left \ {f}
  <2> SUFFICES ASSUME NEW g \in Fibers
               PROVE  /\ status'[g] = "suspended" /\ caller'[g] = Nobody <=>
                            status[g] = "suspended" /\ caller[g] = Nobody /\ g # f
    BY DEF Left
  <2>1. CASE g = f
    BY <1>2, <1>5, <2>1
  <2>2. CASE g # f /\ g = current
    BY <1>2, <1>5, <1>7, <1>8, <1>10, <2>2, FiberAssumption
  <2>3. CASE g # f /\ g # current
    BY <1>2, <1>5, <1>7, <2>3
  <2> QED BY <2>1, <2>2, <2>3
<1>12. f \notin {g \in Fibers : status[g] = "dead"} /\ UNCHANGED {g \in Fibers : status[g] = "dead"}
  BY <1>9 DEF Dead
<1> QED BY <1>4, <1>6, <1>11, <1>12 DEF Abstract!Call, Abstract!Contains, Contains

\* Control goes back, from a fiber that is suspended or has ended.
LEMMA BackIsBack ==
    ASSUME IInv, IInv', current # Main, NEW x, NEW X, <<x, X>> \in {<<"dead", <<>>>>, <<"suspended", Suspended>>},
           Pops(x, X)
    PROVE  IF x = "dead" THEN Abstract!End ELSE Abstract!Suspend
<1>1. PICK s : IsChain(s)
  BY DEF IInv, ChainInv
<1>2. current' = caller[current] /\ caller' = [caller EXCEPT ![current] = Nobody]
  BY DEF Pops
<1>3. IsChain(SubSeq(s, 1, Len(s) - 1))' /\ Len(s) > 1 /\ s[Len(s)] = current
  BY <1>1, <1>2, ChainPop DEF IInv
<1>4. Chain = s /\ Chain' = SubSeq(s, 1, Len(s) - 1)
  BY <1>1, <1>3, ChainIsTheChain, ChainIsTheChainAfter DEF IInv
<1>5. Len(Chain) > 1 /\ Chain' = Front(Chain) /\ Last(Chain) = current
  BY <1>3, <1>4 DEF Front, Last
<1>6. /\ Main \in Contexts /\ Main \notin Fibers /\ Nobody \notin Contexts
      /\ current \in Fibers /\ current \in Contexts /\ Fibers \subseteq Contexts
      /\ caller \in [Contexts -> Contexts \cup {Nobody}] /\ status \in [Contexts -> Statuses]
      /\ status[current] = "running"
  BY FiberAssumption DEF Contexts, IInv, TypeOK, VmInv
<1>7. /\ caller[current] \in Contexts /\ caller[current] # current
      /\ caller[current] \in Fibers => caller[caller[current]] # Nobody
      /\ caller[current] \in Fibers => status[caller[current]] # "dead"
  BY <1>6, ChainFacts DEF IInv, TopsInv
<1>8. status' = [status EXCEPT ![current] = x, ![caller[current]] = "running"]
  BY DEF Pops
<1>9. CASE x = "dead"
  <2>1. Dead' = Dead \cup {current}
    BY <1>6, <1>7, <1>8, <1>9 DEF Dead
  <2>2. Left' = Left
    BY <1>2, <1>6, <1>7, <1>8, <1>9 DEF Left
  <2>3. {g \in Fibers : status'[g] = "dead"} = {g \in Fibers : status[g] = "dead"} \cup {current}
    BY <2>1 DEF Dead
  <2>4. Abstract!End
    BY <1>5, <2>2, <2>3 DEF Abstract!End, Abstract!Front, Abstract!Last, Front, Last
  <2> QED BY <1>9, <2>4
<1>10. CASE x = "suspended"
  <2>1. Dead' = Dead
    BY <1>6, <1>7, <1>8, <1>10 DEF Dead
  <2>2. Left' = Left \cup {current}
    BY <1>2, <1>6, <1>7, <1>8, <1>10 DEF Left
  <2>3. {g \in Fibers : status'[g] = "dead"} = {g \in Fibers : status[g] = "dead"}
    BY <2>1 DEF Dead
  <2>4. Abstract!Suspend
    BY <1>5, <2>2, <2>3 DEF Abstract!Suspend, Abstract!Front, Abstract!Last, Front, Last
  <2> QED BY <1>10, <2>4
<1> QED BY <1>9, <1>10

LEMMA StaysIsStutter ==
    ASSUME IInv, IInv', UNCHANGED <<status, caller, current>>
    PROVE  UNCHANGED <<Chain, Left, Dead>>
<1>1. PICK s : IsChain(s)
  BY DEF IInv, ChainInv
<1>2. IsChain(s)'
  BY <1>1 DEF IsChain, Called
<1>3. Chain' = Chain
  BY <1>1, <1>2, ChainIsTheChain, ChainIsTheChainAfter DEF IInv
<1> QED BY <1>3 DEF Left, Dead

\* Every step is a step of the stack of coroutines or none.
LEMMA StepIsStep ==
    ASSUME IInv, IInv', [Next]_vars
    PROVE  Abstract!Next \/ UNCHANGED <<Chain, Left, Dead>>
<1>1. ASSUME NEW f \in Fibers, Start(f) \/ Resume(f)
      PROVE  Abstract!Next
  <2>1. status[f] \in {"init", "suspended"} /\ caller[f] = Nobody /\ Enter(f, "resume")
    BY <1>1 DEF Start, Resume, Resumable, IInv, TopsInv
  <2>2. Abstract!Call(f)
    BY <2>1, EnterPushes, CallIsCall
  <2> QED BY <2>2 DEF Abstract!Next
<1>2. ASSUME NEW f \in Fibers, NEW op, Closes(f), caller[f] = Nobody, Close(f, op)
      PROVE  Abstract!Next
  <2>1. status[f] \in {"init", "suspended"} /\ Enter(f, op)
    BY <1>2 DEF Closes, Close
  <2>2. Abstract!Call(f)
    BY <1>2, <2>1, EnterPushes, CallIsCall
  <2> QED BY <2>2 DEF Abstract!Next
<1>3. ASSUME NEW f \in Fibers, Release(f)
      PROVE  Abstract!Next \/ UNCHANGED <<Chain, Left, Dead>>
  <2>1. CASE Closes(f)
    BY <1>2, <1>3, <2>1, OffStack DEF Release
  <2>2. CASE ~Closes(f)
    BY <1>3, <2>2, StaysIsStutter DEF Release, fibervars, vmvars
  <2> QED BY <2>1, <2>2
<1>4. ASSUME NEW f \in Fibers, SweepFiber(f)
      PROVE  Abstract!Next \/ UNCHANGED <<Chain, Left, Dead>>
  <2>1. CASE Closes(f)
    <3>1. caller[f] = Nobody
      BY <1>4, SweepingFacts DEF SweepFiber, Contexts
    <3> QED BY <1>2, <1>4, <2>1, <3>1 DEF SweepFiber
  <2>2. CASE ~Closes(f)
    BY <1>4, <2>2, StaysIsStutter DEF SweepFiber, fibervars, vmvars
  <2> QED BY <2>1, <2>2
<1>5. CASE Suspend
  <2>1. Abstract!Suspend
    BY <1>5, SuspendKeeps, BackIsBack
  <2> QED BY <2>1 DEF Abstract!Next
<1>6. CASE End("value") \/ End("error") \/ CaughtInFiber
  <2>1. Abstract!End
    BY <1>6, EndKeeps, CaughtInFiberKeeps, BackIsBack
  <2> QED BY <2>1 DEF Abstract!Next
<1>7. CASE \/ \E f \in Fibers : New(f)
           \/ GetCurrent \/ Fatal \/ NextPhase \/ Over \/ UNCHANGED vars
  BY <1>7, StaysIsStutter DEF New, GetCurrent, Fatal, NextPhase, Over, vars, fibervars, vmvars
<1>8. CASE \/ DestructorBegin \/ DestructorEnd \/ SweepBegin \/ SweepBeginObject
           \/ SweepEndObject \/ SweepEnd \/ CaughtInMain
  BY <1>8, StaysIsStutter DEF DestructorBegin, DestructorEnd, SweepBegin, SweepBeginObject,
                              SweepEndObject, SweepEnd, CaughtInMain, vmvars
<1> QED BY <1>1, <1>3, <1>4, <1>5, <1>6, <1>7, <1>8 DEF Next

\* Calls, suspensions, ends, closed fibers and bailouts are those of one stack
\* of coroutines, in every request: zend_fibers.c implements Coroutines.
THEOREM Implements == Spec => ImplementsCoroutines
<1>1. Init => Abstract!Init
  <2> SUFFICES ASSUME Init PROVE Abstract!Init
    OBVIOUS
  <2>1. IInv
    BY InitHolds
  <2>2. PICK s : IsChain(s)
    BY <2>1 DEF IInv, ChainInv
  <2>3. Chain = s
    BY <2>1, <2>2, ChainIsTheChain DEF IInv
  <2>4. \A f \in Fibers : status[f] = "init"
    BY FiberAssumption DEF Init, Contexts
  <2>5. Called = {}
    BY FiberAssumption DEF Init, Called, Contexts
  <2>6. Cardinality(Called) = 0
    BY <2>5, FS_EmptySet
  <2>7. s \in Seq(Contexts) /\ Len(s) = 1 /\ s[1] = Main
    BY <2>2, <2>6 DEF IsChain
  <2>8. s = <<Main>>
    BY <2>7
  <2> QED BY <2>3, <2>4, <2>8 DEF Abstract!Init, Left
<1>2. IInv /\ IInv' /\ [Next]_vars => [Abstract!Next]_<<Chain, Left, Dead>>
  BY StepIsStep
<1>3. IInv /\ IInv' /\ [Next]_vars
          => [Abstract!Next]_<<Chain, Left, {f \in Fibers : status[f] = "dead"}>>
  BY <1>2 DEF Dead
<1> QED BY <1>1, <1>3, Inductive, PTL DEF Spec, ImplementsCoroutines, Abstract!Spec
=============================================================================
