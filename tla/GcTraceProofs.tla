--------------------------- MODULE GcTraceProofs ---------------------------
(***************************************************************************)
(* Proofs about GcTrace, for every heap: the collector gives back every    *)
(* reference that it takes, condemns only what the program cannot reach,   *)
(* forgets only roots that are in use, leaves no colour behind, frees no   *)
(* object whose destructor is still to be called and nothing that such a   *)
(* destructor can see, and frees all that only garbage leads to.           *)
(***************************************************************************)
EXTENDS GcTrace, FiniteSetTheorems, SequenceTheorems, WellFoundedInduction, TLAPS

-----------------------------------------------------------------------------
(* Slots and what they hold.                                               *)

LEMMA FieldsFacts ==
  ASSUME TypeInv, NEW n
  PROVE  /\ Fields(n) \subseteq Slot
         /\ \A s \in Fields(n) : Owner[s] = n /\ n \notin freeing /\ heap[s] \in Node
         /\ \A s \in Slot : Owner[s] = n /\ n \notin freeing /\ heap[s] \in Node
                => s \in Fields(n)
         /\ Children(n) \subseteq Node
BY NodeAssumption, ProgramAssumption DEF TypeInv, HeapInv, Fields, Children, Targets

SlotsOf(V) == UNION {Fields(m) : m \in V}

\* A visit follows the slots of the value and of the ht it expands.
LEMMA VisitFacts ==
  ASSUME TypeInv, NEW n \in Node, NEW fresh \in SUBSET Node
  PROVE  /\ Followed(n, fresh) = SlotsOf({n} \cup Expanded(n, fresh))
         /\ Expanded(n, fresh) \subseteq Targets(Followed(n, fresh)) \cap fresh
         /\ Expanded(n, fresh) \subseteq Array \cap Children(n)
         /\ Targets(Followed(n, fresh)) \subseteq Node
         /\ \A m \in {n} \cup Expanded(n, fresh) : Children(m) \subseteq Targets(Followed(n, fresh))
         /\ \A c \in Targets(Followed(n, fresh)) :
                \E m \in {n} \cup Expanded(n, fresh) : c \in Children(m)
<1>1. Followed(n, fresh) = SlotsOf({n} \cup Expanded(n, fresh))
  BY DEF Followed, SlotsOf
<1>2. Expanded(n, fresh) \subseteq Children(n) \cap fresh
  BY DEF Expanded, TablesOf, Children, Targets
<1>3. Expanded(n, fresh) \subseteq Array
  <2>1. SUFFICES ASSUME NEW s \in Fields(n) \cap Table
                 PROVE  heap[s] \in Array
    BY DEF Expanded, TablesOf
  <2>2. heap[s] \in Node /\ heap[s] \in Array \cup {NoNode}
    BY <2>1, FieldsFacts DEF TypeInv, HeapInv
  <2>3. QED BY <2>2, NodeAssumption
<1>4. \A m \in {n} \cup Expanded(n, fresh) : Children(m) \subseteq Targets(Followed(n, fresh))
  BY <1>1 DEF Children, Targets, SlotsOf
<1>5. \A c \in Targets(Followed(n, fresh)) :
        \E m \in {n} \cup Expanded(n, fresh) : c \in Children(m)
  BY <1>1 DEF Children, Targets, SlotsOf
<1>6. Targets(Followed(n, fresh)) \subseteq Node
  BY <1>5, FieldsFacts
<1> QED BY <1>1, <1>2, <1>3, <1>4, <1>5, <1>6

\* What a visit finds of a colour.
LEMMA VisitFound ==
  ASSUME TypeInv, NEW n \in Node, NEW fresh \in SUBSET Node
  PROVE  LET E == Expanded(n, fresh)
             found == Targets(Followed(n, fresh)) \cap fresh
         IN  /\ Followed(n, fresh) = SlotsOf({n} \cup E)
             /\ E \subseteq found /\ E \subseteq Children(n)
             /\ found \subseteq Node
             /\ \A m \in {n} \cup E : Children(m) \cap fresh \subseteq found
             /\ \A c \in found : \E m \in {n} \cup E : c \in Children(m)
<1> DEFINE E == Expanded(n, fresh)
           T == Targets(Followed(n, fresh))
<1>1. /\ Followed(n, fresh) = SlotsOf({n} \cup E)
      /\ E \subseteq T \cap fresh
      /\ E \subseteq Array \cap Children(n)
      /\ T \subseteq Node
      /\ \A m \in {n} \cup E : Children(m) \subseteq T
      /\ \A c \in T : \E m \in {n} \cup E : c \in Children(m)
  BY VisitFacts
<1> SUFFICES /\ Followed(n, fresh) = SlotsOf({n} \cup E)
             /\ E \subseteq T \cap fresh /\ E \subseteq Children(n)
             /\ T \cap fresh \subseteq Node
             /\ \A m \in {n} \cup E : Children(m) \cap fresh \subseteq T \cap fresh
             /\ \A c \in T \cap fresh : \E m \in {n} \cup E : c \in Children(m)
  OBVIOUS
<1> HIDE DEF E, T
<1> QED BY <1>1

-----------------------------------------------------------------------------
(* Counting references from outside of a set of values.                    *)

Outside(X, n) == {s \in Slot : heap[s] = n /\ Owner[s] \notin X \ freeing}

\* Values that join X take with them the references their slots hold.
LEMMA CountMoves ==
  ASSUME TypeInv, NEW X, NEW V, V \cap X = {},
         NEW n \in Node
  PROVE  /\ Cardinality(Outside(X, n)) \in Nat
         /\ Cardinality(Outside(X \cup V, n)) \in Nat
         /\ Cardinality(Into(SlotsOf(V), n)) \in Nat
         /\ Cardinality(Outside(X, n))
                = Cardinality(Outside(X \cup V, n)) + Cardinality(Into(SlotsOf(V), n))
<1> DEFINE A == Outside(X, n)
           B == Into(SlotsOf(V), n)
           C == Outside(X \cup V, n)
<1>1. SlotsOf(V) \subseteq Slot /\ \A s \in SlotsOf(V) : Owner[s] \in V \ freeing
  BY FieldsFacts DEF SlotsOf
<1>2. \A s \in Slot : heap[s] = n /\ Owner[s] \in V \ freeing => s \in SlotsOf(V)
  BY FieldsFacts DEF SlotsOf
<1>3. A = C \cup B
  BY <1>1, <1>2 DEF Outside, Into
<1>4. C \cap B = {}
  BY <1>1 DEF Outside, Into
<1>5. IsFiniteSet(C) /\ IsFiniteSet(B)
  <2>1. C \subseteq Slot /\ B \subseteq Slot
    BY <1>1 DEF Outside, Into
  <2>2. QED BY <2>1, SlotAssumption, FS_Subset
<1> HIDE DEF A, B, C
<1>6. Cardinality(A) = Cardinality(C) + Cardinality(B) - Cardinality(C \cap B)
  BY <1>3, <1>5, FS_Union
<1>7. Cardinality(C \cap B) = 0
  BY <1>4, FS_EmptySet
<1>8. Cardinality(C) \in Nat /\ Cardinality(B) \in Nat
  BY <1>5, FS_CardinalityType
<1>9. Cardinality(A) = Cardinality(C) + Cardinality(B) /\ Cardinality(A) \in Nat
  BY <1>6, <1>7, <1>8
<1> QED BY <1>8, <1>9 DEF A, B, C

\* The sum that RefcountsExact speaks of, for a set of subtracted values.
Balanced(X) == \A n \in Node : rc[n] = held[n] + Cardinality(Outside(X, n))

LEMMA BalancedIs == RefcountsExact <=> Balanced(Subtracted)
BY DEF RefcountsExact, Balanced, Outside

LEMMA TakenBalances ==
  ASSUME TypeInv, NEW X, NEW V, V \cap X = {}, Balanced(X),
         NEW n \in Node
  PROVE  DelRefs(SlotsOf(V))[n] = held[n] + Cardinality(Outside(X \cup V, n))
<1>1. rc[n] = held[n] + Cardinality(Outside(X, n))
  BY DEF Balanced
<1>2. held[n] \in Nat
  BY ProgramAssumption DEF TypeInv, HeapInv
<1>3. DelRefs(SlotsOf(V))[n] = rc[n] - Cardinality(Into(SlotsOf(V), n))
  BY DEF DelRefs
<1>4. /\ Cardinality(Outside(X, n)) \in Nat
      /\ Cardinality(Outside(X \cup V, n)) \in Nat
      /\ Cardinality(Into(SlotsOf(V), n)) \in Nat
      /\ Cardinality(Outside(X, n))
            = Cardinality(Outside(X \cup V, n)) + Cardinality(Into(SlotsOf(V), n))
  BY CountMoves
<1> HIDE DEF Outside, Into
<1> QED BY <1>1, <1>2, <1>3, <1>4

LEMMA GivenBalances ==
  ASSUME TypeInv, NEW X, NEW V, V \cap X = {}, Balanced(X \cup V),
         NEW n \in Node
  PROVE  AddRefs(SlotsOf(V))[n] = held[n] + Cardinality(Outside(X, n))
<1>1. rc[n] = held[n] + Cardinality(Outside(X \cup V, n))
  BY DEF Balanced
<1>2. held[n] \in Nat
  BY ProgramAssumption DEF TypeInv, HeapInv
<1>3. AddRefs(SlotsOf(V))[n] = rc[n] + Cardinality(Into(SlotsOf(V), n))
  BY DEF AddRefs
<1>4. /\ Cardinality(Outside(X, n)) \in Nat
      /\ Cardinality(Outside(X \cup V, n)) \in Nat
      /\ Cardinality(Into(SlotsOf(V), n)) \in Nat
      /\ Cardinality(Outside(X, n))
            = Cardinality(Outside(X \cup V, n)) + Cardinality(Into(SlotsOf(V), n))
  BY CountMoves
<1> HIDE DEF Outside, Into
<1> QED BY <1>1, <1>2, <1>3, <1>4

\* A value whose count is zero is referred to by subtracted values only.
LEMMA ZeroIsIsolated ==
  ASSUME TypeInv, NEW X, Balanced(X), NEW n \in Node, rc[n] = 0
  PROVE  held[n] = 0 /\ \A s \in Slot : heap[s] = n => Owner[s] \in X \ freeing
<1>1. rc[n] = held[n] + Cardinality(Outside(X, n)) /\ held[n] \in Nat
  BY ProgramAssumption DEF Balanced, TypeInv, HeapInv
<1>2. IsFiniteSet(Outside(X, n))
  BY SlotAssumption, FS_Subset DEF Outside
<1>3. Cardinality(Outside(X, n)) \in Nat
  BY <1>2, FS_CardinalityType
<1>4. held[n] = 0 /\ Cardinality(Outside(X, n)) = 0
  BY <1>1, <1>3
<1>5. Outside(X, n) = {}
  BY <1>2, <1>4, FS_EmptySet
<1> QED BY <1>4, <1>5 DEF Outside

-----------------------------------------------------------------------------
(* Colours.                                                                *)

LEMMA PaintsBlack ==
  ASSUME color \in [Node -> Colors], NEW S, S \subseteq Node, color' = Paint(S, "BLACK")
  PROVE  /\ color' \in [Node -> Colors]
         /\ Colored("BLACK")' = Colored("BLACK") \cup S
         /\ Colored("GREY")' = Colored("GREY") \ S
         /\ Colored("WHITE")' = Colored("WHITE") \ S
         /\ Colored("PURPLE")' = Colored("PURPLE") \ S
BY DEF Paint, Colored, Colors

LEMMA PaintsGrey ==
  ASSUME color \in [Node -> Colors], NEW S, S \subseteq Node, color' = Paint(S, "GREY")
  PROVE  /\ color' \in [Node -> Colors]
         /\ Colored("GREY")' = Colored("GREY") \cup S
         /\ Colored("BLACK")' = Colored("BLACK") \ S
         /\ Colored("WHITE")' = Colored("WHITE") \ S
         /\ Colored("PURPLE")' = Colored("PURPLE") \ S
BY DEF Paint, Colored, Colors

LEMMA PaintsWhite ==
  ASSUME color \in [Node -> Colors], NEW S, S \subseteq Node, color' = Paint(S, "WHITE")
  PROVE  /\ color' \in [Node -> Colors]
         /\ Colored("WHITE")' = Colored("WHITE") \cup S
         /\ Colored("BLACK")' = Colored("BLACK") \ S
         /\ Colored("GREY")' = Colored("GREY") \ S
         /\ Colored("PURPLE")' = Colored("PURPLE") \ S
BY DEF Paint, Colored, Colors

LEMMA PaintsPurple ==
  ASSUME color \in [Node -> Colors], NEW S, S \subseteq Node, color' = Paint(S, "PURPLE")
  PROVE  /\ color' \in [Node -> Colors]
         /\ Colored("PURPLE")' = Colored("PURPLE") \cup S
         /\ Colored("BLACK")' = Colored("BLACK") \ S
         /\ Colored("GREY")' = Colored("GREY") \ S
         /\ Colored("WHITE")' = Colored("WHITE") \ S
BY DEF Paint, Colored, Colors

LEMMA ColorFacts ==
  ASSUME color \in [Node -> Colors]
  PROVE  /\ \A e \in Colors : Colored(e) \subseteq Node
         /\ \A e, f \in Colors : e # f => Colored(e) \cap Colored(f) = {}
         /\ Node \subseteq Colored("BLACK") \cup Colored("GREY")
                        \cup Colored("WHITE") \cup Colored("PURPLE")
         /\ \A n \in Node, e \in Colors : n \in Colored(e) <=> color[n] = e
         /\ "BLACK" \in Colors /\ "GREY" \in Colors
         /\ "WHITE" \in Colors /\ "PURPLE" \in Colors
BY DEF Colored, Colors

-----------------------------------------------------------------------------
(* The heap stands still.                                                  *)

LEMMA HeapStays ==
  ASSUME UNCHANGED program
  PROVE  /\ \A n : Children(n)' = Children(n)
         /\ HeapInv' <=> HeapInv
         /\ \A S : Isolated(S)' <=> Isolated(S)
BY DEF program, Children, Targets, Fields, HeapInv, RefsTo, Into, Isolated

\* A sum that holds for the new counts is RefcountsExact in the next state.
LEMMA BalancedNext ==
  ASSUME UNCHANGED program,
         \A n \in Node : rc'[n] = held[n] + Cardinality(Outside(Subtracted', n))
  PROVE  RefcountsExact'
BY DEF program, RefcountsExact, Outside

-----------------------------------------------------------------------------
(* Trails: every member of C is reached along members of C.                *)

LEMMA LedNext ==
  ASSUME UNCHANGED program, NEW C, NEW From, LedTo(C, From)
  PROVE  \A T \in SUBSET Node :
            (From \subseteq T /\ \A m \in T : Children(m)' \cap C \subseteq T)
                => C \subseteq T
BY HeapStays DEF LedTo

\* The four trails of the invariant.
LEMMA MarkTrailNext ==
  ASSUME UNCHANGED program, NEW C, NEW From, LedTo(C, From),
         C = Colored("GREY")', From = roots' \ pending'
  PROVE  LedTo(Colored("GREY"), roots \ pending)'
<1>1. \A T \in SUBSET Node :
        (From \subseteq T /\ \A m \in T : Children(m)' \cap C \subseteq T) => C \subseteq T
  BY LedNext
<1> QED BY <1>1 DEF LedTo

LEMMA GreyTrailNext ==
  ASSUME UNCHANGED program, NEW C, NEW From, LedTo(C, From),
         C = Colored("GREY")', From = pending' \cup stack' \cup black'
  PROVE  LedTo(Colored("GREY"), pending \cup stack \cup black)'
<1>1. \A T \in SUBSET Node :
        (From \subseteq T /\ \A m \in T : Children(m)' \cap C \subseteq T) => C \subseteq T
  BY LedNext
<1> QED BY <1>1 DEF LedTo

LEMMA WhiteTrailNext ==
  ASSUME UNCHANGED program, NEW C, NEW From, LedTo(C, From),
         C = Colored("WHITE")', From = (roots' \cap Colored("WHITE")') \cup black'
  PROVE  LedTo(Colored("WHITE"), (roots \cap Colored("WHITE")) \cup black)'
<1>1. \A T \in SUBSET Node :
        (From \subseteq T /\ \A m \in T : Children(m)' \cap C \subseteq T) => C \subseteq T
  BY LedNext
<1> QED BY <1>1 DEF LedTo

LEMMA CollectTrailNext ==
  ASSUME UNCHANGED program, NEW C, NEW From, LedTo(C, From),
         C = Colored("WHITE")', From = pending' \cup stack'
  PROVE  LedTo(Colored("WHITE"), pending \cup stack)'
<1>1. \A T \in SUBSET Node :
        (From \subseteq T /\ \A m \in T : Children(m)' \cap C \subseteq T) => C \subseteq T
  BY LedNext
<1> QED BY <1>1 DEF LedTo

\* C loses what the values V lead to, and V their place in From.
LEMMA LedShrinks ==
  ASSUME NEW C \in SUBSET Node, NEW C2 \in SUBSET C, NEW V \in SUBSET Node,
         NEW From, NEW From2,
         LedTo(C, From),
         From \subseteq From2 \cup V,
         C \ C2 \subseteq From2 \cup V,
         \A m \in V : Children(m) \cap C \subseteq From2 \cup V,
         V \cap C2 = {}
  PROVE  LedTo(C2, From2)
<1> SUFFICES ASSUME NEW T \in SUBSET Node, From2 \subseteq T,
                    \A m \in T : Children(m) \cap C2 \subseteq T
             PROVE  C2 \subseteq T
  BY DEF LedTo
<1>1. \A m \in T \cup V : Children(m) \cap C \subseteq T \cup V
  OBVIOUS
<1>2. C \subseteq T \cup V
  BY <1>1 DEF LedTo
<1> QED BY <1>2

\* What C loses joins From.
LEMMA LedMoves ==
  ASSUME NEW C, NEW C2, NEW From, NEW From2,
         LedTo(C, From),
         From \subseteq From2,
         C2 \subseteq C,
         C \subseteq C2 \cup From2
  PROVE  LedTo(C2, From2)
<1> SUFFICES ASSUME NEW T \in SUBSET Node, From2 \subseteq T,
                    \A m \in T : Children(m) \cap C2 \subseteq T
             PROVE  C2 \subseteq T
  BY DEF LedTo
<1>1. \A m \in T : Children(m) \cap C \subseteq T
  OBVIOUS
<1>2. C \subseteq T
  BY <1>1 DEF LedTo
<1> QED BY <1>2

\* C gains members of From, or what a visit of one of its members finds.
LEMMA LedAdds ==
  ASSUME NEW C, NEW C2, NEW From, NEW From2,
         LedTo(C, From),
         From \subseteq From2,
         C \subseteq C2,
         C2 \subseteq C \cup From2
  PROVE  LedTo(C2, From2)
<1> SUFFICES ASSUME NEW T \in SUBSET Node, From2 \subseteq T,
                    \A m \in T : Children(m) \cap C2 \subseteq T
             PROVE  C2 \subseteq T
  BY DEF LedTo
<1>1. C \subseteq T
  BY DEF LedTo
<1> QED BY <1>1

LEMMA LedVisits ==
  ASSUME TypeInv, NEW C, NEW C2, NEW From, NEW From2,
         NEW n \in Node, NEW fresh \in SUBSET Node,
         LedTo(C, From),
         From \subseteq From2,
         n \in C,
         C2 = C \cup (Targets(Followed(n, fresh)) \cap fresh)
  PROVE  LedTo(C2, From2)
<1> SUFFICES ASSUME NEW T \in SUBSET Node, From2 \subseteq T,
                    \A m \in T : Children(m) \cap C2 \subseteq T
             PROVE  C2 \subseteq T
  BY DEF LedTo
<1>1. C \subseteq T
  BY DEF LedTo
<1>2. Expanded(n, fresh) \subseteq T
  BY <1>1, VisitFacts
<1>3. SUFFICES ASSUME NEW c \in Targets(Followed(n, fresh)) \cap fresh
               PROVE  c \in T
  BY <1>1
<1>4. \A k \in Targets(Followed(n, fresh)) :
        \E m \in {n} \cup Expanded(n, fresh) : k \in Children(m)
  BY VisitFacts
<1>5. PICK m \in {n} \cup Expanded(n, fresh) : c \in Children(m)
  BY <1>4
<1> QED BY <1>1, <1>2, <1>5

\* When nothing leads to C, C is empty.
LEMMA LedNowhere ==
  ASSUME NEW C, LedTo(C, {})
  PROVE  C = {}
<1>1. {} \in SUBSET Node
  OBVIOUS
<1> QED BY <1>1 DEF LedTo

-----------------------------------------------------------------------------
(* One lemma for each action: it preserves the invariant.                  *)

LEMMA RefsTyped ==
  ASSUME TypeInv, NEW V
  PROVE  DelRefs(SlotsOf(V)) \in [Node -> Int] /\ AddRefs(SlotsOf(V)) \in [Node -> Int]
<1>1. \A n \in Node : Cardinality(Into(SlotsOf(V), n)) \in Nat
  BY CountMoves, V \cap {} = {}
<1>2. rc \in [Node -> Int]
  BY DEF TypeInv
<1> QED BY <1>1, <1>2 DEF DelRefs, AddRefs

LEMMA PhaseFacts ==
  ASSUME IInv
  PROVE  /\ TypeInv /\ RefcountsExact
         /\ Balanced(Subtracted)
         /\ color \in [Node -> Colors]
         /\ phase = "mark" => MarkInv
         /\ phase = "scan" => ScanInv
         /\ phase = "collect" => CollectInv
         /\ phase \in {"nested", "verdict"} => NestedInv
BY BalancedIs DEF IInv, TypeInv

LEMMA SubtractedIn ==
  /\ phase = "mark" => Subtracted = Colored("GREY") \ stack
  /\ phase = "scan" => Subtracted = Colored("GREY") \cup Colored("WHITE") \cup black
  /\ phase = "collect" => Subtracted = Colored("WHITE") \cup stack
  /\ phase \in {"nested", "verdict"} => Subtracted = {}
BY DEF Subtracted

\* The counts and what they are compared with do not move.
LEMMA BalanceStays ==
  ASSUME RefcountsExact, UNCHANGED <<program, rc>>, Subtracted' = Subtracted
  PROVE  RefcountsExact'
BY DEF RefcountsExact, program

LEMMA MarkRootPreserves ==
  ASSUME IInv, NEW r \in Node, MarkRoot(r)
  PROVE  IInv'
<1>1. /\ phase = "mark" /\ phase' = "mark" /\ stack = {} /\ r \in pending
      /\ pending' = pending \ {r}
      /\ UNCHANGED <<heap, held, freeing, room, rc, roots, garbage, dtors, black, flagged, count>>
      /\ UNCHANGED program
  BY DEF MarkRoot, program, buffer
<1>2. TypeInv /\ MarkInv /\ RefcountsExact /\ color \in [Node -> Colors]
  BY <1>1, PhaseFacts
<1>3. r \in Colored("PURPLE") \cup Colored("GREY")
  BY <1>1, <1>2 DEF TypeInv, MarkInv
<1>4. CASE color[r] = "PURPLE"
  <2>1. color' = Paint({r}, "GREY") /\ stack' = {r}
    BY <1>4 DEF MarkRoot
  <2>2. /\ color' \in [Node -> Colors]
        /\ Colored("GREY")' = Colored("GREY") \cup {r}
        /\ Colored("WHITE")' = Colored("WHITE") \ {r}
        /\ Colored("PURPLE")' = Colored("PURPLE") \ {r}
    BY <1>2, <2>1, {r} \subseteq Node, PaintsGrey
  <2>3. r \notin Colored("GREY")
    BY <1>4 DEF Colored
  <2>4. TypeInv'
    BY <1>1, <1>2, <2>1, <2>2, HeapStays DEF TypeInv
  <2>5. RefcountsExact'
    <3>1. Subtracted' = Subtracted
      BY <1>1, <2>1, <2>2, <2>3, SubtractedIn DEF Subtracted
    <3>2. QED BY <1>1, <1>2, <3>1, BalanceStays
  <2>6. LedTo(Colored("GREY"), roots \ pending)'
    <3>1. LedTo(Colored("GREY") \cup {r}, (roots \ pending) \cup {r})
      BY <1>2, LedAdds DEF MarkInv
    <3>2. roots' \ pending' = (roots \ pending) \cup {r}
      BY <1>1, <1>2 DEF TypeInv
    <3>3. QED BY <1>1, <2>2, <3>1, <3>2, MarkTrailNext
  <2>7. MarkInv'
    <3>1. \A n \in Colored("GREY")' \ stack' : Children(n)' \subseteq Colored("GREY")'
      BY <1>1, <1>2, <2>1, <2>2, HeapStays DEF MarkInv
    <3>2. QED BY <1>1, <1>2, <1>3, <2>1, <2>2, <2>6, <3>1 DEF MarkInv
  <2>8. QED BY <1>1, <2>4, <2>5, <2>7 DEF IInv
<1>5. CASE color[r] # "PURPLE"
  <2>1. UNCHANGED <<color, stack>>
    BY <1>5 DEF MarkRoot
  <2>2. r \in Colored("GREY")
    BY <1>3, <1>5 DEF Colored
  <2>3. \A c : Colored(c)' = Colored(c)
    BY <2>1 DEF Colored
  <2>4. TypeInv'
    BY <1>1, <1>2, <2>1, HeapStays DEF TypeInv
  <2>5. RefcountsExact'
    BY <1>1, <1>2, <2>1, <2>3, BalanceStays DEF Subtracted
  <2>6. LedTo(Colored("GREY"), roots \ pending)'
    <3>1. LedTo(Colored("GREY"), (roots \ pending) \cup {r})
      BY <1>2, LedAdds DEF MarkInv
    <3>2. roots' \ pending' = (roots \ pending) \cup {r}
      BY <1>1, <1>2 DEF TypeInv
    <3>3. QED BY <1>1, <2>3, <3>1, <3>2, MarkTrailNext
  <2>7. MarkInv'
    <3>1. \A n \in Colored("GREY")' \ stack' : Children(n)' \subseteq Colored("GREY")'
      BY <1>1, <1>2, <2>1, <2>3, HeapStays DEF MarkInv
    <3>2. Colored("PURPLE")' \subseteq pending'
      BY <1>1, <1>2, <2>3, <1>5 DEF MarkInv, Colored
    <3>3. QED BY <1>1, <1>2, <2>1, <2>3, <2>6, <3>1, <3>2 DEF MarkInv
  <2>8. QED BY <1>1, <2>4, <2>5, <2>7 DEF IInv
<1> QED BY <1>4, <1>5

LEMMA MarkVisitPreserves ==
  ASSUME IInv, NEW n \in Node, MarkVisit(n)
  PROVE  IInv'
<1> DEFINE fresh == Node \ Colored("GREY")
           E == Expanded(n, fresh)
           found == Targets(Followed(n, fresh)) \cap fresh
<1>1. /\ phase = "mark" /\ phase' = "mark" /\ n \in stack
      /\ rc' = DelRefs(Followed(n, fresh))
      /\ color' = Paint(found, "GREY")
      /\ stack' = (stack \ {n}) \cup (found \ E)
      /\ UNCHANGED <<heap, held, freeing, room, roots, garbage, dtors, pending, black, flagged, count>>
      /\ UNCHANGED program
  BY DEF MarkVisit, program, buffer
<1>2. TypeInv /\ MarkInv /\ Balanced(Subtracted) /\ color \in [Node -> Colors]
  BY <1>1, PhaseFacts
<1>3. /\ Followed(n, fresh) = SlotsOf({n} \cup E)
      /\ E \subseteq found
      /\ found \subseteq Node
      /\ \A m \in {n} \cup E : Children(m) \subseteq Targets(Followed(n, fresh))
  <2>1. fresh \in SUBSET Node
    OBVIOUS
  <2>2. QED BY <1>2, <2>1, VisitFacts
<1>4. \A m \in {n} \cup E : Children(m) \subseteq Colored("GREY") \cup found
  <2>1. Targets(Followed(n, fresh)) \subseteq Node
    BY <1>2, VisitFacts
  <2>2. QED BY <1>3, <2>1
<1>5. found \cap Colored("GREY") = {} /\ n \in Colored("GREY")
  BY <1>1, <1>2 DEF MarkInv
<1>6. LedTo(Colored("GREY") \cup found, roots \ pending)
  <2>1. fresh \in SUBSET Node
    OBVIOUS
  <2>2. QED BY <1>2, <1>5, <2>1, LedVisits DEF MarkInv
<1> HIDE DEF fresh, E, found
<1>7. /\ color' \in [Node -> Colors]
      /\ Colored("GREY")' = Colored("GREY") \cup found
      /\ Colored("WHITE")' = Colored("WHITE") \ found
      /\ Colored("PURPLE")' = Colored("PURPLE") \ found
  BY <1>1, <1>2, <1>3, PaintsGrey
<1>8. TypeInv'
  <2>1. rc' \in [Node -> Int]
    BY <1>1, <1>2, <1>3, RefsTyped
  <2>2. QED BY <1>1, <1>2, <1>3, <1>7, <2>1, HeapStays DEF TypeInv
<1>9. RefcountsExact'
  <2>1. Balanced(Colored("GREY") \ stack)
    BY <1>1, <1>2, SubtractedIn
  <2>2. ({n} \cup E) \cap (Colored("GREY") \ stack) = {}
    BY <1>1, <1>3, <1>5
  <2>3. Subtracted' = (Colored("GREY") \ stack) \cup ({n} \cup E)
    <3>1. Subtracted' = Colored("GREY")' \ stack'
      BY <1>1 DEF Subtracted
    <3>2. found \cap stack = {}
      BY <1>2, <1>5 DEF MarkInv
    <3>3. QED BY <1>1, <1>3, <1>5, <1>7, <3>1, <3>2
  <2>4. ASSUME NEW k \in Node
        PROVE  rc'[k] = held[k] + Cardinality(Outside(Subtracted', k))
    <3>1. DelRefs(SlotsOf({n} \cup E))[k]
            = held[k] + Cardinality(Outside((Colored("GREY") \ stack) \cup ({n} \cup E), k))
      BY <1>2, <2>1, <2>2, TakenBalances
    <3>2. QED BY <1>1, <1>3, <2>3, <3>1
  <2>5. QED BY <1>1, <2>4, BalancedNext
<1>10. LedTo(Colored("GREY"), roots \ pending)'
  BY <1>1, <1>6, <1>7, MarkTrailNext
<1>11. MarkInv'
  <2>1. \A m \in Colored("GREY")' \ stack' : Children(m)' \subseteq Colored("GREY")'
    <3>1. SUFFICES ASSUME NEW m \in Colored("GREY")' \ stack'
                   PROVE  Children(m) \subseteq Colored("GREY") \cup found
      BY <1>1, <1>7, HeapStays
    <3>2. m \in {n} \cup E \/ m \in Colored("GREY") \ stack
      BY <1>1, <1>7
    <3>3. QED BY <1>2, <1>4, <3>2 DEF MarkInv
  <2>2. QED BY <1>1, <1>2, <1>3, <1>5, <1>7, <1>10, <2>1 DEF MarkInv
<1> QED BY <1>1, <1>8, <1>9, <1>11 DEF IInv

LEMMA CyclesStayNext ==
  ASSUME UNCHANGED <<program, roots>>,
         \A S \in SUBSET Node :
            Isolated(S) /\ (\A n \in S : Reaches(roots, n))
                => S \subseteq Colored("GREY")' \cup Colored("WHITE")'
  PROVE  CyclesStay'
<1>1. \A n : Reaches(roots, n)' <=> Reaches(roots, n)
  <2>1. UNCHANGED program
    BY DEF program
  <2>2. QED BY <2>1, HeapStays DEF Reaches
<1>2. UNCHANGED program
  BY DEF program
<1> QED BY <1>1, <1>2, HeapStays DEF CyclesStay

LEMMA MarkDonePreserves ==
  ASSUME IInv, MarkDone
  PROVE  IInv'
<1>1. /\ phase = "mark" /\ phase' = "scan" /\ stack = {} /\ pending = {}
      /\ pending' = roots
      /\ UNCHANGED <<heap, held, freeing, room, rc, color, roots, garbage, dtors, stack, black, flagged, count>>
      /\ UNCHANGED program
  BY DEF MarkDone, program, buffer
<1>2. TypeInv /\ MarkInv /\ RefcountsExact /\ color \in [Node -> Colors]
  BY <1>1, PhaseFacts
<1>3. \A c : Colored(c)' = Colored(c)
  BY <1>1 DEF Colored
<1>4. /\ Colored("PURPLE") = {} /\ Colored("WHITE") = {}
      /\ black = {} /\ garbage = {} /\ dtors = {}
      /\ roots \subseteq Colored("GREY")
      /\ \A n \in Colored("GREY") : Children(n) \subseteq Colored("GREY")
  BY <1>1, <1>2 DEF MarkInv
<1>5. TypeInv'
  BY <1>1, <1>2, HeapStays DEF TypeInv, Phases
<1>6. RefcountsExact'
  <2>1. Subtracted = Colored("GREY")
    BY <1>1, SubtractedIn
  <2>2. Subtracted' = Colored("GREY")
    BY <1>1, <1>3, <1>4 DEF Subtracted
  <2>3. QED BY <1>1, <1>2, <2>1, <2>2, BalanceStays
<1>7. CyclesStay'
  <2>1. ASSUME NEW S \in SUBSET Node, \A n \in S : Reaches(roots, n)
        PROVE  S \subseteq Colored("GREY")
    <3>1. Colored("GREY") \in SUBSET Node
      BY <1>2, ColorFacts
    <3>2. QED BY <1>4, <2>1, <3>1 DEF Reaches
  <2>2. QED BY <1>1, <1>3, <2>1, CyclesStayNext
<1>8. LedTo(Colored("GREY"), pending \cup stack \cup black)'
  <2>1. LedTo(Colored("GREY"), roots)
    <3>1. roots \ pending = roots
      BY <1>1
    <3>2. QED BY <1>2, <3>1 DEF MarkInv
  <2>2. pending' \cup stack' \cup black' = roots
    BY <1>1, <1>4
  <2>3. QED BY <1>1, <1>3, <2>1, <2>2, GreyTrailNext
<1>9. LedTo(Colored("WHITE"), (roots \cap Colored("WHITE")) \cup black)'
  BY <1>3, <1>4 DEF LedTo
<1>10. roots \cap Colored("BLACK") = {}
  BY <1>2, <1>4, ColorFacts
<1>11. ScanInv'
  BY <1>1, <1>3, <1>4, <1>7, <1>8, <1>9, <1>10 DEF ScanInv
<1> QED BY <1>1, <1>5, <1>6, <1>11 DEF IInv

LEMMA ScanRootPreserves ==
  ASSUME IInv, NEW r \in Node, ScanRoot(r)
  PROVE  IInv'
<1>1. /\ phase = "scan" /\ phase' = "scan" /\ stack = {} /\ black = {} /\ r \in pending
      /\ pending' = pending \ {r}
      /\ UNCHANGED <<heap, held, freeing, room, rc, roots, garbage, dtors, black, flagged, count>>
      /\ UNCHANGED program
  BY DEF ScanRoot, program, buffer
<1>2. TypeInv /\ ScanInv /\ RefcountsExact /\ color \in [Node -> Colors]
  BY <1>1, PhaseFacts
<1>3. r \in roots
  BY <1>1, <1>2 DEF TypeInv
<1>4. CASE color[r] = "GREY"
  <2>1. color' = Paint({r}, "WHITE") /\ stack' = {r}
    BY <1>4 DEF ScanRoot
  <2>2. /\ color' \in [Node -> Colors]
        /\ Colored("WHITE")' = Colored("WHITE") \cup {r}
        /\ Colored("GREY")' = Colored("GREY") \ {r}
        /\ Colored("BLACK")' = Colored("BLACK") \ {r}
        /\ Colored("PURPLE")' = Colored("PURPLE") \ {r}
    BY <1>2, <2>1, {r} \subseteq Node, PaintsWhite
  <2>3. r \in Colored("GREY") /\ r \notin Colored("BLACK") /\ r \notin Colored("WHITE")
    BY <1>4 DEF Colored
  <2>4. TypeInv'
    BY <1>1, <1>2, <2>1, <2>2, HeapStays DEF TypeInv
  <2>5. RefcountsExact'
    <3>1. Subtracted' = Subtracted
      BY <1>1, <2>2, <2>3, SubtractedIn DEF Subtracted
    <3>2. QED BY <1>1, <1>2, <3>1, BalanceStays
  <2>6. LedTo(Colored("GREY"), pending \cup stack \cup black)'
    <3>1. LedTo(Colored("GREY") \ {r}, (pending \ {r}) \cup {r})
      <4>2. LedTo(Colored("GREY"), pending)
        <5>1. pending \cup stack \cup black = pending
          BY <1>1
        <5>2. QED BY <1>2, <5>1 DEF ScanInv
      <4>3. pending \subseteq (pending \ {r}) \cup {r}
        OBVIOUS
      <4>4. QED BY <4>2, <4>3, LedMoves
    <3>2. pending' \cup stack' \cup black' = (pending \ {r}) \cup {r}
      BY <1>1, <2>1
    <3>3. QED BY <1>1, <2>2, <3>1, <3>2, GreyTrailNext
  <2>7. LedTo(Colored("WHITE"), (roots \cap Colored("WHITE")) \cup black)'
    <3>1. LedTo(Colored("WHITE") \cup {r}, (roots \cap (Colored("WHITE") \cup {r})) \cup black)
      BY <1>2, <1>3, LedAdds DEF ScanInv
    <3>2. QED BY <1>1, <2>2, <3>1, WhiteTrailNext
  <2>8. CyclesStay'
    <3>1. Colored("GREY")' \cup Colored("WHITE")' = Colored("GREY") \cup Colored("WHITE")
      BY <2>2, <2>3
    <3>2. QED BY <1>1, <1>2, <3>1, CyclesStayNext DEF ScanInv, CyclesStay
  <2>9. ScanInv'
    <3>1. \A n \in Colored("WHITE")' \ stack' : rc'[n] = 0
      BY <1>1, <1>2, <2>1, <2>2 DEF ScanInv
    <3>2. \A n \in Colored("WHITE")' \ stack' : Children(n)' \cap Colored("GREY")' = {}
      BY <1>1, <1>2, <2>1, <2>2, HeapStays DEF ScanInv
    <3>3. \A n \in ((roots' \cup stack') \cap Colored("BLACK")') \ black' :
              Children(n)' \cap Colored("GREY")' = {}
      BY <1>1, <1>2, <2>1, <2>2, HeapStays DEF ScanInv
    <3>4. QED BY <1>1, <1>2, <2>1, <2>2, <2>6, <2>7, <2>8, <3>1, <3>2, <3>3 DEF ScanInv
  <2>10. QED BY <1>1, <2>4, <2>5, <2>9 DEF IInv
<1>5. CASE color[r] # "GREY"
  <2>1. UNCHANGED <<color, stack>>
    BY <1>5 DEF ScanRoot
  <2>2. \A c : Colored(c)' = Colored(c)
    BY <2>1 DEF Colored
  <2>3. r \in Node /\ r \notin Colored("GREY") /\ r \in Colored("BLACK") \cup Colored("WHITE")
    BY <1>2, <1>5, ColorFacts DEF ScanInv, Colored
  <2>4. Children(r) \cap Colored("GREY") = {}
    BY <1>1, <1>2, <1>3, <2>3 DEF ScanInv
  <2>5. TypeInv'
    BY <1>1, <1>2, <2>1, HeapStays DEF TypeInv
  <2>6. RefcountsExact'
    BY <1>1, <1>2, <2>1, <2>2, BalanceStays DEF Subtracted
  <2>7. LedTo(Colored("GREY"), pending \cup stack \cup black)'
    <3>1. LedTo(Colored("GREY"), pending \ {r})
      <4> DEFINE C == Colored("GREY")
                 V == {r}
                 From2 == pending \ {r}
      <4>1. C \in SUBSET Node /\ C \in SUBSET C
        BY <1>2, ColorFacts
      <4>2. LedTo(C, pending)
        <5>1. pending \cup stack \cup black = pending
          BY <1>1
        <5>2. QED BY <1>2, <5>1 DEF ScanInv
      <4>3. V \in SUBSET Node /\ pending \subseteq From2 \cup V /\ V \cap C = {}
        BY <2>3
      <4>4. \A m \in V : Children(m) \cap C \subseteq From2 \cup V
        BY <2>4
      <4>5. C \ C \subseteq From2 \cup V
        OBVIOUS
      <4> HIDE DEF C, V, From2
      <4>6. LedTo(C, From2)
        BY ONLY <4>1, <4>2, <4>3, <4>4, <4>5, LedShrinks
      <4> QED BY <4>6 DEF C, From2
    <3>2. pending' \cup stack' \cup black' = pending \ {r}
      BY <1>1, <2>1
    <3>3. QED BY <1>1, <2>2, <3>1, <3>2, GreyTrailNext
  <2>8. LedTo(Colored("WHITE"), (roots \cap Colored("WHITE")) \cup black)'
    <3>1. LedTo(Colored("WHITE"), (roots \cap Colored("WHITE")) \cup black)
      BY <1>2 DEF ScanInv
    <3>2. QED BY <1>1, <2>2, <3>1, WhiteTrailNext
  <2>9. CyclesStay'
    BY <1>1, <1>2, <2>2, CyclesStayNext DEF ScanInv, CyclesStay
  <2>10. ScanInv'
    <3>1. \A n \in Colored("WHITE")' \ stack' : rc'[n] = 0
      BY <1>1, <1>2, <2>1, <2>2 DEF ScanInv
    <3>2. \A n \in Colored("WHITE")' \ stack' : Children(n)' \cap Colored("GREY")' = {}
      BY <1>1, <1>2, <2>1, <2>2, HeapStays DEF ScanInv
    <3>3. \A n \in ((roots' \cup stack') \cap Colored("BLACK")') \ black' :
              Children(n)' \cap Colored("GREY")' = {}
      BY <1>1, <1>2, <2>1, <2>2, HeapStays DEF ScanInv
    <3>4. QED BY <1>1, <1>2, <2>1, <2>2, <2>7, <2>8, <2>9, <3>1, <3>2, <3>3 DEF ScanInv
  <2>11. QED BY <1>1, <2>5, <2>6, <2>10 DEF IInv
<1> QED BY <1>4, <1>5

LEMMA ScanSkipPreserves ==
  ASSUME IInv, NEW n \in Node, ScanSkip(n)
  PROVE  IInv'
<1>1. /\ phase = "scan" /\ phase' = "scan" /\ black = {} /\ n \in stack
      /\ color[n] # "WHITE"
      /\ stack' = stack \ {n}
      /\ UNCHANGED <<heap, held, freeing, room, rc, color, roots, garbage, dtors, pending, black, flagged, count>>
      /\ UNCHANGED program
  BY DEF ScanSkip, program, buffer
<1>2. TypeInv /\ ScanInv /\ RefcountsExact /\ color \in [Node -> Colors]
  BY <1>1, PhaseFacts
<1>3. \A c : Colored(c)' = Colored(c)
  BY <1>1 DEF Colored
<1>4. n \in Colored("BLACK") /\ n \notin Colored("GREY") /\ n \notin Colored("WHITE")
  BY <1>1, <1>2, ColorFacts DEF ScanInv, Colored
<1>5. Children(n) \cap Colored("GREY") = {}
  BY <1>1, <1>2, <1>4 DEF ScanInv
<1>6. TypeInv'
  BY <1>1, <1>2, HeapStays DEF TypeInv
<1>7. RefcountsExact'
  BY <1>1, <1>2, <1>3, BalanceStays DEF Subtracted
<1>8. LedTo(Colored("GREY"), pending \cup stack \cup black)'
  <2>1. LedTo(Colored("GREY"), pending \cup (stack \ {n}) \cup black)
    <3> DEFINE C == Colored("GREY")
               From == pending \cup stack \cup black
               V == {n}
               From2 == pending \cup (stack \ {n}) \cup black
               C2 == Colored("GREY")
    <3>1. C \in SUBSET Node
      BY <1>2, ColorFacts
    <3>2. LedTo(C, From)
      BY <1>2 DEF ScanInv
    <3>3. V \in SUBSET Node /\ C2 \in SUBSET C
      OBVIOUS
    <3>4. From \subseteq From2 \cup V /\ C \ C2 \subseteq From2 \cup V
      OBVIOUS
    <3>5. V \cap C2 = {}
      BY <1>4, <1>5
    <3>6. \A m \in V : Children(m) \cap C \subseteq From2 \cup V
      BY <1>4, <1>5
    <3> HIDE DEF C, From, V, From2, C2
    <3>7. LedTo(C2, From2)
      BY ONLY <3>1, <3>2, <3>3, <3>4, <3>5, <3>6, LedShrinks
    <3> QED BY <3>7 DEF C, C2, From2
  <2>2. QED BY <1>1, <1>3, <2>1, GreyTrailNext
<1>9. LedTo(Colored("WHITE"), (roots \cap Colored("WHITE")) \cup black)'
  <2>1. LedTo(Colored("WHITE"), (roots \cap Colored("WHITE")) \cup black)
    BY <1>2 DEF ScanInv
  <2>2. QED BY <1>1, <1>3, <2>1, WhiteTrailNext
<1>10. CyclesStay'
  BY <1>1, <1>2, <1>3, CyclesStayNext DEF ScanInv, CyclesStay
<1>11. ScanInv'
  <2>1. \A m \in Colored("WHITE")' \ stack' : rc'[m] = 0
    BY <1>1, <1>2, <1>3, <1>4 DEF ScanInv
  <2>2. \A m \in Colored("WHITE")' \ stack' : Children(m)' \cap Colored("GREY")' = {}
    BY <1>1, <1>2, <1>3, <1>4, HeapStays DEF ScanInv
  <2>3. \A m \in ((roots' \cup stack') \cap Colored("BLACK")') \ black' :
            Children(m)' \cap Colored("GREY")' = {}
    BY <1>1, <1>2, <1>3, HeapStays DEF ScanInv
  <2>4. QED BY <1>1, <1>2, <1>3, <1>8, <1>9, <1>10, <2>1, <2>2, <2>3 DEF ScanInv
<1> QED BY <1>1, <1>6, <1>7, <1>11 DEF IInv

LEMMA ScanInUsePreserves ==
  ASSUME IInv, NEW n \in Node, ScanInUse(n)
  PROVE  IInv'
<1>1. /\ phase = "scan" /\ phase' = "scan" /\ black = {} /\ n \in stack
      /\ color[n] = "WHITE" /\ rc[n] > 0
      /\ color' = Paint({n}, "BLACK")
      /\ stack' = stack \ {n}
      /\ black' = {n}
      /\ UNCHANGED <<heap, held, freeing, room, rc, roots, garbage, dtors, pending, flagged, count>>
      /\ UNCHANGED program
  BY DEF ScanInUse, program, buffer
<1>2. TypeInv /\ ScanInv /\ RefcountsExact /\ Balanced(Subtracted) /\ color \in [Node -> Colors]
  BY <1>1, PhaseFacts
<1>3. /\ color' \in [Node -> Colors]
      /\ Colored("BLACK")' = Colored("BLACK") \cup {n}
      /\ Colored("GREY")' = Colored("GREY") \ {n}
      /\ Colored("WHITE")' = Colored("WHITE") \ {n}
      /\ Colored("PURPLE")' = Colored("PURPLE") \ {n}
  BY <1>1, <1>2, {n} \subseteq Node, PaintsBlack
<1>4. n \in Colored("WHITE") /\ n \notin Colored("GREY") /\ n \notin Colored("BLACK")
  BY <1>1 DEF Colored
<1>5. TypeInv'
  BY <1>1, <1>2, <1>3, HeapStays DEF TypeInv
<1>6. RefcountsExact'
  <2>1. Subtracted' = Subtracted
    BY <1>1, <1>3, <1>4, SubtractedIn DEF Subtracted
  <2>2. QED BY <1>1, <1>2, <2>1, BalanceStays
<1>7. LedTo(Colored("GREY"), pending \cup stack \cup black)'
  <2>1. LedTo(Colored("GREY"), pending \cup stack \cup black)
    BY <1>2 DEF ScanInv
  <2>2. pending' \cup stack' \cup black' = pending \cup stack \cup black
    BY <1>1
  <2>3. Colored("GREY")' = Colored("GREY")
    BY <1>3, <1>4
  <2>4. QED BY <1>1, <2>1, <2>2, <2>3, GreyTrailNext
<1>8. LedTo(Colored("WHITE"), (roots \cap Colored("WHITE")) \cup black)'
  <2>1. LedTo(Colored("WHITE") \ {n}, (roots \cap (Colored("WHITE") \ {n})) \cup {n})
    BY <1>1, <1>2, LedMoves DEF ScanInv
  <2>2. QED BY <1>1, <1>3, <2>1, WhiteTrailNext
<1>9. CyclesStay'
  <2>1. ASSUME NEW S \in SUBSET Node, Isolated(S), \A m \in S : Reaches(roots, m)
        PROVE  S \subseteq Colored("GREY")' \cup Colored("WHITE")'
    <3>1. S \subseteq Colored("GREY") \cup Colored("WHITE")
      BY <1>2, <2>1 DEF ScanInv, CyclesStay
    <3>2. n \notin S
      <4>1. SUFFICES ASSUME n \in S PROVE FALSE
        OBVIOUS
      <4>2. Subtracted = Colored("GREY") \cup Colored("WHITE")
        BY <1>1, SubtractedIn
      <4>3. held[n] = 0 /\ \A s \in Slot : heap[s] = n => Owner[s] \in S \ freeing
        BY <2>1, <4>1 DEF Isolated
      <4>4. Outside(Subtracted, n) = {}
        BY <3>1, <4>2, <4>3 DEF Outside
      <4>5. rc[n] = held[n] + Cardinality(Outside(Subtracted, n))
        BY <1>2 DEF Balanced
      <4>6. rc[n] = 0
        BY <4>3, <4>4, <4>5, FS_EmptySet
      <4>7. QED BY <1>1, <4>6
    <3>3. QED BY <1>3, <3>1, <3>2
  <2>2. QED BY <1>1, <2>1, CyclesStayNext
<1>10. ScanInv'
  <2>1. \A m \in Colored("WHITE")' \ stack' : rc'[m] = 0
    BY <1>1, <1>2, <1>3 DEF ScanInv
  <2>2. \A m \in Colored("WHITE")' \ stack' : Children(m)' \cap Colored("GREY")' = {}
    BY <1>1, <1>2, <1>3, HeapStays DEF ScanInv
  <2>3. \A m \in ((roots' \cup stack') \cap Colored("BLACK")') \ black' :
            Children(m)' \cap Colored("GREY")' = {}
    BY <1>1, <1>2, <1>3, HeapStays DEF ScanInv
  <2>4. QED BY <1>1, <1>2, <1>3, <1>7, <1>8, <1>9, <2>1, <2>2, <2>3 DEF ScanInv
<1> QED BY <1>1, <1>5, <1>6, <1>10 DEF IInv

LEMMA ScanWhitePreserves ==
  ASSUME IInv, NEW n \in Node, ScanWhite(n)
  PROVE  IInv'
<1> DEFINE fresh == Colored("GREY")
           found == Targets(Followed(n, fresh)) \cap fresh
<1>1. /\ phase = "scan" /\ phase' = "scan" /\ black = {} /\ n \in stack
      /\ color[n] = "WHITE" /\ rc[n] <= 0
      /\ color' = Paint(found, "WHITE")
      /\ stack' = (stack \ {n}) \cup found
      /\ UNCHANGED <<heap, held, freeing, room, rc, roots, garbage, dtors, pending, black, flagged, count>>
      /\ UNCHANGED program
  BY DEF ScanWhite, program, buffer
<1>2. TypeInv /\ ScanInv /\ RefcountsExact /\ Balanced(Subtracted) /\ color \in [Node -> Colors]
  BY <1>1, PhaseFacts
<1>3. fresh \in SUBSET Node
  BY <1>2, ColorFacts
<1>4. /\ found \subseteq Colored("GREY") /\ found \subseteq Node
      /\ Children(n) \cap Colored("GREY") \subseteq found
  BY <1>2, <1>3, VisitFacts
<1>5. n \in Colored("WHITE") /\ n \notin Colored("GREY") /\ n \notin Colored("BLACK")
  BY <1>1 DEF Colored
<1>6. LedTo(Colored("WHITE") \cup found, (roots \cap (Colored("WHITE") \cup found)) \cup black)
  <2>1. LedTo(Colored("WHITE"), (roots \cap Colored("WHITE")) \cup black)
    BY <1>2 DEF ScanInv
  <2>2. (roots \cap Colored("WHITE")) \cup black
          \subseteq (roots \cap (Colored("WHITE") \cup found)) \cup black
    OBVIOUS
  <2>3. QED BY <1>2, <1>3, <1>5, <2>1, <2>2, LedVisits
<1> HIDE DEF fresh, found
<1>7. /\ color' \in [Node -> Colors]
      /\ Colored("WHITE")' = Colored("WHITE") \cup found
      /\ Colored("GREY")' = Colored("GREY") \ found
      /\ Colored("BLACK")' = Colored("BLACK") \ found
      /\ Colored("PURPLE")' = Colored("PURPLE") \ found
  BY <1>1, <1>2, <1>4, PaintsWhite
<1>8. rc[n] = 0
  <2>1. rc[n] = held[n] + Cardinality(Outside(Subtracted, n)) /\ held[n] \in Nat
    BY <1>2, ProgramAssumption DEF Balanced, TypeInv, HeapInv
  <2>2. Cardinality(Outside(Subtracted, n)) \in Nat
    BY <1>2, CountMoves, Subtracted \cap {} = {}
  <2>3. QED BY <1>1, <2>1, <2>2
<1>9. TypeInv'
  BY <1>1, <1>2, <1>4, <1>7, HeapStays DEF TypeInv
<1>10. RefcountsExact'
  <2>1. Subtracted' = Subtracted
    BY <1>1, <1>4, <1>7, SubtractedIn DEF Subtracted
  <2>2. QED BY <1>1, <1>2, <2>1, BalanceStays
<1>11. LedTo(Colored("GREY"), pending \cup stack \cup black)'
  <2>1. LedTo(Colored("GREY") \ found, pending \cup ((stack \ {n}) \cup found) \cup black)
    <3> DEFINE C == Colored("GREY")
               From == pending \cup stack \cup black
               V == {n}
               From2 == pending \cup ((stack \ {n}) \cup found) \cup black
               C2 == Colored("GREY") \ found
    <3>1. C \in SUBSET Node
      BY <1>2, ColorFacts
    <3>2. LedTo(C, From)
      BY <1>2 DEF ScanInv
    <3>3. V \in SUBSET Node /\ C2 \in SUBSET C
      OBVIOUS
    <3>4. From \subseteq From2 \cup V /\ C \ C2 \subseteq From2 \cup V
      OBVIOUS
    <3>5. V \cap C2 = {}
      BY <1>4, <1>5
    <3>6. \A m \in V : Children(m) \cap C \subseteq From2 \cup V
      BY <1>4, <1>5
    <3> HIDE DEF C, From, V, From2, C2
    <3>7. LedTo(C2, From2)
      BY ONLY <3>1, <3>2, <3>3, <3>4, <3>5, <3>6, LedShrinks
    <3> QED BY <3>7 DEF C, C2, From2
  <2>2. QED BY <1>1, <1>7, <2>1, GreyTrailNext
<1>12. LedTo(Colored("WHITE"), (roots \cap Colored("WHITE")) \cup black)'
  BY <1>1, <1>6, <1>7, WhiteTrailNext
<1>13. CyclesStay'
  <2>1. Colored("GREY")' \cup Colored("WHITE")' = Colored("GREY") \cup Colored("WHITE")
    BY <1>4, <1>7
  <2>2. QED BY <1>1, <1>2, <2>1, CyclesStayNext DEF ScanInv, CyclesStay
<1>14. ScanInv'
  <2>1. \A m \in Colored("WHITE")' \ stack' : rc'[m] = 0
    BY <1>1, <1>2, <1>7, <1>8 DEF ScanInv
  <2>2. \A m \in Colored("WHITE")' \ stack' : Children(m)' \cap Colored("GREY")' = {}
    BY <1>1, <1>2, <1>4, <1>7, HeapStays DEF ScanInv
  <2>3. \A m \in ((roots' \cup stack') \cap Colored("BLACK")') \ black' :
            Children(m)' \cap Colored("GREY")' = {}
    BY <1>1, <1>2, <1>4, <1>7, HeapStays, ColorFacts DEF ScanInv
  <2>4. QED BY <1>1, <1>2, <1>4, <1>7, <1>11, <1>12, <1>13, <2>1, <2>2, <2>3, ColorFacts DEF ScanInv
<1> QED BY <1>1, <1>9, <1>10, <1>14 DEF IInv

\* What refers to a member of an isolated set is a member of it.
LEMMA IsolatedParents ==
  ASSUME TypeInv, NEW S, Isolated(S), NEW c \in S, NEW m, c \in Children(m)
  PROVE  m \in S
<1>1. PICK s \in Fields(m) : heap[s] = c
  BY DEF Children, Targets
<1>2. s \in Slot /\ Owner[s] = m
  BY <1>1, FieldsFacts
<1> QED BY <1>1, <1>2 DEF Isolated

LEMMA BlackVisitPreserves ==
  ASSUME IInv, NEW n \in Node, BlackVisit(n)
  PROVE  IInv'
<1> DEFINE fresh == Node \ Colored("BLACK")
           E == Expanded(n, fresh)
           found == Targets(Followed(n, fresh)) \cap fresh
<1>1. /\ phase = "scan" /\ phase' = "scan" /\ n \in black
      /\ rc' = AddRefs(Followed(n, fresh))
      /\ color' = Paint(found, "BLACK")
      /\ black' = (black \ {n}) \cup (found \ E)
      /\ UNCHANGED <<heap, held, freeing, room, roots, garbage, dtors, pending, stack, flagged, count>>
      /\ UNCHANGED program
  BY DEF BlackVisit, program, buffer
<1>2. TypeInv /\ ScanInv /\ Balanced(Subtracted) /\ color \in [Node -> Colors]
  BY <1>1, PhaseFacts
<1>3. fresh \in SUBSET Node
  OBVIOUS
<1>4. /\ Followed(n, fresh) = SlotsOf({n} \cup E)
      /\ E \subseteq found /\ E \subseteq Children(n)
      /\ found \subseteq Node
      /\ \A m \in {n} \cup E : Children(m) \cap fresh \subseteq found
      /\ \A c \in found : \E m \in {n} \cup E : c \in Children(m)
  BY ZenonT(40), <1>2, <1>3, VisitFound
<1>5. \A m \in Node : m \in fresh /\ m \notin found => Into(Followed(n, fresh), m) = {}
  BY DEF Into, Targets
<1>6. fresh = Colored("GREY") \cup Colored("WHITE")
  BY <1>2, ColorFacts DEF ScanInv
<1>7. n \in Colored("BLACK") /\ n \notin fresh /\ n \notin Colored("GREY") /\ n \notin Colored("WHITE")
  BY <1>1, <1>2, <1>6 DEF ScanInv
<1>8. found \subseteq fresh
  OBVIOUS
<1> HIDE DEF fresh, E, found
<1>9. /\ color' \in [Node -> Colors]
      /\ Colored("BLACK")' = Colored("BLACK") \cup found
      /\ Colored("GREY")' = Colored("GREY") \ found
      /\ Colored("WHITE")' = Colored("WHITE") \ found
      /\ Colored("PURPLE")' = Colored("PURPLE") \ found
  BY <1>1, <1>2, <1>4, PaintsBlack
<1>10. TypeInv'
  <2>1. rc' \in [Node -> Int]
    BY <1>1, <1>2, <1>4, RefsTyped
  <2>2. QED BY <1>1, <1>2, <1>4, <1>9, <2>1, HeapStays DEF TypeInv
<1>11. black \cap fresh = {}
  BY <1>2, <1>6, ColorFacts DEF ScanInv
<1>12. RefcountsExact'
  <2>1. Subtracted = fresh \cup black
    BY <1>1, <1>6, SubtractedIn
  <2>2. Subtracted' = Colored("GREY")' \cup Colored("WHITE")' \cup black'
    BY <1>1 DEF Subtracted
  <2>3. Subtracted' = (fresh \ found) \cup black'
    BY <1>6, <1>9, <2>2
  <2>4. Subtracted' \cup ({n} \cup E) = Subtracted
    BY <1>1, <1>4, <1>8, <1>11, <2>1, <2>3
  <2>5. ({n} \cup E) \cap Subtracted' = {}
    BY <1>1, <1>4, <1>7, <1>8, <1>11, <2>3
  <2>6. ASSUME NEW X, X = Subtracted', NEW k \in Node
        PROVE  rc'[k] = held[k] + Cardinality(Outside(X, k))
    <3>1. Balanced(X \cup ({n} \cup E))
      BY <1>2, <2>4, <2>6
    <3>2. ({n} \cup E) \cap X = {}
      BY <2>5, <2>6
    <3>3. AddRefs(SlotsOf({n} \cup E))[k] = held[k] + Cardinality(Outside(X, k))
      BY <1>2, <3>1, <3>2, GivenBalances
    <3>4. QED BY <1>1, <1>4, <3>3
  <2>7. QED BY <1>1, <2>6, BalancedNext
<1>13. LedTo(Colored("GREY"), pending \cup stack \cup black)'
  <2> DEFINE V == {n} \cup E
             From2 == pending \cup stack \cup black'
             C == Colored("GREY")
             C2 == Colored("GREY") \ found
             From == pending \cup stack \cup black
  <2>1. LedTo(C, From)
    BY <1>2 DEF ScanInv
  <2>2. /\ C \in SUBSET Node
        /\ V \in SUBSET Node
        /\ C2 \in SUBSET C
        /\ From \subseteq From2 \cup V
        /\ C \ C2 \subseteq From2 \cup V
        /\ V \cap C2 = {}
        /\ \A m \in V : Children(m) \cap C \subseteq From2 \cup V
    BY <1>1, <1>2, <1>4, <1>6, <1>7, ColorFacts
  <2> HIDE DEF V, From, From2, C, C2
  <2>3. LedTo(C2, From2)
    BY <2>1, <2>2, LedShrinks
  <2>4. C2 = Colored("GREY")' /\ From2 = pending' \cup stack' \cup black'
    BY <1>1, <1>9 DEF C2, From2
  <2>5. QED BY <1>1, <2>3, <2>4, GreyTrailNext
<1>14. LedTo(Colored("WHITE"), (roots \cap Colored("WHITE")) \cup black)'
  <2> DEFINE V == {n} \cup E
             C == Colored("WHITE")
             C2 == Colored("WHITE") \ found
             From == (roots \cap C) \cup black
             From2 == (roots \cap C2) \cup black'
  <2>1. LedTo(C, From)
    BY <1>2 DEF ScanInv
  <2>2. /\ C \in SUBSET Node
        /\ V \in SUBSET Node
        /\ C2 \in SUBSET C
        /\ From \subseteq From2 \cup V
        /\ C \ C2 \subseteq From2 \cup V
        /\ V \cap C2 = {}
        /\ \A m \in V : Children(m) \cap C \subseteq From2 \cup V
    BY <1>1, <1>2, <1>4, <1>6, <1>7, ColorFacts
  <2> HIDE DEF V, From, From2, C, C2
  <2>3. LedTo(C2, From2)
    BY <2>1, <2>2, LedShrinks
  <2>4. C2 = Colored("WHITE")' /\ From2 = (roots' \cap Colored("WHITE")') \cup black'
    BY <1>1, <1>9 DEF C2, From2
  <2>5. QED BY <1>1, <2>3, <2>4, WhiteTrailNext
<1>15. CyclesStay'
  <2>1. ASSUME NEW S \in SUBSET Node, Isolated(S), \A m \in S : Reaches(roots, m)
        PROVE  S \subseteq Colored("GREY")' \cup Colored("WHITE")'
    <3>1. S \subseteq Colored("GREY") \cup Colored("WHITE")
      BY <1>2, <2>1 DEF ScanInv, CyclesStay
    <3>2. n \notin S
      BY <1>7, <3>1
    <3>3. \A m \in S : m \notin E
      BY <1>2, <1>4, <2>1, <3>2, IsolatedParents
    <3>4. S \cap found = {}
      <4>1. SUFFICES ASSUME NEW c \in S, c \in found PROVE FALSE
        OBVIOUS
      <4>2. PICK m \in {n} \cup E : c \in Children(m)
        BY <1>4, <4>1
      <4>3. m \in S
        BY <1>2, <2>1, <4>2, IsolatedParents
      <4>4. QED BY <3>2, <3>3, <4>2, <4>3
    <3>5. QED BY <1>9, <3>1, <3>4
  <2>2. QED BY <1>1, <2>1, CyclesStayNext
<1>16. ScanInv'
  <2>1. ASSUME NEW m \in Colored("WHITE")' \ stack'
        PROVE  rc'[m] = 0
    <3>1. m \in Colored("WHITE") \ stack /\ m \in Node /\ m \in fresh /\ m \notin found
      BY <1>1, <1>2, <1>6, <1>9, ColorFacts
    <3>2. rc[m] = 0
      BY <1>2, <3>1 DEF ScanInv
    <3>3. Cardinality(Into(Followed(n, fresh), m)) = 0
      BY <1>5, <3>1, FS_EmptySet
    <3>4. QED BY <1>1, <3>1, <3>2, <3>3 DEF AddRefs
  <2>2. \A m \in Colored("WHITE")' \ stack' : Children(m)' \cap Colored("GREY")' = {}
    BY <1>1, <1>2, <1>9, HeapStays DEF ScanInv
  <2>3. ASSUME NEW m \in ((roots' \cup stack') \cap Colored("BLACK")') \ black'
        PROVE  Children(m) \cap Colored("GREY")' = {}
    <3>1. CASE m \in {n} \cup E
      BY <1>4, <1>6, <1>9, <3>1
    <3>2. CASE m \notin {n} \cup E
      <4>1. m \in ((roots \cup stack) \cap Colored("BLACK")) \ black
        BY <1>1, <1>9, <3>2
      <4>2. QED BY <1>2, <1>9, <4>1 DEF ScanInv
    <3>3. QED BY <3>1, <3>2
  <2>4. \A m \in ((roots' \cup stack') \cap Colored("BLACK")') \ black' :
            Children(m)' \cap Colored("GREY")' = {}
    BY <1>1, <2>3, HeapStays
  <2>5. black' \subseteq Colored("BLACK")' /\ stack' \subseteq Colored("WHITE")' \cup Colored("BLACK")'
    BY <1>1, <1>2, <1>9 DEF ScanInv
  <2>6. QED BY <1>1, <1>2, <1>9, <1>13, <1>14, <1>15, <2>1, <2>2, <2>4, <2>5 DEF ScanInv
<1> QED BY <1>1, <1>10, <1>12, <1>16 DEF IInv

LEMMA ScanDonePreserves ==
  ASSUME IInv, ScanDone
  PROVE  IInv'
<1>1. /\ phase = "scan" /\ phase' = "collect" /\ stack = {} /\ black = {} /\ pending = {}
      /\ roots' = roots \ Colored("BLACK")
      /\ pending' = roots'
      /\ UNCHANGED <<heap, held, freeing, room, rc, color, garbage, dtors, stack, black, flagged, count>>
      /\ UNCHANGED program
  BY DEF ScanDone, program, buffer
<1>2. TypeInv /\ ScanInv /\ RefcountsExact /\ Balanced(Subtracted) /\ color \in [Node -> Colors]
  BY <1>1, PhaseFacts
<1>3. \A c : Colored(c)' = Colored(c)
  BY <1>1 DEF Colored
<1>4. Colored("GREY") = {}
  <2>1. pending \cup stack \cup black = {}
    BY <1>1
  <2>2. LedTo(Colored("GREY"), {})
    BY <1>2, <2>1 DEF ScanInv
  <2>3. QED BY <2>2, LedNowhere
<1>5. Node \subseteq Colored("WHITE") \cup Colored("BLACK")
  BY <1>2, <1>4, ColorFacts DEF ScanInv
<1>6. roots' = roots \cap Colored("WHITE") /\ roots' \cap Colored("BLACK") = {}
  BY <1>1, <1>2, <1>5, ColorFacts, NodeAssumption DEF TypeInv
<1>7. TypeInv'
  BY <1>1, <1>2, HeapStays DEF TypeInv, Phases, ScanInv
<1>8. RefcountsExact'
  <2>1. Subtracted = Colored("WHITE")
    BY <1>1, <1>4, SubtractedIn
  <2>2. Subtracted' = Colored("WHITE")
    BY <1>1, <1>3 DEF Subtracted
  <2>3. QED BY <1>1, <1>2, <2>1, <2>2, BalanceStays
<1>9. Isolated(Colored("WHITE"))
  <2>1. Subtracted = Colored("WHITE")
    BY <1>1, <1>4, SubtractedIn
  <2>2. ASSUME NEW n \in Colored("WHITE")
        PROVE  held[n] = 0 /\ \A s \in Slot : heap[s] = n => Owner[s] \in Colored("WHITE") \ freeing
    <3>1. n \in Node /\ rc[n] = 0
      BY <1>1, <1>2, ColorFacts DEF ScanInv
    <3>2. QED BY <1>2, <2>1, <3>1, ZeroIsIsolated
  <2>3. QED BY <2>2 DEF Isolated
<1>10. Condemned'
  <2>1. Colored("WHITE") \in SUBSET Node
    BY <1>2, ColorFacts
  <2>2. Isolated(Colored("WHITE"))'
    BY <1>1, <1>3, <1>9 DEF Isolated
  <2>3. roots' \subseteq Colored("WHITE") /\ Colored("WHITE")' \cup stack' \subseteq Colored("WHITE")
    BY <1>1, <1>3, <1>6
  <2>4. \E S \in SUBSET Node :
           /\ Isolated(S)'
           /\ roots' \subseteq S
           /\ phase' = "collect" => Colored("WHITE")' \cup stack' \subseteq S
    <3>1. Isolated(Colored("WHITE")) /\ \A S : Isolated(S)' <=> Isolated(S)
      BY <1>1, <1>9, HeapStays
    <3>2. QED BY <2>1, <2>3, <3>1
  <2>5. QED BY <2>4 DEF Condemned
<1>11. LedTo(Colored("WHITE"), pending \cup stack)'
  <2>1. (roots \cap Colored("WHITE")) \cup black = pending' \cup stack'
    BY <1>1, <1>6
  <2>2. LedTo(Colored("WHITE"), pending' \cup stack')
    BY <1>2, <2>1 DEF ScanInv
  <2>3. QED BY <1>1, <1>2, <1>3, <2>1, CollectTrailNext DEF ScanInv
<1>12. CollectInv'
  BY <1>1, <1>2, <1>3, <1>5, <1>6, <1>10, <1>11 DEF CollectInv, ScanInv
<1> QED BY <1>1, <1>7, <1>8, <1>12 DEF IInv

LEMMA CollectRootPreserves ==
  ASSUME IInv, NEW r \in Node, CollectRoot(r)
  PROVE  IInv'
<1>1. /\ phase = "collect" /\ phase' = "collect" /\ stack = {} /\ r \in pending
      /\ pending' = pending \ {r}
      /\ garbage' = garbage \cup {r}
      /\ UNCHANGED <<heap, held, freeing, room, rc, roots, dtors, black, flagged, count>>
      /\ UNCHANGED program
  BY DEF CollectRoot, program
<1>2. TypeInv /\ CollectInv /\ RefcountsExact /\ color \in [Node -> Colors]
  BY <1>1, PhaseFacts
<1>3. r \in roots
  BY <1>1, <1>2 DEF TypeInv
<1>4. LedTo(Colored("WHITE"), pending)
  <2>1. pending \cup stack = pending
    BY <1>1
  <2>2. QED BY <1>2, <2>1 DEF CollectInv
<1>5. Condemned' <=> \E S \in SUBSET Node :
        Isolated(S) /\ roots \subseteq S /\ Colored("WHITE")' \cup stack' \subseteq S
  BY <1>1, HeapStays DEF Condemned
<1>6. ASSUME r \notin Colored("WHITE")
      PROVE  LedTo(Colored("WHITE"), pending \ {r})
  <2> DEFINE C == Colored("WHITE")
             C2 == Colored("WHITE")
             V == {r}
             From == pending
             From2 == pending \ {r}
  <2>1. r \in (roots \cap Colored("BLACK")) \ stack
    BY <1>1, <1>2, <1>3, <1>6 DEF CollectInv
  <2>2. /\ C \in SUBSET Node
        /\ V \in SUBSET Node
        /\ C2 \in SUBSET C
        /\ From \subseteq From2 \cup V
        /\ C \ C2 \subseteq From2 \cup V
        /\ V \cap C2 = {}
        /\ \A m \in V : Children(m) \cap C \subseteq From2 \cup V
    BY <1>2, <1>6, <2>1, ColorFacts DEF CollectInv
  <2>3. LedTo(C, From)
    BY <1>4
  <2> HIDE DEF C, C2, V, From, From2
  <2>4. LedTo(C2, From2)
    BY <2>2, <2>3, LedShrinks
  <2>5. QED BY <2>4 DEF C2, From2
<1>7. PICK S \in SUBSET Node :
        Isolated(S) /\ roots \subseteq S /\ Colored("WHITE") \cup stack \subseteq S
  BY <1>1, <1>2 DEF CollectInv, Condemned
<1>8. CASE color[r] = "WHITE"
  <2>1. color' = Paint({r}, "BLACK") /\ stack' = {r} /\ r \in Colored("WHITE")
    BY <1>8, <1>1 DEF CollectRoot, Colored
  <2>2. /\ color' \in [Node -> Colors]
        /\ Colored("BLACK")' = Colored("BLACK") \cup {r}
        /\ Colored("WHITE")' = Colored("WHITE") \ {r}
    BY <1>2, <2>1, {r} \subseteq Node, PaintsBlack
  <2>3. TypeInv'
    BY <1>1, <1>2, <1>3, <2>1, <2>2, HeapStays DEF TypeInv
  <2>4. RefcountsExact'
    <3>1. Subtracted = Colored("WHITE") \cup stack
      BY <1>1, SubtractedIn
    <3>2. Subtracted' = Colored("WHITE")' \cup stack'
      BY <1>1 DEF Subtracted
    <3>3. Subtracted' = Subtracted
      BY <1>1, <2>1, <2>2, <3>1, <3>2
    <3>4. QED BY <1>1, <1>2, <3>3, BalanceStays
  <2>5. Condemned'
    BY <1>3, <1>5, <1>7, <2>1, <2>2
  <2>6. LedTo(Colored("WHITE"), pending \cup stack)'
    <3>1. LedTo(Colored("WHITE") \ {r}, (pending \ {r}) \cup {r})
      BY <1>1, <1>4, <2>1, LedMoves
    <3>2. QED BY <1>1, <2>1, <2>2, <3>1, CollectTrailNext
  <2>7. \A m \in (roots' \cap Colored("BLACK")') \ stack' : Children(m)' \cap Colored("WHITE")' = {}
    BY <1>1, <1>2, <2>1, <2>2, HeapStays DEF CollectInv
  <2>8. \A m \in ((roots' \cap HasDtor) \cap Colored("BLACK")') \ stack' : flagged'
    BY <1>1, <1>2, <2>1, <2>2 DEF CollectInv
  <2>9. CollectInv'
    BY <1>1, <1>2, <2>1, <2>2, <2>5, <2>6, <2>7, <2>8 DEF CollectInv
  <2>10. QED BY <1>1, <2>3, <2>4, <2>9 DEF IInv
<1>9. CASE color[r] # "WHITE"
  <2>1. UNCHANGED <<color, stack>> /\ r \notin Colored("WHITE")
    BY <1>9, <1>1 DEF CollectRoot, Colored
  <2>2. Colored("WHITE")' = Colored("WHITE") /\ Colored("BLACK")' = Colored("BLACK")
    BY <2>1 DEF Colored
  <2>3. TypeInv'
    BY <1>1, <1>2, <1>3, <2>1, HeapStays DEF TypeInv
  <2>4. RefcountsExact'
    <3>1. Subtracted = Colored("WHITE") \cup stack
      BY <1>1, SubtractedIn
    <3>2. Subtracted' = Colored("WHITE")' \cup stack'
      BY <1>1 DEF Subtracted
    <3>3. QED BY <1>1, <1>2, <2>1, <2>2, <3>1, <3>2, BalanceStays
  <2>5. Condemned'
    BY <1>5, <1>7, <2>1, <2>2
  <2>6. LedTo(Colored("WHITE"), pending \cup stack)'
    <3>1. LedTo(Colored("WHITE"), pending \ {r})
      BY <1>6, <2>1
    <3>2. pending \ {r} = pending' \cup stack'
      BY <1>1, <2>1
    <3>3. QED BY <1>1, <2>2, <3>1, <3>2, CollectTrailNext
  <2>7. CollectInv'
    BY <1>1, <1>2, <2>1, <2>2, <2>5, <2>6, HeapStays DEF CollectInv
  <2>8. QED BY <1>1, <2>3, <2>4, <2>7 DEF IInv
<1> QED BY <1>8, <1>9

LEMMA CollectVisitPreserves ==
  ASSUME IInv, NEW n \in Node, CollectVisit(n)
  PROVE  IInv'
<1> DEFINE fresh == Colored("WHITE")
           E == Expanded(n, fresh)
           found == Targets(Followed(n, fresh)) \cap fresh
<1>1. /\ phase = "collect" /\ phase' = "collect" /\ n \in stack
      /\ count' = IF n \in Reference THEN count ELSE count + 1
      /\ roots' = roots \cup Added(n)
      /\ garbage' = garbage \cup Added(n)
      /\ flagged' = (flagged \/ n \in HasDtor \ freeing)
      /\ rc' = AddRefs(Followed(n, fresh))
      /\ color' = Paint(found, "BLACK")
      /\ stack' = (stack \ {n}) \cup (found \ E)
      /\ UNCHANGED <<heap, held, freeing, room, dtors, pending, black>>
      /\ UNCHANGED program
  BY DEF CollectVisit, program
<1>2. TypeInv /\ CollectInv /\ Balanced(Subtracted) /\ color \in [Node -> Colors]
  BY <1>1, PhaseFacts
<1>3. fresh \in SUBSET Node
  BY <1>2, ColorFacts
<1>4. /\ Followed(n, fresh) = SlotsOf({n} \cup E)
      /\ E \subseteq found /\ E \subseteq Children(n)
      /\ found \subseteq Node
      /\ \A m \in {n} \cup E : Children(m) \cap fresh \subseteq found
  BY <1>2, <1>3, VisitFound
<1>5. E \subseteq Array
  BY <1>2, <1>3, VisitFacts
<1>6. found \subseteq Colored("WHITE") /\ fresh = Colored("WHITE")
  OBVIOUS
<1> HIDE DEF fresh, E, found
<1>7. stack \subseteq Colored("BLACK") /\ Colored("BLACK") \cap Colored("WHITE") = {}
      /\ n \notin Colored("WHITE")
  BY <1>1, <1>2, ColorFacts DEF CollectInv
<1>8. /\ color' \in [Node -> Colors]
      /\ Colored("BLACK")' = Colored("BLACK") \cup found
      /\ Colored("WHITE")' = Colored("WHITE") \ found
  BY <1>1, <1>2, <1>4, PaintsBlack
<1>9. Added(n) \subseteq {n} \ Reference
  BY DEF Added
<1>10. TypeInv'
  <2>1. rc' \in [Node -> Int]
    BY <1>1, <1>2, <1>4, RefsTyped
  <2>2. roots' \subseteq Object \cup Array /\ garbage' \subseteq roots'
    BY <1>1, <1>2, <1>9, NodeAssumption DEF TypeInv
  <2>3. count' \in Int
    BY <1>1, <1>2 DEF TypeInv
  <2>4. flagged' \in BOOLEAN
    BY <1>1
  <2>5. QED BY <1>1, <1>2, <1>4, <1>8, <2>1, <2>2, <2>3, <2>4, HeapStays DEF TypeInv
<1>11. RefcountsExact'
  <2>1. Subtracted = Colored("WHITE") \cup stack
    BY <1>1, SubtractedIn
  <2>2. Subtracted' = Colored("WHITE")' \cup stack'
    BY <1>1 DEF Subtracted
  <2>3. Subtracted' \cup ({n} \cup E) = Subtracted
    BY <1>1, <1>4, <1>6, <1>8, <2>1, <2>2
  <2>4. ({n} \cup E) \cap Subtracted' = {}
    BY <1>1, <1>4, <1>6, <1>7, <1>8, <2>2
  <2>5. ASSUME NEW X, X = Subtracted', NEW k \in Node
        PROVE  rc'[k] = held[k] + Cardinality(Outside(X, k))
    <3>1. Balanced(X \cup ({n} \cup E))
      BY <1>2, <2>3, <2>5
    <3>2. ({n} \cup E) \cap X = {}
      BY <2>4, <2>5
    <3>3. AddRefs(SlotsOf({n} \cup E))[k] = held[k] + Cardinality(Outside(X, k))
      BY <1>2, <3>1, <3>2, GivenBalances
    <3>4. QED BY <1>1, <1>4, <3>3
  <2>6. QED BY <1>1, <2>5, BalancedNext
<1>12. LedTo(Colored("WHITE"), pending \cup stack)'
  <2> DEFINE V == {n} \cup E
             C == Colored("WHITE")
             C2 == Colored("WHITE") \ found
             From == pending \cup stack
             From2 == pending \cup stack'
  <2>1. LedTo(C, From)
    BY <1>2 DEF CollectInv
  <2>2. /\ C \in SUBSET Node
        /\ V \in SUBSET Node
        /\ C2 \in SUBSET C
        /\ From \subseteq From2 \cup V
        /\ C \ C2 \subseteq From2 \cup V
        /\ V \cap C2 = {}
        /\ \A m \in V : Children(m) \cap C \subseteq From2 \cup V
    BY <1>1, <1>3, <1>4, <1>6, <1>7
  <2> HIDE DEF V, From, From2, C, C2
  <2>3. LedTo(C2, From2)
    BY <2>1, <2>2, LedShrinks
  <2>4. C2 = Colored("WHITE")' /\ From2 = pending' \cup stack'
    BY <1>1, <1>8 DEF C2, From2
  <2>5. QED BY <1>1, <2>3, <2>4, CollectTrailNext
<1>13. PICK S \in SUBSET Node :
        Isolated(S) /\ roots \subseteq S /\ Colored("WHITE") \cup stack \subseteq S
  BY <1>1, <1>2 DEF CollectInv, Condemned
<1>14. n \notin freeing
  <2>1. held[n] = 0
    BY <1>1, <1>13 DEF Isolated
  <2>2. QED BY <1>2, <2>1 DEF TypeInv, HeapInv
<1>15. Condemned'
  <2>1. roots' \subseteq S /\ Colored("WHITE")' \cup stack' \subseteq S
    BY <1>1, <1>6, <1>8, <1>9, <1>13
  <2>2. Isolated(S)'
    BY <1>1, <1>13, HeapStays
  <2>3. QED BY <2>1, <2>2 DEF Condemned
<1>16. ASSUME NEW m \in (roots' \cap Colored("BLACK")') \ stack', m \notin {n} \cup E
       PROVE  m \in (roots \cap Colored("BLACK")) \ stack
  BY <1>1, <1>8, <1>9, <1>16
<1>17. ASSUME NEW m \in (roots' \cap Colored("BLACK")') \ stack'
       PROVE  Children(m) \cap Colored("WHITE")' = {}
  <2>1. CASE m \in {n} \cup E
    BY <1>4, <1>6, <1>8, <2>1
  <2>2. CASE m \notin {n} \cup E
    BY <1>2, <1>8, <1>16, <2>2 DEF CollectInv
  <2>3. QED BY <2>1, <2>2
<1>18. ASSUME NEW m \in ((roots' \cap HasDtor) \cap Colored("BLACK")') \ stack'
       PROVE  flagged'
  <2>1. CASE m = n
    BY <1>1, <1>14, <2>1
  <2>2. CASE m \in E
    BY <1>5, <2>2, NodeAssumption, ProgramAssumption
  <2>3. CASE m \notin {n} \cup E
    <3>1. m \in ((roots \cap HasDtor) \cap Colored("BLACK")) \ stack
      BY <1>16, <2>3
    <3>2. QED BY <1>1, <1>2, <3>1 DEF CollectInv
  <2>4. QED BY <2>1, <2>2, <2>3
<1>19. CollectInv'
  <2>1. \A m \in (roots' \cap Colored("BLACK")') \ stack' : Children(m)' \cap Colored("WHITE")' = {}
    BY <1>1, <1>17, HeapStays
  <2>2. Node \subseteq Colored("WHITE")' \cup Colored("BLACK")' /\ stack' \subseteq Colored("BLACK")'
    BY <1>1, <1>2, <1>8 DEF CollectInv
  <2>3. QED BY <1>1, <1>2, <1>15, <1>12, <1>18, <2>1, <2>2 DEF CollectInv
<1> QED BY <1>1, <1>10, <1>11, <1>19 DEF IInv

\* When the collecting is over nothing is white.
LEMMA AllCollected ==
  ASSUME IInv, phase = "collect", stack = {}, pending = {}
  PROVE  /\ Colored("WHITE") = {} /\ Colored("PURPLE") = {}
         /\ Node = Colored("BLACK")
         /\ Subtracted = {}
         /\ \A m \in roots \cap HasDtor : flagged
<1>1. TypeInv /\ CollectInv /\ color \in [Node -> Colors]
  BY PhaseFacts
<1>2. Colored("WHITE") = {}
  <2>1. pending \cup stack = {}
    OBVIOUS
  <2>2. LedTo(Colored("WHITE"), {})
    BY <1>1, <2>1 DEF CollectInv
  <2>3. QED BY <2>2, LedNowhere
<1>3. Node = Colored("BLACK") /\ Colored("PURPLE") = {}
  BY <1>1, <1>2, ColorFacts DEF CollectInv
<1>4. Subtracted = {}
  BY <1>2, SubtractedIn
<1>5. \A m \in roots \cap HasDtor : flagged
  <2>1. roots \subseteq Node
    BY <1>1, NodeAssumption DEF TypeInv
  <2>2. QED BY <1>1, <1>3, <2>1 DEF CollectInv
<1> QED BY <1>2, <1>3, <1>4, <1>5

LEMMA CollectDonePreserves ==
  ASSUME IInv, CollectDone
  PROVE  IInv'
<1>1. /\ phase = "collect" /\ phase' = "verdict" /\ stack = {} /\ pending = {}
      /\ roots = {} \/ ~flagged
      /\ UNCHANGED <<heap, held, freeing, room, rc, color, roots, garbage, dtors,
                     pending, stack, black, flagged, count>>
      /\ UNCHANGED <<program, rc>> /\ UNCHANGED program
  BY DEF CollectDone, program, buffer
<1>2. TypeInv /\ CollectInv /\ RefcountsExact
  BY <1>1, PhaseFacts
<1>3. TypeInv'
  BY <1>1, <1>2, HeapStays DEF TypeInv, Phases
<1>4. RefcountsExact'
  <2>1. Subtracted' = {}
    BY <1>1 DEF Subtracted
  <2>2. Subtracted = {}
    BY <1>1, AllCollected
  <2>3. QED BY <1>1, <1>2, <2>1, <2>2, BalanceStays
<1>5. Condemned'
  <2>1. PICK S \in SUBSET Node : Isolated(S) /\ roots \subseteq S
    BY <1>2 DEF CollectInv, Condemned
  <2>2. Isolated(S)'
    BY <1>1, <2>1, HeapStays
  <2>3. QED BY <1>1, <2>1, <2>2 DEF Condemned
<1>6. NestedInv'
  <2>1. garbage \cap HasDtor = {}
    BY <1>1, <1>2, AllCollected DEF TypeInv
  <2>2. \A c : Colored(c)' = Colored(c)
    BY <1>1 DEF Colored
  <2>3. QED BY <1>1, <1>2, <1>5, <2>1, <2>2, AllCollected DEF NestedInv, CollectInv
<1> QED BY <1>1, <1>3, <1>4, <1>6 DEF IInv

LEMMA TagDtorsPreserves ==
  ASSUME IInv, TagDtors
  PROVE  IInv'
<1> DEFINE called == garbage \cap HasDtor
<1>1. /\ phase = "collect" /\ phase' = "nested" /\ stack = {} /\ pending = {}
      /\ garbage' = garbage \ called
      /\ dtors' = called /\ pending' = called
      /\ color' = Paint(called, "PURPLE")
      /\ UNCHANGED <<heap, held, freeing, room, rc, roots, stack, black, flagged, count>>
      /\ UNCHANGED <<program, rc>> /\ UNCHANGED program
  BY DEF TagDtors, program
<1>2. TypeInv /\ CollectInv /\ RefcountsExact /\ color \in [Node -> Colors]
  BY <1>1, PhaseFacts
<1>3. called \subseteq roots \cap HasDtor /\ called \subseteq Node
  BY <1>2, NodeAssumption DEF TypeInv
<1>4. garbage' \cap HasDtor = {}
  BY <1>1
<1> HIDE DEF called
<1>5. /\ color' \in [Node -> Colors]
      /\ Colored("PURPLE")' = Colored("PURPLE") \cup called
      /\ Colored("BLACK")' = Colored("BLACK") \ called
  BY <1>1, <1>2, <1>3, PaintsPurple
<1>6. TypeInv'
  BY <1>1, <1>2, <1>3, <1>5, HeapStays DEF TypeInv, Phases
<1>7. RefcountsExact'
  <2>1. Subtracted' = {}
    BY <1>1 DEF Subtracted
  <2>2. Subtracted = {}
    BY <1>1, AllCollected
  <2>3. QED BY <1>1, <1>2, <2>1, <2>2, BalanceStays
<1>8. Condemned'
  <2>1. PICK S \in SUBSET Node : Isolated(S) /\ roots \subseteq S
    BY <1>2 DEF CollectInv, Condemned
  <2>2. Isolated(S)'
    BY <1>1, <2>1, HeapStays
  <2>3. QED BY <1>1, <2>1, <2>2 DEF Condemned
<1>9. NestedInv'
  BY <1>1, <1>3, <1>4, <1>5, <1>8, AllCollected DEF NestedInv
<1> QED BY <1>1, <1>6, <1>7, <1>9 DEF IInv

\* Taking black values out of the buffer keeps what is known of the rest.
LEMMA RemovePreserves ==
  ASSUME IInv, phase = "nested", phase' = "nested",
         UNCHANGED <<program, rc, color, black, flagged>>,
         NEW S, S \subseteq Colored("BLACK"), Remove(S),
         pending' \subseteq pending, stack' \subseteq Node, count' \in Int
  PROVE  IInv'
<1>1. TypeInv /\ NestedInv /\ RefcountsExact /\ color \in [Node -> Colors]
  BY PhaseFacts
<1>2. UNCHANGED <<program, rc>> /\ UNCHANGED program /\ UNCHANGED <<rc, color, black, flagged>>
  OBVIOUS
<1>3. \A c : Colored(c)' = Colored(c)
  BY <1>2 DEF Colored
<1>4. roots' = roots \ S /\ garbage' = garbage \ S /\ dtors' = dtors
  BY <1>1, ColorFacts DEF Remove, NestedInv
<1>5. dtors \cap S = {}
  BY <1>1, ColorFacts DEF NestedInv
<1>6. TypeInv'
  BY <1>1, <1>2, <1>4, <1>5, HeapStays DEF TypeInv, NestedInv
<1>7. RefcountsExact'
  <2>1. Subtracted' = {} /\ Subtracted = {}
    BY DEF Subtracted
  <2>2. QED BY <1>1, <1>2, <2>1, BalanceStays
<1>8. Condemned'
  <2>1. PICK W \in SUBSET Node : Isolated(W) /\ roots \subseteq W
    BY <1>1 DEF NestedInv, Condemned
  <2>2. Isolated(W)' /\ roots' \subseteq W
    BY <1>2, <1>4, <2>1, HeapStays
  <2>3. QED BY <2>1, <2>2 DEF Condemned
<1>9. NestedInv'
  BY <1>1, <1>3, <1>4, <1>8 DEF NestedInv
<1> QED BY <1>6, <1>7, <1>9 DEF IInv

LEMMA NestedTyped ==
  ASSUME TypeInv, NEW n
  PROVE  Nested(n) \subseteq Node
<1>1. \A m : \A s \in Fields(m) : heap[s] \in Node
  BY FieldsFacts
<1> QED BY <1>1 DEF Nested, Targets

LEMMA RemovableBlack ==
  ASSUME TypeInv, NEW S
  PROVE  Removable(S) \subseteq Colored("BLACK") /\ Removable(S) \subseteq S
BY NodeAssumption DEF TypeInv, Removable, Colored

LEMMA NestedRootPreserves ==
  ASSUME IInv, NEW p \in Node, NestedRoot(p)
  PROVE  IInv'
<1>1. /\ phase = "nested" /\ phase' = "nested"
      /\ pending' = pending \ {p}
      /\ Remove(Removable(TablesOf(p)))
      /\ stack' = Nested(p) /\ count' = count - 1
      /\ UNCHANGED <<program, rc, color, black, flagged>>
  BY DEF NestedRoot
<1>2. TypeInv
  BY PhaseFacts
<1>3. stack' \subseteq Node /\ count' \in Int
  BY <1>1, <1>2, NestedTyped DEF TypeInv
<1> QED BY <1>1, <1>2, <1>3, RemovableBlack, RemovePreserves

LEMMA NestedVisitPreserves ==
  ASSUME IInv, NEW n \in Node, NestedVisit(n)
  PROVE  IInv'
<1>1. /\ phase = "nested" /\ phase' = "nested"
      /\ n \in Removable(Node)
      /\ Remove({n} \cup Removable(TablesOf(n)))
      /\ stack' = (stack \ {n}) \cup Nested(n) /\ count' = count - 1
      /\ UNCHANGED <<program, rc, color, black, flagged>> /\ pending' = pending
  BY DEF NestedVisit
<1>2. TypeInv
  BY PhaseFacts
<1>3. stack' \subseteq Node /\ count' \in Int
  BY <1>1, <1>2, NestedTyped DEF TypeInv
<1>4. {n} \cup Removable(TablesOf(n)) \subseteq Colored("BLACK")
  BY <1>1, <1>2, RemovableBlack
<1> QED BY <1>1, <1>3, <1>4, RemovePreserves

LEMMA NestedPassPreserves ==
  ASSUME IInv, NEW n \in Node, NestedPass(n)
  PROVE  IInv'
<1>1. /\ phase = "nested" /\ phase' = "nested"
      /\ stack' = (stack \ {n}) \cup (IF n \in Reference THEN Children(n) ELSE {})
      /\ UNCHANGED <<program, rc, color, black, flagged>>
      /\ UNCHANGED <<roots, garbage, dtors, pending, count>>
  BY DEF NestedPass, buffer
<1>2. TypeInv
  BY PhaseFacts
<1>3. stack' \subseteq Node /\ count' \in Int
  BY <1>1, <1>2, FieldsFacts DEF TypeInv
<1>4. Remove({})
  BY <1>1 DEF Remove
<1>5. {} \subseteq Colored("BLACK") /\ pending' \subseteq pending
  BY <1>1
<1> QED BY <1>1, <1>3, <1>4, <1>5, RemovePreserves

LEMMA NestedDonePreserves ==
  ASSUME IInv, NestedDone
  PROVE  IInv'
<1>1. /\ phase = "nested" /\ phase' = "verdict"
      /\ UNCHANGED <<heap, held, freeing, room, rc, color, roots, garbage, dtors,
                     pending, stack, black, flagged, count>>
      /\ UNCHANGED <<program, rc>> /\ UNCHANGED program
  BY DEF NestedDone, program, buffer
<1>2. TypeInv /\ NestedInv /\ RefcountsExact
  BY <1>1, PhaseFacts
<1>3. TypeInv'
  BY <1>1, <1>2, HeapStays DEF TypeInv, Phases
<1>4. RefcountsExact'
  <2>1. Subtracted' = {} /\ Subtracted = {}
    BY <1>1 DEF Subtracted
  <2>2. QED BY <1>1, <1>2, <2>1, BalanceStays
<1>5. Condemned'
  <2>1. PICK S \in SUBSET Node : Isolated(S) /\ roots \subseteq S
    BY <1>2 DEF NestedInv, Condemned
  <2>2. Isolated(S)' /\ roots' \subseteq S
    BY <1>1, <2>1, HeapStays
  <2>3. QED BY <1>1, <2>1, <2>2 DEF Condemned
<1>6. NestedInv'
  BY <1>1, <1>2, <1>5 DEF NestedInv, Colored
<1> QED BY <1>1, <1>3, <1>4, <1>6 DEF IInv

-----------------------------------------------------------------------------
(* The theorems.                                                           *)

LEMMA InitEstablishes == Init => IInv
<1> SUFFICES ASSUME Init PROVE IInv
  OBVIOUS
<1>1. /\ HeapInv /\ held \in [Node -> Nat]
      /\ rc = [n \in Node |-> RefsTo(n)]
      /\ roots \subseteq Object \cup Array /\ roots \subseteq Node
      /\ color = [n \in Node |-> IF n \in roots THEN "PURPLE" ELSE "BLACK"]
      /\ garbage = {} /\ dtors = {} /\ phase = "mark" /\ pending = roots
      /\ stack = {} /\ black = {} /\ flagged = FALSE /\ count = 0
  BY NodeAssumption, ProgramAssumption DEF Init, HeapInv
<1>2. Colored("GREY") = {} /\ Colored("WHITE") = {} /\ Colored("PURPLE") = roots
  BY <1>1 DEF Colored
<1>3. rc \in [Node -> Int]
  <2>1. \A n \in Node : IsFiniteSet(Into(Slot, n))
    BY SlotAssumption, FS_Subset DEF Into
  <2>2. \A n \in Node : Cardinality(Into(Slot, n)) \in Nat
    BY <2>1, FS_CardinalityType
  <2>3. QED BY <1>1, <2>2 DEF RefsTo
<1>4. TypeInv
  <2>1. color \in [Node -> Colors]
    BY <1>1 DEF Colors
  <2>2. phase \in Phases /\ count \in Int
    BY <1>1 DEF Phases
  <2>3. QED BY <1>1, <1>3, <2>1, <2>2 DEF TypeInv
<1>5. RefcountsExact
  <2>1. Subtracted = {}
    BY <1>1, <1>2 DEF Subtracted
  <2>2. \A n \in Node : {s \in Slot : heap[s] = n /\ Owner[s] \notin {} \ freeing} = Into(Slot, n)
    BY DEF Into
  <2>3. QED BY <1>1, <2>1, <2>2 DEF RefcountsExact, RefsTo
<1>6. LedTo({}, roots \ pending)
  BY DEF LedTo
<1>7. MarkInv
  BY <1>1, <1>2, <1>6 DEF MarkInv
<1> QED BY <1>1, <1>4, <1>5, <1>7 DEF IInv

LEMMA StutterPreserves ==
  ASSUME IInv, UNCHANGED vars
  PROVE  IInv'
<1>1. /\ UNCHANGED <<heap, held, freeing, room, rc, color, roots, garbage, dtors, phase,
                     pending, stack, black, flagged, count>>
      /\ UNCHANGED program
  BY DEF vars, program
<1>2. \A c : Colored(c)' = Colored(c)
  BY <1>1 DEF Colored
<1>3. TypeInv' <=> TypeInv
  BY <1>1, HeapStays DEF TypeInv
<1>4. RefcountsExact' <=> RefcountsExact
  BY <1>1, <1>2 DEF RefcountsExact, Subtracted
<1>5. \A C, From : LedTo(C, From)' <=> LedTo(C, From)
  BY <1>1, HeapStays DEF LedTo
<1>6. MarkInv' <=> MarkInv
  BY <1>1, HeapStays DEF MarkInv, Colored, LedTo
<1>7. ScanInv => ScanInv'
  <2>1. ScanInv => CyclesStay'
    BY <1>1, <1>2, CyclesStayNext DEF ScanInv, CyclesStay
  <2>2. QED BY <1>1, <2>1, HeapStays DEF ScanInv, Colored, LedTo
<1>8. Condemned' <=> Condemned
  BY <1>1, HeapStays DEF Condemned, Colored
<1>9. CollectInv' <=> CollectInv
  BY <1>1, <1>8, HeapStays DEF CollectInv, Colored, LedTo
<1>10. NestedInv' <=> NestedInv
  BY <1>1, <1>8 DEF NestedInv, Colored
<1> QED BY <1>1, <1>3, <1>4, <1>6, <1>7, <1>9, <1>10 DEF IInv

\* The invariant holds in every state of a collection, whatever the heap, the
\* outside references, the roots and the buffer's capacity are.
THEOREM Inductive == Spec => []IInv
<1>1. IInv /\ [Next]_vars => IInv'
  <2> SUFFICES ASSUME IInv, [Next]_vars PROVE IInv'
    OBVIOUS
  <2>1. CASE MarkDone BY <2>1, MarkDonePreserves
  <2>2. CASE ScanDone BY <2>2, ScanDonePreserves
  <2>3. CASE CollectDone BY <2>3, CollectDonePreserves
  <2>4. CASE TagDtors BY <2>4, TagDtorsPreserves
  <2>5. CASE NestedDone BY <2>5, NestedDonePreserves
  <2>6. CASE Over BY <2>6, StutterPreserves DEF Over
  <2>7. ASSUME NEW n \in Node, MarkRoot(n) PROVE IInv' BY <2>7, MarkRootPreserves
  <2>8. ASSUME NEW n \in Node, MarkVisit(n) PROVE IInv' BY <2>8, MarkVisitPreserves
  <2>9. ASSUME NEW n \in Node, ScanRoot(n) PROVE IInv' BY <2>9, ScanRootPreserves
  <2>10. ASSUME NEW n \in Node, ScanSkip(n) PROVE IInv' BY <2>10, ScanSkipPreserves
  <2>11. ASSUME NEW n \in Node, ScanInUse(n) PROVE IInv' BY <2>11, ScanInUsePreserves
  <2>12. ASSUME NEW n \in Node, ScanWhite(n) PROVE IInv' BY <2>12, ScanWhitePreserves
  <2>13. ASSUME NEW n \in Node, BlackVisit(n) PROVE IInv' BY <2>13, BlackVisitPreserves
  <2>14. ASSUME NEW n \in Node, CollectRoot(n) PROVE IInv' BY <2>14, CollectRootPreserves
  <2>15. ASSUME NEW n \in Node, CollectVisit(n) PROVE IInv' BY <2>15, CollectVisitPreserves
  <2>16. ASSUME NEW n \in Node, NestedRoot(n) PROVE IInv' BY <2>16, NestedRootPreserves
  <2>17. ASSUME NEW n \in Node, NestedVisit(n) PROVE IInv' BY <2>17, NestedVisitPreserves
  <2>18. ASSUME NEW n \in Node, NestedPass(n) PROVE IInv' BY <2>18, NestedPassPreserves
  <2>19. CASE UNCHANGED vars BY <2>19, StutterPreserves
  <2> QED BY <2>1, <2>2, <2>3, <2>4, <2>5, <2>6, <2>7, <2>8, <2>9, <2>10, <2>11, <2>12,
             <2>13, <2>14, <2>15, <2>16, <2>17, <2>18, <2>19 DEF Next
<1> QED BY InitEstablishes, <1>1, PTL DEF Spec

\* Every variable keeps its type; no count is ever taken below zero by the
\* GC_DELREF of gc_mark_grey.
THEOREM TypeCorrect == Spec => []TypeOK
<1>1. IInv => TypeOK
  <2> SUFFICES ASSUME IInv PROVE TypeOK
    OBVIOUS
  <2>1. TypeInv /\ Balanced(Subtracted)
    BY PhaseFacts
  <2>2. \A n \in Node : rc[n] \in Nat
    <3>1. SUFFICES ASSUME NEW n \in Node PROVE rc[n] \in Nat
      OBVIOUS
    <3>2. rc[n] = held[n] + Cardinality(Outside(Subtracted, n)) /\ held[n] \in Nat
      BY <2>1, ProgramAssumption DEF Balanced, TypeInv, HeapInv
    <3>3. Cardinality(Outside(Subtracted, n)) \in Nat
      BY <2>1, CountMoves, Subtracted \cap {} = {}
    <3>4. QED BY <3>2, <3>3
  <2>3. rc \in [Node -> Nat]
    BY <2>1, <2>2 DEF TypeInv
  <2>4. QED BY <2>1, <2>3, NodeAssumption DEF TypeInv, TypeOK
<1> QED BY <1>1, Inductive, PTL

\* In every phase the counts are those of the beginning less the references
\* of the values subtracted: the collector gives back all that it takes.
THEOREM RefcountsCorrect == Spec => []RefcountsExact
<1>1. IInv => RefcountsExact
  BY DEF IInv
<1> QED BY <1>1, Inductive, PTL

\* What is tagged for destruction lies in a set of values that nothing
\* outside of it refers to.
THEOREM OnlyUnreachableTagged == Spec => []GarbageUnreachable
<1>1. IInv => GarbageUnreachable
  <2> SUFFICES ASSUME IInv, NEW n \in garbage \cup dtors
               PROVE  Unreachable(n)
    BY DEF GarbageUnreachable
  <2>1. TypeInv /\ n \in roots
    BY PhaseFacts DEF TypeInv
  <2>2. Condemned
    BY <2>1, PhaseFacts DEF MarkInv, ScanInv, CollectInv, NestedInv, TypeInv, Phases
  <2>3. QED BY <2>1, <2>2 DEF Condemned, Unreachable
<1> QED BY <1>1, Inductive, PTL

\* The roots that gc_collect_roots drops are in use.
THEOREM OnlyUsedForgotten == Spec => ForgetsOnlyUsedRoots
<1> DEFINE Step == phase = "scan" =>
             \A r \in roots \ roots' :
                ~ \E S \in SUBSET Node :
                    r \in S /\ Isolated(S) /\ \A n \in S : Reaches(roots, n)
<1>1. IInv /\ [Next]_vars => [Step]_vars
  <2> SUFFICES ASSUME IInv, Next, phase = "scan", NEW r \in roots \ roots',
                      NEW S \in SUBSET Node, r \in S, Isolated(S),
                      \A n \in S : Reaches(roots, n)
               PROVE  FALSE
    OBVIOUS
  <2>1. ScanInv /\ color \in [Node -> Colors]
    BY PhaseFacts
  <2>2. roots' = roots \ Colored("BLACK")
    <3>1. ScanDone => roots' = roots \ Colored("BLACK")
      BY DEF ScanDone
    <3>2. ASSUME ~ScanDone PROVE roots' = roots
      BY <3>2 DEF Next, MarkDone, CollectDone, TagDtors, NestedDone, Over, MarkRoot,
                  MarkVisit, ScanRoot, ScanSkip, ScanInUse, ScanWhite, BlackVisit,
                  CollectRoot, CollectVisit, NestedRoot, NestedVisit, NestedPass, buffer
    <3>3. QED BY <3>1, <3>2
  <2>3. r \in Colored("BLACK")
    BY <2>2
  <2>4. S \subseteq Colored("GREY") \cup Colored("WHITE")
    BY <2>1 DEF ScanInv, CyclesStay
  <2>5. QED BY <2>1, <2>3, <2>4, ColorFacts
<1> QED BY <1>1, Inductive, PTL DEF Spec, ForgetsOnlyUsedRoots

\* When the collection is over every value is black again, but for the
\* objects whose destructor is to be called.
THEOREM ColorsCorrect == Spec => []ColorsRestored
<1>1. IInv => ColorsRestored
  <2> SUFFICES ASSUME IInv, phase = "verdict"
               PROVE  color = [n \in Node |-> IF n \in dtors THEN "PURPLE" ELSE "BLACK"]
    BY DEF ColorsRestored
  <2>1. NestedInv /\ color \in [Node -> Colors]
    BY PhaseFacts
  <2>2. \A n \in Node : color[n] = IF n \in dtors THEN "PURPLE" ELSE "BLACK"
    BY <2>1, ColorFacts DEF NestedInv
  <2>3. QED BY <2>1, <2>2
<1> QED BY <1>1, Inductive, PTL

\* No object is freed whose destructor is still to be called.
THEOREM NoneUndestructed == Spec => []NoneFreedUndestructed
<1>1. IInv => NoneFreedUndestructed
  BY PhaseFacts DEF NoneFreedUndestructed, NestedInv
<1> QED BY <1>1, Inductive, PTL

\* The collector gives back what it borrows.
THEOREM AllRestored == Spec => []Restored
<1>1. RefcountsExact /\ ColorsRestored => Restored
  BY DEF Restored
<1> QED BY <1>1, RefcountsCorrect, ColorsCorrect, PTL

-----------------------------------------------------------------------------
(* Every collection ends: each step goes down.                             *)

\* A visit of the marking, of gc_collect_white or of gc_scan_black: what it
\* finds is what it recolors, and where it finds nothing the stack is shorter.
LEMMA VisitDown ==
  ASSUME IInv, NEW n, NEW found, NEW pushed, pushed \subseteq found,
         phase' = phase, Same(pending),
         \/ found = {} /\ Same(ToChange)
         \/ Shrinks(ToChange),
         \/ n \in stack /\ stack' = (stack \ {n}) \cup pushed /\ black' = black
         \/ n \in black /\ black' = (black \ {n}) \cup pushed /\ stack' = stack
  PROVE  Down
<1>1. CASE Shrinks(ToChange) BY <1>1 DEF Down
<1>2. CASE found = {} /\ Same(ToChange)
  <2>1. pushed = {} BY <1>2
  <2>2. Shrinks(Waiting) /\ stack' \subseteq stack
    <3>1. CASE n \in stack /\ stack' = (stack \ {n}) \cup pushed /\ black' = black
      <4>1. stack' = stack \ {n} BY <2>1, <3>1
      <4>2. <<n, "stack">> \in Waiting /\ <<n, "stack">> \notin Waiting'
        BY <3>1, <4>1 DEF Waiting
      <4>3. Waiting' \subseteq Waiting BY <3>1, <4>1 DEF Waiting
      <4> QED BY <4>1, <4>2, <4>3 DEF Shrinks
    <3>2. CASE n \in black /\ black' = (black \ {n}) \cup pushed /\ stack' = stack
      <4>1. black' = black \ {n} BY <2>1, <3>2
      <4>2. <<n, "black">> \in Waiting /\ <<n, "black">> \notin Waiting'
        BY <3>2, <4>1 DEF Waiting
      <4>3. Waiting' \subseteq Waiting BY <3>2, <4>1 DEF Waiting
      <4> QED BY <3>2, <4>2, <4>3 DEF Shrinks
    <3> QED BY <3>1, <3>2
  <2>3. Shrinks(stack \cap Reference) \/ Same(stack \cap Reference)
    BY <2>2 DEF Shrinks, Same
  <2> QED BY <1>2, <2>2, <2>3 DEF Down
<1> QED BY <1>1, <1>2

\* What is painted leaves ToChange, or goes down in it.
LEMMA ToChangeIs ==
  /\ phase = "mark" => ToChange = (Node \ Colored("GREY")) \X {"grey"}
  /\ phase = "scan" => ToChange = Colored("GREY") \X {"white"}
                                  \cup (Node \ Colored("BLACK")) \X {"black"}
  /\ phase = "collect" => ToChange = Colored("WHITE") \X {"black"}
  /\ phase = "nested" => ToChange = roots \X {"removed"}
BY DEF ToChange

LEMMA SmallerProduct ==
  ASSUME NEW A, NEW B, NEW t, B \subseteq A
  PROVE  /\ B \X {t} \subseteq A \X {t}
         /\ B # A => B \X {t} # A \X {t}
<1>1. B \X {t} \subseteq A \X {t} OBVIOUS
<1>2. ASSUME NEW x \in A, x \notin B PROVE B \X {t} # A \X {t}
  <2>1. <<x, t>> \in A \X {t} /\ <<x, t>> \notin B \X {t} BY <1>2
  <2> QED BY <2>1
<1> QED BY <1>1, <1>2

LEMMA MarkChanges ==
  ASSUME color \in [Node -> Colors], phase = "mark", phase' = "mark",
         NEW S, S \subseteq Node \ Colored("GREY"), color' = Paint(S, "GREY")
  PROVE  (S = {} /\ Same(ToChange)) \/ Shrinks(ToChange)
<1>1. Colored("GREY")' = Colored("GREY") \cup S BY PaintsGrey
<1> DEFINE A == Node \ Colored("GREY")
           B == Node \ (Colored("GREY") \cup S)
<1>2. ToChange = A \X {"grey"} BY ToChangeIs
<1>3. ToChange' = B \X {"grey"} BY <1>1 DEF ToChange
<1>4. B \subseteq A /\ (S = {} => B = A) /\ (S # {} => B # A) OBVIOUS
<1> HIDE DEF A, B
<1> QED BY <1>2, <1>3, <1>4, SmallerProduct DEF Same, Shrinks

LEMMA CollectChanges ==
  ASSUME color \in [Node -> Colors], phase = "collect", phase' = "collect",
         NEW S, S \subseteq Colored("WHITE"), color' = Paint(S, "BLACK")
  PROVE  (S = {} /\ Same(ToChange)) \/ Shrinks(ToChange)
<1>1. Colored("WHITE")' = Colored("WHITE") \ S
  BY PaintsBlack DEF Colored
<1> DEFINE A == Colored("WHITE")
           B == Colored("WHITE") \ S
<1>2. ToChange = A \X {"black"} BY ToChangeIs
<1>3. ToChange' = B \X {"black"} BY <1>1 DEF ToChange
<1>4. B \subseteq A /\ (S = {} => B = A) /\ (S # {} => B # A) OBVIOUS
<1> HIDE DEF A, B
<1> QED BY <1>2, <1>3, <1>4, SmallerProduct DEF Same, Shrinks

LEMMA WhiteChanges ==
  ASSUME color \in [Node -> Colors], phase = "scan", phase' = "scan",
         NEW S, S \subseteq Colored("GREY"), color' = Paint(S, "WHITE")
  PROVE  (S = {} /\ Same(ToChange)) \/ Shrinks(ToChange)
<1>1. S \subseteq Node /\ S \cap Colored("BLACK") = {}
  BY DEF Colored
<1>2. /\ Colored("GREY")' = Colored("GREY") \ S
      /\ Colored("BLACK")' = Colored("BLACK")
  BY <1>1, PaintsWhite
<1> DEFINE A == Colored("GREY")
           B == Colored("GREY") \ S
           C == (Node \ Colored("BLACK")) \X {"black"}
<1>3. ToChange = A \X {"white"} \cup C BY ToChangeIs
<1>4. ToChange' = B \X {"white"} \cup C BY <1>2 DEF ToChange
<1>5. B \subseteq A /\ (S = {} => B = A) OBVIOUS
<1>6. ASSUME NEW x \in S PROVE <<x, "white">> \in ToChange /\ <<x, "white">> \notin ToChange'
  BY <1>3, <1>4
<1> HIDE DEF A, B, C
<1> QED BY <1>3, <1>4, <1>5, <1>6, SmallerProduct DEF Same, Shrinks

LEMMA BlackChanges ==
  ASSUME color \in [Node -> Colors], phase = "scan", phase' = "scan",
         NEW S, S \subseteq Node \ Colored("BLACK"), color' = Paint(S, "BLACK")
  PROVE  (S = {} /\ Same(ToChange)) \/ Shrinks(ToChange)
<1>1. /\ Colored("GREY")' = Colored("GREY") \ S
      /\ Colored("BLACK")' = Colored("BLACK") \cup S
  BY PaintsBlack
<1> DEFINE A == Node \ Colored("BLACK")
           B == Node \ (Colored("BLACK") \cup S)
           C == Colored("GREY")
           D == Colored("GREY") \ S
<1>2. ToChange = C \X {"white"} \cup A \X {"black"} BY ToChangeIs
<1>3. ToChange' = D \X {"white"} \cup B \X {"black"} BY <1>1 DEF ToChange
<1>4. B \subseteq A /\ D \subseteq C /\ (S = {} => B = A /\ C = D) OBVIOUS
<1>5. ASSUME NEW x \in S PROVE <<x, "black">> \in ToChange /\ <<x, "black">> \notin ToChange'
  BY <1>2, <1>3
<1> HIDE DEF A, B, C, D
<1> QED BY <1>2, <1>3, <1>4, <1>5, SmallerProduct DEF Same, Shrinks

LEMMA MarkVisitDown ==
  ASSUME IInv, NEW n \in Node, MarkVisit(n)
  PROVE  Down
<1> DEFINE fresh == Node \ Colored("GREY")
           found == Targets(Followed(n, fresh)) \cap fresh
           pushed == found \ Expanded(n, fresh)
<1>1. /\ phase = "mark" /\ phase' = "mark" /\ n \in stack
      /\ color' = Paint(found, "GREY")
      /\ stack' = (stack \ {n}) \cup pushed
      /\ pending' = pending /\ black' = black
  BY DEF MarkVisit
<1>2. color \in [Node -> Colors] BY PhaseFacts
<1>3. found \subseteq fresh /\ pushed \subseteq found OBVIOUS
<1> HIDE DEF found, pushed
<1>4. (found = {} /\ Same(ToChange)) \/ Shrinks(ToChange)
  BY <1>1, <1>2, <1>3, MarkChanges
<1> QED BY <1>1, <1>3, <1>4, VisitDown DEF Same

LEMMA CollectVisitDown ==
  ASSUME IInv, NEW n \in Node, CollectVisit(n)
  PROVE  Down
<1> DEFINE fresh == Colored("WHITE")
           found == Targets(Followed(n, fresh)) \cap fresh
           pushed == found \ Expanded(n, fresh)
<1>1. /\ phase = "collect" /\ phase' = "collect" /\ n \in stack
      /\ color' = Paint(found, "BLACK")
      /\ stack' = (stack \ {n}) \cup pushed
      /\ pending' = pending /\ black' = black
  BY DEF CollectVisit
<1>2. color \in [Node -> Colors] BY PhaseFacts
<1>3. found \subseteq fresh /\ pushed \subseteq found OBVIOUS
<1> HIDE DEF found, pushed
<1>4. (found = {} /\ Same(ToChange)) \/ Shrinks(ToChange)
  BY <1>1, <1>2, <1>3, CollectChanges
<1> QED BY <1>1, <1>3, <1>4, VisitDown DEF Same

LEMMA ScanWhiteDown ==
  ASSUME IInv, NEW n \in Node, ScanWhite(n)
  PROVE  Down
<1> DEFINE fresh == Colored("GREY")
           found == Targets(Followed(n, fresh)) \cap fresh
<1>1. /\ phase = "scan" /\ phase' = "scan" /\ n \in stack
      /\ color' = Paint(found, "WHITE")
      /\ stack' = (stack \ {n}) \cup found
      /\ pending' = pending /\ black' = black
  BY DEF ScanWhite
<1>2. color \in [Node -> Colors] BY PhaseFacts
<1>3. found \subseteq fresh OBVIOUS
<1> HIDE DEF found
<1>4. (found = {} /\ Same(ToChange)) \/ Shrinks(ToChange)
  BY <1>1, <1>2, <1>3, WhiteChanges
<1> QED BY <1>1, <1>3, <1>4, VisitDown DEF Same

LEMMA BlackVisitDown ==
  ASSUME IInv, NEW n \in Node, BlackVisit(n)
  PROVE  Down
<1> DEFINE fresh == Node \ Colored("BLACK")
           found == Targets(Followed(n, fresh)) \cap fresh
           pushed == found \ Expanded(n, fresh)
<1>1. /\ phase = "scan" /\ phase' = "scan" /\ n \in black
      /\ color' = Paint(found, "BLACK")
      /\ black' = (black \ {n}) \cup pushed
      /\ pending' = pending /\ stack' = stack
  BY DEF BlackVisit
<1>2. color \in [Node -> Colors] BY PhaseFacts
<1>3. found \subseteq fresh /\ pushed \subseteq found OBVIOUS
<1> HIDE DEF found, pushed
<1>4. (found = {} /\ Same(ToChange)) \/ Shrinks(ToChange)
  BY <1>1, <1>2, <1>3, BlackChanges
<1> QED BY <1>1, <1>3, <1>4, VisitDown DEF Same

LEMMA ScanSkipDown ==
  ASSUME IInv, NEW n \in Node, ScanSkip(n)
  PROVE  Down
<1>1. /\ phase = "scan" /\ phase' = "scan" /\ n \in stack
      /\ stack' = (stack \ {n}) \cup {}
      /\ pending' = pending /\ black' = black /\ color' = color
  BY DEF ScanSkip
<1>2. Same(ToChange) BY <1>1 DEF Same, ToChange, Colored
<1> QED BY <1>1, <1>2, VisitDown DEF Same

LEMMA ScanInUseDown ==
  ASSUME IInv, NEW n \in Node, ScanInUse(n)
  PROVE  Down
<1>1. /\ phase = "scan" /\ phase' = "scan" /\ color[n] = "WHITE"
      /\ color' = Paint({n}, "BLACK") /\ pending' = pending
  BY DEF ScanInUse
<1>2. color \in [Node -> Colors] BY PhaseFacts
<1>3. {n} \subseteq Node \ Colored("BLACK") BY <1>1 DEF Colored
<1>4. Shrinks(ToChange) BY <1>1, <1>2, <1>3, BlackChanges, {n} # {}
<1> QED BY <1>1, <1>4 DEF Down, Same

\* A reference that the last phase passes gives way to what it refers to, which
\* is not a reference.
LEMMA NestedPassDown ==
  ASSUME IInv, NEW n \in Node, NestedPass(n)
  PROVE  Down
<1>1. /\ phase = "nested" /\ phase' = "nested" /\ n \in stack
      /\ stack' = (stack \ {n}) \cup (IF n \in Reference THEN Children(n) ELSE {})
      /\ pending' = pending /\ black' = black /\ roots' = roots
  BY DEF NestedPass, buffer
<1>2. Same(ToChange) /\ Same(pending) BY <1>1 DEF Same, ToChange
<1>3. CASE n \in Reference
  <2>1. Children(n) \cap Reference = {}
    BY <1>3, PhaseFacts DEF TypeInv, HeapInv, Children, Targets, Fields
  <2>2. Shrinks(stack \cap Reference) BY <1>1, <1>3, <2>1 DEF Shrinks
  <2> QED BY <1>1, <1>2, <2>2 DEF Down
<1>4. CASE n \notin Reference
  <2>1. stack' = (stack \ {n}) \cup {} BY <1>1, <1>4
  <2> QED BY <1>1, <1>2, <2>1, VisitDown
<1> QED BY <1>3, <1>4

LEMMA NestedVisitDown ==
  ASSUME IInv, NEW n \in Node, NestedVisit(n)
  PROVE  Down
<1>1. /\ phase = "nested" /\ phase' = "nested" /\ pending' = pending
      /\ n \in roots /\ n \notin roots' /\ roots' \subseteq roots
  BY DEF NestedVisit, Remove, Removable
<1> DEFINE A == roots
           B == roots'
<1>2. ToChange = A \X {"removed"} /\ ToChange' = B \X {"removed"}
  BY <1>1 DEF ToChange
<1>3. B \subseteq A /\ B # A BY <1>1
<1> HIDE DEF A, B
<1>4. Shrinks(ToChange) BY <1>2, <1>3, SmallerProduct DEF Shrinks
<1> QED BY <1>1, <1>4 DEF Down, Same

\* For every heap, every set of roots and every room in the buffer a collection
\* has an end: no value changes its color twice in a phase, nothing is pushed
\* again and again.
THEOREM AlwaysDown == Spec => StepsDown
<1>1. IInv /\ [Next]_vars => [Down]_vars
  <2> SUFFICES ASSUME IInv, Next, vars' # vars PROVE Down
    OBVIOUS
  <2>1. CASE MarkDone \/ ScanDone \/ CollectDone \/ TagDtors \/ NestedDone
    BY <2>1 DEF MarkDone, ScanDone, CollectDone, TagDtors, NestedDone, Down, Order, Phases
  <2>2. ~Over BY DEF Over
  <2>3. ASSUME NEW n \in Node, MarkRoot(n) \/ ScanRoot(n) \/ CollectRoot(n) \/ NestedRoot(n)
        PROVE  Down
    BY <2>3 DEF MarkRoot, ScanRoot, CollectRoot, NestedRoot, Down, Shrinks
  <2>4. ASSUME NEW n \in Node,
               MarkVisit(n) \/ ScanSkip(n) \/ ScanInUse(n) \/ ScanWhite(n) \/ BlackVisit(n)
        PROVE  Down
    BY <2>4, MarkVisitDown, ScanSkipDown, ScanInUseDown, ScanWhiteDown, BlackVisitDown
  <2>5. ASSUME NEW n \in Node, CollectVisit(n) \/ NestedVisit(n) \/ NestedPass(n)
        PROVE  Down
    BY <2>5, CollectVisitDown, NestedVisitDown, NestedPassDown
  <2> QED BY <2>1, <2>2, <2>3, <2>4, <2>5 DEF Next
<1> QED BY <1>1, Inductive, PTL DEF Spec, StepsDown

-----------------------------------------------------------------------------
(* What becomes of everything that is condemned.                           *)

\* The heap, and what is said of it alone, stands still.
LEMMA ProgramStays ==
  ASSUME UNCHANGED program
  PROVE  /\ \A n : RefsTo(n)' = RefsTo(n)
         /\ Fits' <=> Fits
         /\ NoTables' <=> NoTables
         /\ Unshared' <=> Unshared
         /\ \A n : Lead(n)' = Lead(n)
         /\ \A S : TablesIn(S)' = TablesIn(S)
<1>1. UNCHANGED <<heap, held, freeing, room>>
  BY DEF program
<1>2. \A n : RefsTo(n)' = RefsTo(n)
  BY <1>1 DEF RefsTo, Into
<1>3. Fits' <=> Fits
  BY <1>1, <1>2 DEF Fits
<1>4. (NoTables' <=> NoTables) /\ (Unshared' <=> Unshared)
  BY <1>1, <1>2 DEF NoTables, Unshared, RefsTo, Into
<1>5. \A n : Fields(n)' = Fields(n)
  BY <1>1 DEF Fields
<1>6. \A n : TablesOf(n)' = TablesOf(n)
  BY <1>1, <1>5 DEF TablesOf
<1>7. \A n : Nested(n)' = Nested(n)
  BY <1>1, <1>5, <1>6 DEF Nested, Targets
<1>8. \A n : Lead(n)' = Lead(n)
  BY <1>6, <1>7 DEF Lead
<1>9. \A S : TablesIn(S)' = TablesIn(S)
  BY <1>1 DEF TablesIn
<1> QED BY <1>2, <1>3, <1>4, <1>8, <1>9

LEMMA WholeStays ==
  ASSUME UNCHANGED program
  PROVE  \A W : Whole(W)' <=> Whole(W)
BY HeapStays DEF Whole, Reaches

LEMMA ReachesMore ==
  ASSUME NEW From, NEW More, From \subseteq More, NEW n, Reaches(From, n)
  PROVE  Reaches(More, n)
BY DEF Reaches

\* CollectExact in the next state, said of this heap.
LEMMA CollectNext ==
  ASSUME UNCHANGED program,
         NEW R, R = roots', NEW K, K = stack', NEW C, C = Colored("WHITE")',
         NEW B, B = Colored("BLACK")',
         NEW W \in SUBSET Node, Isolated(W), Whole(W),
         R \cup C \cup K \subseteq W,
         Fits => W \subseteq R \cup TablesIn(R) \cup Reference \cup C \cup K,
         R \ pending' \subseteq garbage',
         \A n \in R \cup K : RefsTo(n) > 0,
         Fits /\ NoTables => count' = Cardinality((R \cap B) \ K)
  PROVE  CollectExact'
<1>1. Isolated(W)' /\ Whole(W)'
  BY HeapStays, WholeStays
<1>2. TablesIn(roots)' = TablesIn(R)
  BY DEF TablesIn, program
<1>3. (Fits' <=> Fits) /\ (NoTables' <=> NoTables) /\ \A n : RefsTo(n)' = RefsTo(n)
  BY ProgramStays
<1>4. \E X \in SUBSET Node :
          /\ Isolated(X)' /\ Whole(X)'
          /\ roots' \cup Colored("WHITE")' \cup stack' \subseteq X
          /\ Fits' => X \subseteq roots' \cup TablesIn(roots)' \cup Reference
                                \cup Colored("WHITE")' \cup stack'
  BY <1>1, <1>2, <1>3
<1> QED BY <1>3, <1>4 DEF CollectExact

\* What a slot holds is referred to.
LEMMA TargetsHeld ==
  ASSUME TypeInv, NEW s \in Slot, heap[s] \in Node
  PROVE  RefsTo(heap[s]) > 0
<1>1. s \in Into(Slot, heap[s])
  BY DEF Into
<1>2. IsFiniteSet(Into(Slot, heap[s]))
  BY SlotAssumption, FS_Subset DEF Into
<1>3. Cardinality(Into(Slot, heap[s])) \in Nat /\ Cardinality(Into(Slot, heap[s])) # 0
  BY <1>1, <1>2, FS_CardinalityType, FS_EmptySet
<1>4. held[heap[s]] \in Nat
  BY ProgramAssumption DEF TypeInv, HeapInv
<1> HIDE DEF Into
<1> QED BY <1>3, <1>4 DEF RefsTo

LEMMA SetsFinite ==
  ASSUME TypeInv
  PROVE  /\ IsFiniteSet(roots) /\ Cardinality(roots) \in Nat /\ room \in Nat
         /\ \A S : S \subseteq roots => IsFiniteSet(S) /\ Cardinality(S) \in Nat
<1>1. roots \subseteq Node
  BY NodeAssumption DEF TypeInv
<1>2. \A S : S \subseteq roots => IsFiniteSet(S)
  BY <1>1, NodeAssumption, FS_Subset
<1>3. IsFiniteSet(roots)
  BY <1>2
<1>4. room \in Nat
  BY ProgramAssumption DEF TypeInv, HeapInv
<1> QED BY <1>2, <1>3, <1>4, FS_CardinalityType

\* As long as the buffer can hold every value there is a slot for the next.
LEMMA RoomLeft ==
  ASSUME TypeInv, Fits, NEW n \in Node \ (Reference \cup roots),
         RefsTo(n) > 0, \A m \in roots : RefsTo(m) > 0
  PROVE  Cardinality(roots) < room
<1> DEFINE All == {m \in Object \cup Array : RefsTo(m) > 0}
           More == roots \cup {n}
<1>1. n \in Object \cup Array /\ roots \subseteq Object \cup Array
  BY NodeAssumption DEF TypeInv
<1>2. More \subseteq All
  BY <1>1
<1>3. IsFiniteSet(All)
  BY NodeAssumption, FS_Subset
<1>4. Cardinality(More) <= Cardinality(All) /\ Cardinality(All) \in Nat
  BY <1>2, <1>3, FS_Subset, FS_CardinalityType
<1>5. Cardinality(More) = Cardinality(roots) + 1
  BY SetsFinite, FS_AddElement
<1>6. Cardinality(All) <= room
  BY DEF Fits
<1> HIDE DEF All, More
<1> QED BY <1>4, <1>5, <1>6, SetsFinite

\* What is white when the scan ends is all that only the white values, and
\* hence only the roots, lead to (CyclesStay).
LEMMA ScanDoneExact ==
  ASSUME IInv, TraceInv, ScanDone
  PROVE  TraceInv'
<1>1. /\ phase = "scan" /\ phase' = "collect" /\ stack = {} /\ black = {} /\ pending = {}
      /\ roots' = roots \ Colored("BLACK") /\ pending' = roots'
      /\ UNCHANGED program /\ color' = color /\ stack' = {} /\ count' = count
  BY DEF ScanDone, program
<1>2. TypeInv /\ ScanInv /\ Balanced(Subtracted) /\ color \in [Node -> Colors]
  BY <1>1, PhaseFacts
<1> DEFINE W == Colored("WHITE")
<1>3. \A c : Colored(c)' = Colored(c)
  BY <1>1 DEF Colored
<1>4. Colored("GREY") = {}
  <2>1. LedTo(Colored("GREY"), {})
    BY <1>1, <1>2, pending \cup stack \cup black = {} DEF ScanInv
  <2> QED BY <2>1, LedNowhere
<1>5. W \in SUBSET Node /\ roots' = roots \cap W
  BY <1>1, <1>2, <1>4, ColorFacts, NodeAssumption DEF ScanInv, TypeInv
<1>6. Isolated(W)
  <2>1. Subtracted = W
    BY <1>1, <1>4, SubtractedIn
  <2>2. ASSUME NEW n \in W
        PROVE  held[n] = 0 /\ \A s \in Slot : heap[s] = n => Owner[s] \in W \ freeing
    <3>1. n \in Node /\ rc[n] = 0
      BY <1>1, <1>2, ColorFacts DEF ScanInv
    <3> QED BY <1>2, <2>1, <3>1, ZeroIsIsolated
  <2> QED BY <2>2 DEF Isolated
<1>7. Whole(W)
  <2> SUFFICES ASSUME NEW S \in SUBSET Node, Isolated(S), NEW m \in S, \A n \in S : Reaches(W, n)
               PROVE  m \in W
    BY DEF Whole
  <2>1. LedTo(W, roots \cap W)
    BY <1>1, <1>2, (roots \cap W) \cup black = roots \cap W DEF ScanInv
  <2>2. ASSUME NEW n \in S PROVE Reaches(roots, n)
    <3> SUFFICES ASSUME NEW T \in SUBSET Node, roots \subseteq T, \A k \in T : Children(k) \subseteq T
                 PROVE  n \in T
      BY DEF Reaches
    <3>1. W \subseteq T
      <4>1. roots \cap W \subseteq T /\ \A k \in T : Children(k) \cap W \subseteq T
        OBVIOUS
      <4> HIDE DEF W
      <4> QED BY <2>1, <4>1 DEF LedTo
    <3>2. Reaches(W, n)
      OBVIOUS
    <3> HIDE DEF W
    <3> QED BY <3>1, <3>2 DEF Reaches
  <2>3. S \subseteq Colored("GREY") \cup Colored("WHITE")
    BY <1>2, <2>2 DEF ScanInv, CyclesStay
  <2> QED BY <1>4, <2>3
<1>8. count = 0 /\ \A n \in roots : RefsTo(n) > 0
  BY <1>1 DEF TraceInv
<1>9. CollectExact'
  <2> DEFINE R == roots'
             K == stack'
             C == Colored("WHITE")'
             B == Colored("BLACK")'
  <2>1. R \cup C \cup K \subseteq W /\ W \subseteq C
    BY <1>1, <1>3, <1>5
  <2>2. \A n \in R \cup K : RefsTo(n) > 0
    BY <1>1, <1>5, <1>8
  <2>3. count' = Cardinality((R \cap B) \ K)
    <3>1. (R \cap B) \ K = {}
      BY <1>1, <1>2, <1>3, <1>5, ColorFacts
    <3> QED BY <1>1, <1>8, <3>1, FS_EmptySet
  <2>4. R \ pending' \subseteq garbage'
    BY <1>1
  <2>5. UNCHANGED program /\ R = roots' /\ K = stack' /\ C = Colored("WHITE")' /\ B = Colored("BLACK")'
    BY <1>1
  <2> HIDE DEF R, K, C, B, W
  <2> QED BY <1>5, <1>6, <1>7, <2>1, <2>2, <2>3, <2>4, <2>5, CollectNext
<1> QED BY <1>1, <1>9 DEF TraceInv

\* Marking and scanning move counts and colours only.
LEMMA MarkScanExact ==
  ASSUME TraceInv, UNCHANGED <<program, roots, count>>,
         phase \in {"mark", "scan"}, phase' \in {"mark", "scan"}
  PROVE  TraceInv'
<1>1. UNCHANGED program /\ roots' = roots /\ count' = count
  OBVIOUS
<1>2. \A n : RefsTo(n)' = RefsTo(n)
  BY <1>1, ProgramStays
<1> QED BY <1>1, <1>2 DEF TraceInv

LEMMA CollectRootExact ==
  ASSUME IInv, TraceInv, NEW r \in Node, CollectRoot(r)
  PROVE  TraceInv'
<1>1. /\ phase = "collect" /\ phase' = "collect" /\ stack = {} /\ r \in pending
      /\ pending' = pending \ {r} /\ garbage' = garbage \cup {r}
      /\ roots' = roots /\ count' = count
      /\ UNCHANGED program
  BY DEF CollectRoot, program
<1>2. TypeInv /\ CollectInv /\ color \in [Node -> Colors] /\ CollectExact
  BY <1>1, PhaseFacts DEF TraceInv
<1>3. r \in roots /\ {r} \subseteq Node
  BY <1>1, <1>2 DEF TypeInv
<1>4. /\ stack' \cup Colored("WHITE")' = stack \cup Colored("WHITE")
      /\ stack' \subseteq {r}
      /\ (roots' \cap Colored("BLACK")') \ stack' = (roots \cap Colored("BLACK")) \ stack
  <2>1. CASE color[r] = "WHITE"
    <3>1. color' = Paint({r}, "BLACK") /\ stack' = {r} /\ r \in Colored("WHITE")
      BY <2>1 DEF CollectRoot, Colored
    <3>2. /\ Colored("BLACK")' = Colored("BLACK") \cup {r}
          /\ Colored("WHITE")' = Colored("WHITE") \ {r}
      BY <1>2, <1>3, <3>1, PaintsBlack
    <3>3. r \notin Colored("BLACK")
      BY <2>1 DEF Colored
    <3> QED BY <1>1, <3>1, <3>2, <3>3
  <2>2. CASE color[r] # "WHITE"
    <3>1. color' = color /\ stack' = stack
      BY <2>2 DEF CollectRoot
    <3>2. Colored("BLACK")' = Colored("BLACK") /\ Colored("WHITE")' = Colored("WHITE")
      BY <3>1 DEF Colored
    <3> QED BY <1>1, <3>1, <3>2
  <2> QED BY <2>1, <2>2
<1>5. PICK W \in SUBSET Node :
          /\ Isolated(W) /\ Whole(W)
          /\ roots \cup Colored("WHITE") \cup stack \subseteq W
          /\ Fits => W \subseteq roots \cup TablesIn(roots) \cup Reference
                                \cup Colored("WHITE") \cup stack
  BY <1>2 DEF CollectExact
<1>6. CollectExact'
  <2> DEFINE R == roots'
             K == stack'
             C == Colored("WHITE")'
             B == Colored("BLACK")'
  <2>1. /\ R \cup C \cup K \subseteq W
        /\ Fits => W \subseteq R \cup TablesIn(R) \cup Reference \cup C \cup K
    BY <1>1, <1>4, <1>5
  <2>2. \A n \in R \cup K : RefsTo(n) > 0
    BY <1>1, <1>2, <1>3, <1>4 DEF CollectExact
  <2>3. Fits /\ NoTables => count' = Cardinality((R \cap B) \ K)
    BY <1>1, <1>2, <1>4 DEF CollectExact
  <2>4. R \ pending' \subseteq garbage'
    BY <1>1, <1>2 DEF CollectExact
  <2>5. R = roots' /\ K = stack' /\ C = Colored("WHITE")' /\ B = Colored("BLACK")'
    OBVIOUS
  <2>6. UNCHANGED program /\ Isolated(W) /\ Whole(W)
    BY <1>1, <1>5
  <2> HIDE DEF R, K, C, B
  <2> QED BY <2>1, <2>2, <2>3, <2>4, <2>5, <2>6, CollectNext
<1> QED BY <1>1, <1>6 DEF TraceInv

\* A visit gives the value its slot of the buffer; the tables it expands lose
\* their white and belong to it.
LEMMA CollectVisitExact ==
  ASSUME IInv, TraceInv, NEW n \in Node, CollectVisit(n)
  PROVE  TraceInv'
<1> DEFINE fresh == Colored("WHITE")
           E == Expanded(n, fresh)
           found == Targets(Followed(n, fresh)) \cap fresh
<1>1. /\ phase = "collect" /\ phase' = "collect" /\ n \in stack
      /\ count' = IF n \in Reference THEN count ELSE count + 1
      /\ roots' = roots \cup Added(n)
      /\ garbage' = garbage \cup Added(n)
      /\ color' = Paint(found, "BLACK")
      /\ stack' = (stack \ {n}) \cup (found \ E)
      /\ pending' = pending
      /\ UNCHANGED program
  BY DEF CollectVisit, program
<1>2. TypeInv /\ CollectInv /\ color \in [Node -> Colors] /\ CollectExact
  BY <1>1, PhaseFacts DEF TraceInv
<1>3. fresh \in SUBSET Node /\ found \subseteq Colored("WHITE")
  BY <1>2, ColorFacts
<1>4. E \subseteq found /\ found \subseteq Node
  BY <1>2, <1>3, VisitFound
<1>5. E \subseteq TablesIn({n}) /\ (n \in Reference => E = {}) /\ (NoTables => E = {})
  <2>1. ASSUME NEW h \in E
        PROVE  \E s \in Table : Owner[s] = n /\ heap[s] = h /\ h # NoNode
    BY <1>2, <2>1, FieldsFacts, NodeAssumption DEF Expanded, TablesOf
  <2>2. E \subseteq TablesIn({n})
    <3> HIDE DEF E
    <3> QED BY <2>1 DEF TablesIn
  <2>3. E # {} => n \in Object /\ ~NoTables
    <3> HIDE DEF E
    <3> QED BY <2>1, SlotAssumption DEF NoTables
  <2> QED BY <2>2, <2>3, NodeAssumption
<1>6. \A m \in found : RefsTo(m) > 0
  <2> SUFFICES ASSUME NEW s \in Followed(n, fresh), heap[s] \in Node PROVE RefsTo(heap[s]) > 0
    BY <1>4 DEF Targets
  <2>1. s \in Slot
    BY <1>2, FieldsFacts DEF Followed
  <2> QED BY <1>2, <2>1, TargetsHeld
<1> HIDE DEF fresh, E, found
<1>7. /\ Colored("BLACK")' = Colored("BLACK") \cup found
      /\ Colored("WHITE")' = Colored("WHITE") \ found
  BY <1>1, <1>2, <1>4, PaintsBlack
<1>8. PICK W \in SUBSET Node :
          /\ Isolated(W) /\ Whole(W)
          /\ roots \cup Colored("WHITE") \cup stack \subseteq W
          /\ Fits => W \subseteq roots \cup TablesIn(roots) \cup Reference
                                \cup Colored("WHITE") \cup stack
  BY <1>2 DEF CollectExact
<1>9. n \notin freeing
  <2>1. held[n] = 0
    BY <1>1, <1>8 DEF Isolated
  <2> QED BY <1>2, <2>1 DEF TypeInv, HeapInv
<1>10. RefsTo(n) > 0 /\ \A m \in roots \cup stack : RefsTo(m) > 0
  BY <1>1, <1>2 DEF CollectExact
<1>11. Added(n) \subseteq {n}
  BY DEF Added
<1>12. Fits => Added(n) = {n} \ (Reference \cup roots)
  <2>1. ASSUME Fits, n \notin Reference \cup roots PROVE Cardinality(roots) < room
    BY <1>2, <1>10, <2>1, RoomLeft
  <2>2. Cardinality(roots) \in Nat /\ room \in Nat
    BY <1>2, SetsFinite
  <2> QED BY <1>9, <2>1, <2>2 DEF Added
<1>13. /\ stack \cap Colored("WHITE") = {} /\ Colored("BLACK") \cap Colored("WHITE") = {}
       /\ n \in Colored("BLACK")
  BY <1>1, <1>2, ColorFacts DEF CollectInv
<1>14. CollectExact'
  <2> DEFINE R == roots'
             K == stack'
             C == Colored("WHITE")'
             B == Colored("BLACK")'
  <2>1. R \cup C \cup K \subseteq W
    BY <1>1, <1>3, <1>7, <1>8, <1>11
  <2>2. Fits => W \subseteq R \cup TablesIn(R) \cup Reference \cup C \cup K
    <3> SUFFICES ASSUME Fits, NEW m \in W PROVE m \in R \cup TablesIn(R) \cup Reference \cup C \cup K
      OBVIOUS
    <3>1. m \in roots \cup TablesIn(roots) \cup Reference \cup Colored("WHITE") \cup stack
      BY <1>8
    <3>2. m \in E => m \in TablesIn(R)
      <4>1. ASSUME m \in E PROVE n \in R
        BY <1>1, <1>5, <1>12, <4>1
      <4> QED BY <1>5, <4>1 DEF TablesIn
    <3>3. TablesIn(roots) \subseteq TablesIn(R)
      BY <1>1 DEF TablesIn
    <3>4. m = n => m \in R \cup Reference
      BY <1>1, <1>12
    <3> QED BY <1>1, <1>7, <3>1, <3>2, <3>3, <3>4
  <2>3. \A m \in R \cup K : RefsTo(m) > 0
    BY <1>1, <1>6, <1>10, <1>11
  <2>4. Fits /\ NoTables => count' = Cardinality((R \cap B) \ K)
    <3> SUFFICES ASSUME Fits, NoTables PROVE count' = Cardinality((R \cap B) \ K)
      OBVIOUS
    <3> DEFINE D == (roots \cap Colored("BLACK")) \ stack
    <3>1. count = Cardinality(D) /\ E = {}
      BY <1>2, <1>5 DEF CollectExact
    <3>2. IsFiniteSet(D) /\ Cardinality(D) \in Nat /\ n \notin D
      BY <1>1, <1>2, SetsFinite
    <3>3. CASE n \in Reference
      <4>1. n \notin roots
        BY <1>2, <3>3, NodeAssumption DEF TypeInv
      <4>2. (R \cap B) \ K = D
        BY <1>1, <1>3, <1>7, <1>12, <1>13, <3>1, <3>3, <4>1
      <4> QED BY <1>1, <3>1, <3>3, <4>2
    <3>4. CASE n \notin Reference
      <4>1. R = roots \cup {n}
        BY <1>1, <1>12, <3>4
      <4>2. (R \cap B) \ K = D \cup {n}
        BY <1>1, <1>3, <1>7, <1>13, <3>1, <4>1
      <4> HIDE DEF D, R, B, K
      <4> QED BY <1>1, <3>1, <3>2, <3>4, <4>2, FS_AddElement
    <3> QED BY <3>3, <3>4
  <2>5. R \ pending' \subseteq garbage'
    BY <1>1, <1>2 DEF CollectExact
  <2>6. R = roots' /\ K = stack' /\ C = Colored("WHITE")' /\ B = Colored("BLACK")'
    OBVIOUS
  <2>7. UNCHANGED program /\ Isolated(W) /\ Whole(W)
    BY <1>1, <1>8
  <2> HIDE DEF R, K, C, B
  <2> QED BY <2>1, <2>2, <2>3, <2>4, <2>5, <2>6, <2>7, CollectNext
<1> QED BY <1>1, <1>14 DEF TraceInv

LEMMA CollectDoneExact ==
  ASSUME IInv, TraceInv, CollectDone
  PROVE  TraceInv'
<1>1. /\ phase = "collect" /\ phase' = "verdict" /\ stack = {} /\ pending = {}
      /\ roots' = roots /\ garbage' = garbage /\ dtors' = dtors
      /\ pending' = {} /\ stack' = {} /\ count' = count
      /\ UNCHANGED program
  BY DEF CollectDone, program, buffer
<1>2. TypeInv /\ CollectInv /\ CollectExact
  BY <1>1, PhaseFacts DEF TraceInv
<1>3. roots = garbage /\ dtors = {}
  BY <1>1, <1>2 DEF TypeInv, CollectInv, CollectExact
<1>4. Colored("WHITE") = {} /\ roots \subseteq Colored("BLACK")
  BY <1>1, <1>2, AllCollected, NodeAssumption DEF TypeInv
<1>5. PICK W \in SUBSET Node :
          /\ Whole(W) /\ garbage \subseteq W
          /\ Fits => W \subseteq garbage \cup TablesIn(garbage) \cup Reference
  BY <1>1, <1>2, <1>3, <1>4 DEF CollectExact
<1>6. \E X \in SUBSET Node :
          /\ Whole(X)' /\ garbage' \subseteq X
          /\ Fits' => X \subseteq garbage' \cup TablesIn(garbage)' \cup Reference
  <2>1. Whole(W)' /\ (Fits' <=> Fits)
    BY <1>1, <1>5, WholeStays, ProgramStays
  <2>2. TablesIn(garbage)' = TablesIn(garbage)
    BY <1>1 DEF TablesIn, program
  <2> QED BY <1>1, <1>5, <2>1, <2>2
<1>7. Trail'
  <2>1. \A n : ~Reaches({}, n)
    BY {} \in SUBSET Node DEF Reaches
  <2>2. \A n : ~Reaches(dtors, n)'
    BY <1>1, <1>3, <2>1, HeapStays DEF Reaches
  <2> QED BY <2>2 DEF Trail
<1>8. Fits' /\ NoTables' => count' = Cardinality(garbage') + Cardinality(pending')
  <2> SUFFICES ASSUME Fits, NoTables PROVE count' = Cardinality(garbage') + Cardinality(pending')
    BY <1>1, ProgramStays
  <2>1. (roots \cap Colored("BLACK")) \ stack = garbage
    BY <1>1, <1>3, <1>4
  <2>2. count = Cardinality(garbage)
    BY <1>2, <2>1 DEF CollectExact
  <2>3. Cardinality(garbage) \in Nat
    BY <1>2, <1>3, SetsFinite
  <2> QED BY <1>1, <2>2, <2>3, FS_EmptySet
<1>9. NestedExact'
  BY <1>1, <1>3, <1>6, <1>7, <1>8 DEF NestedExact
<1> QED BY <1>1, <1>9 DEF TraceInv

\* A properties table is of one object only if nothing else refers to it.
LEMMA OneOwner ==
  ASSUME TypeInv, Unshared, NEW t \in Table, heap[t] # NoNode,
         NEW s \in Slot, heap[s] = heap[t]
  PROVE  s = t
<1> DEFINE S == Into(Slot, heap[t])
<1>1. t \in Slot /\ heap[t] \in Node /\ RefsTo(heap[t]) = 1
  BY SlotAssumption, ProgramAssumption DEF Unshared, TypeInv, HeapInv
<1>2. held[heap[t]] \in Nat
  BY <1>1, ProgramAssumption DEF TypeInv, HeapInv
<1>3. s \in S /\ t \in S
  BY <1>1 DEF Into
<1>4. IsFiniteSet(S)
  BY SlotAssumption, FS_Subset DEF Into
<1>5. RefsTo(heap[t]) = held[heap[t]] + Cardinality(S)
  BY DEF RefsTo
<1> HIDE DEF S
<1>6. Cardinality(S) \in Nat /\ Cardinality(S) # 0
  BY <1>3, <1>4, FS_CardinalityType, FS_EmptySet
<1>7. Cardinality(S) = 1
  BY <1>1, <1>2, <1>5, <1>6
<1> QED BY <1>3, <1>4, <1>7, FS_Singleton

\* The fields of an array or a reference are no tables.
LEMMA NoTableOf ==
  ASSUME TypeInv, NEW n \in Array \cup Reference
  PROVE  TablesOf(n) = {} /\ Nested(n) = Children(n)
<1>1. Fields(n) \cap Table = {}
  BY FieldsFacts, SlotAssumption, NodeAssumption
<1>2. TablesOf(n) = {}
  BY <1>1 DEF TablesOf
<1> QED BY <1>1, <1>2 DEF Nested, Children

\* Each child of n is in Lead(n), and so is each of a table of n.
LEMMA Leads ==
  ASSUME TypeInv, NEW n
  PROVE  /\ Children(n) \subseteq Lead(n)
         /\ \A h \in TablesOf(n) : Children(h) \subseteq Nested(n)
BY DEF Lead, Nested, TablesOf, Children, Targets

\* Where no table is shared, the trail of a destructor through what is
\* condemned comes from garbage to garbage: through values, references and
\* the tables of objects on the trail.
LEMMA TagDtorsExact ==
  ASSUME IInv, TraceInv, TagDtors
  PROVE  TraceInv'
<1> DEFINE called == garbage \cap HasDtor
<1>1. /\ phase = "collect" /\ phase' = "nested" /\ stack = {} /\ pending = {}
      /\ garbage' = garbage \ called
      /\ dtors' = called /\ pending' = called
      /\ roots' = roots /\ stack' = {} /\ count' = count
      /\ UNCHANGED program
  BY DEF TagDtors, program
<1>2. TypeInv /\ CollectInv /\ CollectExact
  BY <1>1, PhaseFacts DEF TraceInv
<1>3. roots = garbage
  BY <1>1, <1>2 DEF TypeInv, CollectInv, CollectExact
<1>4. Colored("WHITE") = {} /\ roots \subseteq Colored("BLACK")
  BY <1>1, <1>2, AllCollected, NodeAssumption DEF TypeInv
<1>5. PICK W \in SUBSET Node :
          /\ Isolated(W) /\ Whole(W) /\ garbage \subseteq W
          /\ Fits => W \subseteq garbage \cup TablesIn(garbage) \cup Reference
  BY <1>1, <1>2, <1>3, <1>4 DEF CollectExact
<1>6. dtors' = {} => \E X \in SUBSET Node :
          /\ Whole(X)' /\ garbage' \subseteq X
          /\ Fits' => X \subseteq garbage' \cup TablesIn(garbage)' \cup Reference
  <2> SUFFICES ASSUME called = {}
               PROVE  \E X \in SUBSET Node :
                        /\ Whole(X)' /\ garbage' \subseteq X
                        /\ Fits' => X \subseteq garbage' \cup TablesIn(garbage)' \cup Reference
    BY <1>1
  <2>1. Whole(W)' /\ (Fits' <=> Fits) /\ garbage' = garbage
    BY <1>1, <1>5, WholeStays, ProgramStays
  <2>2. TablesIn(garbage)' = TablesIn(garbage)
    BY <1>1, <2>1 DEF TablesIn, program
  <2> QED BY <1>5, <2>1, <2>2
<1>7. Unshared /\ Fits => Trail'
  <2> SUFFICES ASSUME Unshared, Fits, NEW T \in SUBSET Node, called \subseteq T,
                      \A n \in T \cap (called \cup (garbage \ called) \cup Reference) : Lead(n) \subseteq T,
                      NEW g \in garbage \ called, Reaches(called, g)
               PROVE  g \in T
    <3>1. \A n : Reaches(dtors, n)' <=> Reaches(called, n)
      BY <1>1, HeapStays DEF Reaches
    <3>2. \A n : Lead(n)' = Lead(n)
      BY <1>1, ProgramStays
    <3> HIDE DEF called
    <3> QED BY <1>1, <3>1, <3>2 DEF Trail
  <2>1. \A n \in T \cap (garbage \cup Reference) : Lead(n) \subseteq T
    OBVIOUS
  <2> DEFINE Owned == {m \in T \cap W : \E t \in Table : heap[t] = m /\ Owner[t] \in T \cap garbage}
             U == (T \cap W \cap (garbage \cup Reference)) \cup Owned \cup (Node \ W)
  <2>2. called \subseteq U
    BY <1>5
  <2>3. ASSUME NEW m \in U, NEW c \in Children(m) PROVE c \in U
    <3>1. PICK s \in Slot : s \in Fields(m) /\ heap[s] = c /\ Owner[s] = m /\ c \in Node
      BY <1>2, FieldsFacts DEF Children, Targets
    <3>2. CASE c \notin W
      BY <3>1, <3>2
    <3>3. CASE c \in W
      <4>1. m \in W
        BY <1>5, <3>1, <3>3 DEF Isolated
      <4>2. c \in garbage \cup Reference \/ \E t \in Table : heap[t] = c /\ Owner[t] \in garbage
        BY <1>5, <3>3 DEF TablesIn
      <4>3. CASE m \in T \cap (garbage \cup Reference)
        <5>1. c \in T
          BY <1>2, <2>1, <4>3, Leads
        <5>2. CASE c \in garbage \cup Reference
          BY <3>3, <5>1, <5>2
        <5>3. ASSUME NEW t \in Table, heap[t] = c, Owner[t] \in garbage PROVE c \in U
          <6>1. s = t
            BY <1>2, <3>1, <5>3, OneOwner, NodeAssumption
          <6>2. Owner[t] \in T \cap garbage
            BY <3>1, <4>3, <5>3, <6>1
          <6> QED BY <3>3, <5>1, <5>3, <6>2
        <5> QED BY <4>2, <5>2, <5>3
      <4>4. CASE m \in Owned
        <5>1. PICK t \in Table : heap[t] = m /\ Owner[t] \in T \cap garbage
          BY <4>4
        <5>2. m \in Array
          BY <1>2, <4>1, <5>1, NodeAssumption DEF TypeInv, HeapInv
        <5>3. m \in TablesOf(Owner[t])
          <6>1. Owner[t] \notin freeing /\ t \in Slot
            BY <1>5, <4>1, <5>1, SlotAssumption DEF Isolated
          <6>2. t \in Fields(Owner[t])
            BY <1>2, <4>1, <5>1, <6>1, FieldsFacts
          <6> QED BY <5>1, <6>2 DEF TablesOf
        <5>4. c \in T
          BY <1>2, <2>1, <5>1, <5>3, Leads DEF Lead
        <5>5. ASSUME NEW t2 \in Table, heap[t2] = c PROVE FALSE
          <6>1. s = t2
            BY <1>2, <3>1, <5>5, OneOwner, NodeAssumption
          <6> QED BY <3>1, <5>2, <5>5, <6>1, SlotAssumption, NodeAssumption
        <5> QED BY <3>3, <4>2, <5>4, <5>5
      <4> QED BY <4>1, <4>3, <4>4
    <3> QED BY <3>2, <3>3
  <2>4. U \in SUBSET Node
    OBVIOUS
  <2> HIDE DEF called
  <2>5. g \in U
    <3> HIDE DEF U
    <3>1. \A m \in U : Children(m) \subseteq U
      BY <2>3
    <3> QED BY <2>2, <2>4, <3>1 DEF Reaches
  <2> QED BY <1>5, <2>5
<1>8. Fits' /\ NoTables' => count' = Cardinality(garbage') + Cardinality(pending')
  <2> SUFFICES ASSUME Fits, NoTables PROVE count' = Cardinality(garbage') + Cardinality(pending')
    BY <1>1, ProgramStays
  <2>1. (roots \cap Colored("BLACK")) \ stack = garbage
    BY <1>1, <1>3, <1>4
  <2>2. count = Cardinality(garbage)
    BY <1>2, <2>1 DEF CollectExact
  <2> DEFINE A == garbage \ called
             B == garbage \cap HasDtor
  <2>3. garbage = A \cup B /\ A \cap B = {}
    OBVIOUS
  <2>4. /\ IsFiniteSet(A) /\ IsFiniteSet(B) /\ Cardinality(A) \in Nat /\ Cardinality(B) \in Nat
    BY <1>2, <1>3, SetsFinite
  <2>5. garbage' = A /\ pending' = B /\ count' = count
    BY <1>1
  <2> HIDE DEF A, B, called
  <2>6. Cardinality(garbage) = Cardinality(A) + Cardinality(B) - Cardinality(A \cap B)
    BY <2>3, <2>4, FS_Union
  <2>7. Cardinality(A \cap B) = 0
    BY <2>3, FS_EmptySet
  <2>8. Cardinality(garbage) = Cardinality(A) + Cardinality(B)
    BY <2>4, <2>6, <2>7
  <2> QED BY <2>2, <2>5, <2>8
<1>9. roots' = garbage' \cup dtors'
  BY <1>1, <1>3
<1>10. NestedExact'
  BY <1>1, <1>6, <1>7, <1>8, <1>9, ProgramStays DEF NestedExact
<1> QED BY <1>1, <1>10 DEF TraceInv

\* A root, or a value of the descent, leaves the buffer with its tables, and
\* what it leads to is pushed.
LEMMA TrailNext ==
  ASSUME TypeInv, UNCHANGED program, Trail, NEW n \in Node,
         pending \subseteq pending' \cup {n},
         stack \subseteq stack' \cup {n},
         Nested(n) \subseteq stack',
         garbage \subseteq garbage' \cup {n} \cup TablesOf(n),
         n \notin garbage', TablesOf(n) \cap garbage' = {},
         garbage' \subseteq garbage, dtors' = dtors
  PROVE  Trail'
<1> SUFFICES ASSUME NEW T \in SUBSET Node, pending' \cup stack' \subseteq T,
                    \A m \in T \cap (pending' \cup garbage' \cup Reference) : Lead(m) \subseteq T,
                    NEW g \in garbage', Reaches(dtors, g)
             PROVE  g \in T
  <2>1. \A m : Reaches(dtors, m)' <=> Reaches(dtors, m)
    BY HeapStays DEF Reaches
  <2>2. \A m : Lead(m)' = Lead(m)
    BY ProgramStays
  <2> QED BY <2>1, <2>2 DEF Trail
<1> DEFINE U == T \cup {n} \cup TablesOf(n)
<1>1. TablesOf(n) \subseteq Node /\ TablesOf(n) \subseteq Array
  <2> SUFFICES ASSUME NEW s \in Fields(n) \cap Table PROVE heap[s] \in Node \cap Array
    BY DEF TablesOf
  <2>1. heap[s] \in Node
    BY FieldsFacts
  <2>2. heap[s] \in Array \cup {NoNode}
    BY DEF TypeInv, HeapInv
  <2> QED BY <2>1, <2>2, NodeAssumption
<1>2. U \in SUBSET Node
  BY <1>1
<1>3. pending \cup stack \subseteq U
  OBVIOUS
<1>4. ASSUME NEW m \in U \cap (pending \cup garbage \cup Reference)
      PROVE  Lead(m) \subseteq U
  <2>1. CASE m = n
    BY <2>1 DEF Lead
  <2>2. CASE m \in TablesOf(n)
    <3>1. TablesOf(m) = {} /\ Nested(m) = Children(m)
      BY <1>1, <2>2, NoTableOf
    <3>2. Children(m) \subseteq Nested(n)
      BY <2>2, Leads
    <3> QED BY <3>1, <3>2 DEF Lead
  <2>3. CASE m \notin {n} \cup TablesOf(n)
    BY <2>3
  <2> QED BY <2>1, <2>2, <2>3
<1>5. g \in U
  <2> HIDE DEF U
  <2> QED BY <1>2, <1>3, <1>4 DEF Trail
<1> QED BY <1>5

\* What the last phase knows of the values it has to do with.
LEMMA NestedFacts ==
  ASSUME IInv, TraceInv, phase = "nested"
  PROVE  /\ TypeInv /\ NestedInv /\ NestedExact
         /\ garbage \cap dtors = {} /\ dtors \cap Colored("BLACK") = {}
         /\ roots = garbage \cup dtors
         /\ \A S : Removable(S) = S \cap garbage
<1>1. TypeInv /\ NestedInv /\ NestedExact /\ color \in [Node -> Colors]
  BY PhaseFacts DEF TraceInv
<1>2. garbage \cap dtors = {} /\ dtors \cap Colored("BLACK") = {}
  BY <1>1, ColorFacts DEF NestedInv, TypeInv
<1>3. roots = garbage \cup dtors
  BY <1>1 DEF NestedExact
<1>4. \A m \in roots : color[m] = "BLACK" <=> m \in garbage
  <2>1. roots \subseteq Node
    BY <1>1, NodeAssumption DEF TypeInv
  <2> QED BY <1>1, <1>2, <1>3, <2>1, ColorFacts DEF NestedInv
<1>5. \A S : Removable(S) = S \cap garbage
  BY <1>3, <1>4 DEF Removable
<1> QED BY <1>1, <1>2, <1>3, <1>5

LEMMA NestedRootExact ==
  ASSUME IInv, TraceInv, NEW p \in Node, NestedRoot(p)
  PROVE  TraceInv'
<1>1. /\ phase = "nested" /\ phase' = "nested" /\ stack = {} /\ p \in pending
      /\ pending' = pending \ {p}
      /\ Remove(Removable(TablesOf(p)))
      /\ stack' = Nested(p) /\ count' = count - 1
      /\ UNCHANGED program
  BY DEF NestedRoot, program
<1>2. /\ TypeInv /\ NestedInv /\ NestedExact /\ garbage \cap dtors = {}
      /\ roots = garbage \cup dtors
      /\ Removable(TablesOf(p)) = TablesOf(p) \cap garbage
  BY <1>1, NestedFacts
<1>3. p \in dtors
  BY <1>1, <1>2 DEF NestedInv
<1>4. /\ garbage' = garbage \ TablesOf(p) /\ dtors' = dtors
      /\ roots' = garbage' \cup dtors'
  BY <1>1, <1>2 DEF Remove
<1>5. Unshared' /\ Fits' => Trail'
  <2> SUFFICES ASSUME Unshared, Fits PROVE Trail'
    BY <1>1, ProgramStays
  <2>1. Trail
    BY <1>2 DEF NestedExact
  <2> QED BY <1>1, <1>2, <1>3, <1>4, <2>1, TrailNext
<1>6. Fits' /\ NoTables' => count' = Cardinality(garbage') + Cardinality(pending')
  <2> SUFFICES ASSUME Fits, NoTables PROVE count' = Cardinality(garbage') + Cardinality(pending')
    BY <1>1, ProgramStays
  <2>1. TablesOf(p) = {}
    BY <1>2, FieldsFacts, NodeAssumption DEF TablesOf, NoTables
  <2>2. garbage' = garbage
    BY <1>4, <2>1
  <2>3. count = Cardinality(garbage) + Cardinality(pending)
    BY <1>2 DEF NestedExact
  <2>4. /\ IsFiniteSet(pending) /\ Cardinality(pending) \in Nat
        /\ Cardinality(garbage) \in Nat
    BY <1>2, SetsFinite DEF TypeInv
  <2>5. Cardinality(pending') = Cardinality(pending) - 1
    BY <1>1, <2>4, FS_RemoveElement
  <2> QED BY <1>1, <2>2, <2>3, <2>4, <2>5
<1>7. NestedExact'
  BY <1>3, <1>4, <1>5, <1>6 DEF NestedExact
<1> QED BY <1>1, <1>7 DEF TraceInv

LEMMA NestedVisitExact ==
  ASSUME IInv, TraceInv, NEW n \in Node, NestedVisit(n)
  PROVE  TraceInv'
<1>1. /\ phase = "nested" /\ phase' = "nested" /\ n \in stack
      /\ n \in Removable(Node)
      /\ Remove({n} \cup Removable(TablesOf(n)))
      /\ stack' = (stack \ {n}) \cup Nested(n) /\ count' = count - 1
      /\ pending' = pending
      /\ UNCHANGED program
  BY DEF NestedVisit, program
<1>2. /\ TypeInv /\ NestedInv /\ NestedExact /\ garbage \cap dtors = {}
      /\ roots = garbage \cup dtors
      /\ Removable(TablesOf(n)) = TablesOf(n) \cap garbage
      /\ n \in garbage
  BY <1>1, NestedFacts
<1>3. dtors # {}
  BY <1>1, <1>2 DEF NestedExact
<1>4. /\ garbage' = garbage \ ({n} \cup TablesOf(n)) /\ dtors' = dtors
      /\ roots' = garbage' \cup dtors'
  BY <1>1, <1>2 DEF Remove
<1>5. Unshared' /\ Fits' => Trail'
  <2> SUFFICES ASSUME Unshared, Fits PROVE Trail'
    BY <1>1, ProgramStays
  <2>1. Trail
    BY <1>2 DEF NestedExact
  <2> QED BY <1>1, <1>2, <1>4, <2>1, TrailNext
<1>6. Fits' /\ NoTables' => count' = Cardinality(garbage') + Cardinality(pending')
  <2> SUFFICES ASSUME Fits, NoTables PROVE count' = Cardinality(garbage') + Cardinality(pending')
    BY <1>1, ProgramStays
  <2>1. TablesOf(n) = {}
    BY <1>2, FieldsFacts, NodeAssumption DEF TablesOf, NoTables
  <2>2. garbage' = garbage \ {n}
    BY <1>4, <2>1
  <2>3. count = Cardinality(garbage) + Cardinality(pending)
    BY <1>2 DEF NestedExact
  <2>4. /\ IsFiniteSet(garbage) /\ Cardinality(pending) \in Nat
        /\ Cardinality(garbage) \in Nat
    BY <1>2, SetsFinite DEF TypeInv
  <2>5. Cardinality(garbage') = Cardinality(garbage) - 1
    BY <1>2, <2>2, <2>4, FS_RemoveElement
  <2> QED BY <1>1, <2>3, <2>4, <2>5
<1>7. NestedExact'
  BY <1>3, <1>4, <1>5, <1>6 DEF NestedExact
<1> QED BY <1>1, <1>7 DEF TraceInv

LEMMA NestedPassExact ==
  ASSUME IInv, TraceInv, NEW n \in Node, NestedPass(n)
  PROVE  TraceInv'
<1>1. /\ phase = "nested" /\ phase' = "nested" /\ n \in stack
      /\ n \notin Removable(Node)
      /\ stack' = (stack \ {n}) \cup (IF n \in Reference THEN Children(n) ELSE {})
      /\ roots' = roots /\ garbage' = garbage /\ dtors' = dtors
      /\ pending' = pending /\ count' = count
      /\ UNCHANGED program
  BY DEF NestedPass, buffer, program
<1>2. TypeInv /\ NestedInv /\ NestedExact /\ n \notin garbage
  BY <1>1, NestedFacts
<1>3. dtors # {}
  BY <1>1, <1>2 DEF NestedExact
<1>4. ASSUME Trail PROVE Trail'
  <2> SUFFICES ASSUME NEW T \in SUBSET Node, pending' \cup stack' \subseteq T,
                      \A m \in T \cap (pending' \cup garbage' \cup Reference) : Lead(m) \subseteq T,
                      NEW g \in garbage', Reaches(dtors, g)
               PROVE  g \in T
    <3>1. \A m : Reaches(dtors, m)' <=> Reaches(dtors, m)
      BY <1>1, HeapStays DEF Reaches
    <3>2. \A m : Lead(m)' = Lead(m)
      BY <1>1, ProgramStays
    <3> QED BY <3>1, <3>2 DEF Trail
  <2> DEFINE U == T \cup {n}
  <2>1. pending \cup stack \subseteq U /\ U \in SUBSET Node
    BY <1>1
  <2>2. ASSUME n \in Reference PROVE Lead(n) \subseteq T
    <3>1. Lead(n) = Children(n)
      BY <1>2, <2>2, NoTableOf DEF Lead
    <3> QED BY <1>1, <2>2, <3>1
  <2>3. \A m \in U \cap (pending \cup garbage \cup Reference) : Lead(m) \subseteq U
    BY <1>1, <1>2, <2>2
  <2>4. g \in U
    <3> HIDE DEF U
    <3> QED BY <1>1, <1>4, <2>1, <2>3 DEF Trail
  <2> QED BY <1>1, <1>2, <2>4
<1>5. NestedExact'
  BY <1>1, <1>2, <1>3, <1>4, ProgramStays DEF NestedExact
<1> QED BY <1>1, <1>5 DEF TraceInv

\* Nothing that NestedExact speaks of changes.
LEMMA NestedStays ==
  ASSUME NestedExact, UNCHANGED <<program, roots, garbage, dtors, pending, stack, count>>
  PROVE  NestedExact'
<1>1. UNCHANGED program /\ UNCHANGED <<roots, garbage, dtors, pending, stack, count>>
  OBVIOUS
<1>2. (\A m : Reaches(dtors, m)' <=> Reaches(dtors, m)) /\ \A m : Lead(m)' = Lead(m)
  <2>1. \A m : Reaches(dtors, m)' <=> Reaches(dtors, m)
    BY <1>1, HeapStays DEF Reaches
  <2> QED BY <1>1, <2>1, ProgramStays
<1>3. Trail' <=> Trail
  BY <1>1, <1>2 DEF Trail
<1>4. /\ Fits' <=> Fits
      /\ NoTables' <=> NoTables
      /\ Unshared' <=> Unshared
  BY <1>1, ProgramStays
<1>5. dtors' = {} => \E X \in SUBSET Node :
          /\ Whole(X)' /\ garbage' \subseteq X
          /\ Fits' => X \subseteq garbage' \cup TablesIn(garbage)' \cup Reference
  <2>1. TablesIn(garbage)' = TablesIn(garbage)
    BY <1>1 DEF TablesIn, program
  <2>2. \A W : Whole(W)' <=> Whole(W)
    BY <1>1, WholeStays
  <2> QED BY <1>1, <1>4, <2>1, <2>2 DEF NestedExact
<1> QED BY <1>1, <1>3, <1>4, <1>5 DEF NestedExact

LEMMA NestedDoneExact ==
  ASSUME IInv, TraceInv, NestedDone
  PROVE  TraceInv'
<1>1. /\ phase = "nested" /\ phase' = "verdict" /\ stack = {} /\ pending = {}
      /\ UNCHANGED <<program, roots, garbage, dtors, pending, stack, count>>
  BY DEF NestedDone, buffer
<1>2. NestedExact'
  BY <1>1, NestedStays DEF TraceInv
<1> QED BY <1>1, <1>2 DEF TraceInv

LEMMA StutterExact ==
  ASSUME TraceInv, UNCHANGED vars
  PROVE  TraceInv'
<1>1. /\ UNCHANGED <<heap, held, freeing, room, color, roots, garbage, dtors, phase,
                     pending, stack, count>>
      /\ UNCHANGED program
  BY DEF vars, program
<1>2. \A n : RefsTo(n)' = RefsTo(n)
  BY <1>1, ProgramStays
<1>3. phase = "collect" => CollectExact'
  <2> SUFFICES ASSUME phase = "collect" PROVE CollectExact'
    OBVIOUS
  <2>1. CollectExact
    BY DEF TraceInv
  <2>2. Colored("WHITE")' = Colored("WHITE") /\ Colored("BLACK")' = Colored("BLACK")
    BY <1>1 DEF Colored
  <2>3. TablesIn(roots)' = TablesIn(roots)
    BY <1>1 DEF TablesIn
  <2>4. (Fits' <=> Fits) /\ (NoTables' <=> NoTables)
    BY <1>1, ProgramStays
  <2>5. \A W : (Whole(W)' <=> Whole(W)) /\ (Isolated(W)' <=> Isolated(W))
    BY <1>1, WholeStays, HeapStays
  <2> QED BY <1>1, <1>2, <2>1, <2>2, <2>3, <2>4, <2>5 DEF CollectExact
<1>4. NestedExact => NestedExact'
  BY <1>1, NestedStays
<1> QED BY <1>1, <1>2, <1>3, <1>4 DEF TraceInv

\* From the first subtraction to the verdict: all that is condemned is on its
\* way into the buffer, and all that destructors lead to on its way out.
THEOREM TraceInductive == Spec => [](IInv /\ TraceInv)
<1>1. Init => IInv /\ TraceInv
  BY InitEstablishes DEF Init, TraceInv
<1>2. IInv /\ TraceInv /\ [Next]_vars => TraceInv'
  <2> SUFFICES ASSUME IInv, TraceInv, [Next]_vars PROVE TraceInv'
    OBVIOUS
  <2>1. ASSUME NEW n \in Node,
               \/ MarkRoot(n) \/ MarkVisit(n)
               \/ ScanRoot(n) \/ ScanSkip(n) \/ ScanInUse(n) \/ ScanWhite(n) \/ BlackVisit(n)
        PROVE  TraceInv'
    <3>1. phase \in {"mark", "scan"} /\ phase' \in {"mark", "scan"}
      BY <2>1 DEF MarkRoot, MarkVisit, ScanRoot, ScanSkip, ScanInUse, ScanWhite,
                  BlackVisit
    <3>2. UNCHANGED <<program, roots, count>>
      BY <2>1 DEF MarkRoot, MarkVisit, ScanRoot, ScanSkip, ScanInUse, ScanWhite,
                  BlackVisit, buffer
    <3> QED BY <3>1, <3>2, MarkScanExact
  <2>2. ASSUME MarkDone PROVE TraceInv'
    <3>1. phase \in {"mark", "scan"} /\ phase' \in {"mark", "scan"}
          /\ UNCHANGED <<program, roots, count>>
      BY <2>2 DEF MarkDone, buffer
    <3> QED BY <3>1, MarkScanExact
  <2>3. CASE ScanDone BY <2>3, ScanDoneExact
  <2>4. CASE CollectDone BY <2>4, CollectDoneExact
  <2>5. CASE TagDtors BY <2>5, TagDtorsExact
  <2>6. CASE NestedDone BY <2>6, NestedDoneExact
  <2>7. CASE Over \/ UNCHANGED vars BY <2>7, StutterExact DEF Over
  <2>8. ASSUME NEW n \in Node, CollectRoot(n) PROVE TraceInv' BY <2>8, CollectRootExact
  <2>9. ASSUME NEW n \in Node, CollectVisit(n) PROVE TraceInv' BY <2>9, CollectVisitExact
  <2>10. ASSUME NEW n \in Node, NestedRoot(n) PROVE TraceInv' BY <2>10, NestedRootExact
  <2>11. ASSUME NEW n \in Node, NestedVisit(n) PROVE TraceInv' BY <2>11, NestedVisitExact
  <2>12. ASSUME NEW n \in Node, NestedPass(n) PROVE TraceInv' BY <2>12, NestedPassExact
  <2> QED BY <2>1, <2>2, <2>3, <2>4, <2>5, <2>6, <2>7, <2>8, <2>9, <2>10, <2>11, <2>12 DEF Next
<1>3. Spec => []TraceInv
  <2>1. Init => TraceInv
    BY <1>1
  <2> QED BY <1>2, <2>1, Inductive, PTL DEF Spec
<1> QED BY <1>3, Inductive, PTL

\* With no destructor in the way, all that garbage leads to and nothing else
\* does is tagged as garbage or freed with it, and counted: no cycle that the
\* collector has found keeps a part of itself, on any heap, as long as the
\* buffer has room.
THEOREM GarbageIsAccounted == Spec => []GarbageAccounted
<1>1. IInv /\ TraceInv => GarbageAccounted
  <2> SUFFICES ASSUME IInv, TraceInv, phase = "verdict" PROVE GarbageAccounted
    BY DEF GarbageAccounted, GarbageComplete, CountExact
  <2>1. NestedExact /\ TypeInv /\ pending = {}
    BY PhaseFacts DEF TraceInv
  <2>2. GarbageComplete
    <3> SUFFICES ASSUME dtors = {}, Fits, NEW S \in SUBSET Node, Isolated(S),
                        \A n \in S : Reaches(garbage, n)
                 PROVE  S \subseteq garbage \cup TablesIn(garbage) \cup Reference
      BY DEF GarbageComplete
    <3>1. PICK W \in SUBSET Node :
              /\ Whole(W) /\ garbage \subseteq W
              /\ W \subseteq garbage \cup TablesIn(garbage) \cup Reference
      BY <2>1 DEF NestedExact
    <3>2. \A n \in S : Reaches(W, n)
      BY <3>1, ReachesMore
    <3>3. S \subseteq W
      BY <3>1, <3>2 DEF Whole
    <3> QED BY <3>1, <3>3
  <2>3. CountExact
    <3> SUFFICES ASSUME Fits, NoTables PROVE count = Cardinality(garbage)
      BY DEF CountExact
    <3>1. count = Cardinality(garbage) + Cardinality(pending)
      BY <2>1 DEF NestedExact
    <3>2. Cardinality(garbage) \in Nat
      BY <2>1, SetsFinite DEF TypeInv
    <3> QED BY <2>1, <3>1, <3>2, FS_EmptySet
  <2> QED BY <2>2, <2>3 DEF GarbageAccounted
<1> QED BY <1>1, TraceInductive, PTL

\* Where no array value shares a properties table and the buffer has room, a
\* destructor never sees a value that this run frees, and no object whose
\* destructor is still to be called is freed.
THEOREM DestructorsAreSafe == Spec => []DestructorsSafe
<1>1. IInv /\ TraceInv => DestructorsOfUnsharedTables
  <2> SUFFICES ASSUME IInv, TraceInv, Unshared, Fits, phase = "verdict",
                      NEW n \in garbage, Reaches(dtors, n)
               PROVE  FALSE
    BY DEF DestructorsOfUnsharedTables, DestructorsSeeNoGarbage
  <2>1. Trail /\ pending = {} /\ stack = {}
    BY DEF TraceInv, NestedExact
  <2>2. n \in {}
    BY <2>1, {} \in SUBSET Node DEF Trail
  <2> QED BY <2>2
<1>2. DestructorsOfUnsharedTables /\ NoneFreedUndestructed => DestructorsSafe
  BY DEF DestructorsSafe
<1> QED BY <1>1, <1>2, TraceInductive, NoneUndestructed, PTL
=============================================================================
