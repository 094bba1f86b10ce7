------------------------------ MODULE GcTrace ------------------------------
(***************************************************************************)
(* The trial deletion at the heart of a collection (Zend/zend_gc.c), from  *)
(* gc_mark_roots to the last step before destructors are called.  The      *)
(* collector subtracts from every reference count the references that come *)
(* from the values it reaches (gc_mark_grey), finds the values whose count *)
(* drops to zero (gc_scan), gives the others their references back         *)
(* (gc_scan_black), collects what is left (gc_collect_white) and keeps out *)
(* of this run what a destructor may still see                             *)
(* (gc_remove_nested_data_from_buffer).                                    *)
(*                                                                         *)
(* A value is a member of Node.  A slot is a place in a value that refers  *)
(* to another value: an element of an array or of an object's get_gc       *)
(* table, the target of a reference, or (Table) the `properties' hash      *)
(* table of an object, which get_gc returns on its own and the traversal   *)
(* expands on the spot.  The program does not run during these phases, so  *)
(* the heap stands still while counts and colours move.                    *)
(*                                                                         *)
(* One step visits one value, what the code does between two pops of its   *)
(* gc_stack.  The order in which the code's tail calls and its LIFO stack  *)
(* visit values, and the order of the roots in the buffer, are left open:  *)
(* the stacks and the roots are sets.  Addresses and the tags' bits are in *)
(* GcRootBuffer; here a value has an address iff it is in roots.           *)
(***************************************************************************)
EXTENDS Integers, FiniteSets

CONSTANTS
    Node, NoNode,               \* values that carry a reference count
    Object, Array, Reference,   \* their types
    Slot, Owner,                \* places that hold a value, whose they are
    Table,                      \* the slots that are a `properties' table
    HasDtor,                    \* objects whose destructor is still to be called
    MayBeFreeing,               \* objects that may have IS_OBJ_FREE_CALLED
    SharedTables,               \* may a `properties' table also be held as an array?
    Heaps, Holds,               \* heaps and outside references to start from
    Rooms                       \* slots these values may take of a full-grown buffer

ASSUME NodeAssumption ==
    /\ IsFiniteSet(Node)
    /\ NoNode \notin Node
    /\ Node = Object \cup Array \cup Reference
    /\ Object \cap Array = {}
    /\ Object \cap Reference = {}
    /\ Array \cap Reference = {}

ASSUME SlotAssumption ==
    /\ IsFiniteSet(Slot)
    /\ Owner \in [Slot -> Node]
    /\ Table \subseteq {s \in Slot : Owner[s] \in Object}

ASSUME ProgramAssumption ==
    /\ HasDtor \subseteq Object
    /\ MayBeFreeing \subseteq Object
    /\ SharedTables \in BOOLEAN
    /\ Heaps \subseteq [Slot -> Node \cup {NoNode}]
    /\ Holds \subseteq [Node -> Nat]
    /\ Rooms \subseteq Nat

VARIABLES
    heap,       \* the value in every slot
    held,       \* references from outside of the heap: variables, C frames
    freeing,    \* objects whose free_obj handler has been called
    room,       \* slots that the other roots leave up to GC_MAX_BUF_SIZE
    rc,         \* GC_REFCOUNT
    color,      \* GC_REF_COLOR
    roots,      \* values with an address in the root buffer
    garbage,    \* those of roots tagged GC_GARBAGE
    dtors,      \* those of roots tagged GC_DTOR_GARBAGE
    phase,      \* the function that runs
    pending,    \* roots its loop has not come to
    stack,      \* its gc_stack, the value at hand included
    black,      \* the part of the gc_stack split off for gc_scan_black
    flagged,    \* GC_HAS_DESTRUCTORS in gc_flags
    count       \* the collector's count

program == <<heap, held, freeing, room>>
buffer == <<roots, garbage, dtors>>
vars == <<heap, held, freeing, room, rc, color, roots, garbage, dtors, phase,
          pending, stack, black, flagged, count>>

Colors == {"BLACK", "GREY", "WHITE", "PURPLE"}
Phases == {"mark", "scan", "collect", "nested", "verdict"}

-----------------------------------------------------------------------------
(* What a visit reaches.                                                   *)

\* Faulty variant: objects being freed are traversed too.
FieldsWhenFreed(n) == {s \in Slot : Owner[s] = n /\ heap[s] # NoNode}

\* The slots that a traversal of n follows: none of an object being freed.
Fields(n) ==
    IF n \in freeing THEN {}
    ELSE {s \in Slot : Owner[s] = n /\ heap[s] # NoNode}

\* The ht that get_gc returns beside the table of values.
TablesOf(n) == {heap[s] : s \in Fields(n) \cap Table}

\* A visit of n also visits its ht, if the ht is one that the traversal has
\* not come to: its slots count as slots of n.
Expanded(n, fresh) == TablesOf(n) \cap fresh
Followed(n, fresh) == Fields(n) \cup UNION {Fields(h) : h \in Expanded(n, fresh)}

Into(S, n) == {s \in S : heap[s] = n}
Targets(S) == {heap[s] : s \in S}
Children(n) == Targets(Fields(n))

\* GC_DELREF, GC_ADDREF of the value of every slot of S.
DelRefs(S) == [n \in Node |-> rc[n] - Cardinality(Into(S, n))]
AddRefs(S) == [n \in Node |-> rc[n] + Cardinality(Into(S, n))]

Colored(c) == {n \in Node : color[n] = c}
Paint(S, c) == [n \in Node |-> IF n \in S THEN c ELSE color[n]]

-----------------------------------------------------------------------------
(* Reachability, stated with the sets that are closed under it.            *)

\* No set that contains From and what its members refer to leaves n out.
Reaches(From, n) ==
    \A T \in SUBSET Node :
        (From \subseteq T /\ \A m \in T : Children(m) \subseteq T) => n \in T

\* Nothing outside of S refers to a member of S.
Isolated(S) ==
    /\ \A n \in S : held[n] = 0
    /\ \A s \in Slot : heap[s] \in S => Owner[s] \in S \ freeing

\* The program cannot come by n any more.
Unreachable(n) == \E S \in SUBSET Node : n \in S /\ Isolated(S)

-----------------------------------------------------------------------------
(* The heap that a collection starts from.                                 *)

RefsTo(n) == held[n] + Cardinality(Into(Slot, n))

\* References do not refer to references, a properties table is an array,
\* an object that is being freed is held by the frame that frees it; what is
\* not allocated refers to nothing.
HeapInv ==
    /\ heap \in Heaps
    /\ held \in Holds
    /\ \A s \in Slot : Owner[s] \in Reference => heap[s] \notin Reference
    /\ \A s \in Table : heap[s] \in Array \cup {NoNode}
    /\ freeing \subseteq {n \in MayBeFreeing : held[n] > 0}
    /\ room \in Rooms
    /\ \A s \in Slot : RefsTo(Owner[s]) = 0 => heap[s] = NoNode

Unshared ==
    \A s \in Table : heap[s] # NoNode => RefsTo(heap[s]) = 1

\* Every live root is purple, every other value black (RootsPurpleAtRest of
\* GcRootBuffer).  References are never rooted, nor is a value without any
\* reference.
Init ==
    /\ heap \in Heaps
    /\ held \in Holds
    /\ freeing \in SUBSET MayBeFreeing
    /\ HeapInv
    /\ SharedTables \/ Unshared
    /\ rc = [n \in Node |-> RefsTo(n)]
    /\ roots \in SUBSET {n \in Object \cup Array : RefsTo(n) > 0}
    /\ roots # {}
    /\ room \in Rooms /\ Cardinality(roots) <= room
    /\ color = [n \in Node |-> IF n \in roots THEN "PURPLE" ELSE "BLACK"]
    /\ garbage = {} /\ dtors = {}
    /\ phase = "mark"
    /\ pending = roots
    /\ stack = {} /\ black = {}
    /\ flagged = FALSE
    /\ count = 0

-----------------------------------------------------------------------------
(* gc_mark_roots, gc_mark_grey: subtract the references from what the      *)
(* roots reach.                                                            *)

MarkRoot(r) ==
    /\ phase = "mark" /\ stack = {} /\ r \in pending
    /\ pending' = pending \ {r}
    /\ IF color[r] = "PURPLE"
       THEN color' = Paint({r}, "GREY") /\ stack' = {r}
       ELSE UNCHANGED <<color, stack>>
    /\ UNCHANGED <<program, rc, buffer, phase, black, flagged, count>>

\* Faulty variant: grey values are pushed again.
MarkVisitAgain(n) ==
    LET followed == Followed(n, Node \ Colored("GREY"))
    IN  /\ phase = "mark" /\ n \in stack
        /\ rc' = DelRefs(followed)
        /\ color' = Paint(Targets(followed), "GREY")
        /\ stack' = (stack \ {n}) \cup Targets(followed)
        /\ UNCHANGED <<program, buffer, phase, pending, black, flagged, count>>

MarkVisit(n) ==
    LET fresh == Node \ Colored("GREY")
        followed == Followed(n, fresh)
        found == Targets(followed) \cap fresh
    IN  /\ phase = "mark" /\ n \in stack
        /\ rc' = DelRefs(followed)
        /\ color' = Paint(found, "GREY")
        /\ stack' = (stack \ {n}) \cup (found \ Expanded(n, fresh))
        /\ UNCHANGED <<program, buffer, phase, pending, black, flagged, count>>

MarkDone ==
    /\ phase = "mark" /\ stack = {} /\ pending = {}
    /\ phase' = "scan"
    /\ pending' = roots
    /\ UNCHANGED <<program, rc, color, buffer, stack, black, flagged, count>>

-----------------------------------------------------------------------------
(* gc_scan_roots, gc_scan: a grey value whose count is zero turns white, a *)
(* white value whose count is not is in use, with all that it reaches.     *)

ScanRoot(r) ==
    /\ phase = "scan" /\ stack = {} /\ black = {} /\ r \in pending
    /\ pending' = pending \ {r}
    /\ IF color[r] = "GREY"
       THEN color' = Paint({r}, "WHITE") /\ stack' = {r}
       ELSE UNCHANGED <<color, stack>>
    /\ UNCHANGED <<program, rc, buffer, phase, black, flagged, count>>

\* The value has turned black since it was pushed.
ScanSkip(n) ==
    /\ phase = "scan" /\ black = {} /\ n \in stack
    /\ color[n] # "WHITE"
    /\ stack' = stack \ {n}
    /\ UNCHANGED <<program, rc, color, buffer, phase, pending, black, flagged, count>>

\* Faulty variant: every white value passes for one in use.
ScanInUseAlways(n) ==
    /\ phase = "scan" /\ black = {} /\ n \in stack
    /\ color[n] = "WHITE" /\ rc[n] >= 0
    /\ color' = Paint({n}, "BLACK")
    /\ stack' = stack \ {n}
    /\ black' = {n}
    /\ UNCHANGED <<program, rc, buffer, phase, pending, flagged, count>>

ScanInUse(n) ==
    /\ phase = "scan" /\ black = {} /\ n \in stack
    /\ color[n] = "WHITE" /\ rc[n] > 0
    /\ color' = Paint({n}, "BLACK")
    /\ stack' = stack \ {n}
    /\ black' = {n}
    /\ UNCHANGED <<program, rc, buffer, phase, pending, flagged, count>>

\* Faulty variant: one reference that is left does not count.
ScanWhiteButOne(n) ==
    LET fresh == Colored("GREY")
        found == Targets(Followed(n, fresh)) \cap fresh
    IN  /\ phase = "scan" /\ black = {} /\ n \in stack
        /\ color[n] = "WHITE" /\ rc[n] <= 1
        /\ color' = Paint(found, "WHITE")
        /\ stack' = (stack \ {n}) \cup found
        /\ UNCHANGED <<program, rc, buffer, phase, pending, black, flagged, count>>

\* Unlike the other traversals this one pushes the ht that it expands.
ScanWhite(n) ==
    LET fresh == Colored("GREY")
        found == Targets(Followed(n, fresh)) \cap fresh
    IN  /\ phase = "scan" /\ black = {} /\ n \in stack
        /\ color[n] = "WHITE" /\ rc[n] <= 0
        /\ color' = Paint(found, "WHITE")
        /\ stack' = (stack \ {n}) \cup found
        /\ UNCHANGED <<program, rc, buffer, phase, pending, black, flagged, count>>

\* gc_scan_black: runs to its end before gc_scan goes on.
BlackVisit(n) ==
    LET fresh == Node \ Colored("BLACK")
        followed == Followed(n, fresh)
        found == Targets(followed) \cap fresh
    IN  /\ phase = "scan" /\ n \in black
        /\ rc' = AddRefs(followed)
        /\ color' = Paint(found, "BLACK")
        /\ black' = (black \ {n}) \cup (found \ Expanded(n, fresh))
        /\ UNCHANGED <<program, buffer, phase, pending, stack, flagged, count>>

\* The first loop of gc_collect_roots forgets the roots that are in use.
ScanDone ==
    /\ phase = "scan" /\ stack = {} /\ black = {} /\ pending = {}
    /\ phase' = "collect"
    /\ roots' = roots \ Colored("BLACK")
    /\ pending' = roots'
    /\ UNCHANGED <<program, rc, color, garbage, dtors, stack, black, flagged, count>>

-----------------------------------------------------------------------------
(* gc_collect_roots, gc_collect_white: tag what is white, give it its      *)
(* references back.                                                        *)

CollectRoot(r) ==
    /\ phase = "collect" /\ stack = {} /\ r \in pending
    /\ pending' = pending \ {r}
    /\ garbage' = garbage \cup {r}
    /\ IF color[r] = "WHITE"
       THEN color' = Paint({r}, "BLACK") /\ stack' = {r}
       ELSE UNCHANGED <<color, stack>>
    /\ UNCHANGED <<program, rc, roots, dtors, phase, black, flagged, count>>

\* Faulty variant: only objects are added.
AddedObject(n) ==
    IF \/ n \in Reference \cup Array \cup freeing \cup roots
       \/ Cardinality(roots) >= room
    THEN {} ELSE {n}

\* gc_add_garbage gives n a slot of the buffer unless it cannot grow.
Added(n) ==
    IF \/ n \in Reference \cup freeing \cup roots
       \/ Cardinality(roots) >= room
    THEN {} ELSE {n}

\* Faulty variant: the flag is that of the last value.
CollectVisitLastFlag(n) ==
    LET fresh == Colored("WHITE")
        followed == Followed(n, fresh)
        found == Targets(followed) \cap fresh
    IN  /\ phase = "collect" /\ n \in stack
        /\ count' = IF n \in Reference THEN count ELSE count + 1
        /\ roots' = roots \cup Added(n)
        /\ garbage' = garbage \cup Added(n)
        /\ flagged' = (n \in HasDtor \ freeing)
        /\ rc' = AddRefs(followed)
        /\ color' = Paint(found, "BLACK")
        /\ stack' = (stack \ {n}) \cup (found \ Expanded(n, fresh))
        /\ UNCHANGED <<program, dtors, phase, pending, black>>

CollectVisit(n) ==
    LET fresh == Colored("WHITE")
        followed == Followed(n, fresh)
        found == Targets(followed) \cap fresh
    IN  /\ phase = "collect" /\ n \in stack
        /\ count' = IF n \in Reference THEN count ELSE count + 1
        /\ roots' = roots \cup Added(n)
        /\ garbage' = garbage \cup Added(n)
        /\ flagged' = (flagged \/ n \in HasDtor \ freeing)
        /\ rc' = AddRefs(followed)
        /\ color' = Paint(found, "BLACK")
        /\ stack' = (stack \ {n}) \cup (found \ Expanded(n, fresh))
        /\ UNCHANGED <<program, dtors, phase, pending, black>>

\* Nothing is left in the buffer, or no destructor has to be called.
CollectDone ==
    /\ phase = "collect" /\ stack = {} /\ pending = {}
    /\ roots = {} \/ ~flagged
    /\ phase' = "verdict"
    /\ UNCHANGED <<program, rc, color, buffer, pending, stack, black, flagged, count>>

-----------------------------------------------------------------------------
(* zend_gc_collect_cycles: objects whose destructor will be called leave   *)
(* this run, with the values they lead to.                                 *)

\* The other objects are marked IS_OBJ_DESTRUCTOR_CALLED, which nothing here
\* reads again.
TagDtors ==
    LET called == garbage \cap HasDtor
    IN  /\ phase = "collect" /\ stack = {} /\ pending = {}
        /\ roots # {} /\ flagged
        /\ phase' = "nested"
        /\ garbage' = garbage \ called
        /\ dtors' = called
        /\ pending' = called
        /\ color' = Paint(called, "PURPLE")
        /\ UNCHANGED <<program, rc, roots, stack, black, flagged, count>>

\* GC_REMOVE_FROM_BUFFER of the members of S, black already.
Remove(S) ==
    /\ roots' = roots \ S
    /\ garbage' = garbage \ S
    /\ dtors' = dtors \ S

Removable(S) == {m \in S : m \in roots /\ color[m] = "BLACK"}

\* The ht of n is expanded, whatever its colour, and not pushed.
Nested(n) == Targets((Fields(n) \ Table) \cup UNION {Fields(h) : h \in TablesOf(n)})

NestedRoot(p) ==
    /\ phase = "nested" /\ stack = {} /\ p \in pending
    /\ pending' = pending \ {p}
    /\ Remove(Removable(TablesOf(p)))
    /\ stack' = Nested(p)
    /\ count' = count - 1
    /\ UNCHANGED <<program, rc, color, phase, black, flagged>>

NestedVisit(n) ==
    /\ phase = "nested" /\ n \in stack
    /\ n \in Removable(Node)
    /\ Remove({n} \cup Removable(TablesOf(n)))
    /\ stack' = (stack \ {n}) \cup Nested(n)
    /\ count' = count - 1
    /\ UNCHANGED <<program, rc, color, phase, pending, black, flagged>>

\* Faulty variant: nothing ends the descent.
NestedPassAll(n) ==
    /\ phase = "nested" /\ n \in stack
    /\ n \notin Removable(Node)
    /\ stack' = (stack \ {n}) \cup Children(n)
    /\ UNCHANGED <<program, rc, color, buffer, phase, pending, black, flagged, count>>

\* A reference is followed, anything else ends the descent.
NestedPass(n) ==
    /\ phase = "nested" /\ n \in stack
    /\ n \notin Removable(Node)
    /\ stack' = (stack \ {n}) \cup (IF n \in Reference THEN Children(n) ELSE {})
    /\ UNCHANGED <<program, rc, color, buffer, phase, pending, black, flagged, count>>

NestedDone ==
    /\ phase = "nested" /\ stack = {} /\ pending = {}
    /\ phase' = "verdict"
    /\ UNCHANGED <<program, rc, color, buffer, pending, stack, black, flagged, count>>

\* Destructors are called and garbage is freed next: not in this module.
Over == phase = "verdict" /\ UNCHANGED vars

Next ==
    \/ MarkDone \/ ScanDone \/ CollectDone \/ TagDtors \/ NestedDone \/ Over
    \/ \E n \in Node :
        \/ MarkRoot(n) \/ MarkVisit(n)
        \/ ScanRoot(n) \/ ScanSkip(n) \/ ScanInUse(n) \/ ScanWhite(n) \/ BlackVisit(n)
        \/ CollectRoot(n) \/ CollectVisit(n)
        \/ NestedRoot(n) \/ NestedVisit(n) \/ NestedPass(n)

Spec == Init /\ [][Next]_vars

-----------------------------------------------------------------------------
(* Properties.                                                             *)

TypeOK ==
    /\ HeapInv
    /\ rc \in [Node -> Nat]
    /\ color \in [Node -> Colors]
    /\ roots \subseteq Object \cup Array
    /\ garbage \subseteq roots
    /\ dtors \subseteq roots \cap HasDtor
    /\ phase \in Phases
    /\ pending \subseteq Node
    /\ stack \subseteq Node
    /\ black \subseteq Node
    /\ flagged \in BOOLEAN
    /\ count \in Int

\* The values whose references are subtracted in the present phase.
Subtracted ==
    CASE phase = "mark" -> Colored("GREY") \ stack
      [] phase = "scan" -> Colored("GREY") \cup Colored("WHITE") \cup black
      [] phase = "collect" -> Colored("WHITE") \cup stack
      [] OTHER -> {}

\* In every phase a count is what it was when the collection began, less the
\* references that are subtracted: each once, although a value may be reached
\* many times, as a child, a root, or the ht of an object.  In particular the
\* collector gives back all that it took (GC_DELREF in gc_mark_grey against
\* GC_ADDREF in gc_scan_black and gc_collect_white).
RefcountsExact ==
    \A n \in Node :
        rc[n] = held[n] + Cardinality({s \in Slot : heap[s] = n /\
                                        Owner[s] \notin Subtracted \ freeing})

\* What gc_collect_roots tags for destruction, the program cannot reach: not
\* from a variable, not from an object whose free handler is running.
GarbageUnreachable == \A n \in garbage \cup dtors : Unreachable(n)

\* A root that the first loop of gc_collect_roots forgets is in use: some
\* value outside of what the roots lead to refers to it, directly or not.
ForgetsOnlyUsedRoots ==
    [][phase = "scan" =>
        \A r \in roots \ roots' :
            ~ \E S \in SUBSET Node :
                r \in S /\ Isolated(S) /\ \A n \in S : Reaches(roots, n)]_vars

\* No value keeps a colour of the collector: one that did would be skipped by
\* the next gc_mark_grey, or not be rooted by GC_MAY_LEAK.
ColorsRestored ==
    phase = "verdict" =>
        color = [n \in Node |-> IF n \in dtors THEN "PURPLE" ELSE "BLACK"]

\* The properties tables of the members of S.
TablesIn(S) == {heap[s] : s \in {t \in Table : Owner[t] \in S}}

\* With no destructor in the way, all that garbage leads to and nothing else
\* does is garbage too, references and properties tables aside, which are
\* released by their owners; unless the buffer is full.
Fits == Cardinality({n \in Object \cup Array : RefsTo(n) > 0}) <= room
GarbageComplete ==
    phase = "verdict" /\ dtors = {} /\ Fits =>
        \A S \in SUBSET Node :
            Isolated(S) /\ (\A n \in S : Reaches(garbage, n))
                => S \subseteq garbage \cup TablesIn(garbage) \cup Reference

\* No object is freed in this run whose destructor has not been called
\* (GC_HAS_DESTRUCTORS, zend_gc.c:2039: the flag misses none of them).
NoneFreedUndestructed == phase = "verdict" => garbage \cap HasDtor = {}

\* A destructor never sees a value that this run is about to free:
\* gc_remove_nested_data_from_buffer has taken out all that it can reach.
DestructorsSeeNoGarbage ==
    phase = "verdict" => \A n \in garbage : ~Reaches(dtors, n)

\* The same for heaps in which no array value shares a properties table, and
\* when the buffer has room for all: the descent then finds all that the
\* expansion of gc_collect_white tagged.
DestructorsOfUnsharedTables == Unshared /\ Fits => DestructorsSeeNoGarbage

\* What gc_collect_cycles() returns for this run is the number of values that
\* it frees, unless the buffer is full or there are properties tables.
NoTables == \A s \in Table : heap[s] = NoNode
CountExact ==
    phase = "verdict" /\ Fits /\ NoTables => count = Cardinality(garbage)

\* The collection gives back what it borrows from the heap: counts and colors.
Restored == RefcountsExact /\ ColorsRestored

\* It finds and counts all of the garbage.
GarbageAccounted == GarbageComplete /\ CountExact

\* Destructors that have yet to run see nothing that this run frees, and are
\* not skipped.
DestructorsSafe == NoneFreedUndestructed /\ DestructorsOfUnsharedTables

\* Every collection comes to its end, on any heap: each step makes a new phase,
\* leaves fewer roots to begin with, or fewer colors to change (in the last
\* phase, fewer values to take out of the buffer), or shortens the stack; a
\* reference on it may stand for what it refers to.
Order == [p \in Phases |->
    CASE p = "mark" -> 0 [] p = "scan" -> 1 [] p = "collect" -> 2 [] p = "nested" -> 3 [] OTHER -> 4]
ToChange ==
    CASE phase = "mark" -> (Node \ Colored("GREY")) \X {"grey"}
      [] phase = "scan" -> Colored("GREY") \X {"white"} \cup (Node \ Colored("BLACK")) \X {"black"}
      [] phase = "collect" -> Colored("WHITE") \X {"black"}
      [] OTHER -> roots \X {"removed"}
Waiting == stack \X {"stack"} \cup black \X {"black"}
Shrinks(S) == S' \subseteq S /\ S' # S
Same(S) == S' = S
Down ==
    \/ Order[phase'] > Order[phase]
    \/ /\ phase' = phase
       /\ \/ Shrinks(pending)
          \/ /\ Same(pending)
             /\ \/ Shrinks(ToChange)
                \/ /\ Same(ToChange)
                   /\ \/ Shrinks(stack \cap Reference)
                      \/ Same(stack \cap Reference) /\ Shrinks(Waiting)
StepsDown == [][Down]_vars

-----------------------------------------------------------------------------
(* The inductive invariant, used by the proofs of GcTraceProofs.           *)

\* Every member of C is reached from From along members of C: no trail of
\* the collector's colour is left behind where no stack or root leads to it.
LedTo(C, From) ==
    \A T \in SUBSET Node :
        (From \subseteq T /\ \A m \in T : Children(m) \cap C \subseteq T)
            => C \subseteq T

TypeInv ==
    /\ HeapInv
    /\ rc \in [Node -> Int]
    /\ color \in [Node -> Colors]
    /\ roots \subseteq Object \cup Array
    /\ garbage \subseteq roots
    /\ dtors \subseteq roots \cap HasDtor
    /\ phase \in Phases
    /\ pending \subseteq roots
    /\ stack \subseteq Node
    /\ black \subseteq Node
    /\ flagged \in BOOLEAN
    /\ count \in Int

\* Grey values have been visited or are on the stack; roots turn grey.
MarkInv ==
    /\ black = {} /\ garbage = {} /\ dtors = {}
    /\ Colored("WHITE") = {}
    /\ Colored("PURPLE") \subseteq pending
    /\ roots \subseteq Colored("PURPLE") \cup Colored("GREY")
    /\ stack \subseteq Colored("GREY")
    /\ \A n \in Colored("GREY") \ stack : Children(n) \subseteq Colored("GREY")
    /\ LedTo(Colored("GREY"), roots \ pending)

\* Nothing that only the marked values lead to loses its grey or white.
CyclesStay ==
    \A S \in SUBSET Node :
        Isolated(S) /\ (\A n \in S : Reaches(roots, n))
            => S \subseteq Colored("GREY") \cup Colored("WHITE")

ScanInv ==
    /\ garbage = {} /\ dtors = {}
    /\ Colored("PURPLE") = {}
    /\ black \subseteq Colored("BLACK")
    /\ stack \subseteq Colored("WHITE") \cup Colored("BLACK")
    /\ \A n \in Colored("WHITE") \ stack : rc[n] = 0
    /\ \A n \in Colored("WHITE") \ stack : Children(n) \cap Colored("GREY") = {}
    /\ \A n \in ((roots \cup stack) \cap Colored("BLACK")) \ black :
            Children(n) \cap Colored("GREY") = {}
    /\ LedTo(Colored("GREY"), pending \cup stack \cup black)
    /\ LedTo(Colored("WHITE"), (roots \cap Colored("WHITE")) \cup black)
    /\ CyclesStay

\* All that is tagged or will be lies in a set the program cannot reach.
Condemned ==
    \E S \in SUBSET Node :
        /\ Isolated(S)
        /\ roots \subseteq S
        /\ phase = "collect" => Colored("WHITE") \cup stack \subseteq S

CollectInv ==
    /\ black = {} /\ dtors = {}
    /\ Condemned
    /\ Node \subseteq Colored("WHITE") \cup Colored("BLACK")
    /\ stack \subseteq Colored("BLACK")
    /\ \A n \in (roots \cap Colored("BLACK")) \ stack :
            Children(n) \cap Colored("WHITE") = {}
    /\ \A n \in ((roots \cap HasDtor) \cap Colored("BLACK")) \ stack : flagged
    /\ LedTo(Colored("WHITE"), pending \cup stack)

NestedInv ==
    /\ Condemned
    /\ garbage \cap HasDtor = {}
    /\ pending \subseteq dtors
    /\ Colored("PURPLE") = dtors
    /\ Node \subseteq Colored("PURPLE") \cup Colored("BLACK")

IInv ==
    /\ TypeInv
    /\ RefcountsExact
    /\ phase = "mark" => MarkInv
    /\ phase = "scan" => ScanInv
    /\ phase = "collect" => CollectInv
    /\ phase \in {"nested", "verdict"} => NestedInv

-----------------------------------------------------------------------------
(* A second invariant, inductive with the first: what becomes of everything *)
(* that is condemned.                                                      *)

\* W holds all that only W leads to.
Whole(W) ==
    \A S \in SUBSET Node : Isolated(S) /\ (\A n \in S : Reaches(W, n)) => S \subseteq W

\* Everything condemned is still white, on the stack, or has got what
\* gc_add_garbage had to give it.
CollectExact ==
    /\ \E W \in SUBSET Node :
          /\ Isolated(W) /\ Whole(W)
          /\ roots \cup Colored("WHITE") \cup stack \subseteq W
          /\ Fits => W \subseteq roots \cup TablesIn(roots) \cup Reference
                                \cup Colored("WHITE") \cup stack
    /\ roots \ pending \subseteq garbage
    /\ \A n \in roots \cup stack : RefsTo(n) > 0
    /\ Fits /\ NoTables => count = Cardinality((roots \cap Colored("BLACK")) \ stack)

\* What destructors lead to and is not yet removed, the descent is going to
\* reach along values that do not end it.
Lead(n) == Nested(n) \cup TablesOf(n)
Trail ==
    \A T \in SUBSET Node :
        (/\ pending \cup stack \subseteq T
         /\ \A n \in T \cap (pending \cup garbage \cup Reference) : Lead(n) \subseteq T)
            => \A g \in garbage : Reaches(dtors, g) => g \in T

NestedExact ==
    /\ roots = garbage \cup dtors
    /\ dtors = {} => /\ stack = {}
                     /\ \E W \in SUBSET Node :
                           /\ Whole(W) /\ garbage \subseteq W
                           /\ Fits => W \subseteq garbage \cup TablesIn(garbage) \cup Reference
    /\ Unshared /\ Fits => Trail
    /\ Fits /\ NoTables => count = Cardinality(garbage) + Cardinality(pending)

TraceInv ==
    /\ phase \in {"mark", "scan"} => count = 0 /\ \A n \in roots : RefsTo(n) > 0
    /\ phase = "collect" => CollectExact
    /\ phase \in {"nested", "verdict"} => NestedExact
    /\ phase = "verdict" => pending = {} /\ stack = {}
=============================================================================
