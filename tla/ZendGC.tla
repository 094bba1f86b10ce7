------------------------------- MODULE ZendGC -------------------------------
(***************************************************************************)
(* Reference counts, destructors and the cycle collector together          *)
(* (Zend/zend_gc.c, zend_objects_API.c, zend_objects.c): a program that    *)
(* assigns, unsets and creates objects, objects that are deleted when      *)
(* their count drops to zero, a collection at any point at which one may   *)
(* be due, and destructors, called by either, which are programs of their  *)
(* own: they revive objects, create others, and may start a collection.    *)
(*                                                                         *)
(* GcTrace shows how a trial deletion finds its garbage, GcRootBuffer how  *)
(* the buffer keeps its roots; here both are what they come to.  Heaps are *)
(* of objects; the order of the slots of the buffer is left open, and so   *)
(* is the moment at which the threshold is reached.  Weak references,      *)
(* fatal errors and a buffer that cannot grow are left out.                *)
(***************************************************************************)
EXTENDS Integers, Sequences, FiniteSets, SequencesExt, FiniteSetsExt

CONSTANTS
    Object,         \* the memory objects are allocated from
    Nil,            \* no object
    Slot,           \* variables and properties, numbered in the order of release
    Owner,          \* the object a slot is a property of, or Global
    Global,
    HasDestructor   \* objects of a class with __destruct

ASSUME GCAssumption ==
    /\ Nil \notin Object /\ Global \notin Object
    /\ Slot \subseteq Nat /\ IsFiniteSet(Slot)
    /\ Owner \in [Slot -> Object \cup {Global}]
    /\ HasDestructor \subseteq Object

VARIABLES
    heap,       \* what a slot holds
    memory,     \* of an object: free, live, dying (IS_OBJ_FREE_CALLED), or
                \* null (released by the collector, GC_TYPE is IS_NULL)
    rc,         \* GC_REFCOUNT
    tag,        \* its entry in the root buffer
    called,     \* IS_OBJ_DESTRUCTOR_CALLED
    stack       \* the calls in progress, the innermost last

vars == <<heap, memory, rc, tag, called, stack>>

Init ==
    /\ heap = [s \in Slot |-> Nil]
    /\ memory = [o \in Object |-> "free"]
    /\ rc = [o \in Object |-> 0]
    /\ tag = [o \in Object |-> "none"]
    /\ called = {}
    /\ stack = <<>>

-----------------------------------------------------------------------------
(* Counts, roots and reachability.                                         *)

Tagged(t) == {o \in Object : tag[o] = t}
Memory(m) == {o \in Object : memory[o] = m}
SlotsOf(S) == {s \in Slot : Owner[s] \in S}
Refs(S) == {heap[s] : s \in S} \ {Nil}

\* What is in every set that holds S and what its live objects refer to.
Closed(T) == Refs(SlotsOf(T \cap Memory("live"))) \subseteq T
Reach(S) == {o \in Object : \A T \in SUBSET Object : S \subseteq T /\ Closed(T) => o \in T}

Top == Last(stack)
On(op, at) == stack # <<>> /\ Top.op = op /\ Top.at = at
Above(f) == Append(Front(stack), f)
Goto(at) == Above([Top EXCEPT !.at = at])

Delete(o) == [op |-> "delete", at |-> "enter", obj |-> o]
Destruct(o) == [op |-> "destruct", at |-> "run", obj |-> o]
Free(o, by) == [op |-> "free", at |-> by, obj |-> o]
WhenFull(o) == [op |-> "full", at |-> "wait", obj |-> o]
Collect(first) == [op |-> "collect", at |-> "start", obj |-> Nil, first |-> first, dtors |-> FALSE]

\* Faulty variant: a destructor may start a collection inside of a collection.
gc_activeNot(st) == FALSE
gc_active(st) == \E i \in DOMAIN st : st[i].op = "collect"

\* A reference to o is given up, counts being cnt: the last one deletes it, any
\* other makes it a possible root, for which the buffer may be full.
Drop(o, cnt, st) ==
    LET less == [cnt EXCEPT ![o] = @ - 1]
    IN  \/ /\ less[o] = 0
           /\ rc' = less /\ UNCHANGED tag
           /\ stack' = IF memory[o] = "live" THEN Append(st, Delete(o)) ELSE st
        \/ /\ less[o] # 0 /\ tag[o] = "none"
           /\ rc' = less /\ tag' = [tag EXCEPT ![o] = "root"]
           /\ stack' = st
        \/ /\ less[o] # 0 /\ tag[o] = "none" /\ ~gc_active(st)
           /\ rc' = cnt /\ UNCHANGED tag
           /\ stack' = st \o <<WhenFull(o), Collect(TRUE)>>
        \/ /\ less[o] # 0 /\ tag[o] # "none"
           /\ rc' = less /\ UNCHANGED tag
           /\ stack' = st
-----------------------------------------------------------------------------
(* The program: the script, or the innermost destructor.                   *)

Running == stack = <<>> \/ On("destruct", "run")
Destructing == {stack[i].obj : i \in {j \in DOMAIN stack : stack[j].op = "destruct"}}
Reachable == Reach(Refs(SlotsOf({Global})) \cup Destructing)

\* The value of s is replaced by one that is counted already.
Replace(s, v, cnt) ==
    /\ heap' = [heap EXCEPT ![s] = v]
    /\ IF heap[s] = Nil
       THEN rc' = cnt /\ UNCHANGED <<tag, stack>>
       ELSE Drop(heap[s], cnt, stack)

Assign(s, o) ==
    /\ Replace(s, o, [rc EXCEPT ![o] = @ + 1])
    /\ UNCHANGED <<memory, called>>

Unset(s) ==
    /\ heap[s] # Nil
    /\ Replace(s, Nil, rc)
    /\ UNCHANGED <<memory, called>>

New(o, s) ==
    /\ memory[o] = "free"
    /\ memory' = [memory EXCEPT ![o] = "live"]
    /\ called' = called \ {o}
    /\ Replace(s, o, [rc EXCEPT ![o] = 1])

CollectCycles ==
    /\ ~gc_active(stack)
    /\ stack' = Append(stack, Collect(TRUE))
    /\ UNCHANGED <<heap, memory, rc, tag, called>>

\* zend_objects_destroy_object ends: OBJ_RELEASE.
DestructorReturns ==
    /\ On("destruct", "run")
    /\ Drop(Top.obj, rc, Front(stack))
    /\ UNCHANGED <<heap, memory, called>>

-----------------------------------------------------------------------------
(* zend_objects_store_del.                                                 *)

\* free_obj is called with a reference held.
FreeObj(o) ==
    /\ memory' = [memory EXCEPT ![o] = "dying"]
    /\ rc' = [rc EXCEPT ![o] = 1]
    /\ stack' = Above(Free(o, "delete"))

\* Faulty variant: a revived object's destructor is called again.
NeedsDestructorAgain(o) == o \in HasDestructor
NeedsDestructor(o) == o \in HasDestructor \ called

DelEnter ==
    /\ On("delete", "enter")
    /\ LET o == Top.obj
       IN  IF NeedsDestructor(o)
           THEN /\ called' = called \cup {o}
                /\ rc' = [rc EXCEPT ![o] = 2]
                /\ stack' = Append(Goto("called"), Destruct(o))
                /\ UNCHANGED memory
           ELSE FreeObj(o) /\ UNCHANGED called
    /\ UNCHANGED <<heap, tag>>

DelCalled ==
    /\ On("delete", "called")
    /\ LET o == Top.obj
       IN  IF rc[o] = 1
           THEN FreeObj(o)
           ELSE /\ rc' = [rc EXCEPT ![o] = @ - 1]
                /\ stack' = Front(stack)
                /\ UNCHANGED memory
    /\ UNCHANGED <<heap, tag, called>>

\* zend_object_std_dtor gives up one property after the other.
Freeing == stack # <<>> /\ Top.op = "free"
Left == {s \in SlotsOf({Top.obj}) : heap[s] # Nil}

FreeSlot ==
    /\ Freeing /\ Left # {}
    /\ LET s == Min(Left)
       IN  /\ heap' = [heap EXCEPT ![s] = Nil]
           /\ Drop(heap[s], rc, stack)
    /\ UNCHANGED <<memory, called>>

FreeDone ==
    /\ Freeing /\ Left = {}
    /\ LET o == Top.obj
       IN  /\ rc' = [rc EXCEPT ![o] = @ - 1]
           /\ IF Top.at = "delete"
              THEN /\ memory' = [memory EXCEPT ![o] = "free"]
                   /\ tag' = [tag EXCEPT ![o] = "none"]
              ELSE UNCHANGED <<memory, tag>>
    /\ stack' = Front(stack)
    /\ UNCHANGED <<heap, called>>

-----------------------------------------------------------------------------
(* zend_gc_collect_cycles, gc_possible_root_when_full.                     *)

\* What gc_mark_roots, gc_scan_roots and gc_collect_roots come to.
Grey == Reach(Tagged("root"))
Within(o) == Cardinality({s \in SlotsOf(Grey \cap Memory("live")) : heap[s] = o})
\* Faulty variant: as if nothing could be garbage that has references.
BlackIfAny == Reach({o \in Grey : rc[o] >= Within(o)})
Black == Reach({o \in Grey : rc[o] > Within(o)})
White == Grey \ Black

\* What gc_remove_nested_data_from_buffer takes out, of the garbage.
\* Faulty variant: they stay garbage.
NestedNone(dtors) == {}
Nested(dtors) == (Reach(dtors) \cap White) \ dtors

Tag(dtors) ==
    [o \in Object |->
        CASE o \in dtors -> "dtor"
          [] o \in White \ (dtors \cup Nested(dtors)) -> "garbage"
          [] OTHER -> "none"]

Trace ==
    /\ On("collect", "start")
    /\ LET dtors == {o \in White : NeedsDestructor(o)}
       IN  /\ tag' = Tag(dtors)
           /\ stack' = IF White = {} THEN Front(stack)
                       ELSE Above([Top EXCEPT !.at = "dtors", !.dtors = dtors # {}])
    /\ UNCHANGED <<heap, memory, rc, called>>

CallDestructor(o) ==
    /\ On("collect", "dtors") /\ tag[o] = "dtor"
    /\ tag' = [tag EXCEPT ![o] = "root"]
    /\ IF o \in called
       THEN UNCHANGED <<rc, called, stack>>
       ELSE /\ called' = called \cup {o}
            /\ rc' = [rc EXCEPT ![o] = @ + 2]
            /\ stack' = Append(Above([Top EXCEPT !.at = "called", !.obj = o]),
                               Destruct(o))
    /\ UNCHANGED <<heap, memory>>

Called ==
    /\ On("collect", "called")
    /\ rc' = [rc EXCEPT ![Top.obj] = @ - 1]
    /\ stack' = Above([Top EXCEPT !.at = "dtors", !.obj = Nil])
    /\ UNCHANGED <<heap, memory, tag, called>>

DestructorsCalled ==
    /\ On("collect", "dtors") /\ Tagged("dtor") = {}
    /\ stack' = Goto("destroy")
    /\ UNCHANGED <<heap, memory, rc, tag, called>>

Destroy(o) ==
    /\ On("collect", "destroy") /\ tag[o] = "garbage" /\ memory[o] = "live"
    /\ memory' = [memory EXCEPT ![o] = "null"]
    /\ rc' = [rc EXCEPT ![o] = @ + 1]
    /\ stack' = Append(stack, Free(o, "collect"))
    /\ UNCHANGED <<heap, tag, called>>

\* The memory of the garbage is freed, and what destructors may have left
\* behind is looked for at once, but not a third time.
Reclaim ==
    /\ On("collect", "destroy") /\ Tagged("garbage") \cap Memory("live") = {}
    /\ LET freed == Tagged("garbage")
       IN  /\ memory' = [o \in Object |-> IF o \in freed THEN "free" ELSE memory[o]]
           /\ tag' = [o \in Object |-> IF o \in freed THEN "none" ELSE tag[o]]
    /\ stack' = IF Top.dtors /\ Top.first
                THEN Append(Front(stack), Collect(FALSE))
                ELSE Front(stack)
    /\ UNCHANGED <<heap, rc, called>>

\* The value that could not be rooted is given back.
FullReturns ==
    /\ On("full", "wait")
    /\ LET o == Top.obj
       IN  /\ rc' = [rc EXCEPT ![o] = @ - 1]
           /\ IF rc[o] = 1
              THEN stack' = Above(Delete(o)) /\ UNCHANGED tag
              ELSE /\ stack' = Front(stack)
                   /\ tag' = IF tag[o] = "none" THEN [tag EXCEPT ![o] = "root"] ELSE tag
    /\ UNCHANGED <<heap, memory, called>>

-----------------------------------------------------------------------------
Program ==
    \/ /\ Running
       /\ LET known == Reachable
          IN  \E s \in SlotsOf(known \cup {Global}) :
                  \/ Unset(s)
                  \/ \E o \in known : Assign(s, o)
                  \/ \E o \in Object : New(o, s)
    \/ Running /\ CollectCycles
    \/ DestructorReturns

Deletion == DelEnter \/ DelCalled \/ FreeSlot \/ FreeDone

Collector ==
    \/ Trace \/ Called \/ DestructorsCalled \/ Reclaim \/ FullReturns
    \/ \E o \in Object : CallDestructor(o) \/ Destroy(o)

Next == Program \/ Deletion \/ Collector

Spec == Init /\ [][Next]_vars

-----------------------------------------------------------------------------
(* Properties.                                                             *)

TypeOK ==
    /\ heap \in [Slot -> Object \cup {Nil}]
    /\ memory \in [Object -> {"free", "live", "dying", "null"}]
    /\ rc \in [Object -> Nat]
    /\ tag \in [Object -> {"none", "root", "dtor", "garbage"}]
    /\ called \subseteq Object
    /\ \A i \in DOMAIN stack :
        /\ stack[i].op \in {"delete", "destruct", "free", "full", "collect"}
        /\ stack[i].op = "collect" => \A j \in DOMAIN stack : stack[j].op = "collect" => j = i

\* A frame that holds a reference to its object.
Holds(f) == <<f.op, f.at>> \in {<<"delete", "called">>, <<"destruct", "run">>, <<"free", "delete">>,
                <<"free", "collect">>, <<"full", "wait">>, <<"collect", "called">>}

\* The count of an object is the number of slots and calls that hold it, after
\* any number of destructors, revivals and collections.
CountsExact ==
    \A o \in Object :
        rc[o] = Cardinality({s \in Slot : heap[s] = o})
                + Cardinality({i \in DOMAIN stack : Holds(stack[i]) /\ stack[i].obj = o})

\* Nothing that the program can reach, or the collector still needs, is freed:
\* what live objects hold is there, or is garbage as they are.
NoneDangling ==
    /\ \A o \in Reachable : memory[o] = "live"
    /\ \A s \in SlotsOf({o \in Object : memory[o] # "free"}) : heap[s] # Nil => memory[heap[s]] # "free"
    /\ Tagged("root") \cap (Memory("free") \cup Memory("null")) = {}

\* No object is forgotten: one that can no longer be reached is reached from a
\* root of the buffer, or from what a call in progress is about to give up.
InProgress ==
    Refs(SlotsOf(Memory("dying") \cup Memory("null")))
    \cup ({stack[i].obj : i \in DOMAIN stack} \ {Nil})
Lost == Memory("live") \ Reach(Refs(SlotsOf({Global})) \cup InProgress)
NoneForgotten == Lost \subseteq Reach(Object \ Tagged("none"))

\* Destructors, revivals and collections leave counts and references right: none
\* refers to what is gone, and what is out of reach is still looked at.
ReferencesSound == CountsExact /\ NoneDangling /\ NoneForgotten

\* A collection that calls no destructor leaves no garbage behind.
Ends(f) == f.op = "collect" /\ f.at \in {"start", "destroy"} /\ ~f.dtors
CollectsAll == [][stack # <<>> /\ Ends(Top) /\ stack' = Front(stack) => Lost' = {}]_vars

Value == [s \in Slot |-> IF Owner[s] \in Memory("live") \cup {Global} THEN heap[s] ELSE Nil]

Doomed == Tagged("dtor") \ called
Destructors == [i \in {j \in DOMAIN stack : stack[j].op = "destruct"} |-> stack[i].obj]

Abstract == INSTANCE ManagedHeap WITH
    value <- Value, alive <- Memory("live"), finalized <- called, doomed <- Doomed,
    running <- Destructors

\* Objects that the program can reach stay as it left them whatever destructors
\* and collections do; destructors are called once, for objects that were out of
\* reach, and before their objects go.
ImplementsManagedHeap == Abstract!Spec

-----------------------------------------------------------------------------
(* The inductive invariant, used by the proofs of ZendGCProofs.            *)

Frames ==
    [op : {"delete"}, at : {"enter", "called"}, obj : Object]
    \cup [op : {"destruct"}, at : {"run"}, obj : Object]
    \cup [op : {"free"}, at : {"delete", "collect"}, obj : Object]
    \cup [op : {"full"}, at : {"wait"}, obj : Object]
    \cup [op : {"collect"}, at : {"called"}, obj : Object, first : BOOLEAN, dtors : BOOLEAN]
    \cup [op : {"collect"}, at : {"start", "dtors", "destroy"}, obj : {Nil},
          first : BOOLEAN, dtors : BOOLEAN]

TypeInv ==
    /\ heap \in [Slot -> Object \cup {Nil}]
    /\ memory \in [Object -> {"free", "live", "dying", "null"}]
    /\ rc \in [Object -> Int]
    /\ tag \in [Object -> {"none", "root", "dtor", "garbage"}]
    /\ called \subseteq Object
    /\ stack \in Seq(Frames)

\* Which call f may be made on top of the calls st: only those that wait for
\* it, and no collection during another.
Is(f, op, at) == f.op = op /\ f.at = at
MayCall(st, f) ==
    /\ st # <<>> => ~Is(Last(st), "delete", "enter") /\ ~Is(Last(st), "collect", "start")
    /\ f.op = "destruct" =>
            /\ st # <<>> /\ Last(st).obj = f.obj
            /\ Is(Last(st), "delete", "called") \/ Is(Last(st), "collect", "called")
    /\ Is(f, "free", "collect") => st # <<>> /\ Is(Last(st), "collect", "destroy")
    /\ st # <<>> /\ Is(Last(st), "delete", "called") =>
            f.op \in {"destruct", "full"} /\ Last(st).obj = f.obj
    /\ f.op = "collect" => ~gc_active(st)

\* The same of every call in progress; nothing below a collection is condemned;
\* a deletion that has called the destructor finds the object in the buffer.
StackInv ==
    /\ \A i \in DOMAIN stack :
            /\ MayCall(SubSeq(stack, 1, i - 1), stack[i])
            /\ stack[i].op = "collect" =>
                    \A j \in 1 .. i - 1 : tag[stack[j].obj] \in {"none", "root"}
    /\ On("delete", "called") => tag[Top.obj] # "none"

\* What a call in progress relies on.
CallOK(f) ==
    /\ f.op \in {"delete", "destruct", "full"} \/ Is(f, "collect", "called") => memory[f.obj] = "live"
    /\ Is(f, "collect", "called") => tag[f.obj] = "root"
    /\ Is(f, "delete", "enter") => rc[f.obj] = 0
    /\ Is(f, "free", "delete") => memory[f.obj] = "dying"
    /\ Is(f, "free", "collect") => memory[f.obj] = "null"
    /\ Holds(f) /\ f.op # "free" => tag[f.obj] # "garbage"
CallsInv == \A f \in ToSet(stack) : CallOK(f)

\* Nothing refers to what is free or dying, and what is not freed yet is being
\* freed or has given up its references.
BeingFreed(o, by) == \E f \in ToSet(stack) : Is(f, "free", by) /\ f.obj = o
Emptied(o) == \A s \in SlotsOf({o}) : heap[s] = Nil
MemoryInv ==
    /\ \A o \in Memory("free") : tag[o] = "none" /\ Emptied(o)
    /\ \A s \in Slot : heap[s] \notin Memory("free") \cup Memory("dying")
    /\ \A o \in Memory("dying") : rc[o] = 1 /\ BeingFreed(o, "delete")
    /\ \A o \in Memory("null") : tag[o] = "garbage" /\ (Emptied(o) \/ BeingFreed(o, "collect"))

\* Garbage is what only garbage refers to, and has no destructor left to call.
Collecting(at) == \E f \in ToSet(stack) : f.op = "collect" /\ f.at \in at
GarbageInv ==
    /\ \A s \in Slot : heap[s] \in Tagged("garbage") => Owner[s] \in Tagged("garbage")
    /\ Tagged("garbage") \cap HasDestructor \subseteq called
    /\ Tagged("dtor") # {} => Collecting({"dtors", "called"})
    /\ Tagged("garbage") # {} => Collecting({"dtors", "called", "destroy"})

\* Every live object is reached from a variable, a call in progress, what is
\* about to be given up, or an entry of the buffer.
Anchors ==
    Refs(SlotsOf({Global} \cup Memory("dying") \cup Memory("null")))
    \cup ({f.obj : f \in ToSet(stack)} \ {Nil})
    \cup (Object \ Tagged("none"))
Anchored ==
    \A T \in SUBSET Object : Anchors \subseteq T /\ Closed(T) => Memory("live") \subseteq T

IInv == TypeInv /\ StackInv /\ CallsInv /\ MemoryInv /\ GarbageInv /\ CountsExact /\ Anchored

\* The destructors a collection has yet to call are those of live objects; who
\* deletes an object whose destructor returned finds it called.
FinalizedInv ==
    /\ Doomed \subseteq HasDestructor \cap Memory("live")
    /\ \A f \in ToSet(stack) : Is(f, "delete", "called") => f.obj \in called

\* A collection with no destructor to call: the calls on top of it dispose of its
\* garbage, and without the garbage every live object is reached from a variable
\* or from the calls below.
Clean(f) == f.op = "collect" /\ f.at \in {"dtors", "destroy"} /\ ~f.dtors
Disposes(f) == (f.op = "free" \/ Is(f, "delete", "enter")) /\ tag[f.obj] = "garbage"
KeptClosed(T) ==
    /\ \A s \in Slot :
            /\ heap[s] # Nil
            /\ \/ Owner[s] = Global
               \/ Owner[s] \in Memory("dying") \cup (Memory("live") \cap T) /\ tag[Owner[s]] # "garbage"
            => heap[s] \in T
    /\ \A f \in ToSet(stack) : f.obj \in Object \ Tagged("garbage") => f.obj \in T
CleanInv ==
    /\ \A f \in ToSet(stack) : Is(f, "collect", "called") => f.dtors
    /\ \A i, j \in DOMAIN stack : Clean(stack[i]) /\ i < j => Disposes(stack[j])
    /\ (\E f \in ToSet(stack) : Clean(f)) =>
            /\ Tagged("dtor") = {}
            /\ \A T \in SUBSET Object : KeptClosed(T) => Memory("live") \ Tagged("garbage") \subseteq T
=============================================================================
