---------------------------- MODULE ObjectsStore ----------------------------
(***************************************************************************)
(* The store of every object of a request (Zend/zend_objects_API.c, .h),   *)
(* the destructor call of zend_objects.c and the end of the request as     *)
(* main/main.c and zend_execute_API.c order it: shutdown functions,        *)
(* destructors of globals, destructors of the rest, output callbacks, and  *)
(* the release of what is left once the executor is inactive.              *)
(*                                                                         *)
(* Objects refer to one another through one property each and are held by  *)
(* global variables.  A destructor is any program: it creates objects,     *)
(* stores and unsets references, revives its object, dies of a fatal       *)
(* error.  Destructors run with fiber switching blocked, so that calls     *)
(* nest.  The cycle collector, modelled on its own, takes no step here.    *)
(* An allocation that fails is a fatal error before the store changes.     *)
(***************************************************************************)
EXTENDS Integers, Sequences, FiniteSets

CONSTANTS
    Object,         \* the memory objects are allocated from
    Nil,            \* no object
    HasDestructor,  \* those of a class with __destruct
    Generators,     \* those whose dtor_obj is a handler of their own: it runs
                    \* a finally block, without zend_call_function
    StdFree,        \* those with free_obj = zend_object_std_dtor
    Slots,          \* entries of EG(symbol_table)
    Bailouts,       \* the bailouts code causes: TRUE from a fatal error, FALSE
                    \* from another cause
    InitSize,       \* init_size of the store
    MaxHandle       \* bound on top - 1

ASSUME StoreAssumption ==
    /\ IsFiniteSet(Object)
    /\ Nil \notin Object
    /\ HasDestructor \subseteq Object
    /\ Generators \subseteq Object
    /\ HasDestructor \cap Generators = {}
    /\ StdFree \subseteq Object \ Generators
    /\ Slots \in Nat
    /\ Bailouts \subseteq BOOLEAN
    /\ InitSize \in Nat \ {0}
    /\ MaxHandle \in Nat

VARIABLES
    bucket,         \* object_buckets[1 .. top - 1]
    size,           \* its allocated size
    freeHead,       \* free_list_head
    noReuse,        \* EG_FLAGS_OBJECT_STORE_NO_REUSE
    unclean,        \* CG(unclean_shutdown)
    alloc,          \* objects whose memory is allocated
    rc, handle,     \* their fields
    dtorCalled,     \* IS_OBJ_DESTRUCTOR_CALLED
    freeCalled,     \* IS_OBJ_FREE_CALLED
    prop,           \* their property
    vars,           \* the global variables
    phase,          \* of the request
    cursor,         \* index of the loop of the phase
    symbols,        \* of shutdown_destructors
    called,         \* the loop of call_destructors waits for a destructor
    stack,          \* calls in progress, the innermost first
    runs            \* history: times user code ran as the object's destructor

storeVars == <<bucket, size, freeHead>>
modes == <<noReuse, unclean>>
objects == <<alloc, handle, freeCalled>>
loopVars == <<phase, cursor, symbols>>
vars_ == <<bucket, size, freeHead, noReuse, unclean, alloc, rc, handle,
           dtorCalled, freeCalled, prop, vars, phase, cursor, symbols, called,
           stack, runs>>

None == -1
Slot == 1 .. Slots
Valid(o) == [tag |-> "valid", obj |-> o]
Dying(o) == [tag |-> "dying", obj |-> o]        \* SET_OBJ_INVALID
Free(h) == [tag |-> "free", next |-> h]         \* SET_OBJ_BUCKET_NUMBER
Top == Len(bucket) + 1
IsValid(h) == bucket[h].tag = "valid"           \* IS_OBJ_VALID
Stored == {bucket[h].obj : h \in {i \in DOMAIN bucket : IsValid(i)}}
Symbols == Cardinality({s \in Slot : vars[s] # Nil})

\* zend_objects_store_free_object_storage, without and with fast_shutdown.
Releasing == phase \in {"release", "discard"}

ActiveExecutor ==
    phase \in {"script", "functions", "table", "sweep", "output"}

DelFrame(o, at) == [fn |-> "del", obj |-> o, at |-> at]
DtorFrame(o, at) == [fn |-> "dtor", obj |-> o, at |-> at]
In(fn, at) == stack # <<>> /\ Head(stack).fn = fn /\ Head(stack).at = at
This == Head(stack).obj
Resume(f) == <<f>> \o Tail(stack)

HasHandler(o) == o \in HasDestructor \cup Generators

(***************************************************************************)
(* References.                                                             *)
(***************************************************************************)

\* One reference to c, of the counts r, is given up over the calls s.
Drop(c, r, s) ==
    /\ rc' = IF c = Nil THEN r ELSE [r EXCEPT ![c] = @ - 1]
    /\ stack' = IF c # Nil /\ r[c] = 1 THEN <<DelFrame(c, "enter")>> \o s ELSE s

\* zend_object_std_dtor of o, or the close of a generator.
DropProperty(o, r, s) ==
    /\ prop' = [prop EXCEPT ![o] = Nil]
    /\ Drop(prop[o], r, s)

(***************************************************************************)
(* The program: the main script, a shutdown function, an output callback   *)
(* or a destructor, according to the phase and the innermost call.         *)
(***************************************************************************)
UserPhase == {"script", "functions", "output"}
UserRunning == IF stack = <<>> THEN phase \in UserPhase ELSE In("dtor", "run")

\* A late generator's finally block, run while the tables of the executor go
\* away, only returns or fails.
UserActs == UserRunning /\ ActiveExecutor

\* What the running code refers to by name, and what it reaches from there.
Named ==
    {vars[s] : s \in Slot} \cup
    (IF stack = <<>> THEN {}
     ELSE IF This \in Generators THEN {prop[This]} ELSE {This})
Reachable ==
    LET reach[n \in 0 .. Cardinality(Object)] ==
            IF n = 0 THEN Named
            ELSE reach[n - 1] \cup {prop[p] : p \in reach[n - 1] \ {Nil}}
    IN  reach[Cardinality(Object)] \ {Nil}

\* Faulty variant: freed handles are reused to the end.
ReuseAlways == freeHead # None

Reuse == freeHead # None /\ ~noReuse

\* zend_objects_store_put and put_cold.
Put(o) ==
    /\ handle' = [handle EXCEPT ![o] = IF Reuse THEN freeHead ELSE Top]
    /\ IF Reuse
       THEN /\ freeHead' = bucket[freeHead].next
            /\ bucket' = [bucket EXCEPT ![freeHead] = Valid(o)]
            /\ UNCHANGED size
       ELSE /\ bucket' = Append(bucket, Valid(o))
            /\ size' = IF Top = size THEN 2 * size ELSE size
            /\ UNCHANGED freeHead

\* `$s = new C'.  A constructor that stores $this and throws leaves the object
\* to its reference, marked by zend_object_store_ctor_failed.
New(o, s, failed) ==
    /\ UserActs /\ o \notin alloc /\ vars[s] = Nil
    /\ Reuse \/ Top <= MaxHandle
    /\ Put(o)
    /\ alloc' = alloc \cup {o}
    /\ rc' = [rc EXCEPT ![o] = 1]
    /\ dtorCalled' = IF failed THEN dtorCalled \cup {o} ELSE dtorCalled
    /\ vars' = [vars EXCEPT ![s] = o]
    /\ UNCHANGED <<modes, freeCalled, prop, loopVars, called, stack, runs>>

Assign(s, o) ==
    /\ UserActs /\ vars[s] = Nil /\ o \in Reachable
    /\ vars' = [vars EXCEPT ![s] = o]
    /\ rc' = [rc EXCEPT ![o] = @ + 1]
    /\ UNCHANGED <<storeVars, modes, objects, dtorCalled, prop, loopVars,
                   called, stack, runs>>

Unset(s) ==
    /\ UserActs /\ vars[s] # Nil
    /\ vars' = [vars EXCEPT ![s] = Nil]
    /\ Drop(vars[s], rc, stack)
    /\ UNCHANGED <<storeVars, modes, objects, dtorCalled, prop, loopVars,
                   called, runs>>

SetProperty(o, p) ==
    /\ UserActs /\ {o, p} \subseteq Reachable /\ prop[o] = Nil
    /\ prop' = [prop EXCEPT ![o] = p]
    /\ rc' = [rc EXCEPT ![p] = @ + 1]
    /\ UNCHANGED <<storeVars, modes, objects, dtorCalled, vars, loopVars,
                   called, stack, runs>>

UnsetProperty(o) ==
    /\ UserActs /\ o \in Reachable /\ prop[o] # Nil
    /\ DropProperty(o, rc, stack)
    /\ UNCHANGED <<storeVars, modes, objects, dtorCalled, vars, loopVars,
                   called, runs>>

(***************************************************************************)
(* dtor_obj: zend_objects_destroy_object, or the handler of a generator.   *)
(***************************************************************************)

\* The end of a call that zend_bailout unwinds with no address to jump to.
Abort ==
    /\ dtorCalled' = dtorCalled \cup Stored
    /\ unclean' = TRUE
    /\ stack' = <<>>
    /\ phase' = "aborted"

DtorEnter ==
    /\ In("dtor", "enter") /\ This \in HasDestructor /\ ActiveExecutor
    /\ rc' = [rc EXCEPT ![This] = @ + 1]
    /\ stack' = Resume(DtorFrame(This, "run"))
    /\ runs' = [runs EXCEPT ![This] = IF @ < 2 THEN @ + 1 ELSE @]
    /\ UNCHANGED <<storeVars, modes, objects, dtorCalled, prop, vars,
                   loopVars, called>>

\* A private or protected destructor, called from another scope.
DtorRefused ==
    /\ In("dtor", "enter") /\ This \in HasDestructor
    /\ stack' = Tail(stack)
    /\ UNCHANGED <<storeVars, modes, objects, rc, dtorCalled, prop, vars,
                   loopVars, called, runs>>

\* zend_call_function fails, and zend_call_known_function makes it fatal.
DtorInactive ==
    /\ In("dtor", "enter") /\ This \in HasDestructor /\ ~ActiveExecutor
    /\ Abort
    /\ UNCHANGED <<storeVars, noReuse, objects, rc, prop, vars, cursor,
                   symbols, called, runs>>

\* A generator that is not in a try block with a finally has no code to run.
GeneratorEnter ==
    /\ In("dtor", "enter") /\ This \in Generators /\ ~unclean
    /\ stack' = Resume(DtorFrame(This, "run"))
    /\ runs' = [runs EXCEPT ![This] = IF @ < 2 THEN @ + 1 ELSE @]
    /\ UNCHANGED <<storeVars, modes, objects, rc, dtorCalled, prop, vars,
                   loopVars, called>>

GeneratorClose ==
    /\ In("dtor", "enter") /\ This \in Generators
    /\ DropProperty(This, rc, Tail(stack))
    /\ UNCHANGED <<storeVars, modes, objects, dtorCalled, vars, loopVars,
                   called, runs>>

DtorReturn ==
    /\ In("dtor", "run")
    /\ IF This \in HasDestructor
       THEN Drop(This, rc, Tail(stack)) /\ UNCHANGED prop
       ELSE DropProperty(This, rc, Tail(stack))
    /\ UNCHANGED <<storeVars, modes, objects, dtorCalled, vars, loopVars,
                   called, runs>>

(***************************************************************************)
(* zend_objects_store_del, called when the last reference is gone.         *)
(***************************************************************************)
\* Faulty variant: it is not held for its destructor.
DelEnterUnheld ==
    /\ In("del", "enter")
    /\ dtorCalled' = dtorCalled \cup {This}
    /\ stack' = IF This \notin dtorCalled /\ HasHandler(This)
                THEN <<DtorFrame(This, "enter")>> \o Resume(DelFrame(This, "called"))
                ELSE Resume(DelFrame(This, "check"))
    /\ UNCHANGED <<storeVars, modes, objects, rc, prop, vars, loopVars, called,
                   runs>>

DelEnter ==
    /\ In("del", "enter")
    /\ dtorCalled' = dtorCalled \cup {This}
    /\ IF This \notin dtorCalled /\ HasHandler(This)
       THEN /\ rc' = [rc EXCEPT ![This] = 1]
            /\ stack' = <<DtorFrame(This, "enter")>> \o Resume(DelFrame(This, "called"))
       ELSE /\ stack' = Resume(DelFrame(This, "check"))
            /\ UNCHANGED rc
    /\ UNCHANGED <<storeVars, modes, objects, prop, vars, loopVars, called,
                   runs>>

DelCalled ==
    /\ In("del", "called")
    /\ rc' = [rc EXCEPT ![This] = @ - 1]
    /\ stack' = Resume(DelFrame(This, "check"))
    /\ UNCHANGED <<storeVars, modes, objects, dtorCalled, prop, vars,
                   loopVars, called, runs>>

\* The destructor has stored $this somewhere.
DelRevived ==
    /\ In("del", "check") /\ rc[This] # 0
    /\ stack' = Tail(stack)
    /\ UNCHANGED <<storeVars, modes, objects, rc, dtorCalled, prop, vars,
                   loopVars, called, runs>>

\* Faulty variant: the count is not tested again after the destructor.
DelReleaseAnyway ==
    /\ In("del", "check")
    /\ bucket' = [bucket EXCEPT ![handle[This]] = Dying(This)]
    /\ freeCalled' = freeCalled \cup {This}
    /\ LET frames == Resume(DelFrame(This, "free"))
       IN  IF This \in freeCalled
           THEN stack' = frames /\ UNCHANGED <<prop, rc>>
           ELSE DropProperty(This, [rc EXCEPT ![This] = 1], frames)
    /\ UNCHANGED <<size, freeHead, modes, alloc, handle, dtorCalled, vars,
                   loopVars, called, runs>>

DelRelease ==
    /\ In("del", "check") /\ rc[This] = 0
    /\ bucket' = [bucket EXCEPT ![handle[This]] = Dying(This)]
    /\ freeCalled' = freeCalled \cup {This}
    /\ LET frames == Resume(DelFrame(This, "free"))
       IN  IF This \in freeCalled
           THEN stack' = frames /\ UNCHANGED <<prop, rc>>
           ELSE DropProperty(This, [rc EXCEPT ![This] = 1], frames)
    /\ UNCHANGED <<size, freeHead, modes, alloc, handle, dtorCalled, vars,
                   loopVars, called, runs>>

\* efree and ZEND_OBJECTS_STORE_ADD_TO_FREE_LIST.  Nothing reads the fields
\* of memory that is not allocated: they have the values of Init, which are
\* those zend_object_std_init gives, but for the count.
DelFree ==
    /\ In("del", "free")
    /\ alloc' = alloc \ {This}
    /\ bucket' = [bucket EXCEPT ![handle[This]] = Free(freeHead)]
    /\ freeHead' = handle[This]
    /\ stack' = Tail(stack)
    /\ rc' = [rc EXCEPT ![This] = 0]
    /\ handle' = [handle EXCEPT ![This] = 0]
    /\ dtorCalled' = dtorCalled \ {This}
    /\ freeCalled' = freeCalled \ {This}
    /\ prop' = [prop EXCEPT ![This] = Nil]
    /\ runs' = [runs EXCEPT ![This] = 0]
    /\ UNCHANGED <<size, modes, vars, loopVars, called>>

(***************************************************************************)
(* The end of the request.                                                 *)
(***************************************************************************)
Begin(p) ==
    /\ phase' = p
    /\ cursor' = CASE p \in {"table", "destroy"} -> Slots
                   [] p = "sweep" -> 1
                   [] p \in {"release", "discard"} -> Len(bucket)
                   [] OTHER -> 0
    /\ symbols' = IF p = "table" THEN Symbols ELSE 0

\* The phases after that of user code.  A fast shutdown leaves the tables alone.
After == [script |-> {"functions"}, functions |-> {"table"},
          output |-> {"destroy", "discard"}]

PhaseEnds ==
    /\ stack = <<>> /\ phase \in UserPhase
    /\ \E p \in After[phase] : Begin(p)
    /\ UNCHANGED <<storeVars, modes, objects, rc, dtorCalled, prop, vars,
                   called, stack, runs>>

\* A bailout, from a fatal error (php_error_cb, which marks every object) or
\* not.  The phases have a zend_try each up to the output; the shutdown of the
\* executor has none.
Bailout(fatal) ==
    /\ UserRunning /\ ActiveExecutor
    /\ unclean' = TRUE /\ stack' = <<>> /\ called' = FALSE
    /\ dtorCalled' = IF fatal \/ phase \in {"table", "sweep"}
                     THEN dtorCalled \cup Stored ELSE dtorCalled
    /\ \E p \in IF phase \in UserPhase THEN After[phase] ELSE {"output"} : Begin(p)
    /\ UNCHANGED <<storeVars, noReuse, objects, rc, prop, vars, runs>>

LateBailout ==
    /\ UserRunning /\ ~ActiveExecutor /\ Bailouts # {}
    /\ Abort
    /\ UNCHANGED <<storeVars, noReuse, objects, rc, prop, vars, cursor,
                   symbols, called, runs>>

\* shutdown_destructors: zval_call_destructor on each global, from the last.
\* A variable set meanwhile takes any unused entry.
TableStep ==
    /\ phase = "table" /\ stack = <<>> /\ cursor > 0
    /\ LET o == vars[cursor]
           drop == o # Nil /\ rc[o] = 1
       IN  /\ vars' = IF drop THEN [vars EXCEPT ![cursor] = Nil] ELSE vars
           /\ Drop(IF drop THEN o ELSE Nil, rc, stack)
    /\ cursor' = cursor - 1
    /\ UNCHANGED <<storeVars, modes, objects, dtorCalled, prop, phase,
                   symbols, called, runs>>

TablePassEnds ==
    /\ phase = "table" /\ stack = <<>> /\ cursor = 0
    /\ IF symbols # Symbols
       THEN Begin("table") /\ UNCHANGED noReuse
       ELSE Begin("sweep") /\ noReuse' = TRUE
    /\ UNCHANGED <<storeVars, unclean, objects, rc, dtorCalled, prop, vars,
                   called, stack, runs>>

\* zend_objects_store_call_destructors.  Its GC_DELREF frees nothing.
SweepStep ==
    /\ phase = "sweep" /\ stack = <<>> /\ ~called /\ cursor < Top
    /\ LET o == bucket[cursor].obj
           fresh == IsValid(cursor) /\ o \notin dtorCalled
           call == fresh /\ HasHandler(o)
       IN  /\ dtorCalled' = IF fresh THEN dtorCalled \cup {o} ELSE dtorCalled
           /\ called' = call
           /\ cursor' = IF call THEN cursor ELSE cursor + 1
           /\ rc' = IF call THEN [rc EXCEPT ![o] = @ + 1] ELSE rc
           /\ stack' = IF call THEN <<DtorFrame(o, "enter")>> ELSE <<>>
    /\ UNCHANGED <<storeVars, modes, objects, prop, vars, phase, symbols,
                   runs>>

SweepCalled ==
    /\ phase = "sweep" /\ stack = <<>> /\ called
    /\ rc' = [rc EXCEPT ![bucket[cursor].obj] = @ - 1]
    /\ called' = FALSE
    /\ cursor' = cursor + 1
    /\ UNCHANGED <<storeVars, modes, objects, dtorCalled, prop, vars, phase,
                   symbols, stack, runs>>

SweepEnds ==
    /\ phase = "sweep" /\ stack = <<>> /\ ~called /\ cursor = Top
    /\ Begin("output")
    /\ UNCHANGED <<storeVars, modes, objects, rc, dtorCalled, prop, vars,
                   called, stack, runs>>

\* zend_shutdown_executor_values: the globals, from the last, then
\* zend_objects_store_free_object_storage.
DestroyStep ==
    /\ phase = "destroy" /\ stack = <<>> /\ cursor > 0
    /\ vars' = [vars EXCEPT ![cursor] = Nil]
    /\ Drop(vars[cursor], rc, stack)
    /\ cursor' = cursor - 1
    /\ UNCHANGED <<storeVars, modes, objects, dtorCalled, prop, phase,
                   symbols, called, runs>>

DestroyEnds ==
    /\ phase = "destroy" /\ stack = <<>> /\ cursor = 0
    /\ Begin("release")
    /\ UNCHANGED <<storeVars, modes, objects, rc, dtorCalled, prop, vars,
                   called, stack, runs>>

\* "Also add a ref to all objects", but a fast shutdown leaves those alone
\* whose contents the memory manager frees.
ReleaseStep ==
    /\ Releasing /\ stack = <<>> /\ cursor > 0
    /\ LET o == bucket[cursor].obj
           fresh == IsValid(cursor) /\ o \notin freeCalled
       IN  /\ freeCalled' = IF fresh THEN freeCalled \cup {o} ELSE freeCalled
           /\ IF fresh /\ ~(phase = "discard" /\ o \in StdFree)
              THEN DropProperty(o, [rc EXCEPT ![o] = @ + 1], stack)
              ELSE UNCHANGED <<prop, rc, stack>>
    /\ cursor' = cursor - 1
    /\ UNCHANGED <<storeVars, modes, alloc, handle, dtorCalled, vars, phase,
                   symbols, called, runs>>

ReleaseEnds ==
    /\ Releasing /\ stack = <<>> /\ cursor = 0
    /\ Begin("done")
    /\ UNCHANGED <<storeVars, modes, objects, rc, dtorCalled, prop, vars,
                   called, stack, runs>>

Finished == phase \in {"done", "aborted"} /\ UNCHANGED vars_

Init ==
    /\ bucket = <<>> /\ size = InitSize /\ freeHead = None
    /\ noReuse = FALSE /\ unclean = FALSE
    /\ alloc = {} /\ dtorCalled = {} /\ freeCalled = {}
    /\ rc = [o \in Object |-> 0] /\ handle = [o \in Object |-> 0]
    /\ prop = [o \in Object |-> Nil] /\ vars = [s \in Slot |-> Nil]
    /\ phase = "script" /\ cursor = 0 /\ symbols = 0 /\ called = FALSE
    /\ stack = <<>> /\ runs = [o \in Object |-> 0]

Program ==
    \/ \E o \in Object, s \in Slot :
          (\E failed \in BOOLEAN : New(o, s, failed)) \/ Assign(s, o)
    \/ \E s \in Slot : Unset(s)
    \/ \E o \in Object : UnsetProperty(o) \/ \E p \in Object : SetProperty(o, p)
    \/ \E fatal \in Bailouts : Bailout(fatal)
    \/ LateBailout \/ PhaseEnds

Destructor ==
    \/ DtorEnter \/ DtorRefused \/ DtorInactive \/ DtorReturn
    \/ GeneratorEnter \/ GeneratorClose

Del == DelEnter \/ DelCalled \/ DelRevived \/ DelRelease \/ DelFree

Shutdown ==
    \/ TableStep \/ TablePassEnds \/ SweepStep \/ SweepCalled \/ SweepEnds
    \/ DestroyStep \/ DestroyEnds \/ ReleaseStep \/ ReleaseEnds

Next == Program \/ Destructor \/ Del \/ Shutdown \/ Finished

Spec == Init /\ [][Next]_vars_

(***************************************************************************)
(* Properties.                                                             *)
(***************************************************************************)
Frames ==
    [fn : {"del"}, obj : Object, at : {"enter", "called", "check", "free"}] \cup
    [fn : {"dtor"}, obj : Object, at : {"enter", "run"}]
Buckets ==
    [tag : {"valid", "dying"}, obj : Object] \cup
    [tag : {"free"}, next : {None} \cup Nat]

\* The values the variables of the store and of the shutdown take.
TypeOK ==
    /\ bucket \in Seq(Buckets)
    /\ size \in Nat /\ freeHead \in {None} \cup Nat
    /\ noReuse \in BOOLEAN /\ unclean \in BOOLEAN /\ called \in BOOLEAN
    /\ alloc \subseteq Object
    /\ dtorCalled \subseteq Object /\ freeCalled \subseteq Object
    /\ rc \in [Object -> Nat] /\ handle \in [Object -> Nat]
    /\ prop \in [Object -> Object \cup {Nil}]
    /\ vars \in [Slot -> Object \cup {Nil}]
    /\ phase \in UserPhase \cup {"table", "sweep", "destroy", "release",
                                 "discard", "done", "aborted"}
    /\ cursor \in Nat /\ symbols \in Nat
    /\ stack \in Seq(Frames)
    /\ runs \in [Object -> 0 .. 2]

FreeBuckets == {h \in DOMAIN bucket : bucket[h].tag = "free"}

\* The handle of an object names its bucket, which names the object.
HandlesExact ==
    /\ Top <= size
    /\ \A h \in DOMAIN bucket \ FreeBuckets :
          bucket[h].obj \in alloc /\ handle[bucket[h].obj] = h
    /\ \A o \in alloc : /\ handle[o] \in DOMAIN bucket \ FreeBuckets
                        /\ bucket[handle[o]].obj = o

\* The buckets an object and its handle name one another, and the free list
\* goes through each free bucket once (zend_objects_store_put, _del).  An
\* unwound del leaves its bucket out of both.
StoreExact ==
    LET chain[n \in 0 .. Len(bucket)] ==
            IF n = 0 THEN freeHead
            ELSE IF chain[n - 1] \in FreeBuckets THEN bucket[chain[n - 1]].next
            ELSE None
    IN  /\ HandlesExact
        /\ FreeBuckets = {chain[n] : n \in 0 .. Len(bucket)} \ {None}

\* The calls that hold the object they are about.
Holding(f, o) ==
    /\ f.obj = o
    /\ \/ f.fn = "del" /\ f.at = "called"
       \/ f.fn = "dtor" /\ f.at = "run" /\ o \in HasDestructor

\* A bailout and the release leave counts too high.
Excused == unclean \/ Releasing \/ phase \in {"done", "aborted"}

\* The count of a stored object is the number of variables, properties and
\* calls that hold it; a bailout and the release leave it too high, never too
\* low (Drop, and the SET_REFCOUNT, ADDREF and DELREF around the handlers).
Holders(o) ==
    Cardinality({s \in Slot : vars[s] = o}) +
    Cardinality({p \in alloc : prop[p] = o}) +
    Cardinality({i \in DOMAIN stack : Holding(stack[i], o)}) +
    (IF called /\ bucket[cursor].obj = o THEN 1 ELSE 0)
CountsExact ==
    \A o \in Stored :
        /\ Holders(o) <= rc[o]
        /\ Excused \/ Holders(o) = rc[o]

\* Whatever a variable, a property or a call in progress refers to is still
\* allocated, through revived objects, cycles and nested destructors
\* (zend_objects_store_del, zend_objects_store_call_destructors).
NoneDangling ==
    /\ \A s \in Slot : vars[s] \in alloc \cup {Nil}
    /\ \A o \in alloc : prop[o] \in alloc \cup {Nil}
    /\ \A i \in DOMAIN stack : stack[i].obj \in alloc
    /\ called => IsValid(cursor)

\* The destructor of an object runs once, though the object outlives it, is
\* deleted again, or is met by the loop of call_destructors.
DestructedOnce == \A o \in alloc : runs[o] <= 1

\* The loop of call_destructors leaves no object behind, not even one that a
\* destructor creates meanwhile (EG_FLAGS_OBJECT_STORE_NO_REUSE).
NoneMissed ==
    phase = "sweep" =>
        \A h \in 1 .. cursor - 1 :
            h \in DOMAIN bucket /\ IsValid(h) => bucket[h].obj \in dtorCalled

\* "Also add a ref to all objects, so the object can't be freed by something
\* else later" (zend_objects_API.c): the count of an object whose contents the
\* release has freed does not reach zero, whatever is freed after it.
ReleasedKept ==
    \A i \in DOMAIN stack :
        stack[i].fn = "del" /\ stack[i].at = "enter"
            => \/ stack[i].obj \notin freeCalled
               \/ phase = "discard" /\ stack[i].obj \in StdFree

\* The store is sound: buckets, free list, counts and references agree, from
\* the first object to the release at the end of the request.
StoreSound == StoreExact /\ CountsExact /\ NoneDangling /\ ReleasedKept

\* Every object's destructor is called once, the sweep missing none.
DestructorsCalled == DestructedOnce /\ NoneMissed
-----------------------------------------------------------------------------
(* The inductive invariant.                                                *)

\* The list of free buckets runs through each once: its links are one to one,
\* and nothing smaller is closed under them.
Linked(S) == /\ freeHead # None => freeHead \in S
             /\ \A h \in S : bucket[h].next # None => bucket[h].next \in S
FreeListLinked ==
    /\ freeHead \in FreeBuckets \cup {None}
    /\ \A h \in FreeBuckets :
          /\ bucket[h].next \in FreeBuckets \cup {None}
          /\ bucket[h].next # None =>
                /\ bucket[h].next # freeHead
                /\ \A k \in FreeBuckets : bucket[k].next = bucket[h].next => k = h
    /\ \A S \in SUBSET FreeBuckets : Linked(S) => S = FreeBuckets

\* Memory that is not allocated is as zend_object_std_init leaves it.
Fresh == \A o \in Object \ alloc :
            o \notin dtorCalled \cup freeCalled /\ prop[o] = Nil /\ runs[o] = 0

\* Only objects whose bucket is valid are referred to, and one that is being
\* freed refers to none.
References ==
    /\ \A s \in Slot : vars[s] \in Stored \cup {Nil}
    /\ \A o \in alloc : prop[o] \in Stored \cup {Nil}
    /\ \A o \in alloc \ Stored : prop[o] = Nil \/ Excused

\* What each call in progress relies on.
FrameOK(f) ==
    /\ IF f.at = "free" THEN f.obj \in alloc \ Stored ELSE f.obj \in Stored
    /\ f.fn = "del" /\ f.at = "enter" =>
          rc[f.obj] = 0 /\ (f.obj \in freeCalled => phase = "discard" /\ f.obj \in StdFree)
    /\ f.fn = "dtor" => HasHandler(f.obj) /\ f.obj \in dtorCalled
    /\ f.fn = "dtor" /\ f.at = "enter" => runs[f.obj] = 0
Calls == \A i \in DOMAIN stack : FrameOK(stack[i])

\* How calls nest: those that have not waited for another are innermost, an
\* object is freed once, and a destructor is called by a del of its object or,
\* of the object b, by the sweep.
Nested(st, b) ==
    /\ \A i \in DOMAIN st : i # 1 => st[i].at \notin {"enter", "check"}
    /\ \A i, j \in DOMAIN st :
          st[i].at = "free" /\ st[j].at = "free" /\ st[i].obj = st[j].obj => i = j
    /\ \A i \in DOMAIN st : st[i].fn = "dtor" =>
          IF i = Len(st) THEN st[i].obj = b
          ELSE st[i + 1] = DelFrame(st[i].obj, "called")
Swept == IF called THEN bucket[cursor].obj ELSE Nil

\* What the release has freed the contents of has a reference too many.
ReleasedHeld ==
    phase \notin {"done", "aborted"} =>
        \A o \in Stored \cap freeCalled :
            /\ Releasing
            /\ (phase = "discard" /\ o \in StdFree) \/ Holders(o) < rc[o]

RunsOnce ==
    \A o \in Object : runs[o] <= 1 /\ (o \notin dtorCalled => runs[o] = 0)

Control ==
    /\ called => /\ phase = "sweep" /\ cursor \in DOMAIN bucket
                 /\ IsValid(cursor) /\ Swept \in dtorCalled
    /\ phase \in {"table", "destroy"} => cursor <= Slots
    /\ phase = "sweep" => cursor \in 1 .. Top /\ noReuse
    /\ Releasing => cursor <= Len(bucket)
    /\ phase \in {"done", "aborted"} => stack = <<>>

IInv ==
    /\ TypeOK /\ HandlesExact /\ FreeListLinked /\ Fresh /\ References
    /\ CountsExact /\ Calls /\ Nested(stack, Swept) /\ ReleasedHeld
    /\ RunsOnce /\ NoneMissed /\ Control
=============================================================================
