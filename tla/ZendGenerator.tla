--------------------------- MODULE ZendGenerator ---------------------------
(***************************************************************************)
(* Generators that delegate to generators (Zend/zend_generators.c and the  *)
(* handlers of ZEND_YIELD, ZEND_YIELD_FROM and ZEND_GENERATOR_RETURN in    *)
(* Zend/zend_vm_def.h).                                                    *)
(*                                                                         *)
(* "yield from" makes a generator a child of the one it delegates to; many *)
(* may delegate to one.  Whoever resumes a generator means the one at the  *)
(* top of its tree.  One generator of a tree has that top cached, and the  *)
(* top knows which (the union ptr: root in a generator with a parent, leaf *)
(* in one without).  A parent that has finished is cut off its children    *)
(* when each of them is next asked for its top.                            *)
(*                                                                         *)
(* stack is the C stack: the calls into generators, the bodies that run    *)
(* and the deletions that are in progress.  Only its top moves.  The PHP   *)
(* code there, the main program if it is empty, does what the API allows.  *)
(* Left out: yielded values other than that there is one, "yield from" of  *)
(* arrays and other iterators, fibers, fatal errors, and references that   *)
(* generators hold other than to what they delegate to.                    *)
(***************************************************************************)
EXTENDS Naturals, FiniteSets, Sequences, SequencesExt

CONSTANTS
    Gens,           \* Generator objects the program may create
    Nobody,
    Depth,          \* bound on the C stack where PHP code calls
    Oddities        \* programs that are let do what the code does not stand:
                    \* "reenter": a destructor called by zend_generator_close
                    \* resumes or deletes what delegates to the closed generator;
                    \* "aborted": a generator delegates to one whose own delegate
                    \* was aborted in the meantime

ASSUME GeneratorAssumption ==
    /\ IsFiniteSet(Gens) /\ Nobody \notin Gens
    /\ Depth \in Nat /\ Oddities \subseteq {"reenter", "aborted"}

VARIABLES
    object,         \* "none", "alive" or "freed"
    held,           \* generators the program has a reference to
    destructed,     \* IS_OBJ_DESTRUCTOR_CALLED
    code,           \* execute_data: "none", else the last opcode it has run
    valued, returned,               \* value, retval are not IS_UNDEF
    running, forced, doInit,        \* flags
    parent, ptr,    \* node
    stack,
    exception,      \* EG(exception)
    phase
objectvars == <<object, held, destructed>>
execvars == <<code, valued, returned>>
flagvars == <<running, forced, doInit>>
nodevars == <<parent, ptr>>
vars == <<objectvars, execvars, flagvars, nodevars, stack, exception, phase>>

-----------------------------------------------------------------------------
(* The stack                                                               *)

\* saved: the exception that waits until a closing or a finally block is over
Frame(op, g, o) == [op |-> op, gen |-> g, orig |-> o, saved |-> FALSE]
Push(frames) == stack' = stack \o frames
Pop == stack' = Front(stack)
Replace(frames) == stack' = Front(stack) \o frames

At(op) == stack # <<>> /\ Last(stack).op = op
gen == Last(stack).gen
orig == Last(stack).orig

\* A call of a method and a deletion hold their generator, a node its parent.
Children(g) == {h \in Gens : parent[h] = g}
\* Faulty variant: a call does not.
ReferredByNodes(g) == g \in held \/ Children(g) # {}
Referred(g) ==
    \/ g \in held
    \/ Children(g) # {}
    \/ \E i \in DOMAIN stack : g = stack[i].orig
Dying == {g \in Gens : object[g] = "alive" /\ ~Referred(g)
                       /\ \A i \in DOMAIN stack : stack[i].op = "free" => stack[i].gen # g}

\* PHP code runs, in a body or in a destructor of what a closed body leaves.
Runs ==
    \/ stack = <<>> /\ phase = "script"
    \/ At("body") \/ At("close")
Calls == Runs /\ ~exception /\ Len(stack) < Depth

-----------------------------------------------------------------------------
(* The tree                                                                *)

Top(g) ==
    LET up[n \in 0..Cardinality(Gens)] ==
            IF n = 0 THEN g
            ELSE LET below == up[n - 1] IN IF parent[below] = Nobody THEN below ELSE parent[below]
    IN up[Cardinality(Gens)]

\* clear_link_to_leaf, clear_link_to_root: both ends of g's link
Unlinked(g, links) ==
    IF links[g] = Nobody THEN links ELSE [links EXCEPT ![links[g]] = Nobody, ![g] = Nobody]

\* zend_generator_get_current: these are the cases in which it changes nothing,
Settled(g) == parent[g] = Nobody \/ (ptr[g] # Nobody /\ code[ptr[g]] # "none")
Current(g) == IF parent[g] = Nobody THEN g ELSE ptr[g]

\* get_new_root: down the only children of finished generators, else up
NewRoot(g, root) ==
    LET down[n \in 0..Cardinality(Gens)] ==
            IF n = 0 THEN root
            ELSE LET above == down[n - 1]
                 IN IF code[above] = "none" /\ Cardinality(Children(above)) = 1
                    THEN CHOOSE h \in Gens : parent[h] = above ELSE above
        up[n \in 0..Cardinality(Gens)] ==
            IF n = 0 THEN g
            ELSE LET below == up[n - 1]
                 IN IF code[parent[below]] # "none" THEN parent[below] ELSE below
    IN IF code[down[Cardinality(Gens)]] # "none"
       THEN down[Cardinality(Gens)] ELSE up[Cardinality(Gens)]

\* ... zend_generator_update_root,
UpdateRoot(g) ==
    /\ ~Settled(g) /\ ptr[g] = Nobody
    /\ ptr' = [Unlinked(Top(g), ptr) EXCEPT ![Top(g)] = g, ![g] = Top(g)]
    /\ UNCHANGED <<objectvars, execvars, flagvars, parent, stack, exception, phase>>

\* ... and zend_generator_update_current.  A generator whose delegate was
\* aborted gets an exception, and unless that was just now, is run with it.
UpdateCurrent(g) ==
    LET old == ptr[g]
        new == NewRoot(g, old)
        delegate == parent[new]
        reports == ~exception /\ g \notin destructed /\ code[new] = "from"
        aborted == reports /\ delegate \notin returned
    IN /\ ~Settled(g) /\ old # Nobody
       /\ ptr' = [ptr EXCEPT ![g] = new, ![old] = Nobody, ![new] = g]
       /\ parent' = [parent EXCEPT ![new] = Nobody]
       /\ valued' = IF reports /\ delegate \in returned
                    THEN IF delegate \in valued THEN valued \cup {new} ELSE valued \ {new}
                    ELSE valued
       /\ exception' = (exception \/ aborted)
       /\ code' = IF aborted THEN [code EXCEPT ![new] = "thrown"] ELSE code
       /\ IF aborted /\ old \notin running
          THEN Push(<<Frame("resume", Nobody, g)>>) ELSE UNCHANGED stack
       /\ UNCHANGED <<objectvars, returned, flagvars, phase>>

Refresh(g) == UpdateRoot(g) \/ UpdateCurrent(g)

-----------------------------------------------------------------------------
(* zend_generator_resume                                                   *)

\* Nothing is run for a call on o whose delegate g has a value it has not shown.
\* Faulty variant: without the test.
BegunNever(g, o, init) == FALSE
BegunAlready(g, o, init) == o \in init /\ g \in valued

\* try_again, for a call on o whose top is g, with the flags it leaves
TryAgain(g, o, init) ==
    IF g \in running
    THEN /\ exception' = TRUE       \* "Cannot resume an already running generator"
         /\ doInit' = init
         /\ Pop
         /\ UNCHANGED running
    ELSE IF BegunAlready(g, o, init)
    THEN /\ doInit' = init \ {o}
         /\ Pop
         /\ UNCHANGED <<running, exception>>
    ELSE /\ doInit' = init
         /\ running' = running \cup {g}
         /\ Replace(<<[Last(stack) EXCEPT !.op = "body", !.gen = g]>>)
         /\ UNCHANGED exception

Resume ==
    /\ At("resume") /\ Settled(orig)
    /\ IF code[Current(orig)] = "none"
       THEN Pop /\ UNCHANGED <<running, doInit, exception>>
       ELSE TryAgain(Current(orig), orig, doInit)
    /\ UNCHANGED <<objectvars, execvars, forced, nodevars, phase>>

\* The body has stopped.  An exception of a delegate is thrown in the generator
\* that delegates; what is delegated to, or has returned, is looked behind.
Stopped ==
    /\ At("stopped")
    /\ running' = running \ {gen}
    /\ IF exception
       THEN IF gen = orig
            THEN Pop /\ code' = [code EXCEPT ![gen] = "none"]
            ELSE Replace(<<Frame("again", Nobody, orig)>>) /\ UNCHANGED code
       ELSE IF (gen # orig /\ gen \in returned) \/ code[gen] = "from"
            THEN /\ Replace(<<Frame("again", IF gen = orig THEN gen ELSE Nobody, orig)>>)
                 /\ UNCHANGED code
            ELSE Pop /\ UNCHANGED code
    /\ doInit' = IF Len(stack') < Len(stack) THEN doInit \ {orig} ELSE doInit
    /\ UNCHANGED <<objectvars, valued, returned, forced, nodevars, exception, phase>>

\* zend_generator_throw_exception; the opcode that a running body is at is not
\* looked at before it has an exception of its own to handle
Thrown(g) == IF g \in running THEN code ELSE [code EXCEPT ![g] = "thrown"]

Again ==
    /\ At("again") /\ Settled(orig)
    /\ TryAgain(Current(orig), orig, IF exception THEN doInit \ {orig} ELSE doInit)
    /\ code' = IF exception THEN Thrown(Current(orig)) ELSE code
    /\ UNCHANGED <<objectvars, valued, returned, forced, nodevars, phase>>

-----------------------------------------------------------------------------
(* What PHP code does with generators                                      *)

\* The call of a generator function
Create(g) ==
    /\ Runs /\ ~exception /\ object[g] = "none"
    /\ object' = [object EXCEPT ![g] = "alive"]
    /\ held' = held \cup {g}
    /\ code' = [code EXCEPT ![g] = "start"]
    /\ UNCHANGED <<destructed, valued, returned, flagvars, nodevars, stack, exception, phase>>

\* The bound: o does not delegate to a generator that is being closed.
Below(o) ==
    LET up[n \in 0..Cardinality(Gens)] ==
            IF n = 0 THEN o
            ELSE LET below == up[n - 1] IN IF parent[below] = Nobody THEN below ELSE parent[below]
    IN {up[n] : n \in 1..Cardinality(Gens)}
Apart(o) ==
    "reenter" \in Oddities \/ \A i \in DOMAIN stack : stack[i].op = "close" => stack[i].gen \notin Below(o)

\* The last variable that refers to g is unset or overwritten.
Drop(g) ==
    /\ Runs /\ ~exception /\ g \in held /\ phase = "script" /\ Apart(g)
    /\ held' = held \ {g}
    /\ UNCHANGED <<object, destructed, execvars, flagvars, nodevars, stack, exception, phase>>

\* zend_generator_ensure_initialized
Initialization(o) ==
    IF o \notin valued /\ code[o] # "none" /\ parent[o] = Nobody
    THEN <<Frame("resume", Nobody, o)>> ELSE <<>>

May(o) == Calls /\ o \in held /\ Apart(o)

\* next, and the loops of foreach; send; current, key and valid; throw
Methods == {<<"resume">>, <<"current", "resume">>, <<"current">>, <<"throw">>}
Method(ops, o) ==
    /\ May(o)
    /\ Push([i \in DOMAIN ops |-> Frame(ops[i], Nobody, o)] \o Initialization(o))
    /\ UNCHANGED <<objectvars, execvars, flagvars, nodevars, exception, phase>>

Read ==
    /\ At("current") /\ Settled(orig)
    /\ Pop
    /\ UNCHANGED <<objectvars, execvars, flagvars, nodevars, exception, phase>>

ThrowInto ==
    /\ At("throw") /\ (code[orig] = "none" \/ Settled(orig))
    /\ exception' = TRUE
    /\ IF code[orig] = "none"
       THEN Pop /\ UNCHANGED code
       ELSE /\ Replace(<<Frame("current", Nobody, orig), Frame("resume", Nobody, orig)>>)
            /\ code' = Thrown(Current(orig))
    /\ UNCHANGED <<objectvars, valued, returned, flagvars, nodevars, phase>>

Raise ==
    /\ Runs /\ stack # <<>> /\ ~exception
    /\ exception' = TRUE
    /\ UNCHANGED <<objectvars, execvars, flagvars, nodevars, stack, phase>>

\* Caught by PHP code, or reported at its end
Catch ==
    /\ exception /\ (Runs \/ stack = <<>>)
    /\ exception' = FALSE
    /\ UNCHANGED <<objectvars, execvars, flagvars, nodevars, stack, phase>>

-----------------------------------------------------------------------------
(* What the body of a generator does                                       *)

\* ZEND_YIELD; a body that is being closed must not
Yield ==
    /\ At("body") /\ ~exception
    /\ IF gen \in forced
       THEN exception' = TRUE /\ UNCHANGED <<code, valued, stack>>
       ELSE /\ code' = [code EXCEPT ![gen] = "yield"]
            /\ valued' = valued \cup {gen}
            /\ Replace(<<Frame("stopped", gen, orig)>>)
            /\ UNCHANGED exception
    /\ UNCHANGED <<objectvars, returned, flagvars, nodevars, phase>>

\* The bound: no generator that h delegates to has ended without a value.
Intact(h) ==
    "aborted" \in Oddities
    \/ \A g \in {h} \cup Below(h) : parent[g] # Nobody /\ code[parent[g]] = "none" => parent[g] \in returned

\* ZEND_YIELD_FROM
YieldFrom(h) ==
    /\ At("body") /\ May(h) /\ Intact(h)
    /\ IF gen \in forced \/ code[h] = "none"
       THEN exception' = TRUE /\ UNCHANGED stack
       ELSE Push(<<Frame("from", gen, h)>>) /\ UNCHANGED exception
    /\ UNCHANGED <<objectvars, execvars, flagvars, nodevars, phase>>

\* zend_generator_yield_from: the cache goes with the top of the tree, if the
\* new one has none
\* Faulty variant: it stays where it is.
LinksKept(g, h) == ptr
LinksFrom(g, h) ==
    LET leaf == ptr[g]
    IN IF leaf # Nobody /\ parent[h] = Nobody /\ ptr[h] = Nobody
       THEN [ptr EXCEPT ![g] = Nobody, ![h] = leaf, ![leaf] = h]
       ELSE Unlinked(g, ptr)

Delegate ==
    /\ At("from") /\ Settled(orig)
    /\ IF Current(orig) = gen
       THEN /\ exception' = TRUE    \* "Impossible to yield from the Generator being currently run"
            /\ Pop
            /\ UNCHANGED <<code, doInit, nodevars>>
       ELSE /\ ptr' = LinksFrom(gen, orig)
            /\ parent' = [parent EXCEPT ![gen] = orig]
            /\ doInit' = doInit \cup {gen}
            /\ code' = [code EXCEPT ![gen] = "from"]
            /\ stack' = Front(Front(stack)) \o
                        <<Frame("stopped", gen, stack[Len(stack) - 1].orig)>>
            /\ UNCHANGED exception
    /\ UNCHANGED <<objectvars, valued, returned, running, forced, phase>>

\* zend_generator_close: what the body leaves is destroyed after execute_data is
\* cleared, by destructors that do not see the exception.
Close(g, under, saved) ==
    /\ code' = [code EXCEPT ![g] = "none"]
    /\ Replace(under \o <<[Frame("close", g, Nobody) EXCEPT !.saved = saved]>>)
    /\ exception' = FALSE

\* ZEND_GENERATOR_RETURN
Return ==
    /\ At("body") /\ ~exception
    /\ returned' = returned \cup {gen}
    /\ Close(gen, <<Frame("stopped", gen, orig)>>, FALSE)
    /\ UNCHANGED <<objectvars, valued, flagvars, nodevars, phase>>

\* zend_dispatch_try_catch_finally_helper: an exception that the body does not
\* catch, or the end of the finally block it was resumed for
Abort ==
    /\ At("body") /\ (exception \/ gen \in forced)
    /\ Close(gen, <<Frame("stopped", gen, orig)>>, exception \/ Last(stack).saved)
    /\ UNCHANGED <<objectvars, valued, returned, flagvars, nodevars, phase>>

Closed ==
    /\ At("close")
    /\ Pop
    /\ exception' = (exception \/ Last(stack).saved)
    /\ UNCHANGED <<objectvars, execvars, flagvars, nodevars, phase>>

-----------------------------------------------------------------------------
(* Deletion                                                                *)

\* zend_objects_store_del
Delete(g) ==
    /\ destructed' = destructed \cup {g}
    /\ Push(IF g \in destructed THEN <<Frame("free", g, g)>>
            ELSE <<Frame("free", g, g), Frame("dtor", g, g)>>)
    /\ UNCHANGED <<object, held, execvars, flagvars, nodevars, exception, phase>>

\* zend_generator_dtor_storage: it leaves its tree,
\* Faulty variant: a link to the top is forgotten.
LinksOfTop(g) == IF parent[g] = Nobody THEN Unlinked(g, ptr) ELSE ptr
LinksLeft(g) == Unlinked(g, ptr)
Leave ==
    /\ At("dtor") /\ Settled(gen)
    /\ ptr' = LinksLeft(gen)
    /\ parent' = [parent EXCEPT ![gen] = Nobody]
    /\ Replace(<<Frame("finally", gen, gen)>>)
    /\ UNCHANGED <<objectvars, execvars, flagvars, exception, phase>>

\* ... is closed if it stopped outside of a try block,
DtorClose ==
    /\ At("finally")
    /\ IF code[gen] = "none"
       THEN Pop /\ UNCHANGED <<code, exception>>
       ELSE Close(gen, <<>>, exception)
    /\ UNCHANGED <<objectvars, valued, returned, flagvars, nodevars, phase>>

\* ... or else resumed at the finally block, which keeps the exception.
DtorFinally ==
    /\ At("finally") /\ code[gen] \notin {"none", "start"}
    /\ forced' = forced \cup {gen}
    /\ exception' = FALSE
    /\ Replace(<<[Frame("resume", Nobody, gen) EXCEPT !.saved = exception]>>)
    /\ UNCHANGED <<objectvars, execvars, running, doInit, nodevars, phase>>

\* zend_generator_free_storage
Free ==
    /\ At("free")
    /\ IF code[gen] = "none"
       THEN /\ object' = [object EXCEPT ![gen] = "freed"]
            /\ Pop
            /\ valued' = valued \ {gen} /\ returned' = returned \ {gen}
            /\ forced' = forced \ {gen} /\ doInit' = doInit \ {gen}
            /\ UNCHANGED <<code, exception>>
       ELSE /\ Close(gen, <<Last(stack)>>, exception)
            /\ UNCHANGED <<object, valued, returned, forced, doInit>>
    /\ UNCHANGED <<held, destructed, running, nodevars, phase>>

\* zend_objects_store_call_destructors, at the end of the request
Sweep(g) ==
    /\ stack = <<>> /\ phase = "destructors" /\ ~exception
    /\ object[g] = "alive" /\ g \notin destructed
    /\ destructed' = destructed \cup {g}
    /\ Push(<<Frame("keep", g, g), Frame("dtor", g, g)>>)
    /\ UNCHANGED <<object, held, execvars, flagvars, nodevars, exception, phase>>

Kept ==
    /\ At("keep")
    /\ Pop
    /\ UNCHANGED <<objectvars, execvars, flagvars, nodevars, exception, phase>>

Shutdown ==
    /\ stack = <<>> /\ ~exception
    /\ \/ phase = "script" /\ phase' = "destructors"
       \/ /\ phase = "destructors" /\ phase' = "over"
          /\ \A g \in Gens : object[g] = "alive" => g \in destructed
    /\ UNCHANGED <<objectvars, execvars, flagvars, nodevars, stack, exception>>

Over == phase = "over" /\ UNCHANGED vars

Init ==
    /\ object = [g \in Gens |-> "none"]
    /\ code = [g \in Gens |-> "none"]
    /\ held = {} /\ destructed = {} /\ valued = {} /\ returned = {}
    /\ running = {} /\ forced = {} /\ doInit = {}
    /\ parent = [g \in Gens |-> Nobody] /\ ptr = [g \in Gens |-> Nobody]
    /\ stack = <<>> /\ exception = FALSE /\ phase = "script"

\* Where the code asks for the current generator first
Refreshes ==
    /\ At("resume") \/ At("again") \/ At("current") \/ At("from") \/ At("dtor")
       \/ (At("throw") /\ code[orig] # "none")
    /\ Refresh(orig)

\* What nothing refers to any more is deleted at once.
Next ==
    IF Dying # {} THEN \E g \in Dying : Delete(g)
    ELSE \/ Refreshes
         \/ Resume \/ Stopped \/ Again \/ Read \/ ThrowInto \/ Raise \/ Catch
         \/ \E g \in Gens : Create(g) \/ Drop(g) \/ YieldFrom(g) \/ Sweep(g)
         \/ \E g \in Gens : \E ops \in Methods : Method(ops, g)
         \/ Yield \/ Delegate \/ Return \/ Abort \/ Closed
         \/ Leave \/ DtorClose \/ DtorFinally \/ Free \/ Kept \/ Shutdown \/ Over

Spec == Init /\ [][Next]_vars

-----------------------------------------------------------------------------
(* Properties                                                              *)

Codes == {"none", "start", "yield", "from", "thrown"}
Ops == {"resume", "body", "stopped", "again", "current", "throw", "from", "close",
        "dtor", "finally", "free", "keep"}

Alive == {g \in Gens : object[g] = "alive"}

\* The shape of the state.  In it, that an object is not freed while a call is
\* made on it or its body runs, whatever the program drops meanwhile.
TypeOK ==
    /\ object \in [Gens -> {"none", "alive", "freed"}]
    /\ code \in [Gens -> Codes]
    /\ \A set \in {held, running, forced, doInit} : set \subseteq Alive
    /\ \A set \in {destructed, valued, returned} : set \subseteq Gens
    /\ parent \in [Gens -> Alive \cup {Nobody}] /\ ptr \in [Gens -> Alive \cup {Nobody}]
    /\ \A i \in DOMAIN stack :
          /\ stack[i].op \in Ops /\ stack[i].saved \in BOOLEAN
          /\ {stack[i].gen, stack[i].orig} \subseteq Alive \cup {Nobody}
    /\ exception \in BOOLEAN /\ phase \in {"script", "destructors", "over"}

\* The tree has no cycle; a body runs at the top of one, once.
BodiesOnTop ==
    /\ \A g \in Gens : parent[Top(g)] = Nobody
    /\ \A i \in DOMAIN stack : stack[i].op = "body" => parent[stack[i].gen] = Nobody
    /\ running = {stack[i].gen : i \in {j \in DOMAIN stack : stack[j].op \in {"body", "stopped"}}}
    /\ \A i, j \in DOMAIN stack :
          stack[i].op = "body" /\ stack[j].op = "body" /\ i # j => stack[i].gen # stack[j].gen

\* The union is read rightly: whoever has the top cached is what the top points
\* back to, and what is cached is the top, whatever the tree has gone through.
CacheExact ==
    \A g \in Gens : ptr[g] # Nobody =>
        /\ ptr[ptr[g]] = g
        /\ parent[g] # Nobody => ptr[g] = Top(g)

\* A generator that is freed has left its tree and its body.
FreedApart ==
    \A g \in Gens \ Alive :
        parent[g] = Nobody /\ ptr[g] = Nobody /\ Children(g) = {} /\ code[g] = "none"

\* The tree of delegation is sound at every point where PHP code may look at it.
TreeSound == BodiesOnTop /\ CacheExact /\ FreedApart

Bodies ==
    LET bodies == SelectSeq(stack, LAMBDA f : f.op = "body")
    IN [i \in DOMAIN bodies |-> <<bodies[i].orig, bodies[i].gen>>]
Unfinished == {g \in Gens : code[g] # "none"}
Abstract == INSTANCE Delegation WITH
    delegate <- parent, unfinished <- Unfinished, destroyed <- destructed, calls <- Bodies

\* Who runs is who the generator that was resumed delegates to, although that is
\* looked up in a cache and links to what has finished are cut late.
ImplementsDelegation == Abstract!Spec

\* zend_generators.c:1108, "We must not advance Generator if we yield from a
\* Generator being currently run": what it has yielded is not skipped by the
\* resumed generator that begins to delegate to it.
ValuesSeen ==
    [][At("again") /\ ~exception /\ gen = orig /\ code[gen] = "from" /\ Bodies' # Bodies
       => Last(Bodies')[2] \notin valued]_vars
=============================================================================
