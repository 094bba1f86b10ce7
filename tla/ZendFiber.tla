----------------------------- MODULE ZendFiber -----------------------------
(***************************************************************************)
(* Fibers (Zend/zend_fibers.c) in one request: contexts with a C stack     *)
(* each, the VM state a switch saves and restores, and the three ways to   *)
(* leave a fiber: Fiber::suspend, the end of its function, and a bailout,  *)
(* which is a longjmp on the fiber's stack that must be carried on from    *)
(* context to context until it reaches the main one.                       *)
(*                                                                         *)
(* A fiber that is suspended when its object dies is resumed once more     *)
(* with a graceful exit, so that its finally blocks run.  That happens in  *)
(* the middle of somebody else's destructor, where switching is otherwise  *)
(* blocked (zend_objects_API.c), and at the end of the request (main.c).   *)
(*                                                                         *)
(* frames[c] is the part of c's C stack that matters: the calls of         *)
(* destructors, and on top the switch that c waits in.  The PHP code that  *)
(* runs in the current context is free to do what the API allows.  Throw   *)
(* is resume with another value; what a fiber yields or returns is left    *)
(* out.                                                                    *)
(***************************************************************************)
EXTENDS Naturals, FiniteSets, Sequences, SequencesExt

CONSTANTS
    Fibers,         \* Fiber objects the program may create
    Main, Nobody,
    Nesting         \* bound on the destructors on one C stack

Contexts == Fibers \cup {Main}

ASSUME FiberAssumption ==
    /\ IsFiniteSet(Fibers) /\ Main \notin Fibers /\ Nobody \notin Contexts
    /\ Nesting \in Nat \ {0}

VARIABLES
    object,         \* "none", "alive" or "freed"
    held,           \* fibers the program has a reference to
    destructed,     \* fibers with IS_OBJ_DESTRUCTOR_CALLED
    status, caller, flags,      \* of zend_fiber and its context
    stack,          \* fibers whose C stack is mapped
    frames,
    current, active, bailout,   \* EG(current_fiber_context), EG(active_fiber), EG(bailout)
    blocking,       \* zend_fiber_switch_blocking
    bailing,        \* a longjmp is on its way
    phase,          \* of the request
    fatal, late     \* history: an error was fatal; a fiber ran after the destructors
objectvars == <<object, held, destructed>>
fibervars == <<status, caller, flags, stack, frames>>
vmvars == <<current, active, bailout>>
vars == <<objectvars, fibervars, vmvars, blocking, bailing, phase, fatal, late>>

Phases == <<"script", "functions", "destructors", "late", "over">>
After(p) == Phases[1 + CHOOSE i \in DOMAIN Phases : Phases[i] = p]

-----------------------------------------------------------------------------
(* Switching                                                               *)

\* zend_fiber_switch_context is left on the stack of the context that waits,
\* with the VM state to restore.  resume and destroy also keep the fiber they
\* switched to and the one that was active.
Frame(op, f, previous, a) ==
    [op |-> op, fiber |-> f, previous |-> previous, active |-> a, bailout |-> bailout]
Call(op) == [op |-> op]

Blocks(frame) == frame.op \in {"destructor", "sweep", "destroy"}
Top(c) == IF frames[c] = <<>> THEN Call("none") ELSE Last(frames[c])

\* zend_fiber_resume: the caller is set before, the active fiber is already the
\* one that is switched to when the state is captured.
Enter(f, op) ==
    LET waits == Append(frames[current], Frame(op, f, active, f))
        state == Top(f)
    IN /\ caller' = [caller EXCEPT ![f] = current]
       /\ status' = [status EXCEPT ![f] = "running", ![current] = "suspended"]
       /\ current' = f
       /\ IF status[f] = "init"
          THEN /\ active' = f /\ bailout' = f     \* zend_fiber_execute: zend_first_try
               /\ frames' = [frames EXCEPT ![current] = waits]
          ELSE /\ active' = state.active /\ bailout' = state.bailout
               /\ frames' = [frames EXCEPT ![current] = waits, ![f] = Front(@)]

\* zend_fiber_switch_to and zend_fiber_resume: the active fiber of a context to
\* which control comes back, by a bailout or not.
ActiveAfter(transfer, frame) == IF transfer = "bailout" THEN Nobody ELSE frame.previous

\* zend_fiber_destroy_context, for a fiber that is dead
StackAfter(from, st) == IF st[from] = "dead" THEN stack \ {from} ELSE stack

\* Control comes back to context c, which waits in resume or destroy.
\* st, fr and fl are the contexts as the fiber that comes leaves them.
Arrive(c, from, transfer, st, fr, fl) ==
    LET frame == Last(fr[c])
        closed == frame.op = "destroy" /\ transfer # "bailout"
    IN /\ status' = [st EXCEPT ![c] = "running"]
       /\ frames' = [fr EXCEPT ![c] = Front(@)]
       /\ flags' = fl
       /\ caller' = [caller EXCEPT ![from] = Nobody]
       /\ stack' = StackAfter(from, st)
       /\ current' = c
       /\ active' = ActiveAfter(transfer, frame)
       /\ bailout' = frame.bailout
       /\ bailing' = (transfer = "bailout")
       /\ blocking' = IF closed THEN blocking - 1 ELSE blocking
       /\ object' = IF closed /\ frame.fiber \notin held
                    THEN [object EXCEPT ![frame.fiber] = "freed"] ELSE object

-----------------------------------------------------------------------------
(* What PHP code does                                                      *)

\* PHP code runs in the current context.
Running ==
    /\ ~bailing /\ phase # "over"
    /\ \/ current # Main
       \/ Top(Main).op \in {"destructor", "swept destructor"}
       \/ phase \in {"script", "functions", "late"}

Blocked == blocking # 0

Late == late' = (late \/ phase = "late")

\* new Fiber
New(f) ==
    /\ Running /\ object[f] = "none"
    /\ object' = [object EXCEPT ![f] = "alive"]
    /\ held' = held \cup {f}
    /\ UNCHANGED <<destructed, fibervars, vmvars, blocking, bailing, phase, fatal, late>>

Start(f) ==
    /\ Running /\ f \in held /\ ~Blocked /\ status[f] = "init"
    /\ stack' = stack \cup {f}
    /\ Enter(f, "resume")
    /\ Late
    /\ UNCHANGED <<objectvars, flags, blocking, bailing, phase, fatal>>

\* What may be resumed: a fiber that waits in a fiber it resumed has a caller.
\* Faulty variant: its caller is not looked at.
ResumableByStatus(f) == status[f] = "suspended"
Resumable(f) == status[f] = "suspended" /\ caller[f] = Nobody

\* Fiber::resume, Fiber::throw
Resume(f) ==
    /\ Running /\ f \in held /\ ~Blocked /\ Resumable(f)
    /\ Enter(f, "resume")
    /\ Late
    /\ UNCHANGED <<objectvars, flags, stack, blocking, bailing, phase, fatal>>

\* Fiber::suspend.  It is the active fiber that is asked for its caller and
\* the current context that is left.
\* Faulty variant: blocked or not.
MaySuspendBlocked == active # Nobody /\ "DESTROYED" \notin flags[active]
MaySuspend == active # Nobody /\ "DESTROYED" \notin flags[active] /\ ~Blocked

Suspend ==
    /\ Running /\ MaySuspend
    /\ Arrive(caller[active], current, "value",
              [status EXCEPT ![current] = "suspended"],
              [frames EXCEPT ![current] = Append(@, Frame("suspend", active, active, active))],
              flags)
    /\ UNCHANGED <<held, destructed, phase, fatal, late>>

\* Fiber::getCurrent
GetCurrent ==
    /\ Running /\ active # Nobody /\ active \notin held
    /\ held' = held \cup {active}
    /\ UNCHANGED <<object, destructed, fibervars, vmvars, blocking, bailing, phase, fatal, late>>

\* The fiber's function returns or throws (zend_fiber_execute).  The graceful
\* exit of a fiber that is closed is not an error.
End(transfer) ==
    /\ Running /\ current # Main /\ frames[current] = <<>>
    /\ Arrive(caller[current], current, transfer,
              [status EXCEPT ![current] = "dead"], frames,
              IF transfer = "error" THEN [flags EXCEPT ![current] = @ \cup {"THREW"}] ELSE flags)
    /\ UNCHANGED <<held, destructed, phase, fatal, late>>

\* Values die while PHP code runs and while the symbol table is destroyed.
ValuesDie == Running \/ (~bailing /\ phase = "destructors" /\ current = Main /\ frames[Main] = <<>>)

\* An object whose class has a destructor dies: zend_objects_store_del.
DestructorBegin ==
    /\ ValuesDie /\ Len(frames[current]) < Nesting
    /\ frames' = [frames EXCEPT ![current] = Append(@, Call("destructor"))]
    /\ blocking' = blocking + 1
    /\ UNCHANGED <<objectvars, status, caller, flags, stack, vmvars, bailing, phase, fatal, late>>

DestructorEnd ==
    /\ ~bailing /\ Top(current).op = "destructor"
    /\ frames' = [frames EXCEPT ![current] = Front(@)]
    /\ blocking' = blocking - 1
    /\ UNCHANGED <<objectvars, status, caller, flags, stack, vmvars, bailing, phase, fatal, late>>

\* An error is fatal: php_error_cb has every object counted as destructed.
Fatal ==
    /\ ~bailing /\ phase # "over"
    /\ bailing' = TRUE /\ fatal' = TRUE
    /\ destructed' = destructed \cup {f \in Fibers : object[f] = "alive"}
    /\ UNCHANGED <<object, held, fibervars, vmvars, blocking, phase, late>>

-----------------------------------------------------------------------------
(* The death of a fiber's object                                           *)

\* A call of start, resume or throw and a running destructor hold the object:
\* a program that drops its last reference meanwhile does so after the call.
OnStack(f) == \E c \in Contexts : \E i \in DOMAIN frames[c] :
                  frames[c][i].op \in {"resume", "destroy", "swept"} /\ frames[c][i].fiber = f

\* zend_fiber_object_destroy: what it asks of the fiber is its status only.
Closes(f) == f \notin destructed /\ status[f] = "suspended"

Close(f, op) ==
    /\ flags' = [flags EXCEPT ![f] = @ \cup {"DESTROYED"}]
    /\ Enter(f, op)
    /\ UNCHANGED stack

\* zend_objects_store_del: the last reference goes.
Release(f) ==
    /\ ValuesDie /\ f \in held /\ ~OnStack(f)
    /\ held' = held \ {f}
    /\ destructed' = destructed \cup {f}
    /\ IF Closes(f)
       THEN /\ Close(f, "destroy")
            /\ blocking' = blocking + 1
            /\ UNCHANGED object
       ELSE /\ object' = [object EXCEPT ![f] = "freed"]
            /\ UNCHANGED <<fibervars, vmvars, blocking>>
    /\ Late
    /\ UNCHANGED <<bailing, phase, fatal>>

\* zend_objects_store_call_destructors, one object at a time.
\* Faulty variant: without the block.
SweepBeginOpen ==
    /\ ~bailing /\ phase = "destructors" /\ current = Main /\ frames[Main] = <<>>
    /\ frames' = [frames EXCEPT ![Main] = Append(@, Call("sweep"))]
    /\ UNCHANGED <<objectvars, status, caller, flags, stack, vmvars, blocking, bailing, phase, fatal, late>>
SweepBegin ==
    /\ ~bailing /\ phase = "destructors" /\ current = Main /\ frames[Main] = <<>>
    /\ frames' = [frames EXCEPT ![Main] = Append(@, Call("sweep"))]
    /\ blocking' = blocking + 1
    /\ UNCHANGED <<objectvars, status, caller, flags, stack, vmvars, bailing, phase, fatal, late>>

Sweeping == ~bailing /\ current = Main /\ Top(Main).op = "sweep"

SweepFiber(f) ==
    /\ Sweeping
    /\ object[f] = "alive" /\ f \notin destructed
    /\ destructed' = destructed \cup {f}
    /\ IF Closes(f) THEN Close(f, "swept") ELSE UNCHANGED <<fibervars, vmvars>>
    /\ UNCHANGED <<object, held, blocking, bailing, phase, fatal, late>>

\* The destructor of another object, blocked by the sweep itself.
SweepBeginObject ==
    /\ Sweeping /\ Len(frames[Main]) < Nesting
    /\ frames' = [frames EXCEPT ![Main] = Append(@, Call("swept destructor"))]
    /\ UNCHANGED <<objectvars, status, caller, flags, stack, vmvars, blocking, bailing, phase, fatal, late>>

SweepEndObject ==
    /\ ~bailing /\ Top(current).op = "swept destructor"
    /\ frames' = [frames EXCEPT ![current] = Front(@)]
    /\ UNCHANGED <<objectvars, status, caller, flags, stack, vmvars, blocking, bailing, phase, fatal, late>>

SweepEnd ==
    /\ Sweeping
    /\ \A f \in Fibers : object[f] = "alive" => f \in destructed
    /\ frames' = [frames EXCEPT ![Main] = <<>>]
    /\ blocking' = blocking - 1
    /\ phase' = After(phase)
    /\ UNCHANGED <<objectvars, status, caller, flags, stack, vmvars, bailing, fatal, late>>

-----------------------------------------------------------------------------
(* Bailouts and the request                                                *)

\* The longjmp lands in zend_fiber_execute: the fiber is dead, and the transfer
\* makes its caller bail out too (zend_fiber_switch_to).
CaughtInFiber ==
    /\ bailing /\ bailout = current /\ current # Main
    /\ Arrive(caller[current], current, "bailout",
              [status EXCEPT ![current] = "dead"],
              [frames EXCEPT ![current] = <<>>],
              [flags EXCEPT ![current] = @ \cup {"BAILOUT"}])
    /\ UNCHANGED <<held, destructed, phase, fatal, late>>

\* It lands in php_execute_scripts or php_request_shutdown: the request goes
\* on with its next step.  Nothing unblocks what was blocked.
CaughtInMain ==
    /\ bailing /\ bailout = current /\ current = Main
    /\ bailing' = FALSE
    /\ frames' = [frames EXCEPT ![Main] = <<>>]
    /\ phase' = After(phase)
    /\ destructed' = IF phase = "destructors"       \* zend_objects_store_mark_destructed
                     THEN destructed \cup {f \in Fibers : object[f] = "alive"} ELSE destructed
    /\ UNCHANGED <<object, held, status, caller, flags, stack, vmvars, blocking, fatal, late>>

NextPhase ==
    /\ ~bailing /\ current = Main /\ frames[Main] = <<>>
    /\ phase \in {"script", "functions", "late"}
    /\ phase' = After(phase)
    /\ UNCHANGED <<objectvars, fibervars, vmvars, blocking, bailing, fatal, late>>

Init ==
    /\ object = [f \in Fibers |-> "none"]
    /\ held = {} /\ destructed = {} /\ stack = {}
    /\ status = [c \in Contexts |-> IF c = Main THEN "running" ELSE "init"]
    /\ caller = [c \in Contexts |-> Nobody]
    /\ flags = [c \in Contexts |-> {}]
    /\ frames = [c \in Contexts |-> <<>>]
    /\ current = Main /\ active = Nobody /\ bailout = Main
    /\ blocking = 0 /\ bailing = FALSE
    /\ phase = "script" /\ fatal = FALSE /\ late = FALSE

Over == phase = "over" /\ UNCHANGED vars

Next ==
    \/ \E f \in Fibers : New(f) \/ Start(f) \/ Resume(f) \/ Release(f) \/ SweepFiber(f)
    \/ Suspend \/ GetCurrent \/ End("value") \/ End("error")
    \/ DestructorBegin \/ DestructorEnd \/ Fatal
    \/ SweepBegin \/ SweepBeginObject \/ SweepEndObject \/ SweepEnd
    \/ CaughtInFiber \/ CaughtInMain \/ NextPhase \/ Over

Spec == Init /\ [][Next]_vars

-----------------------------------------------------------------------------
(* Properties                                                              *)

Statuses == {"init", "running", "suspended", "dead"}
Waits == {"suspend", "resume", "destroy", "swept"}
Frames ==
    [op : {"destructor", "swept destructor", "sweep"}]
    \cup [op : Waits, fiber : Fibers, previous : Fibers \cup {Nobody},
          active : Fibers \cup {Nobody}, bailout : Contexts]

\* The shape of the state.
TypeOK ==
    /\ object \in [Fibers -> {"none", "alive", "freed"}]
    /\ held \in SUBSET Fibers /\ destructed \in SUBSET Fibers /\ stack \in SUBSET Fibers
    /\ status \in [Contexts -> Statuses]
    /\ caller \in [Contexts -> Contexts \cup {Nobody}]
    /\ flags \in [Contexts -> SUBSET {"DESTROYED", "THREW", "BAILOUT"}]
    /\ frames \in [Contexts -> Seq(Frames)]
    /\ current \in Contexts /\ active \in Fibers \cup {Nobody} /\ bailout \in Contexts
    /\ blocking \in Nat /\ bailing \in BOOLEAN
    /\ phase \in ToSet(Phases) /\ fatal \in BOOLEAN /\ late \in BOOLEAN

\* The VM's state belongs to the context that runs: it is the only one whose
\* status says so, Fiber::suspend and Fiber::getCurrent mean its fiber, and a
\* bailout lands on its own stack, also when it came from a fiber that died.
OneRuns ==
    /\ {c \in Contexts : status[c] = "running"} = {current}
    /\ bailout = current
    /\ ~bailing => active = (IF current = Main THEN Nobody ELSE current)
    /\ current # Main => caller[current] # Nobody

\* Each context on the chain was called by the one before it.
Called == {f \in Fibers : caller[f] # Nobody}
ChainOf(top, callers, depth) ==
    LET below[n \in 0..depth] ==
            IF n = 0 THEN top
            ELSE IF below[n - 1] \in Contexts THEN callers[below[n - 1]] ELSE Nobody
    IN [i \in 1..depth + 1 |-> below[depth + 1 - i]]
Chain == ChainOf(current, caller, Cardinality(Called))
Left == {f \in Fibers : status[f] = "suspended" /\ caller[f] = Nobody}

Abstract == INSTANCE Coroutines WITH
    chain <- Chain, suspended <- Left, ended <- {f \in Fibers : status[f] = "dead"}

\* Calls, suspensions, ends, closed fibers and bailouts that unwind the chain
\* are those of a stack of coroutines.
ImplementsCoroutines == Abstract!Spec

\* A destructor is not left suspended: its frame is always on the chain of the
\* running context.  The counter that blocks switches is exact until an error
\* is fatal, and never too low.
Blocking == {b \in Contexts \X (1..Nesting + 1) :
                 b[2] \in DOMAIN frames[b[1]] /\ Blocks(frames[b[1]][b[2]])}
DestructorsStay ==
    /\ \A f \in Left : Len(frames[f]) = 1
    /\ blocking >= Cardinality(Blocking)
    /\ fatal \/ blocking = Cardinality(Blocking)

\* A fiber that is force-closed does not suspend again, and its object is not
\* freed while a context waits in it or for it.
ForceClosed ==
    \A f \in Fibers :
        /\ "DESTROYED" \in flags[f] => f \notin Left
        /\ object[f] = "freed" =>
              /\ status[f] # "running" /\ caller[f] = Nobody
              /\ active # f /\ ~OnStack(f)

\* At the end of the request the C stack of every fiber is freed, unless an
\* error was fatal (destructors are not called any more) or a fiber was run by
\* an output callback after the destructors.
StacksFreed == phase = "over" /\ ~fatal /\ ~late => stack = {}

\* A fiber's end is the end of it: closed for good, its stack given back.
ClosedForGood == ForceClosed /\ StacksFreed

\* Through destructors that switch, fatal errors and the end of the request the
\* contexts stay sound: one runs, on its own stack and as its own fiber; none
\* is left inside of a destructor; and those that are closed stay closed.
FibersSound == OneRuns /\ DestructorsStay /\ ClosedForGood
=============================================================================
