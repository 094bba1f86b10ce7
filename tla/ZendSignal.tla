----------------------------- MODULE ZendSignal -----------------------------
(***************************************************************************)
(* Deferred signal handling (Zend/zend_signal.c, .h).  One thread runs the *)
(* program; a signal interrupts it between any two accesses to memory and  *)
(* runs zend_signal_handler_defer in a frame of its own, with every signal *)
(* masked, until the handler of the timeout signal unmasks it.  Inside a   *)
(* critical section (HANDLE_BLOCK_INTERRUPTIONS) the handler only links    *)
(* the signal into a queue taken from a fixed storage; the macro that      *)
(* leaves the outermost section calls zend_signal_handler_unblock.         *)
(*                                                                         *)
(* The queue is modelled as the code builds it, cells with next pointers,  *)
(* phead, ptail and pavail.  The code of extensions that opens and closes  *)
(* sections, and the handlers' own work, are left out, but for the call    *)
(* back into zend_sigaction of zend_timeout_handler.                       *)
(***************************************************************************)
EXTENDS Integers, Sequences, FiniteSets

CONSTANTS
    Sig,            \* zend_sigs
    NoSignal,       \* signo of a free cell
    Timeout,        \* TIMEOUT_SIG
    Orig,           \* global_orig_handlers
    Installable,    \* dispositions given to zend_sigaction
    Stealable,      \* signals, with dispositions that others give to sigaction
    QueueSize,      \* ZEND_SIGNAL_QUEUE_SIZE
    Order,          \* what builds do first in `depth-- == blocked'
    MaxDepth,       \* bound on nested critical sections
    MaxNesting      \* bound on nested handlers

Dispositions == {"default", "ignore", "handler", "once"}

ASSUME SignalAssumption ==
    /\ Timeout \in Sig
    /\ NoSignal \notin Sig
    /\ Orig \in [Sig -> Dispositions]
    /\ Installable \subseteq Dispositions
    /\ Stealable \subseteq Sig \X Dispositions
    /\ QueueSize \in Nat \ {0}
    /\ Order \subseteq {"store", "load"}
    /\ MaxDepth \in Nat
    /\ MaxNesting \in Nat

Null == 0
Cell == 1 .. QueueSize

VARIABLES
    active, depth, blocked, running,    \* zend_signal_globals
    handlers,
    phead, ptail, pavail,               \* the pending and the available cells
    next, signo,                        \* the cells of pstorage
    kernel,     \* what sigaction has installed: a disposition, or "defer"
    pending,    \* signals the kernel has yet to deliver
    mask,       \* signals it may not deliver now
    frames,     \* interrupted calls of zend_signal_handler_defer, oldest first
    pc, reg,    \* where the program is in the code of zend_signal, a register
    sections,   \* critical sections the program is in
    todo,       \* signals zend_signal_activate has yet to register
    fate,       \* of the process
    build       \* what the compiler made of `depth-- == blocked'

globals == <<active, depth, blocked, running>>
queue == <<phead, ptail, pavail, next, signo>>
process == <<pending, mask, fate>>
program == <<pc, reg, sections, todo>>
vars == <<active, depth, blocked, running, handlers, phead, ptail, pavail, next,
          signo, kernel, pending, mask, frames, pc, reg, sections, todo, fate, build>>

\* After zend_signal_startup: memset, and every cell linked to the one before.
Init ==
    /\ active = FALSE /\ depth = 0 /\ blocked = FALSE /\ running = FALSE
    /\ handlers = [s \in Sig |-> "default"]
    /\ phead = Null /\ ptail = Null /\ pavail = QueueSize
    /\ next = [c \in Cell |-> c - 1]
    /\ signo = [c \in Cell |-> NoSignal]
    /\ kernel = Orig
    /\ pending = {} /\ mask = {} /\ frames = <<>>
    /\ pc = "run" /\ reg = 0 /\ sections = 0 /\ todo = {}
    /\ fate = "alive"
    /\ build \in Order

-----------------------------------------------------------------------------
(* The kernel.                                                             *)

Frame(s) == [signo |-> s, oldmask |-> mask, at |-> "enter", queue |-> Null]

Raise(s) ==
    /\ fate = "alive" /\ s \notin pending
    /\ pending' = pending \cup {s}
    /\ UNCHANGED <<globals, handlers, queue, kernel, mask, frames, program, fate>>

\* A signal that zend_signal has installed its handler for.
Deliver(s) ==
    /\ fate = "alive" /\ s \in pending \ mask
    /\ kernel[s] = "defer"
    /\ Len(frames) < MaxNesting
    /\ pending' = pending \ {s}
    /\ mask' = Sig
    /\ frames' = Append(frames, Frame(s))
    /\ UNCHANGED <<globals, handlers, queue, kernel, program, fate>>

\* One that it has not: the process dies, or something else handles it.
DeliverElsewhere(s) ==
    /\ fate = "alive" /\ s \in pending \ mask
    /\ kernel[s] # "defer"
    /\ pending' = pending \ {s}
    /\ fate' = IF kernel[s] = "default" THEN "killed" ELSE fate
    /\ kernel' = [kernel EXCEPT ![s] = IF @ = "once" THEN "default" ELSE @]
    /\ UNCHANGED <<globals, handlers, queue, mask, frames, program>>

-----------------------------------------------------------------------------
(* zend_sigaction, zend_signal_handler.                                    *)

Top == frames[Len(frames)]
In(at) == fate = "alive" /\ frames # <<>> /\ Top.at = at
Goto(at, q) == frames' = [frames EXCEPT ![Len(frames)] = [@ EXCEPT !.at = at, !.queue = q]]
Return == frames' = SubSeq(frames, 1, Len(frames) - 1) /\ mask' = Top.oldmask

Sigaction(s, act) ==
    /\ handlers' = [handlers EXCEPT ![s] = act]
    /\ kernel' = [kernel EXCEPT ![s] = IF act = "ignore" THEN act ELSE "defer"]
    /\ mask' = mask \ {s}

\* The default action takes the process down.  A handler set with
\* SA_RESETHAND is called once.  zend_timeout_handler may set the hard
\* timeout, and then installs itself again.
SignalHandler(s) ==
    \/ /\ handlers[s] = "default"
       /\ fate' = "killed"
       /\ kernel' = [kernel EXCEPT ![s] = "default"]
       /\ UNCHANGED <<handlers, mask>>
    \/ /\ handlers[s] = "ignore"
       /\ UNCHANGED <<handlers, kernel, mask, fate>>
    \/ /\ handlers[s] \in {"handler", "once"}
       /\ \/ /\ handlers' = [handlers EXCEPT ![s] = IF @ = "once" THEN "default" ELSE @]
             /\ UNCHANGED <<kernel, mask>>
          \/ s = Timeout /\ Sigaction(s, "handler")
       /\ UNCHANGED fate

-----------------------------------------------------------------------------
(* zend_signal_handler_defer.                                              *)

EnterInactive ==
    /\ In("enter") /\ ~active
    /\ Goto("direct", Null)
    /\ UNCHANGED <<globals, handlers, queue, kernel, process, program>>

Direct ==
    /\ In("direct")
    /\ SignalHandler(Top.signo)
    /\ Goto("leave", Null)
    /\ UNCHANGED <<globals, queue, pending, program>>

\* Faulty variant: the end of the list is found by ptail alone.
LinkTail(c) ==
    /\ pavail' = next[c]
    /\ IF ptail # Null
       THEN next' = [next EXCEPT ![c] = Null, ![ptail] = c] /\ phead' = phead
       ELSE next' = [next EXCEPT ![c] = Null] /\ phead' = c
    /\ ptail' = c
    /\ signo' = [signo EXCEPT ![c] = Top.signo]

Link(c) ==
    /\ pavail' = next[c]
    /\ IF phead # Null /\ ptail # Null
       THEN next' = [next EXCEPT ![c] = Null, ![ptail] = c] /\ phead' = phead
       ELSE next' = [next EXCEPT ![c] = Null] /\ phead' = c
    /\ ptail' = c
    /\ signo' = [signo EXCEPT ![c] = Top.signo]

\* In a critical section: if no cell is available the signal is forgotten.
EnterSection ==
    /\ In("enter") /\ active /\ depth # 0
    /\ blocked' = TRUE
    /\ IF pavail # Null THEN Link(pavail) ELSE UNCHANGED queue
    /\ Return
    /\ UNCHANGED <<active, depth, running, handlers, kernel, pending, program, fate>>

\* While a handler runs another signal is dropped.
EnterRunning ==
    /\ In("enter") /\ active /\ depth = 0 /\ running
    /\ blocked' = FALSE
    /\ Return
    /\ UNCHANGED <<active, depth, running, handlers, queue, kernel, pending, program, fate>>

\* Faulty variant: whatever the depth.
EnterHandleAlways ==
    /\ In("enter") /\ active /\ ~running
    /\ blocked' = FALSE
    /\ running' = TRUE
    /\ Goto("first", Null)
    /\ UNCHANGED <<active, depth, handlers, queue, kernel, process, program>>

EnterHandle ==
    /\ In("enter") /\ active /\ depth = 0 /\ ~running
    /\ blocked' = FALSE
    /\ running' = TRUE
    /\ Goto("first", Null)
    /\ UNCHANGED <<active, depth, handlers, queue, kernel, process, program>>

First ==
    /\ In("first")
    /\ SignalHandler(Top.signo)
    /\ Goto("take", Null)
    /\ UNCHANGED <<globals, queue, pending, program>>

Take ==
    /\ In("take")
    /\ Goto("drain", phead)
    /\ phead' = Null
    /\ UNCHANGED <<globals, handlers, ptail, pavail, next, signo, kernel, process, program>>

Drain ==
    LET c == Top.queue
    IN  /\ In("drain") /\ c # Null
        /\ SignalHandler(signo[c])
        /\ next' = [next EXCEPT ![c] = pavail]
        /\ signo' = [signo EXCEPT ![c] = NoSignal]
        /\ pavail' = c
        /\ Goto("drain", next[c])
        /\ UNCHANGED <<globals, phead, ptail, pending, program>>

DrainDone ==
    /\ In("drain") /\ Top.queue = Null
    /\ running' = FALSE
    /\ Goto("leave", Null)
    /\ UNCHANGED <<active, depth, blocked, handlers, queue, kernel, process, program>>

Leave ==
    /\ In("leave")
    /\ Return
    /\ UNCHANGED <<globals, handlers, queue, kernel, pending, program, fate>>

-----------------------------------------------------------------------------
(* The program: critical sections.                                         *)

At(label) == fate = "alive" /\ frames = <<>> /\ pc = label
Blocked == IF blocked THEN 1 ELSE 0

Block ==
    /\ At("run") /\ depth < MaxDepth
    /\ depth' = depth + 1
    /\ sections' = sections + 1
    /\ UNCHANGED <<active, blocked, running, handlers, queue, kernel, process,
                   frames, pc, reg, todo>>

\* ZEND_SIGNAL_UNBLOCK_INTERRUPTIONS compares depth-- and blocked.  C leaves
\* open whether depth is stored before blocked is loaded, or after.
StoreDepth ==
    /\ At("run") /\ build = "store" /\ sections > 0
    /\ reg' = depth
    /\ depth' = depth - 1
    /\ sections' = sections - 1
    /\ pc' = "stored"
    /\ UNCHANGED <<active, blocked, running, handlers, queue, kernel, process, frames, todo>>

\* Faulty variant: depth as it is after the decrement.
ThenLoadBlockedLess ==
    /\ At("stored")
    /\ pc' = IF reg - 1 = Blocked THEN "call" ELSE "run"
    /\ reg' = 0
    /\ UNCHANGED <<globals, handlers, queue, kernel, process, frames, sections, todo>>

ThenLoadBlocked ==
    /\ At("stored")
    /\ pc' = IF reg = Blocked THEN "call" ELSE "run"
    /\ reg' = 0
    /\ UNCHANGED <<globals, handlers, queue, kernel, process, frames, sections, todo>>

LoadBlocked ==
    /\ At("run") /\ build = "load" /\ sections > 0
    /\ reg' = Blocked
    /\ pc' = "loaded"
    /\ UNCHANGED <<globals, handlers, queue, kernel, process, frames, sections, todo>>

ThenStoreDepth ==
    /\ At("loaded")
    /\ pc' = IF depth = reg THEN "call" ELSE "run"
    /\ reg' = 0
    /\ depth' = depth - 1
    /\ sections' = sections - 1
    /\ UNCHANGED <<active, blocked, running, handlers, queue, kernel, process, frames, todo>>

\* Faulty variant: the signal is read after its cell has been cleared.
HandlerUnblockFreed ==
    /\ At("call")
    /\ pc' = "run"
    /\ IF active /\ phead # Null
       THEN /\ phead' = next[phead]
            /\ next' = [next EXCEPT ![phead] = pavail]
            /\ signo' = [signo EXCEPT ![phead] = NoSignal]
            /\ pavail' = phead
            /\ frames' = <<Frame(signo'[phead])>>
            /\ mask' = mask \cup Sig
            /\ UNCHANGED <<ptail, fate>>
       ELSE /\ fate' = IF active THEN "crashed" ELSE fate
            /\ UNCHANGED <<queue, frames, mask>>
    /\ UNCHANGED <<globals, handlers, kernel, pending, reg, sections, todo>>

\* zend_signal_handler_unblock: with all signals masked the first cell is
\* taken out and its signal handled as if the kernel had delivered it.  The
\* cell is not tested for NULL.
HandlerUnblock ==
    /\ At("call")
    /\ pc' = "run"
    /\ IF active /\ phead # Null
       THEN /\ phead' = next[phead]
            /\ next' = [next EXCEPT ![phead] = pavail]
            /\ signo' = [signo EXCEPT ![phead] = NoSignal]
            /\ pavail' = phead
            /\ frames' = <<Frame(signo[phead])>>
            /\ mask' = mask \cup Sig
            /\ UNCHANGED <<ptail, fate>>
       ELSE /\ fate' = IF active THEN "crashed" ELSE fate
            /\ UNCHANGED <<queue, frames, mask>>
    /\ UNCHANGED <<globals, handlers, kernel, pending, reg, sections, todo>>

\* A fatal error jumps out of a section.
Bailout ==
    /\ At("run") /\ active /\ sections > 0
    /\ sections' = 0
    /\ UNCHANGED <<globals, handlers, queue, kernel, process, frames, pc, reg, todo>>

-----------------------------------------------------------------------------
(* The program: dispositions, begin and end of a request.                  *)

Install(s, act) ==
    /\ At("run")
    /\ Sigaction(s, act)
    /\ pending' = IF act = "ignore" THEN pending \ {s} ELSE pending
    /\ UNCHANGED <<globals, queue, frames, program, fate>>

\* Other code calls sigaction itself.
Steal(s, act) ==
    /\ At("run")
    /\ kernel' = [kernel EXCEPT ![s] = act]
    /\ pending' = IF act = "ignore" THEN pending \ {s} ELSE pending
    /\ UNCHANGED <<globals, handlers, queue, mask, frames, program, fate>>

RestoreHandlers ==
    /\ At("run") /\ ~active /\ sections = 0
    /\ handlers' = Orig
    /\ todo' = Sig
    /\ pc' = "activate"
    /\ UNCHANGED <<globals, queue, kernel, process, frames, reg, sections>>

\* zend_signal_register: what was installed is called by zend_signal_handler.
Register(s) ==
    /\ At("activate") /\ s \in todo
    /\ todo' = todo \ {s}
    /\ IF kernel[s] = "defer"
       THEN UNCHANGED <<handlers, kernel>>
       ELSE /\ handlers' = [handlers EXCEPT ![s] = kernel[s]]
            /\ kernel' = [kernel EXCEPT ![s] = "defer"]
    /\ UNCHANGED <<globals, queue, process, frames, pc, reg, sections>>

SetActive ==
    /\ At("activate") /\ todo = {}
    /\ active' = TRUE
    /\ pc' = "activated"
    /\ UNCHANGED <<depth, blocked, running, handlers, queue, kernel, process,
                   frames, reg, sections, todo>>

ResetDepth ==
    /\ At("activated")
    /\ depth' = 0
    /\ pc' = "run"
    /\ UNCHANGED <<active, blocked, running, handlers, queue, kernel, process,
                   frames, reg, sections, todo>>

SetInactive ==
    /\ At("run") /\ active /\ sections = 0
    /\ active' = FALSE
    /\ pc' = "deactivate"
    /\ UNCHANGED <<depth, blocked, running, handlers, queue, kernel, process,
                   frames, reg, sections, todo>>

\* Faulty variant: queued signals are kept.
ResetKeepQueue ==
    /\ At("deactivate")
    /\ running' = FALSE /\ blocked' = FALSE /\ depth' = 0
    /\ pc' = "run"
    /\ UNCHANGED <<active, handlers, queue, kernel, process, frames, reg, sections, todo>>

\* Queued signals are dropped.
Reset ==
    /\ At("deactivate")
    /\ running' = FALSE /\ blocked' = FALSE /\ depth' = 0
    /\ IF phead # Null /\ ptail # Null
       THEN /\ next' = [next EXCEPT ![ptail] = pavail]
            /\ pavail' = phead /\ phead' = Null /\ ptail' = Null
       ELSE UNCHANGED <<next, pavail, phead, ptail>>
    /\ pc' = "run"
    /\ UNCHANGED <<active, handlers, signo, kernel, process, frames, reg, sections, todo>>

-----------------------------------------------------------------------------
Interrupt ==
    \/ EnterInactive \/ Direct \/ EnterSection \/ EnterRunning \/ EnterHandle
    \/ First \/ Take \/ Drain \/ DrainDone \/ Leave

Macro == ThenLoadBlocked \/ ThenStoreDepth \/ HandlerUnblock

Request ==
    \/ RestoreHandlers \/ SetActive \/ ResetDepth \/ SetInactive \/ Reset
    \/ \E s \in Sig : Register(s)

\* The process is gone.
Over == fate # "alive" /\ UNCHANGED vars

Next ==
    /\ \/ Interrupt \/ Macro \/ Request \/ Over
       \/ Block \/ StoreDepth \/ LoadBlocked \/ Bailout
       \/ \E s \in Sig :
           \/ Raise(s) \/ Deliver(s) \/ DeliverElsewhere(s)
           \/ \E act \in Installable : Install(s, act)
       \/ \E theft \in Stealable : Steal(theft[1], theft[2])
    /\ UNCHANGED build

Spec == Init /\ [][Next]_vars

\* Signals come slower than the thread runs, a critical section comes to its
\* end although it may hold others, and a fatal error ends the request.
FairSpec ==
    /\ Spec
    /\ \A n \in 1 .. MaxNesting : SF_vars(Len(frames) = n /\ Interrupt /\ UNCHANGED build)
    /\ SF_vars((Macro \/ Reset) /\ UNCHANGED build)
    /\ \A n \in 1 .. MaxDepth : SF_vars(sections = n /\ StoreDepth /\ UNCHANGED build)
    /\ SF_vars(sections = 0 /\ depth # 0 /\ SetInactive /\ UNCHANGED build)

-----------------------------------------------------------------------------
(* Properties.                                                             *)

Labels == {"run", "stored", "loaded", "call", "activate", "activated", "deactivate"}
Places == {"enter", "direct", "first", "take", "drain", "leave"}
Frames == [signo : Sig, oldmask : SUBSET Sig, at : Places, queue : Cell \cup {Null}]

TypeOK ==
    /\ active \in BOOLEAN /\ blocked \in BOOLEAN /\ running \in BOOLEAN
    /\ depth \in Nat
    /\ handlers \in [Sig -> Dispositions]
    /\ {phead, ptail, pavail} \subseteq Cell \cup {Null}
    /\ next \in [Cell -> Cell \cup {Null}]
    /\ signo \in [Cell -> Sig \cup {NoSignal}]
    /\ kernel \in [Sig -> Dispositions \cup {"defer"}]
    /\ pending \subseteq Sig /\ mask \subseteq Sig
    /\ frames \in Seq(Frames)
    /\ pc \in Labels /\ reg \in Nat
    /\ sections \in Nat
    /\ todo \subseteq Sig
    /\ fate \in {"alive", "killed", "crashed"} /\ build \in Order

\* The cells of the list that starts with p.
Chain(p) ==
    {c \in Cell :
        \A T \in SUBSET Cell :
            /\ p \in T \cup {Null}
            /\ \A b \in T : next[b] \in T \cup {Null}
            => c \in T}

\* All lists there are: pending, available, taken by a handler.
Lists == <<phead, pavail>> \o [i \in 1 .. Len(frames) |-> frames[i].queue]

\* Every cell of pstorage is in exactly one list, every list has an end, and
\* the pending one ends in ptail: interrupted or nested, the handler never
\* loses a cell, nor links one twice.
CellsConserved ==
    /\ \A c \in Cell : Cardinality({i \in DOMAIN Lists : c \in Chain(Lists[i])}) = 1
    /\ \A i \in DOMAIN Lists :
        Lists[i] # Null => \E c \in Chain(Lists[i]) : next[c] = Null
    /\ phead # Null => ptail \in Chain(phead) /\ next[ptail] = Null

Handling == {i \in DOMAIN frames : frames[i].at \in {"first", "take", "drain"}}

\* During a request no handler runs inside of a critical section: not when
\* the signal comes, nor from the queue, nor when a nested section is left.
SectionsUninterrupted == active /\ sections > 0 => Handling = {}

\* During a request handlers run one at a time, also when zend_timeout_handler
\* has unmasked its own signal.
OneHandlerAtATime == \A i, j \in Handling : i = j

\* What zend_signal.c is for: handlers neither interrupt critical sections nor
\* one another.
Exclusive == SectionsUninterrupted /\ OneHandlerAtATime

\* Outside of critical sections no signal is left behind in the queue, in a
\* build that stores depth first.
NoneStranded == At("run") /\ active /\ depth = 0 /\ build = "store" => phead = Null

\* Signals are not lost, by an interrupt in the queue or by a section left.
QueueSound == CellsConserved /\ NoneStranded

\* The cells in s are linked by nx, and the list starts with p.
Linked(nx, p, s) ==
    /\ p = IF s = <<>> THEN Null ELSE s[1]
    /\ \A i \in DOMAIN s : nx[s[i]] = IF i < Len(s) THEN s[i + 1] ELSE Null

ListOf(p) ==
    CHOOSE s \in UNION {[1 .. n -> Cell] : n \in 0 .. QueueSize} : Linked(next, p, s)

\* The cells that a handler has taken from the queue.
Taken == IF Handling = {} THEN Null ELSE frames[CHOOSE i \in Handling : TRUE].queue

\* Signals that wait: those a handler has taken, before those it has not.
Waiting ==
    LET cells == ListOf(Taken) \o ListOf(phead)
    IN  [i \in DOMAIN cells |-> signo[cells[i]]]

Abstract == INSTANCE SignalQueue WITH deferred <- Waiting, serving <- active

\* Deferred signals are handled in the order in which they came, each once,
\* and none is carried over from one request to the next.
ImplementsSignalQueue == Abstract!Spec

\* "Handle deferred signal": there is one when zend_signal_handler_unblock
\* takes it from the queue.
UnblockFindsSignal == fate # "crashed"

\* A signal that has been deferred is handled, or dropped with its request, in
\* a build that stores depth first.
DeferredHandled == phead # Null /\ build = "store" ~> phead = Null \/ fate # "alive"
=============================================================================
