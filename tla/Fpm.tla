--------------------------------- MODULE Fpm ---------------------------------
(***************************************************************************)
(* One pool of the FastCGI process manager (sapi/fpm/fpm): the master with *)
(* its event loop, its signal socket, its process control and its idle     *)
(* server maintenance; its children, each going round the loop of          *)
(* fpm_main.c; and the scoreboard they share, with a spinlock that has no  *)
(* owner.                                                                  *)
(*                                                                         *)
(* The master is one thread: a step takes it from one call that may wait   *)
(* to the next.  Children and signals move in between.  What only feeds    *)
(* logs and the status page is left out, and so are the locks of single    *)
(* slots: the master only tries those, and a freed slot is zeroed with its *)
(* lock.                                                                   *)
(***************************************************************************)
EXTENDS Integers, Sequences, FiniteSets

CONSTANTS
    Slot,               \* slots of the scoreboard, pm.max_children of them
    Nobody, Lost,       \* the lock is free; held by a child that is no more
    Styles,             \* values of pm to look at
    StartServers, MinSpare, MaxSpare, MaxSpawnRate,   \* pm.*
    Timeouts,           \* which of terminate, slowlog (request_*_timeout) are set
    Emergency,          \* whether emergency_restart_threshold is set
    SocketSize,         \* bytes the signal socket holds
    Asks,               \* bytes of signals the administrator sends
    Bound,              \* how often each kind of event may happen
    Total               \* how many events may happen in all

N == Cardinality(Slot)
Events == {"admin", "conn", "crash", "fork"}

ASSUME FpmAssumption ==
    /\ IsFiniteSet(Slot) /\ {Nobody, Lost} \cap Slot = {} /\ Nobody # Lost
    /\ Styles \subseteq {"static", "dynamic", "ondemand"}
    /\ StartServers \in 1 .. N /\ MinSpare \in 1 .. N /\ MaxSpare \in MinSpare .. N
    /\ MaxSpawnRate \in Nat \ {0} /\ SocketSize \in Nat
    /\ Timeouts \subseteq {"terminate", "slowlog"} /\ Emergency \in BOOLEAN
    /\ Asks \subseteq {"T", "Q", "U"}
    /\ Bound \in [Events -> Nat] /\ Total \in Nat
    /\ Bound["admin"] < SocketSize    \* it holds hundreds

VARIABLES
    pm,             \* wp->config->pm
    state,          \* fpm_state
    sent,           \* fpm_signal_sent
    pc,             \* where the master is
    goal,           \* max of fpm_children_make
    children,       \* wp->children, in no order
    idleKill,       \* those with idle_kill
    tracer,         \* those with tracer
    spawnRate,      \* wp->idle_spawn_rate
    warned,         \* wp->warn_max_children
    timers,         \* of the timers that fire once: those that are queued
    socket,         \* bytes in the signal socket
    edge,           \* the listening socket has an event (ondemand)
    lock,           \* whose spinlock the scoreboard is
    stage,          \* request_stage of each slot
    at,             \* where the child of the slot is
    proc,           \* what the kernel knows of it
    sigs,           \* signals it has pending
    quitting,       \* its in_shutdown
    conn,           \* connections in the listening queue
    count           \* the bounded events that have happened

controlVars == <<state, sent>>
poolVars == <<children, idleKill, tracer, spawnRate, warned>>
childVars == <<stage, at, proc, sigs, quitting>>
worldVars == <<pm, conn, count>>
vars == <<pm, state, sent, pc, goal, children, idleKill, tracer, spawnRate,
          warned, timers, socket, edge, lock, stage, at, proc, sigs, quitting,
          conn, count>>
masterVars == <<controlVars, pc, goal, poolVars, timers>>

Running == Cardinality(children)
CanSpawn == state = "normal"

\* A child is stopped until waitpid reports it, then traced.
Alive == {"running", "stopped", "traced"}
Zombie == {"exit", "TERM", "KILL", "SEGV"}
Runs(c, place) == proc[c] = "running" /\ at[c] = place
IsIdle(c) == stage[c] = "accepting"

Happens(event) ==
    /\ count[event] < Bound[event]
    /\ count["admin"] + count["conn"] + count["crash"] + count["fork"] < Total
    /\ count' = [count EXCEPT ![event] = @ + 1]

(***************************************************************************)
(* Signals.                                                                *)
(***************************************************************************)
\* sig_handler: a write that would block is given up.
SigHandler(byte) ==
    socket' = IF Len(socket) < SocketSize THEN Append(socket, byte) ELSE socket

\* kill(2) of each of a set of children.
Kill(who, sig) ==
    sigs' = [c \in Slot |-> IF c \in who /\ proc[c] \in Alive
                            THEN sigs[c] \cup {sig} ELSE sigs[c]]

\* The administrator: SIGTERM or SIGINT, SIGQUIT, SIGUSR2.
Admin(byte) ==
    /\ pc # "ended" /\ Happens("admin") /\ SigHandler(byte)
    /\ UNCHANGED <<masterVars, edge, lock, childVars, pm, conn>>

(***************************************************************************)
(* A child.                                                                *)
(***************************************************************************)
\* The end of a process, and the SIGCHLD that reports it.
Die(c, how) ==
    /\ proc' = [proc EXCEPT ![c] = how]
    /\ at' = [at EXCEPT ![c] = "none"]
    /\ sigs' = [sigs EXCEPT ![c] = {}]
    /\ quitting' = [quitting EXCEPT ![c] = FALSE]
    /\ lock' = IF lock = c THEN Lost ELSE lock
    /\ SigHandler("C")
    /\ UNCHANGED <<masterVars, edge, stage, pm, conn>>

Go(c, place) ==
    /\ at' = [at EXCEPT ![c] = place]
    /\ UNCHANGED <<masterVars, socket, edge, proc, sigs, quitting, pm, count>>
Stage(c, s) == stage' = [stage EXCEPT ![c] = s]

\* fpm_child_init, which unblocks the signals and may fail.
ChildInit(c) ==
    Runs(c, "init") /\ Go(c, "top") /\ UNCHANGED <<lock, stage, conn>>
ChildInitFails(c) == Runs(c, "init") /\ Happens("crash") /\ Die(c, "exit")

\* fpm_scoreboard_update_begin of a child, and fpm_scoreboard_update_commit.
TakeLock(c, from, to) ==
    /\ Runs(c, from) /\ lock = Nobody
    /\ lock' = c
    /\ Go(c, to) /\ UNCHANGED <<stage, conn>>
Commit(c, from, s, to) ==
    /\ Runs(c, from)
    /\ lock' = Nobody
    /\ Stage(c, s) /\ Go(c, to) /\ UNCHANGED conn

\* fcgi_accept_request looks at in_shutdown, and calls fpm_request_accepting: who
\* is asked to quit in between, or while it spins, goes on to accept().
TestShutdown(c) ==
    /\ Runs(c, "top") /\ ~quitting[c]
    /\ Go(c, "on_accept") /\ UNCHANGED <<lock, stage, conn>>
AcceptBegin(c) == TakeLock(c, "on_accept", "accepting")
AcceptCommit(c) == Commit(c, "accepting", "accepting", "accept")

\* accept(), on a listening socket that sig_soft_quit closes.
Accept(c) ==
    /\ Runs(c, "accept") /\ ~quitting[c] /\ conn > 0
    /\ conn' = conn - 1
    /\ Go(c, "accepted") /\ UNCHANGED <<lock, stage>>

\* Nothing to read for five seconds: fcgi_close.
PollTimeout(c) ==
    /\ Runs(c, "accepted")
    /\ Stage(c, "finished") /\ Go(c, "top") /\ UNCHANGED <<lock, conn>>

\* fpm_request_reading_headers.
ReadBegin(c) == TakeLock(c, "accepted", "reading")
ReadCommit(c) == Commit(c, "reading", "reading", "serve")

\* fpm_request_info, fpm_request_executing; fpm_request_end.
Execute(c) ==
    /\ Runs(c, "serve") /\ stage[c] = "reading"
    /\ Stage(c, "executing") /\ Go(c, "serve") /\ UNCHANGED <<lock, conn>>
EndRequest(c) ==
    /\ Runs(c, "serve")
    /\ Stage(c, "finished") /\ Go(c, "served") /\ UNCHANGED <<lock, conn>>

\* The next request of a connection that is kept, or of another one.
NextRequest(c) ==
    /\ Runs(c, "served")
    /\ \/ Go(c, "top")
       \/ ~quitting[c] /\ Go(c, "accepted")
    /\ UNCHANGED <<lock, stage, conn>>

\* The end of the loop: asked to quit, or max_requests.
Exit(c) ==
    /\ \/ Runs(c, "served")
       \/ quitting[c] /\ (Runs(c, "top") \/ Runs(c, "accept"))
    /\ Die(c, "exit") /\ UNCHANGED count

Crash(c) == proc[c] = "running" /\ Happens("crash") /\ Die(c, "SEGV")

\* Signals arrive; up to fpm_signals_init_child they are blocked.
Killed(c) ==
    proc[c] \in Alive /\ "KILL" \in sigs[c] /\ Die(c, "KILL") /\ UNCHANGED count
Terminated(c) ==
    /\ proc[c] = "running" /\ at[c] # "init" /\ "TERM" \in sigs[c]
    /\ Die(c, "TERM") /\ UNCHANGED count
SoftQuit(c) ==
    /\ proc[c] = "running" /\ at[c] # "init" /\ "QUIT" \in sigs[c]
    /\ quitting' = [quitting EXCEPT ![c] = TRUE]
    /\ sigs' = [sigs EXCEPT ![c] = @ \ {"QUIT"}]
    /\ UNCHANGED <<masterVars, socket, edge, lock, stage, at, proc, worldVars>>
Stop(c) ==
    /\ proc[c] = "running" /\ "STOP" \in sigs[c]
    /\ proc' = [proc EXCEPT ![c] = "stopped"]
    /\ sigs' = [sigs EXCEPT ![c] = @ \ {"STOP"}]
    /\ SigHandler("C")
    /\ UNCHANGED <<masterVars, edge, lock, stage, at, quitting, worldVars>>

\* A client connects; the event of the listening socket is edge triggered.
Connect ==
    /\ pc # "ended" /\ Happens("conn")
    /\ conn' = conn + 1
    /\ edge' = (pm = "ondemand")
    /\ UNCHANGED <<masterVars, socket, lock, childVars, pm>>

(***************************************************************************)
(* The master: the event loop, and fpm_got_signal.                         *)
(***************************************************************************)
At(place) == pc = place
World == UNCHANGED <<lock, stage, at, proc, quitting, pm, conn>>
Pool == UNCHANGED <<children, idleKill, tracer, spawnRate, warned>>

Readable ==
    /\ At("loop") /\ socket # <<>>
    /\ pc' = "read"
    /\ World /\ Pool
    /\ UNCHANGED <<controlVars, goal, timers, socket, edge, sigs, count>>
ReadDone ==
    /\ At("read") /\ socket = <<>>
    /\ pc' = "loop"
    /\ World /\ Pool
    /\ UNCHANGED <<controlVars, goal, timers, socket, edge, sigs, count>>

\* The burial is put off to a timer of its own.
GotChild ==
    /\ At("read") /\ socket # <<>> /\ Head(socket) = "C"
    /\ socket' = Tail(socket)
    /\ timers' = timers \cup {"bury"}
    /\ World /\ Pool
    /\ UNCHANGED <<controlVars, pc, goal, edge, sigs, count>>

(***************************************************************************)
(* fpm_pctl.                                                               *)
(***************************************************************************)
Rank == [normal |-> 0, reloading |-> 1, finishing |-> 2, terminating |-> 3]

\* Faulty variant: the state that is set already starts over.
OverridesItself(new) ==
    Rank[new] >= Rank[state]

\* Which states may override which.
Overrides(new) == Rank[new] > Rank[state]

NextSignal(s, last) ==
    IF last = "none" THEN IF s = "terminating" THEN "TERM" ELSE "QUIT"
    ELSE IF last = "QUIT" THEN "TERM" ELSE "KILL"

\* Faulty variant: the timer is not set again.
ActionNextOnce(s, last, left, back) ==
    /\ state' = s
    /\ sent' = NextSignal(s, last)
    /\ Kill(left, NextSignal(s, last))
    /\ pc' = IF left = {} THEN "ended" ELSE back
    /\ timers' = IF last = "none" THEN timers \cup {"pctl"} ELSE timers \ {"pctl"}

\* fpm_pctl_action_next: with no child left, the master ends; else the next
\* signal goes to all of them, and the timer is set.
ActionNext(s, last, left, back) ==
    /\ state' = s
    /\ sent' = NextSignal(s, last)
    /\ Kill(left, NextSignal(s, last))
    /\ pc' = IF left = {} THEN "ended" ELSE back
    /\ timers' = timers \cup {"pctl"}

Asked == [T |-> "terminating", Q |-> "finishing", U |-> "reloading"]

GotStop ==
    /\ At("read") /\ socket # <<>> /\ Head(socket) \in DOMAIN Asked
    /\ socket' = Tail(socket)
    /\ LET new == Asked[Head(socket)]
       IN  IF Overrides(new) THEN ActionNext(new, "none", children, "read")
           ELSE UNCHANGED <<state, sent, pc, timers, sigs>>
    /\ World /\ Pool /\ UNCHANGED <<goal, edge, count>>

\* FPM_PCTL_ACTION_TIMEOUT.
PctlTimer ==
    /\ At("loop") /\ "pctl" \in timers
    /\ ActionNext(state, sent, children, "loop")
    /\ World /\ Pool /\ UNCHANGED <<goal, socket, edge, count>>

(***************************************************************************)
(* fpm_children_make, called to make (by the maintenance or a connection)  *)
(* or to remake (by the burial), until the pool has goal children.         *)
(***************************************************************************)
Making == At("make") \/ At("remake")
Made == pc' = IF At("make") THEN "loop" ELSE "bury"
ForksMore == CanSpawn /\ Running < goal

Fork ==
    /\ Making /\ ForksMore
    /\ \E c \in Slot \ children :
        /\ children' = children \cup {c}
        /\ proc' = [proc EXCEPT ![c] = "running"]
        /\ at' = [at EXCEPT ![c] = "init"]
    /\ UNCHANGED <<controlVars, pc, goal, idleKill, tracer, spawnRate, warned,
                   timers, socket, edge, lock, stage, sigs, quitting, worldVars>>

\* Enough, or fork() fails and fpm_resources_discard gives the slot back.
MakeDone ==
    /\ Making /\ Made
    /\ \/ ~ForksMore /\ UNCHANGED count
       \/ ForksMore /\ Happens("fork")
    /\ goal' = 0
    /\ World /\ Pool
    /\ UNCHANGED <<controlVars, timers, socket, edge, sigs>>

(***************************************************************************)
(* fpm_children_bury: one step for each child that waitpid reports.        *)
(***************************************************************************)
Waitable(c) == proc[c] \in Zombie \cup {"stopped"}

BuryTimer ==
    /\ At("loop") /\ "bury" \in timers
    /\ timers' = timers \ {"bury"}
    /\ pc' = "bury"
    /\ World /\ Pool
    /\ UNCHANGED <<controlVars, goal, socket, edge, sigs, count>>

\* Faulty variant: one child is buried for each signal.
BuryDoneEarly ==
    /\ At("bury")
    /\ pc' = "loop"
    /\ World /\ Pool
    /\ UNCHANGED <<controlVars, goal, timers, socket, edge, sigs, count>>

BuryDone ==
    /\ At("bury") /\ \A c \in Slot : ~Waitable(c)
    /\ pc' = "loop"
    /\ World /\ Pool
    /\ UNCHANGED <<controlVars, goal, timers, socket, edge, sigs, count>>

\* fpm_php_trace updates the scoreboard, dumps, and lets the child go on.
BuryStopped(c) ==
    /\ At("bury") /\ proc[c] = "stopped"
    /\ proc' = [proc EXCEPT ![c] = "traced"]
    /\ pc' = "trace"
    /\ Pool
    /\ UNCHANGED <<controlVars, goal, timers, socket, edge, lock, stage, at, sigs,
                   quitting, worldVars>>
Traced ==
    /\ At("trace") /\ lock = Nobody
    /\ LET c == {x \in Slot : proc[x] = "traced"}
       IN  /\ proc' = [x \in Slot |-> IF x \in c THEN "running" ELSE proc[x]]
           /\ sigs' = [x \in Slot |-> IF x \in c THEN sigs[x] \ {"STOP"} ELSE sigs[x]]
           /\ tracer' = tracer \ c
    /\ pc' = "bury"
    /\ UNCHANGED <<controlVars, goal, children, idleKill, spawnRate, warned, timers,
                   socket, edge, lock, stage, at, quitting, worldVars>>

\* restart_child: SIGQUIT makes a child exit.
Restarts(c) == ~(c \in idleKill /\ proc[c] = "exit")

\* fpm_pctl_child_exited.
LastChild(left) == left = {}

BuryDead(c) ==
    /\ At("bury") /\ proc[c] \in Zombie
    /\ children' = children \ {c}
    /\ idleKill' = idleKill \ {c} /\ tracer' = tracer \ {c}
    /\ stage' = [stage EXCEPT ![c] = "none"]
    /\ proc' = [proc EXCEPT ![c] = "none"]
    /\ LET left == children \ {c}
       IN  IF ~CanSpawn
           THEN /\ pc' = IF LastChild(left) THEN "ended" ELSE pc
                /\ UNCHANGED <<state, sent, timers, sigs, goal>>
           ELSE \/ /\ proc[c] = "SEGV" /\ Emergency
                   /\ ActionNext("reloading", "none", left, "bury")
                   /\ UNCHANGED goal
                \/ /\ goal' = IF ~Restarts(c) THEN goal
                               ELSE IF pm = "static" THEN N ELSE Running
                   /\ pc' = IF Restarts(c) THEN "remake" ELSE pc
                   /\ UNCHANGED <<state, sent, timers, sigs>>
    /\ UNCHANGED <<spawnRate, warned, socket, edge, lock, at, quitting, worldVars>>

(***************************************************************************)
(* The idle server maintenance; what a new connection sets off (ondemand); *)
(* and the request timeouts, which look at one child at a time.            *)
(***************************************************************************)
Least(a, b) == IF a < b THEN a ELSE b
IdleChild == {c \in children : IsIdle(c)}
Idle == Cardinality(IdleChild)

\* fpm_pctl_kill_idle_child.
KillIdleChild(c) ==
    /\ idleKill' = idleKill \cup {c}
    /\ Kill({c}, IF c \in idleKill THEN "KILL" ELSE "QUIT")

BeginMaintenance ==
    /\ At("loop") /\ CanSpawn
    /\ pc' = "maintenance"
    /\ World /\ Pool
    /\ UNCHANGED <<controlVars, goal, timers, socket, edge, sigs, count>>

\* The children are counted under the lock.
Counted == At("maintenance") /\ lock = Nobody

ReapIdle ==
    /\ Counted
    /\ \/ pm = "ondemand" /\ Idle > 0 /\ UNCHANGED spawnRate
       \/ pm = "dynamic" /\ Idle > MaxSpare /\ spawnRate' = 1
    /\ \E c \in IdleChild : KillIdleChild(c)   \* the one that started first
    /\ pc' = "loop"
    /\ World
    /\ UNCHANGED <<controlVars, goal, children, tracer, warned, timers, socket,
                   edge, count>>

Full == Running >= N

\* pm.max_children is reached, or one more child is needed for a connection.
LimitReached ==
    /\ Full
    /\ pc' = IF warned THEN "loop" ELSE "warn"
    /\ UNCHANGED <<goal, warned>>
\* Faulty variant: one child too many.
MakeSomeMore(n) ==
    /\ ~Full
    /\ goal' = Running + n + 1
    /\ warned' = FALSE
    /\ pc' = "make"

MakeSome(n) ==
    /\ ~Full
    /\ goal' = Running + n
    /\ warned' = FALSE
    /\ pc' = "make"

SpawnSpare ==
    /\ Counted /\ pm = "dynamic" /\ Idle < MinSpare
    /\ \/ LimitReached /\ spawnRate' = 1
       \/ /\ MakeSome(Least(spawnRate, Least(MinSpare - Idle, N - Running)))
          /\ spawnRate' = IF spawnRate < MaxSpawnRate THEN 2 * spawnRate
                          ELSE spawnRate
    /\ World
    /\ UNCHANGED <<controlVars, children, idleKill, tracer, timers, socket, edge,
                   sigs, count>>

\* Nothing to do.
Settled ==
    /\ Counted
    /\ spawnRate' = IF pm = "dynamic" THEN 1 ELSE spawnRate
    /\ pm = "dynamic" => Idle \in MinSpare .. MaxSpare
    /\ pc' = "loop"
    /\ World
    /\ UNCHANGED <<controlVars, goal, children, idleKill, tracer, warned, timers,
                   socket, edge, sigs, count>>

\* The warning counts in the scoreboard.
Warn ==
    /\ At("warn") /\ lock = Nobody
    /\ warned' = TRUE
    /\ pc' = "loop"
    /\ World
    /\ UNCHANGED <<controlVars, goal, children, idleKill, tracer, spawnRate, timers,
                   socket, edge, sigs, count>>

\* fpm_pctl_on_socket_accept.
OnSocketAccept ==
    /\ At("loop") /\ edge
    /\ edge' = FALSE
    /\ \/ LimitReached
       \/ ~Full /\ Idle > 0 /\ UNCHANGED <<pc, goal, warned>>
       \/ Idle = 0 /\ MakeSome(1)
    /\ World
    /\ UNCHANGED <<controlVars, children, idleKill, tracer, spawnRate, timers, socket,
                   sigs, count>>

\* fpm_request_check_timed_out: what it sends may come when the child is done
\* with that request.  With request_terminate_timeout_track_finished it is sent to
\* a child that has finished, too.
RequestTimeout(c) ==
    /\ At("loop") /\ c \in children
    /\ \/ /\ "terminate" \in Timeouts
          /\ stage[c] \in {"reading", "executing", "finished"} /\ Kill({c}, "TERM")
          /\ UNCHANGED tracer
       \/ /\ "slowlog" \in Timeouts /\ stage[c] = "executing" /\ c \notin tracer
          /\ Kill({c}, "STOP") /\ tracer' = tracer \cup {c}
    /\ World
    /\ UNCHANGED <<controlVars, pc, goal, children, idleKill, spawnRate, warned,
                   timers, socket, edge, count>>
-----------------------------------------------------------------------------
\* fpm_children_create_initial, before the loop.
Initial == CASE pm = "static" -> N [] pm = "dynamic" -> StartServers
             [] pm = "ondemand" -> 0

Init ==
    /\ pm \in Styles
    /\ state = "normal" /\ sent = "none" /\ pc = "loop" /\ goal = 0
    /\ children \in {S \in SUBSET Slot : Cardinality(S) = Initial}
    /\ idleKill = {} /\ tracer = {} /\ spawnRate = 1 /\ warned = FALSE
    /\ timers = {} /\ socket = <<>> /\ edge = FALSE /\ lock = Nobody
    /\ stage = [c \in Slot |-> "none"]
    /\ at = [c \in Slot |-> IF c \in children THEN "init" ELSE "none"]
    /\ proc = [c \in Slot |-> IF c \in children THEN "running" ELSE "none"]
    /\ sigs = [c \in Slot |-> {}] /\ quitting = [c \in Slot |-> FALSE]
    /\ conn = 0 /\ count = [e \in Events |-> 0]

Loop ==
    \/ Readable \/ PctlTimer \/ BuryTimer \/ BeginMaintenance \/ OnSocketAccept
    \/ \E c \in Slot : RequestTimeout(c)
Handler ==
    \/ ReadDone \/ GotChild \/ GotStop \/ Fork \/ MakeDone
    \/ BuryDone \/ Traced \/ ReapIdle \/ SpawnSpare \/ Settled \/ Warn
    \/ \E c \in Slot : BuryStopped(c) \/ BuryDead(c)
Committed(c) == AcceptCommit(c) \/ ReadCommit(c)
ChildStep(c) ==
    \/ ChildInit(c) \/ ChildInitFails(c)
    \/ TestShutdown(c) \/ AcceptBegin(c) \/ Accept(c)
    \/ PollTimeout(c) \/ ReadBegin(c) \/ Execute(c) \/ EndRequest(c)
    \/ NextRequest(c) \/ Exit(c) \/ Crash(c) \/ Committed(c)
Delivery(c) == Killed(c) \/ Terminated(c) \/ SoftQuit(c) \/ Stop(c)
Environment == Connect \/ \E byte \in Asks : Admin(byte)

Next ==
    \/ pc # "ended" /\ (Loop \/ Handler)
    \/ \E c \in Slot : ChildStep(c) \/ Delivery(c)
    \/ Environment

Spec == Init /\ [][Next]_vars

(***************************************************************************)
(* An iteration of the loop serves every event and every timer that is     *)
(* due, so none is overtaken for ever; a spinning master gets a lock that  *)
(* is free again and again, as its waiting is bounded by the scheduler; a  *)
(* child in the middle of an update goes on; and SIGKILL is delivered.     *)
(* Nothing obliges a child to end a request, nor a client to connect.      *)
(***************************************************************************)
Fairness ==
    /\ SF_vars(Readable) /\ SF_vars(PctlTimer) /\ SF_vars(BuryTimer)
    /\ SF_vars(Handler)
    /\ \A c \in Slot : WF_vars(Committed(c)) /\ WF_vars(Killed(c))
FairSpec == Spec /\ Fairness

(***************************************************************************)
(* Properties.                                                             *)
(***************************************************************************)
Stages == {"none", "accepting", "reading", "executing", "finished"}
Places == {"none", "init", "top", "on_accept", "accepting", "accept", "accepted",
           "reading", "serve", "served"}
Moments == {"loop", "read", "bury", "trace", "maintenance", "warn", "make",
            "remake", "ended"}

\* Types; in them, that a pool never has more children than pm.max_children nor
\* asks for them, that children and slots in use correspond, and that idle_kill
\* and tracer die with their child.
TypeOK ==
    /\ pm \in Styles /\ state \in DOMAIN Rank
    /\ sent \in {"none", "TERM", "QUIT", "KILL"} /\ pc \in Moments
    /\ goal \in 0 .. N
    /\ children = {c \in Slot : proc[c] # "none"}
    /\ idleKill \subseteq children /\ tracer \subseteq children
    /\ spawnRate \in Nat /\ warned \in BOOLEAN /\ edge \in BOOLEAN
    /\ timers \subseteq {"pctl", "bury"}
    /\ socket \in Seq({"C"} \cup DOMAIN Asked) /\ Len(socket) <= SocketSize
    /\ lock \in Slot \cup {Nobody, Lost}
    /\ stage \in [Slot -> Stages] /\ at \in [Slot -> Places]
    /\ proc \in [Slot -> Alive \cup Zombie \cup {"none"}]
    /\ sigs \in [Slot -> SUBSET {"TERM", "QUIT", "KILL", "STOP"}]
    /\ quitting \in [Slot -> BOOLEAN]
    /\ conn \in Nat /\ count \in [Events -> Nat]

\* No death is forgotten, however many signals the socket had no room for: as
\* long as a child waits to be buried, the master has been told, or is at it.
NoneForgotten ==
    (\E c \in Slot : Waitable(c)) =>
        \/ "C" \in {socket[i] : i \in 1 .. Len(socket)} \/ "bury" \in timers
        \/ pc \in {"bury", "trace", "remake", "ended"}

\* The master goes last: exec or exit never leave a child behind.
EndsLast == pc = "ended" => \A c \in Slot : proc[c] = "none"

\* A static pool is full whenever there is nothing left to do, whatever its
\* children died of; only a fork() that fails leaves it short.
Quiet ==
    /\ pc = "loop" /\ CanSpawn /\ socket = <<>> /\ timers = {}
    /\ ~edge /\ count["fork"] = 0
StaticFull == Quiet /\ pm = "static" => Running = N

\* No child gets out of the master's sight, by its death or by the master's end,
\* and those that died are made up for.
ChildrenAccounted == NoneForgotten /\ EndsLast /\ StaticFull

\* Neither duplicates of a signal nor deaths nor timers take the escalation of a
\* stop back to a gentler signal.
Strength == [none |-> 0, QUIT |-> 1, TERM |-> 2, KILL |-> 3]
NeverBacksOff == [][state' = state => Strength[sent'] >= Strength[sent]]_vars

\* Whatever children do, a stop or reload comes to its end, unless a child was
\* killed or stopped inside of an update of the scoreboard.
Stuck == lock = Lost \/ (lock \in Slot /\ proc[lock] # "running")
Stops == (state # "normal") ~> (pc = "ended" \/ Stuck)
-----------------------------------------------------------------------------
(* The inductive invariant.                                                 *)

\* What keeps room for a byte of a SIGCHLD in the socket: the other bytes are
\* the administrator's.
Orders == {i \in 1 .. Len(socket) : socket[i] # "C"}
RoomForDeaths ==
    Cardinality(Orders) <= count["admin"] /\ count["admin"] <= Bound["admin"]

\* The timer of the next signal is only set once a stop is under way.
StopUnderWay == "pctl" \in timers => state # "normal"

\* A static pool is full, or a burial is about to fill it.
StaticPool ==
    pm = "static" =>
        /\ idleKill = {}
        /\ CanSpawn /\ count["fork"] = 0 =>
               IF pc = "remake" THEN goal = N ELSE Running = N

IInv == /\ TypeOK /\ NoneForgotten /\ EndsLast
        /\ RoomForDeaths /\ StopUnderWay /\ StaticPool
=============================================================================
