------------------------------ MODULE FpmProofs ------------------------------
(***************************************************************************)
(* Proofs about Fpm, for every size of the pool and of the signal socket,   *)
(* and any number of events: no death is forgotten, the master ends last, a *)
(* static pool is filled up, and stops never get gentler.                   *)
(***************************************************************************)
EXTENDS Fpm, FunctionTheorems, FiniteSetTheorems, SequenceTheorems, WellFoundedInduction, TLAPS
-----------------------------------------------------------------------------
(* Numbers, sets and sequences                                             *)

\* How many elements 1..n has.
LEMMA IntervalFrom1 ==
  ASSUME NEW n \in Int
  PROVE  IsFiniteSet(1 .. n) /\ Cardinality(1 .. n) = IF 1 > n THEN 0 ELSE n
<1>1. /\ IsFiniteSet(1 .. n)
      /\ Cardinality(1 .. n) = IF 1 > n THEN 0 ELSE n - 1 + 1
  BY FS_Interval
<1>2. n - 1 + 1 = n OBVIOUS
<1> QED BY <1>1, <1>2

Bytes == {"C", "T", "Q", "U"}

\* A SIGCHLD is in the socket.
Told == "C" \in {socket[i] : i \in 1 .. Len(socket)}

LEMMA Tables ==
  /\ {"C"} \cup DOMAIN Asked = Bytes
  /\ DOMAIN Asked = {"T", "Q", "U"}
  /\ \A b \in {"T", "Q", "U"} : Asked[b] \in {"terminating", "finishing", "reloading"}
  /\ DOMAIN Rank = {"normal", "reloading", "finishing", "terminating"}
  /\ \A s \in DOMAIN Rank : Rank[s] \in Nat
BY DEF Asked, Rank, Bytes

LEMMA Bounds0 ==
  /\ N \in Nat /\ IsFiniteSet(Slot) /\ SocketSize \in Nat /\ Bound \in [Events -> Nat]
  /\ Bound["admin"] < SocketSize /\ "admin" \in Events /\ "fork" \in Events
  /\ MinSpare \in Nat /\ MaxSpare \in Nat /\ StartServers \in 0 .. N
  /\ MaxSpawnRate \in Nat
<1>1. IsFiniteSet(Slot) BY FpmAssumption
<1>2. N \in Nat BY <1>1, FS_CardinalityType DEF N
<1> QED BY <1>1, <1>2, FpmAssumption DEF Events

\* The pool never has more children than slots.
LEMMA PoolSize ==
  ASSUME TypeOK
  PROVE  /\ children \subseteq Slot /\ IsFiniteSet(children)
         /\ Running \in 0 .. N
         /\ Running = N <=> children = Slot
         /\ IdleChild \subseteq children /\ Idle \in 0 .. N
<1>1. children \in SUBSET Slot BY DEF TypeOK
<1>2. IdleChild \in SUBSET Slot /\ IdleChild \subseteq children BY <1>1 DEF IdleChild
<1>3. /\ IsFiniteSet(children) /\ Cardinality(children) <= N
      /\ Cardinality(children) = N <=> children = Slot
  BY <1>1, Bounds0, FS_Subset DEF N
<1>4. IsFiniteSet(IdleChild) /\ Cardinality(IdleChild) <= N
  BY <1>2, Bounds0, FS_Subset DEF N
<1>5. Cardinality(children) \in Nat /\ Cardinality(IdleChild) \in Nat
  BY <1>3, <1>4, FS_CardinalityType
<1> QED BY <1>1, <1>2, <1>3, <1>4, <1>5, Bounds0 DEF Running, Idle

-----------------------------------------------------------------------------
(* The signal socket.                                                      *)

LEMMA SocketFacts ==
  ASSUME TypeOK
  PROVE  /\ socket \in Seq(Bytes) /\ Len(socket) \in Nat /\ Len(socket) <= SocketSize
         /\ DOMAIN socket = 1 .. Len(socket) /\ \A i \in 1 .. Len(socket) : socket[i] \in Bytes
         /\ IsFiniteSet(Orders) /\ Cardinality(Orders) \in Nat
         /\ Orders \subseteq 1 .. Len(socket)
<1>1. /\ socket \in Seq(Bytes) /\ Len(socket) <= SocketSize
  BY Tables DEF TypeOK
<1>2. Len(socket) \in Nat /\ DOMAIN socket = 1 .. Len(socket) BY <1>1, LenProperties
<1>3. \A i \in 1 .. Len(socket) : socket[i] \in Bytes BY <1>1, ElementOfSeq
<1>4. Orders \in SUBSET (1 .. Len(socket)) BY DEF Orders
<1>5. IsFiniteSet(1 .. Len(socket)) BY <1>2, FS_Interval
<1>6. IsFiniteSet(Orders) BY <1>4, <1>5, FS_Subset
<1> QED BY <1>1, <1>2, <1>3, <1>4, <1>6, FS_CardinalityType

\* A byte is added, or not for want of room.
LEMMA SendByte ==
  ASSUME TypeOK, NEW b \in Bytes, SigHandler(b)
  PROVE  /\ socket' \in Seq(Bytes) /\ Len(socket') <= SocketSize
         /\ Told => Told'
         /\ b = "C" => Cardinality(Orders') = Cardinality(Orders)
         /\ Cardinality(Orders') <= Cardinality(Orders) + 1
         /\ b = "C" /\ Len(socket) < SocketSize => Told'
<1> DEFINE n == Len(socket)
<1>1. /\ socket \in Seq(Bytes) /\ n \in Nat /\ n <= SocketSize /\ DOMAIN socket = 1 .. n
      /\ IsFiniteSet(Orders) /\ Cardinality(Orders) \in Nat /\ Orders \subseteq 1 .. n
  BY SocketFacts
<1>2. CASE socket' = socket /\ ~(n < SocketSize)
  <2>1. Orders' = Orders /\ (Told => Told') BY <1>2 DEF Told, Orders
  <2> QED BY <1>1, <1>2, <2>1
<1>3. CASE socket' = Append(socket, b) /\ n < SocketSize
  <2>1. /\ socket' \in Seq(Bytes) /\ Len(socket') = n + 1
        /\ \A i \in 1 .. n : socket'[i] = socket[i]
        /\ socket'[n + 1] = b
    BY <1>1, <1>3, AppendProperties
  <2>2. Len(socket') <= SocketSize BY <1>1, <1>3, <2>1, Bounds0
  <2>3. (n + 1) \in 1 .. (n + 1) /\ \A i \in 1 .. n : i \in 1 .. (n + 1) BY <1>1
  <2>4. Told => Told' BY <2>1, <2>3 DEF Told
  <2>5. b = "C" => Told' BY <2>1, <2>3 DEF Told
  <2>6. Orders' = IF b = "C" THEN Orders ELSE Orders \cup {n + 1}
    <3>1. \A i \in 1 .. (n + 1) : i \in 1 .. n \/ i = n + 1 BY <1>1
    <3> QED BY <2>1, <2>3, <3>1 DEF Orders
  <2>7. Cardinality(Orders \cup {n + 1}) <= Cardinality(Orders) + 1
    <3> DEFINE m == n + 1
    <3> HIDE DEF m
    <3>1. Cardinality(Orders \cup {m}) = IF m \in Orders THEN Cardinality(Orders)
                                         ELSE Cardinality(Orders) + 1
      BY <1>1, FS_AddElement
    <3>2. Cardinality(Orders \cup {m}) <= Cardinality(Orders) + 1 BY <1>1, <3>1
    <3> QED BY <3>2 DEF m
  <2> QED BY <1>1, <2>1, <2>2, <2>4, <2>5, <2>6, <2>7
<1>4. n <= SocketSize /\ SocketSize \in Nat BY <1>1, Bounds0
<1> QED BY <1>1, <1>2, <1>3, <1>4 DEF SigHandler

\* The socket always holds a SIGCHLD when one was sent: it is never full of
\* the administrator's bytes.
LEMMA SendDeath ==
  ASSUME TypeOK, RoomForDeaths, SigHandler("C")
  PROVE  /\ Told' /\ Cardinality(Orders') = Cardinality(Orders)
         /\ socket' \in Seq(Bytes) /\ Len(socket') <= SocketSize
<1>1. /\ socket \in Seq(Bytes) /\ Len(socket) \in Nat /\ Len(socket) <= SocketSize
      /\ IsFiniteSet(Orders) /\ Cardinality(Orders) \in Nat
  BY SocketFacts
<1>2. "C" \in Bytes BY DEF Bytes
<1>3. CASE Len(socket) < SocketSize BY <1>2, <1>3, SendByte
<1>4. CASE ~(Len(socket) < SocketSize)
  <2>1. Told
    <3> SUFFICES ASSUME ~Told PROVE FALSE OBVIOUS
    <3>1. Orders = 1 .. Len(socket) BY DEF Told, Orders
    <3>2. Cardinality(Orders) = Len(socket) BY <1>1, <3>1, IntervalFrom1
    <3>3. count["admin"] \in Nat BY Bounds0 DEF TypeOK
    <3> QED BY <1>1, <1>4, <3>2, <3>3, Bounds0 DEF RoomForDeaths
  <2> QED BY <1>2, <2>1, SendByte
<1> QED BY <1>3, <1>4

\* fpm_got_signal takes the first byte.
LEMMA TakeByte ==
  ASSUME TypeOK, socket # <<>>, socket' = Tail(socket)
  PROVE  /\ socket' \in Seq(Bytes) /\ Len(socket') <= SocketSize
         /\ Cardinality(Orders') <= Cardinality(Orders)
         /\ Told /\ Head(socket) # "C" => Told'
<1> DEFINE n == Len(socket)
<1>1. /\ socket \in Seq(Bytes) /\ n \in Nat /\ n <= SocketSize /\ DOMAIN socket = 1 .. n
      /\ IsFiniteSet(Orders) /\ Cardinality(Orders) \in Nat /\ Orders \subseteq 1 .. n
  BY SocketFacts
<1>2. /\ Head(socket) = socket[1] /\ Tail(socket) \in Seq(Bytes)
      /\ Len(Tail(socket)) = n - 1 /\ \A i \in 1 .. (n - 1) : Tail(socket)[i] = socket[i + 1]
  BY <1>1, HeadTailProperties
<1>3. n # 0 BY <1>1, EmptySeq
<1>4. Len(socket') <= SocketSize BY <1>1, <1>2, <1>3, Bounds0
<1>5. Told /\ Head(socket) # "C" => Told'
  <2> SUFFICES ASSUME Told, Head(socket) # "C" PROVE Told' OBVIOUS
  <2>1. PICK i \in 1 .. n : socket[i] = "C" BY DEF Told
  <2>2. i # 1 BY <1>2, <2>1
  <2>3. i - 1 \in 1 .. (n - 1) /\ i - 1 + 1 = i BY <1>1, <2>1, <2>2
  <2>4. socket'[i - 1] = "C" BY <1>2, <2>1, <2>3
  <2> QED BY <1>2, <2>3, <2>4 DEF Told
<1>6. Cardinality(Orders') <= Cardinality(Orders)
  <2> DEFINE f == [i \in Orders' |-> i + 1]
  <2>1. \A i \in Orders' : i \in 1 .. (n - 1) /\ i \in Nat /\ i + 1 \in Orders
    <3> SUFFICES ASSUME NEW i \in Orders' PROVE i \in 1 .. (n - 1) /\ i \in Nat /\ i + 1 \in Orders
      OBVIOUS
    <3>1. i \in 1 .. (n - 1) /\ socket'[i] # "C" BY <1>2 DEF Orders
    <3>2. i \in Nat /\ i + 1 \in 1 .. n BY <1>1, <3>1
    <3>3. socket[i + 1] # "C" BY <1>2, <3>1
    <3> QED BY <3>1, <3>2, <3>3 DEF Orders
  <2>2. f \in Injection(Orders', Orders)
    <3>1. f \in [Orders' -> Orders] BY <2>1
    <3>2. \A i, j \in Orders' : f[i] = f[j] => i = j BY <2>1
    <3> HIDE DEF f
    <3> QED BY <3>1, <3>2, Fun_IsInj
  <2> QED BY <1>1, <2>2, FS_Injection
<1> QED BY <1>2, <1>4, <1>5, <1>6
-----------------------------------------------------------------------------
(* Steps of children and of the world.                                     *)

\* A step that happens within the bounds, or is not counted.
Counts == /\ count' \in [Events -> Nat] /\ count'["admin"] = count["admin"]
          /\ count'["fork"] = 0 => count["fork"] = 0

LEMMA HappensOK ==
  ASSUME TypeOK, NEW e \in Events, Happens(e)
  PROVE  /\ count' \in [Events -> Nat]
         /\ e # "admin" => Counts
         /\ e = "admin" => /\ count'["admin"] = count["admin"] + 1
                           /\ count'["admin"] <= Bound["admin"]
                           /\ count'["fork"] = count["fork"]
         /\ e = "fork" => count'["fork"] # 0
<1>1. /\ count \in [Events -> Nat] /\ count' = [count EXCEPT ![e] = count[e] + 1]
      /\ count[e] < Bound[e]
  BY DEF TypeOK, Happens
<1>2. "admin" \in Events /\ "fork" \in Events /\ Bound \in [Events -> Nat] BY Bounds0
<1>3. count[e] \in Nat /\ count["fork"] \in Nat /\ count["admin"] \in Nat BY <1>1, <1>2
<1>4. count' \in [Events -> Nat] BY <1>1, <1>3
<1>5. \A d \in Events : count'[d] = IF d = e THEN count[e] + 1 ELSE count[d] BY <1>1
<1> QED BY <1>1, <1>2, <1>3, <1>4, <1>5 DEF Counts

LEMMA SameCount ==
  ASSUME TypeOK, count' = count
  PROVE  Counts
BY DEF TypeOK, Counts

\* What the invariant needs of a step that the master does not notice ...
LEMMA Unnoticed ==
  ASSUME IInv, TypeOK', Counts,
         UNCHANGED <<pm, state, pc, goal, children, idleKill, timers, socket>>,
         \A c \in Slot : Waitable(c)' => Waitable(c)
  PROVE  IInv'
<1>1. Orders' = Orders BY DEF Orders
<1>2. NoneForgotten' BY DEF IInv, NoneForgotten
<1>3. EndsLast' BY DEF IInv, EndsLast, TypeOK
<1>4. RoomForDeaths' BY <1>1 DEF IInv, RoomForDeaths, Counts
<1>5. StopUnderWay' BY DEF IInv, StopUnderWay
<1>6. StaticPool' BY DEF IInv, StaticPool, CanSpawn, Running, Counts
<1> QED BY <1>2, <1>3, <1>4, <1>5, <1>6 DEF IInv

\* ... and of one it hears about by a SIGCHLD.
LEMMA Reported ==
  ASSUME IInv, TypeOK', Counts, SigHandler("C"),
         UNCHANGED <<pm, state, pc, goal, children, idleKill, timers>>
  PROVE  IInv'
<1>1. Told' /\ Cardinality(Orders') = Cardinality(Orders)
  BY SendDeath DEF IInv
<1>2. NoneForgotten' BY <1>1 DEF NoneForgotten, Told
<1>3. EndsLast' BY DEF IInv, EndsLast, TypeOK
<1>4. RoomForDeaths' BY <1>1 DEF IInv, RoomForDeaths, Counts
<1>5. StopUnderWay' BY DEF IInv, StopUnderWay
<1>6. StaticPool' BY DEF IInv, StaticPool, CanSpawn, Running, Counts
<1> QED BY <1>2, <1>3, <1>4, <1>5, <1>6 DEF IInv

\* A child goes from one place of its loop to another.
LEMMA GoPreserves ==
  ASSUME IInv, NEW c \in Slot, NEW place \in Places,
         at' = [at EXCEPT ![c] = place],
         UNCHANGED <<masterVars, socket, edge, proc, sigs, quitting, pm>>,
         Counts, conn' \in Nat, stage' \in [Slot -> Stages], lock' \in Slot \cup {Nobody, Lost}
  PROVE  IInv'
<1>1. UNCHANGED <<state, sent, pc, goal, children, idleKill, tracer, spawnRate, warned, timers>>
  BY DEF masterVars, controlVars, poolVars
<1>2. TypeOK' BY <1>1 DEF IInv, TypeOK, Counts
<1>3. \A d \in Slot : Waitable(d)' => Waitable(d) BY DEF Waitable
<1> QED BY <1>1, <1>2, <1>3, Unnoticed

LEMMA DiePreserves ==
  ASSUME IInv, NEW c \in Slot, NEW how \in Zombie, proc[c] \in Alive, Die(c, how), Counts
  PROVE  IInv'
<1>1. /\ UNCHANGED <<state, sent, pc, goal, children, idleKill, tracer, spawnRate, warned, timers,
                     edge, stage, pm, conn>>
      /\ SigHandler("C")
  BY DEF Die, masterVars, controlVars, poolVars
<1>2. socket' \in Seq(Bytes) /\ Len(socket') <= SocketSize BY <1>1, SendDeath DEF IInv
<1>3. /\ proc' = [proc EXCEPT ![c] = how] /\ at' = [at EXCEPT ![c] = "none"]
      /\ sigs' = [sigs EXCEPT ![c] = {}] /\ quitting' = [quitting EXCEPT ![c] = FALSE]
      /\ lock' = IF lock = c THEN Lost ELSE lock
  BY DEF Die
<1>4. TypeOK'
  <2>1. children' = {d \in Slot : proc'[d] # "none"}
    BY <1>1, <1>3 DEF IInv, TypeOK, Alive, Zombie
  <2>2. /\ at' \in [Slot -> Places] /\ proc' \in [Slot -> Alive \cup Zombie \cup {"none"}]
        /\ sigs' \in [Slot -> SUBSET {"TERM", "QUIT", "KILL", "STOP"}]
        /\ quitting' \in [Slot -> BOOLEAN] /\ lock' \in Slot \cup {Nobody, Lost}
    BY <1>3 DEF IInv, TypeOK, Places
  <2> QED BY <1>1, <1>2, <2>1, <2>2, Tables DEF IInv, TypeOK, Counts
<1> QED BY <1>1, <1>4, Reported

LEMMA ChildStepPreserves ==
  ASSUME IInv, NEW c \in Slot, ChildStep(c)
  PROVE  IInv'
<1>1. /\ TypeOK /\ "crash" \in Events
      /\ stage \in [Slot -> Stages] /\ conn \in Nat /\ lock \in Slot \cup {Nobody, Lost}
      /\ proc[c] = "running" => proc[c] \in Alive
      /\ {"exit", "SEGV"} \subseteq Zombie
  BY DEF IInv, TypeOK, Events, Alive, Zombie
<1>2. CASE ChildInitFails(c) \/ Exit(c) \/ Crash(c)
  <2>1. CASE Exit(c)
    BY <1>1, <2>1, SameCount, DiePreserves DEF Exit, Runs
  <2>2. CASE ChildInitFails(c) \/ Crash(c)
    BY <1>1, <2>2, HappensOK, DiePreserves DEF ChildInitFails, Crash, Runs
  <2> QED BY <1>2, <2>1, <2>2
<1>3. ASSUME NEW place \in Places, Go(c, place), conn' \in Nat, stage' \in [Slot -> Stages],
             lock' \in Slot \cup {Nobody, Lost}
      PROVE  IInv'
  BY <1>1, <1>3, SameCount, GoPreserves DEF Go
<1>4. {"top", "on_accept", "accepting", "accept", "accepted", "reading", "serve", "served"}
         \subseteq Places
  BY DEF Places
<1>5. ASSUME NEW s \in Stages, Stage(c, s) PROVE stage' \in [Slot -> Stages]
  BY <1>1, <1>5 DEF Stage
<1>6. {"accepting", "reading", "executing", "finished"} \subseteq Stages BY DEF Stages
<1>7. CASE ChildInit(c) \/ TestShutdown(c) \/ AcceptBegin(c) \/ ReadBegin(c)
  BY <1>1, <1>3, <1>4, <1>7 DEF ChildInit, TestShutdown, AcceptBegin, ReadBegin, TakeLock
<1>8. CASE Accept(c)
  <2>1. conn' \in Nat BY <1>1, <1>8 DEF Accept
  <2> QED BY <1>1, <1>3, <1>4, <1>8, <2>1 DEF Accept
<1>9. CASE PollTimeout(c) \/ Execute(c) \/ EndRequest(c)
  BY <1>1, <1>3, <1>4, <1>5, <1>6, <1>9 DEF PollTimeout, Execute, EndRequest
<1>10. CASE NextRequest(c)
  BY <1>1, <1>3, <1>4, <1>10 DEF NextRequest
<1>11. CASE Committed(c)
  BY <1>1, <1>3, <1>4, <1>5, <1>6, <1>11 DEF Committed, AcceptCommit, ReadCommit, Commit
<1> QED BY <1>2, <1>7, <1>8, <1>9, <1>10, <1>11 DEF ChildStep

LEMMA DeliveryPreserves ==
  ASSUME IInv, NEW c \in Slot, Delivery(c)
  PROVE  IInv'
<1>1. TypeOK BY DEF IInv
<1>2. CASE Killed(c) \/ Terminated(c)
  <2>1. "KILL" \in Zombie /\ "TERM" \in Zombie /\ "running" \in Alive BY DEF Zombie, Alive
  <2> QED BY <1>1, <1>2, <2>1, SameCount, DiePreserves DEF Killed, Terminated
<1>3. CASE SoftQuit(c)
  <2>1. /\ UNCHANGED <<state, sent, pc, goal, children, idleKill, tracer, spawnRate, warned, timers,
                       socket, edge, lock, stage, at, proc, pm, conn, count>>
        /\ quitting' = [quitting EXCEPT ![c] = TRUE]
        /\ sigs' = [sigs EXCEPT ![c] = @ \ {"QUIT"}]
    BY <1>3 DEF SoftQuit, masterVars, controlVars, poolVars, worldVars
  <2>2. TypeOK' BY <1>1, <2>1 DEF TypeOK
  <2>3. \A d \in Slot : Waitable(d)' => Waitable(d) BY <2>1 DEF Waitable
  <2> QED BY <1>1, <2>1, <2>2, <2>3, SameCount, Unnoticed
<1>4. CASE Stop(c)
  <2>1. /\ UNCHANGED <<state, sent, pc, goal, children, idleKill, tracer, spawnRate, warned, timers,
                       edge, lock, stage, at, quitting, pm, conn, count>>
        /\ proc[c] = "running" /\ proc' = [proc EXCEPT ![c] = "stopped"]
        /\ sigs' = [sigs EXCEPT ![c] = @ \ {"STOP"}]
        /\ SigHandler("C")
    BY <1>4 DEF Stop, masterVars, controlVars, poolVars, worldVars
  <2>2. socket' \in Seq(Bytes) /\ Len(socket') <= SocketSize BY <2>1, SendDeath DEF IInv
  <2>3. TypeOK'
    <3>1. children' = {d \in Slot : proc'[d] # "none"} BY <1>1, <2>1 DEF TypeOK
    <3>2. /\ proc' \in [Slot -> Alive \cup Zombie \cup {"none"}]
          /\ sigs' \in [Slot -> SUBSET {"TERM", "QUIT", "KILL", "STOP"}]
      BY <1>1, <2>1 DEF TypeOK, Alive
    <3> QED BY <1>1, <2>1, <2>2, <3>1, <3>2, Tables DEF TypeOK
  <2> QED BY <1>1, <2>1, <2>3, SameCount, Reported
<1> QED BY <1>2, <1>3, <1>4 DEF Delivery

LEMMA OrdersNext == TypeOK' => Cardinality(Orders') \in Nat
<1>1. (TypeOK => Cardinality(Orders) \in Nat)'
  <2>1. TypeOK => Cardinality(Orders) \in Nat BY SocketFacts
  <2> QED BY <2>1, PTL
<1> QED BY <1>1

LEMMA EnvironmentPreserves ==
  ASSUME IInv, Environment
  PROVE  IInv'
<1>1. TypeOK /\ "conn" \in Events /\ "admin" \in Events BY DEF IInv, Events
<1>2. CASE Connect
  <2>1. /\ UNCHANGED <<state, sent, pc, goal, children, idleKill, tracer, spawnRate, warned, timers,
                       socket, lock, stage, at, proc, sigs, quitting, pm>>
        /\ conn' = conn + 1 /\ edge' = (pm = "ondemand") /\ Happens("conn")
    BY <1>2 DEF Connect, masterVars, controlVars, poolVars, childVars
  <2>2. Counts BY <1>1, <2>1, HappensOK
  <2>3. TypeOK' BY <1>1, <2>1, <2>2 DEF TypeOK, Counts
  <2>4. \A d \in Slot : Waitable(d)' => Waitable(d) BY <2>1 DEF Waitable
  <2> QED BY <2>1, <2>2, <2>3, <2>4, Unnoticed
<1>3. ASSUME NEW byte \in Asks, Admin(byte) PROVE IInv'
  <2>1. /\ UNCHANGED <<state, sent, pc, goal, children, idleKill, tracer, spawnRate, warned, timers,
                       edge, lock, stage, at, proc, sigs, quitting, pm, conn>>
        /\ Happens("admin") /\ SigHandler(byte) /\ pc # "ended"
    BY <1>3 DEF Admin, masterVars, controlVars, poolVars, childVars
  <2>2. byte \in Bytes BY FpmAssumption DEF Bytes
  <2>3. /\ socket' \in Seq(Bytes) /\ Len(socket') <= SocketSize
        /\ Told => Told'
        /\ Cardinality(Orders') <= Cardinality(Orders) + 1
    BY <1>1, <2>1, <2>2, SendByte
  <2>4. /\ count' \in [Events -> Nat] /\ count'["admin"] = count["admin"] + 1
        /\ count'["admin"] <= Bound["admin"] /\ count'["fork"] = count["fork"]
    BY <1>1, <2>1, HappensOK
  <2>5. TypeOK'
    <3>1. /\ socket' \in Seq(Bytes) /\ Len(socket') <= SocketSize /\ count' \in [Events -> Nat]
      BY <2>3, <2>4
    <3> QED BY <1>1, <2>1, <3>1, Tables DEF TypeOK
  <2>6. NoneForgotten'
    <3>1. Told => Told' BY <2>3
    <3>2. (\E c \in Slot : Waitable(c))' => \E c \in Slot : Waitable(c) BY <2>1 DEF Waitable
    <3>3. (\E c \in Slot : Waitable(c)) =>
              Told \/ "bury" \in timers \/ pc \in {"bury", "trace", "remake", "ended"}
      BY DEF IInv, NoneForgotten, Told
    <3>4. (\E c \in Slot : Waitable(c))' =>
              Told' \/ "bury" \in timers' \/ pc' \in {"bury", "trace", "remake", "ended"}
      BY <2>1, <3>1, <3>2, <3>3
    <3> QED BY <3>4 DEF NoneForgotten, Told
  <2>7. EndsLast' BY <2>1 DEF EndsLast
  <2>8. RoomForDeaths'
    <3>1. Cardinality(Orders) \in Nat /\ Cardinality(Orders') \in Nat /\ count["admin"] \in Nat
      BY <1>1, <2>5, SocketFacts, OrdersNext, Bounds0 DEF TypeOK
    <3>2. Cardinality(Orders) <= count["admin"] BY DEF IInv, RoomForDeaths
    <3> QED BY <2>3, <2>4, <3>1, <3>2 DEF RoomForDeaths
  <2>9. StopUnderWay' BY <2>1 DEF IInv, StopUnderWay
  <2>10. StaticPool' BY <2>1, <2>4 DEF IInv, StaticPool, CanSpawn, Running
  <2> QED BY <2>5, <2>6, <2>7, <2>8, <2>9, <2>10 DEF IInv
<1> QED BY <1>2, <1>3 DEF Environment
-----------------------------------------------------------------------------
(* Steps of the master that leave state and children alone.                *)

LEMMA MasterMove ==
  ASSUME IInv, UNCHANGED <<pm, state, sent, children, proc, lock, stage, at, quitting, conn>>,
         Counts, pc # "ended", pc' \in Moments \ {"ended"}, goal' \in 0 .. N,
         idleKill' \subseteq children, tracer' \subseteq children, spawnRate' \in Nat,
         warned' \in BOOLEAN, edge' \in BOOLEAN, timers' \subseteq {"pctl", "bury"},
         socket' \in Seq(Bytes), Len(socket') <= SocketSize,
         Cardinality(Orders') <= Cardinality(Orders),
         sigs' \in [Slot -> SUBSET {"TERM", "QUIT", "KILL", "STOP"}],
         Told => Told' \/ "bury" \in timers',
         "bury" \in timers => "bury" \in timers' \/ pc' = "bury",
         pc \in {"bury", "trace", "remake"} =>
             pc' \in {"bury", "trace", "remake"} \/ \A c \in Slot : ~Waitable(c),
         "pctl" \in timers' => "pctl" \in timers,
         pm = "static" => idleKill' = {} /\ pc' # "remake",
         pc = "remake" /\ pm = "static" /\ CanSpawn /\ count'["fork"] = 0 => Running = N
  PROVE  IInv'
<1>1. TypeOK' BY Tables DEF IInv, TypeOK, Counts
<1>2. NoneForgotten'
  <2>1. (\E c \in Slot : Waitable(c))' => \E c \in Slot : Waitable(c) BY DEF Waitable
  <2>2. (\E c \in Slot : Waitable(c)) =>
            Told \/ "bury" \in timers \/ pc \in {"bury", "trace", "remake"}
    BY DEF IInv, NoneForgotten, Told
  <2>3. (\E c \in Slot : Waitable(c))' =>
            Told' \/ "bury" \in timers' \/ pc' \in {"bury", "trace", "remake"}
    BY <2>1, <2>2
  <2> QED BY <2>3 DEF NoneForgotten, Told
<1>3. EndsLast' BY DEF EndsLast
<1>4. RoomForDeaths'
  <2>1. Cardinality(Orders) \in Nat /\ Cardinality(Orders') \in Nat /\ count["admin"] \in Nat
    BY <1>1, SocketFacts, OrdersNext, Bounds0 DEF IInv, TypeOK
  <2> QED BY <2>1 DEF IInv, RoomForDeaths, Counts
<1>5. StopUnderWay' BY DEF IInv, StopUnderWay
<1>6. StaticPool' BY DEF IInv, StaticPool, CanSpawn, Running, Counts
<1> QED BY <1>1, <1>2, <1>3, <1>4, <1>5, <1>6 DEF IInv

\* The same when the socket and the timers stay as they are.
LEMMA MasterCalls ==
  ASSUME IInv, UNCHANGED <<pm, state, sent, children, proc, lock, stage, at, quitting, conn,
                           socket, timers, tracer>>,
         Counts, pc # "ended", pc' \in Moments \ {"ended"}, goal' \in 0 .. N,
         idleKill' \subseteq children, spawnRate' \in Nat, warned' \in BOOLEAN, edge' \in BOOLEAN,
         sigs' \in [Slot -> SUBSET {"TERM", "QUIT", "KILL", "STOP"}],
         pc \in {"bury", "trace", "remake"} =>
             pc' \in {"bury", "trace", "remake"} \/ \A c \in Slot : ~Waitable(c),
         pm = "static" => idleKill' = {} /\ pc' # "remake",
         pc = "remake" /\ pm = "static" /\ CanSpawn /\ count'["fork"] = 0 => Running = N
  PROVE  IInv'
<1>1. /\ socket' \in Seq(Bytes) /\ Len(socket') <= SocketSize
      /\ tracer' \subseteq children /\ timers' \subseteq {"pctl", "bury"}
  BY Tables DEF IInv, TypeOK
<1>2. Orders' = Orders /\ (Told => Told') BY DEF Orders, Told
<1>3. Cardinality(Orders) \in Nat BY SocketFacts DEF IInv
<1>4. Cardinality(Orders') <= Cardinality(Orders) BY <1>2, <1>3
<1> QED BY <1>1, <1>2, <1>4, MasterMove

LEMMA PoolFacts ==
  ASSUME IInv
  PROVE  /\ TypeOK /\ goal \in 0 .. N /\ idleKill \subseteq children /\ tracer \subseteq children
         /\ spawnRate \in Nat /\ warned \in BOOLEAN /\ edge \in BOOLEAN
         /\ sigs \in [Slot -> SUBSET {"TERM", "QUIT", "KILL", "STOP"}]
         /\ pm = "static" => idleKill = {}
         /\ timers \subseteq {"pctl", "bury"}
BY DEF IInv, TypeOK, StaticPool

LEMMA Killing ==
  ASSUME TypeOK, NEW who, NEW sig \in {"TERM", "QUIT", "KILL", "STOP"}, Kill(who, sig)
  PROVE  sigs' \in [Slot -> SUBSET {"TERM", "QUIT", "KILL", "STOP"}]
BY DEF TypeOK, Kill

LEMMA LoopPreserves ==
  ASSUME IInv, Readable \/ ReadDone \/ BuryDone \/ BeginMaintenance \/ Settled \/ Warn
  PROVE  IInv'
<1>1. /\ TypeOK /\ goal \in 0 .. N /\ idleKill \subseteq children
      /\ spawnRate \in Nat /\ warned \in BOOLEAN /\ edge \in BOOLEAN
      /\ sigs \in [Slot -> SUBSET {"TERM", "QUIT", "KILL", "STOP"}]
      /\ pm = "static" => idleKill = {}
  BY PoolFacts
<1>2. /\ UNCHANGED <<pm, state, sent, children, proc, lock, stage, at, quitting, conn,
                     socket, timers, tracer, idleKill, goal, edge, sigs, count>>
      /\ spawnRate' \in Nat /\ warned' \in BOOLEAN
      /\ pc \in {"loop", "read", "bury", "maintenance", "warn"}
      /\ pc' \in {"read", "loop", "maintenance"}
      /\ pc = "bury" => \A c \in Slot : ~Waitable(c)
  <2>1. CASE Readable \/ ReadDone \/ BuryDone \/ BeginMaintenance
    BY <1>1, <2>1 DEF Readable, ReadDone, BuryDone, BeginMaintenance, At, World, Pool, controlVars
  <2>2. CASE Settled
    <3>1. /\ UNCHANGED <<controlVars, goal, children, idleKill, tracer, warned, timers,
                         socket, edge, sigs, count>>
          /\ World /\ pc = "maintenance" /\ pc' = "loop"
          /\ spawnRate' = IF pm = "dynamic" THEN 1 ELSE spawnRate
      BY <2>2 DEF Settled, Counted, At
    <3>2. spawnRate' \in Nat BY <1>1, <3>1
    <3> QED BY <1>1, <3>1, <3>2 DEF World, controlVars
  <2>3. CASE Warn
    BY <1>1, <2>3 DEF Warn, At, World, controlVars
  <2> QED BY <2>1, <2>2, <2>3
<1>3. pc # "ended" /\ pc' \in Moments \ {"ended"} BY <1>2 DEF Moments
<1>4. Counts BY <1>1, <1>2, SameCount
<1> QED BY <1>1, <1>2, <1>3, <1>4, MasterCalls

LEMMA ReapIdlePreserves ==
  ASSUME IInv, ReapIdle
  PROVE  IInv'
<1>1. /\ TypeOK /\ goal \in 0 .. N /\ idleKill \subseteq children
      /\ spawnRate \in Nat /\ warned \in BOOLEAN /\ edge \in BOOLEAN
      /\ IdleChild \subseteq children
  BY PoolFacts, PoolSize
<1>2. /\ UNCHANGED <<pm, state, sent, children, proc, lock, stage, at, quitting, conn,
                     socket, timers, tracer, goal, edge, warned, count>>
      /\ spawnRate' \in Nat /\ pm # "static" /\ pc = "maintenance" /\ pc' = "loop"
      /\ \E c \in IdleChild : KillIdleChild(c)
  BY <1>1 DEF ReapIdle, Counted, At, World, controlVars
<1>3. PICK c \in IdleChild : KillIdleChild(c) BY <1>2
<1>4. /\ idleKill' \subseteq children
      /\ \E sig \in {"TERM", "QUIT", "KILL", "STOP"} : Kill({c}, sig)
  BY <1>1, <1>3 DEF KillIdleChild
<1>5. sigs' \in [Slot -> SUBSET {"TERM", "QUIT", "KILL", "STOP"}] BY <1>1, <1>4, Killing
<1>6. pc # "ended" /\ pc' \in Moments \ {"ended"} BY <1>2 DEF Moments
<1>7. Counts BY <1>1, <1>2, SameCount
<1> QED BY <1>1, <1>2, <1>4, <1>5, <1>6, <1>7, MasterCalls

\* However many children are asked for, no more than pm.max_children.
LEMMA MakeSomeOK ==
  ASSUME IInv, NEW n \in Nat, Running + n <= N, MakeSome(n)
  PROVE  goal' \in 0 .. N /\ warned' \in BOOLEAN /\ pc' = "make"
<1>1. Running \in 0 .. N /\ N \in Nat BY PoolSize, Bounds0 DEF IInv
<1>2. goal' = Running + n /\ warned' = FALSE /\ pc' = "make" BY DEF MakeSome
<1>3. Running + n \in 0 .. N BY <1>1
<1> QED BY <1>2, <1>3

LEMMA LimitOK ==
  ASSUME IInv, LimitReached
  PROVE  goal' \in 0 .. N /\ warned' \in BOOLEAN /\ pc' \in {"loop", "warn"}
BY PoolFacts DEF LimitReached

LEMMA SpawnSparePreserves ==
  ASSUME IInv, SpawnSpare
  PROVE  IInv'
<1>1. /\ TypeOK /\ idleKill \subseteq children
      /\ spawnRate \in Nat /\ edge \in BOOLEAN
      /\ sigs \in [Slot -> SUBSET {"TERM", "QUIT", "KILL", "STOP"}]
      /\ Running \in 0 .. N /\ Idle \in 0 .. N /\ N \in Nat /\ MinSpare \in Nat
  BY PoolFacts, PoolSize, Bounds0
<1>2. /\ UNCHANGED <<pm, state, sent, children, proc, lock, stage, at, quitting, conn,
                     socket, timers, tracer, idleKill, edge, sigs, count>>
      /\ pm = "dynamic" /\ pc = "maintenance" /\ Idle < MinSpare
      /\ \/ LimitReached /\ spawnRate' = 1
         \/ /\ MakeSome(Least(spawnRate, Least(MinSpare - Idle, N - Running)))
            /\ spawnRate' = IF spawnRate < MaxSpawnRate THEN 2 * spawnRate
                            ELSE spawnRate
  BY DEF SpawnSpare, Counted, At, World, controlVars
<1>3. spawnRate' \in Nat BY <1>1, <1>2
<1>4. goal' \in 0 .. N /\ warned' \in BOOLEAN /\ pc' \in {"loop", "warn", "make"}
  <2>1. CASE LimitReached BY <2>1, LimitOK
  <2>2. CASE MakeSome(Least(spawnRate, Least(MinSpare - Idle, N - Running)))
    <3> DEFINE n == Least(spawnRate, Least(MinSpare - Idle, N - Running))
    <3>1. n \in Nat /\ Running + n <= N BY <1>1, <1>2 DEF Least
    <3> HIDE DEF n
    <3>2. MakeSome(n) BY <2>2 DEF n
    <3> QED BY <3>1, <3>2, MakeSomeOK
  <2> QED BY <1>2, <2>1, <2>2
<1>5. pc # "ended" /\ pc' \in Moments \ {"ended"} BY <1>2, <1>4 DEF Moments
<1>6. Counts BY <1>1, <1>2, SameCount
<1> QED BY <1>1, <1>2, <1>3, <1>4, <1>5, <1>6, MasterCalls

LEMMA OnSocketAcceptPreserves ==
  ASSUME IInv, OnSocketAccept
  PROVE  IInv'
<1>1. /\ TypeOK /\ idleKill \subseteq children /\ goal \in 0 .. N /\ warned \in BOOLEAN
      /\ spawnRate \in Nat
      /\ pm = "static" => idleKill = {}
  BY PoolFacts
<1>a. /\ sigs \in [Slot -> SUBSET {"TERM", "QUIT", "KILL", "STOP"}]
      /\ Running \in 0 .. N /\ N \in Nat
  BY PoolFacts, PoolSize, Bounds0
<1>2. /\ UNCHANGED <<pm, state, sent, children, proc, lock, stage, at, quitting, conn,
                     socket, timers, tracer, idleKill, spawnRate, sigs, count>>
      /\ pc = "loop" /\ edge' = FALSE
      /\ \/ LimitReached
         \/ UNCHANGED <<pc, goal, warned>>
         \/ MakeSome(1)
  BY DEF OnSocketAccept, At, World, controlVars
<1>4. goal' \in 0 .. N /\ warned' \in BOOLEAN /\ pc' \in {"loop", "warn", "make"}
  <2>1. CASE LimitReached BY <2>1, LimitOK
  <2>2. CASE MakeSome(1)
    <3>1. Running + 1 <= N BY <1>a, <2>2 DEF MakeSome, Full
    <3> QED BY <2>2, <3>1, MakeSomeOK
  <2> QED BY <1>1, <1>2, <2>1, <2>2
<1>5. pc # "ended" /\ pc' \in Moments \ {"ended"} BY <1>2, <1>4 DEF Moments
<1>6. Counts BY <1>1, <1>2, SameCount
<1> QED BY <1>1, <1>a, <1>2, <1>4, <1>5, <1>6, MasterCalls

LEMMA MakeDonePreserves ==
  ASSUME IInv, MakeDone
  PROVE  IInv'
<1>1. /\ TypeOK /\ goal \in 0 .. N /\ idleKill \subseteq children
      /\ spawnRate \in Nat /\ warned \in BOOLEAN /\ edge \in BOOLEAN
      /\ sigs \in [Slot -> SUBSET {"TERM", "QUIT", "KILL", "STOP"}]
  BY PoolFacts
<1>2. /\ UNCHANGED <<pm, state, sent, children, proc, lock, stage, at, quitting, conn,
                     socket, timers, tracer, idleKill, spawnRate, warned, edge, sigs>>
      /\ goal' = 0 /\ pc \in {"make", "remake"}
      /\ pc' = IF pc = "make" THEN "loop" ELSE "bury"
      /\ \/ ~ForksMore /\ count' = count
         \/ Happens("fork")
  BY DEF MakeDone, Making, Made, At, World, Pool, controlVars
<1>3. Running \in 0 .. N /\ N \in Nat BY <1>1, PoolSize, Bounds0
<1>4. /\ Counts
      /\ count'["fork"] = 0 => ~ForksMore
  BY <1>1, <1>2, SameCount, HappensOK, Bounds0
<1>5. pc = "remake" /\ pm = "static" /\ CanSpawn /\ count'["fork"] = 0 => Running = N
  <2> SUFFICES ASSUME pc = "remake", pm = "static", CanSpawn, count'["fork"] = 0
               PROVE  Running = N
    OBVIOUS
  <2>1. goal = N BY <1>4 DEF IInv, StaticPool, Counts
  <2>2. ~(Running < goal) BY <1>4 DEF ForksMore
  <2> QED BY <1>3, <2>1, <2>2
<1>6. pc # "ended" /\ pc' \in Moments \ {"ended"} /\ goal' \in 0 .. N
  BY <1>2, <1>3 DEF Moments
<1>7. pc \in {"bury", "trace", "remake"} => pc' = "bury" BY <1>2
<1>8. pm = "static" => idleKill' = {} /\ pc' # "remake" BY <1>2, PoolFacts
<1> QED BY <1>1, <1>2, <1>4, <1>5, <1>6, <1>7, <1>8, MasterCalls

LEMMA RequestTimeoutPreserves ==
  ASSUME IInv, NEW c \in Slot, RequestTimeout(c)
  PROVE  IInv'
<1>1. /\ UNCHANGED <<pm, state, sent, pc, goal, children, idleKill, spawnRate, warned, timers,
                     socket, edge, lock, stage, at, proc, quitting, conn, count>>
      /\ c \in children
      /\ \/ Kill({c}, "TERM") /\ tracer' = tracer
         \/ Kill({c}, "STOP") /\ tracer' = tracer \cup {c}
  BY DEF RequestTimeout, World, controlVars
<1>2. sigs' \in [Slot -> SUBSET {"TERM", "QUIT", "KILL", "STOP"}]
  BY <1>1, Killing DEF IInv
<1>3. TypeOK' BY <1>1, <1>2 DEF IInv, TypeOK
<1>4. \A d \in Slot : Waitable(d)' => Waitable(d) BY <1>1 DEF Waitable
<1>5. Counts BY <1>1, SameCount DEF IInv
<1> QED BY <1>1, <1>3, <1>4, <1>5, Unnoticed

LEMMA BuryTimerPreserves ==
  ASSUME IInv, BuryTimer
  PROVE  IInv'
<1>1. /\ TypeOK /\ goal \in 0 .. N /\ idleKill \subseteq children /\ tracer \subseteq children
      /\ spawnRate \in Nat /\ warned \in BOOLEAN /\ edge \in BOOLEAN
      /\ sigs \in [Slot -> SUBSET {"TERM", "QUIT", "KILL", "STOP"}]
      /\ timers \subseteq {"pctl", "bury"}
  BY PoolFacts
<1>2. /\ UNCHANGED <<pm, state, sent, children, proc, lock, stage, at, quitting, conn,
                     socket, tracer, idleKill, goal, edge, sigs, count, spawnRate, warned>>
      /\ pc = "loop" /\ pc' = "bury" /\ timers' = timers \ {"bury"}
  BY DEF BuryTimer, At, World, Pool, controlVars
<1>3. pc # "ended" /\ pc' \in Moments \ {"ended"} BY <1>2 DEF Moments
<1>4. Counts BY <1>1, <1>2, SameCount
<1>5. /\ socket' \in Seq(Bytes) /\ Len(socket') <= SocketSize BY <1>1, <1>2, SocketFacts
<1>6. Orders' = Orders /\ (Told => Told') BY <1>2 DEF Orders, Told
<1>7. Cardinality(Orders') <= Cardinality(Orders) BY <1>1, <1>6, SocketFacts
<1>8. pm = "static" => idleKill' = {} /\ pc' # "remake" BY <1>2, PoolFacts
<1> QED BY <1>1, <1>2, <1>3, <1>4, <1>5, <1>6, <1>7, <1>8, MasterMove

LEMMA GotChildPreserves ==
  ASSUME IInv, GotChild
  PROVE  IInv'
<1>1. /\ TypeOK /\ goal \in 0 .. N /\ idleKill \subseteq children /\ tracer \subseteq children
      /\ spawnRate \in Nat /\ warned \in BOOLEAN /\ edge \in BOOLEAN
      /\ sigs \in [Slot -> SUBSET {"TERM", "QUIT", "KILL", "STOP"}]
      /\ timers \subseteq {"pctl", "bury"}
  BY PoolFacts
<1>2. /\ UNCHANGED <<pm, state, sent, children, proc, lock, stage, at, quitting, conn, pc,
                     tracer, idleKill, goal, edge, sigs, count, spawnRate, warned>>
      /\ pc = "read" /\ timers' = timers \cup {"bury"}
      /\ socket # <<>> /\ socket' = Tail(socket)
  BY DEF GotChild, At, World, Pool, controlVars
<1>3. pc # "ended" /\ pc' \in Moments \ {"ended"} BY <1>2 DEF Moments
<1>4. Counts BY <1>1, <1>2, SameCount
<1>5. /\ socket' \in Seq(Bytes) /\ Len(socket') <= SocketSize
      /\ Cardinality(Orders') <= Cardinality(Orders)
  BY <1>1, <1>2, TakeByte
<1>6. pm = "static" => idleKill' = {} /\ pc' # "remake" BY <1>2, PoolFacts
<1> QED BY <1>1, <1>2, <1>3, <1>4, <1>5, <1>6, MasterMove
-----------------------------------------------------------------------------
(* Steps of the master that change state or children.                      *)

\* fpm_pctl_action_next, of a stop that is under way.
LEMMA ActionNextOK ==
  ASSUME TypeOK, NEW s \in DOMAIN Rank, NEW last \in {"none", "TERM", "QUIT", "KILL"},
         NEW left, NEW back \in {"read", "loop", "bury"}, ActionNext(s, last, left, back)
  PROVE  /\ state' = s /\ sent' \in {"none", "TERM", "QUIT", "KILL"}
         /\ sigs' \in [Slot -> SUBSET {"TERM", "QUIT", "KILL", "STOP"}]
         /\ pc' = (IF left = {} THEN "ended" ELSE back) /\ pc' \in Moments
         /\ timers' = timers \cup {"pctl"} /\ timers' \subseteq {"pctl", "bury"}
<1>1. NextSignal(s, last) \in {"TERM", "QUIT", "KILL"} BY DEF NextSignal
<1>2. Kill(left, NextSignal(s, last)) BY DEF ActionNext
<1>3. sigs' \in [Slot -> SUBSET {"TERM", "QUIT", "KILL", "STOP"}] BY <1>1, <1>2, Killing
<1> QED BY <1>1, <1>3 DEF ActionNext, TypeOK, Moments

\* The pool as ActionNext finds it outside of a burial.
LEMMA StopStep ==
  ASSUME IInv, UNCHANGED <<pm, goal, children, idleKill, tracer, spawnRate, warned, edge,
                           lock, stage, at, proc, quitting, conn, count>>,
         NEW s \in DOMAIN Rank, s # "normal",
         NEW last \in {"none", "TERM", "QUIT", "KILL"}, NEW back \in {"read", "loop"},
         ActionNext(s, last, children, back), pc = back,
         socket' \in Seq(Bytes), Len(socket') <= SocketSize,
         Cardinality(Orders') <= Cardinality(Orders), Told => Told'
  PROVE  IInv'
<1>1. /\ state' = s /\ sent' \in {"none", "TERM", "QUIT", "KILL"}
      /\ sigs' \in [Slot -> SUBSET {"TERM", "QUIT", "KILL", "STOP"}]
      /\ pc' = (IF children = {} THEN "ended" ELSE back) /\ pc' \in Moments
      /\ timers' = timers \cup {"pctl"} /\ timers' \subseteq {"pctl", "bury"}
  BY ActionNextOK DEF IInv
<1>2. TypeOK' BY <1>1, Tables DEF IInv, TypeOK
<1>3. NoneForgotten'
  <2>1. (\E c \in Slot : Waitable(c))' => \E c \in Slot : Waitable(c) BY DEF Waitable
  <2>2. (\E c \in Slot : Waitable(c)) => Told \/ "bury" \in timers
    BY DEF IInv, NoneForgotten, Told
  <2>3. (\E c \in Slot : Waitable(c))' => Told' \/ "bury" \in timers'
    BY <1>1, <2>1, <2>2
  <2> QED BY <2>3 DEF NoneForgotten, Told
<1>4. EndsLast' BY <1>1 DEF EndsLast, IInv, TypeOK
<1>5. RoomForDeaths'
  <2>1. Cardinality(Orders) \in Nat /\ Cardinality(Orders') \in Nat /\ count["admin"] \in Nat
    BY <1>2, SocketFacts, OrdersNext, Bounds0 DEF IInv, TypeOK
  <2> QED BY <2>1 DEF IInv, RoomForDeaths
<1>6. StopUnderWay' BY <1>1 DEF StopUnderWay
<1>7. StaticPool' BY <1>1 DEF IInv, StaticPool, CanSpawn
<1> QED BY <1>2, <1>3, <1>4, <1>5, <1>6, <1>7 DEF IInv

LEMMA OverridesNormal ==
  ASSUME TypeOK, NEW s \in {"terminating", "finishing", "reloading"}, Overrides(s)
  PROVE  s # "normal" /\ s \in DOMAIN Rank /\ s # state
BY Tables DEF TypeOK, Overrides

LEMMA GotStopPreserves ==
  ASSUME IInv, GotStop
  PROVE  IInv'
<1>1. /\ UNCHANGED <<pm, goal, children, idleKill, tracer, spawnRate, warned, edge,
                     lock, stage, at, proc, quitting, conn, count>>
      /\ pc = "read" /\ socket # <<>> /\ Head(socket) \in DOMAIN Asked
      /\ socket' = Tail(socket)
      /\ LET new == Asked[Head(socket)]
         IN  IF Overrides(new) THEN ActionNext(new, "none", children, "read")
             ELSE UNCHANGED <<state, sent, pc, timers, sigs>>
  BY DEF GotStop, At, World, Pool
<1>2. /\ TypeOK /\ socket' \in Seq(Bytes) /\ Len(socket') <= SocketSize
      /\ Cardinality(Orders') <= Cardinality(Orders)
  BY <1>1, TakeByte DEF IInv
<1>3. Told => Told' BY <1>1, <1>2, TakeByte, Tables
<1>4. Asked[Head(socket)] \in {"terminating", "finishing", "reloading"} BY <1>1, Tables
<1>5. CASE Overrides(Asked[Head(socket)])
  <2> DEFINE s == Asked[Head(socket)]
  <2>1. s # "normal" /\ s \in DOMAIN Rank BY <1>2, <1>4, <1>5, OverridesNormal
  <2>2. ActionNext(s, "none", children, "read") BY <1>1, <1>5
  <2> HIDE DEF s
  <2> QED BY <1>1, <1>2, <1>3, <2>1, <2>2, StopStep
<1>6. CASE UNCHANGED <<state, sent, pc, timers, sigs>>
  <2>1. /\ goal \in 0 .. N /\ idleKill \subseteq children /\ tracer \subseteq children
        /\ spawnRate \in Nat /\ warned \in BOOLEAN /\ edge \in BOOLEAN
        /\ sigs \in [Slot -> SUBSET {"TERM", "QUIT", "KILL", "STOP"}]
        /\ timers \subseteq {"pctl", "bury"}
    BY PoolFacts
  <2>2. pc # "ended" /\ pc' \in Moments \ {"ended"} BY <1>1, <1>6 DEF Moments
  <2>3. Counts BY <1>1, <1>2, SameCount
  <2>4. pm = "static" => idleKill' = {} /\ pc' # "remake" BY <1>1, <1>6, PoolFacts
  <2> QED BY <1>1, <1>2, <1>3, <1>6, <2>1, <2>2, <2>3, <2>4, MasterMove
<1> QED BY <1>1, <1>5, <1>6

LEMMA PctlTimerPreserves ==
  ASSUME IInv, PctlTimer
  PROVE  IInv'
<1>1. /\ UNCHANGED <<pm, goal, children, idleKill, tracer, spawnRate, warned, edge,
                     lock, stage, at, proc, quitting, conn, count, socket>>
      /\ pc = "loop" /\ "pctl" \in timers
      /\ ActionNext(state, sent, children, "loop")
  BY DEF PctlTimer, At, World, Pool
<1>2. /\ TypeOK /\ state # "normal" /\ state \in DOMAIN Rank
      /\ sent \in {"none", "TERM", "QUIT", "KILL"}
  BY <1>1 DEF IInv, StopUnderWay, TypeOK
<1>3. /\ socket' \in Seq(Bytes) /\ Len(socket') <= SocketSize BY <1>1, <1>2, SocketFacts
<1>4. Orders' = Orders /\ (Told => Told') BY <1>1 DEF Orders, Told
<1>5. Cardinality(Orders') <= Cardinality(Orders) BY <1>2, <1>4, SocketFacts
<1> QED BY <1>1, <1>2, <1>3, <1>4, <1>5, StopStep

\* Steps that change the pool and touch neither socket nor timers nor state.
LEMMA PoolStep ==
  ASSUME IInv, TypeOK', UNCHANGED <<pm, state, timers, socket, count>>,
         (\E c \in Slot : Waitable(c))' =>
             \/ \E c \in Slot : Waitable(c) /\ pc' = pc
             \/ pc' \in {"bury", "trace", "remake"},
         pc' # "ended", StaticPool'
  PROVE  IInv'
<1>1. Orders' = Orders BY DEF Orders
<1>2. NoneForgotten' BY DEF IInv, NoneForgotten
<1>3. EndsLast' BY DEF EndsLast
<1>4. RoomForDeaths' BY <1>1 DEF IInv, RoomForDeaths
<1>5. StopUnderWay' BY DEF IInv, StopUnderWay
<1> QED BY <1>2, <1>3, <1>4, <1>5 DEF IInv

LEMMA ForkPreserves ==
  ASSUME IInv, Fork
  PROVE  IInv'
<1>1. PICK c \in Slot \ children :
        /\ children' = children \cup {c}
        /\ proc' = [proc EXCEPT ![c] = "running"]
        /\ at' = [at EXCEPT ![c] = "init"]
  BY DEF Fork
<1>2. /\ UNCHANGED <<pm, state, sent, pc, goal, idleKill, tracer, spawnRate, warned,
                     timers, socket, edge, lock, stage, sigs, quitting, conn, count>>
      /\ pc \in {"make", "remake"} /\ CanSpawn /\ Running < goal
  BY DEF Fork, Making, At, ForksMore, controlVars, worldVars
<1>3. TypeOK BY DEF IInv
<1>4. TypeOK'
  <2>1. children' = {d \in Slot : proc'[d] # "none"} BY <1>1, <1>3 DEF TypeOK
  <2>2. /\ at' \in [Slot -> Places] /\ proc' \in [Slot -> Alive \cup Zombie \cup {"none"}]
    BY <1>1, <1>3 DEF TypeOK, Places, Alive
  <2>3. idleKill' \subseteq children' /\ tracer' \subseteq children' BY <1>1, <1>2, <1>3 DEF TypeOK
  <2> QED BY <1>2, <1>3, <2>1, <2>2, <2>3 DEF TypeOK
<1>5. (\E d \in Slot : Waitable(d))' => \E d \in Slot : Waitable(d) /\ pc' = pc
  BY <1>1, <1>2, <1>3 DEF Waitable, Zombie, TypeOK
<1>6. StaticPool'
  <2>1. pc = "remake" \/ Running # N
    BY <1>2, <1>3, PoolFacts, PoolSize, Bounds0
  <2> QED BY <1>2, <2>1 DEF IInv, StaticPool, CanSpawn
<1> QED BY <1>2, <1>4, <1>5, <1>6, PoolStep

LEMMA TracingPreserves ==
  ASSUME IInv, Traced \/ \E c \in Slot : BuryStopped(c)
  PROVE  IInv'
<1>1. CASE Traced
  <2> DEFINE C == {x \in Slot : proc[x] = "traced"}
  <2>1. /\ UNCHANGED <<pm, state, sent, goal, children, idleKill, spawnRate, warned,
                       timers, socket, edge, lock, stage, at, quitting, conn, count>>
        /\ pc = "trace" /\ pc' = "bury"
        /\ proc' = [x \in Slot |-> IF x \in C THEN "running" ELSE proc[x]]
        /\ sigs' = [x \in Slot |-> IF x \in C THEN sigs[x] \ {"STOP"} ELSE sigs[x]]
        /\ tracer' = tracer \ C
    BY <1>1 DEF Traced, At, controlVars, worldVars
  <2>2. TypeOK'
    <3>1. children' = {d \in Slot : proc'[d] # "none"} BY <2>1 DEF IInv, TypeOK
    <3>2. /\ proc' \in [Slot -> Alive \cup Zombie \cup {"none"}]
          /\ sigs' \in [Slot -> SUBSET {"TERM", "QUIT", "KILL", "STOP"}]
      BY <2>1 DEF IInv, TypeOK, Alive
    <3>3. tracer' \subseteq children' BY <2>1 DEF IInv, TypeOK
    <3> QED BY <2>1, <3>1, <3>2, <3>3 DEF IInv, TypeOK, Moments
  <2>3. StaticPool' BY <2>1 DEF IInv, StaticPool, CanSpawn, Running
  <2> QED BY <2>1, <2>2, <2>3, PoolStep
<1>2. ASSUME NEW c \in Slot, BuryStopped(c) PROVE IInv'
  <2>1. /\ UNCHANGED <<pm, state, sent, goal, children, idleKill, tracer, spawnRate, warned,
                       timers, socket, edge, lock, stage, at, sigs, quitting, conn, count>>
        /\ pc = "bury" /\ pc' = "trace" /\ proc[c] = "stopped"
        /\ proc' = [proc EXCEPT ![c] = "traced"]
    BY <1>2 DEF BuryStopped, At, Pool, controlVars, worldVars
  <2>2. TypeOK'
    <3>1. children' = {d \in Slot : proc'[d] # "none"} BY <2>1 DEF IInv, TypeOK
    <3>2. proc' \in [Slot -> Alive \cup Zombie \cup {"none"}]
      BY <2>1 DEF IInv, TypeOK, Alive
    <3> QED BY <2>1, <3>1, <3>2 DEF IInv, TypeOK, Moments
  <2>3. StaticPool' BY <2>1 DEF IInv, StaticPool, CanSpawn, Running
  <2> QED BY <2>1, <2>2, <2>3, PoolStep
<1> QED BY <1>1, <1>2

\* A burial: what dies is made up for, or it was the last and the master ends.
LEMMA BuryDeadPreserves ==
  ASSUME IInv, NEW c \in Slot, BuryDead(c)
  PROVE  IInv'
<1> DEFINE left == children \ {c}
<1>1. /\ UNCHANGED <<pm, spawnRate, warned, socket, edge, lock, at, quitting, conn, count>>
      /\ pc = "bury" /\ proc[c] \in Zombie
      /\ children' = left
      /\ idleKill' = idleKill \ {c} /\ tracer' = tracer \ {c}
      /\ stage' = [stage EXCEPT ![c] = "none"]
      /\ proc' = [proc EXCEPT ![c] = "none"]
      /\ IF ~CanSpawn
         THEN /\ pc' = IF left = {} THEN "ended" ELSE pc
              /\ UNCHANGED <<state, sent, timers, sigs, goal>>
         ELSE \/ /\ ActionNext("reloading", "none", left, "bury")
                 /\ UNCHANGED goal
              \/ /\ goal' = IF ~Restarts(c) THEN goal
                             ELSE IF pm = "static" THEN N ELSE Running
                 /\ pc' = IF Restarts(c) THEN "remake" ELSE pc
                 /\ UNCHANGED <<state, sent, timers, sigs>>
  BY DEF BuryDead, At, LastChild, worldVars
<1> HIDE DEF left
<1>2. /\ TypeOK /\ goal \in 0 .. N /\ Running \in 0 .. N /\ N \in Nat
      /\ sigs \in [Slot -> SUBSET {"TERM", "QUIT", "KILL", "STOP"}]
      /\ pm = "static" => idleKill = {}
  BY PoolFacts, PoolSize, Bounds0
<1>3. /\ state' \in DOMAIN Rank /\ sent' \in {"none", "TERM", "QUIT", "KILL"}
      /\ sigs' \in [Slot -> SUBSET {"TERM", "QUIT", "KILL", "STOP"}]
      /\ goal' \in 0 .. N /\ timers' \subseteq {"pctl", "bury"}
      /\ pc' \in {"ended", "bury", "remake"} /\ (pc' = "ended" => left = {})
      /\ "pctl" \in timers' => state' # "normal"
      /\ state = "normal" => \/ state' # "normal"
                             \/ /\ pc' = IF Restarts(c) THEN "remake" ELSE pc
                                /\ pm = "static" /\ Restarts(c) => goal' = N
      /\ state # "normal" => state' # "normal"
  <2>1. CASE ~CanSpawn
    BY <1>1, <1>2, <2>1 DEF TypeOK, CanSpawn, IInv, StopUnderWay
  <2>2. CASE CanSpawn /\ ActionNext("reloading", "none", left, "bury") /\ UNCHANGED goal
    <3>1. "reloading" \in DOMAIN Rank BY Tables
    <3>2. /\ state' = "reloading" /\ sent' \in {"none", "TERM", "QUIT", "KILL"}
          /\ sigs' \in [Slot -> SUBSET {"TERM", "QUIT", "KILL", "STOP"}]
          /\ pc' = (IF left = {} THEN "ended" ELSE "bury")
          /\ timers' \subseteq {"pctl", "bury"}
      BY <1>2, <2>2, <3>1, ActionNextOK
    <3> QED BY <1>2, <2>2, <3>1, <3>2
  <2>3. CASE /\ CanSpawn
             /\ goal' = IF ~Restarts(c) THEN goal
                        ELSE IF pm = "static" THEN N ELSE Running
             /\ pc' = IF Restarts(c) THEN "remake" ELSE pc
             /\ UNCHANGED <<state, sent, timers, sigs>>
    BY <1>1, <1>2, <2>3 DEF TypeOK, CanSpawn, IInv, StopUnderWay
  <2> QED BY <1>1, <2>1, <2>2, <2>3
<1>4. TypeOK'
  <2>1. children' = {d \in Slot : proc'[d] # "none"} BY <1>1, <1>2 DEF TypeOK, left
  <2>2. idleKill' \subseteq children' /\ tracer' \subseteq children' BY <1>1, <1>2 DEF TypeOK, left
  <2>3. /\ stage' \in [Slot -> Stages] /\ proc' \in [Slot -> Alive \cup Zombie \cup {"none"}]
        /\ pc' \in Moments
    BY <1>1, <1>2, <1>3 DEF TypeOK, Stages, Moments
  <2> QED BY <1>1, <1>2, <1>3, <2>1, <2>2, <2>3 DEF TypeOK
<1>5. NoneForgotten' BY <1>3 DEF NoneForgotten
<1>6. EndsLast' BY <1>1, <1>3, <1>4 DEF EndsLast, TypeOK
<1>7. RoomForDeaths'
  <2>1. Orders' = Orders BY <1>1 DEF Orders
  <2> QED BY <1>1, <2>1 DEF IInv, RoomForDeaths
<1>8. StopUnderWay' BY <1>3 DEF StopUnderWay
<1>9. StaticPool'
  <2> SUFFICES ASSUME pm' = "static"
               PROVE  /\ idleKill' = {}
                      /\ CanSpawn' /\ count'["fork"] = 0 =>
                             IF pc' = "remake" THEN goal' = N ELSE Running' = N
    BY DEF StaticPool
  <2>1. idleKill = {} /\ idleKill' = {} BY <1>1, <1>2
  <2>2. Restarts(c) BY <2>1 DEF Restarts
  <2>3. CanSpawn' => state' = "normal" /\ pc' = "remake" /\ goal' = N
    BY <1>1, <1>3, <2>2 DEF CanSpawn
  <2> QED BY <2>1, <2>3
<1> QED BY <1>4, <1>5, <1>6, <1>7, <1>8, <1>9 DEF IInv

-----------------------------------------------------------------------------
(* The theorems.                                                           *)

LEMMA InitInv == ASSUME Init PROVE IInv
<1>1. /\ Bound \in [Events -> Nat] /\ N \in Nat /\ SocketSize \in Nat
      /\ "admin" \in Events /\ Bound["admin"] \in Nat
      /\ Styles \subseteq {"static", "dynamic", "ondemand"}
  BY Bounds0, FpmAssumption
<1>2. socket \in Seq({"C"} \cup DOMAIN Asked) /\ Len(socket) = 0 BY DEF Init
<1>3. children \subseteq Slot /\ children = {c \in Slot : proc[c] # "none"} BY DEF Init
<1>4. TypeOK
  <2>1. /\ at \in [Slot -> Places] /\ proc \in [Slot -> Alive \cup Zombie \cup {"none"}]
        /\ stage \in [Slot -> Stages] /\ sigs \in [Slot -> SUBSET {"TERM", "QUIT", "KILL", "STOP"}]
        /\ quitting \in [Slot -> BOOLEAN] /\ count \in [Events -> Nat]
    BY DEF Init, Places, Alive, Stages
  <2>2. state \in DOMAIN Rank /\ pc \in Moments BY Tables DEF Init, Moments
  <2>3. Len(socket) <= SocketSize /\ goal \in 0 .. N BY <1>1, <1>2 DEF Init
  <2> QED BY <1>2, <1>3, <2>1, <2>2, <2>3 DEF Init, TypeOK
<1>5. NoneForgotten BY DEF Init, NoneForgotten, Waitable, Zombie
<1>6. EndsLast BY DEF Init, EndsLast
<1>7. RoomForDeaths
  <2>1. Orders = {} BY <1>2 DEF Orders
  <2>2. count["admin"] = 0 BY <1>1 DEF Init
  <2> QED BY <1>1, <2>1, <2>2, FS_EmptySet DEF RoomForDeaths
<1>8. StopUnderWay BY DEF Init, StopUnderWay
<1>9. StaticPool BY DEF Init, StaticPool, Initial, Running
<1> QED BY <1>4, <1>5, <1>6, <1>7, <1>8, <1>9 DEF IInv

LEMMA StepPreserves ==
  ASSUME IInv, [Next]_vars
  PROVE  IInv'
<1>1. CASE Loop \/ Handler
  <2>1. CASE Readable \/ ReadDone \/ BuryDone \/ BeginMaintenance \/ Settled \/ Warn
    BY <2>1, LoopPreserves
  <2>2. CASE PctlTimer \/ BuryTimer \/ OnSocketAccept \/ GotChild \/ GotStop
    BY <2>2, PctlTimerPreserves, BuryTimerPreserves, OnSocketAcceptPreserves, GotChildPreserves,
       GotStopPreserves
  <2>3. CASE Fork \/ MakeDone \/ Traced \/ ReapIdle \/ SpawnSpare
    BY <2>3, ForkPreserves, MakeDonePreserves, TracingPreserves, ReapIdlePreserves,
       SpawnSparePreserves
  <2>4. ASSUME NEW c \in Slot, RequestTimeout(c) \/ BuryStopped(c) \/ BuryDead(c) PROVE IInv'
    BY <2>4, RequestTimeoutPreserves, TracingPreserves, BuryDeadPreserves
  <2> QED BY <1>1, <2>1, <2>2, <2>3, <2>4 DEF Loop, Handler
<1>2. ASSUME NEW c \in Slot, ChildStep(c) \/ Delivery(c) PROVE IInv'
  BY <1>2, ChildStepPreserves, DeliveryPreserves
<1>3. CASE Environment BY <1>3, EnvironmentPreserves
<1>4. CASE UNCHANGED vars
  <2>1. /\ TypeOK' /\ count' = count /\ TypeOK
        /\ UNCHANGED <<pm, state, pc, goal, children, idleKill, timers, socket>>
        /\ \A c \in Slot : Waitable(c)' => Waitable(c)
    BY <1>4 DEF IInv, TypeOK, vars, Waitable
  <2> QED BY <2>1, SameCount, Unnoticed
<1> QED BY <1>1, <1>2, <1>3, <1>4 DEF Next

\* The invariant of the master, its children and the signal socket holds for
\* every size of pool and of socket, and any number of events.
THEOREM Inductive == Spec => []IInv
<1>1. Init => IInv BY InitInv
<1>2. IInv /\ [Next]_vars => IInv' BY StepPreserves
<1> QED BY <1>1, <1>2, PTL DEF Spec

\* Every variable has its type: a pool never has, nor asks for, more children
\* than pm.max_children, and what is kept of a child dies with it.
THEOREM TypeCorrect == Spec => []TypeOK
<1>1. IInv => TypeOK BY DEF IInv
<1> QED BY <1>1, Inductive, PTL

\* No death is forgotten although the socket may be too full for its SIGCHLD,
\* the master never ends before its last child, and a static pool with nothing
\* left to do is full: in fpm_children_bury and what it calls.
THEOREM NoChildLost == Spec => []ChildrenAccounted
<1>1. IInv => StaticFull
  BY DEF IInv, StaticPool, StaticFull, Quiet
<1>2. IInv => ChildrenAccounted BY <1>1 DEF IInv, ChildrenAccounted
<1> QED BY <1>2, Inductive, PTL

LEMMA BacksOffNever ==
  ASSUME IInv, [Next]_vars, state' = state
  PROVE  Strength[sent'] >= Strength[sent]
<1>1. /\ sent \in {"none", "TERM", "QUIT", "KILL"}
      /\ Strength["none"] = 0 /\ Strength["QUIT"] = 1 /\ Strength["TERM"] = 2 /\ Strength["KILL"] = 3
  BY DEF IInv, TypeOK, Strength
<1>2. CASE sent' = sent BY <1>1, <1>2
<1>3. CASE sent' = NextSignal(state, sent) BY <1>1, <1>3 DEF NextSignal
<1>4. sent' = sent \/ sent' = NextSignal(state, sent)
  <2>1. CASE GotStop
    <3>1. Asked[Head(socket)] \in {"terminating", "finishing", "reloading"}
      BY <2>1, Tables DEF GotStop
    <3>2. ~Overrides(Asked[Head(socket)])
      BY <2>1, <3>1, OverridesNormal DEF GotStop, ActionNext, IInv
    <3> QED BY <2>1, <3>2 DEF GotStop
  <2>2. CASE PctlTimer BY <2>2 DEF PctlTimer, ActionNext
  <2>3. ASSUME NEW c \in Slot, BuryDead(c) PROVE sent' = sent
    BY <2>3 DEF BuryDead, ActionNext, CanSpawn
  <2>4. CASE Readable \/ ReadDone \/ BuryDone \/ BeginMaintenance \/ Settled \/ Warn
    BY <2>4 DEF Readable, ReadDone, BuryDone, BeginMaintenance, Settled, Warn, controlVars
  <2>5. CASE BuryTimer \/ OnSocketAccept \/ GotChild \/ Fork \/ MakeDone
    BY <2>5 DEF BuryTimer, OnSocketAccept, GotChild, Fork, MakeDone, controlVars
  <2>6. CASE Traced \/ ReapIdle \/ SpawnSpare
    BY <2>6 DEF Traced, ReapIdle, SpawnSpare, controlVars
  <2>7. ASSUME NEW c \in Slot, RequestTimeout(c) \/ BuryStopped(c) PROVE sent' = sent
    BY <2>7 DEF RequestTimeout, BuryStopped, controlVars
  <2>8. ASSUME NEW c \in Slot, ChildStep(c) \/ Delivery(c) PROVE sent' = sent
    <3>1. CASE ChildInitFails(c) \/ Exit(c) \/ Crash(c) \/ Delivery(c)
      BY <3>1 DEF ChildInitFails, Exit, Crash, Delivery, Killed, Terminated, SoftQuit, Stop, Die,
                  masterVars, controlVars
    <3>2. CASE \/ ChildInit(c) \/ TestShutdown(c) \/ AcceptBegin(c) \/ Accept(c) \/ PollTimeout(c) \/ ReadBegin(c)
               \/ Execute(c) \/ EndRequest(c) \/ NextRequest(c) \/ Committed(c)
      BY <3>2 DEF ChildInit, TestShutdown, AcceptBegin, Accept, PollTimeout, ReadBegin, Execute, EndRequest,
                  NextRequest, Committed, AcceptCommit, ReadCommit, TakeLock, Commit, Go,
                  masterVars, controlVars
    <3> QED BY <2>8, <3>1, <3>2 DEF ChildStep
  <2>9. CASE Environment
    BY <2>9 DEF Environment, Connect, Admin, masterVars, controlVars
  <2>10. CASE UNCHANGED vars BY <2>10 DEF vars
  <2> QED BY <2>1, <2>2, <2>3, <2>4, <2>5, <2>6, <2>7, <2>8, <2>9, <2>10 DEF Next, Loop, Handler
<1> QED BY <1>2, <1>3, <1>4

\* A stop only ever gets more forceful: fpm_pctl_action_next never goes back to
\* a gentler signal, whatever signals, deaths and timers come in between.
THEOREM StopsEscalate == Spec => NeverBacksOff
<1>1. IInv /\ [Next]_vars => [state' = state => Strength[sent'] >= Strength[sent]]_vars
  BY BacksOffNever
<1> QED BY <1>1, Inductive, PTL DEF Spec, NeverBacksOff
=============================================================================
