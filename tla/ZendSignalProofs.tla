-------------------------- MODULE ZendSignalProofs --------------------------
(***************************************************************************)
(* Proofs about ZendSignal, for every set of signals, every size of the    *)
(* queue and every nesting of sections and handlers: first that handlers   *)
(* exclude one another, then that the linked lists make up a queue.        *)
(***************************************************************************)
EXTENDS ZendSignal, FiniteSetTheorems, SequenceTheorems, WellFoundedInduction, TLAPS
-----------------------------------------------------------------------------
(* Numbers, sets and sequences                                             *)

\* A non-empty set of natural numbers has a least element.
LEMMA NatMin ==
  ASSUME NEW T \in SUBSET Nat, T # {}
  PROVE  \E x \in T : \A y \in T : x <= y
<1> DEFINE R == OpToRel(<, Nat)
<1>1. IsWellFoundedOn(R, Nat) BY NatLessThanWellFounded
<1>2. \A x, y \in T : y < x => <<y, x>> \in R BY DEF OpToRel
<1> HIDE DEF R
<1>3. PICK x \in T : \A y \in T : ~(<<y, x>> \in R) BY <1>1, WFMin
<1>4. ASSUME NEW y \in T PROVE x <= y
  <2>1. ~(y < x) BY <1>2, <1>3
  <2> QED BY <2>1
<1> QED BY <1>4

\* How many elements 1..n has.
LEMMA IntervalFrom1 ==
  ASSUME NEW n \in Int
  PROVE  IsFiniteSet(1 .. n) /\ Cardinality(1 .. n) = IF 1 > n THEN 0 ELSE n
<1>1. /\ IsFiniteSet(1 .. n)
      /\ Cardinality(1 .. n) = IF 1 > n THEN 0 ELSE n - 1 + 1
  BY FS_Interval
<1>2. n - 1 + 1 = n OBVIOUS
<1> QED BY <1>1, <1>2

\* A frame without what its handler knows of the signal.
FrameShape == [signo : Sig \cup {NoSignal}, oldmask : SUBSET Sig, at : Places,
               queue : Cell \cup {Null}]

\* The program counts its sections in depth; a fatal error may leave depth
\* above the count.
SectionsInv ==
    /\ depth \in Nat /\ sections \in Nat
    /\ sections <= depth
    /\ pc \in Labels
    /\ pc = "loaded" => sections > 0
    /\ pc \in {"activate", "activated", "deactivate"} => sections = 0

\* The handler that runs holds running; it was let in at depth zero.
HandlersInv ==
    /\ frames \in Seq(FrameShape)
    /\ mask \in SUBSET Sig
    /\ signo \in [Cell -> Sig \cup {NoSignal}]
    /\ OneHandlerAtATime
    /\ Handling # {} => active /\ running /\ depth = 0

\* The lists are made of cells.
CellsInv ==
    /\ {phead, ptail, pavail} \subseteq Cell \cup {Null}
    /\ next \in [Cell -> Cell \cup {Null}]

IInv == SectionsInv /\ HandlersInv /\ CellsInv

\* The invariant holds after zend_signal_startup.
THEOREM InitEstablishes == Init => IInv
<1> SUFFICES ASSUME Init PROVE IInv
  OBVIOUS
<1>1. SectionsInv
  BY DEF Init, SectionsInv, Labels
<1>2. Handling = {}
  BY DEF Init, Handling
<1>3. HandlersInv
  BY <1>2 DEF Init, HandlersInv, OneHandlerAtATime
<1>4. CellsInv
  BY SignalAssumption DEF Init, CellsInv, Cell, Null
<1> QED BY <1>1, <1>3, <1>4 DEF IInv

\* Places in the frames after a call.
LEMMA PushFrame ==
    ASSUME frames \in Seq(FrameShape), NEW f \in FrameShape, f.at = "enter",
           frames' = Append(frames, f)
    PROVE  /\ frames' \in Seq(FrameShape) /\ Handling' = Handling
           /\ \A i \in DOMAIN frames : i \in DOMAIN frames' /\ frames'[i] = frames[i]
           /\ \A i \in DOMAIN frames' : i \in DOMAIN frames \/ i = Len(frames) + 1
           /\ frames'[Len(frames) + 1] = f /\ Len(frames) + 1 \in DOMAIN frames'
<1>1. frames' \in Seq(FrameShape) /\ Len(frames') = Len(frames) + 1
  OBVIOUS
<1>2. \A i \in 1 .. Len(frames) : frames'[i] = frames[i]
  OBVIOUS
<1>3. frames'[Len(frames) + 1] = f
  OBVIOUS
<1>4. DOMAIN frames' = 1 .. Len(frames) + 1 /\ DOMAIN frames = 1 .. Len(frames)
  BY <1>1
<1>5. Len(frames) \in Nat
  OBVIOUS
<1> QED BY <1>1, <1>2, <1>3, <1>4, <1>5 DEF Handling

\* The same after a return.
LEMMA PopFrame ==
    ASSUME frames \in Seq(FrameShape), frames # <<>>,
           frames' = SubSeq(frames, 1, Len(frames) - 1)
    PROVE  /\ frames' \in Seq(FrameShape)
           /\ Handling' = Handling \ {Len(frames)}
           /\ \A i \in DOMAIN frames' :
                 i \in DOMAIN frames /\ i # Len(frames) /\ frames'[i] = frames[i]
           /\ \A i \in DOMAIN frames : i # Len(frames) => i \in DOMAIN frames'
<1> DEFINE n == Len(frames)
<1>1. n \in Nat /\ n > 0 /\ \A i \in 1 .. n : frames[i] \in FrameShape
  OBVIOUS
<1>2. /\ frames' \in Seq(FrameShape)
      /\ Len(frames') = n - 1
      /\ \A i \in 1 .. n - 1 : frames'[i] = frames[i]
  <2>1. \A i \in 1 .. n - 1 : frames[i] \in FrameShape
    BY <1>1
  <2>2. 1 \in Int /\ n - 1 \in Int
    BY <1>1
  <2> HIDE DEF n
  <2>3. frames' = SubSeq(frames, 1, n - 1)
    BY DEF n
  <2>4. /\ frames' \in Seq(FrameShape)
        /\ Len(frames') = IF 1 <= n - 1 THEN n - 1 - 1 + 1 ELSE 0
        /\ \A i \in 1 .. n - 1 - 1 + 1 : frames'[i] = frames[1 + i - 1]
    BY <2>1, <2>2, <2>3, SubSeqProperties
  <2> QED BY <2>4, <1>1
<1>4. DOMAIN frames' = 1 .. n - 1 /\ DOMAIN frames = 1 .. n
  BY <1>1, <1>2
<1> QED BY <1>1, <1>2, <1>4 DEF Handling

\* The same after a step of the top frame.
LEMMA MoveFrame ==
    ASSUME frames \in Seq(FrameShape), frames # <<>>,
           NEW at \in Places, NEW q \in Cell \cup {Null}, Goto(at, q)
    PROVE  /\ frames' \in Seq(FrameShape)
           /\ Handling' = IF at \in {"first", "take", "drain"}
                          THEN Handling \cup {Len(frames)}
                          ELSE Handling \ {Len(frames)}
           /\ DOMAIN frames' = DOMAIN frames
           /\ \A i \in DOMAIN frames : i # Len(frames) => frames'[i] = frames[i]
           /\ LET f == frames'[Len(frames)]
              IN  f.at = at /\ f.queue = q /\ f.signo = Top.signo
<1> DEFINE n == Len(frames)
           g == [frames[n] EXCEPT !.at = at, !.queue = q]
<1>1. n \in Nat /\ n > 0 /\ DOMAIN frames = 1 .. n
  OBVIOUS
<1>2. frames[n] \in FrameShape
  BY <1>1
<1>3. g \in FrameShape /\ g.at = at /\ g.queue = q /\ g.signo = frames[n].signo
  BY <1>2 DEF FrameShape
<1>4. frames' = [frames EXCEPT ![n] = g]
  BY DEF Goto
<1>5. /\ frames' \in Seq(FrameShape)
      /\ Len(frames') = Len(frames)
      /\ \A i \in 1 .. Len(frames) : frames'[i] = IF i = n THEN g ELSE frames[i]
  <2> HIDE DEF g
  <2> QED BY <1>1, <1>3, <1>4, ExceptSeq
<1>6. DOMAIN frames' = 1 .. n
  BY <1>1, <1>5
<1>7. \A i \in 1 .. n : frames'[i].at = IF i = n THEN at ELSE frames[i].at
  BY <1>1, <1>3, <1>5
<1>8. n \in 1 .. n
  BY <1>1
<1>12. /\ \A i \in 1 .. n : i # n => frames'[i] = frames[i]
       /\ frames'[n].at = at /\ frames'[n].queue = q /\ frames'[n].signo = Top.signo
  <2> HIDE DEF g
  <2> QED BY <1>3, <1>5, <1>8 DEF Top
<1> HIDE DEF g, n
<1>9. Handling' = {i \in 1 .. n : frames'[i].at \in {"first", "take", "drain"}}
  BY <1>6 DEF Handling
<1>10. Handling = {i \in 1 .. n : frames[i].at \in {"first", "take", "drain"}}
  BY <1>1 DEF Handling
<1>11. Handling' = IF at \in {"first", "take", "drain"} THEN Handling \cup {n} ELSE Handling \ {n}
  BY <1>7, <1>8, <1>9, <1>10
<1> QED BY <1>1, <1>5, <1>6, <1>11, <1>12 DEF n

\* A step that changes none of the variables of the invariant.
LEMMA Untouched ==
    ASSUME IInv, UNCHANGED <<globals, queue, mask, frames, pc, sections>>
    PROVE  IInv'
BY DEF IInv, SectionsInv, HandlersInv, CellsInv, Handling, OneHandlerAtATime, globals, queue

\* Every step of zend_signal_handler_defer keeps the invariant.
LEMMA InterruptPreserves == ASSUME IInv, Interrupt PROVE IInv'
<1> USE DEF IInv
<1>0. In("enter") \/ In("direct") \/ In("first") \/ In("take") \/ In("drain") \/ In("leave")
  BY DEF Interrupt, EnterInactive, Direct, EnterSection, EnterRunning, EnterHandle,
         First, Take, Drain, DrainDone, Leave
<1>1. frames # <<>> /\ frames \in Seq(FrameShape) /\ Len(frames) \in DOMAIN frames
  <2>1. frames # <<>> /\ frames \in Seq(FrameShape)
    BY <1>0 DEF In, HandlersInv
  <2> QED BY <2>1
<1>2. Top \in FrameShape
  BY <1>1 DEF Top
<1>3. ASSUME UNCHANGED <<depth, pc, sections>> PROVE SectionsInv'
  BY <1>3 DEF SectionsInv
<1>4. ASSUME UNCHANGED <<phead, ptail, pavail, next>> PROVE CellsInv'
  BY <1>4 DEF CellsInv
<1>5. ASSUME NEW at \in Places \ {"first", "take", "drain"}, NEW q \in Cell \cup {Null},
             Goto(at, q)
      PROVE  frames' \in Seq(FrameShape) /\ Handling' = Handling \ {Len(frames)}
  BY <1>1, <1>5, MoveFrame
<1>6. ASSUME NEW at \in {"first", "take", "drain"}, NEW q \in Cell \cup {Null}, Goto(at, q)
      PROVE  frames' \in Seq(FrameShape) /\ Handling' = Handling \cup {Len(frames)}
  BY <1>1, <1>6, MoveFrame DEF Places
<1>7. ASSUME Return
      PROVE  /\ frames' \in Seq(FrameShape) /\ Handling' = Handling \ {Len(frames)}
             /\ mask' \subseteq Sig
  BY <1>1, <1>2, <1>7, PopFrame DEF Return, FrameShape
<1>8. CASE EnterInactive
  BY <1>3, <1>4, <1>5, <1>8 DEF EnterInactive, HandlersInv, OneHandlerAtATime, Places,
     globals, queue, process, program
<1>9. CASE Direct
  <2>1. mask' \subseteq Sig
    BY <1>9 DEF Direct, SignalHandler, Sigaction, HandlersInv
  <2> QED BY <1>3, <1>4, <1>5, <1>9, <2>1 DEF Direct, HandlersInv, OneHandlerAtATime, Places,
             globals, queue, program
<1>10. CASE EnterSection
  <2>1. signo' \in [Cell -> Sig \cup {NoSignal}]
    BY <1>2, <1>10 DEF EnterSection, Link, queue, HandlersInv, FrameShape
  <2>2. CellsInv'
    <3>1. CASE pavail = Null
      BY <1>4, <1>10, <3>1 DEF EnterSection, queue
    <3>2. CASE pavail # Null
      BY <1>10, <3>2 DEF EnterSection, Link, CellsInv
    <3> QED BY <3>1, <3>2
  <2> QED BY <1>3, <1>7, <1>10, <2>1, <2>2 DEF EnterSection, HandlersInv, OneHandlerAtATime, program
<1>11. CASE EnterRunning \/ Leave
  BY <1>3, <1>4, <1>7, <1>11 DEF EnterRunning, Leave, HandlersInv, OneHandlerAtATime,
     globals, queue, program
<1>12. CASE EnterHandle
  <2>1. Handling = {}
    BY <1>12 DEF EnterHandle, HandlersInv
  <2>2. Handling' = {Len(frames)} /\ frames' \in Seq(FrameShape)
    BY <1>6, <1>12, <2>1 DEF EnterHandle
  <2> QED BY <1>3, <1>4, <1>12, <2>2 DEF EnterHandle, HandlersInv, OneHandlerAtATime,
             queue, process, program
<1>13. ASSUME In("first") \/ In("take") \/ In("drain")
       PROVE  Handling = {Len(frames)}
  BY <1>1, <1>13 DEF In, Top, Handling, HandlersInv, OneHandlerAtATime
<1>14. Top.queue \in Cell \cup {Null}
  BY <1>2 DEF FrameShape
<1>15. CASE First
  <2>1. mask' \subseteq Sig
    BY <1>15 DEF First, SignalHandler, Sigaction, HandlersInv
  <2>2. Handling' = Handling /\ frames' \in Seq(FrameShape)
    BY <1>6, <1>13, <1>15 DEF First
  <2> QED BY <1>3, <1>4, <1>15, <2>1, <2>2 DEF First, HandlersInv, OneHandlerAtATime,
             globals, queue, program
<1>16. CASE Take
  <2>1. Handling' = Handling /\ frames' \in Seq(FrameShape)
    BY <1>6, <1>13, <1>16 DEF Take, CellsInv
  <2>2. CellsInv'
    BY <1>16 DEF Take, CellsInv
  <2> QED BY <1>3, <1>16, <2>1, <2>2 DEF Take, HandlersInv, OneHandlerAtATime,
             globals, process, program
<1>17. CASE Drain
  <2>1. mask' \subseteq Sig
    BY <1>17 DEF Drain, SignalHandler, Sigaction, HandlersInv
  <2>2. Top.queue \in Cell /\ next[Top.queue] \in Cell \cup {Null}
    BY <1>14, <1>17 DEF Drain, CellsInv
  <2>3. Handling' = Handling /\ frames' \in Seq(FrameShape)
    BY <1>6, <1>13, <1>17, <2>2 DEF Drain
  <2>4. signo' \in [Cell -> Sig \cup {NoSignal}]
    BY <1>17 DEF Drain, HandlersInv
  <2>5. CellsInv'
    BY <1>17, <2>2 DEF Drain, CellsInv
  <2> QED BY <1>3, <1>17, <2>1, <2>3, <2>4, <2>5 DEF Drain, HandlersInv, OneHandlerAtATime,
             globals, program
<1>18. CASE DrainDone
  <2>1. Handling' = {} /\ frames' \in Seq(FrameShape)
    BY <1>5, <1>13, <1>18 DEF DrainDone, Places
  <2> QED BY <1>3, <1>4, <1>18, <2>1 DEF DrainDone, HandlersInv, OneHandlerAtATime,
             queue, process, program
<1> QED BY <1>8, <1>9, <1>10, <1>11, <1>12, <1>15, <1>16, <1>17, <1>18 DEF Interrupt

\* While no handler has been interrupted, HandlersInv asks for types only.
LEMMA NoFrames ==
    ASSUME HandlersInv, frames = <<>>, frames' = <<>>,
           mask' \in SUBSET Sig, signo' \in [Cell -> Sig \cup {NoSignal}]
    PROVE  HandlersInv'
<1>1. Handling' = {}
  BY DEF Handling
<1> QED BY <1>1 DEF HandlersInv, OneHandlerAtATime

\* A program step that leaves the handlers and the cells alone.
LEMMA ProgramStep ==
    ASSUME IInv, frames = <<>>, SectionsInv',
           UNCHANGED <<queue, mask, frames>>
    PROVE  IInv'
<1>1. HandlersInv'
  BY NoFrames DEF IInv, HandlersInv, queue
<1>2. CellsInv'
  BY DEF IInv, CellsInv, queue
<1> QED BY <1>1, <1>2 DEF IInv

\* Critical sections are opened, closed and left by a fatal error.
LEMMA SectionsPreserve ==
    ASSUME IInv, Block \/ StoreDepth \/ LoadBlocked \/ ThenLoadBlocked \/ ThenStoreDepth \/ Bailout
    PROVE  IInv'
<1> USE DEF IInv
<1>1. CASE Block
  <2>1. SectionsInv'
    BY <1>1 DEF Block, At, SectionsInv, Labels
  <2> QED BY <1>1, <2>1, ProgramStep DEF Block, At, process
<1>2. CASE StoreDepth
  <2>1. SectionsInv'
    BY <1>2 DEF StoreDepth, At, SectionsInv, Labels
  <2> QED BY <1>2, <2>1, ProgramStep DEF StoreDepth, At, process
<1>3. CASE LoadBlocked
  <2>1. SectionsInv'
    BY <1>3 DEF LoadBlocked, At, SectionsInv, Labels, globals
  <2> QED BY <1>3, <2>1, ProgramStep DEF LoadBlocked, At, process
<1>4. CASE ThenLoadBlocked
  <2>1. SectionsInv'
    BY <1>4 DEF ThenLoadBlocked, At, SectionsInv, Labels, globals
  <2> QED BY <1>4, <2>1, ProgramStep DEF ThenLoadBlocked, At, process
<1>5. CASE ThenStoreDepth
  <2>1. SectionsInv'
    BY <1>5 DEF ThenStoreDepth, At, SectionsInv, Labels
  <2> QED BY <1>5, <2>1, ProgramStep DEF ThenStoreDepth, At, process
<1>6. CASE Bailout
  <2>1. SectionsInv'
    BY <1>6 DEF Bailout, At, SectionsInv, Labels, globals
  <2> QED BY <1>6, <2>1, ProgramStep DEF Bailout, At, process
<1> QED BY <1>1, <1>2, <1>3, <1>4, <1>5, <1>6

\* The first queued signal gets a frame in which no handler runs yet.
LEMMA HandlerUnblockPreserves == ASSUME IInv, HandlerUnblock PROVE IInv'
<1> USE DEF IInv
<1>1. frames = <<>> /\ frames \in Seq(FrameShape)
  BY DEF HandlerUnblock, At, HandlersInv
<1>2. SectionsInv'
  BY DEF HandlerUnblock, At, SectionsInv, Labels, globals
<1>3. CASE active /\ phead # Null
  <2>1. phead \in Cell /\ next[phead] \in Cell \cup {Null}
    BY <1>3 DEF CellsInv
  <2>2. CellsInv'
    BY <1>3, <2>1 DEF HandlerUnblock, CellsInv
  <2>3. mask' \in SUBSET Sig /\ signo' \in [Cell -> Sig \cup {NoSignal}]
    BY <1>3 DEF HandlerUnblock, HandlersInv
  <2>4. Frame(signo[phead]) \in FrameShape /\ Frame(signo[phead]).at = "enter"
    BY <2>1 DEF Frame, FrameShape, HandlersInv, Places
  <2>5. frames' = Append(frames, Frame(signo[phead]))
    BY <1>1, <1>3 DEF HandlerUnblock
  <2>6. frames' \in Seq(FrameShape) /\ Handling' = Handling
    BY <1>1, <2>4, <2>5, PushFrame
  <2>7. Handling = {}
    BY <1>1 DEF Handling
  <2>8. HandlersInv'
    BY <2>3, <2>6, <2>7 DEF HandlersInv, OneHandlerAtATime
  <2> QED BY <1>2, <2>2, <2>8
<1>4. CASE ~(active /\ phead # Null)
  BY <1>1, <1>2, <1>4, ProgramStep DEF HandlerUnblock
<1> QED BY <1>3, <1>4

\* Dispositions change, requests begin and end.
LEMMA RequestPreserves ==
    ASSUME IInv,
           \/ Request
           \/ \E s \in Sig, act \in Installable : Install(s, act)
           \/ \E theft \in Stealable : Steal(theft[1], theft[2])
    PROVE  IInv'
<1> USE DEF IInv
<1>1. CASE RestoreHandlers
  <2>1. SectionsInv'
    BY <1>1 DEF RestoreHandlers, At, SectionsInv, Labels, globals
  <2> QED BY <1>1, <2>1, ProgramStep DEF RestoreHandlers, At, process
<1>2. CASE SetActive
  <2>1. SectionsInv'
    BY <1>2 DEF SetActive, At, SectionsInv, Labels
  <2> QED BY <1>2, <2>1, ProgramStep DEF SetActive, At, process
<1>3. CASE ResetDepth
  <2>1. SectionsInv'
    BY <1>3 DEF ResetDepth, At, SectionsInv, Labels
  <2> QED BY <1>3, <2>1, ProgramStep DEF ResetDepth, At, process
<1>4. CASE SetInactive
  <2>1. SectionsInv'
    BY <1>4 DEF SetInactive, At, SectionsInv, Labels
  <2> QED BY <1>4, <2>1, ProgramStep DEF SetInactive, At, process
<1>5. CASE Reset
  <2>1. SectionsInv'
    BY <1>5 DEF Reset, At, SectionsInv, Labels
  <2>2. CellsInv'
    BY <1>5 DEF Reset, CellsInv
  <2>3. HandlersInv'
    BY <1>5, NoFrames DEF Reset, At, process, HandlersInv
  <2> QED BY <2>1, <2>2, <2>3
<1>6. ASSUME NEW s \in Sig, Register(s) PROVE IInv'
  <2>1. SectionsInv'
    BY <1>6 DEF Register, At, SectionsInv, Labels, globals
  <2>2. HandlersInv' /\ CellsInv'
    <3>1. mask' \in SUBSET Sig
      BY <1>6 DEF Register, process, HandlersInv
    <3> QED BY <1>6, <3>1, NoFrames DEF Register, At, queue, HandlersInv, CellsInv
  <2> QED BY <2>1, <2>2
<1>7. ASSUME NEW s \in Sig, NEW act, Install(s, act) PROVE IInv'
  <2>1. SectionsInv' /\ CellsInv'
    BY <1>7 DEF Install, SectionsInv, CellsInv, globals, queue, program
  <2>2. mask' \in SUBSET Sig
    BY <1>7 DEF Install, Sigaction, HandlersInv
  <2> QED BY <1>7, <2>1, <2>2, NoFrames DEF Install, At, queue, HandlersInv
<1>8. ASSUME NEW s, NEW act, Steal(s, act) PROVE IInv'
  BY <1>8, Untouched DEF Steal, program
<1> QED BY <1>1, <1>2, <1>3, <1>4, <1>5, <1>6, <1>7, <1>8 DEF Request

\* A signal is raised and delivered.
LEMMA KernelPreserves ==
    ASSUME IInv, NEW s \in Sig, Raise(s) \/ Deliver(s) \/ DeliverElsewhere(s)
    PROVE  IInv'
<1> USE DEF IInv
<1>1. CASE Raise(s)
  BY <1>1, Untouched DEF Raise, program
<1>2. CASE DeliverElsewhere(s)
  BY <1>2, Untouched DEF DeliverElsewhere, program
<1>3. CASE Deliver(s)
  <2>1. Frame(s) \in FrameShape /\ Frame(s).at = "enter"
    BY DEF Frame, FrameShape, HandlersInv, Places
  <2>2. frames' \in Seq(FrameShape) /\ Handling' = Handling
    BY <1>3, <2>1, PushFrame DEF Deliver, HandlersInv
  <2>3. HandlersInv'
    BY <1>3, <2>2 DEF Deliver, HandlersInv, OneHandlerAtATime, globals, queue
  <2>4. SectionsInv' /\ CellsInv'
    BY <1>3 DEF Deliver, SectionsInv, CellsInv, globals, queue, program
  <2> QED BY <2>3, <2>4
<1> QED BY <1>1, <1>2, <1>3

-----------------------------------------------------------------------------
\* The invariant of the deferring handler and of the critical sections holds
\* at every point at which a signal can come in: running is held by the one
\* handler that was let in at depth zero.
THEOREM Inductive == Spec => []IInv
<1>1. IInv /\ [Next]_vars => IInv'
  <2> SUFFICES ASSUME IInv, [Next]_vars PROVE IInv'
    OBVIOUS
  <2>1. CASE Interrupt
    BY <2>1, InterruptPreserves
  <2>2. CASE Macro
    BY <2>2, SectionsPreserve, HandlerUnblockPreserves DEF Macro
  <2>3. CASE Request
    BY <2>3, RequestPreserves
  <2>4. CASE Over \/ UNCHANGED vars
    BY <2>4, Untouched DEF Over, vars, globals, queue
  <2>5. CASE Block \/ StoreDepth \/ LoadBlocked \/ Bailout
    BY <2>5, SectionsPreserve
  <2>6. ASSUME NEW s \in Sig,
               \/ Raise(s) \/ Deliver(s) \/ DeliverElsewhere(s)
               \/ \E act \in Installable : Install(s, act)
        PROVE  IInv'
    BY <2>6, KernelPreserves, RequestPreserves
  <2>7. CASE \E theft \in Stealable : Steal(theft[1], theft[2])
    BY <2>7, RequestPreserves
  <2> QED BY <2>1, <2>2, <2>3, <2>4, <2>5, <2>6, <2>7 DEF Next
<1> QED BY InitEstablishes, <1>1, PTL DEF Spec

\* Two handlers never run at a time, however deep signals nest and although
\* zend_timeout_handler unmasks its own signal while it runs; and none runs
\* inside of a critical section of a request, whichever order the build gives
\* the two halves of `depth-- == blocked'.
THEOREM HandlersExclusive == Spec => []Exclusive
<1>1. IInv => OneHandlerAtATime
  BY DEF IInv, HandlersInv
<1>2. IInv => SectionsUninterrupted
  BY DEF IInv, SectionsInv, HandlersInv, SectionsUninterrupted
<1>3. IInv => Exclusive BY <1>1, <1>2 DEF Exclusive
<1> QED BY <1>3, Inductive, PTL

-----------------------------------------------------------------------------
(* Lists of cells.                                                         *)

CellsOf(s) == {s[i] : i \in DOMAIN s}
Distinct(s) == \A i, j \in DOMAIN s : s[i] = s[j] => i = j

\* NULL is the address of no cell.
LEMMA NullIsNoCell == Null \notin Cell
BY SignalAssumption DEF Null, Cell

\* What a sequence of cells looks like.
LEMMA ListShape ==
    ASSUME NEW s \in Seq(Cell)
    PROVE  /\ Len(s) \in Nat /\ DOMAIN s = 1 .. Len(s)
           /\ \A i \in 1 .. Len(s) : s[i] \in Cell
           /\ s = <<>> <=> Len(s) = 0
           /\ CellsOf(s) \subseteq Cell
<1>1. Len(s) \in Nat /\ DOMAIN s = 1 .. Len(s) /\ \A i \in 1 .. Len(s) : s[i] \in Cell
  BY LenProperties, ElementOfSeq
<1>2. s = <<>> <=> Len(s) = 0
  BY EmptySeq
<1> QED BY <1>1, <1>2 DEF CellsOf

\* Two lists that start with the same cell agree as far as both go ...
LEMMA LinkedAgree ==
    ASSUME NEW nx, NEW p, NEW s \in Seq(Cell), NEW u \in Seq(Cell),
           Linked(nx, p, s), Linked(nx, p, u),
           NEW k \in DOMAIN s, k \in DOMAIN u
    PROVE  s[k] = u[k]
<1> DEFINE D == {i \in Nat : i \in 1 .. Len(s) /\ i \in 1 .. Len(u) /\ s[i] # u[i]}
<1>1. /\ Len(s) \in Nat /\ DOMAIN s = 1 .. Len(s) /\ (s = <<>> <=> Len(s) = 0)
      /\ Len(u) \in Nat /\ DOMAIN u = 1 .. Len(u) /\ (u = <<>> <=> Len(u) = 0)
  BY ListShape
<1>2. SUFFICES ASSUME D # {} PROVE FALSE
  BY <1>1
<1>3. PICK m \in D : \A d \in D : m <= d
  <2> D \in SUBSET Nat
    OBVIOUS
  <2> HIDE DEF D
  <2> QED BY <1>2, NatMin
<1>4. m \in 1 .. Len(s) /\ m \in 1 .. Len(u) /\ s[m] # u[m]
  OBVIOUS
<1>5. m # 1
  BY <1>1, <1>4 DEF Linked
<1>6. m - 1 \in 1 .. Len(s) /\ m - 1 \in 1 .. Len(u) /\ m - 1 \in Nat /\ m - 1 < m /\ (m - 1) + 1 = m
      /\ m - 1 < Len(s) /\ m - 1 < Len(u)
  BY <1>1, <1>4, <1>5
<1>7. s[m - 1] = u[m - 1]
  <2>1. ~(m <= m - 1)
    BY <1>6
  <2> QED BY <1>3, <1>6, <2>1
<1>8. nx[s[m - 1]] = s[m] /\ nx[u[m - 1]] = u[m]
  <2> HIDE DEF D
  <2> QED BY <1>1, <1>6 DEF Linked
<1> QED BY <1>4, <1>7, <1>8

\* ... and neither is longer ...
LEMMA LinkedNoLonger ==
    ASSUME NEW nx, NEW p, NEW s \in Seq(Cell), NEW u \in Seq(Cell),
           Linked(nx, p, s), Linked(nx, p, u)
    PROVE  Len(s) <= Len(u)
<1> DEFINE n == Len(u)
<1>1. /\ Len(s) \in Nat /\ DOMAIN s = 1 .. Len(s) /\ (s = <<>> <=> Len(s) = 0)
      /\ n \in Nat /\ DOMAIN u = 1 .. n /\ (u = <<>> <=> n = 0)
      /\ \A i \in 1 .. Len(s) : s[i] \in Cell
  BY ListShape
<1>2. SUFFICES ASSUME n < Len(s) PROVE FALSE
  BY <1>1
<1> HIDE DEF n
<1>3. CASE n = 0
  <2>1. p = Null /\ p = s[1] /\ 1 \in 1 .. Len(s)
    BY <1>1, <1>2, <1>3 DEF Linked
  <2> QED BY <1>1, <2>1, NullIsNoCell
<1>4. CASE n # 0
  <2>1. n \in 1 .. n /\ n \in 1 .. Len(s) /\ n + 1 \in 1 .. Len(s)
    BY <1>1, <1>2, <1>4
  <2>2. s[n] = u[n]
    BY <1>1, <2>1, LinkedAgree
  <2>3. nx[u[n]] = Null
    <3>1. ~(n < Len(u))
      BY <1>1 DEF n
    <3> QED BY <1>1, <2>1, <3>1 DEF Linked
  <2>4. nx[s[n]] = s[n + 1]
    BY <1>1, <1>2, <2>1 DEF Linked
  <2> QED BY <1>1, <2>1, <2>2, <2>3, <2>4, NullIsNoCell
<1> QED BY <1>3, <1>4

\* ... so that there is one.
LEMMA LinkedUnique ==
    ASSUME NEW nx, NEW p, NEW s \in Seq(Cell), NEW u \in Seq(Cell),
           Linked(nx, p, s), Linked(nx, p, u)
    PROVE  s = u
<1>1. Len(s) \in Nat /\ Len(u) \in Nat /\ DOMAIN s = 1 .. Len(s) /\ DOMAIN u = 1 .. Len(u)
  BY ListShape
<1>2. Len(s) = Len(u)
  <2>1. Len(s) <= Len(u)
    BY LinkedNoLonger
  <2>2. Len(u) <= Len(s)
    BY LinkedNoLonger
  <2> DEFINE n == Len(s)
             m == Len(u)
  <2>3. n \in Nat /\ m \in Nat /\ n <= m /\ m <= n
    BY <1>1, <2>1, <2>2
  <2> HIDE DEF n, m
  <2>4. n = m
    BY <2>3
  <2> QED BY <2>4 DEF n, m
<1>3. \A i \in 1 .. Len(s) : s[i] = u[i]
  BY <1>1, <1>2, LinkedAgree
<1> QED BY <1>2, <1>3, SeqEqual

\* The cells of a list are its chain.
LEMMA ChainIsList ==
    ASSUME NEW p, NEW s \in Seq(Cell), Linked(next, p, s)
    PROVE  Chain(p) = CellsOf(s)
<1>1. /\ Len(s) \in Nat /\ DOMAIN s = 1 .. Len(s) /\ (s = <<>> <=> Len(s) = 0)
      /\ \A i \in 1 .. Len(s) : s[i] \in Cell
      /\ CellsOf(s) \subseteq Cell
  BY ListShape
<1>2. p \in CellsOf(s) \cup {Null}
  BY <1>1 DEF Linked, CellsOf
<1>3. ASSUME NEW b \in CellsOf(s) PROVE next[b] \in CellsOf(s) \cup {Null}
  <2>1. PICK i \in 1 .. Len(s) : b = s[i]
    BY <1>1 DEF CellsOf
  <2>2. CASE i < Len(s)
    <3>1. next[b] = s[i + 1] /\ i + 1 \in 1 .. Len(s)
      BY <1>1, <2>1, <2>2 DEF Linked
    <3> QED BY <1>1, <3>1 DEF CellsOf
  <2>3. CASE ~(i < Len(s))
    BY <1>1, <2>1, <2>3 DEF Linked
  <2> QED BY <2>2, <2>3
<1>4. Chain(p) \subseteq CellsOf(s)
  BY <1>1, <1>2, <1>3 DEF Chain
<1>5. ASSUME NEW T \in SUBSET Cell, p \in T \cup {Null},
             \A b \in T : next[b] \in T \cup {Null}
      PROVE  CellsOf(s) \subseteq T
  <2> DEFINE D == {i \in Nat : i \in 1 .. Len(s) /\ s[i] \notin T}
  <2>1. SUFFICES ASSUME D # {} PROVE FALSE
    BY <1>1 DEF CellsOf
  <2>2. PICK m \in D : \A d \in D : m <= d
    <3> D \in SUBSET Nat
      OBVIOUS
    <3> HIDE DEF D
    <3> QED BY <2>1, NatMin
  <2>3. m \in 1 .. Len(s) /\ s[m] \notin T
    OBVIOUS
  <2>4. m # 1
    BY <1>1, <1>5, <2>3, NullIsNoCell DEF Linked
  <2>5. m - 1 \in 1 .. Len(s) /\ m - 1 \in Nat /\ m - 1 < m /\ (m - 1) + 1 = m /\ m - 1 < Len(s)
    BY <1>1, <2>3, <2>4
  <2>6. s[m - 1] \in T
    <3>1. ~(m <= m - 1)
      BY <2>5
    <3> QED BY <2>2, <2>5, <3>1
  <2>7. next[s[m - 1]] = s[m]
    <3> HIDE DEF D
    <3> QED BY <1>1, <2>5 DEF Linked
  <2> QED BY <1>1, <1>5, <2>3, <2>6, <2>7, NullIsNoCell
<1>6. CellsOf(s) \subseteq Chain(p)
  BY <1>1, <1>5 DEF Chain
<1> QED BY <1>4, <1>6

\* Links elsewhere do not matter.
LEMMA LinkedElsewhere ==
    ASSUME NEW nx, NEW ny, NEW p, NEW s \in Seq(Cell), Linked(nx, p, s),
           \A c \in CellsOf(s) : ny[c] = nx[c]
    PROVE  Linked(ny, p, s)
BY DEF Linked, CellsOf

\* A list without its first cell.
LEMMA LinkedTail ==
    ASSUME NEW nx, NEW p, NEW s \in Seq(Cell), Linked(nx, p, s), s # <<>>, Distinct(s)
    PROVE  /\ p \in Cell /\ p = s[1]
           /\ Tail(s) \in Seq(Cell) /\ Distinct(Tail(s))
           /\ Linked(nx, nx[p], Tail(s))
           /\ CellsOf(Tail(s)) = CellsOf(s) \ {p} /\ p \in CellsOf(s)
           /\ Tail(s) # <<>> => Tail(s)[Len(Tail(s))] = s[Len(s)]
<1> DEFINE t == Tail(s)
           n == Len(s)
<1>1. /\ n \in Nat /\ DOMAIN s = 1 .. n /\ n # 0
      /\ \A i \in 1 .. n : s[i] \in Cell
  BY ListShape
<1>2. t \in Seq(Cell) /\ Len(t) = n - 1 /\ \A i \in 1 .. n - 1 : t[i] = s[i + 1]
  BY HeadTailProperties
<1>3. DOMAIN t = 1 .. n - 1 /\ (t = <<>> <=> n = 1)
  <2>1. Len(t) \in Nat /\ DOMAIN t = 1 .. Len(t) /\ (t = <<>> <=> Len(t) = 0)
    BY <1>2, ListShape
  <2> QED BY <1>1, <1>2, <2>1
<1>4. p = s[1] /\ p \in Cell /\ 1 \in 1 .. n
  BY <1>1 DEF Linked
<1>5. \A i \in 1 .. n : nx[s[i]] = IF i < n THEN s[i + 1] ELSE Null
  BY <1>1 DEF Linked
<1>6. Distinct(t)
  <2>1. ASSUME NEW i \in 1 .. n - 1, NEW j \in 1 .. n - 1, t[i] = t[j] PROVE i = j
    <3>1. i + 1 \in 1 .. n /\ j + 1 \in 1 .. n /\ s[i + 1] = s[j + 1]
      BY <1>1, <1>2, <2>1
    <3>2. i + 1 = j + 1
      BY <1>1, <3>1 DEF Distinct
    <3> QED BY <3>2
  <2> HIDE DEF t, n
  <2> QED BY <1>3, <2>1 DEF Distinct
<1>7. Linked(nx, nx[p], t)
  <2>1. nx[p] = IF t = <<>> THEN Null ELSE t[1]
    <3>1. CASE n = 1
      <4> HIDE DEF t, n
      <4> QED BY <1>3, <1>4, <1>5, <3>1
    <3>2. CASE n # 1
      <4>1. 1 < n /\ 1 \in 1 .. n - 1 /\ 1 + 1 = 2
        BY <1>1, <3>2
      <4> HIDE DEF t, n
      <4> QED BY <1>2, <1>3, <1>4, <1>5, <3>2, <4>1
    <3> QED BY <3>1, <3>2
  <2>2. ASSUME NEW i \in 1 .. n - 1
        PROVE  nx[t[i]] = IF i < Len(t) THEN t[i + 1] ELSE Null
    <3>1. i + 1 \in 1 .. n /\ (i < n - 1 <=> i + 1 < n) /\ (i < n - 1 => i + 1 \in 1 .. n - 1)
      BY <1>1
    <3> HIDE DEF t, n
    <3> QED BY <1>2, <1>5, <3>1
  <2> HIDE DEF t, n
  <2> QED BY <1>3, <2>1, <2>2 DEF Linked
<1>8. CellsOf(t) = CellsOf(s) \ {p}
  <2>1. ASSUME NEW i \in 1 .. n - 1 PROVE t[i] \in CellsOf(s) \ {p}
    <3>1. i + 1 \in 1 .. n /\ i + 1 # 1
      BY <1>1
    <3>2. t[i] = s[i + 1]
      BY <1>2
    <3> HIDE DEF t, n
    <3> QED BY <1>1, <1>4, <3>1, <3>2 DEF CellsOf, Distinct
  <2>2. ASSUME NEW i \in 1 .. n, s[i] # p PROVE s[i] \in CellsOf(t)
    <3>1. i # 1
      BY <1>4, <2>2
    <3>2. i - 1 \in 1 .. n - 1 /\ (i - 1) + 1 = i
      BY <1>1, <3>1
    <3>3. t[i - 1] = s[i]
      BY <1>2, <3>2
    <3> HIDE DEF t, n
    <3> QED BY <1>3, <3>2, <3>3 DEF CellsOf
  <2> HIDE DEF t, n
  <2> QED BY <1>1, <1>3, <2>1, <2>2 DEF CellsOf
<1>9. t # <<>> => t[Len(t)] = s[n]
  <2> SUFFICES ASSUME t # <<>> PROVE t[Len(t)] = s[n]
    OBVIOUS
  <2>1. n - 1 \in 1 .. n - 1 /\ (n - 1) + 1 = n
    BY <1>1, <1>3
  <2> HIDE DEF t, n
  <2> QED BY <1>2, <2>1
<1>10. p \in CellsOf(s)
  BY <1>1, <1>4 DEF CellsOf
<1> HIDE DEF t, n
<1> QED BY <1>2, <1>4, <1>6, <1>7, <1>8, <1>9, <1>10 DEF t, n

\* One list behind another.
LEMMA LinkedConcat ==
    ASSUME NEW ny, NEW q, NEW s \in Seq(Cell), NEW u \in Seq(Cell), s # <<>>,
           \A i \in 1 .. Len(s) : ny[s[i]] = IF i < Len(s) THEN s[i + 1] ELSE q,
           Linked(ny, q, u)
    PROVE  s \o u \in Seq(Cell) /\ s \o u # <<>> /\ Linked(ny, s[1], s \o u)
<1> DEFINE v == s \o u
           n == Len(s)
           m == Len(u)
<1>1. /\ n \in Nat /\ DOMAIN s = 1 .. n /\ n # 0 /\ (\A i \in 1 .. n : s[i] \in Cell)
      /\ m \in Nat /\ DOMAIN u = 1 .. m /\ (u = <<>> <=> m = 0)
  BY ListShape
<1>2. /\ v \in Seq(Cell) /\ Len(v) = n + m
      /\ \A i \in 1 .. n + m : v[i] = IF i <= n THEN s[i] ELSE u[i - n]
  BY ConcatProperties
<1>3. DOMAIN v = 1 .. n + m /\ v # <<>>
  <2>1. Len(v) \in Nat /\ DOMAIN v = 1 .. Len(v) /\ (v = <<>> <=> Len(v) = 0)
    BY <1>2, ListShape
  <2>2. n + m # 0
    BY <1>1
  <2> HIDE DEF v, n, m
  <2> QED BY <1>2, <2>1, <2>2
<1>4. v[1] = s[1]
  <2>1. 1 \in 1 .. n + m /\ 1 <= n
    BY <1>1
  <2> HIDE DEF v, n, m
  <2> QED BY <1>2, <2>1
<1>5. ASSUME NEW i \in 1 .. n + m
      PROVE  ny[v[i]] = IF i < n + m THEN v[i + 1] ELSE Null
  <2>1. CASE i < n
    <3>1. i \in 1 .. n /\ i + 1 <= n /\ i <= n /\ i + 1 \in 1 .. n + m /\ i < n + m
      BY <1>1, <2>1
    <3>2. ny[s[i]] = s[i + 1]
      BY <2>1, <3>1
    <3> HIDE DEF v, n, m
    <3> QED BY <1>2, <3>1, <3>2
  <2>2. CASE i = n
    <3>1. i \in 1 .. n /\ ~(i < n) /\ i <= n /\ ~(i + 1 <= n) /\ (i + 1) - n = 1
          /\ (i < n + m <=> m # 0) /\ (m # 0 => i + 1 \in 1 .. n + m)
      BY <1>1, <2>2
    <3>2. ny[s[i]] = q
      BY <3>1
    <3>3. q = IF m = 0 THEN Null ELSE u[1]
      BY <1>1 DEF Linked
    <3> HIDE DEF v, n, m
    <3> QED BY <1>2, <3>1, <3>2, <3>3
  <2>3. CASE i > n
    <3>1. i - n \in 1 .. m /\ ~(i <= n) /\ ~(i + 1 <= n) /\ (i + 1) - n = (i - n) + 1
          /\ (i < n + m <=> i - n < m) /\ (i < n + m => i + 1 \in 1 .. n + m)
      BY <1>1, <2>3
    <3>2. ny[u[i - n]] = IF i - n < m THEN u[(i - n) + 1] ELSE Null
      BY <1>1, <3>1 DEF Linked
    <3> HIDE DEF v, n, m
    <3> QED BY <1>2, <3>1, <3>2
  <2> HIDE DEF v, n, m
  <2>4. i \in Int /\ n \in Int
    BY <1>1
  <2>5. i < n \/ i = n \/ i > n
    BY <2>4
  <2> QED BY <2>1, <2>2, <2>3, <2>5
<1> HIDE DEF v, n, m
<1>6. Linked(ny, s[1], v)
  BY <1>2, <1>3, <1>4, <1>5 DEF Linked
<1> QED BY <1>2, <1>3, <1>6 DEF v

\* The cells of both.
LEMMA ConcatCells ==
    ASSUME NEW s \in Seq(Cell), NEW u \in Seq(Cell)
    PROVE  /\ CellsOf(s \o u) = CellsOf(s) \cup CellsOf(u)
           /\ Distinct(s) /\ Distinct(u) /\ CellsOf(s) \cap CellsOf(u) = {} => Distinct(s \o u)
           /\ u # <<>> => (s \o u)[Len(s \o u)] = u[Len(u)]
<1> DEFINE v == s \o u
           n == Len(s)
           m == Len(u)
<1>1. /\ n \in Nat /\ DOMAIN s = 1 .. n
      /\ m \in Nat /\ DOMAIN u = 1 .. m /\ (u = <<>> <=> m = 0)
  BY ListShape
<1>2. /\ v \in Seq(Cell) /\ Len(v) = n + m
      /\ \A i \in 1 .. n + m : v[i] = IF i <= n THEN s[i] ELSE u[i - n]
  BY ConcatProperties
<1>3. DOMAIN v = 1 .. n + m
  <2>1. DOMAIN v = 1 .. Len(v)
    BY <1>2, ListShape
  <2> HIDE DEF v, n, m
  <2> QED BY <1>2, <2>1
<1>4. \A i \in 1 .. n : i \in 1 .. n + m /\ i <= n
  BY <1>1
<1>5. \A i \in 1 .. m : n + i \in 1 .. n + m /\ ~(n + i <= n) /\ (n + i) - n = i
  BY <1>1
<1>6. \A i \in 1 .. n + m : IF i <= n THEN i \in 1 .. n ELSE i - n \in 1 .. m /\ n + (i - n) = i
  BY <1>1
<1>7. \A i \in 1 .. n : v[i] = s[i]
  <2> HIDE DEF v, n, m
  <2> QED BY <1>2, <1>4
<1>8. \A i \in 1 .. m : v[n + i] = u[i]
  <2> HIDE DEF v, n, m
  <2> QED BY <1>2, <1>5
<1> HIDE DEF v, n, m
<1>9. CellsOf(v) = CellsOf(s) \cup CellsOf(u)
  <2>1. CellsOf(v) \subseteq CellsOf(s) \cup CellsOf(u)
    BY <1>1, <1>2, <1>3, <1>6 DEF CellsOf
  <2>2. CellsOf(s) \subseteq CellsOf(v)
    BY <1>1, <1>3, <1>4, <1>7 DEF CellsOf
  <2>3. CellsOf(u) \subseteq CellsOf(v)
    BY <1>1, <1>3, <1>5, <1>8 DEF CellsOf
  <2> QED BY <2>1, <2>2, <2>3
<1>10. ASSUME Distinct(s), Distinct(u), CellsOf(s) \cap CellsOf(u) = {} PROVE Distinct(v)
  <2> SUFFICES ASSUME NEW i \in 1 .. n + m, NEW j \in 1 .. n + m, v[i] = v[j] PROVE i = j
    BY <1>3 DEF Distinct
  <2>1. CASE i <= n /\ j <= n
    <3>1. s[i] = s[j] /\ i \in 1 .. n /\ j \in 1 .. n
      BY <1>2, <1>6, <2>1
    <3> QED BY <1>1, <1>10, <3>1 DEF Distinct
  <2>2. CASE ~(i <= n) /\ ~(j <= n)
    <3>1. u[i - n] = u[j - n] /\ i - n \in 1 .. m /\ j - n \in 1 .. m
      BY <1>2, <1>6, <2>2
    <3>2. i - n = j - n
      BY <1>1, <1>10, <3>1 DEF Distinct
    <3>3. i = n + (i - n) /\ j = n + (j - n)
      BY <1>6, <2>2
    <3> QED BY <3>2, <3>3
  <2>3. CASE i <= n /\ ~(j <= n)
    <3>1. s[i] = u[j - n] /\ i \in 1 .. n /\ j - n \in 1 .. m
      BY <1>2, <1>6, <2>3
    <3> QED BY <1>1, <1>10, <3>1 DEF CellsOf
  <2>4. CASE ~(i <= n) /\ j <= n
    <3>1. s[j] = u[i - n] /\ j \in 1 .. n /\ i - n \in 1 .. m
      BY <1>2, <1>6, <2>4
    <3> QED BY <1>1, <1>10, <3>1 DEF CellsOf
  <2> QED BY <2>1, <2>2, <2>3, <2>4
<1>11. ASSUME u # <<>> PROVE v[Len(v)] = u[Len(u)]
  <2>1. m \in 1 .. m
    BY <1>1, <1>11
  <2>2. v[n + m] = u[m]
    BY <1>8, <2>1
  <2> QED BY <1>2, <2>2 DEF m
<1> QED BY <1>9, <1>10, <1>11 DEF v

\* A list of one cell.
LEMMA OneCell ==
    ASSUME NEW c \in Cell
    PROVE  /\ <<c>> \in Seq(Cell) /\ <<c>> # <<>> /\ Distinct(<<c>>) /\ CellsOf(<<c>>) = {c}
           /\ Len(<<c>>) = 1 /\ <<c>>[1] = c
BY DEF Distinct, CellsOf

\* A list has at most as many cells as there are.
LEMMA DistinctLength ==
    ASSUME NEW s \in Seq(Cell), Distinct(s)
    PROVE  Len(s) <= QueueSize
<1>1. Len(s) \in Nat /\ DOMAIN s = 1 .. Len(s) /\ s \in [1 .. Len(s) -> Cell]
  BY LenProperties
<1>2. s \in Injection(1 .. Len(s), Cell)
  BY <1>1 DEF Distinct, Injection, IsInjective
<1>3. IsFiniteSet(Cell) /\ Cardinality(Cell) = QueueSize
  BY SignalAssumption, IntervalFrom1 DEF Cell
<1>4. Cardinality(1 .. Len(s)) <= Cardinality(Cell)
  BY <1>2, <1>3, FS_Injection
<1>5. Cardinality(1 .. Len(s)) = Len(s)
  BY <1>1, IntervalFrom1
<1> QED BY <1>3, <1>4, <1>5

\* The operator finds the list.
LEMMA ListOfIs ==
    ASSUME NEW nx, NEW p, NEW s \in Seq(Cell), Linked(nx, p, s), Distinct(s)
    PROVE  (CHOOSE v \in UNION {[1 .. n -> Cell] : n \in 0 .. QueueSize} : Linked(nx, p, v)) = s
<1> DEFINE U == UNION {[1 .. n -> Cell] : n \in 0 .. QueueSize}
<1>1. Len(s) \in 0 .. QueueSize /\ s \in [1 .. Len(s) -> Cell]
  <2>1. Len(s) \in Nat /\ s \in [1 .. Len(s) -> Cell] /\ Len(s) <= QueueSize
    BY LenProperties, DistinctLength
  <2> QED BY <2>1, SignalAssumption
<1>2. s \in U
  BY <1>1
<1>3. U \subseteq Seq(Cell)
  <2>1. 0 .. QueueSize \subseteq Nat
    BY SignalAssumption
  <2> QED BY <2>1, SeqDef
<1> HIDE DEF U
<1>4. PICK v \in U : v = (CHOOSE w \in U : Linked(nx, p, w)) /\ Linked(nx, p, v)
  BY <1>2
<1>5. v = s
  BY <1>3, <1>4, LinkedUnique
<1> QED BY <1>4, <1>5 DEF U

\* The signals in the cells of a list.
Marks == Sig \cup {NoSignal}

SignalsOf(sg, s) == [i \in DOMAIN s |-> sg[s[i]]]

\* What they look like, after an addition at the end, and at the front.
LEMMA SignalsShape ==
    ASSUME NEW sg \in [Cell -> Marks], NEW s \in Seq(Cell)
    PROVE  /\ SignalsOf(sg, s) \in Seq(Marks) /\ Len(SignalsOf(sg, s)) = Len(s)
           /\ DOMAIN SignalsOf(sg, s) = 1 .. Len(s)
           /\ SignalsOf(sg, s) = <<>> <=> s = <<>>
           /\ \A i \in 1 .. Len(s) : SignalsOf(sg, s)[i] = sg[s[i]]
<1>1. Len(s) \in Nat /\ DOMAIN s = 1 .. Len(s) /\ (s = <<>> <=> Len(s) = 0)
  BY ListShape
<1> DEFINE w == SignalsOf(sg, s)
<1>2. w \in [1 .. Len(s) -> Marks] /\ \A i \in 1 .. Len(s) : w[i] = sg[s[i]]
  BY <1>1 DEF SignalsOf
<1>3. w \in Seq(Marks)
  BY <1>1, <1>2, SeqDef
<1>4. Len(w) \in Nat /\ DOMAIN w = 1 .. Len(w)
  BY <1>3, LenProperties
<1> DEFINE n == Len(s)
<1> HIDE DEF w, n
<1>5. Len(w) = n
  <2>1. DOMAIN w = 1 .. n
    BY <1>2 DEF n
  <2>2. w \in Seq(Marks) /\ n \in Nat
    BY <1>1, <1>3 DEF n
  <2> QED BY <2>1, <2>2
<1>6. w = <<>> <=> n = 0
  BY <1>3, <1>5, EmptySeq
<1> QED BY <1>1, <1>2, <1>3, <1>4, <1>5, <1>6 DEF w, n

LEMMA SignalsAppend ==
    ASSUME NEW sg \in [Cell -> Marks], NEW th \in [Cell -> Marks],
           NEW s \in Seq(Cell), NEW c \in Cell, \A d \in CellsOf(s) : th[d] = sg[d]
    PROVE  SignalsOf(th, Append(s, c)) = Append(SignalsOf(sg, s), th[c])
<1> DEFINE v == Append(s, c)
           w == SignalsOf(sg, s)
           x == SignalsOf(th, v)
           n == Len(s)
<1>1. /\ v \in Seq(Cell) /\ Len(v) = n + 1 /\ v[n + 1] = c /\ \A i \in 1 .. n : v[i] = s[i]
  BY AppendProperties
<1>3. n \in Nat /\ DOMAIN s = 1 .. n
  BY ListShape
<1>2. w \in Seq(Marks) /\ Len(w) = n /\ \A i \in 1 .. n : w[i] = sg[s[i]]
  BY SignalsShape
<1>4. DOMAIN v = 1 .. n + 1
  <2>1. DOMAIN v = 1 .. Len(v)
    BY <1>1, ListShape
  <2> QED BY <1>1, <2>1
<1>6. x \in Seq(Marks) /\ Len(x) = n + 1 /\ \A i \in 1 .. n + 1 : x[i] = th[v[i]]
  <2> HIDE DEF v, n
  <2>1. x \in Seq(Marks) /\ Len(x) = Len(v) /\ \A i \in 1 .. Len(v) : x[i] = th[v[i]]
    BY <1>1, SignalsShape
  <2> HIDE DEF x
  <2> QED BY <1>1, <2>1
<1>7. LET y == Append(w, th[c])
      IN  y \in Seq(Marks) /\ Len(y) = n + 1 /\ y[n + 1] = th[c] /\ \A i \in 1 .. n : y[i] = w[i]
  <2> HIDE DEF w, n
  <2> QED BY <1>2, AppendProperties
<1>8. ASSUME NEW i \in 1 .. n + 1 PROVE x[i] = Append(w, th[c])[i]
  <2> HIDE DEF v, w, x, n
  <2>1. CASE i = n + 1
    BY <1>1, <1>6, <1>7, <2>1
  <2>2. CASE i # n + 1
    <3>1. i \in 1 .. n
      BY <1>3, <2>2
    <3> QED BY <1>1, <1>2, <1>3, <1>6, <1>7, <3>1 DEF CellsOf
  <2> QED BY <2>1, <2>2
<1> HIDE DEF v, w, x, n
<1>9. x = Append(w, th[c])
  BY <1>6, <1>7, <1>8, SeqEqual
<1> QED BY <1>9 DEF v, w, x

LEMMA SignalsTail ==
    ASSUME NEW sg \in [Cell -> Marks], NEW th \in [Cell -> Marks],
           NEW s \in Seq(Cell), s # <<>>, \A d \in CellsOf(Tail(s)) : th[d] = sg[d]
    PROVE  SignalsOf(th, Tail(s)) = Tail(SignalsOf(sg, s)) /\ SignalsOf(sg, s) # <<>>
<1> DEFINE v == Tail(s)
           w == SignalsOf(sg, s)
           x == SignalsOf(th, v)
           n == Len(s)
<1>1. v \in Seq(Cell) /\ Len(v) = n - 1 /\ \A i \in 1 .. n - 1 : v[i] = s[i + 1]
  BY HeadTailProperties
<1>3. n \in Nat /\ n # 0 /\ DOMAIN s = 1 .. n
  BY ListShape
<1>2. w \in Seq(Marks) /\ Len(w) = n /\ w # <<>> /\ \A i \in 1 .. n : w[i] = sg[s[i]]
  BY SignalsShape
<1>4. DOMAIN v = 1 .. n - 1
  <2>1. DOMAIN v = 1 .. Len(v)
    BY <1>1, ListShape
  <2> QED BY <1>1, <2>1
<1>5. \A i \in 1 .. n - 1 : i + 1 \in 1 .. n
  BY <1>3
<1> HIDE DEF v, n
<1>7. x \in Seq(Marks) /\ Len(x) = n - 1 /\ \A i \in 1 .. n - 1 : x[i] = th[v[i]]
  <2>1. x \in Seq(Marks) /\ Len(x) = Len(v) /\ \A i \in 1 .. Len(v) : x[i] = th[v[i]]
    BY <1>1, SignalsShape
  <2> HIDE DEF x
  <2> QED BY <1>1, <2>1
<1>8. LET y == Tail(w)
      IN  y \in Seq(Marks) /\ Len(y) = n - 1 /\ \A i \in 1 .. n - 1 : y[i] = w[i + 1]
  <2> HIDE DEF w
  <2> QED BY <1>2, HeadTailProperties
<1>9. ASSUME NEW i \in 1 .. n - 1 PROVE x[i] = Tail(w)[i]
  <2>1. v[i] \in CellsOf(v)
    BY <1>4 DEF CellsOf
  <2>2. th[v[i]] = sg[v[i]]
    BY <2>1 DEF v
  <2> HIDE DEF w, x
  <2> QED BY <1>1, <1>2, <1>5, <1>7, <1>8, <2>2
<1> HIDE DEF w, x
<1>10. x = Tail(w)
  BY <1>7, <1>8, <1>9, SeqEqual
<1> QED BY <1>2, <1>10 DEF v, w, x

\* Two lists without the first cell.
LEMMA TailConcat ==
    ASSUME NEW s \in Seq(Cell), NEW u \in Seq(Cell), s # <<>>
    PROVE  Tail(s \o u) = Tail(s) \o u
<1> DEFINE v == s \o u
           w == Tail(s)
           n == Len(s)
           m == Len(u)
<1>1. n \in Nat /\ n # 0 /\ m \in Nat
  BY ListShape
<1>2. /\ v \in Seq(Cell) /\ Len(v) = n + m
      /\ \A i \in 1 .. n + m : v[i] = IF i <= n THEN s[i] ELSE u[i - n]
      /\ v # <<>>
  BY ConcatProperties, ConcatEqualIffEmpty
<1>3. w \in Seq(Cell) /\ Len(w) = n - 1 /\ \A i \in 1 .. n - 1 : w[i] = s[i + 1]
  BY HeadTailProperties
<1>4. /\ Tail(v) \in Seq(Cell) /\ Len(Tail(v)) = n + m - 1
      /\ \A i \in 1 .. n + m - 1 : Tail(v)[i] = v[i + 1]
  <2> HIDE DEF v, n, m
  <2>1. /\ Tail(v) \in Seq(Cell) /\ Len(Tail(v)) = Len(v) - 1
        /\ \A i \in 1 .. Len(Tail(v)) : Tail(v)[i] = v[i + 1]
    BY <1>2, HeadTailProperties
  <2>2. Len(v) - 1 = n + m - 1
    <3>1. Len(v) = n + m
      BY <1>2
    <3> HIDE DEF v
    <3> QED BY <1>1, <3>1
  <2>3. \A i \in 1 .. n + m - 1 : Tail(v)[i] = v[i + 1]
    BY <2>1, <2>2
  <2> QED BY <2>1, <2>2, <2>3
<1> HIDE DEF v, w, n
<1>5. /\ w \o u \in Seq(Cell) /\ Len(w \o u) = n - 1 + m
      /\ \A i \in 1 .. n - 1 + m : (w \o u)[i] = IF i <= n - 1 THEN w[i] ELSE u[i - (n - 1)]
  <2>1. /\ w \o u \in Seq(Cell) /\ Len(w \o u) = Len(w) + Len(u)
        /\ \A i \in 1 .. Len(w) + Len(u) : (w \o u)[i] = IF i <= Len(w) THEN w[i] ELSE u[i - Len(w)]
    BY <1>3, ConcatProperties
  <2> QED BY <1>3, <2>1
<1> HIDE DEF m
<1>6. n - 1 + m = n + m - 1
  BY <1>1
<1>7. ASSUME NEW i \in 1 .. n + m - 1 PROVE Tail(v)[i] = (w \o u)[i]
  <2>1. /\ i + 1 \in 1 .. n + m /\ i \in 1 .. n - 1 + m
        /\ (i + 1 <= n <=> i <= n - 1) /\ i + 1 - n = i - (n - 1)
        /\ (i <= n - 1 => i \in 1 .. n - 1)
    BY <1>1
  <2>2. Tail(v)[i] = v[i + 1]
    BY <1>4
  <2>3. v[i + 1] = IF i + 1 <= n THEN s[i + 1] ELSE u[i + 1 - n]
    BY <1>1, <1>2, <2>1
  <2> QED BY <1>3, <1>5, <2>1, <2>2, <2>3
<1>8. Tail(v) = w \o u
  BY <1>4, <1>5, <1>6, <1>7, SeqEqual
<1> QED BY <1>8 DEF v, w

-----------------------------------------------------------------------------
(* The cells that the handler has taken, as frames come and go.            *)

\* Only the handler that empties the queue holds cells.
FramesInv ==
    \A i \in DOMAIN frames :
        /\ frames[i].signo \in Sig
        /\ frames[i].queue # Null => frames[i].at = "drain"

\* The cells taken are those of the handler's frame.
LEMMA TakenIs ==
    ASSUME OneHandlerAtATime, NEW i \in Handling
    PROVE  Taken = frames[i].queue
BY DEF OneHandlerAtATime, Taken

\* An interrupt, or a return from one, leaves them alone.
LEMMA PushTaken ==
    ASSUME frames \in Seq(FrameShape), FramesInv, OneHandlerAtATime,
           NEW f \in FrameShape, f.at = "enter", f.queue = Null, f.signo \in Sig,
           frames' = Append(frames, f)
    PROVE  FramesInv' /\ Taken' = Taken
<1>1. /\ Handling' = Handling
      /\ \A i \in DOMAIN frames : i \in DOMAIN frames' /\ frames'[i] = frames[i]
      /\ \A i \in DOMAIN frames' : i \in DOMAIN frames \/ i = Len(frames) + 1
      /\ frames'[Len(frames) + 1] = f
  BY PushFrame
<1>2. FramesInv'
  BY <1>1 DEF FramesInv
<1>3. Handling # {} => (CHOOSE i \in Handling : TRUE) \in DOMAIN frames
  BY DEF Handling
<1> QED BY <1>1, <1>2, <1>3 DEF Taken

LEMMA PopTaken ==
    ASSUME frames \in Seq(FrameShape), FramesInv, OneHandlerAtATime,
           frames # <<>>, Top.at \notin {"first", "take", "drain"},
           frames' = SubSeq(frames, 1, Len(frames) - 1)
    PROVE  FramesInv' /\ Taken' = Taken
<1>1. /\ Handling' = Handling \ {Len(frames)}
      /\ \A i \in DOMAIN frames' : i \in DOMAIN frames /\ frames'[i] = frames[i]
      /\ \A i \in DOMAIN frames : i # Len(frames) => i \in DOMAIN frames'
  BY PopFrame
<1>2. FramesInv'
  BY <1>1 DEF FramesInv
<1>3. Handling' = Handling
  BY <1>1 DEF Handling, Top
<1>4. Handling # {} => frames'[CHOOSE i \in Handling : TRUE] = frames[CHOOSE i \in Handling : TRUE]
  <2> SUFFICES ASSUME NEW k \in Handling PROVE frames'[k] = frames[k]
    OBVIOUS
  <2> QED BY <1>1, <1>3 DEF Handling
<1>5. Taken' = Taken
  <2> DEFINE k == CHOOSE i \in Handling : TRUE
  <2>1. (CHOOSE i \in Handling' : TRUE) = k
    BY <1>3
  <2>2. Handling # {} => frames'[k] = frames[k]
    BY <1>4
  <2> QED BY <1>3, <2>1, <2>2 DEF Taken
<1> QED BY <1>2, <1>5

\* The top frame goes on to another place, with the cells in q.
LEMMA MoveTaken ==
    ASSUME frames \in Seq(FrameShape), FramesInv, OneHandlerAtATime, frames # <<>>,
           NEW at \in Places, NEW q \in Cell \cup {Null}, Goto(at, q),
           q # Null => at = "drain",
           Handling \subseteq {Len(frames)} \/ at \notin {"first", "take", "drain"}
    PROVE  /\ FramesInv'
           /\ at \in {"first", "take", "drain"} => Taken' = q
           /\ at \notin {"first", "take", "drain"} =>
                  Taken' = IF Top.at \in {"first", "take", "drain"} THEN Null ELSE Taken
<1> DEFINE n == Len(frames)
           H == {"first", "take", "drain"}
<1>1. /\ Handling' = IF at \in H THEN Handling \cup {n} ELSE Handling \ {n}
      /\ DOMAIN frames' = DOMAIN frames
      /\ \A i \in DOMAIN frames : i # n => frames'[i] = frames[i]
      /\ frames'[n].at = at /\ frames'[n].queue = q /\ frames'[n].signo = Top.signo
  BY MoveFrame
<1>2. n \in DOMAIN frames
  OBVIOUS
<1> HIDE DEF n
<1>3. FramesInv'
  <2>1. Top.signo \in Sig
    BY <1>2 DEF FramesInv, Top, n
  <2> QED BY <1>1, <1>2, <2>1 DEF FramesInv
<1>4. ASSUME at \in H PROVE Taken' = q
  <2>1. Handling' = {n}
    BY <1>1, <1>4 DEF n
  <2>2. (CHOOSE i \in Handling' : TRUE) = n
    BY <2>1
  <2> QED BY <1>1, <2>1, <2>2 DEF Taken
<1>5. ASSUME at \notin H, Top.at \in H PROVE Taken' = Null
  <2>1. n \in Handling
    BY <1>2, <1>5 DEF Handling, Top, n
  <2>2. Handling' = {}
    BY <1>1, <1>5, <2>1 DEF OneHandlerAtATime
  <2> QED BY <2>2 DEF Taken
<1>6. ASSUME at \notin H, Top.at \notin H PROVE Taken' = Taken
  <2>1. Handling' = Handling /\ n \notin Handling
    BY <1>1, <1>6 DEF Handling, Top, n
  <2>2. \A i \in Handling : i \in DOMAIN frames /\ frames'[i] = frames[i]
    BY <1>1, <2>1 DEF Handling
  <2>3. Handling # {} => (CHOOSE i \in Handling : TRUE) \in Handling
    OBVIOUS
  <2> QED BY <2>1, <2>2, <2>3 DEF Taken
<1> QED BY <1>3, <1>4, <1>5, <1>6

-----------------------------------------------------------------------------
(* The three lists.                                                        *)

\* Every cell is in one of three lists, taken, pending and available, once.
Partition(t, p, a) ==
    /\ t \in Seq(Cell) /\ p \in Seq(Cell) /\ a \in Seq(Cell)
    /\ Distinct(t) /\ Distinct(p) /\ Distinct(a)
    /\ CellsOf(t) \cap CellsOf(p) = {}
    /\ CellsOf(t) \cap CellsOf(a) = {}
    /\ CellsOf(p) \cap CellsOf(a) = {}
    /\ CellsOf(t) \cup CellsOf(p) \cup CellsOf(a) = Cell

ListsAre(t, p, a) ==
    /\ Partition(t, p, a)
    /\ Linked(next, Taken, t) /\ Linked(next, phead, p) /\ Linked(next, pavail, a)
    /\ p # <<>> => ptail = p[Len(p)]
    /\ \A c \in CellsOf(t) \cup CellsOf(p) : signo[c] \in Sig
    /\ signo \in [Cell -> Marks]

\* What the abstract queue sees of them.
LEMMA WaitingIs ==
    ASSUME NEW t, NEW p, NEW a, ListsAre(t, p, a)
    PROVE  Waiting = SignalsOf(signo, t \o p)
<1>1. ListOf(Taken) = t /\ ListOf(phead) = p
  BY ListOfIs DEF ListOf, ListsAre, Partition
<1> QED BY <1>1 DEF Waiting, SignalsOf

\* And after a step.
LEMMA WaitingIsNext ==
    ASSUME NEW t, NEW p, NEW a, ListsAre(t, p, a)'
    PROVE  Waiting' = SignalsOf(signo', t \o p)
<1>1. ListOf(Taken)' = t /\ ListOf(phead)' = p
  BY ListOfIs DEF ListOf, ListsAre, Partition
<1> QED BY <1>1 DEF Waiting, SignalsOf

\* The lists are left alone.
LEMMA ListsStay ==
    ASSUME NEW t, NEW p, NEW a, ListsAre(t, p, a), UNCHANGED queue, Taken' = Taken
    PROVE  ListsAre(t, p, a)' /\ Waiting' = Waiting
<1>1. ListsAre(t, p, a)'
  BY DEF ListsAre, queue
<1>2. Waiting' = SignalsOf(signo', t \o p) /\ Waiting = SignalsOf(signo, t \o p)
  BY <1>1, WaitingIs, WaitingIsNext
<1> QED BY <1>1, <1>2 DEF queue

\* A list that starts nowhere is empty, and the other way round.
LEMMA EmptyList ==
    ASSUME NEW nx, NEW p, NEW s \in Seq(Cell), Linked(nx, p, s)
    PROVE  s = <<>> <=> p = Null
<1>1. s # <<>> => s[1] \in Cell
  BY ListShape
<1> QED BY <1>1, NullIsNoCell DEF Linked

\* The last place of a list.
LEMMA LastPlace ==
    ASSUME NEW n \in Nat, NEW i \in 1 .. n
    PROVE  i < n <=> i # n
OBVIOUS

\* A signal is put at the end of the queue.
LEMMA LinkStep ==
    ASSUME NEW t, NEW p, NEW a, ListsAre(t, p, a), CellsInv,
           Taken = Null, Taken' = Null, Top.signo \in Sig,
           NEW c, c = pavail, c # Null, Link(c)
    PROVE  /\ ListsAre(t, Append(p, c), Tail(a))'
           /\ Waiting' = Append(Waiting, Top.signo)
           /\ Len(Waiting) < QueueSize
<1> USE DEF ListsAre
<1> DEFINE v == Append(p, c)
<1>1. t \in Seq(Cell) /\ p \in Seq(Cell) /\ a \in Seq(Cell) /\ Distinct(p) /\ Distinct(a)
  BY DEF Partition
<1>2. t = <<>> /\ a # <<>> /\ (p = <<>> <=> phead = Null)
  BY <1>1, EmptyList
<1>3. /\ c \in Cell /\ c = a[1]
      /\ Tail(a) \in Seq(Cell) /\ Distinct(Tail(a))
      /\ Linked(next, next[c], Tail(a))
      /\ CellsOf(Tail(a)) = CellsOf(a) \ {c} /\ c \in CellsOf(a)
  BY <1>1, <1>2, LinkedTail
<1>4. /\ v \in Seq(Cell) /\ v # <<>> /\ v = p \o <<c>>
  BY <1>1, <1>3, AppendProperties, AppendIsConcat
<1>5. /\ <<c>> \in Seq(Cell) /\ <<c>> # <<>> /\ Distinct(<<c>>) /\ CellsOf(<<c>>) = {c}
      /\ Len(<<c>>) = 1 /\ <<c>>[1] = c
  BY <1>3, OneCell
<1>6. c \notin CellsOf(p)
  BY <1>3 DEF Partition
<1>7. CellsOf(v) = CellsOf(p) \cup {c} /\ Distinct(v) /\ v[Len(v)] = c
  <2>1. CellsOf(p) \cap CellsOf(<<c>>) = {}
    BY <1>5, <1>6
  <2>2. /\ CellsOf(p \o <<c>>) = CellsOf(p) \cup CellsOf(<<c>>)
        /\ Distinct(p \o <<c>>)
        /\ (p \o <<c>>)[Len(p \o <<c>>)] = <<c>>[Len(<<c>>)]
    BY <1>1, <1>5, <2>1, ConcatCells
  <2> HIDE DEF v
  <2> QED BY <1>4, <1>5, <2>2
<1>8. Partition(t, v, Tail(a))
  <2> HIDE DEF v
  <2> QED BY <1>1, <1>3, <1>4, <1>7 DEF Partition
<1>9. /\ \A d \in CellsOf(Tail(a)) : next'[d] = next[d]
      /\ Linked(next', phead', v)
  <2> HIDE DEF v
  <2>1. CASE p = <<>>
    <3>1. phead' = c /\ next' = [next EXCEPT ![c] = Null]
      BY <1>2, <2>1 DEF Link
    <3>2. v = <<c>>
      BY <1>1, <1>4, <1>5, <2>1, ConcatEmptySeq
    <3>3. next'[c] = Null
      BY <1>3, <3>1 DEF CellsInv
    <3>4. Linked(next', phead', <<c>>)
      BY <1>5, <3>1, <3>3 DEF Linked
    <3>5. \A d \in CellsOf(Tail(a)) : next'[d] = next[d]
      BY <1>3, <3>1 DEF CellsInv
    <3> QED BY <3>2, <3>4, <3>5
  <2>2. CASE p # <<>>
    <3>1. /\ Len(p) \in Nat /\ DOMAIN p = 1 .. Len(p) /\ Len(p) # 0
          /\ \A i \in 1 .. Len(p) : p[i] \in Cell
      BY <1>1, <2>2, ListShape
    <3>2. Len(p) \in 1 .. Len(p)
      BY <3>1
    <3>3. ptail = p[Len(p)] /\ ptail \in Cell /\ ptail # Null /\ ptail \in CellsOf(p)
      BY <2>2, <3>1, <3>2, NullIsNoCell DEF CellsOf
    <3>4. phead' = phead /\ next' = [next EXCEPT ![c] = Null, ![ptail] = c]
      BY <1>2, <2>2, <3>3 DEF Link
    <3>5. ptail # c
      BY <1>6, <3>3
    <3>6. next'[c] = Null /\ next'[ptail] = c
      BY <1>3, <3>3, <3>4, <3>5 DEF CellsInv
    <3>7. \A d \in Cell : d # c /\ d # ptail => next'[d] = next[d]
      BY <3>4 DEF CellsInv
    <3>8. \A d \in CellsOf(Tail(a)) : next'[d] = next[d]
      BY <1>3, <3>3, <3>7 DEF Partition
    <3>9. ASSUME NEW i \in 1 .. Len(p)
          PROVE  next'[p[i]] = IF i < Len(p) THEN p[i + 1] ELSE c
      <4>1. p[i] \in Cell /\ p[i] # c
        BY <1>6, <3>1 DEF CellsOf
      <4>2. CASE i < Len(p)
        <5>1. i # Len(p)
          BY <3>1, <4>2, LastPlace
        <5>2. p[i] # ptail
          BY <1>1, <3>1, <3>2, <3>3, <5>1 DEF Distinct
        <5>3. next[p[i]] = p[i + 1]
          BY <3>1, <4>2 DEF Linked
        <5> QED BY <3>7, <4>1, <4>2, <5>2, <5>3
      <4>3. CASE ~(i < Len(p))
        <5>1. i = Len(p)
          BY <3>1, <4>3, LastPlace
        <5> QED BY <3>3, <3>6, <4>3, <5>1
      <4> QED BY <4>2, <4>3
    <3>10. Linked(next', c, <<c>>)
      BY <1>5, <3>6 DEF Linked
    <3>11. Linked(next', p[1], p \o <<c>>)
      BY <1>1, <1>5, <2>2, <3>9, <3>10, LinkedConcat
    <3>12. phead' = p[1]
      BY <2>2, <3>4 DEF Linked
    <3> QED BY <1>4, <3>8, <3>11, <3>12
  <2> QED BY <2>1, <2>2
<1>10. Linked(next', pavail', Tail(a))
  <2>1. pavail' = next[c]
    BY DEF Link
  <2> QED BY <1>3, <1>9, <2>1, LinkedElsewhere
<1>11. Linked(next', Taken', t)
  BY <1>2 DEF Linked
<1>12. /\ signo' = [signo EXCEPT ![c] = Top.signo] /\ ptail' = c
       /\ signo' \in [Cell -> Marks] /\ signo'[c] = Top.signo
       /\ \A d \in CellsOf(p) : signo'[d] = signo[d]
  <2>1. signo' = [signo EXCEPT ![c] = Top.signo] /\ ptail' = c
    BY DEF Link
  <2>2. \A d \in CellsOf(p) : d \in Cell /\ d # c
    BY <1>1, <1>6, ListShape
  <2> QED BY <1>3, <2>1, <2>2 DEF Marks
<1>13. ListsAre(t, v, Tail(a))'
  <2>1. CellsOf(t) = {}
    BY <1>2 DEF CellsOf
  <2> HIDE DEF v
  <2> QED BY <1>7, <1>8, <1>9, <1>10, <1>11, <1>12, <2>1
<1>14. Waiting = SignalsOf(signo, p) /\ Waiting' = SignalsOf(signo', v)
  <2>1. t \o p = p /\ t \o v = v
    BY <1>1, <1>2, <1>4, ConcatEmptySeq
  <2> HIDE DEF v, ListsAre
  <2>2. Waiting = SignalsOf(signo, t \o p) /\ Waiting' = SignalsOf(signo', t \o v)
    BY <1>13, WaitingIs, WaitingIsNext
  <2> QED BY <2>1, <2>2
<1>15. Waiting' = Append(Waiting, Top.signo)
  <2>1. signo \in [Cell -> Marks] /\ \A d \in CellsOf(p) : signo'[d] = signo[d]
    BY <1>12
  <2>2. SignalsOf(signo', Append(p, c)) = Append(SignalsOf(signo, p), signo'[c])
    <3>1. p \in Seq(Cell) /\ c \in Cell /\ signo' \in [Cell -> Marks]
      BY <1>1, <1>3, <1>12
    <3> HIDE DEF ListsAre
    <3> QED BY <2>1, <3>1, SignalsAppend
  <2> QED BY <1>12, <1>14, <2>2
<1>16. Len(Waiting) < QueueSize
  <2>1. Len(Waiting) = Len(p) /\ Len(p) \in Nat
    BY <1>1, <1>14, SignalsShape, ListShape
  <2>2. Len(v) = Len(p) + 1
    BY <1>1, <1>3, AppendProperties
  <2>3. Len(v) <= QueueSize
    <3> HIDE DEF v
    <3> QED BY <1>4, <1>7, DistinctLength
  <2> HIDE DEF v
  <2> QED BY <2>1, <2>2, <2>3, SignalAssumption
<1> HIDE DEF ListsAre
<1> QED BY <1>13, <1>15, <1>16
\* A handler takes the queue.
LEMMA TakeStep ==
    ASSUME NEW t, NEW p, NEW a, ListsAre(t, p, a), Taken = Null, Taken' = phead, phead' = Null,
           UNCHANGED <<ptail, pavail, next, signo>>
    PROVE  ListsAre(p, <<>>, a)' /\ Waiting' = Waiting
<1>1. t \in Seq(Cell) /\ p \in Seq(Cell) /\ a \in Seq(Cell)
  BY DEF ListsAre, Partition
<1>2. t = <<>>
  BY <1>1, EmptyList DEF ListsAre
<1>3. <<>> \in Seq(Cell) /\ CellsOf(<<>>) = {} /\ Distinct(<<>>) /\ Linked(next, Null, <<>>)
  BY DEF CellsOf, Distinct, Linked
<1>4. Partition(p, <<>>, a)
  BY <1>1, <1>2, <1>3 DEF Partition, ListsAre
<1>5. ListsAre(p, <<>>, a)'
  BY <1>2, <1>3, <1>4 DEF ListsAre
<1>6. t \o p = p /\ p \o <<>> = p
  BY <1>1, <1>2, ConcatEmptySeq
<1>7. Waiting = SignalsOf(signo, t \o p) /\ Waiting' = SignalsOf(signo', p \o <<>>)
  BY <1>5, WaitingIs, WaitingIsNext
<1> QED BY <1>5, <1>6, <1>7

\* A cell is put before a list.
LEMMA FrontCell ==
    ASSUME NEW nx, NEW c \in Cell, NEW a \in Seq(Cell),
           Linked(nx, nx[c], a), Distinct(a), c \notin CellsOf(a)
    PROVE  /\ <<c>> \o a \in Seq(Cell) /\ Distinct(<<c>> \o a)
           /\ CellsOf(<<c>> \o a) = CellsOf(a) \cup {c}
           /\ Linked(nx, c, <<c>> \o a)
<1>1. /\ <<c>> \in Seq(Cell) /\ <<c>> # <<>> /\ Distinct(<<c>>) /\ CellsOf(<<c>>) = {c}
      /\ Len(<<c>>) = 1 /\ <<c>>[1] = c
  BY OneCell
<1>2. <<c>> \o a \in Seq(Cell) /\ Linked(nx, c, <<c>> \o a)
  <2>1. \A i \in 1 .. Len(<<c>>) : nx[<<c>>[i]] = IF i < Len(<<c>>) THEN <<c>>[i + 1] ELSE nx[c]
    BY <1>1
  <2>2. <<c>> \o a \in Seq(Cell) /\ Linked(nx, <<c>>[1], <<c>> \o a)
    BY <1>1, <2>1, LinkedConcat
  <2> QED BY <1>1, <2>2
<1>3. Distinct(<<c>> \o a) /\ CellsOf(<<c>> \o a) = CellsOf(a) \cup {c}
  <2>1. CellsOf(<<c>>) \cap CellsOf(a) = {}
    BY <1>1
  <2>2. /\ CellsOf(<<c>> \o a) = CellsOf(<<c>>) \cup CellsOf(a)
        /\ Distinct(<<c>> \o a)
    BY <1>1, <2>1, ConcatCells
  <2> QED BY <1>1, <2>2
<1> QED BY <1>2, <1>3

\* What the code does with a cell whose signal it is about to handle.
Freed(c) ==
    /\ next' = [next EXCEPT ![c] = pavail]
    /\ signo' = [signo EXCEPT ![c] = NoSignal]
    /\ pavail' = c
    /\ ptail' = ptail

\* The handler goes on to the next of the cells it has taken.
LEMMA DrainStep ==
    ASSUME NEW t, NEW p, NEW a, ListsAre(t, p, a), CellsInv, CellsInv',
           NEW c, c = Taken, c # Null, Taken' = next[c], Freed(c), phead' = phead
    PROVE  /\ ListsAre(Tail(t), p, <<c>> \o a)'
           /\ Waiting # <<>> /\ Waiting' = Tail(Waiting)
<1> USE DEF ListsAre, Freed
<1> DEFINE b == <<c>> \o a
           u == Tail(t)
<1>1. /\ t \in Seq(Cell) /\ p \in Seq(Cell) /\ a \in Seq(Cell) /\ Distinct(t) /\ Distinct(p) /\ Distinct(a)
      /\ CellsOf(t) \cap CellsOf(a) = {}
  BY DEF Partition
<1>2. /\ c \in Cell /\ t # <<>> /\ c \in CellsOf(t)
      /\ b \in Seq(Cell) /\ Distinct(b)
      /\ CellsOf(b) = CellsOf(a) \cup {c}
      /\ Linked(next', c, b)
      /\ u \in Seq(Cell) /\ Distinct(u) /\ Linked(next', next[c], u)
      /\ CellsOf(u) = CellsOf(t) \ {c}
      /\ \A d \in Cell : d # c => next'[d] = next[d]
  <2>1. Linked(next, c, t) /\ Linked(next, pavail, a)
    OBVIOUS
  <2>2. t # <<>>
    BY <1>1, <2>1, EmptyList
  <2>3. /\ c \in Cell /\ c \in CellsOf(t)
        /\ u \in Seq(Cell) /\ Distinct(u) /\ Linked(next, next[c], u)
        /\ CellsOf(u) = CellsOf(t) \ {c}
    BY <1>1, <2>1, <2>2, LinkedTail
  <2>4. next'[c] = pavail /\ \A d \in Cell : d # c => next'[d] = next[d]
    BY <2>3 DEF CellsInv
  <2> HIDE DEF ListsAre, u
  <2>5. c \notin CellsOf(a) /\ CellsOf(a) \subseteq Cell /\ CellsOf(u) \subseteq Cell
    BY <1>1, <2>3, ListShape
  <2>6. Linked(next', next'[c], a)
    <3>1. \A d \in CellsOf(a) : next'[d] = next[d]
      BY <2>4, <2>5
    <3> QED BY <1>1, <2>1, <2>4, <3>1, LinkedElsewhere
  <2>7. /\ b \in Seq(Cell) /\ Distinct(b)
        /\ CellsOf(b) = CellsOf(a) \cup {c}
        /\ Linked(next', c, b)
    BY <1>1, <2>3, <2>5, <2>6, FrontCell
  <2>8. Linked(next', next[c], u)
    <3>1. \A d \in CellsOf(u) : next'[d] = next[d]
      BY <2>3, <2>4, <2>5
    <3> QED BY <2>3, <3>1, LinkedElsewhere
  <2> HIDE DEF b
  <2> QED BY <2>2, <2>3, <2>4, <2>7, <2>8
<1> HIDE DEF b, u
<1>3. Partition(u, p, b)
  BY <1>1, <1>2 DEF Partition
<1>4. CellsOf(p) \subseteq Cell /\ c \notin CellsOf(p) /\ CellsOf(u) \subseteq Cell
  BY <1>1, <1>2, ListShape DEF Partition
<1>5. Linked(next', phead', p)
  <2>1. \A d \in CellsOf(p) : next'[d] = next[d]
    BY <1>2, <1>4
  <2> QED BY <1>1, <2>1, LinkedElsewhere
<1>6. signo' \in [Cell -> Marks] /\ \A d \in CellsOf(u) \cup CellsOf(p) : signo'[d] = signo[d]
  BY <1>2, <1>4 DEF Marks
<1>7. ListsAre(u, p, b)'
  BY <1>2, <1>3, <1>5, <1>6
<1> HIDE DEF ListsAre
<1>8. Waiting = SignalsOf(signo, t \o p) /\ Waiting' = SignalsOf(signo', u \o p)
  BY <1>7, WaitingIs, WaitingIsNext
<1>9. u \o p = Tail(t \o p) /\ t \o p \in Seq(Cell) /\ t \o p # <<>>
  <2>1. u \o p = Tail(t \o p)
    BY <1>1, <1>2, TailConcat DEF u
  <2>2. t \o p \in Seq(Cell)
    BY <1>1, ConcatProperties
  <2>3. t \o p # <<>>
    BY <1>1, <1>2, ConcatEqualIffEmpty
  <2> QED BY <2>1, <2>2, <2>3
<1>10. \A d \in CellsOf(Tail(t \o p)) : signo'[d] = signo[d]
  <2>1. CellsOf(u \o p) = CellsOf(u) \cup CellsOf(p)
    BY <1>1, <1>2, ConcatCells
  <2> QED BY <1>6, <1>9, <2>1
<1>11. signo \in [Cell -> Marks] /\ signo' \in [Cell -> Marks]
  BY <1>6 DEF ListsAre
<1>12. SignalsOf(signo', Tail(t \o p)) = Tail(SignalsOf(signo, t \o p)) /\ SignalsOf(signo, t \o p) # <<>>
  <2> DEFINE v == t \o p
  <2>1. v \in Seq(Cell) /\ v # <<>>
    BY <1>9
  <2>2. \A d \in CellsOf(Tail(v)) : signo'[d] = signo[d]
    BY <1>10
  <2> HIDE DEF v
  <2>3. SignalsOf(signo', Tail(v)) = Tail(SignalsOf(signo, v)) /\ SignalsOf(signo, v) # <<>>
    BY <1>11, <2>1, <2>2, SignalsTail
  <2> QED BY <2>3 DEF v
<1> QED BY <1>7, <1>8, <1>9, <1>12 DEF u, b

\* The first cell of the queue is taken out and its signal handled.
LEMMA UnblockStep ==
    ASSUME NEW t, NEW p, NEW a, ListsAre(t, p, a), CellsInv, CellsInv',
           Taken = Null, Taken' = Null,
           NEW c, c = phead, c # Null, phead' = next[c], Freed(c)
    PROVE  /\ ListsAre(t, Tail(p), <<c>> \o a)'
           /\ signo[c] \in Sig
           /\ Waiting # <<>> /\ Waiting' = Tail(Waiting)
<1> USE DEF ListsAre, Freed
<1> DEFINE b == <<c>> \o a
           u == Tail(p)
<1>1. /\ t \in Seq(Cell) /\ p \in Seq(Cell) /\ a \in Seq(Cell) /\ Distinct(p) /\ Distinct(a)
      /\ CellsOf(p) \cap CellsOf(a) = {}
  BY DEF Partition
<1>2. /\ c \in Cell /\ p # <<>> /\ c \in CellsOf(p)
      /\ b \in Seq(Cell) /\ Distinct(b)
      /\ CellsOf(b) = CellsOf(a) \cup {c}
      /\ Linked(next', c, b)
      /\ u \in Seq(Cell) /\ Distinct(u) /\ Linked(next', next[c], u)
      /\ CellsOf(u) = CellsOf(p) \ {c}
      /\ u # <<>> => u[Len(u)] = p[Len(p)]
  <2>1. Linked(next, c, p) /\ Linked(next, pavail, a)
    OBVIOUS
  <2>2. p # <<>>
    BY <1>1, <2>1, EmptyList
  <2>3. /\ c \in Cell /\ c \in CellsOf(p)
        /\ u \in Seq(Cell) /\ Distinct(u) /\ Linked(next, next[c], u)
        /\ CellsOf(u) = CellsOf(p) \ {c} /\ (u # <<>> => u[Len(u)] = p[Len(p)])
    BY <1>1, <2>1, <2>2, LinkedTail
  <2>4. next'[c] = pavail /\ \A d \in Cell : d # c => next'[d] = next[d]
    BY <2>3 DEF CellsInv
  <2> HIDE DEF ListsAre, u
  <2>5. c \notin CellsOf(a) /\ CellsOf(a) \subseteq Cell /\ CellsOf(u) \subseteq Cell
    BY <1>1, <2>3, ListShape
  <2>6. Linked(next', next'[c], a)
    <3>1. \A d \in CellsOf(a) : next'[d] = next[d]
      BY <2>4, <2>5
    <3> QED BY <1>1, <2>1, <2>4, <3>1, LinkedElsewhere
  <2>7. /\ b \in Seq(Cell) /\ Distinct(b)
        /\ CellsOf(b) = CellsOf(a) \cup {c}
        /\ Linked(next', c, b)
    BY <1>1, <2>3, <2>5, <2>6, FrontCell
  <2>8. Linked(next', next[c], u)
    <3>1. \A d \in CellsOf(u) : next'[d] = next[d]
      BY <2>3, <2>4, <2>5
    <3> QED BY <2>3, <3>1, LinkedElsewhere
  <2> HIDE DEF b
  <2> QED BY <2>2, <2>3, <2>4, <2>7, <2>8
<1> HIDE DEF b, u
<1>3. t = <<>> /\ CellsOf(t) = {}
  BY <1>1, EmptyList DEF CellsOf
<1>4. Partition(t, u, b)
  BY <1>1, <1>2, <1>3 DEF Partition
<1>5. Linked(next', Taken', t)
  BY <1>3 DEF Linked
<1>6. signo' \in [Cell -> Marks] /\ \A d \in CellsOf(u) : signo'[d] = signo[d]
  <2>1. CellsOf(u) \subseteq Cell
    BY <1>2, ListShape
  <2> QED BY <1>2, <2>1 DEF Marks
<1>7. ListsAre(t, u, b)'
  BY <1>2, <1>3, <1>4, <1>5, <1>6
<1>8. signo[c] \in Sig /\ signo \in [Cell -> Marks]
  BY <1>2
<1> HIDE DEF ListsAre
<1>9. Waiting = SignalsOf(signo, t \o p) /\ Waiting' = SignalsOf(signo', t \o u)
  BY <1>7, WaitingIs, WaitingIsNext
<1>10. t \o p = p /\ t \o u = u
  BY <1>1, <1>2, <1>3, ConcatEmptySeq
<1>11. SignalsOf(signo', Tail(p)) = Tail(SignalsOf(signo, p)) /\ SignalsOf(signo, p) # <<>>
  <2>1. \A d \in CellsOf(Tail(p)) : signo'[d] = signo[d]
    BY <1>6 DEF u
  <2> QED BY <1>1, <1>2, <1>6, <1>8, <2>1, SignalsTail
<1> QED BY <1>7, <1>8, <1>9, <1>10, <1>11 DEF u, b

\* The end of a request makes all cells available.
LEMMA ResetStep ==
    ASSUME NEW t, NEW p, NEW a, ListsAre(t, p, a), CellsInv,
           Taken = Null, Taken' = Null, phead # Null, ptail # Null,
           next' = [next EXCEPT ![ptail] = pavail],
           pavail' = phead, phead' = Null, ptail' = Null, signo' = signo
    PROVE  ListsAre(t, <<>>, p \o a)' /\ Waiting' = <<>>
<1> USE DEF ListsAre
<1> DEFINE b == p \o a
<1>1. /\ t \in Seq(Cell) /\ p \in Seq(Cell) /\ a \in Seq(Cell) /\ Distinct(p) /\ Distinct(a)
      /\ CellsOf(p) \cap CellsOf(a) = {}
  BY DEF Partition
<1>2. t = <<>> /\ CellsOf(t) = {} /\ p # <<>>
  BY <1>1, EmptyList DEF CellsOf
<1>3. <<>> \in Seq(Cell) /\ CellsOf(<<>>) = {} /\ Distinct(<<>>) /\ Linked(next', Null, <<>>)
  BY DEF CellsOf, Distinct, Linked
<1>4. /\ Len(p) \in Nat /\ DOMAIN p = 1 .. Len(p) /\ Len(p) # 0
      /\ \A i \in 1 .. Len(p) : p[i] \in Cell
  BY <1>1, <1>2, ListShape
<1>5. Len(p) \in 1 .. Len(p)
  BY <1>4
<1>6. ptail = p[Len(p)] /\ ptail \in Cell /\ ptail \in CellsOf(p)
  BY <1>2, <1>4, <1>5 DEF CellsOf
<1>7. next'[ptail] = pavail /\ \A d \in Cell : d # ptail => next'[d] = next[d]
  BY <1>6 DEF CellsInv
<1>8. Linked(next', pavail, a)
  <2>1. \A d \in CellsOf(a) : next'[d] = next[d]
    BY <1>1, <1>6, <1>7, ListShape
  <2> QED BY <1>1, <2>1, LinkedElsewhere
<1>9. ASSUME NEW i \in 1 .. Len(p)
      PROVE  next'[p[i]] = IF i < Len(p) THEN p[i + 1] ELSE pavail
  <2>1. CASE i < Len(p)
    <3>1. i # Len(p)
      BY <1>4, <2>1, LastPlace
    <3>2. p[i] # ptail
      BY <1>1, <1>4, <1>5, <1>6, <3>1 DEF Distinct
    <3>3. next[p[i]] = p[i + 1]
      BY <1>4, <2>1 DEF Linked
    <3> QED BY <1>4, <1>7, <2>1, <3>2, <3>3
  <2>2. CASE ~(i < Len(p))
    <3>1. i = Len(p)
      BY <1>4, <2>2, LastPlace
    <3> QED BY <1>6, <1>7, <2>2, <3>1
  <2> QED BY <2>1, <2>2
<1>10. b \in Seq(Cell) /\ Linked(next', p[1], b)
  BY <1>1, <1>2, <1>8, <1>9, LinkedConcat
<1>11. phead = p[1]
  BY <1>2 DEF Linked
<1>12. CellsOf(b) = CellsOf(p) \cup CellsOf(a) /\ Distinct(b)
  BY <1>1, ConcatCells
<1> HIDE DEF b
<1>13. Partition(t, <<>>, b)
  BY <1>1, <1>2, <1>3, <1>10, <1>12 DEF Partition
<1>14. Linked(next', Taken', t)
  BY <1>2, <1>3
<1>15. ListsAre(t, <<>>, b)'
  BY <1>2, <1>3, <1>10, <1>11, <1>13, <1>14
<1> HIDE DEF ListsAre
<1>16. Waiting' = SignalsOf(signo', t \o <<>>)
  BY <1>15, WaitingIsNext
<1>17. t \o <<>> = <<>>
  BY <1>2, <1>3, ConcatEmptySeq
<1>18. SignalsOf(signo', <<>>) = <<>>
  BY DEF SignalsOf
<1> QED BY <1>15, <1>16, <1>17, <1>18 DEF b
-----------------------------------------------------------------------------
(* The invariant of the queue.                                             *)

ListsInv == \E t, p, a \in Seq(Cell) : ListsAre(t, p, a)

\* Between requests the queue is empty and the depth is that of the sections.
RequestInv ==
    /\ pc \in {"activate", "activated"} => depth = 0
    /\ pc \in {"activate", "deactivate"} => ~active
    /\ ~active /\ pc # "deactivate" => phead = Null /\ depth = sections

\* A queue that waits at depth zero has somebody who is about to see it.
Noticed ==
    \/ pc \in {"stored", "call"}
    \/ Handling # {}
    \/ \E i \in DOMAIN frames : frames[i].at = "enter"

WaitInv ==
    /\ running => Handling # {}
    /\ \A i \in Handling : frames[i].at = "drain" => phead = Null
    /\ phead # Null /\ Handling = {} => blocked
    /\ build = "store" =>
          /\ pc # "loaded"
          /\ pc = "stored" => reg = depth + 1
          /\ active /\ phead # Null /\ depth = 0 => Noticed

TypesInv ==
    /\ active \in BOOLEAN /\ blocked \in BOOLEAN /\ running \in BOOLEAN
    /\ handlers \in [Sig -> Dispositions]
    /\ kernel \in [Sig -> Dispositions \cup {"defer"}]
    /\ pending \subseteq Sig /\ todo \subseteq Sig
    /\ reg \in Nat
    /\ fate \in {"alive", "killed", "crashed"} /\ build \in Order

\* A step that leaves the cells alone is no step of the abstract queue.
LEMMA ListsUnchanged ==
    ASSUME ListsInv, UNCHANGED queue, Taken' = Taken, active' = active
    PROVE  ListsInv' /\ UNCHANGED Abstract!vars
<1>1. PICK t \in Seq(Cell), p \in Seq(Cell), a \in Seq(Cell) : ListsAre(t, p, a)
  BY DEF ListsInv
<1>2. ListsAre(t, p, a)' /\ Waiting' = Waiting
  BY <1>1, ListsStay
<1>3. ListsInv'
  BY <1>2 DEF ListsInv
<1> QED BY <1>2, <1>3 DEF Abstract!vars

\* No cells taken and none pending: no signal waits.
LEMMA NoneWaiting ==
    ASSUME ListsInv, Taken = Null, phead = Null
    PROVE  Waiting = <<>>
<1>1. PICK t \in Seq(Cell), p \in Seq(Cell), a \in Seq(Cell) : ListsAre(t, p, a)
  BY DEF ListsInv
<1>2. t = <<>> /\ p = <<>>
  BY <1>1, EmptyList DEF ListsAre
<1>3. t \o p = <<>>
  BY <1>1, <1>2, ConcatEmptySeq
<1>4. Waiting = SignalsOf(signo, <<>>)
  BY <1>1, <1>3, WaitingIs
<1> QED BY <1>4 DEF SignalsOf

\* No handler has been interrupted.
LEMMA NoneTaken ==
    ASSUME frames = <<>>
    PROVE  Handling = {} /\ Taken = Null /\ FramesInv
BY DEF Handling, Taken, FramesInv

QueueInv == FramesInv /\ ListsInv /\ RequestInv /\ WaitInv
QueueStep == QueueInv' /\ [Abstract!Next]_(Abstract!vars)

\* The top frame goes on, and the queue is left alone.
LEMMA MoveStays ==
    ASSUME IInv, QueueInv, frames # <<>>, UNCHANGED <<queue, active>>,
           NEW at \in Places, Goto(at, Null),
           Top.at # "drain" \/ Top.queue = Null,
           Handling \subseteq {Len(frames)} \/ at \notin {"first", "take", "drain"}
    PROVE  /\ FramesInv' /\ ListsInv' /\ [Abstract!Next]_(Abstract!vars)
           /\ Handling' = IF at \in {"first", "take", "drain"}
                          THEN Handling \cup {Len(frames)}
                          ELSE Handling \ {Len(frames)}
           /\ DOMAIN frames' = DOMAIN frames
           /\ \A i \in DOMAIN frames : i # Len(frames) => frames'[i] = frames[i]
           /\ frames'[Len(frames)].at = at
<1> DEFINE n == Len(frames)
           H == {"first", "take", "drain"}
<1>1. frames \in Seq(FrameShape) /\ OneHandlerAtATime /\ FramesInv
  BY DEF IInv, HandlersInv, QueueInv
<1>2. /\ Handling' = IF at \in H THEN Handling \cup {n} ELSE Handling \ {n}
      /\ DOMAIN frames' = DOMAIN frames
      /\ \A i \in DOMAIN frames : i # n => frames'[i] = frames[i]
      /\ frames'[n].at = at
  BY <1>1, MoveFrame
<1>3. /\ FramesInv'
      /\ at \in H => Taken' = Null
      /\ at \notin H => Taken' = IF Top.at \in H THEN Null ELSE Taken
  BY <1>1, MoveTaken
<1>4. n \in DOMAIN frames
  BY <1>1
<1>5. Top.queue = Null
  BY <1>1, <1>4 DEF Top, FramesInv, n
<1>6. Top.at \in H => Taken = Null
  <2>1. Top.at \in H => n \in Handling
    BY <1>4 DEF Top, Handling, n
  <2> HIDE DEF n
  <2> QED BY <1>1, <1>5, <2>1, TakenIs DEF Top, n
<1>7. at \in H => Taken = Null
  <2> SUFFICES ASSUME at \in H, Handling # {} PROVE Taken = Null
    BY DEF Taken
  <2>1. n \in Handling
    OBVIOUS
  <2> QED BY <1>1, <1>5, <2>1, TakenIs DEF Top
<1>8. Taken' = Taken
  BY <1>3, <1>6, <1>7
<1>9. ListsInv' /\ UNCHANGED Abstract!vars
  BY <1>8, ListsUnchanged DEF QueueInv
<1> QED BY <1>2, <1>3, <1>9

\* The top frame returns, and the queue is left alone.
LEMMA ReturnStays ==
    ASSUME IInv, QueueInv, frames # <<>>, Return, Top.at \notin {"first", "take", "drain"}
    PROVE  /\ FramesInv' /\ Taken' = Taken
           /\ UNCHANGED <<queue, active>> => ListsInv' /\ [Abstract!Next]_(Abstract!vars)
           /\ Handling' = Handling
           /\ \A i \in DOMAIN frames' : i \in DOMAIN frames /\ frames'[i] = frames[i]
           /\ \A i \in DOMAIN frames : i # Len(frames) => i \in DOMAIN frames'
<1>1. frames \in Seq(FrameShape) /\ OneHandlerAtATime /\ FramesInv
  BY DEF IInv, HandlersInv, QueueInv
<1>2. frames' = SubSeq(frames, 1, Len(frames) - 1)
  BY DEF Return
<1>3. /\ Handling' = Handling \ {Len(frames)}
      /\ \A i \in DOMAIN frames' : i \in DOMAIN frames /\ frames'[i] = frames[i]
      /\ \A i \in DOMAIN frames : i # Len(frames) => i \in DOMAIN frames'
  BY <1>1, <1>2, PopFrame
<1>4. FramesInv' /\ Taken' = Taken
  BY <1>1, <1>2, PopTaken
<1>5. Handling' = Handling
  BY <1>3 DEF Handling, Top
<1>6. UNCHANGED <<queue, active>> => ListsInv' /\ UNCHANGED Abstract!vars
  BY <1>4, ListsUnchanged DEF QueueInv
<1> QED BY <1>3, <1>4, <1>5, <1>6
\* Interrupts that do not touch the queue.
LEMMA MovesKeepQueue ==
    ASSUME IInv, QueueInv, UNCHANGED build,
           EnterInactive \/ Direct \/ EnterHandle \/ First \/ DrainDone
    PROVE  QueueStep
<1> USE DEF QueueStep
<1> DEFINE n == Len(frames)
<1>1. frames # <<>> /\ n \in DOMAIN frames
  <2>1. frames # <<>> /\ frames \in Seq(FrameShape)
    BY DEF IInv, HandlersInv, EnterInactive, Direct, EnterHandle, First, DrainDone, In
  <2> QED BY <2>1
<1>2. /\ Handling \subseteq DOMAIN frames /\ (n \in Handling <=> Top.at \in {"first", "take", "drain"})
      /\ \A i, j \in Handling : i = j
  BY <1>1 DEF Handling, Top, IInv, HandlersInv, OneHandlerAtATime
<1> HIDE DEF n
<1>3. CASE EnterInactive
  <2>1. /\ Top.at = "enter" /\ Goto("direct", Null) /\ UNCHANGED <<globals, queue, program>> /\ ~active
    BY <1>3 DEF EnterInactive, In
  <2>2. /\ FramesInv' /\ ListsInv' /\ [Abstract!Next]_(Abstract!vars)
        /\ Handling' = Handling \ {n} /\ DOMAIN frames' = DOMAIN frames
        /\ \A i \in DOMAIN frames : i # n => frames'[i] = frames[i]
        /\ frames'[n].at = "direct"
    BY <1>1, <2>1, MoveStays DEF Places, globals, n
  <2>3. RequestInv'
    BY <2>1 DEF QueueInv, RequestInv, globals, queue, program
  <2>4. Handling' = Handling /\ n \notin Handling
    BY <1>2, <2>1, <2>2
  <2>5. WaitInv'
    BY <1>2, <2>1, <2>2, <2>4 DEF QueueInv, WaitInv, globals, queue, program
  <2> QED BY <2>2, <2>3, <2>5 DEF QueueInv
<1>4. CASE Direct
  <2>1. /\ Top.at = "direct" /\ Goto("leave", Null) /\ UNCHANGED <<globals, queue, program>>
    BY <1>4 DEF Direct, In
  <2>2. /\ FramesInv' /\ ListsInv' /\ [Abstract!Next]_(Abstract!vars)
        /\ Handling' = Handling \ {n} /\ DOMAIN frames' = DOMAIN frames
        /\ \A i \in DOMAIN frames : i # n => frames'[i] = frames[i]
        /\ frames'[n].at = "leave"
    BY <1>1, <2>1, MoveStays DEF Places, globals, n
  <2>3. RequestInv'
    BY <2>1 DEF QueueInv, RequestInv, globals, queue, program
  <2>4. Handling' = Handling /\ n \notin Handling
    BY <1>2, <2>1, <2>2
  <2>5. Noticed => Noticed'
    <3>1. \A i \in DOMAIN frames : frames[i].at = "enter" => frames'[i].at = "enter"
      BY <2>1, <2>2 DEF Top, n
    <3> QED BY <2>1, <2>2, <2>4, <3>1 DEF Noticed, program
  <2>6. WaitInv'
    BY <1>2, <2>1, <2>2, <2>4, <2>5 DEF QueueInv, WaitInv, globals, queue, program
  <2> QED BY <2>2, <2>3, <2>6 DEF QueueInv
<1>5. CASE EnterHandle
  <2>1. /\ Top.at = "enter" /\ Goto("first", Null) /\ ~running
        /\ UNCHANGED <<active, depth, queue, program>>
    BY <1>5 DEF EnterHandle, In
  <2>2. Handling = {}
    BY <2>1 DEF IInv, HandlersInv
  <2>3. /\ FramesInv' /\ ListsInv' /\ [Abstract!Next]_(Abstract!vars)
        /\ Handling' = {n} /\ frames'[n].at = "first"
    BY <1>1, <2>1, <2>2, MoveStays DEF Places, n
  <2>4. RequestInv'
    BY <2>1 DEF QueueInv, RequestInv, queue, program
  <2>5. WaitInv'
    BY <2>1, <2>3 DEF QueueInv, WaitInv, Noticed, queue, program
  <2> QED BY <2>3, <2>4, <2>5 DEF QueueInv
<1>6. CASE First
  <2>1. Top.at = "first" /\ Goto("take", Null) /\ UNCHANGED <<globals, queue, program>>
    BY <1>6 DEF First, In
  <2>2. Handling = {n}
    BY <1>2, <2>1
  <2>3. /\ FramesInv' /\ ListsInv' /\ [Abstract!Next]_(Abstract!vars)
        /\ Handling' = {n} /\ frames'[n].at = "take"
    BY <1>1, <2>1, <2>2, MoveStays DEF Places, globals, n
  <2>4. RequestInv'
    BY <2>1 DEF QueueInv, RequestInv, globals, queue, program
  <2>5. WaitInv'
    BY <2>1, <2>3 DEF QueueInv, WaitInv, Noticed, globals, queue, program
  <2> QED BY <2>3, <2>4, <2>5 DEF QueueInv
<1>7. CASE DrainDone
  <2>1. /\ Top.at = "drain" /\ Top.queue = Null /\ Goto("leave", Null) /\ running' = FALSE
        /\ UNCHANGED <<active, depth, blocked, queue, program>>
    BY <1>7 DEF DrainDone, In
  <2>2. Handling = {n} /\ phead = Null
    BY <1>2, <2>1 DEF QueueInv, WaitInv, Top, n
  <2>3. /\ FramesInv' /\ ListsInv' /\ [Abstract!Next]_(Abstract!vars)
        /\ Handling' = {}
    BY <1>1, <2>1, <2>2, MoveStays DEF Places, n
  <2>4. RequestInv'
    BY <2>1 DEF QueueInv, RequestInv, queue, program
  <2>5. WaitInv'
    BY <2>1, <2>2, <2>3 DEF QueueInv, WaitInv, queue, program
  <2> QED BY <2>3, <2>4, <2>5 DEF QueueInv
<1> QED BY <1>3, <1>4, <1>5, <1>6, <1>7

\* A signal comes during a section, or while a handler runs, or has been
\* handled.
LEMMA ReturnsKeepQueue ==
    ASSUME IInv, QueueInv, UNCHANGED build, EnterSection \/ EnterRunning \/ Leave
    PROVE  QueueStep
<1> USE DEF QueueStep
<1> DEFINE n == Len(frames)
<1>1. frames # <<>> /\ n \in DOMAIN frames /\ Top.at \in {"enter", "leave"} /\ Return
  <2>1. frames # <<>> /\ frames \in Seq(FrameShape)
    BY DEF IInv, HandlersInv, EnterSection, EnterRunning, Leave, In
  <2> QED BY <2>1 DEF EnterSection, EnterRunning, Leave, In
<1>2. /\ FramesInv' /\ Taken' = Taken
      /\ UNCHANGED <<queue, active>> => ListsInv' /\ [Abstract!Next]_(Abstract!vars)
      /\ Handling' = Handling
      /\ \A i \in DOMAIN frames' : i \in DOMAIN frames /\ frames'[i] = frames[i]
      /\ \A i \in DOMAIN frames : i # n => i \in DOMAIN frames'
  BY <1>1, ReturnStays
<1>3. \A i \in Handling : i \in DOMAIN frames' /\ frames'[i] = frames[i]
  <2>1. Handling' \subseteq DOMAIN frames'
    BY DEF Handling
  <2> QED BY <1>2, <2>1
<1> HIDE DEF n
<1>4. CASE EnterSection
  <2>1. active /\ depth # 0 /\ blocked' = TRUE /\ UNCHANGED <<active, depth, running, program>>
    BY <1>4 DEF EnterSection
  <2>2. Handling = {} /\ Taken = Null
    BY <2>1 DEF IInv, HandlersInv, Taken
  <2>3. ListsInv' /\ [Abstract!Next]_(Abstract!vars)
    <3>1. CASE pavail = Null
      <4>1. UNCHANGED queue
        BY <1>4, <3>1 DEF EnterSection
      <4> QED BY <1>2, <2>1, <4>1
    <3>2. CASE pavail # Null
      <4>1. PICK t \in Seq(Cell), p \in Seq(Cell), a \in Seq(Cell) : ListsAre(t, p, a)
        BY DEF QueueInv, ListsInv
      <4>2. PICK c : c = pavail
        OBVIOUS
      <4>3. Top.signo \in Sig
        BY <1>1 DEF QueueInv, FramesInv, Top, n
      <4>4. Link(c)
        BY <1>4, <3>2, <4>2 DEF EnterSection
      <4>5. CellsInv
        BY DEF IInv
      <4>6. /\ ListsAre(t, Append(p, c), Tail(a))'
            /\ Waiting' = Append(Waiting, Top.signo)
            /\ Len(Waiting) < QueueSize
        BY <1>2, <2>2, <3>2, <4>1, <4>2, <4>3, <4>4, <4>5, LinkStep
      <4>7. Append(p, c) \in Seq(Cell) /\ Tail(a) \in Seq(Cell)
        BY <4>6 DEF ListsAre, Partition
      <4>8. ListsInv'
        BY <4>6, <4>7 DEF ListsInv
      <4>9. Abstract!Defer(Top.signo)
        BY <2>1, <4>6 DEF Abstract!Defer
      <4> QED BY <4>3, <4>8, <4>9 DEF Abstract!Next
    <3> QED BY <3>1, <3>2
  <2>4. RequestInv'
    BY <2>1 DEF QueueInv, RequestInv, program
  <2>5. WaitInv'
    BY <1>2, <2>1, <2>2 DEF QueueInv, WaitInv, program
  <2> QED BY <1>2, <2>3, <2>4, <2>5 DEF QueueInv
<1>5. CASE EnterRunning
  <2>1. running /\ UNCHANGED <<active, depth, running, queue, program>>
    BY <1>5 DEF EnterRunning
  <2>2. Handling # {}
    BY <2>1 DEF QueueInv, WaitInv
  <2>3. RequestInv'
    BY <2>1 DEF QueueInv, RequestInv, program, queue
  <2>4. WaitInv'
    BY <1>2, <1>3, <2>1, <2>2 DEF QueueInv, WaitInv, Noticed, program, queue
  <2> QED BY <1>2, <2>1, <2>3, <2>4 DEF QueueInv
<1>6. CASE Leave
  <2>1. UNCHANGED <<globals, queue, program>> /\ Top.at = "leave"
    BY <1>6 DEF Leave, In
  <2>2. RequestInv'
    BY <2>1 DEF QueueInv, RequestInv, program, queue, globals
  <2>3. Noticed => Noticed'
    <3>1. \A i \in DOMAIN frames : frames[i].at = "enter" => i \in DOMAIN frames' /\ frames'[i].at = "enter"
      BY <1>2, <2>1 DEF Top, n
    <3> QED BY <1>2, <2>1, <3>1 DEF Noticed, program
  <2>4. WaitInv'
    BY <1>2, <1>3, <2>1, <2>3 DEF QueueInv, WaitInv, program, queue, globals
  <2> QED BY <1>2, <2>1, <2>2, <2>4 DEF QueueInv, globals
<1> QED BY <1>4, <1>5, <1>6
\* The handler takes the queue, and empties it.
LEMMA HandlingMovesQueue ==
    ASSUME IInv, IInv', QueueInv, UNCHANGED build, Take \/ Drain
    PROVE  QueueStep
<1> USE DEF QueueStep
<1> DEFINE n == Len(frames)
<1>1. /\ frames # <<>> /\ n \in DOMAIN frames /\ Top.at \in {"take", "drain"}
      /\ frames \in Seq(FrameShape) /\ FramesInv /\ OneHandlerAtATime
  <2>1. frames # <<>> /\ frames \in Seq(FrameShape)
    BY DEF IInv, HandlersInv, Take, Drain, In
  <2> QED BY <2>1 DEF Take, Drain, In, QueueInv, IInv, HandlersInv
<1>2. Handling = {n} /\ Taken = Top.queue /\ Top.queue \in Cell \cup {Null}
  <2>1. n \in Handling
    BY <1>1 DEF Handling, Top
  <2>2. Top.queue \in Cell \cup {Null}
    <3>1. Top \in FrameShape
      BY <1>1 DEF Top
    <3> QED BY <3>1 DEF FrameShape
  <2> HIDE DEF n
  <2> QED BY <1>1, <2>1, <2>2, TakenIs DEF OneHandlerAtATime, Top, n
<1>3. PICK t \in Seq(Cell), p \in Seq(Cell), a \in Seq(Cell) : ListsAre(t, p, a)
  BY DEF QueueInv, ListsInv
<1>4. CellsInv /\ CellsInv' /\ active
  BY <1>2 DEF IInv, HandlersInv
<1>5. ASSUME NEW q \in Cell \cup {Null}, Goto("drain", q)
      PROVE  FramesInv' /\ Taken' = q /\ Handling' = {n}
  <2>1. FramesInv' /\ Taken' = q
    BY <1>1, <1>2, <1>5, MoveTaken DEF Places
  <2>2. Handling' = Handling \cup {n}
    BY <1>1, <1>5, MoveFrame DEF Places
  <2> QED BY <1>2, <2>1, <2>2
<1> HIDE DEF n
<1>6. CASE Take
  <2>1. /\ Top.at = "take" /\ Goto("drain", phead) /\ phead' = Null
        /\ UNCHANGED <<globals, ptail, pavail, next, signo, program>>
    BY <1>6 DEF Take, In
  <2>2. Taken = Null
    BY <1>1, <1>2, <2>1 DEF FramesInv, Top, n
  <2>3. FramesInv' /\ Taken' = phead /\ Handling' = {n}
    BY <1>4, <1>5, <2>1 DEF CellsInv
  <2>4. ListsAre(p, <<>>, a)' /\ Waiting' = Waiting
    BY <1>3, <2>1, <2>2, <2>3, TakeStep
  <2>5. ListsInv'
    <3>1. <<>> \in Seq(Cell)
      OBVIOUS
    <3> QED BY <2>4, <3>1 DEF ListsInv
  <2>6. UNCHANGED Abstract!vars
    BY <2>1, <2>4 DEF Abstract!vars, globals
  <2>7. RequestInv'
    BY <2>1 DEF QueueInv, RequestInv, program, globals
  <2>8. WaitInv'
    BY <1>4, <2>1, <2>3 DEF QueueInv, WaitInv, program, globals
  <2> QED BY <2>3, <2>5, <2>6, <2>7, <2>8 DEF QueueInv
<1>7. CASE Drain
  <2>1. PICK c : c = Top.queue
    OBVIOUS
  <2>2. /\ Top.at = "drain" /\ c # Null /\ Goto("drain", next[c])
        /\ Freed(c) /\ phead' = phead /\ UNCHANGED <<globals, program>>
    BY <1>7, <2>1 DEF Drain, In, Freed
  <2>3. c \in Cell /\ c = Taken /\ next[c] \in Cell \cup {Null}
    BY <1>2, <1>4, <2>1, <2>2 DEF CellsInv
  <2>4. FramesInv' /\ Taken' = next[c] /\ Handling' = {n}
    BY <1>5, <2>2, <2>3
  <2>5. ListsAre(Tail(t), p, <<c>> \o a)' /\ Waiting # <<>> /\ Waiting' = Tail(Waiting)
    BY <1>3, <1>4, <2>2, <2>3, <2>4, DrainStep
  <2>6. ListsInv'
    <3>1. Tail(t) \in Seq(Cell) /\ <<c>> \o a \in Seq(Cell)
      BY <2>5 DEF ListsAre, Partition
    <3> QED BY <2>5, <3>1 DEF ListsInv
  <2>7. Abstract!Handle
    BY <1>4, <2>2, <2>5 DEF Abstract!Handle, globals
  <2>8. RequestInv'
    BY <2>2 DEF QueueInv, RequestInv, program, globals
  <2>9. phead = Null
    BY <1>2, <2>2 DEF QueueInv, WaitInv, Top, n
  <2>10. WaitInv'
    BY <2>2, <2>4, <2>9 DEF QueueInv, WaitInv, program, globals
  <2> QED BY <2>4, <2>6, <2>7, <2>8, <2>10 DEF QueueInv, Abstract!Next
<1> QED BY <1>6, <1>7

\* A frame is pushed for a signal.
LEMMA FrameOf ==
    ASSUME IInv, NEW s \in Sig
    PROVE  LET f == Frame(s)
           IN  f \in FrameShape /\ f.at = "enter" /\ f.queue = Null /\ f.signo = s
BY DEF IInv, HandlersInv, Frame, FrameShape, Places

\* The kernel delivers a signal.
LEMMA DeliverKeepsQueue ==
    ASSUME IInv, QueueInv, UNCHANGED build, NEW s \in Sig, Deliver(s)
    PROVE  QueueStep
<1> DEFINE f == Frame(s)
<1>1. f \in FrameShape /\ f.at = "enter" /\ f.queue = Null /\ f.signo \in Sig
  BY FrameOf
<1>2. frames \in Seq(FrameShape) /\ FramesInv /\ OneHandlerAtATime
  BY DEF IInv, HandlersInv, QueueInv
<1>3. frames' = Append(frames, f) /\ UNCHANGED <<globals, queue, program>>
  BY DEF Deliver
<1> HIDE DEF f
<1>4. FramesInv' /\ Taken' = Taken
  BY <1>1, <1>2, <1>3, PushTaken
<1>5. /\ Handling' = Handling
      /\ \A i \in DOMAIN frames : i \in DOMAIN frames' /\ frames'[i] = frames[i]
  BY <1>1, <1>2, <1>3, PushFrame
<1>6. ListsInv' /\ UNCHANGED Abstract!vars
  BY <1>3, <1>4, ListsUnchanged DEF QueueInv, globals
<1>7. RequestInv'
  BY <1>3 DEF QueueInv, RequestInv, globals, queue, program
<1>8. Noticed => Noticed'
  BY <1>3, <1>5 DEF Noticed, program
<1>9. WaitInv'
  <2>1. Handling \subseteq DOMAIN frames
    BY DEF Handling
  <2> QED BY <1>3, <1>5, <1>8, <2>1 DEF QueueInv, WaitInv, globals, queue, program
<1> QED BY <1>4, <1>6, <1>7, <1>9 DEF QueueInv, QueueStep

\* zend_signal_handler_unblock.
LEMMA UnblockMovesQueue ==
    ASSUME IInv, IInv', QueueInv, UNCHANGED build, HandlerUnblock
    PROVE  QueueStep
<1> USE DEF QueueStep
<1>1. frames = <<>> /\ pc = "call" /\ pc' = "run" /\ UNCHANGED <<globals, sections, reg>>
  BY DEF HandlerUnblock, At
<1>2. Handling = {} /\ Taken = Null /\ FramesInv /\ frames \in Seq(FrameShape) /\ OneHandlerAtATime
  BY <1>1, NoneTaken DEF IInv, HandlersInv
<1>3. CASE active /\ phead # Null
  <2>1. PICK t \in Seq(Cell), p \in Seq(Cell), a \in Seq(Cell) : ListsAre(t, p, a)
    BY DEF QueueInv, ListsInv
  <2>2. PICK c : c = phead
    OBVIOUS
  <2>3. phead' = next[c] /\ Freed(c) /\ frames' = <<Frame(signo[c])>>
    BY <1>3, <2>2 DEF HandlerUnblock, Freed
  <2>4. CellsInv /\ CellsInv'
    BY DEF IInv
  <2>5. signo[c] \in Sig
    <3>1. p \in Seq(Cell) /\ Linked(next, phead, p) /\ \A d \in CellsOf(p) : signo[d] \in Sig
      BY <2>1 DEF ListsAre
    <3>2. p # <<>>
      BY <1>3, <3>1, EmptyList
    <3>3. c = p[1] /\ 1 \in DOMAIN p
      <4>1. Len(p) \in Nat /\ DOMAIN p = 1 .. Len(p) /\ Len(p) # 0
        BY <3>1, <3>2, ListShape
      <4> QED BY <2>2, <3>1, <3>2, <4>1 DEF Linked
    <3> QED BY <3>1, <3>3 DEF CellsOf
  <2> DEFINE f == Frame(signo[c])
  <2>6. f \in FrameShape /\ f.at = "enter" /\ f.queue = Null /\ f.signo \in Sig
    BY <2>5, FrameOf
  <2>7. frames' = Append(frames, f)
    BY <1>1, <2>3
  <2> HIDE DEF f
  <2>8. FramesInv' /\ Taken' = Null
    BY <1>2, <2>6, <2>7, PushTaken
  <2>9. /\ Handling' = {}
        /\ Len(frames) + 1 \in DOMAIN frames' /\ frames'[Len(frames) + 1].at = "enter"
    BY <1>2, <2>6, <2>7, PushFrame
  <2>10. /\ ListsAre(t, Tail(p), <<c>> \o a)'
         /\ Waiting # <<>> /\ Waiting' = Tail(Waiting)
    BY <1>2, <1>3, <2>1, <2>2, <2>3, <2>4, <2>8, UnblockStep
  <2>11. ListsInv'
    <3>1. Tail(p) \in Seq(Cell) /\ <<c>> \o a \in Seq(Cell)
      BY <2>10 DEF ListsAre, Partition
    <3> QED BY <2>10, <3>1 DEF ListsInv
  <2>12. Abstract!Handle
    BY <1>1, <1>3, <2>10 DEF Abstract!Handle, globals
  <2>13. RequestInv'
    BY <1>1, <1>3 DEF QueueInv, RequestInv, globals
  <2>14. WaitInv'
    BY <1>1, <1>2, <1>3, <2>9 DEF QueueInv, WaitInv, Noticed, globals
  <2> QED BY <2>8, <2>11, <2>12, <2>13, <2>14 DEF QueueInv, Abstract!Next
<1>4. CASE ~(active /\ phead # Null)
  <2>1. UNCHANGED <<queue, frames>>
    BY <1>4 DEF HandlerUnblock
  <2>2. frames' = <<>>
    BY <1>1, <2>1
  <2>3. FramesInv' /\ Taken' = Null /\ Handling' = {}
    BY <2>2 DEF FramesInv, Taken, Handling
  <2>4. ListsInv' /\ UNCHANGED Abstract!vars
    BY <1>1, <1>2, <2>1, <2>3, ListsUnchanged DEF QueueInv, globals
  <2>5. RequestInv'
    BY <1>1, <2>1 DEF QueueInv, RequestInv, globals, queue
  <2>6. WaitInv'
    BY <1>1, <1>2, <1>4, <2>1, <2>3 DEF QueueInv, WaitInv, globals, queue
  <2> QED BY <2>3, <2>4, <2>5, <2>6 DEF QueueInv
<1> QED BY <1>3, <1>4

\* The program's own steps, outside of zend_signal_handler_unblock.
LEMMA ProgramKeepsQueue ==
    ASSUME IInv, QueueInv, frames = <<>>, UNCHANGED <<frames, queue, active>>,
           RequestInv', WaitInv'
    PROVE  QueueStep
<1>1. Taken = Null /\ Taken' = Null /\ FramesInv'
  BY NoneTaken DEF Handling, Taken, FramesInv
<1>2. ListsInv' /\ UNCHANGED Abstract!vars
  BY <1>1, ListsUnchanged DEF QueueInv
<1> QED BY <1>1, <1>2 DEF QueueInv, QueueStep
\* Critical sections, and the parts of a request that keep the queue.
LEMMA SectionsKeepQueue ==
    ASSUME IInv, QueueInv, TypesInv, UNCHANGED build,
           \/ Block \/ StoreDepth \/ LoadBlocked \/ ThenLoadBlocked \/ ThenStoreDepth \/ Bailout
           \/ RestoreHandlers \/ ResetDepth \/ \E s \in Sig : Register(s)
    PROVE  QueueStep
<1>1. /\ frames = <<>> /\ UNCHANGED <<frames, active, blocked, running>>
      /\ UNCHANGED <<phead, ptail, pavail, next, signo>>
  BY DEF Block, StoreDepth, LoadBlocked, ThenLoadBlocked, ThenStoreDepth, Bailout,
         RestoreHandlers, ResetDepth, Register, At, queue, globals, process
<1>2. Handling = {} /\ Handling' = {}
  BY <1>1 DEF Handling
<1>3. depth \in Nat /\ sections \in Nat /\ reg \in Nat /\ (pc = "activated" => sections = 0)
  BY DEF IInv, SectionsInv, TypesInv
<1>4. /\ pc \in {"activate", "activated"} => depth = 0
      /\ pc \in {"activate", "deactivate"} => ~active
      /\ ~active /\ pc # "deactivate" => phead = Null /\ depth = sections
  BY DEF QueueInv, RequestInv
<1>5. /\ ~running
      /\ phead # Null => blocked
      /\ build = "store" =>
            /\ pc # "loaded"
            /\ pc = "stored" => reg = depth + 1
            /\ active /\ phead # Null /\ depth = 0 => pc \in {"stored", "call"}
  BY <1>1, <1>2 DEF QueueInv, WaitInv, Noticed
<1>6. RequestInv'
  <2>1. CASE Block
    BY <1>1, <1>3, <1>4, <2>1 DEF Block, At, RequestInv
  <2>2. CASE StoreDepth
    BY <1>1, <1>3, <1>4, <2>2 DEF StoreDepth, At, RequestInv
  <2>3. CASE LoadBlocked \/ ThenLoadBlocked
    BY <1>1, <1>3, <1>4, <2>3 DEF LoadBlocked, ThenLoadBlocked, At, RequestInv, globals
  <2>4. CASE ThenStoreDepth
    BY <1>1, <1>3, <1>4, <2>4 DEF ThenStoreDepth, At, RequestInv
  <2>5. CASE Bailout
    BY <1>1, <1>3, <1>4, <2>5 DEF Bailout, At, RequestInv, globals
  <2>6. CASE RestoreHandlers
    BY <1>1, <1>3, <1>4, <2>6 DEF RestoreHandlers, At, RequestInv, globals
  <2>7. CASE ResetDepth
    BY <1>1, <1>3, <1>4, <2>7 DEF ResetDepth, At, RequestInv
  <2>8. CASE \E s \in Sig : Register(s)
    BY <1>1, <1>3, <1>4, <2>8 DEF Register, At, RequestInv, globals
  <2> QED BY <2>1, <2>2, <2>3, <2>4, <2>5, <2>6, <2>7, <2>8
<1>7. /\ build = "store" /\ pc' = "stored" => reg' = depth' + 1
      /\ build = "store" => pc' # "loaded"
      /\ build = "store" /\ active /\ phead # Null /\ depth' = 0 => pc' \in {"stored", "call"}
  <2>1. CASE Block
    BY <1>3, <1>5, <2>1 DEF Block, At
  <2>2. CASE StoreDepth
    BY <1>3, <1>5, <2>2 DEF StoreDepth, At
  <2>3. CASE LoadBlocked
    BY <1>3, <1>5, <2>3 DEF LoadBlocked, At, globals
  <2>4. CASE ThenLoadBlocked
    <3>1. pc = "stored" /\ depth' = depth /\ pc' = IF reg = Blocked THEN "call" ELSE "run"
      BY <2>4 DEF ThenLoadBlocked, At, globals
    <3>2. build = "store" /\ active /\ phead # Null /\ depth' = 0 => reg = Blocked
      BY <1>3, <1>5, <3>1 DEF Blocked
    <3> QED BY <3>1, <3>2
  <2>5. CASE ThenStoreDepth
    BY <1>3, <1>5, <2>5 DEF ThenStoreDepth, At
  <2>6. CASE Bailout
    BY <1>3, <1>5, <2>6 DEF Bailout, At, globals
  <2>7. CASE RestoreHandlers
    BY <1>3, <1>4, <1>5, <2>7 DEF RestoreHandlers, At, globals
  <2>8. CASE ResetDepth
    BY <1>3, <1>4, <1>5, <2>8 DEF ResetDepth, At, globals
  <2>9. CASE \E s \in Sig : Register(s)
    BY <1>3, <1>4, <1>5, <2>9 DEF Register, At, globals
  <2> QED BY <2>1, <2>2, <2>3, <2>4, <2>5, <2>6, <2>7, <2>8, <2>9
<1>8. WaitInv'
  BY <1>1, <1>2, <1>5, <1>7 DEF WaitInv, Noticed
<1> QED BY <1>1, <1>6, <1>8, ProgramKeepsQueue DEF queue

\* Requests begin and end.
LEMMA RequestMovesQueue ==
    ASSUME IInv, QueueInv, UNCHANGED build, SetActive \/ SetInactive \/ Reset
    PROVE  QueueStep
<1> USE DEF QueueStep
<1>2. frames = <<>> /\ frames' = <<>>
  BY DEF SetActive, SetInactive, Reset, At, process
<1>3. Handling = {} /\ Handling' = {} /\ Taken = Null /\ Taken' = Null /\ FramesInv'
  BY <1>2 DEF Handling, Taken, FramesInv
<1>4. depth \in Nat /\ sections \in Nat /\ (pc = "deactivate" => sections = 0)
  BY DEF IInv, SectionsInv
<1>5. CASE SetActive \/ SetInactive
  <2>1. /\ UNCHANGED <<depth, blocked, running, queue, sections, reg>>
        /\ pc' \in {"activated", "deactivate"}
        /\ active' = (pc' # "deactivate") /\ (pc' = "activated" => pc = "activate")
    BY <1>5 DEF SetActive, SetInactive, At
  <2>2. RequestInv'
    BY <2>1 DEF RequestInv, QueueInv, queue
  <2>3. pc = "activate" => phead = Null
    BY DEF RequestInv, QueueInv
  <2>4. WaitInv'
    BY <1>3, <2>1, <2>3 DEF WaitInv, QueueInv, queue
  <2>5. PICK t \in Seq(Cell), p \in Seq(Cell), a \in Seq(Cell) : ListsAre(t, p, a)
    BY DEF QueueInv, ListsInv
  <2>6. ListsAre(t, p, a)' /\ Waiting' = Waiting
    BY <1>3, <2>1, <2>5, ListsStay
  <2>7. ListsInv'
    BY <2>6 DEF ListsInv
  <2>8. Abstract!Next
    <3>1. CASE pc' = "activated"
      <4>1. Waiting = <<>>
        BY <1>3, <2>1, <2>3, <3>1, NoneWaiting DEF QueueInv
      <4>2. active' = TRUE
        BY <2>1, <3>1
      <4>3. Abstract!Begin
        BY <2>6, <4>1, <4>2 DEF Abstract!Begin
      <4> QED BY <4>3 DEF Abstract!Next
    <3>2. CASE pc' = "deactivate"
      <4>1. active' = FALSE
        BY <2>1, <3>2
      <4>2. Abstract!End
        BY <2>6, <4>1 DEF Abstract!End
      <4> QED BY <4>2 DEF Abstract!Next
    <3> QED BY <2>1, <3>1, <3>2
  <2> QED BY <1>3, <2>2, <2>4, <2>7, <2>8 DEF QueueInv
<1>6. CASE Reset
  <2>1. /\ pc = "deactivate" /\ pc' = "run" /\ running' = FALSE /\ depth' = 0
        /\ UNCHANGED <<active, signo, sections>>
    BY <1>6 DEF Reset, At
  <2>2. PICK t \in Seq(Cell), p \in Seq(Cell), a \in Seq(Cell) : ListsAre(t, p, a)
    BY DEF QueueInv, ListsInv
  <2>3. ~active
    BY <2>1 DEF QueueInv, RequestInv
  <2>4. phead # Null => ptail # Null
    <3> SUFFICES ASSUME phead # Null PROVE ptail # Null
      OBVIOUS
    <3>1. p # <<>> /\ p \in Seq(Cell) /\ ptail = p[Len(p)]
      BY <2>2, EmptyList DEF ListsAre
    <3>2. Len(p) \in 1 .. Len(p) /\ \A i \in 1 .. Len(p) : p[i] \in Cell
      <4>1. Len(p) \in Nat /\ Len(p) # 0 /\ \A i \in 1 .. Len(p) : p[i] \in Cell
        BY <3>1, ListShape
      <4> QED BY <4>1
    <3> QED BY <3>1, <3>2, NullIsNoCell
  <2>5. CASE phead = Null
    <3>1. UNCHANGED queue
      BY <1>6, <2>5 DEF Reset, queue
    <3>2. ListsInv' /\ UNCHANGED Abstract!vars
      BY <1>3, <2>1, <3>1, ListsUnchanged DEF QueueInv
    <3>3. RequestInv'
      BY <1>4, <2>1, <2>5, <3>1 DEF RequestInv, queue
    <3>4. WaitInv'
      BY <1>3, <2>1, <2>3, <2>5, <3>1 DEF WaitInv, queue
    <3> QED BY <1>3, <3>2, <3>3, <3>4 DEF QueueInv
  <2>6. CASE phead # Null
    <3>1. /\ next' = [next EXCEPT ![ptail] = pavail]
          /\ pavail' = phead /\ phead' = Null /\ ptail' = Null /\ signo' = signo
      BY <1>6, <2>1, <2>4, <2>6 DEF Reset
    <3>2. CellsInv
      BY DEF IInv
    <3>3. ListsAre(t, <<>>, p \o a)' /\ Waiting' = <<>>
      BY <1>3, <2>2, <2>4, <2>6, <3>1, <3>2, ResetStep
    <3>4. ListsInv'
      <4>1. <<>> \in Seq(Cell) /\ p \o a \in Seq(Cell)
        BY <3>3 DEF ListsAre, Partition
      <4> QED BY <3>3, <4>1 DEF ListsInv
    <3>5. Abstract!Discard
      BY <2>1, <2>3, <3>3 DEF Abstract!Discard
    <3>6. RequestInv'
      BY <1>4, <2>1, <3>1 DEF RequestInv
    <3>7. WaitInv'
      BY <1>3, <2>1, <3>1 DEF WaitInv
    <3> QED BY <1>3, <3>4, <3>5, <3>6, <3>7 DEF QueueInv, Abstract!Next
  <2> QED BY <2>5, <2>6
<1> QED BY <1>5, <1>6

\* Everything else leaves the handler, the queue and the sections alone.
LEMMA OthersKeepQueue ==
    ASSUME IInv, QueueInv, UNCHANGED <<build, globals, queue, frames, pc, reg, sections>>
    PROVE  QueueStep
<1>1. Handling' = Handling /\ Taken' = Taken /\ FramesInv'
  BY DEF Handling, Taken, FramesInv, QueueInv
<1>2. ListsInv' /\ UNCHANGED Abstract!vars
  BY <1>1, ListsUnchanged DEF QueueInv, globals
<1>3. RequestInv' /\ WaitInv'
  BY <1>1 DEF QueueInv, RequestInv, WaitInv, Noticed, globals, queue
<1> QED BY <1>1, <1>2, <1>3 DEF QueueInv, QueueStep
\* At first all cells are available, the last one first.
LEMMA InitQueue == Init => QueueInv /\ TypesInv /\ Abstract!Init
<1> SUFFICES ASSUME Init PROVE QueueInv /\ TypesInv /\ Abstract!Init
  OBVIOUS
<1>1. QueueSize \in Nat /\ QueueSize # 0 /\ Null = 0 /\ Cell = 1 .. QueueSize
  BY SignalAssumption DEF Null, Cell
<1> DEFINE a == [i \in 1 .. QueueSize |-> QueueSize - (i - 1)]
<1>2. /\ a \in Seq(Cell) /\ DOMAIN a = 1 .. QueueSize /\ Len(a) = QueueSize /\ a # <<>>
      /\ \A i \in 1 .. QueueSize : a[i] = QueueSize - (i - 1)
  <2>1. \A i \in 1 .. QueueSize : QueueSize - (i - 1) \in Cell
    BY <1>1
  <2>2. a \in [1 .. QueueSize -> Cell]
    BY <2>1
  <2>3. a \in Seq(Cell)
    BY <1>1, <2>2, SeqDef
  <2>4. Len(a) \in Nat /\ DOMAIN a = 1 .. Len(a) /\ DOMAIN a = 1 .. QueueSize /\ (a = <<>> <=> Len(a) = 0)
    BY <2>2, <2>3, ListShape
  <2>5. \A i \in 1 .. QueueSize : a[i] = QueueSize - (i - 1)
    OBVIOUS
  <2> HIDE DEF a
  <2>6. Len(a) = QueueSize
    <3>1. QueueSize \in 1 .. Len(a) /\ Len(a) \in 1 .. QueueSize
      <4>1. QueueSize \in 1 .. QueueSize /\ Len(a) \in 1 .. Len(a)
        BY <1>1, <2>4
      <4>2. 1 .. Len(a) = 1 .. QueueSize
        BY <2>4
      <4> QED BY <4>1, <4>2
    <3> QED BY <3>1
  <2> QED BY <1>1, <2>3, <2>4, <2>5, <2>6
<1> HIDE DEF a
<1>3. frames = <<>> /\ Handling = {} /\ Taken = Null /\ FramesInv
  BY NoneTaken DEF Init
<1>4. Distinct(a) /\ CellsOf(a) = Cell
  <2>1. Distinct(a)
    BY <1>1, <1>2 DEF Distinct
  <2>2. ASSUME NEW c \in Cell PROVE c \in CellsOf(a)
    <3>1. QueueSize - (c - 1) \in 1 .. QueueSize /\ QueueSize - ((QueueSize - (c - 1)) - 1) = c
      BY <1>1
    <3> QED BY <1>2, <3>1 DEF CellsOf
  <2>3. CellsOf(a) \subseteq Cell
    BY <1>2, ListShape
  <2> QED BY <2>1, <2>2, <2>3
<1>5. Linked(next, pavail, a)
  <2>1. next = [c \in Cell |-> c - 1] /\ pavail = QueueSize
    BY DEF Init
  <2>2. pavail = a[1]
    <3>1. 1 \in 1 .. QueueSize /\ QueueSize - (1 - 1) = QueueSize
      BY <1>1
    <3> QED BY <1>2, <2>1, <3>1
  <2>3. ASSUME NEW i \in 1 .. QueueSize
        PROVE  next[a[i]] = IF i < QueueSize THEN a[i + 1] ELSE Null
    <3>1. a[i] \in Cell /\ a[i] = QueueSize - (i - 1)
      BY <1>2, ListShape
    <3>2. next[a[i]] = (QueueSize - (i - 1)) - 1
      BY <2>1, <3>1
    <3>3. i < QueueSize => i + 1 \in 1 .. QueueSize /\ QueueSize - ((i + 1) - 1) = (QueueSize - (i - 1)) - 1
      BY <1>1
    <3>4. ~(i < QueueSize) => (QueueSize - (i - 1)) - 1 = 0
      BY <1>1
    <3> QED BY <1>1, <1>2, <3>2, <3>3, <3>4
  <2> QED BY <1>2, <2>2, <2>3 DEF Linked
<1>6. /\ <<>> \in Seq(Cell) /\ CellsOf(<<>>) = {} /\ Distinct(<<>>) /\ Linked(next, Null, <<>>)
  BY DEF CellsOf, Distinct, Linked
<1>7. ListsAre(<<>>, <<>>, a)
  <2>1. Partition(<<>>, <<>>, a)
    BY <1>2, <1>4, <1>6 DEF Partition
  <2>2. phead = Null /\ signo \in [Cell -> Marks]
    BY DEF Init, Marks
  <2> QED BY <1>3, <1>5, <1>6, <2>1, <2>2 DEF ListsAre
<1>8. ListsInv
  BY <1>2, <1>6, <1>7 DEF ListsInv
<1>9. RequestInv /\ WaitInv
  BY <1>3 DEF Init, RequestInv, WaitInv
<1>10. TypesInv
  BY SignalAssumption DEF Init, TypesInv, Dispositions
<1>11. Abstract!Init
  <2>1. phead = Null /\ active = FALSE
    BY DEF Init
  <2> QED BY <1>3, <1>8, <2>1, NoneWaiting DEF Abstract!Init
<1> QED BY <1>3, <1>8, <1>9, <1>10, <1>11 DEF QueueInv

\* What signals, dispositions and registers may be.
LEMMA HandlerTypes ==
    ASSUME TypesInv, NEW s, SignalHandler(s)
    PROVE  /\ handlers' \in [Sig -> Dispositions]
           /\ kernel' \in [Sig -> Dispositions \cup {"defer"}]
           /\ fate' \in {"alive", "killed", "crashed"}
BY DEF TypesInv, SignalHandler, Sigaction, Dispositions

\* Every step keeps the types.
LEMMA TypesPreserved ==
    ASSUME IInv, TypesInv, Next
    PROVE  TypesInv'
<1> USE DEF TypesInv
<1>0. build' \in Order
  BY DEF Next
<1>1. CASE Interrupt
  <2>1. CASE Direct \/ First \/ Drain
    <3>1. /\ handlers' \in [Sig -> Dispositions]
          /\ kernel' \in [Sig -> Dispositions \cup {"defer"}]
          /\ fate' \in {"alive", "killed", "crashed"}
      BY <2>1, HandlerTypes DEF Direct, First, Drain
    <3> QED BY <1>0, <2>1, <3>1 DEF Direct, First, Drain, globals, program
  <2>2. CASE EnterInactive \/ EnterSection \/ EnterRunning \/ EnterHandle \/ Take \/ DrainDone \/ Leave
    BY <1>0, <2>2 DEF EnterInactive, EnterSection, EnterRunning, EnterHandle, Take, DrainDone,
                      Leave, globals, process, program
  <2> QED BY <1>1, <2>1, <2>2 DEF Interrupt
<1>2. CASE Macro
  BY <1>0, <1>2 DEF Macro, ThenLoadBlocked, ThenStoreDepth, HandlerUnblock, globals, process
<1>3. CASE Request
  <2>1. CASE RestoreHandlers \/ SetActive \/ ResetDepth \/ SetInactive \/ Reset
    BY <1>0, <2>1, SignalAssumption
       DEF RestoreHandlers, SetActive, ResetDepth, SetInactive, Reset, globals, process
  <2>2. ASSUME NEW s \in Sig, Register(s) PROVE TypesInv'
    <3>1. CASE kernel[s] = "defer"
      BY <1>0, <2>2, <3>1 DEF Register, globals, process
    <3>2. CASE kernel[s] # "defer"
      <4>1. kernel[s] \in Dispositions
        BY <3>2
      <4> QED BY <1>0, <2>2, <3>2, <4>1 DEF Register, globals, process
    <3> QED BY <3>1, <3>2
  <2> QED BY <1>3, <2>1, <2>2 DEF Request
<1>4. CASE Over
  BY <1>4 DEF Over, vars
<1>5. CASE Block \/ StoreDepth \/ LoadBlocked \/ Bailout
  BY <1>0, <1>5 DEF Block, StoreDepth, LoadBlocked, Bailout, Blocked, At, globals, process,
                    IInv, SectionsInv
<1>6. ASSUME NEW s \in Sig, Raise(s) \/ Deliver(s) \/ DeliverElsewhere(s) PROVE TypesInv'
  <2>1. CASE Raise(s) \/ Deliver(s)
    BY <1>0, <2>1 DEF Raise, Deliver, globals, program
  <2>2. CASE DeliverElsewhere(s)
    <3>1. kernel' \in [Sig -> Dispositions \cup {"defer"}]
      BY <2>2 DEF DeliverElsewhere, Dispositions
    <3> QED BY <1>0, <2>2, <3>1 DEF DeliverElsewhere, globals, program
  <2> QED BY <1>6, <2>1, <2>2
<1>7. ASSUME NEW s \in Sig, NEW act \in Installable, Install(s, act) PROVE TypesInv'
  <2>1. act \in Dispositions
    BY SignalAssumption
  <2> QED BY <1>0, <1>7, <2>1 DEF Install, Sigaction, globals, program
<1>8. ASSUME NEW theft \in Stealable, Steal(theft[1], theft[2]) PROVE TypesInv'
  <2>1. theft[1] \in Sig /\ theft[2] \in Dispositions
    BY SignalAssumption
  <2> QED BY <1>0, <1>8, <2>1 DEF Steal, globals, program
<1> QED BY <1>1, <1>2, <1>3, <1>4, <1>5, <1>6, <1>7, <1>8 DEF Next

\* Every step keeps the queue as the invariant says, and is a step of the
\* abstract queue or none.
LEMMA NextKeepsQueue ==
    ASSUME IInv, IInv', TypesInv, QueueInv, Next
    PROVE  QueueStep
<1>0. UNCHANGED build
  BY DEF Next
<1>1. CASE Interrupt
  BY <1>0, <1>1, MovesKeepQueue, ReturnsKeepQueue, HandlingMovesQueue DEF Interrupt
<1>2. CASE Macro
  BY <1>0, <1>2, SectionsKeepQueue, UnblockMovesQueue DEF Macro
<1>3. CASE Request
  BY <1>0, <1>3, SectionsKeepQueue, RequestMovesQueue DEF Request
<1>4. CASE Over
  BY <1>0, <1>4, OthersKeepQueue DEF Over, vars, globals, queue
<1>5. CASE Block \/ StoreDepth \/ LoadBlocked \/ Bailout
  BY <1>0, <1>5, SectionsKeepQueue
<1>6. ASSUME NEW s \in Sig, Raise(s) \/ Deliver(s) \/ DeliverElsewhere(s) PROVE QueueStep
  <2>1. CASE Deliver(s)
    BY <1>0, <2>1, DeliverKeepsQueue
  <2>2. CASE Raise(s) \/ DeliverElsewhere(s)
    BY <1>0, <2>2, OthersKeepQueue DEF Raise, DeliverElsewhere, program
  <2> QED BY <1>6, <2>1, <2>2
<1>7. ASSUME NEW s, NEW act, Install(s, act) PROVE QueueStep
  BY <1>0, <1>7, OthersKeepQueue DEF Install, program
<1>8. ASSUME NEW s, NEW act, Steal(s, act) PROVE QueueStep
  BY <1>0, <1>8, OthersKeepQueue DEF Steal, program
<1> QED BY <1>1, <1>2, <1>3, <1>4, <1>5, <1>6, <1>7, <1>8 DEF Next

\* Each cell is in one list, once.
LEMMA ListsConserve ==
    ASSUME IInv, QueueInv
    PROVE  CellsConserved
<1>1. PICK t \in Seq(Cell), p \in Seq(Cell), a \in Seq(Cell) : ListsAre(t, p, a)
  BY DEF QueueInv, ListsInv
<1>2. /\ Partition(t, p, a)
      /\ Linked(next, Taken, t) /\ Linked(next, phead, p) /\ Linked(next, pavail, a)
      /\ p # <<>> => ptail = p[Len(p)]
  BY <1>1 DEF ListsAre
<1>3. Chain(Taken) = CellsOf(t) /\ Chain(phead) = CellsOf(p) /\ Chain(pavail) = CellsOf(a)
  BY <1>2, ChainIsList
<1>4. Chain(Null) = {}
  <2>1. Linked(next, Null, <<>>) /\ <<>> \in Seq(Cell) /\ CellsOf(<<>>) = {}
    BY DEF Linked, CellsOf
  <2> QED BY <2>1, ChainIsList
<1> DEFINE n == Len(frames)
           L == Lists
<1>5. frames \in Seq(FrameShape) /\ OneHandlerAtATime /\ FramesInv
  BY DEF IInv, HandlersInv, QueueInv
<1>6. n \in Nat /\ DOMAIN frames = 1 .. n
  BY <1>5, LenProperties
<1>7. /\ DOMAIN L = 1 .. n + 2 /\ L[1] = phead /\ L[2] = pavail
      /\ \A i \in 3 .. n + 2 : L[i] = frames[i - 2].queue
  <2> DEFINE S == Cell \cup {Null}
             q == [i \in 1 .. n |-> frames[i].queue]
             h == <<phead, pavail>>
  <2>1. q \in Seq(S) /\ h \in Seq(S) /\ Len(h) = 2 /\ h[1] = phead /\ h[2] = pavail
    <3>1. \A i \in 1 .. n : frames[i].queue \in S
      <4> SUFFICES ASSUME NEW i \in 1 .. n PROVE frames[i].queue \in S
        OBVIOUS
      <4>1. frames[i] \in FrameShape
        BY <1>5, ElementOfSeq
      <4> QED BY <4>1 DEF FrameShape
    <3>2. q \in [1 .. n -> S]
      BY <3>1
    <3>3. q \in Seq(S)
      BY <1>6, <3>2, SeqDef
    <3>4. phead \in S /\ pavail \in S
      BY DEF IInv, CellsInv
    <3> QED BY <3>3, <3>4
  <2>2. Len(q) = n /\ \A i \in 1 .. n : q[i] = frames[i].queue
    <3>1. DOMAIN q = 1 .. n /\ \A i \in 1 .. n : q[i] = frames[i].queue
      OBVIOUS
    <3> HIDE DEF q, n, S
    <3>2. Len(q) \in Nat /\ DOMAIN q = 1 .. Len(q)
      BY <2>1, LenProperties
    <3>3. Len(q) = n
      BY <1>6, <2>1, <3>1
    <3> QED BY <3>1, <3>3
  <2> HIDE DEF q, h, S, n
  <2>3. /\ h \o q \in Seq(S) /\ Len(h \o q) = Len(h) + Len(q)
        /\ \A i \in 1 .. Len(h) + Len(q) : (h \o q)[i] = IF i <= Len(h) THEN h[i] ELSE q[i - Len(h)]
    BY <2>1, ConcatProperties
  <2>4. Len(h) + Len(q) = n + 2
    BY <1>6, <2>1, <2>2
  <2>5. DOMAIN (h \o q) = 1 .. n + 2
    BY <2>3, <2>4, LenProperties
  <2>6. L = h \o q
    BY DEF Lists, q, h, n
  <2>7. 1 \in 1 .. n + 2 /\ 2 \in 1 .. n + 2
    BY <1>6
  <2>8. (h \o q)[1] = phead /\ (h \o q)[2] = pavail
    BY <2>1, <2>3, <2>4, <2>7
  <2>9. ASSUME NEW i \in 3 .. n + 2 PROVE (h \o q)[i] = frames[i - 2].queue
    <3>1. i \in 1 .. n + 2 /\ ~(i <= 2) /\ i - 2 \in 1 .. n
      BY <1>6
    <3> QED BY <2>1, <2>2, <2>3, <2>4, <3>1
  <2> HIDE DEF L
  <2> QED BY <2>5, <2>6, <2>8, <2>9
<1> HIDE DEF L, n
<1>8. \A i \in 1 .. n + 2 : i = 1 \/ i = 2 \/ (i \in 3 .. n + 2 /\ i - 2 \in 1 .. n)
  BY <1>6
\* A frame that has cells is the handler's.
<1>9. ASSUME NEW i \in 3 .. n + 2, frames[i - 2].queue # Null
      PROVE  i - 2 \in Handling /\ frames[i - 2].queue = Taken
  <2>1. i - 2 \in DOMAIN frames
    BY <1>6, <1>8
  <2>2. i - 2 \in Handling
    BY <1>5, <1>9, <2>1 DEF FramesInv, Handling
  <2> QED BY <1>5, <2>2, TakenIs
<1>10. ASSUME Taken # Null
       PROVE  \E k \in 3 .. n + 2 : L[k] = Taken
  <2>1. PICK h \in Handling : TRUE
    BY <1>10 DEF Taken
  <2>2. h \in 1 .. n /\ Taken = frames[h].queue
    BY <1>5, <1>6, <2>1, TakenIs DEF Handling
  <2>3. h + 2 \in 3 .. n + 2 /\ (h + 2) - 2 = h
    BY <1>6, <2>2
  <2> QED BY <1>7, <2>2, <2>3
<1>11. ASSUME NEW c \in Cell
       PROVE  Cardinality({i \in DOMAIN L : c \in Chain(L[i])}) = 1
  <2> DEFINE I == {i \in DOMAIN L : c \in Chain(L[i])}
  <2>1. \A i \in 3 .. n + 2 : c \in Chain(L[i]) => i - 2 \in Handling /\ L[i] = Taken /\ c \in CellsOf(t)
    BY <1>3, <1>4, <1>7, <1>9
  <2>2. \A k : I = {k} => Cardinality(I) = 1
    BY FS_Singleton
  <2>3. 1 \in 1 .. n + 2 /\ 2 \in 1 .. n + 2 /\ \A i \in 3 .. n + 2 : i \in 1 .. n + 2
    BY <1>6
  <2> HIDE DEF I
  <2>4. CASE c \in CellsOf(p)
    <3>1. \A i \in DOMAIN L : c \in Chain(L[i]) => i = 1
      BY <1>2, <1>3, <1>7, <1>8, <2>1, <2>4 DEF Partition
    <3>2. 1 \in DOMAIN L /\ c \in Chain(L[1])
      BY <1>3, <1>7, <2>3, <2>4
    <3>3. I = {1}
      BY <3>1, <3>2 DEF I
    <3> QED BY <2>2, <3>3 DEF I
  <2>5. CASE c \in CellsOf(a)
    <3>1. \A i \in DOMAIN L : c \in Chain(L[i]) => i = 2
      BY <1>2, <1>3, <1>7, <1>8, <2>1, <2>5 DEF Partition
    <3>2. 2 \in DOMAIN L /\ c \in Chain(L[2])
      BY <1>3, <1>7, <2>3, <2>5
    <3>3. I = {2}
      BY <3>1, <3>2 DEF I
    <3> QED BY <2>2, <3>3 DEF I
  <2>6. CASE c \in CellsOf(t)
    <3>1. Taken # Null
      BY <1>3, <1>4, <2>6
    <3>2. PICK k \in 3 .. n + 2 : L[k] = Taken
      BY <1>10, <3>1
    <3>3. c \in Chain(L[k])
      BY <1>3, <2>6, <3>2
    <3>4. ASSUME NEW i \in DOMAIN L, c \in Chain(L[i]) PROVE i = k
      <4>1. i \in 3 .. n + 2
        BY <1>2, <1>3, <1>7, <1>8, <2>6, <3>4 DEF Partition
      <4>2. i - 2 \in Handling /\ k - 2 \in Handling
        BY <2>1, <3>3, <3>4, <4>1
      <4>3. i - 2 = k - 2
        BY <1>5, <4>2 DEF OneHandlerAtATime
      <4> QED BY <4>1, <4>3
    <3>5. k \in DOMAIN L
      BY <1>7, <2>3
    <3>6. I = {k}
      BY <3>3, <3>4, <3>5 DEF I
    <3> QED BY <2>2, <3>6 DEF I
  <2> QED BY <1>2, <2>4, <2>5, <2>6 DEF Partition, I
\* Every list ends.
<1>12. ASSUME NEW q, NEW s \in Seq(Cell), Linked(next, q, s), q # Null
       PROVE  \E c \in CellsOf(s) : next[c] = Null
  <2>1. s # <<>>
    BY <1>12, EmptyList
  <2>2. Len(s) \in Nat /\ DOMAIN s = 1 .. Len(s) /\ Len(s) # 0
    BY <2>1, ListShape
  <2>3. Len(s) \in 1 .. Len(s) /\ ~(Len(s) < Len(s))
    BY <2>2
  <2>4. next[s[Len(s)]] = Null
    BY <1>12, <2>2, <2>3 DEF Linked
  <2> QED BY <2>2, <2>3, <2>4 DEF CellsOf
<1>13. ASSUME NEW i \in DOMAIN L, L[i] # Null
       PROVE  \E c \in Chain(L[i]) : next[c] = Null
  <2>1. L[i] = phead \/ L[i] = pavail \/ L[i] = Taken
    BY <1>7, <1>8, <1>9, <1>13
  <2>2. t \in Seq(Cell) /\ p \in Seq(Cell) /\ a \in Seq(Cell)
    BY <1>2 DEF Partition
  <2> QED BY <1>2, <1>3, <1>12, <1>13, <2>1, <2>2
<1>14. phead # Null => ptail \in Chain(phead) /\ next[ptail] = Null
  <2> SUFFICES ASSUME phead # Null PROVE ptail \in CellsOf(p) /\ next[ptail] = Null
    BY <1>3
  <2>1. p # <<>> /\ p \in Seq(Cell)
    BY <1>2, EmptyList DEF Partition
  <2>2. Len(p) \in Nat /\ DOMAIN p = 1 .. Len(p) /\ Len(p) # 0
    BY <2>1, ListShape
  <2>3. Len(p) \in 1 .. Len(p) /\ ~(Len(p) < Len(p))
    BY <2>2
  <2>4. next[p[Len(p)]] = Null /\ p[Len(p)] \in CellsOf(p)
    BY <1>2, <2>2, <2>3 DEF Linked, CellsOf
  <2> QED BY <1>2, <2>1, <2>4
<1> QED BY <1>11, <1>13, <1>14 DEF CellsConserved, L

-----------------------------------------------------------------------------
\* At every access to memory between which a signal can interrupt
\* zend_signal_handler_defer, zend_signal_handler_unblock or the macros, the
\* cells taken, pending and available are three lists that share no cell and
\* leave none out; a queue that waits at depth zero is about to be seen.
THEOREM QueueInductive == Spec => [](IInv /\ TypesInv /\ QueueInv)
<1>1. Init => IInv /\ TypesInv /\ QueueInv
  BY InitEstablishes, InitQueue
<1>2. IInv /\ IInv' /\ (TypesInv /\ QueueInv) /\ [Next]_vars => (TypesInv /\ QueueInv)'
  <2> SUFFICES ASSUME IInv, IInv', TypesInv, QueueInv, [Next]_vars PROVE TypesInv' /\ QueueInv'
    OBVIOUS
  <2>1. CASE Next
    BY <2>1, TypesPreserved, NextKeepsQueue DEF QueueStep
  <2>2. CASE UNCHANGED vars
    <3>1. QueueInv'
      BY <2>2, OthersKeepQueue DEF vars, QueueStep, globals, queue
    <3>2. TypesInv'
      BY <2>2 DEF vars, TypesInv
    <3> QED BY <3>1, <3>2
  <2> QED BY <2>1, <2>2
<1> QED BY <1>1, <1>2, Inductive, PTL DEF Spec

\* Every variable stays in its range; in particular no handler is ever given
\* the signal of a cell that has been cleared.
THEOREM TypesCorrect == Spec => []TypeOK
<1>1. IInv /\ TypesInv /\ QueueInv => TypeOK
  <2> SUFFICES ASSUME IInv, TypesInv, QueueInv PROVE TypeOK
    OBVIOUS
  <2>1. frames \in Seq(Frames)
    <3>1. frames \in Seq(FrameShape) /\ FramesInv
      BY DEF IInv, HandlersInv, QueueInv
    <3>2. Len(frames) \in Nat /\ DOMAIN frames = 1 .. Len(frames)
          /\ frames \in [1 .. Len(frames) -> FrameShape]
      BY <3>1, LenProperties
    <3>3. \A i \in 1 .. Len(frames) : frames[i] \in Frames
      BY <3>1, <3>2 DEF FrameShape, Frames, FramesInv
    <3>4. frames \in [1 .. Len(frames) -> Frames]
      BY <3>2, <3>3
    <3> QED BY <3>2, <3>4, SeqDef
  <2>2. signo \in [Cell -> Sig \cup {NoSignal}] /\ mask \subseteq Sig
    BY DEF IInv, HandlersInv
  <2> QED BY <2>1, <2>2 DEF TypeOK, TypesInv, IInv, SectionsInv, CellsInv
<1> QED BY <1>1, QueueInductive, PTL

\* Interrupted or nested, the handler loses no cell of pstorage and links none
\* twice; and in a build that stores depth first no signal is left in the
\* queue when the program is outside of critical sections.
THEOREM QueueIsSound == Spec => []QueueSound
<1>1. IInv /\ QueueInv => NoneStranded
  BY DEF NoneStranded, QueueInv, WaitInv, Noticed, At, Handling
<1>2. IInv /\ TypesInv /\ QueueInv => QueueSound
  BY <1>1, ListsConserve DEF QueueSound
<1> QED BY <1>2, QueueInductive, PTL

\* The linked cells implement a bounded first-in first-out queue: signals that
\* came in critical sections are handled in their order, each once, and only
\* zend_signal_deactivate drops them.
THEOREM QueueRefines == Spec => ImplementsSignalQueue
<1>1. Init => Abstract!Init
  BY InitQueue
<1>2. IInv /\ IInv' /\ (TypesInv /\ QueueInv) /\ [Next]_vars => [Abstract!Next]_(Abstract!vars)
  <2> SUFFICES ASSUME IInv, IInv', TypesInv, QueueInv, [Next]_vars
               PROVE  [Abstract!Next]_(Abstract!vars)
    OBVIOUS
  <2>1. CASE Next
    BY <2>1, NextKeepsQueue DEF QueueStep
  <2>2. CASE UNCHANGED vars
    BY <2>2, OthersKeepQueue DEF vars, QueueStep, globals, queue
  <2> QED BY <2>1, <2>2
<1>3. Spec => Abstract!Spec
  BY <1>1, <1>2, QueueInductive, PTL DEF Spec, Abstract!Spec
<1> QED BY <1>3 DEF ImplementsSignalQueue
=============================================================================
