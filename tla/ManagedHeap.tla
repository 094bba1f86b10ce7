---------------------------- MODULE ManagedHeap ----------------------------
(***************************************************************************)
(* What reference counting, the collector and destructors together promise *)
(* a program about its objects: those it can reach stay as it left them,   *)
(* others may disappear at any time, though not before their destructor    *)
(* has been called.                                                        *)
(***************************************************************************)
EXTENDS Naturals

CONSTANTS Object, Slot, Owner, Global, Nil, HasDestructor

VARIABLES
    value,      \* what each slot holds
    alive,      \* objects
    finalized,  \* those whose destructor was called
    doomed,     \* those found unreachable whose destructor will be called
    running     \* destructors in progress: by depth, their objects

vars == <<value, alive, finalized, doomed, running>>

\* What can be reached from the objects S through slots that hold what h says.
Closed(T, h) == \A s \in Slot : Owner[s] \in T /\ h[s] # Nil => h[s] \in T
Reach(S, h) == {o \in Object : \A T \in SUBSET Object : S \ {Nil} \subseteq T /\ Closed(T, h) => o \in T}

Known ==
    Reach({value[s] : s \in {t \in Slot : Owner[t] = Global}} \cup {running[d] : d \in DOMAIN running}, value)

Init ==
    /\ value = [s \in Slot |-> Nil]
    /\ alive = {} /\ finalized = {} /\ doomed = {}
    /\ running = [d \in {} |-> Nil]

Assign(s, o) ==
    /\ value' = [value EXCEPT ![s] = o]
    /\ UNCHANGED <<alive, finalized, doomed, running>>

New(o, s) ==
    /\ o \notin alive
    /\ value' = [value EXCEPT ![s] = o]
    /\ alive' = alive \cup {o}
    /\ finalized' = finalized \ {o}
    /\ UNCHANGED <<doomed, running>>

Program(known) ==
    \E s \in {t \in Slot : Owner[t] \in known \cup {Global}} :
        \/ \E o \in known \cup {Nil} : Assign(s, o)
        \/ \E o \in Object : New(o, s)

Doom(known) ==
    /\ doomed \subseteq doomed'
    /\ (doomed' \ doomed) \cap (known \cup finalized) = {}
    /\ UNCHANGED <<value, alive, finalized, running>>

\* A destructor may be called for an object that another one has just revived.
Finalize(o, known) ==
    /\ o \in HasDestructor \ finalized
    /\ o \notin known \/ o \in doomed
    /\ finalized' = finalized \cup {o}
    /\ doomed' = doomed \ {o}
    /\ \E d \in DOMAIN running' :
        /\ \A e \in DOMAIN running : e < d
        /\ running' = [e \in DOMAIN running \cup {d} |-> IF e = d THEN o ELSE running[e]]
    /\ UNCHANGED <<value, alive>>

\* The innermost destructor returns.
Return ==
    /\ \E d \in DOMAIN running :
        /\ \A e \in DOMAIN running : e <= d
        /\ running' = [e \in DOMAIN running \ {d} |-> running[e]]
    /\ UNCHANGED <<value, alive, finalized, doomed>>

Reclaim(o, known) ==
    /\ o \notin known
    /\ o \in HasDestructor => o \in finalized
    /\ alive' = alive \ {o}
    /\ doomed' = doomed \ {o}
    /\ value' = [s \in Slot |-> IF Owner[s] = o THEN Nil ELSE value[s]]
    /\ UNCHANGED <<finalized, running>>

Next ==
    LET known == Known
    IN  \/ Program(known) \/ Doom(known) \/ Return
        \/ \E o \in alive : Finalize(o, known) \/ Reclaim(o, known)

Spec == Init /\ [][Next]_vars
=============================================================================
