----------------------------- MODULE Delegation -----------------------------
(***************************************************************************)
(* What "yield from" promises a program, without a tree that is walked and *)
(* cached: to resume a generator is to run the one it delegates to, and    *)
(* what that one delegates to, as long as they are unfinished.  A          *)
(* generator is not run while it runs.                                     *)
(***************************************************************************)
EXTENDS Naturals, FiniteSets, Sequences, SequencesExt

CONSTANTS Gens, Nobody
VARIABLES delegate, unfinished, destroyed,
          calls     \* the bodies that run, each with the generator resumed
vars == <<delegate, unfinished, destroyed, calls>>

Init ==
    /\ delegate = [g \in Gens |-> Nobody]
    /\ unfinished = {} /\ destroyed = {} /\ calls = <<>>

Chain(o) ==
    LET up[n \in 0..Cardinality(Gens)] ==
            IF n = 0 THEN o
            ELSE LET below == up[n - 1]
                 IN IF delegate[below] = Nobody THEN below ELSE delegate[below]
    IN [n \in 1..Cardinality(Gens) + 1 |-> up[n - 1]]

Current(o) ==
    LET up[n \in 0..Cardinality(Gens)] ==
            IF n = 0 THEN o
            ELSE LET below == up[n - 1]
                 IN IF delegate[below] \in unfinished THEN delegate[below] ELSE below
    IN up[Cardinality(Gens)]

Runs(g) == \E i \in DOMAIN calls : calls[i][2] = g

Create(g) ==
    /\ g \notin unfinished /\ delegate[g] = Nobody
    /\ unfinished' = unfinished \cup {g}
    /\ UNCHANGED <<delegate, destroyed, calls>>

Run(o) ==
    /\ Current(o) \in unfinished /\ ~Runs(Current(o))
    /\ calls' = Append(calls, <<o, Current(o)>>)
    /\ UNCHANGED <<delegate, unfinished, destroyed>>

Pause ==
    /\ calls # <<>>
    /\ calls' = Front(calls)
    /\ UNCHANGED <<delegate, unfinished, destroyed>>

DelegateTo(h) ==
    /\ calls # <<>> /\ calls' = Front(calls)
    /\ LET g == Last(calls)[2]
       IN /\ delegate[g] = Nobody /\ ~Contains(Chain(h), g)
          /\ delegate' = [delegate EXCEPT ![g] = h]
    /\ UNCHANGED <<unfinished, destroyed>>

Finish ==
    /\ calls # <<>> /\ calls' = Front(calls)
    /\ unfinished' = unfinished \ {Last(calls)[2]}
    /\ UNCHANGED <<delegate, destroyed>>

\* A generator that does not run may be destroyed, closed and taken out of the chain.
Destroy(g) ==
    /\ ~Runs(g)
    /\ destroyed' = destroyed \cup {g}
    /\ UNCHANGED <<delegate, unfinished, calls>>
Close(g) ==
    /\ ~Runs(g)
    /\ unfinished' = unfinished \ {g}
    /\ UNCHANGED <<delegate, destroyed, calls>>
Leave(g) ==
    /\ delegate[g] \notin unfinished \/ g \in destroyed
    /\ delegate' = [delegate EXCEPT ![g] = Nobody]
    /\ UNCHANGED <<unfinished, destroyed, calls>>

Next ==
    \/ Pause \/ Finish
    \/ \E g \in Gens : Create(g) \/ Run(g) \/ DelegateTo(g) \/ Destroy(g) \/ Close(g) \/ Leave(g)

Spec == Init /\ [][Next]_vars
=============================================================================
