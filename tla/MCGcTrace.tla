----------------------------- MODULE MCGcTrace -----------------------------
(* Small heaps for GcTrace, of two kinds.  In the first an object with a   *)
(* destructor, an object, an array and a reference refer to one another in *)
(* every way; in the second the object has a properties table.             *)
EXTENDS GcTrace, TLC

CONSTANTS d, o, a, h, r, d1, ot, op, a1, a2, h1, r1

SlotOwner == d1 :> d @@ ot :> o @@ op :> o @@ a1 :> a @@ a2 :> a @@ h1 :> h @@ r1 :> r

\* Every heap of its kind, but for the order of the two slots of the array, on
\* which no traversal depends, and some self-references.
Rank == NoNode :> 0 @@ d :> 1 @@ o :> 2 @@ a :> 3 @@ h :> 4 @@ r :> 5
Plain(f) == f[ot] = NoNode /\ f[h1] = NoNode /\ f[a2] = NoNode /\ f[r1] # r /\ \A s \in Slot : f[s] # h
WithTable(f) == f[op] = NoNode /\ f[r1] = NoNode /\ f[ot] \in {a, h, NoNode} /\ \A s \in Slot : f[s] # r
SmallHeaps ==
    {f \in [Slot -> Node \cup {NoNode}] :
        /\ f[op] # o /\ f[h1] # h
        /\ Rank[f[a1]] <= Rank[f[a2]]
        /\ Plain(f) \/ WithTable(f)}

\* The program holds one value or none.
AtMostOne == {[n \in Node |-> IF n = m THEN 1 ELSE 0] : m \in {d, o, a, NoNode}}
=============================================================================
