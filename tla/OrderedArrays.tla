--------------------------- MODULE OrderedArrays ---------------------------
(***************************************************************************)
(* What the hash tables of Zend/zend_hash.c promise a PHP program: every   *)
(* variable holds an array of its own, an ordered map with one current     *)
(* element.  Buckets, holes, chains, growth, conversion, sharing and       *)
(* separation cannot be observed, with one exception: a pointer at the end *)
(* of an array whose table is shared starts over when the variable gets    *)
(* its own copy (zend_array_dup).  And one mistake: a pointer that was at  *)
(* the end when an element came after a gap, and has not moved since, is   *)
(* not carried along when the gap is closed (zend_hash_rehash).  Insertion *)
(* of another element may move it past the elements it should be on.       *)
(***************************************************************************)
EXTENDS Naturals, Sequences, SequencesExt

CONSTANTS Vars, Keys
VARIABLE array      \* keys in order; the number of keys before the pointer;
                    \* late: whether it stands before a gap

AtEnd(a) == a.current = Len(a.keys)

\* What v may hold, for an array that other variables may hold too, when it
\* is about to be written to.
Mine(a, v) ==
    {a} \cup IF AtEnd(a) /\ \E w \in Vars \ {v} : array[w] = a
             THEN {[a EXCEPT !.current = 0]} ELSE {}

Clear(new) == new = [keys |-> <<>>, current |-> 0, late |-> FALSE]

\* A new key goes to the end.  A pointer at the end may come to stand on it.
Insert(a, new) ==
    /\ Len(new.keys) = Len(a.keys) + 1
    /\ Front(new.keys) = a.keys
    /\ ~Contains(a.keys, Last(new.keys))
    /\ \/ new.current = a.current
       \/ AtEnd(a) /\ new.current = a.current + 1
       \/ a.late /\ new.current \in a.current .. Len(new.keys)
    /\ new.late => a.late \/ AtEnd(a)

\* A pointer on the removed key moves to the one after it.
Erase(a, new) == \E n \in DOMAIN a.keys :
    /\ new.keys = RemoveAt(a.keys, n)
    /\ new.current = IF a.current >= n THEN a.current - 1 ELSE a.current
    /\ new.late => a.late

\* reset, next, end, or nothing.
Move(a, new) ==
    /\ new.keys = a.keys
    /\ new.current \in {a.current, 0, a.current + 1, Len(a.keys) - 1} \cap 0 .. Len(a.keys)
    /\ new.late => a.late

Init ==
    /\ array \in [Vars -> [keys : Seq(Keys), current : Nat, late : {FALSE}]]
    /\ \A v \in Vars : IsInjective(array[v].keys) /\ array[v].current <= Len(array[v].keys)

\* The array of one variable changes; \E computes it once.
Next == \E v \in Vars : \E old \in {array[v]}, new \in {array'[v]} :
    /\ \A w \in Vars \ {v} : array'[w] = array[w]
    /\ \/ Clear(new)
       \/ \E w \in Vars : new = array[w]
       \/ \E a \in Mine(old, v) : Insert(a, new) \/ Erase(a, new) \/ Move(a, new)

Spec == Init /\ [][Next]_array
=============================================================================
