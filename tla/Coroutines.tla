----------------------------- MODULE Coroutines -----------------------------
(***************************************************************************)
(* What fibers promise a program: one stack of coroutines with the main    *)
(* program at its bottom.  Only the top runs.  It may call a coroutine     *)
(* that is fresh or suspended, and give control back to the one below,     *)
(* suspended or for good.                                                  *)
(***************************************************************************)
EXTENDS Naturals, Sequences, SequencesExt

CONSTANTS Fibers, Main
VARIABLES chain, suspended, ended

Init == chain = <<Main>> /\ suspended = {} /\ ended = {}

Call(f) ==
    /\ f \notin ended /\ ~Contains(chain, f)
    /\ chain' = Append(chain, f)
    /\ suspended' = suspended \ {f}
    /\ UNCHANGED ended

Suspend ==
    /\ Len(chain) > 1
    /\ chain' = Front(chain)
    /\ suspended' = suspended \cup {Last(chain)}
    /\ UNCHANGED ended

End ==
    /\ Len(chain) > 1
    /\ chain' = Front(chain)
    /\ ended' = ended \cup {Last(chain)}
    /\ UNCHANGED suspended

Next == Suspend \/ End \/ \E f \in Fibers : Call(f)

Spec == Init /\ [][Next]_<<chain, suspended, ended>>
=============================================================================
