---------------------------- MODULE SignalQueue ----------------------------
(***************************************************************************)
(* What zend_signal.c promises of the signals that it defers: a bounded    *)
(* first-in first-out queue, which only the end of the request empties     *)
(* without the handlers being called.                                      *)
(***************************************************************************)
EXTENDS Naturals, Sequences

CONSTANTS Sig, QueueSize

VARIABLES
    deferred,   \* the signals that wait for the end of a critical section
    serving     \* a request is being served

vars == <<deferred, serving>>

Init == deferred = <<>> /\ serving = FALSE

Defer(s) ==
    /\ serving
    /\ Len(deferred) < QueueSize
    /\ deferred' = Append(deferred, s)
    /\ UNCHANGED serving

Handle ==
    /\ serving
    /\ deferred # <<>>
    /\ deferred' = Tail(deferred)
    /\ UNCHANGED serving

Begin == serving' = TRUE /\ deferred = <<>> /\ UNCHANGED deferred

End == serving' = FALSE /\ UNCHANGED deferred

Discard == ~serving /\ deferred' = <<>> /\ UNCHANGED serving

Next == (\E s \in Sig : Defer(s)) \/ Handle \/ Begin \/ End \/ Discard

Spec == Init /\ [][Next]_vars
=============================================================================
