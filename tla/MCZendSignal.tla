---------------------------- MODULE MCZendSignal ----------------------------
(* Two signals for ZendSignal: SIGPROF, whose default action is in place   *)
(* when PHP starts, and SIGTERM.                                           *)
EXTENDS ZendSignal, TLC

CONSTANTS prof, term

Originals == prof :> "default" @@ term :> "handler"
Stolen == {<<term, "handler">>}
NoneStolen == {}
=============================================================================
