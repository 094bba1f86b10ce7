------------------------------ MODULE MCZendGC ------------------------------
(* A variable, and three objects with a property, two with a destructor.    *)
EXTENDS ZendGC, TLC

CONSTANTS d, e, plain

SlotOwner == <<Global, d, e, plain>>
=============================================================================
