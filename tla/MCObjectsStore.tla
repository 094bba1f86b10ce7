--------------------------- MODULE MCObjectsStore ---------------------------
(* Two objects for ObjectsStore: one of a class with a destructor, and a   *)
(* generator.                                                              *)
EXTENDS ObjectsStore

CONSTANTS d, g
=============================================================================
