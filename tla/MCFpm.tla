------------------------------- MODULE MCFpm -------------------------------
(* A pool of two children for Fpm. *)
EXTENDS Fpm, TLC

CONSTANTS Admins, Conns, Crashes, Forks

Bounds == "admin" :> Admins @@ "conn" :> Conns @@ "crash" :> Crashes @@ "fork" :> Forks
SlotSymmetry == Permutations(Slot)
=============================================================================
