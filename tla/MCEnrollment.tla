----------------------------- MODULE MCEnrollment -----------------------------
(* Two replicas of different configurations share one SQLite database. *)
EXTENDS Enrollment, TLC

CONSTANTS r1, r2, current, former

MCScopeOf == (r1 :> current) @@ (r2 :> former)
MCTimes == 0..1
Symmetry == Permutations(Requests) \cup Permutations(Ids)
===============================================================================
