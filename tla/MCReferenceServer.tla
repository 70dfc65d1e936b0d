------------------------- MODULE MCReferenceServer -------------------------
(* An account enrolls again when its session expired, with requests still under
   way, or after a restart, and submits the same operation from both sessions,
   on any route; two others, through a bundler, fill the operation limit. *)
EXTENDS ReferenceServer, TLC

CONSTANTS s1, s2, h1, h2, h3

MCAsks == [s \in Sessions |-> {h1} \X Modes \cup IF s = s1 THEN {} ELSE {h2, h3} \X {"bundler"}]
Symmetry == Permutations(Requests) \cup Permutations({h2, h3})
============================================================================
