-------------------------- MODULE MCBundlerService --------------------------
(* A run of the service with few readiness attempts and up to two SIGHUPs, of
   a worker of two patched files; the repository's two revisions differ in the
   patches only. *)
EXTENDS BundlerService, TLC

CONSTANTS hup1, hup2

Symmetry == Permutations(Reloads)
MCPins == {[version |-> 1, patches |-> p, lock |-> 1] : p \in 1..2}
=============================================================================
