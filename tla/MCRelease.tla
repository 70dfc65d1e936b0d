----------------------------- MODULE MCRelease -----------------------------
(* Three runs: a rehearsal, and two that publish or recover. *)
EXTENDS Release, TLC

CONSTANTS r1, r2, r3, sums, archive, other, none

MCRuns == {r1, r2, r3}
MCNames == {sums, archive}
MCStamped == {sums}
MCIds == 1..9
MCBudgets == {[runs |-> 3, pushes |-> 2, versions |-> 1, changes |-> 0],
              [runs |-> 2, pushes |-> 2, versions |-> 2, changes |-> 0],
              [runs |-> 2, pushes |-> 2, versions |-> 1, changes |-> 1]}
MCSymmetry == Permutations(MCRuns)
=============================================================================
