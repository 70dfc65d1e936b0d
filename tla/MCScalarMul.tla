----------------------------- MODULE MCScalarMul -----------------------------
(* y^2 = x^3 + 7x + 11 over the integers mod 877: 8 * 107 points, like the   *)
(* cofactor 8 of the real curve. The word is 8 bits, so that every ladder    *)
(* has several windows; the key offered to a validator has order 107, 2, 4,  *)
(* 8 or 856, or is not on the curve.                                       *)
EXTENDS ScalarMul

MCG == <<87, 247>>
MCMultiple(k) == Times(MCG)[k]
MCOtherKeys == {<<361, 0>>, <<557, 532>>, <<696, 99>>, <<3, 201>>, <<5, 5>>}
MCKeys == [l \in Algorithms |-> MCOtherKeys \cup
    {MCMultiple(k) : k \in IF l = "table" THEN {2, 45} ELSE {2, 45, 61, 106}}]
MCScalars == {0, 1, 2, 16, 37, 61, 106, 107}
MCHashes == 0..107
MCPoints == {Infinity, MCMultiple(9)}
===============================================================================
