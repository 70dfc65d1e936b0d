---------------------------- MODULE CurveArithmetic ----------------------------
(***************************************************************************)
(* The point formulas of contracts/crypto: a short Weierstrass curve       *)
(* y^2 = x^3 + A*x + b over the integers modulo P, in the XYZZ coordinates *)
(* <<X, Y, ZZ, ZZZ>> of x = X/ZZ, y = Y/ZZZ, where ZZ = 0 is the point at  *)
(* infinity, and in affine coordinates <<x, y>>, where <<0, 0>> is.        *)
(* Words keep the code's representation: sub(p, x) is P - x and not its    *)
(* residue, so a word that should be below P can be P.                     *)
(***************************************************************************)
EXTENDS Integers, Sequences

CONSTANTS P,      \* the field's modulus
          A       \* the curve's coefficient

ASSUME FieldAssumption == P \in Nat /\ P > 3 /\ A \in 0..(P - 1)

Infinity == <<0, 0>>
NoPoint == <<0, 0, 0, 0>>

Mul(x, y) == (x * y) % P
Add(x, y) == (x + y) % P
Neg(x) == P - x

(* The ModExp precompile with exponent p - 2: the inverse, and 0 for 0. *)
FieldInverse == [x \in 0..(P - 1) |->
    IF \E y \in 1..(P - 1) : Mul(x, y) = 1 THEN CHOOSE y \in 1..(P - 1) : Mul(x, y) = 1 ELSE 0]

(* Mutant: the last addition of -Y is left unreduced. *)
DblNegUnreduced(pt) ==
    LET u == Mul(2, pt[2])
        v == Mul(u, u)
        s == Mul(pt[1], v)
        w == Mul(u, v)
        m == Add(Mul(3, Mul(pt[1], pt[1])), Mul(A, Mul(pt[3], pt[3])))
        x == Add(Mul(m, m), Mul(Neg(2), s))
    IN <<x, Mul(w, pt[2]) + Mul(m, Add(x, Neg(s))), Mul(v, pt[3]), Mul(w, pt[4])>>

(* Doubling that returns -Y, as the inlined doublings of the ladders do. *)
DblNeg(pt) ==
    LET u == Mul(2, pt[2])
        v == Mul(u, u)
        s == Mul(pt[1], v)
        w == Mul(u, v)
        m == Add(Mul(3, Mul(pt[1], pt[1])), Mul(A, Mul(pt[3], pt[3])))
        x == Add(Mul(m, m), Mul(Neg(2), s))
    IN <<x, Add(Mul(w, pt[2]), Mul(m, Add(x, Neg(s)))), Mul(v, pt[3]), Mul(w, pt[4])>>

NegY(pt) == <<pt[1], Neg(pt[2]), pt[3], pt[4]>>

Dbl(pt) == NegY(DblNeg(pt))

(* The sum of pt and another point, given the differences r of their Y and *)
(* h of their X.                                                           *)
SumFrom(pt, r, h) ==
    LET hh == Mul(h, h)
        hhh == Mul(hh, h)
        v == Mul(pt[1], hh)
        x == Add(Add(Mul(r, r), Neg(hhh)), Mul(Neg(2), v))
    IN <<x, Add(Mul(Add(v, Neg(x)), r), Mul(Neg(pt[2]), hhh)), Mul(pt[3], hh), Mul(pt[4], hhh)>>

(* XYZZ + affine for the tables; neither may be infinity nor +/- the other. *)
AddN2(pt, q) ==
    SumFrom(pt, Add(Mul(q[2], pt[4]), Neg(pt[2])), Add(Mul(q[1], pt[3]), Neg(pt[1])))

(* The doubling inside the ladders' addition: pt holds -Y and the result Y. *)
DblOfNeg(pt) ==
    LET u == Mul(Neg(2), pt[2])
        v == Mul(u, u)
        s == Mul(pt[1], v)
        w == Mul(u, v)
        m == Add(Mul(3, Mul(pt[1], pt[1])), Mul(A, Mul(pt[3], pt[3])))
        x == Add(Mul(m, m), Mul(Neg(2), s))
    IN <<x, Add(Mul(m, Add(s, Neg(x))), Mul(w, pt[2])), Mul(v, pt[3]), Mul(w, pt[4])>>

(* Mutant: equal points are added as if they were different. *)
AddToNegDistinct(pt, t) ==
    LET r == Add(Mul(t[2], pt[4]), Mul(pt[2], t[4]))
        h == Add(Mul(t[1], pt[3]), Neg(Mul(pt[1], t[3])))
        hh == Mul(h, h)
        x == Add(Add(Mul(r, r), Neg(Mul(hh, h))), Mul(Mul(pt[1], t[3]), Mul(Neg(2), hh)))
    IN IF pt[3] = 0 THEN t
       ELSE <<x, Add(Mul(Add(Mul(Mul(pt[1], t[3]), hh), Neg(x)), r), Mul(Mul(pt[2], t[4]), Mul(hh, h))),
              Mul(Mul(pt[3], hh), t[3]), Mul(Mul(pt[4], Mul(hh, h)), t[4])>>

(* XYZZ + XYZZ, where pt holds -Y: the inlined addition of both ladders. *)
AddToNeg(pt, t) ==
    LET r == Add(Mul(t[2], pt[4]), Mul(pt[2], t[4]))
        h == Add(Mul(t[1], pt[3]), Neg(Mul(pt[1], t[3])))
        hh == Mul(h, h)
        hhh == Mul(hh, h)
        x1 == Mul(pt[1], t[3])
        v == Mul(x1, hh)
        x == Add(Add(Mul(r, r), Neg(hhh)), Mul(x1, Mul(Neg(2), hh)))
    IN IF pt[3] = 0 THEN t
       ELSE IF r = 0 /\ h = 0 THEN DblOfNeg(pt)
       ELSE <<x, Add(Mul(Add(v, Neg(x)), r), Mul(Mul(pt[2], t[4]), hhh)),
              Mul(Mul(pt[3], hh), t[3]), Mul(Mul(pt[4], hhh), t[4])>>

(* The complete doubling and mixed addition of EightDimensional. *)
Double(pt) ==
    LET u == Mul(2, pt[2])
        v == Mul(u, u)
        s == Mul(pt[1], v)
        w == Mul(u, v)
        m == Add(Mul(3, Mul(pt[1], pt[1])), Mul(A, Mul(pt[3], pt[3])))
        x == Add(Mul(m, m), Mul(Neg(2), s))
    IN <<x, Add(Mul(m, Add(s, Neg(x))), Neg(Mul(w, pt[2]))), Mul(v, pt[3]), Mul(w, pt[4])>>

Plus(pt, q) ==
    LET h == Add(Mul(q[1], pt[3]), Neg(pt[1]))
        r == Add(Mul(q[2], pt[4]), Neg(pt[2]))
        hh == Mul(h, h)
        hhh == Mul(hh, h)
        v == Mul(pt[1], hh)
        x == Add(Add(Mul(r, r), Neg(hhh)), Mul(Neg(2), v))
    IN IF q = Infinity THEN pt
       ELSE IF pt[3] = 0 THEN <<q[1], q[2], 1, 1>>
       ELSE IF h = 0 THEN IF r = 0 THEN Double(pt) ELSE NoPoint
       ELSE <<x, Add(Mul(r, Add(v, Neg(x))), Neg(Mul(pt[2], hhh))), Mul(pt[3], hh), Mul(pt[4], hhh)>>

(* CurvePrecompute.add: complete affine addition. *)
AffineAdd(q1, q2) ==
    LET slope == IF q1[1] = q2[1]
                 THEN Mul(Add(Mul(3, Mul(q1[1], q1[1])), A), FieldInverse[Mul(2, q1[2])])
                 ELSE Mul(Add(q2[2], Neg(q1[2])), FieldInverse[Add(q2[1], Neg(q1[1]))])
        x == Add(Add(Mul(slope, slope), Neg(q1[1])), Neg(q2[1]))
    IN IF q1 = Infinity THEN q2
       ELSE IF q2 = Infinity THEN q1
       ELSE IF q1[1] = q2[1] /\ (q1[2] # q2[2] \/ q1[2] = 0) THEN Infinity
       ELSE <<x, Add(Mul(slope, Add(q1[1], Neg(x))), Neg(q1[2]))>>

(* Back to affine coordinates with one inversion: zz/zzz = 1/z. *)
Affine(pt) ==
    LET i == FieldInverse[pt[4]]
        z == Mul(pt[3], i)
    IN <<Mul(pt[1], Mul(z, z)), Mul(pt[2], i)>>
===============================================================================
