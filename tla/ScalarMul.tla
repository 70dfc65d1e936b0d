------------------------------- MODULE ScalarMul -------------------------------
(***************************************************************************)
(* The three u*G + v*Q ladders of contracts/crypto and the signature check *)
(* of CardanoEd25519.sol that is built on them, one loop iteration per     *)
(* step: "checked" is ecCheckedMulAdd (2-bit windows over whole scalars),  *)
(* "precomputed" ecPrecomputedMulAdd (both halves of each scalar at once), *)
(* "table" EightDimensional.multiply over a 256-entry table. A key comes   *)
(* into use through the constructor or onInstall of the ladder's validator *)
(* (KernelPathValidator.sol), which runs ladders itself: to check the      *)
(* key's order, to shift the key, and to try its table once.               *)
(* The curve and the word size are parameters; SHA-512 is any scalar k,    *)
(* and the encoding of R is compared as the point it encodes.              *)
(***************************************************************************)
EXTENDS CurveArithmetic

CONSTANTS W,          \* bits of a scalar word (256 in the code), a multiple of 8
          N,          \* the prime order of the base point
          G,          \* the base point
          Keys,       \* for each ladder, the keys offered to its validator
          Scalars,    \* u of a multiplication, and the s of a signature
          Hashes,     \* k of a signature; v of a multiplication is N - k
          Points      \* the R of a signature

ASSUME WordAssumption == W \in Nat /\ W % 8 = 0 /\ W > 0 /\ N \in Nat /\ Hashes \subseteq 0..N
ASSUME ShiftAssumption == 2^(W \div 2) <= N
ASSUME ScalarAssumption == Scalars \subseteq Nat

Algorithms == {"checked", "precomputed", "table"}
ASSUME PointAssumption == \A q \in (UNION {Keys[l] : l \in Algorithms}) \cup {G} : q \in (0..(P - 1)) \X (0..(P - 1))

VARIABLES alg,        \* the ladder of the validator
          key,        \* Q, the public key
          pc,         \* where the constructor or the call is
          doublings,  \* pairs of shifted G and Q: 2^i, or for "precomputed" 2^(W/2), times
          table,      \* the ladder's table
          call,       \* the arguments of the call
          pos,        \* index of the mask's bit, or the bits left ("table")
          acc,        \* the accumulator
          out         \* the affine result, then the verdict of a signature

vars == <<alg, key, pc, doublings, table, call, pos, acc, out>>

NoCall == [kind |-> "none", u |-> 0, v |-> 0, r |-> Infinity]

Bit(x, i) == IF (x \div 2^i) % 2 = 1 THEN 1 ELSE 0

(* The ladder a call runs: the constructors' own calls are of the checked one. *)
LadderOf(c) == IF c.kind \in {"order", "shift"} THEN "checked" ELSE alg
Ladder == LadderOf(call)

(* A scalar is read as Lanes words of W / Lanes bits, side by side. *)
Lanes == CASE Ladder = "checked" -> 1 [] Ladder = "precomputed" -> 2 [] Ladder = "table" -> 4
LaneBits == W \div Lanes

(* Mutant: the multiple by N is computed and its result ignored. *)
OrderCheckedUnread ==
    /\ pc = "answer" /\ call.kind = "order"
    /\ pc' = IF alg = "checked" THEN "idle" ELSE "shift"
    /\ UNCHANGED <<alg, key, doublings, table, call, pos, acc, out>>

(* Mutant: the point at infinity is compared like any other. *)
AnswerInfinity ==
    /\ pc = "answer" /\ call.kind = "verify"
    /\ pc' = IF out = call.r THEN "accepted" ELSE "rejected"
    /\ UNCHANGED <<alg, key, doublings, table, call, pos, acc, out>>

(* The checks of _checkedOwner before the order's: an Edwards x of 0, which  *)
(* is y = 0 in this form, is out of range, and the point is on the curve.   *)
OnCurve(q) == LET Rest(r) == Add(Mul(r[2], r[2]), Neg(Mul(r[1], Add(Mul(r[1], r[1]), A)))) IN Rest(q) = Rest(G)
InRange(q) == q[2] # 0

(* The successive doublings of G, and gpow2p128 of the curve's constants. *)
GDoubled[i \in 0..(W \div 2)] == IF i = 0 THEN G ELSE AffineAdd(GDoubled[i - 1], GDoubled[i - 1])
GShifted == GDoubled[W \div 2]

(* CurvePrecompute.primeOrder: right-to-left double-and-add of N. *)
PrimeOrder(q) ==
    LET run[i \in 0..W] == IF i = 0 THEN <<Infinity, q>>
                           ELSE LET last == run[i - 1] IN
                                <<IF Bit(N, i - 1) = 1 THEN AffineAdd(last[1], last[2]) ELSE last[1],
                                  AffineAdd(last[2], last[2])>>
    IN run[W][1] = Infinity

(* Entry d is the sum d0*G + d1*2G + d2*Q + d3*2Q of the window's bits. *)
CheckedTable(q) ==
    LET g == <<G[1], G[2], 1, 1>>
        k == <<q[1], q[2], 1, 1>>
        g2 == Dbl(g)
        k1g == AddN2(g, q)
        k1g2 == AddN2(k1g, G)
        k2 == Dbl(k)
        k2g == AddN2(k2, G)
        k2g2 == AddN2(k2g, G)
        k3 == AddN2(k2, q)
        k3g == AddN2(k3, G)
        k3g2 == AddN2(k3g, G)
    IN <<g, g2, AddN2(g2, G), k, k1g, k1g2, AddN2(k1g2, G),
         k2, k2g, k2g2, AddN2(k2g2, G), k3, k3g, k3g2, AddN2(k3g2, G)>>

(* Entry d is the sum of G, gp = 2^(W/2)*G, Q and qp = 2^(W/2)*Q. *)
PrecomputedTable(q, gp, qp) ==
    LET Lift(a) == <<a[1], a[2], 1, 1>>
        gpq == AddN2(Lift(gp), q)
        qpgp == AddN2(Lift(qp), gp)
        qqp == AddN2(Lift(q), qp)
        gpqqp == AddN2(gpq, qp)
    IN <<Lift(G), Lift(gp), AddN2(Lift(gp), G), Lift(q), AddN2(Lift(q), G), gpq, AddN2(gpq, G),
         Lift(qp), AddN2(Lift(qp), G), qpgp, AddN2(qpgp, G), qqp, AddN2(qqp, G), gpqqp, AddN2(gpqqp, G)>>

Degenerate(entries) == \E d \in 1..15 : entries[d][3] = 0

(* Entry i adds the base of its lowest bit to the entry without that bit;  *)
(* entry 0, memory never written, reads <<0, 0>>, which is infinity.        *)
Base(b) == doublings[1 + (b % 4) * (W \div 4)][1 + (b \div 4)]
LowestBit(i) ==
    LET Low == {b \in 0..7 : Bit(i, b) = 1 /\ \A c \in 0..(b - 1) : Bit(i, c) = 0}
    IN IF Low = {} THEN 0 ELSE CHOOSE b \in Low : TRUE
Entry(i) ==
    LET previous == i - 2^LowestBit(i)
    IN AffineAdd(IF previous \in DOMAIN table THEN table[previous] ELSE Infinity, Base(LowestBit(i)))

(* The window's digit: bits of u, then bits of v above them. *)
CheckedDigit(m) ==
    Bit(call.u, m - 1) + 2 * Bit(call.u, m) + 4 * Bit(call.v, m - 1) + 8 * Bit(call.v, m)
PrecomputedDigit(m) ==
    LET h == W \div 2 IN
    Bit(call.u, m) + 2 * Bit(call.u, m + h) + 4 * Bit(call.v, m) + 8 * Bit(call.v, m + h)
TableDigit(m) ==
    LET h == W \div 4
        Nibble(x) == Bit(x, m) + 2 * Bit(x, m + h) + 4 * Bit(x, m + 2 * h) + 8 * Bit(x, m + 3 * h)
    IN Nibble(call.u) + 16 * Nibble(call.v)
---------------------------------------------------------------------------------
Init ==
    /\ alg \in Algorithms
    /\ key \in Keys[alg]
    /\ pc = "construct"
    /\ doublings = <<<<G, key>>>>
    /\ table = <<>>
    /\ call = NoCall
    /\ pos = 0
    /\ acc = NoPoint
    /\ out = Infinity

(* Both scalars zero is answered before any table is touched. *)
StartChecked(c) ==
    /\ LadderOf(c) = "checked"
    /\ table' = CheckedTable(key)
    /\ pos' = W - 1
    /\ pc' = IF c.u = 0 /\ c.v = 0 THEN "answer" ELSE "first"

(* The table fails closed when one of its entries is infinity. *)
StartPrecomputed(c) ==
    /\ LadderOf(c) = "precomputed"
    /\ table' = PrecomputedTable(key, doublings[2][1], doublings[2][2])
    /\ pos' = W \div 2 - 1
    /\ pc' = IF c.u = 0 /\ c.v = 0 THEN "answer" ELSE IF Degenerate(table') THEN "reverted" ELSE "first"

StartTable(c) ==
    /\ LadderOf(c) = "table"
    /\ UNCHANGED table
    /\ pos' = W \div 4
    /\ pc' = "loop"

Start(c) ==
    /\ call' = c
    /\ acc' = NoPoint
    /\ out' = Infinity
    /\ StartChecked(c) \/ StartPrecomputed(c) \/ StartTable(c)
    /\ UNCHANGED <<alg, key, doublings>>

(* _checkedOwner: the range and curve checks, then the order's, which the  *)
(* table's validator makes with affine additions, the others with a ladder. *)
RefuseKey ==
    /\ pc = "construct" /\ ~(InRange(key) /\ OnCurve(key))
    /\ pc' = "refused"
    /\ UNCHANGED <<alg, key, doublings, table, call, pos, acc, out>>

CheckTableKey ==
    /\ pc = "construct" /\ InRange(key) /\ OnCurve(key) /\ alg = "table"
    /\ pc' = IF PrimeOrder(key) THEN "double" ELSE "refused"
    /\ UNCHANGED <<alg, key, doublings, table, call, pos, acc, out>>

CheckOrder ==
    /\ pc = "construct" /\ InRange(key) /\ OnCurve(key) /\ alg # "table"
    /\ Start([kind |-> "order", u |-> 0, v |-> N, r |-> Infinity])

OrderChecked ==
    /\ pc = "answer" /\ call.kind = "order"
    /\ pc' = IF out # Infinity THEN "refused" ELSE IF alg = "checked" THEN "idle" ELSE "shift"
    /\ UNCHANGED <<alg, key, doublings, table, call, pos, acc, out>>

(* The constructor of the precomputed validator: Q is shifted by half a    *)
(* word, and the table is tried with 1*G + 0*Q.                            *)
Shift ==
    /\ pc = "shift"
    /\ Start([kind |-> "shift", u |-> 0, v |-> 2^(W \div 2), r |-> Infinity])

Shifted ==
    /\ pc = "answer" /\ call.kind = "shift"
    /\ doublings' = <<<<G, key>>, <<GShifted, out>>>>
    /\ pc' = "try"
    /\ UNCHANGED <<alg, key, table, call, pos, acc, out>>

TryTable ==
    /\ pc = "try"
    /\ Start([kind |-> "try", u |-> 1, v |-> 0, r |-> Infinity])

TableTried ==
    /\ pc = "answer" /\ call.kind = "try"
    /\ pc' = IF out = G THEN "idle" ELSE "refused"
    /\ UNCHANGED <<alg, key, doublings, table, call, pos, acc, out>>

(* Successive doublings of both points give the bases of the 256 entries.  *)
DoubleBases ==
    LET d == doublings[Len(doublings)] IN
    /\ pc = "double" /\ Len(doublings) < 3 * (W \div 4) + 1
    /\ doublings' = Append(doublings, <<AffineAdd(d[1], d[1]), AffineAdd(d[2], d[2])>>)
    /\ UNCHANGED <<alg, key, pc, table, call, pos, acc, out>>

AddEntry ==
    /\ pc = "double" /\ Len(doublings) = 3 * (W \div 4) + 1
    /\ table' = Append(table, Entry(Len(table) + 1))
    /\ pc' = IF Len(table') = 255 THEN "idle" ELSE pc
    /\ UNCHANGED <<alg, key, doublings, call, pos, acc, out>>

(* The harness multiplies any scalars. *)
Multiply ==
    /\ pc = "idle"
    /\ \E u \in Scalars, k \in Hashes : Start([kind |-> "multiply", u |-> u, v |-> N - k, r |-> Infinity])

(* verify, verifyPrecomputed, verifyTable: s out of range fails at once. *)
Verify ==
    /\ pc = "idle"
    /\ \E s \in Scalars, k \in Hashes, r \in Points :
         LET c == [kind |-> "verify", u |-> s, v |-> N - k, r |-> r] IN
         /\ k < N
         /\ IF s = 0 \/ s >= N
            THEN /\ call' = c /\ pc' = "rejected"
                 /\ UNCHANGED <<alg, key, doublings, table, pos, acc, out>>
            ELSE Start(c)

(* Leading zero windows are skipped; the first other one is loaded. *)
FirstWindow(digit, stride) ==
    /\ pc = "first"
    /\ pos' = pos - stride
    /\ IF digit = 0 THEN UNCHANGED <<acc, pc>> ELSE acc' = table[digit] /\ pc' = "loop"
    /\ UNCHANGED <<alg, key, doublings, table, call, out>>

FirstChecked == Ladder = "checked" /\ FirstWindow(CheckedDigit(pos), 2)
FirstPrecomputed == Ladder = "precomputed" /\ FirstWindow(PrecomputedDigit(pos), 1)

(* Two doublings, then the window's entry; Y is -Y in between.              *)
CheckedStep ==
    LET d == DblNeg(Dbl(acc))
        digit == CheckedDigit(pos)
    IN /\ pc = "loop" /\ Ladder = "checked" /\ pos > 0
       /\ acc' = IF digit = 0 THEN NegY(d) ELSE AddToNeg(d, table[digit])
       /\ pos' = pos - 2
       /\ UNCHANGED <<alg, key, pc, doublings, table, call, out>>

PrecomputedStep ==
    LET d == DblNeg(acc)
        digit == PrecomputedDigit(pos)
    IN /\ pc = "loop" /\ Ladder = "precomputed" /\ pos >= 0
       /\ acc' = IF digit = 0 THEN NegY(d) ELSE AddToNeg(d, table[digit])
       /\ pos' = pos - 1
       /\ UNCHANGED <<alg, key, pc, doublings, table, call, out>>

TableStep ==
    LET d == Double(acc)
        digit == TableDigit(pos - 1)
    IN /\ pc = "loop" /\ Ladder = "table" /\ pos > 0
       /\ acc' = IF digit = 0 THEN d ELSE Plus(d, table[digit])
       /\ pos' = pos - 1
       /\ UNCHANGED <<alg, key, pc, doublings, table, call, out>>

(* Normalization: the inverse of ZZZ = 0 is 0, which makes infinity <<0, 0>>. *)
Normalize ==
    /\ pc = "loop"
    /\ out' = Affine(acc)
    /\ pc' = "answer"
    /\ UNCHANGED <<alg, key, doublings, table, call, pos, acc>>

CheckedEnds == Ladder = "checked" /\ pos < 0 /\ Normalize
PrecomputedEnds == Ladder = "precomputed" /\ pos < 0 /\ Normalize
TableEnds == Ladder = "table" /\ pos = 0 /\ Normalize

(* The result is never infinity for a valid signature; R must be the result. *)
Answer ==
    /\ pc = "answer" /\ call.kind = "verify"
    /\ pc' = IF out # Infinity /\ out = call.r THEN "accepted" ELSE "rejected"
    /\ UNCHANGED <<alg, key, doublings, table, call, pos, acc, out>>

Next ==
    \/ RefuseKey \/ CheckTableKey \/ CheckOrder \/ OrderChecked
    \/ Shift \/ Shifted \/ TryTable \/ TableTried \/ DoubleBases \/ AddEntry
    \/ Multiply \/ Verify \/ FirstChecked \/ FirstPrecomputed
    \/ CheckedStep \/ PrecomputedStep \/ TableStep
    \/ CheckedEnds \/ PrecomputedEnds \/ TableEnds \/ Answer

Spec == Init /\ [][Next]_vars
---------------------------------------------------------------------------------
(* The reference: multiples k*q of a point by halving k, and u*G + v*q.     *)
Times(q) ==
    LET t[k \in 0..N] ==
            IF k = 0 THEN Infinity
            ELSE LET h == t[k \div 2] IN AffineAdd(AffineAdd(h, h), IF k % 2 = 1 THEN q ELSE Infinity)
    IN t
Multiples == [q \in {G} \cup UNION {Keys[l] : l \in Algorithms} |-> Times(q)]
Combination(u, v, q) == AffineAdd(Multiples[G][u % N], Multiples[q][v])

(* The part of a scalar the loop has consumed once the mask is at bit m.   *)
Consumed(x, m) ==
    LET Lane(j) == (x \div 2^(j * LaneBits)) % 2^LaneBits
        Part(j) == IF j < Lanes THEN 2^(j * LaneBits) * (Lane(j) \div 2^m) ELSE 0
    IN Part(0) + Part(1) + Part(2) + Part(3)

(* The keys ecCheckedMulAdd is documented not to work for: one of its own  *)
(* table entries, or the sum it takes to reach it, is infinity. Only the    *)
(* calls that read such entries are excepted.                               *)
WeakKey(q) == \E a \in 1..3, b \in 0..3 : Combination(b, a, q) = Infinity \/ Combination(N - b, a, q) = Infinity
Excepted == Ladder = "checked" /\ call.u # 0 /\ WeakKey(key)

Word == 0..P
XYZZ == Word \X Word \X Word \X Word

(* Words never exceed the modulus, so that sub(p, x) never wraps below     *)
(* zero, and the registers have the types of the assembly's.               *)
TypeOK ==
    /\ acc \in XYZZ
    /\ out \in Word \X Word
    /\ pc # "double" /\ Ladder # "table" => \A d \in 1..Len(table) : table[d] \in XYZZ
    /\ pc = "double" \/ Ladder = "table" => \A d \in 1..Len(table) : table[d] \in Word \X Word
    /\ \A d \in 1..Len(doublings) : doublings[d] \in (Word \X Word) \X (Word \X Word)

(* A validator takes a key into use only if it has the prime order, whatever  *)
(* point it is given and whatever entries of the ladder's own table, on which  *)
(* the check runs, are degenerate for that point.                              *)
DeployedKeysHavePrimeOrder ==
    (pc = "idle" \/ call.kind \in {"multiply", "verify"}) => key # Infinity /\ Multiples[key][N] = Infinity

(* Before every iteration of every ladder the accumulator is the           *)
(* combination of the scalars' consumed bits, through every equal,         *)
(* opposite and neutral pair the loop meets.                               *)
AccumulatorIsPrefix ==
    pc = "loop" /\ ~Excepted =>
        LET m == IF Ladder = "table" THEN pos ELSE pos + 1 IN
        Affine(acc) = Combination(Consumed(call.u, m), Consumed(call.v, m), key)

(* A signature is accepted exactly when s is in range and s*G = R + k*A,   *)
(* with R not the point at infinity; a multiplication returns the product. *)
VerdictIsEquation ==
    ~Excepted =>
        /\ pc = "accepted" =>
             call.u \in 1..(N - 1) /\ call.r # Infinity /\ Multiples[G][call.u] = AffineAdd(call.r, Multiples[key][N - call.v])
        /\ pc = "rejected" =>
             \/ call.u \notin 1..(N - 1) \/ call.r = Infinity
             \/ Multiples[G][call.u] # AffineAdd(call.r, Multiples[key][N - call.v])
        /\ pc = "answer" => out = Combination(call.u, call.v, key)
===============================================================================
