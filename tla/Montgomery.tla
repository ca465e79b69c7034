----------------------------- MODULE Montgomery -----------------------------
(***************************************************************************)
(* The arithmetic of brainpoolP512 (krb5-brainpool/src/fiat): the field    *)
(* and the scalars, word by word in the Montgomery domain, and the         *)
(* inversion by division steps.  A number is a sequence of limbs, the      *)
(* least significant first, each below Base; the code has eight limbs of   *)
(* 64 bits and these two moduli, the model takes them as constants.  What  *)
(* the code adds without a carry is added modulo Base here.                *)
(***************************************************************************)
EXTENDS Integers, Sequences, SequencesExt

CONSTANTS
    Base,     \* 2^64
    Limbs,    \* 8
    Count,    \* 2^64, of the word that counts in divstep
    Field,    \* [m, mp, r2, one, half]: the modulus, -1/m modulo Base, R^2, R
    Scalar    \* and the precomputed power of 1/2, R being Base^Limbs

VARIABLES
    x, y,     \* the arguments
    out       \* [dom, op, val, s, n]: the operation, its result, and of an
              \* inversion its state and the division steps taken

vars == <<x, y, out>>

Eval(v) == FoldRight(LAMBDA limb, rest : limb + Base * rest, v, 0)
Zeros(n) == [i \in 1 .. n |-> 0]

(* addcarryx, subborrowx and mulx: a word and the carry, the borrow or the *)
(* high word.                                                              *)
AddCarryX(c, a, b) == <<(a + b + c) % Base, (a + b + c) \div Base>>
SubBorrowX(c, a, b) == <<(a - b - c) % Base, IF a - b - c < 0 THEN 1 ELSE 0>>
MulX(a, b) == <<(a * b) % Base, (a * b) \div Base>>

(* cmovznz and selectznz *)
CmovZnz(c, a, b) == IF c = 0 THEN a ELSE b
SelectZnz(c, v, w) == [i \in DOMAIN v |-> CmovZnz(c, v[i], w[i])]

(* A chain of one of them over the limbs, from the carry 0. *)
Link(acc, r) == [v |-> Append(acc.v, r[1]), c |-> r[2]]

Chain(Op(_, _, _), v, w) ==
    FoldLeft(LAMBDA acc, i : Link(acc, Op(acc.c, v[i], w[i])),
             [v |-> <<>>, c |-> 0], [i \in DOMAIN v |-> i])

(* One word times a number: the high words are added to the next low ones. *)
Joined(low, p, high) == <<low>> \o p.v \o <<(p.c + high) % Base>>

MulRow(k, v) ==
    Joined(MulX(k, v[1])[1],
           Chain(AddCarryX, [i \in 1 .. Limbs - 1 |-> MulX(k, v[i])[2]],
                            [i \in 1 .. Limbs - 1 |-> MulX(k, v[i + 1])[1]]),
           MulX(k, v[Limbs])[2])

(* The multiple of the modulus that clears the lowest limb, which goes. *)
Dropped(s, c) == Tail(s.v) \o <<(s.c + c) % Base>>

Reduce(md, v, c) ==
    Dropped(Chain(AddCarryX, v, MulRow(MulX(v[1], md.mp)[1], md.m)), c)

(* The last step of them all: the modulus is taken off unless that borrows *)
(* from the limb above.                                                    *)
TakenOff(v, s, top) == SelectZnz(SubBorrowX(s.c, top, 0)[2], s.v, v)

CondSub(md, v, top) == TakenOff(v, Chain(SubBorrowX, v, md.m), top)

Round(md, s) == Reduce(md, s.v, s.c)

Lowest(v) == SubSeq(v, 1, Limbs)

Mul(md, v, w) ==
    LET acc == FoldLeft(LAMBDA a, k : Round(md, Chain(AddCarryX, a, MulRow(k, w))),
                        Zeros(Limbs + 1), v)
    IN  CondSub(md, Lowest(acc), acc[Limbs + 1])

Square(md, v) == Mul(md, v, v)

Added(md, s) == CondSub(md, s.v, s.c)
Add(md, v, w) == Added(md, Chain(AddCarryX, v, w))

(* The modulus is put back after a borrow. *)
PutBack(md, s) == Chain(AddCarryX, s.v, SelectZnz(s.c, Zeros(Limbs), md.m)).v
Sub(md, v, w) == PutBack(md, Chain(SubBorrowX, v, w))
Opp(md, v) == PutBack(md, Chain(SubBorrowX, Zeros(Limbs), v))

-----------------------------------------------------------------------------
(* from_montgomery and the field's to_montgomery keep as many limbs as the *)
(* number has: what is carried out of them is added to the highest one.    *)
NarrowSum(s, high, row) == Tail(s.v) \o <<(s.c + high + Last(row)) % Base>>
NarrowBy(v, high, row) == NarrowSum(Chain(AddCarryX, v, Lowest(row)), high, row)
NarrowReduce(md, v, high) == NarrowBy(v, high, MulRow(MulX(v[1], md.mp)[1], md.m))

FromSum(s, top) == Append(s.v, (s.c + top) % Base)
FromRound(md, acc, k) ==
    NarrowReduce(md, FromSum(Chain(AddCarryX, Front(acc), <<k>> \o Zeros(Limbs - 2)),
                             Last(acc)), 0)

FromMontgomery(md, v) ==
    CondSub(md, FoldLeft(LAMBDA acc, k : FromRound(md, acc, k), Zeros(Limbs), v), 0)

(* The field's R^2 and modulus are together below R, so that no round      *)
(* leaves more than its limbs.                                             *)
ToSum(md, s, row) == NarrowReduce(md, s.v, s.c + Last(row))
ToRound(md, acc, row) == ToSum(md, Chain(AddCarryX, acc, Lowest(row)), row)

ToMontgomery(md, v) ==
    CondSub(md, FoldLeft(LAMBDA acc, k : ToRound(md, acc, MulRow(k, md.r2)), Zeros(Limbs), v), 0)

(* The scalars' are not: a carry is kept above the limbs. *)
WideSum(md, s, top, row) == Reduce(md, Append(s.v, (s.c + top + Last(row)) % Base), 0)
WideRound(md, acc, row) ==
    WideSum(md, Chain(AddCarryX, Lowest(acc), Lowest(row)), Last(acc), row)

(* Mutant of ScalarToMontgomery: the field's code with the scalars'        *)
(* constants.                                                              *)
ScalarToNarrow(v) == ToMontgomery(Scalar, v)

ScalarToMontgomery(v) ==
    LET acc == FoldLeft(LAMBDA a, k : WideRound(Scalar, a, MulRow(k, Scalar.r2)),
                        Zeros(Limbs + 1), v)
    IN  CondSub(Scalar, Lowest(acc), acc[Limbs + 1])

-----------------------------------------------------------------------------
(* divstep on s = [d, f, g, v, r]; f and g have one limb more and are      *)
(* signed.  d > 0 is the sign of -d.                                       *)
Msat(md) == Append(md.m, 0)
Negated(f) == Chain(AddCarryX, [i \in DOMAIN f |-> IF i = 1 THEN 1 ELSE 0],
                    [i \in DOMAIN f |-> Base - 1 - f[i]]).v
Minus(d) == (Count - d) % Count
Swaps(s) == IF Minus(s.d) >= Count \div 2 /\ s.g[1] % 2 = 1 THEN 1 ELSE 0

(* The arithmetic shift by one. *)
Halved(g) ==
    [i \in DOMAIN g |-> g[i] \div 2 + (Base \div 2) *
        (IF i < Len(g) THEN g[i + 1] % 2 ELSE g[i] \div (Base \div 2))]

(* Mutant of Combined: v is not doubled. *)
CombinedUndoubled(md, d, f, g, v, r, odd) ==
    [d |-> (d + 1) % Count, f |-> f, v |-> v,
     g |-> Halved(Chain(AddCarryX, g, SelectZnz(odd, Zeros(Limbs + 1), f)).v),
     r |-> Add(md, r, SelectZnz(odd, Zeros(Limbs), v))]

Combined(md, d, f, g, v, r, odd) ==
    [d |-> (d + 1) % Count, f |-> f, v |-> Add(md, v, v),
     g |-> Halved(Chain(AddCarryX, g, SelectZnz(odd, Zeros(Limbs + 1), f)).v),
     r |-> Add(md, r, SelectZnz(odd, Zeros(Limbs), v))]

Stepped(md, d, f, g, v, r) == Combined(md, d, f, g, v, r, g[1] % 2)

DivStep(md, s, swap) ==
    Stepped(md, IF swap = 1 THEN Minus(s.d) ELSE s.d, SelectZnz(swap, s.f, s.g),
            SelectZnz(swap, s.g, Negated(s.f)), SelectZnz(swap, s.v, s.r),
            SelectZnz(swap, s.r, Opp(md, s.v)))

(* The scalars' functions are the same over their own constants. *)
ScalarMul(v, w) == Mul(Scalar, v, w)
ScalarSquare(v) == Square(Scalar, v)
ScalarAdd(v, w) == Add(Scalar, v, w)
ScalarSub(v, w) == Sub(Scalar, v, w)
ScalarOpp(v) == Opp(Scalar, v)
ScalarFromMontgomery(v) == FromMontgomery(Scalar, v)
ScalarDivStep(s) == DivStep(Scalar, s, Swaps(s))

(* The number of division steps for a modulus of some bits, and the        *)
(* inversion that runs them: the sign of f decides that of v.              *)
Iterations(bits) == IF bits < 46 THEN (49 * bits + 80) \div 17 ELSE (49 * bits + 57) \div 17
Bits == CHOOSE b \in 1 .. 30 : 2 ^ b > Eval(Field.m) /\ 2 ^ (b - 1) <= Eval(Field.m)

InvertStart(md, v) == [d |-> 1, f |-> Msat(md), g |-> Append(FromMontgomery(md, v), 0),
                       v |-> Zeros(Limbs), r |-> md.one]
InvertEnd(md, s) ==
    Mul(md, SelectZnz(Last(s.f) \div (Base \div 2), s.v, Opp(md, s.v)), md.half)

-----------------------------------------------------------------------------
Number(n) == [i \in 1 .. Limbs |-> (n \div Base ^ (i - 1)) % Base]
Domains == [field |-> Field, scalar |-> Scalar]

Init ==
    \E dom \in DOMAIN Domains :
       /\ x \in {Number(n) : n \in 0 .. Eval(Domains[dom].m) - 1}
       /\ y \in {Number(n) : n \in 0 .. Eval(Domains[dom].m) - 1}
       /\ out = [dom |-> dom, op |-> "none", val |-> <<>>, s |-> <<>>, n |-> 0]

Does(val, op) == out' = [out EXCEPT !.op = op, !.val = val, !.s = <<>>] /\ UNCHANGED <<x, y>>

Inverts(s) == y = x /\ out' = [out EXCEPT !.op = "invert", !.s = <<s>>] /\ UNCHANGED <<x, y>>

FieldSteps ==
    /\ out.dom = "field" /\ out.op = "none"
    /\ \/ Does(Mul(Field, x, y), "mul")
       \/ Does(Square(Field, x), "square")
       \/ Does(Add(Field, x, y), "add")
       \/ Does(Sub(Field, x, y), "sub")
       \/ Does(Opp(Field, x), "opp")
       \/ Does(FromMontgomery(Field, x), "from")
       \/ Does(ToMontgomery(Field, x), "to")
       \/ Inverts(InvertStart(Field, x))

ScalarSteps ==
    /\ out.dom = "scalar" /\ out.op = "none"
    /\ \/ Does(ScalarMul(x, y), "mul")
       \/ Does(ScalarSquare(x), "square")
       \/ Does(ScalarAdd(x, y), "add")
       \/ Does(ScalarSub(x, y), "sub")
       \/ Does(ScalarOpp(x), "opp")
       \/ Does(ScalarFromMontgomery(x), "from")
       \/ Does(ScalarToMontgomery(x), "to")
       \/ Inverts(InvertStart(Scalar, x))

InvertSteps ==
    /\ out.op = "invert" /\ out.n < Iterations(Bits) /\ UNCHANGED <<x, y>>
    /\ \/ /\ out.dom = "field"
          /\ out' = [out EXCEPT !.n = @ + 1, !.s = <<DivStep(Field, @[1], Swaps(@[1]))>>]
       \/ /\ out.dom = "scalar"
          /\ out' = [out EXCEPT !.n = @ + 1, !.s = <<ScalarDivStep(@[1])>>]

InvertEnds ==
    /\ out.op = "invert" /\ out.n = Iterations(Bits)
    /\ Does(InvertEnd(Domains[out.dom], out.s[1]), "inverse")

Next == FieldSteps \/ ScalarSteps \/ InvertSteps \/ InvertEnds

Spec == Init /\ [][Next]_vars

-----------------------------------------------------------------------------
(* Every operation of the field and of the scalars gives the one number    *)
(* below the modulus that arithmetic modulo the modulus gives, whatever    *)
(* the carries, and the inversion ends with the inverse of any number      *)
(* after the number of steps it is given.                                  *)
R == Base ^ Limbs

Right(op, a, b, z, m) ==
    /\ z < m
    /\ CASE op = "mul" -> (z * R) % m = (a * b) % m
         [] op = "square" -> (z * R) % m = (a * a) % m
         [] op = "add" -> z = (a + b) % m
         [] op = "sub" -> z = (a - b) % m
         [] op = "opp" -> z = (m - a) % m
         [] op = "from" -> (z * R) % m = a
         [] op = "to" -> z = (a * R) % m
         [] op = "inverse" -> IF a = 0 THEN z = 0 ELSE (a * z) % m = (R * R) % m

ArithmeticIsExact ==
    out.op \notin {"none", "invert"} =>
       Right(out.op, Eval(x), Eval(y), Eval(out.val), Eval(Domains[out.dom].m))
=============================================================================
