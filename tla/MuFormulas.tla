----------------------------- MODULE MuFormulas -----------------------------
(***************************************************************************)
(* The formulas and terms that musimp hands to the mu-calculus model       *)
(* checker: the constructors of src/src/BDD/mu/src/mu.c and the encodings  *)
(* of numbers, ranges and enumerations as bits of src/src/BDD/mu.lisp.     *)
(*                                                                         *)
(* A formula denotes a Boolean function of the user's variables; a term    *)
(* denotes a relation, whose arguments are the placeholders $0, $1, ...    *)
(* The variables of a quantifier or an abstraction are kept as indices of  *)
(* the BDD package, those of formulas as ids 1, 2, ...                     *)
(***************************************************************************)
EXTENDS Integers, Sequences, SequencesExt

VAR_ID_2_BDD_IDX(i) == 2 * (i - 1)
PHV_ID_2_BDD_IDX(i) == 2 * i + 1
Indices(vars) == [i \in DOMAIN vars |-> VAR_ID_2_BDD_IDX(vars[i])]

MU_ANY_ARITY == 0
MU_UNKNOWN_ARITY == 2147483647

(***************************************************************************)
(* Formulas.                                                               *)
(***************************************************************************)
Constant(value) == [type |-> "CONSTANT", value |-> value]
BoolVar(i) == [type |-> "B_VAR", var |-> i]
Not(f) == [type |-> "NOT", sub |-> f]
Binary(type, f, g) == [type |-> type, left |-> f, right |-> g]
IfThenElse(c, f, g) == [type |-> "ITE", cond |-> c, then |-> f, else |-> g]
Quantifier(existential, vars, f) ==
  [type |-> "QUANTIFIED", existential |-> existential, vars |-> Indices(vars), f |-> f]
Difference(vars, f) == [type |-> "DIFF", vars |-> Indices(vars), f |-> f]
Application(R, args) == [type |-> "APPLY", term |-> R, args |-> args]
OneOfThese(subs) == [type |-> "ONE_OF", args |-> subs]
NoneOfThese(subs) == [type |-> "NONE_OF", args |-> subs]
Substitution(f, i, g) == [type |-> "SUBST", f |-> f, var |-> i, g |-> g]

(***************************************************************************)
(* Terms.  A constant or a declared relation variable has any arity; a     *)
(* binary term takes the larger of two arities.  Arities that do not fit   *)
(* together are only complained about, by functions that are empty here.   *)
(***************************************************************************)
ConstantTerm(value) ==
  [type |-> "CONSTANT", value |-> value, arity |-> MU_ANY_ARITY]
RelVar(Z) == [type |-> "R_VAR", var |-> Z, arity |-> MU_ANY_ARITY]
NotTerm(T) == [type |-> "NOT", sub |-> T, arity |-> T.arity]
CombineArities(T1, T2) == IF T1.arity > T2.arity THEN T1.arity ELSE T2.arity
BinaryTerm(type, T1, T2) ==
  [type |-> type, left |-> T1, right |-> T2, arity |-> CombineArities(T1, T2)]
FixedPoint(least, Z, T) ==
  [type |-> "FIXED_POINT", least |-> least, var |-> Z, term |-> T, arity |-> T.arity]
Reach(N, S0, Inv) ==
  [type |-> "REACH", N |-> N, S0 |-> S0, Inv |-> Inv, arity |-> S0.arity]

\* L vars . FA (vars) is taken to be FA, whatever FA is.
EtaReducible(vars, f) ==
  /\ f.type = "APPLY"
  /\ Len(f.args) = Len(vars)
  /\ \A i \in DOMAIN vars : f.args[i].type = "B_VAR" /\ f.args[i].var = vars[i]
Abstraction(vars, f) ==
  IF EtaReducible(vars, f) THEN f.term
  ELSE [type |-> "ABSTRACT", vars |-> Indices(vars), f |-> f, arity |-> Len(vars)]

(***************************************************************************)
(* The encodings.  Bits are listed from the least significant one on.      *)
(***************************************************************************)
And(f, g) == Binary("and", f, g)
Or(f, g) == Binary("or", f, g)
Equiv(f, g) == Binary("equiv", f, g)

Conjunction(fs) ==
  IF fs = <<>> THEN Constant(TRUE) ELSE FoldRight(And, Front(fs), Last(fs))
Disjunction(fs) ==
  IF fs = <<>> THEN Constant(FALSE) ELSE FoldRight(Or, Front(fs), Last(fs))

\* integer-length and logbitp
BitsNeeded(n) == CHOOSE k \in 0 .. n : n < 2^k /\ (k = 0 \/ n >= 2^(k - 1))
Bit(n, i) == (n \div 2^i) % 2 = 1
ConvertNumber(n) ==
  IF n = 0 THEN <<Constant(FALSE)>>
  ELSE [i \in 1 .. BitsNeeded(n) |-> Constant(Bit(n, i - 1))]

AllBut(k, s) == SubSeq(s, k + 1, Len(s))
ShorterLength(a, b) == IF Len(a) < Len(b) THEN Len(a) ELSE Len(b)
AddPositive(f, bits) == FoldLeft(LAMBDA g, b : Or(b, g), f, bits)
AddNegated(f, bits) == FoldLeft(LAMBDA g, b : And(g, Not(b)), f, bits)

\* What the bits both numbers have say; then the bits one number has alone.
LessHere(a, b) == And(Not(a), b)
LessBelow(f, a, b) == Or(LessHere(a, b), And(Equiv(a, b), f))
Compared(first, as, bs) ==
  FoldLeft(LAMBDA f, i : LessBelow(f, as[i], bs[i]), first,
           [i \in 1 .. ShorterLength(as, bs) - 1 |-> i + 1])
Longer(f, as, bs) ==
  IF Len(as) <= Len(bs) THEN AddPositive(f, AllBut(Len(as), bs))
  ELSE AddNegated(f, AllBut(Len(bs), as))

CreateMuLt(as, bs) == Longer(Compared(LessHere(as[1], bs[1]), as, bs), as, bs)
CreateMuLe(as, bs) ==
  Longer(Compared(Or(LessHere(as[1], bs[1]), Equiv(as[1], bs[1])), as, bs), as, bs)
CreateMuEq(as, bs) ==
  LET n == ShorterLength(as, bs)
      same == FoldLeft(LAMBDA f, i : And(f, Equiv(as[i], bs[i])), Equiv(as[1], bs[1]),
                       [i \in 1 .. n - 1 |-> i + 1])
  IN AddNegated(same, AllBut(n, IF Len(as) > n THEN as ELSE bs))

\* lo <= bits <= hi, where no number needs more bits than there are.
Upwards(step(_, _), first, bits) ==
  FoldLeft(step, first, [i \in 1 .. Len(bits) - 1 |-> i])
MakeGeq(bits, n) ==
  Upwards(LAMBDA f, i : IF Bit(n, i) THEN And(bits[i + 1], f) ELSE Or(bits[i + 1], f),
          IF Bit(n, 0) THEN bits[1] ELSE Constant(TRUE), bits)
MakeLeq(bits, n) ==
  Upwards(LAMBDA f, i : IF Bit(n, i) THEN Or(Not(bits[i + 1]), f)
                        ELSE And(Not(bits[i + 1]), f),
          IF Bit(n, 0) THEN Constant(TRUE) ELSE Not(bits[1]), bits)
SubrangeInclusive(bits, lo, hi) == Conjunction(<<MakeGeq(bits, lo), MakeLeq(bits, hi)>>)

\* An enumeration of num + 1 values: the position is at most num.
ScalarInclusive(bits, num) == MakeLeq(bits, num)

\* recognizer(x): the bits of x are those of the constructor's position.
Recognizer(bits, position) ==
  Conjunction(Reverse([i \in DOMAIN bits |->
                         IF Bit(position, i - 1) THEN bits[i] ELSE Not(bits[i])]))
=============================================================================
