------------------------------ MODULE BddTriples -----------------------------
(***************************************************************************)
(* The if-then-else of the BDD package before its recursion                *)
(* (src/src/BDD/bdd/src/bdd.c, bdd_ite_aux): the cases that need none, the *)
(* standard triple that stands for all the equivalent ones, the cofactors  *)
(* by the topmost variable.                                                *)
(***************************************************************************)
EXTENDS BddStore

\* IS_SMALLER_F
Before(e, q, f, r) == q < r \/ (q = r /\ e < f)
Smaller(s, e, f) == Before(e, Rank(s, e), f, Rank(s, f))

\* EXP_POS2_F, EXP_NEG2_F: the cofactor by the variable of rank r.
ExpPos(s, e, r) == IF r < Rank(s, e) THEN e ELSE CofactorPos(s, e)
ExpNeg(s, e, r) == IF r < Rank(s, e) THEN e ELSE CofactorNeg(s, e)

TopRank(s, edges) ==
  LET ranks == {Rank(s, e) : e \in edges}
  IN CHOOSE r \in ranks : \A q \in ranks : r <= q

(***************************************************************************)
(* ite(F, G, H): the cases decided without recursion, and the rewriting of *)
(* the others into the one triple that stands for all equivalent ones.     *)
(***************************************************************************)
Triple(F, G, H) == [f |-> F, g |-> G, h |-> H]

\* (F,F,H) => (F,1,H), (F,F',H) => (F,0,H), and likewise for H.
IntroduceConstants(F, G, H) ==
  Triple(F,
         IF F = G THEN BDD_1 ELSE IF ComplP(F, G) THEN BDD_0 ELSE G,
         IF F = H THEN BDD_0 ELSE IF ComplP(F, H) THEN BDD_1 ELSE H)

\* The result of a trivial case, VOID when the triple is none.
Trivial(x) ==
  IF x.f = BDD_0 THEN x.h
  ELSE IF x.f = BDD_1 THEN x.g
  ELSE IF x.g = BDD_1 /\ x.h = BDD_0 THEN x.f
  ELSE IF x.g = BDD_0 /\ x.h = BDD_1 THEN Compl(x.f)
  ELSE IF x.g = x.h THEN x.g
  ELSE VOID

\* The first argument gets the smallest top variable: or, and, implies,
\* greater and equivalence do not care which of two comes first ...
OrOrder(s, x) ==
  IF x.g = BDD_1 /\ Smaller(s, x.h, x.f) THEN Triple(x.h, x.g, x.f) ELSE x
AndOrder(s, x) ==
  IF x.h = BDD_0 /\ Smaller(s, x.g, x.f) THEN Triple(x.g, x.f, x.h) ELSE x
ImpliesOrder(s, x) ==
  IF x.h = BDD_1 /\ Smaller(s, x.g, x.f)
  THEN Triple(Compl(x.g), Compl(x.f), x.h) ELSE x
LessOrder(s, x) ==
  IF x.g = BDD_0 /\ Smaller(s, x.h, x.f)
  THEN Triple(Compl(x.h), x.g, Compl(x.f)) ELSE x
EquivOrder(s, x) ==
  IF ComplP(x.g, x.h) /\ Smaller(s, x.g, x.f)
  THEN Triple(x.g, x.f, Compl(x.f)) ELSE x
OrderTriple(s, x) ==
  EquivOrder(s, LessOrder(s, ImpliesOrder(s, AndOrder(s, OrOrder(s, x)))))

\* ... and the first and second argument lose their complement.
FirstPositive(x) == IF Neg(x.f) THEN Triple(Pos(x.f), x.h, x.g) ELSE x
\* Mutant: the third argument keeps its sign.
SecondOnly(x) ==
  [x |-> Triple(x.f, Pos(x.g), x.h), negate |-> Neg(x.g)]
SecondPositive(x) ==
  [x |-> IF Neg(x.g) THEN Triple(x.f, Pos(x.g), Compl(x.h)) ELSE x,
   negate |-> Neg(x.g)]

StandardTriple(s, x) == SecondPositive(FirstPositive(OrderTriple(s, x)))

\* A positive literal above both branches: its node is the result.
ProjectionOf(s, x) ==
  /\ At(s, x.f).t = BDD_1 /\ At(s, x.f).e = BDD_0
  /\ Rank(s, x.f) < Rank(s, x.g) /\ Rank(s, x.f) < Rank(s, x.h)
=============================================================================
