------------------------------- MODULE BddIte -------------------------------
(***************************************************************************)
(* Building BDDs (src/src/BDD/bdd/src/bdd.c): the canonical constructor    *)
(* bdd_create_node, the if-then-else recursion bdd_ite_aux with its        *)
(* standard triples, the generic bdd_apply, the test bdd_ite_const, the    *)
(* generalised cofactors bdd_constrain and bdd_restrict, and the creation  *)
(* of variables.                                                           *)
(*                                                                         *)
(* An operator that returns an edge returns [s |-> store, r |-> edge]; the *)
(* caller owns one reference to r.                                         *)
(***************************************************************************)
EXTENDS BddNodes, BddTriples

(***************************************************************************)
(* bdd_create_node: the node <v, T, E>, with the complement moved from the *)
(* then edge to the result.  A dead node found in the table takes its      *)
(* children's references again; a new one may set off a collection.        *)
(***************************************************************************)
CollectIfMany(s) ==
  IF s.dead > NrItems(s) \div 8 /\ NrItems(s) > GcItems THEN Gc(s) ELSE s
ExtendIfOverloaded(s, v) ==
  IF Overloaded(s, v) THEN ExtendComputedTable(ExtendHashTable(s, v)) ELSE s
AfterAlloc(p, v) == Pair(ExtendIfOverloaded(CollectIfMany(p.s), v), p.r)

FindOrAlloc(s, v, T, E) ==
  LET same == SameNode(s, v, T, E)
  IN IF same # {} THEN FoundNode(s, CHOOSE n \in same : TRUE)
     ELSE AfterAlloc(AllocNode(s, v, T, E), v)

RECURSIVE IteAux(_, _, _, _)

Conflict(s, v, T, E) == VarRank(s, v) >= Rank(s, T) \/ VarRank(s, v) >= Rank(s, E)

\* R was made from the edges T and E, which are given up.
GiveUp(R, T, E) == Pair(FreeVec(R.s, <<T, E>>), R.r)

IteOfVar(V, T, E) == GiveUp(IteAux(V.s, V.r, T, E), V.r, VOID)

NodeOr(N, T, E, negative, conflict) ==
  IF conflict THEN IteOfVar(N, T, E) ELSE Negate(N, negative)
NodeOrIte(s, v, T, E, negative) ==
  LET conflict == Conflict(s, v, T, E)
  IN NodeOr(FindOrAlloc(s, v, IF conflict THEN BDD_1 ELSE T, IF conflict THEN BDD_0 ELSE E),
            T, E, negative, conflict)

\* Mutant: the complement stays on the then edge.
CreatePlain(s, v, T, E) ==
  IF T = E THEN Assign(s, T) ELSE NodeOrIte(MakeFit(s, v), v, T, E, FALSE)
CreateNode(s, v, T, E) ==
  IF T = E THEN Assign(s, T)
  ELSE NodeOrIte(MakeFit(s, v), v, Pos(T), SetNeg(E, Neg(T)), Neg(T))

\* The node of the results of two branches, whose references are given up;
\* the second branch runs in the store that the first one leaves.
Halves(s, T, E, taken) == [s |-> s, t |-> T, e |-> E, taken |-> taken]
Combine(v, B) ==
  Strictly(LAMBDA R : Pair(FreeVec(R.s, B.taken), R.r), CreateNode(B.s, v, B.t, B.e))
SecondBranch(T, Else(_)) ==
  Strictly(LAMBDA E : Halves(E.s, T.r, E.r, <<T.r, E.r>>), Else(T.s))
Split(T, Else(_)) == Strictly(LAMBDA F : SecondBranch(F, Else), T)
Branches(v, T, Else(_)) == Strictly(LAMBDA B : Combine(v, B), Split(T, Else))

(***************************************************************************)
(* bdd_ite_aux: a trivial case, a result from the computed table, or the   *)
(* node of the two branches at the topmost variable, kept in the table.    *)
(***************************************************************************)
Keep(p, y) == Pair(Insert(p.s, y.f, y.g, y.h, p.r), p.r)

IteBranches(s, y, r) ==
  IF ProjectionOf(s, y) THEN Halves(s, y.g, y.h, <<>>)
  ELSE Split(IteAux(s, ExpPos(s, y.f, r), ExpPos(s, y.g, r), ExpPos(s, y.h, r)),
             LAMBDA t : IteAux(t, ExpNeg(s, y.f, r), ExpNeg(s, y.g, r),
                               ExpNeg(s, y.h, r)))
IteNode(s, y, r) == Strictly(LAMBDA B : Combine(s.space[r], B), IteBranches(s, y, r))

IteCached(s, y, hit) ==
  IF hit.r # VOID THEN Assign(hit.s, hit.r)
  ELSE Strictly(LAMBDA p : Keep(p, y), IteNode(s, y, TopRank(s, {y.f, y.g, y.h})))

IteStandard(s, std) ==
  Negate(IteCached(s, std.x, Lookup(s, std.x.f, std.x.g, std.x.h)), std.negate)

IteTriple(s, x) ==
  IF Trivial(x) # VOID THEN Assign(s, Trivial(x))
  ELSE IteStandard(s, StandardTriple(s, x))

IteAux(s, F, G, H) ==
  Strictly(LAMBDA t : IteTriple(t, IntroduceConstants(F, G, H)), s)

(***************************************************************************)
(* bdd_ite_const: the constant that ite(F, G, H) is, or VOID when it is    *)
(* none; builds nothing.                                                   *)
(***************************************************************************)
ConstantOnly(e) == IF Term(e) THEN e ELSE VOID

RECURSIVE IteConst(_, _, _, _)

\* Both branches must be the same constant.
ConstBoth(T, E, std) ==
  IF T.r # E.r THEN Pair(E.s, VOID) ELSE Negate(Keep(E, std.x), std.negate)

ConstBranches(T, y, r, std) ==
  IF T.r = VOID THEN T
  ELSE ConstBoth(T, IteConst(T.s, ExpNeg(T.s, y.f, r), ExpNeg(T.s, y.g, r),
                             ExpNeg(T.s, y.h, r)), std)

ConstCached(s, y, std, hit, r) ==
  IF hit # VOID THEN Pair(s, ConstantOnly(SetNeg(hit, std.negate)))
  ELSE ConstBranches(IteConst(s, ExpPos(s, y.f, r), ExpPos(s, y.g, r),
                              ExpPos(s, y.h, r)), y, r, std)

ConstStandard(s, std) ==
  ConstCached(s, std.x, std, LookupNoReclaim(s, std.x.f, std.x.g, std.x.h),
              TopRank(s, {std.x.f, std.x.g, std.x.h}))

ConstTriple(s, x) ==
  IF Trivial(x) # VOID THEN Pair(s, ConstantOnly(Trivial(x)))
  ELSE ConstStandard(s, StandardTriple(s, x))

IteConst(s, F, G, H) ==
  IF F = VOID \/ G = VOID \/ H = VOID THEN Pair(s, VOID)
  ELSE ConstTriple(s, IntroduceConstants(F, G, H))

(***************************************************************************)
(* Two-argument recursions that keep their results in the computed table   *)
(* under the code of a function.                                           *)
(***************************************************************************)
Constraining == -1
Restricting == -2

\* A result found, or the one computed, which is then kept.
FoundOr(hit, computed, func, a, b) ==
  IF hit.r # VOID THEN Assign(hit.s, hit.r)
  ELSE Keep(computed, Triple(func, a, b))

\* bdd_apply_aux for a Boolean connective f on constants, coded by func.
RECURSIVE ApplyAux(_, _, _, _, _)
ApplyBranches(s, func, f, a, b, r) ==
  Branches(s.space[r],
           ApplyAux(s, func, f, ExpPos(s, a, r), ExpPos(s, b, r)),
           LAMBDA t : ApplyAux(t, func, f, ExpNeg(s, a, r), ExpNeg(s, b, r)))
ApplyAux(s, func, f, a, b) ==
  IF Term(a) /\ Term(b) THEN Assign(s, f[<<a, b>>])
  ELSE FoundOr(Lookup(s, func, a, b),
               ApplyBranches(s, func, f, a, b, TopRank(s, {a, b})), func, a, b)

Apply(s, func, f, a, b) ==
  IF a = VOID \/ b = VOID THEN Pair(s, VOID) ELSE ApplyAux(s, func, f, a, b)

\* bdd_constrain_aux: f on the care set c, which is not 0.
RECURSIVE ConstrainAux(_, _, _)
ConstrainBranches(s, f, c, r) ==
  IF Rank(s, c) = r /\ ExpNeg(s, c, r) = BDD_0
  THEN ConstrainAux(s, ExpPos(s, f, r), ExpPos(s, c, r))
  ELSE IF Rank(s, c) = r /\ ExpPos(s, c, r) = BDD_0
  THEN ConstrainAux(s, ExpNeg(s, f, r), ExpNeg(s, c, r))
  ELSE Branches(s.space[r], ConstrainAux(s, ExpPos(s, f, r), ExpPos(s, c, r)),
                LAMBDA t : ConstrainAux(t, ExpNeg(s, f, r), ExpNeg(s, c, r)))
ConstrainAux(s, f, c) ==
  IF c = BDD_1 \/ Term(f) THEN Assign(s, f)
  ELSE FoundOr(Lookup(s, Constraining, f, c),
               ConstrainBranches(s, f, c, TopRank(s, {f, c})), Constraining, f, c)

Constrain(s, f, c) ==
  IF f = VOID \/ c = VOID \/ c = BDD_0 THEN Pair(s, VOID)
  ELSE ConstrainAux(s, f, c)

\* bdd_restrict_aux: as constrain, but a variable of c above f is smoothed.
RECURSIVE RestrictAux(_, _, _)
OnSmoothed(q, f) == GiveUp(RestrictAux(q.s, f, q.r), q.r, VOID)
RestrictBranches(s, f, c, r) ==
  IF r > Rank(s, c)
  THEN OnSmoothed(IteAux(s, CofactorPos(s, c), BDD_1, CofactorNeg(s, c)), f)
  ELSE IF r = Rank(s, c) /\ ExpNeg(s, c, r) = BDD_0
  THEN RestrictAux(s, ExpPos(s, f, r), ExpPos(s, c, r))
  ELSE IF r = Rank(s, c) /\ ExpPos(s, c, r) = BDD_0
  THEN RestrictAux(s, ExpNeg(s, f, r), ExpNeg(s, c, r))
  ELSE Branches(s.space[r], RestrictAux(s, ExpPos(s, f, r), ExpPos(s, c, r)),
                LAMBDA t : RestrictAux(t, ExpNeg(s, f, r), ExpNeg(s, c, r)))
RestrictAux(s, f, c) ==
  IF c = BDD_1 \/ Term(f) THEN Assign(s, f)
  ELSE FoundOr(Lookup(s, Restricting, f, c),
               RestrictBranches(s, f, c, Rank(s, f)), Restricting, f, c)

RestrictTo(s, f, c) ==
  IF f = VOID \/ c = VOID \/ c = BDD_0 THEN Pair(s, VOID)
  ELSE RestrictAux(s, f, c)

(***************************************************************************)
(* Variables.  bdd_create_var drops the sign of the id it is given: for -v *)
(* it makes the same node as for v.                                        *)
(***************************************************************************)
CreateVar(s, v) == Strictly(LAMBDA t : CreateNode(t, v, BDD_1, BDD_0), s)

\* bdd_create_var_after: a new variable after the group of the top variable
\* of v; last for VOID, first for a constant.
\* Mutant: the new group goes before the group it follows.
PlaceBeforeGroup(s, new, g) ==
  IF LastRank(s, g) + 1 = new THEN s ELSE MoveLastTo(s, LastRank(s, g) + 1, g)
PlaceAfterGroup(s, new, g) ==
  IF LastRank(s, g) + 1 = new THEN s ELSE MoveLastTo(s, LastRank(s, g) + 1, g + 1)
PlaceAfter(s, new, v) ==
  IF v = VOID \/ new = 0 THEN s
  ELSE IF Term(v) THEN MoveLastTo(s, 0, 1)
  ELSE PlaceAfterGroup(s, new, IdToGroup(s, VarId(s, v)))
CreateVarAfter(s, v) ==
  CreateVar(PlaceAfter(MakeFit(s, Count(s)), Count(s), v), Count(s))

\* bdd_create_var_before: after the variable one rank above that of v.
AfterThat(before) == GiveUp(CreateVarAfter(before.s, before.r), before.r, VOID)
CreateVarBefore(s, v) ==
  IF v # VOID /\ ~Term(v) /\ Rank(s, v) > 0
  THEN AfterThat(CreateVar(s, RankToId(s, Rank(s, v) - 1)))
  ELSE CreateVarAfter(s, IF v = VOID \/ Term(v) THEN v ELSE BDD_0)

CreateVarFirst(s) == CreateVarAfter(s, BDD_0)
CreateVarLast(s) == CreateVarAfter(s, VOID)
=============================================================================
