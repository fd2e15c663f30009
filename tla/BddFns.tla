------------------------------- MODULE BddFns -------------------------------
(***************************************************************************)
(* What PVS's model checker and propositional simplifier use beyond the    *)
(* basic package: quantification and relational products                   *)
(* (src/src/BDD/bdd/src/bdd_quant.c), parallel substitution and the        *)
(* expansion into prime cubes with its cache, which lives in the store     *)
(* (src/src/BDD/bdd/src/bdd_fns.c).                                        *)
(*                                                                         *)
(* Each of them works on the nodes of its argument once and notes results  *)
(* in the fields aux1 and aux2 of the nodes; the notes are a function from *)
(* addresses to edges here, and every note holds a reference.              *)
(***************************************************************************)
EXTENDS BddOps

CONSTANTS
  SmoothSize,   \* entries of bdd_and_smooth_cache
  UseSopCache   \* bdd_use_sop_cache

ASSUME FnsConstants == SmoothSize \in Nat \ {0} /\ UseSopCache \in BOOLEAN

\* bdd_do_dynamic_ordering is saved, cleared, and restored after.
FixOrder(s) == [s EXCEPT !.dynamic = FALSE]
Unfix(p, s) == [p EXCEPT !.s.dynamic = s.dynamic]

RankOrderVars(s, vars) == SortSeq(vars, LAMBDA v, w : s.rank[v] < s.rank[w])

\* The list of variables, in rank order, from rank r on.
From(s, vars, r) == SelectSeq(vars, LAMBDA v : s.rank[v] >= r)

(***************************************************************************)
(* Quantification: M.note[TRUE] and M.note[FALSE] hold, for each node      *)
(* visited, the existential and the universal quantification of its        *)
(* function; an edge that complements takes the complement of the other.   *)
(***************************************************************************)
NoNotes(s) == [s |-> s, note |-> [existential \in BOOLEAN |-> <<>>]]
Quantified(M, e, existential) ==
  SetNeg(M.note[existential # Neg(e)][Ptr(e)], Neg(e))

\* From the children's results; v is their variable, VOID when it goes.
Join(s, v, existential, R1, R2) ==
  LET x == IF v # VOID THEN Triple(v, R1, R2)
           ELSE IF existential THEN Triple(R1, BDD_1, R2) ELSE Triple(R1, R2, BDD_0)
  IN Ite(s, x.f, x.g, x.h)
JoinTaken(s, v, existential, R1, R2) ==
  Drop(Drop(Join(IncrRef(IncrRef(s, R1), R2), v, existential, R1, R2), R1), R2)

Noted(M, n, existential, p) ==
  [s |-> p.s, note |-> [M.note EXCEPT ![existential] = (n :> p.r) @@ @]]
NoteQuantified(M, f, v, existential) ==
  Noted(M, Ptr(f), existential,
        JoinTaken(M.s, v, existential, Quantified(M, At(M.s, f).t, existential),
                  Quantified(M, At(M.s, f).e, existential)))
NoteChildren(M, f, v) ==
  [Folded(LAMBDA N, existential : NoteQuantified(N, f, v, existential),
            M, <<TRUE, FALSE>>) EXCEPT !.s = Free(@, v)]

RECURSIVE QuantifyAux(_, _, _)
VisitOnce(M, e, vars) ==
  IF Ptr(e) \in DOMAIN M.note[TRUE] THEN M ELSE QuantifyAux(M, e, vars)
VisitChildren(M, f, vars) ==
  Strictly(LAMBDA N : VisitOnce(N, At(N.s, f).e, vars), VisitOnce(M, At(M.s, f).t, vars))
NoteLeaf(M, f) ==
  Folded(LAMBDA N, existential : Noted(N, Ptr(f), existential, Assign(N.s, Pos(f))),
           M, <<TRUE, FALSE>>)
NoteWithVar(M, f, V) == NoteChildren([M EXCEPT !.s = V.s], f, V.r)
NoteBelow(M, f, quantified) ==
  NoteWithVar(M, f, IF quantified THEN Pair(M.s, VOID)
                    ELSE CreateVar(M.s, VarId(M.s, f)))
QuantifyBelow(M, f, vars) ==
  LET quantified == Head(vars) = VarId(M.s, f)
  IN IF vars = <<>> \/ Term(f) THEN NoteLeaf(M, f)
     ELSE Strictly(LAMBDA N : NoteBelow(N, f, quantified),
                   VisitChildren(M, f, IF quantified THEN Tail(vars) ELSE vars))
QuantifyAux(M, f, vars) ==
  QuantifyBelow(M, f, From(M.s, vars, Rank(M.s, f)))

FreeNotes(s, notes) ==
  Folded(LAMBDA t, n : Free(t, notes[n]), s, Listing(DOMAIN notes))
Taken(M, e) ==
  Pair(FreeNotes(FreeNotes(IncrRef(M.s, e), M.note[TRUE]), M.note[FALSE]), e)

QuantifyNoted(M, f, existential) == Taken(M, Quantified(M, f, existential))

\* vars is in rank order.
BddQuantify(s, existential, f, vars) ==
  IF f = VOID THEN Pair(s, VOID)
  ELSE IF vars = <<>> \/ Term(f) THEN Assign(s, f)
  ELSE Unfix(QuantifyNoted(QuantifyAux(NoNotes(FixOrder(s)), f, vars), f, existential),
             s)

(***************************************************************************)
(* E vars . f & g in one recursion, with a cache of its own, which holds   *)
(* references and is emptied at the end.  C is the store and the cache.    *)
(***************************************************************************)
NoProduct == [f |-> VOID, g |-> VOID, r |-> VOID]
NoProducts == [i \in 0 .. SmoothSize - 1 |-> NoProduct]
With(C, p) == [s |-> p.s, cache |-> C.cache, r |-> p.r]

\* The operation is commutative: the smaller edge comes first.
ProductOf(f, g) == IF f > g THEN <<g, f>> ELSE <<f, g>>
ProductSlot(f, g) == (ProductOf(f, g)[1] + 3 * ProductOf(f, g)[2]) % SmoothSize

FreeProduct(s, entry) == Free(Free(Free(s, entry.f), entry.g), entry.r)
LookupProduct(C, f, g) ==
  LET entry == C.cache[ProductSlot(f, g)]
  IN IF entry.r # VOID /\ <<entry.f, entry.g>> = ProductOf(f, g)
     THEN entry.r ELSE VOID
InsertProduct(C, f, g) ==
  LET at == ProductSlot(f, g)
      held == IncrRef(IncrRef(IncrRef(C.s, f), g), C.r)
  IN [s |-> FreeProduct(held, C.cache[at]),
      cache |-> [C.cache EXCEPT ![at] =
                   [f |-> ProductOf(f, g)[1], g |-> ProductOf(f, g)[2], r |-> C.r]],
      r |-> C.r]

\* A constant conjunct: the conjunction, then the quantification.
SmoothConjunction(p, vars) ==
  IF vars = <<>> THEN p
  ELSE Drop(QuantifyNoted(QuantifyAux(NoNotes(p.s), p.r, vars), p.r, TRUE), p.r)

RECURSIVE AndSmoothAux(_, _, _, _)
JoinProducts(T, E, V) ==
  With(E, Drop(Drop(Drop(Join(V.s, V.r, TRUE, T.r, E.r), V.r), E.r), T.r))
SmoothElse(T, E, gone, v) ==
  JoinProducts(T, E, IF gone THEN Pair(E.s, VOID) ELSE CreateVar(E.s, v))
SmoothThen(T, f, g, vars, v) ==
  IF Head(vars) = v /\ T.r = BDD_1
  THEN With(T, Drop(Assign(T.s, BDD_1), T.r))
  ELSE LET r == VarRank(T.s, v)
       IN Strictly(LAMBDA E : SmoothElse(T, E, Head(vars) = v, v),
                   AndSmoothAux(T, ExpNeg(T.s, f, r), ExpNeg(T.s, g, r), vars))
AndSmoothBelow(C, f, g, vars, r) ==
  IF vars = <<>> \/ Term(f) \/ Term(g)
  THEN With(C, SmoothConjunction(BddAnd(C.s, f, g), vars))
  ELSE IF LookupProduct(C, f, g) # VOID
  THEN With(C, Assign(C.s, LookupProduct(C, f, g)))
  ELSE InsertProduct(
         Strictly(LAMBDA T : SmoothThen(T, f, g, vars, C.s.space[r]),
                  AndSmoothAux(C, ExpPos(C.s, f, r), ExpPos(C.s, g, r), vars)), f, g)
AndSmoothAux(C, f, g, vars) ==
  LET r == TopRank(C.s, {f, g}) IN AndSmoothBelow(C, f, g, From(C.s, vars, r), r)

EmptyProducts(C) ==
  Pair(Folded(LAMBDA t, i : FreeProduct(t, C.cache[i]), C.s,
                Listing(DOMAIN C.cache)), C.r)

AndSmooth(s, f, g, vars) ==
  IF f = VOID \/ g = VOID THEN Pair(s, VOID)
  ELSE IF vars = <<>> THEN BddAnd(s, f, g)
  ELSE Unfix(EmptyProducts(AndSmoothAux(
               [s |-> FixOrder(s), cache |-> NoProducts], f, g, vars)), s)

(***************************************************************************)
(* bdd_subst_par: sub gives the BDDs to put for variables (VOID: none).    *)
(***************************************************************************)
Substituted(M, e) == SetNeg(M.note[Ptr(e)], Neg(e))
NoteSubst(M, p, n) == [s |-> p.s, note |-> (n :> p.r) @@ M.note]

JoinSubst(V, T, E) ==
  Drop(Drop(Drop(Ite(IncrRef(IncrRef(V.s, T), E), V.r, T, E), V.r), T), E)

RECURSIVE SubstAux(_, _, _, _)
SubstOnce(M, e, sub, vars) ==
  IF Ptr(e) \in DOMAIN M.note THEN M ELSE SubstAux(M, e, sub, vars)
SubstJoined(M, g, sub, vars) ==
  LET v == VarId(M.s, g)
  IN NoteSubst(M, JoinSubst(IF v \in vars THEN Assign(M.s, sub[v])
                            ELSE CreateVar(M.s, v),
                            Substituted(M, At(M.s, g).t),
                            Substituted(M, At(M.s, g).e)), Ptr(g))
SubstAux(M, g, sub, vars) ==
  LET rest == {v \in vars : M.s.rank[v] >= Rank(M.s, g)}
  IN IF rest = {} THEN NoteSubst(M, Assign(M.s, Pos(g)), Ptr(g))
     ELSE Strictly(LAMBDA N : SubstJoined(N, g, sub, rest),
                   SubstOnce(SubstOnce(M, At(M.s, g).t, sub, rest),
                             At(M.s, g).e, sub, rest))

SubstTaken(M, e) == Pair(FreeNotes(IncrRef(M.s, e), M.note), e)
SubstNoted(M, g) == SubstTaken(M, Substituted(M, g))
SubstPar(s, sub, g) ==
  LET vars == {v \in DOMAIN sub : sub[v] # VOID}
  IN IF g = VOID \/ Term(g) \/ vars = {} THEN Assign(s, g)
     ELSE Unfix(SubstNoted(SubstAux([s |-> FixOrder(s), note |-> <<>>], g, sub, vars),
                           g), s)

(***************************************************************************)
(* Sums of cubes: L is the store and a list of cubes, each with a          *)
(* reference of its own.                                                   *)
(***************************************************************************)
List(s, cubes) == [s |-> s, cubes |-> cubes]
Copied(s, cubes) == Folded(IncrRef, s, cubes)
SopSlot(f) == f % SopSize

LookupSop(s, f) ==
  IF UseSopCache /\ s.sop[SopSlot(f)].f = f THEN s.sop[SopSlot(f)].cubes ELSE <<>>

InsertSop(L, f) ==
  LET at == SopSlot(f)
      old == L.s.sop[at]
      kept == Copied(Free(FreeVec(IncrRef(L.s, f), old.cubes), old.f), L.cubes)
  IN IF ~UseSopCache \/ old.f = f THEN L
     ELSE List([kept EXCEPT !.sop[at] = [f |-> f, cubes |-> L.cubes]], L.cubes)

\* A cube of one branch stands for itself when the other branch covers it;
\* otherwise it gets the literal of its branch.
AppendMade(L, R) == List(R.s, Append(L.cubes, R.r))
Literally(L, s, literal, cube) == AppendMade(L, Drop(BddAnd(s, literal, cube), cube))
ExpandThen(L, c, top, cube) ==
  IF c.r THEN List(c.s, Append(L.cubes, cube)) ELSE Literally(L, c.s, top, cube)
\* Mutant: a cube that both branches have is listed twice.
ExpandElseTwice(L, c, topNeg, cube) ==
  IF ~c.r THEN Literally(L, c.s, topNeg, cube)
  ELSE List(c.s, Append(L.cubes, cube))
ExpandElse(L, c, topNeg, cube) ==
  IF ~c.r THEN Literally(L, c.s, topNeg, cube)
  ELSE IF Contains(L.cubes, cube) THEN List(Free(c.s, cube), L.cubes)
  ELSE List(c.s, Append(L.cubes, cube))
FreeIn(L, e) == [L EXCEPT !.s = Free(@, e)]
ExpandElses(L, topNeg, T, eSop) ==
  FreeIn(Folded(LAMBDA M, cube : ExpandElse(M, Covers(M.s, T, cube), topNeg, cube),
                  L, eSop), topNeg)
ExpandThens(L, top, E, tSop) ==
  FreeIn(Folded(LAMBDA M, cube : ExpandThen(M, Covers(M.s, E, cube), top, cube),
                  L, tSop), top)
PrimesWith(V, N, T, tSop, E, eSop) ==
  ExpandElses(ExpandThens(List(N.s, <<>>), V.r, E, tSop), N.r, T, eSop)
PrimesOf(V, T, tSop, E, eSop) == PrimesWith(V, BddNot(V.s, V.r), T, tSop, E, eSop)
PrimeImplicants(s, v, T, tSop, E, eSop) == PrimesOf(CreateVar(s, v), T, tSop, E, eSop)

RECURSIVE SumOfCubesAux(_, _)
CubesMade(L, f, T, E) == InsertSop(FreeIn(FreeIn(L, T), E), f)
CubesBoth(TL, EL, v, f, T, E) ==
  CubesMade(PrimeImplicants(EL.s, v, T, TL.cubes, E, EL.cubes), f, T, E)
CubesElse(TL, v, f, T, E) == CubesBoth(TL, SumOfCubesAux(TL.s, E), v, f, T, E)
CubesThen(s, f, T, E) ==
  CubesElse(SumOfCubesAux(IncrRef(IncrRef(s, T), E), T), VarId(s, f), f, T, E)
SumOfCubesAux(s, f) ==
  IF f = BDD_0 THEN List(s, <<>>)
  ELSE IF Term(f) \/ Literal(s, f) THEN List(IncrRef(s, f), <<f>>)
  ELSE LET found == LookupSop(s, f)
       IN IF found # <<>> THEN List(Copied(s, found), found)
          ELSE CubesThen(s, f, CofactorPos(s, f), CofactorNeg(s, f))

\* The function of a list of cubes without one of them.
RECURSIVE WithoutCube(_, _, _)
OrFreed(R1, R2) == Drop(Drop(BddOr(R2.s, R1.r, R2.r), R1.r), R2.r)
WithoutHalves(R1, second, cube) == OrFreed(R1, WithoutCube(R1.s, second, cube))
WithoutCube(s, cubes, cube) ==
  LET half == Len(cubes) - Len(cubes) \div 2
  IN IF Len(cubes) <= 1
     THEN Assign(s, IF cubes = <<>> \/ cubes[1] = cube THEN BDD_0 ELSE cubes[1])
     ELSE WithoutHalves(WithoutCube(s, SubSeq(cubes, 1, half), cube),
                        SubSeq(cubes, half + 1, Len(cubes)), cube)

\* Element i leaves the list when the others make up f as well: BDD_0 takes
\* its place there.
Weigh(L, R, f, i) ==
  IF R.r = f
  THEN [L EXCEPT !.s = Free(IncrRef(Free(R.s, L.cubes[i]), BDD_0), R.r),
                 !.cubes[i] = BDD_0]
  ELSE [L EXCEPT !.s = Free(IncrRef(R.s, L.cubes[i]), R.r),
                 !.kept = Append(@, L.cubes[i])]

Kept(L) == List(FreeVec(L.s, L.cubes), L.kept)
Irredundant(L, f) ==
  Kept(Folded(LAMBDA M, i : Weigh(M, WithoutCube(M.s, M.cubes, M.cubes[i]), f, i),
                [s |-> L.s, cubes |-> L.cubes, kept |-> <<>>],
                [i \in DOMAIN L.cubes |-> i]))
\* bdd_sum_of_cubes, as PVS calls it
Chosen(L, f, irredundant) == IF irredundant THEN Irredundant(L, f) ELSE L
CubesOf(s, f, irredundant) ==
  IF f = VOID THEN List(s, <<>>)
  ELSE Unfix(Chosen(SumOfCubesAux(FixOrder(s), f), f, irredundant), s)
=============================================================================
