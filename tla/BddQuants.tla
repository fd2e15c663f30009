------------------------------ MODULE BddQuants ------------------------------
(***************************************************************************)
(* Quantification over the variables of a cube and in vectors of BDDs      *)
(* (src/src/BDD/bdd/src/bdd_quant.c).  PVS quantifies over lists           *)
(* (BddQuantify, AndSmooth); these are the other entries of the package.   *)
(*                                                                         *)
(* bdd_quantify_c works on demand: a node has a note for the existential   *)
(* and one for the universal quantification, each VOID until it is wanted. *)
(* A node below the last quantified variable gets both at every visit, and *)
(* the notes of the visit before are written over without being freed.     *)
(***************************************************************************)
EXTENDS BddQueries

\* The part of the cube from rank r on.
RECURSIVE CubeFrom(_, _, _)
CubeFrom(s, cube, r) ==
  IF Rank(s, cube) < r THEN CubeFrom(s, CofactorPos(s, cube), r) ELSE cube

NoteOf(M, f, existential) ==
  IF Ptr(f) \in DOMAIN M.note[existential] THEN M.note[existential][Ptr(f)] ELSE VOID
Entered(M, f) ==
  IF Ptr(f) \in DOMAIN M.note[TRUE] THEN M
  ELSE [M EXCEPT !.note = [e \in BOOLEAN |-> (Ptr(f) :> VOID) @@ @[e]]]

\* M with a result r whose reference is the caller's.
Returns(M, e) == [s |-> M.s, note |-> M.note, r |-> e]
Returned(M, p) == [s |-> p.s, note |-> M.note, r |-> p.r]
Copy(M, f, negative) == Returned(M, Assign(M.s, SetNeg(f, negative)))

\* The result when the first branch decides it: BDD_1 for a disjunction.
Decisive(existential) == IF existential THEN BDD_1 ELSE BDD_0

RECURSIVE QuantifyCAux(_, _, _, _), Demand(_, _, _, _)
QuantifyEnd(M, f) ==
  LET Both(N, e) == Noted(N, Ptr(f), e, Assign(N.s, Pos(f)))
  IN Copy(Folded(Both, M, <<TRUE, FALSE>>), f, FALSE)
QuantifyCElse(T, f, existential, cube) ==
  LET E == QuantifyCAux(T, existential, At(T.s, f).e, cube)
  IN Returned(E, Drop(Drop(Join(E.s, VOID, existential, T.r, E.r), T.r), E.r))
QuantifyCGone(M, f, existential, cube) ==
  IF Decisive(existential) \in {At(M.s, f).t, At(M.s, f).e}
  THEN Returned(M, Assign(M.s, Decisive(existential)))
  ELSE Strictly(LAMBDA T : IF T.r = Decisive(existential) THEN T
                           ELSE QuantifyCElse(T, f, existential, cube),
                QuantifyCAux(M, existential, At(M.s, f).t, cube))
QuantifyCIte(V, T, E) ==
  Returned(E, Drop(Drop(Drop(Ite(E.s, V, T, E.r), V), T), E.r))
QuantifyCKept(M, V, f, existential, cube) ==
  Strictly(LAMBDA T : QuantifyCIte(V.r, T.r, QuantifyCAux(T, existential, At(T.s, f).e, cube)),
           QuantifyCAux([M EXCEPT !.s = V.s], existential, At(M.s, f).t, cube))
QuantifyCNew(M, f, existential, cube) ==
  IF Rank(M.s, cube) = Rank(M.s, f) THEN QuantifyCGone(M, f, existential, cube)
  ELSE QuantifyCKept(M, CreateVar(M.s, VarId(M.s, f)), f, existential, cube)
Memo(M, f, existential, p) ==
  [s |-> p.s, note |-> [p.note EXCEPT ![existential] = (Ptr(f) :> p.r) @@ @]]

\* The note for one quantifier, made if there is none.
Demand(M, f, existential, cube) ==
  IF NoteOf(M, f, existential) # VOID THEN M
  ELSE Strictly(LAMBDA p : Memo(M, f, existential, p), QuantifyCNew(M, f, existential, cube))
AtEnd(s, f, cube) == Term(f) \/ Term(cube)

QuantifyCAux(M, existential, f, cube) ==
  LET rest == CubeFrom(M.s, cube, Rank(M.s, f))
      wanted == existential # Neg(f)
  IN IF AtEnd(M.s, f, rest) THEN QuantifyEnd(Entered(M, f), f)
     ELSE Strictly(LAMBDA N : Copy(N, NoteOf(N, f, wanted), Neg(f)),
                   Demand(Entered(M, f), f, wanted, rest))

\* Both quantifications for the top node of f; at an end node a reference is
\* returned as well, which nobody takes.
QuantifyCBoth(M, f, cube) ==
  LET rest == CubeFrom(M.s, cube, Rank(M.s, f))
      end == QuantifyEnd(Entered(M, f), f)
  IN IF AtEnd(M.s, f, rest) THEN [s |-> end.s, note |-> end.note]
     ELSE Folded(LAMBDA N, existential : Demand(N, f, existential, rest),
                 Entered(M, f), <<TRUE, FALSE>>)

FreeNoted(M) ==
  LET Give(s, note) == FreeNotes(s, [n \in {m \in DOMAIN note : note[m] # VOID} |-> note[n]])
  IN Give(Give(M.s, M.note[TRUE]), M.note[FALSE])
Cleared(N) == Pair(FreeNoted(N), N.r)

\* A constant cube that is not 1 stands for all variables.
QuantifyC(s, existential, f, cube) ==
  IF VOID \in {f, cube} THEN Pair(s, VOID)
  ELSE IF cube = BDD_1 \/ Term(f) THEN Assign(s, f)
  ELSE IF Term(cube) THEN Assign(s, Decisive(existential))
  ELSE Unfix(Cleared(QuantifyCAux(NoNotes(FixOrder(s)), existential, f, cube)), s)

\* bdd_smooth and bdd_consensus, for one variable.
Quant1Of(V, existential, f) == Drop(QuantifyC(V.s, existential, f, V.r), V.r)
Quant1(s, existential, f, v) == Quant1Of(CreateVar(s, v), existential, f)

(***************************************************************************)
(* Vectors.  Over a list: as SubstVec, a node met before is replaced in    *)
(* the first loop.  Over a cube: all results are taken before any element  *)
(* is given up.                                                            *)
(***************************************************************************)
QuantReplaced(M, existential, i) ==
  LET R == Quantified(M, M.vec[i], existential)
  IN [M EXCEPT !.s = Free(IncrRef(@, R), M.vec[i]), !.vec[i] = R]
QuantNoticed(M, f) == f # VOID /\ Ptr(f) \in DOMAIN M.note[TRUE]
QuantElement(M, existential, i, vars) ==
  LET f == M.vec[i]
  IN IF f = VOID THEN M
     ELSE IF QuantNoticed(M, f) THEN QuantReplaced(M, existential, i)
     ELSE WithVec(QuantifyAux([s |-> M.s, note |-> M.note], f, vars), M.vec)
QuantGive(M, gone) ==
  [M EXCEPT !.s = FreeNotes(FreeNotes(@, [n \in gone |-> M.note[TRUE][n]]),
                            [n \in gone |-> M.note[FALSE][n]]),
            !.note = [e \in BOOLEAN |-> [n \in DOMAIN @[e] \ gone |-> @[e][n]]]]
QuantTake(M, existential, i) ==
  IF ~QuantNoticed(M, M.vec[i]) THEN M
  ELSE QuantGive(QuantReplaced(M, existential, i),
                 MarkedBelow([s |-> M.s, note |-> M.note[TRUE]], {Ptr(M.vec[i])}))
QuantifyVec(s, existential, vec, vars) ==
  LET indices == [i \in DOMAIN vec |-> i]
      start == [s |-> FixOrder(s), note |-> NoNotes(s).note, vec |-> vec]
  IN IF vars = <<>> THEN [s |-> s, vec |-> vec]
     ELSE Unfix(Folded(LAMBDA M, i : QuantTake(M, existential, i),
                       Folded(LAMBDA M, i : QuantElement(M, existential, i, vars),
                              start, indices), indices), s)

QuantifyAll(s, existential, vec) ==
  InVec(s, vec, LAMBDA t, f : Assign(t, IF f = VOID \/ Term(f) THEN f ELSE Decisive(existential)))
\* Each of the notes and each element given up, after the results are held.
TakeAll(M, existential, vec) ==
  LET results == [i \in DOMAIN vec |-> IF vec[i] = VOID THEN VOID
                                       ELSE Quantified(M, vec[i], existential)]
  IN [s |-> FreeVec(FreeNoted([M EXCEPT !.s = Copied(@, results)]), vec), vec |-> results]
QuantifyCVec(s, existential, vec, cube) ==
  IF cube = BDD_1 THEN [s |-> s, vec |-> vec]
  ELSE IF Term(cube) THEN QuantifyAll(s, existential, vec)
  ELSE Unfix(TakeAll(Folded(LAMBDA M, f : IF f = VOID THEN M ELSE QuantifyCBoth(M, f, cube),
                            NoNotes(FixOrder(s)), vec), existential, vec), s)

(***************************************************************************)
(* bdd_and_smooth_c: E cube . f & g in one recursion.                      *)
(***************************************************************************)
RECURSIVE SmoothCAux(_, _, _, _)
ProductQuantified(p, cube, constant) ==
  IF constant THEN Drop(Cleared(QuantifyCAux(NoNotes(p.s), TRUE, p.r, cube)), p.r) ELSE p
SmoothCThen(T, f, g, cube, v) ==
  LET r == VarRank(T.s, v)
      gone == Rank(T.s, cube) = r
  IN IF gone /\ T.r = BDD_1 THEN With(T, Drop(Assign(T.s, BDD_1), T.r))
     ELSE Strictly(LAMBDA E : SmoothElse(T, E, gone, v),
                   SmoothCAux(T, ExpNeg(T.s, f, r), ExpNeg(T.s, g, r), cube))
SmoothCBelow(C, f, g, rest, r) ==
  IF LookupProduct(C, f, g) # VOID
  THEN With(C, Assign(C.s, LookupProduct(C, f, g)))
  ELSE InsertProduct(
         Strictly(LAMBDA T : SmoothCThen(T, f, g, rest, C.s.space[r]),
                  SmoothCAux(C, ExpPos(C.s, f, r), ExpPos(C.s, g, r), rest)), f, g)
SmoothCAux(C, f, g, cube) ==
  LET r == TopRank(C.s, {f, g})
      constant == Term(f) \/ Term(g)
      rest == CubeFrom(C.s, cube, r)
  IN IF constant \/ Term(rest)
     THEN With(C, ProductQuantified(BddAnd(C.s, f, g), cube, constant))
     ELSE SmoothCBelow(C, f, g, rest, r)
Satisfiable(p) == Assign(p.s, IF p.r = BDD_0 THEN BDD_0 ELSE BDD_1)
AndSmoothC(s, f, g, cube) ==
  IF VOID \in {f, g, cube} THEN Pair(s, VOID)
  ELSE IF cube = BDD_1 THEN BddAnd(s, f, g)
  ELSE IF Term(cube) THEN Satisfiable(IteConst(s, f, g, BDD_0))
  ELSE Unfix(EmptyProducts(SmoothCAux([s |-> FixOrder(s), cache |-> NoProducts],
                                      f, g, cube)), s)
=============================================================================
