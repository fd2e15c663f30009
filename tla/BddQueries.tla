----------------------------- MODULE BddQueries -----------------------------
(***************************************************************************)
(* The library of functions on BDDs (src/src/BDD/bdd/src/bdd_fns.c and     *)
(* bdd_vfns.c): cubes and supports, satisfying valuations and their        *)
(* number, inversion and substitution of variables, Boolean differences,   *)
(* shortest paths, prime implicants, evaluation; and the vectors of BDDs.  *)
(*                                                                         *)
(* PVS's model checker reaches some of them; the others complete the       *)
(* interface of the package.  Most of them note a result in every node     *)
(* they visit, as in BddFns: children first, then the node, from the notes *)
(* of its children.                                                        *)
(***************************************************************************)
EXTENDS BddFns

IdRank(s, v) == IF v \in DOMAIN s.rank THEN s.rank[v] ELSE TERMID
AndFreed(f, p) == Drop(Drop(BddAnd(p.s, f, p.r), f), p.r)

(***************************************************************************)
(* None of the arguments, and exactly one of them.                         *)
(***************************************************************************)
AndNot(p, n) == Drop(Drop(BddAnd(n.s, p.r, n.r), p.r), n.r)
NoneOf(s, args) ==
  Folded(LAMBDA p, f : AndNot(p, BddNot(p.s, f)), Assign(s, BDD_1), Reverse(args))

RECURSIVE OneOf(_, _)
OneOfElse(t, n, rest) == OrFreed(t, AndFreed(n, OneOf(t.s, rest)))
OneOfThen(n, f, rest) == OneOfElse(AndFreed(f, NoneOf(n.s, rest)), n.r, rest)
OneOf(s, args) ==
  IF args = <<>> THEN Assign(s, BDD_0)
  ELSE OneOfThen(BddNot(IncrRef(s, Head(args)), Head(args)), Head(args), Tail(args))

(***************************************************************************)
(* bdd_sat: a valuation, pi, of the variables on a path to 1; at each node *)
(* false is tried first.                                                   *)
(***************************************************************************)
RECURSIVE SatAux(_, _, _)
SatAux(s, f, pi) ==
  IF Term(f) THEN [found |-> f = BDD_1, pi |-> pi]
  ELSE LET v == VarId(s, f)
           low == SatAux(s, CofactorNeg(s, f), (v :> FALSE) @@ pi)
       IN IF low.found THEN low
          ELSE SatAux(s, CofactorPos(s, f), (v :> TRUE) @@ low.pi)
Sat(s, f) ==
  IF f = VOID THEN [found |-> FALSE, pi |-> <<>>] ELSE SatAux(s, f, <<>>)

(***************************************************************************)
(* Cubes: bdd_traverse_cube meets the literals from the top and tells      *)
(* whether its argument was a cube; another argument is read as one.       *)
(***************************************************************************)
RECURSIVE TraverseCube(_, _, _)
TraverseCube(s, cube, walk) ==
  LET T == CofactorPos(s, cube)
      E == CofactorNeg(s, cube)
      negative == E # BDD_0 /\ T = BDD_0
      below == IF negative THEN E ELSE T
      read == [literals |-> Append(walk.literals, [v |-> VarId(s, cube), neg |-> negative]),
               cube |-> walk.cube /\ BDD_0 \in {T, E}]
  IN IF Term(below) THEN [read EXCEPT !.cube = @ /\ below = BDD_1]
     ELSE TraverseCube(s, below, read)

CubeWalk(s, cube) ==
  LET start == [literals |-> <<>>, cube |-> cube # VOID]
  IN IF cube = VOID \/ Term(cube) THEN start ELSE TraverseCube(s, cube, start)
SizeCube(s, cube) == Len(CubeWalk(s, cube).literals)

\* A negated variable is listed as the negated number: that of 0 is 0.
CubeAsListOfVars(s, cube) ==
  LET read == CubeWalk(s, cube).literals
  IN [i \in DOMAIN read |-> IF read[i].neg THEN -read[i].v ELSE read[i].v]

RECURSIVE CubeP(_, _)
CubeP(s, f) ==
  LET T == CofactorPos(s, f)
      E == CofactorNeg(s, f)
  IN IF f = VOID \/ Term(f) THEN f # VOID
     ELSE BDD_0 \in {T, E} /\ CubeP(s, IF T = BDD_0 THEN E ELSE T)

RECURSIVE CubeLength(_, _)
CubeLength(s, cube) ==
  LET T == CofactorPos(s, cube)
  IN IF cube = BDD_0 THEN TERMID ELSE IF cube = BDD_1 THEN 0
     ELSE 1 + CubeLength(s, IF T = BDD_0 THEN CofactorNeg(s, cube) ELSE T)

\* bdd_list_of_vars_as_cube; bdd_create_var takes a negative number for the
\* variable itself.
Conjoined(V, cube) == AndFreed(V.r, Pair(V.s, cube))
ListOfVarsAsCube(s, ids) ==
  Folded(LAMBDA p, i : Conjoined(CreateVar(p.s, IF i < 0 THEN -i ELSE i), p.r),
         Assign(s, BDD_1), Reverse(ids))

(***************************************************************************)
(* bdd_count_sat_assignments: the valuations of the variables of the cube  *)
(* domain, or of all variables when it is the constant 0; position tells   *)
(* how many of them are above a node, and each one skipped on the way down *)
(* doubles the number.                                                     *)
(***************************************************************************)
RECURSIVE Steps(_, _, _)
Steps(s, p, r) == IF Rank(s, p) >= r THEN 0 ELSE 1 + Steps(s, CofactorPos(s, p), r)
Position(s, domain, v) ==
  IF Term(domain) THEN Rank(s, v) ELSE Steps(s, domain, Rank(s, v))
Distance(s, domain, v, w) == Position(s, domain, w) - Position(s, domain, v)
DomainSize(s, domain) == IF Term(domain) THEN NrVars(s) ELSE SizeCube(s, domain)

RECURSIVE CountSatAux(_, _, _)
CountBranch(s, f, branch, domain) ==
  IF branch = BDD_0 THEN 0
  ELSE IF Term(branch) THEN Pow2(DomainSize(s, domain) - Position(s, domain, f) - 1)
  ELSE CountSatAux(s, branch, domain) * Pow2(Distance(s, domain, f, branch) - 1)
CountSatAux(s, f, domain) ==
  CountBranch(s, f, CofactorPos(s, f), domain)
  + CountBranch(s, f, CofactorNeg(s, f), domain)

\* Mutant: the variables of the domain above f are not counted.
CountBelow(s, f, domain) ==
  IF BDD_0 = f \/ BDD_1 = domain \/ VOID \in {f, domain} THEN 0
  ELSE IF Term(f) THEN Pow2(DomainSize(s, domain)) ELSE CountSatAux(s, f, domain)
CountSat(s, f, domain) ==
  IF VOID \in {f, domain} \/ f = BDD_0 \/ domain = BDD_1 THEN 0
  ELSE IF Term(f) THEN Pow2(DomainSize(s, domain))
  ELSE CountSatAux(s, f, domain) * Pow2(Position(s, domain, f))

(***************************************************************************)
(* The support: the search for one variable stops as soon as it is found   *)
(* and never looks below its rank; the list of all is kept in rank order.  *)
(***************************************************************************)
RECURSIVE InSupportAux(_, _, _, _)
InSupportAux(s, seen, f, r) ==
  LET here == [met |-> seen \cup {Ptr(f)}, found |-> Rank(s, f) = r]
      low == IF Ptr(At(s, f).t) \in here.met THEN here
             ELSE InSupportAux(s, here.met, At(s, f).t, r)
  IN IF Rank(s, f) >= r THEN here
     ELSE IF low.found \/ Ptr(At(s, f).e) \in low.met THEN low
     ELSE InSupportAux(s, low.met, At(s, f).e, r)
InSupport(s, v, f) ==
  /\ f # VOID /\ IdRank(s, v) # TERMID /\ IdRank(s, v) >= Rank(s, f)
  /\ InSupportAux(s, {}, f, IdRank(s, v)).found

InsertedByRank(s, ids, v) ==
  IF Contains(ids, v) THEN ids
  ELSE SelectSeq(ids, LAMBDA w : s.rank[w] < s.rank[v]) \o <<v>>
       \o SelectSeq(ids, LAMBDA w : s.rank[w] > s.rank[v])
SupportAsListOfVars(s, f) ==
  IF f = VOID \/ Term(f) THEN <<>>
  ELSE Folded(LAMBDA ids, e : IF Term(e) THEN ids
                              ELSE InsertedByRank(s, ids, VarId(s, e)),
              <<>>, Traverse(s, NoMarks(s), f, FALSE).out)
NrSupportVars(s, f) == Len(SupportAsListOfVars(s, f))
SupportAsCube(s, f) ==
  IF f = VOID THEN Pair(s, VOID)
  ELSE IF Term(f) THEN Assign(s, BDD_1)
  ELSE ListOfVarsAsCube(s, SupportAsListOfVars(s, f))

(***************************************************************************)
(* Notes on the nodes of f that are above rank r and on the nodes they     *)
(* lead to, in post-order: Make gives a node's result from the notes of    *)
(* its children.                                                           *)
(***************************************************************************)
Visited(s, f, r) ==
  LET all == Traverse(s, NoMarks(s), f, TRUE).out
      above == {Ptr(all[i]) : i \in {j \in DOMAIN all : Rank(s, all[j]) < r}}
      reached == {Ptr(f)} \cup {Ptr(s.node[n].t) : n \in above}
                          \cup {Ptr(s.node[n].e) : n \in above}
  IN SelectSeq([i \in DOMAIN all |-> Pos(all[i])], LAMBDA e : Ptr(e) \in reached)

NotesAbove(M, f, r, Make(_, _)) ==
  Folded(LAMBDA N, e : NoteSubst(N, Make(N, e), Ptr(e)), M,
         SelectSeq(Visited(M.s, f, r), LAMBDA e : Ptr(e) \notin DOMAIN M.note))
FromNotes(s, f, r, Make(_, _)) ==
  Unfix(SubstNoted(NotesAbove([s |-> FixOrder(s), note |-> <<>>], f, r, Make), f), s)

\* The results for the two children of e, joined by V.r.
JoinNotes(M, V, T, E) == JoinSubst(V, Substituted(M, T), Substituted(M, E))

(***************************************************************************)
(* bdd_invert_input: f with v and its negation exchanged; bdd_invert_inputs*)
(* does it for all variables; bdd_swap_odd_even_vars exchanges each even   *)
(* variable with the next one.                                             *)
(***************************************************************************)
\* At the variable itself the children are joined the other way round.
InvertedBy(V, M, T, E, here) ==
  IF here THEN Drop(Ite(V.s, V.r, E, T), V.r) ELSE JoinNotes(M, V, T, E)
NoteInverted(M, e, r) ==
  IF Rank(M.s, e) > r THEN Assign(M.s, e)
  ELSE InvertedBy(CreateVar(M.s, VarId(M.s, e)), M, At(M.s, e).t, At(M.s, e).e,
                  Rank(M.s, e) = r)
InvertInput(s, f, v) ==
  LET r == IdRank(s, v)
  IN IF f = VOID THEN Pair(s, VOID)
     ELSE IF r = TERMID \/ r < Rank(s, f) THEN Assign(s, f)
     ELSE IF r = Rank(s, f) THEN InvertInputTop(s, f)
     ELSE FromNotes(s, f, r, LAMBDA M, e : NoteInverted(M, e, r))

NoteFlipped(M, e) ==
  IF Term(e) THEN Assign(M.s, e)
  ELSE JoinNotes(M, CreateVar(M.s, VarId(M.s, e)), At(M.s, e).e, At(M.s, e).t)
InvertInputs(s, f) ==
  IF f = VOID THEN Pair(s, VOID) ELSE IF Term(f) THEN Assign(s, f)
  ELSE FromNotes(s, f, TERMID, NoteFlipped)

Partner(v) == IF v % 2 = 1 THEN v - 1 ELSE v + 1
NoteSwapped(M, e) ==
  IF Term(e) THEN Assign(M.s, e)
  ELSE JoinNotes(M, CreateVar(M.s, Partner(VarId(M.s, e))), At(M.s, e).t, At(M.s, e).e)
SwapOddEvenVars(s, f) ==
  IF f = VOID \/ Term(f) THEN Assign(s, f) ELSE FromNotes(s, f, TERMID, NoteSwapped)

(***************************************************************************)
(* Substitution: of f for the variable v in g, in a vector of BDDs, and of *)
(* a list of BDDs for a list of variables.                                 *)
(***************************************************************************)
NoteReplaced(M, e, f, r) ==
  LET T == At(M.s, e).t
      E == At(M.s, e).e
  IN IF Rank(M.s, e) > r THEN Assign(M.s, e)
     ELSE IF Rank(M.s, e) = r THEN Ite(M.s, f, T, E)
     ELSE JoinNotes(M, CreateVar(M.s, VarId(M.s, e)), T, E)

IteTaken(c, f) == Drop(Drop(Drop(Ite(c.s, f, c.t, c.e), c.v), c.t), c.e)
Subst(s, f, v, g) ==
  LET r == IdRank(s, v)
  IN IF VOID \in {f, g} THEN Pair(s, VOID)
     ELSE IF r = TERMID \/ r < Rank(s, g) THEN Assign(s, g)
     ELSE IF r = Rank(s, g) THEN IteTaken(Cofactors(s, g), f)
     ELSE FromNotes(s, g, r, LAMBDA M, e : NoteReplaced(M, e, f, r))

\* The second loop over a vector: the result of a marked node takes its place,
\* and the notes of the marked nodes below it are given up.
RECURSIVE MarkedBelow(_, _)
MarkedBelow(M, met) ==
  LET more == met \cup (({Ptr(M.s.node[n].t) : n \in met \ {0}}
                         \cup {Ptr(M.s.node[n].e) : n \in met \ {0}}) \cap DOMAIN M.note)
  IN IF more = met THEN met ELSE MarkedBelow(M, more)
Replaced(M, i) ==
  LET R == Substituted(M, M.vec[i])
  IN [M EXCEPT !.s = Free(IncrRef(@, R), M.vec[i]), !.vec[i] = R]
GiveNotes(M, gone) ==
  [M EXCEPT !.s = FreeNotes(@, [n \in gone |-> M.note[n]]),
            !.note = [n \in DOMAIN @ \ gone |-> @[n]]]
Noticed(M, f) == f # VOID /\ Ptr(f) \in DOMAIN M.note
TakeNote(M, i) ==
  IF ~Noticed(M, M.vec[i]) THEN M
  ELSE GiveNotes(Replaced(M, i), MarkedBelow(M, {Ptr(M.vec[i])}))
\* The first loop: a node met before is replaced at once.
WithVec(N, vec) == [s |-> N.s, note |-> N.note, vec |-> vec]
NoteElement(M, i, f, r) ==
  LET g == M.vec[i]
  IN IF Noticed(M, g) THEN Replaced(M, i)
     ELSE IF g = VOID \/ r = TERMID \/ r < Rank(M.s, g) THEN M
     ELSE WithVec(NotesAbove([s |-> M.s, note |-> M.note], g, r,
                             LAMBDA K, e : NoteReplaced(K, e, f, r)), M.vec)
SubstVec(s, vec, v, f) ==
  LET r == IdRank(s, v)
      indices == [i \in DOMAIN vec |-> i]
      start == [s |-> FixOrder(s), note |-> <<>>, vec |-> vec]
  IN Unfix(Folded(TakeNote, Folded(LAMBDA M, i : NoteElement(M, i, f, r), start, indices),
                  indices), s)

SubstParList(s, subs, ids, g) ==
  IF ids = <<>> \/ g = VOID \/ Term(g) THEN Assign(s, g)
  ELSE IF Len(ids) # Len(subs) THEN Pair(s, VOID)
  ELSE LET sub == [v \in Range(ids) |-> subs[CHOOSE i \in DOMAIN ids : ids[i] = v]]
       IN Unfix(SubstNoted(SubstAux([s |-> FixOrder(s), note |-> <<>>], g, sub,
                                    DOMAIN sub), g), s)

\* bdd_compose: h for the top variable of g; a constant g is read as one that
\* f is joined with.
Compose(s, f, g, h) ==
  IF VOID \in {f, g, h} THEN Pair(s, VOID)
  ELSE IF Term(g) THEN BddBinary(s, IF g = BDD_0 THEN "or" ELSE "and", f, h)
  ELSE Subst(s, h, VarId(s, g), f)

\* BDD cofactors by any variable; is f monotone in v, one way or the other?
CofactorBy(s, f, v, value) == Subst(s, IF value THEN BDD_1 ELSE BDD_0, v, f)
UnateOf(s, T, E) ==
  LET first == Covers(s, T, E)
      both == IF first.r THEN first ELSE Covers(first.s, E, T)
  IN [s |-> FreeVec(both.s, <<T, E>>), r |-> both.r]
WithCofactor(p, halves) == [s |-> p.s, halves |-> Append(halves, p.r)]
UnateThen(s, f, v) ==
  Strictly(LAMBDA M : UnateOf(M.s, M.halves[1], M.halves[2]),
           Folded(LAMBDA M, value : WithCofactor(CofactorBy(M.s, f, v, value), M.halves),
                  [s |-> s, halves |-> <<>>], <<TRUE, FALSE>>))
UnateIn(s, f, v) ==
  IF f = VOID \/ IdRank(s, v) = TERMID THEN [s |-> s, r |-> FALSE]
  ELSE IF IdRank(s, v) < Rank(s, f) THEN [s |-> s, r |-> TRUE]
  ELSE Unfix(UnateThen(FixOrder(s), f, v), s)

(***************************************************************************)
(* bdd_diff: the Boolean difference for a list of variables in rank order. *)
(* A node is noted once, for the part of the list it was first met with.   *)
(***************************************************************************)
\* The list without further occurrences of its first variable.
RestOf(ids) == SelectSeq(Tail(ids), LAMBDA v : v # Head(ids))
DiffOf(M, e) == M.note[Ptr(e)]
XorFreed(R1, R2) == Drop(Drop(BddBinary(R2.s, "xor", R1.r, R2.r), R1.r), R2.r)

RECURSIVE DiffAux(_, _, _)
DiffOnce(M, e, ids) == IF Ptr(e) \in DOMAIN M.note THEN M ELSE DiffAux(M, e, ids)
DiffBelow(M, f, ids) ==
  DiffOnce(DiffOnce(M, At(M.s, f).t, ids), At(M.s, f).e, ids)
DiffJoined(M, f) ==
  JoinSubst(CreateVar(M.s, VarId(M.s, f)), DiffOf(M, At(M.s, f).t), DiffOf(M, At(M.s, f).e))
DiffXor(M, T, E) == XorFreed(Assign(M.s, T), Assign(IncrRef(M.s, T), E))
\* The difference by the variable of f itself, of its children or, when more
\* variables follow, of the differences of those.
DiffHere(M, f, last) ==
  DiffXor(M, IF last THEN At(M.s, f).t ELSE DiffOf(M, At(M.s, f).t),
             IF last THEN At(M.s, f).e ELSE DiffOf(M, At(M.s, f).e))
DiffNoted(M, f, here, last) ==
  NoteSubst(M, IF here THEN DiffHere(M, f, last) ELSE DiffJoined(M, f), Ptr(f))
DiffAux(M, f, ids) ==
  LET r == IdRank(M.s, Head(ids))
      here == r = Rank(M.s, f)
      last == here /\ RestOf(ids) = <<>>
  IN IF Term(f) \/ r < Rank(M.s, f) THEN NoteSubst(M, Assign(M.s, BDD_0), Ptr(f))
     ELSE Strictly(LAMBDA N : DiffNoted(N, f, here, last),
                   IF last THEN M ELSE DiffBelow(M, f, IF here THEN RestOf(ids) ELSE ids))
Diff(s, f, ids) ==
  IF f = VOID THEN Pair(s, VOID)
  ELSE IF ids = <<>> THEN Assign(s, f)
  ELSE IF Term(f) THEN Assign(s, BDD_0)
  ELSE Unfix(Strictly(LAMBDA M : SubstTaken(M, DiffOf(M, f)),
                      DiffAux([s |-> FixOrder(s), note |-> <<>>], f, ids)), s)

(***************************************************************************)
(* Shortest paths to a constant: for each node the numbers of nodes on the *)
(* shortest paths to 0 and to 1 and, for both, whether the path goes on by *)
(* the then edge, which it does when both are as long.                     *)
(***************************************************************************)
Unreachable == 2 * TERMID + 1   \* INF: longer than any path
Further(length) == IF length < Unreachable THEN length + 1 ELSE length
PathTo(paths, e, value) == paths[Ptr(e)][value # Neg(e)]
NotePaths(s, paths, e) ==
  LET way(value) ==
        LET T == PathTo(paths, At(s, e).t, value).length
            E == PathTo(paths, At(s, e).e, value).length
        IN [then |-> T <= E, length |-> IF T <= E THEN Further(T) ELSE E + 1]
  IN (Ptr(e) :> IF Term(e)
                THEN [value \in BOOLEAN |-> [then |-> FALSE,
                        length |-> IF value THEN 0 ELSE Unreachable]]
                ELSE [value \in BOOLEAN |-> way(value)]) @@ paths
ShortestPaths(s, f) ==
  Folded(LAMBDA paths, e : NotePaths(s, paths, e), <<>>,
         Traverse(s, NoMarks(s), f, TRUE).out)

\* bdd_path_runner: the nodes on the way and the sign of their variable.
RECURSIVE PathRunner(_, _, _, _)
PathRunner(s, paths, f, value) ==
  LET up == PathTo(paths, f, value).then
  IN IF Term(f) THEN <<>>
     ELSE <<[at |-> f, neg |-> ~up]>>
          \o PathRunner(s, paths, IF up THEN CofactorPos(s, f) ELSE CofactorNeg(s, f), value)

\* bdd_shortest_path_to_1_as_list ends with the constant; the edges of the list
\* are those of the BDD, and their signs do not add up on the way.
ListedEdges(s, run) ==
  [i \in DOMAIN run |->
     IF i = 1 THEN run[1].at
     ELSE IF run[i - 1].neg THEN At(s, run[i - 1].at).e ELSE At(s, run[i - 1].at).t]
ShortestPathToOne(s, f) ==
  LET paths == ShortestPaths(s, f)
      run == PathRunner(s, paths, f, TRUE)
      last == run[Len(run)]
      final == IF last.neg THEN At(s, last.at).e ELSE At(s, last.at).t
  IN IF f = VOID THEN <<>>
     ELSE IF PathTo(paths, f, TRUE).length = Unreachable THEN <<>>
     ELSE Append(ListedEdges(s, run), IF run = <<>> THEN f ELSE final)

\* bdd_shortest_path_as_cube
WithLiteral(p, V) == Drop(Drop(BddAnd(V.s, p.r, V.r), p.r), V.r)
LiteralOf(V, neg) == IF neg THEN Drop(BddNot(V.s, V.r), V.r) ELSE V
AddLiteral(p, step) ==
  WithLiteral(p, LiteralOf(CreateVar(p.s, VarId(p.s, step.at)), step.neg))
ShortestPathAsCube(s, f, value) ==
  LET paths == ShortestPaths(s, f)
  IN IF f = VOID THEN Pair(s, VOID)
     ELSE IF PathTo(paths, f, value).length = Unreachable THEN Assign(s, BDD_0)
     ELSE Unfix(Folded(AddLiteral, Assign(FixOrder(s), BDD_1),
                       PathRunner(s, paths, f, value)), s)

(***************************************************************************)
(* bdd_prime_implicant: M.note[TRUE] and M.note[FALSE] hold a prime of each*)
(* node's function and of its complement.  A branch's prime keeps its      *)
(* literal unless the other branch contains it; the shorter one is taken.  *)
(***************************************************************************)
PrimeOf(M, e, sign) == M.note[sign # Neg(e)][Ptr(e)]
Literalled(c, literal, prime) ==
  IF c.r THEN Pair(c.s, prime) ELSE Drop(BddAnd(c.s, prime, literal), prime)
Shorter(T, E) ==
  IF CubeLength(E.s, T.r) <= CubeLength(E.s, E.r)
  THEN Drop(Pair(E.s, T.r), E.r) ELSE Drop(Pair(E.s, E.r), T.r)
PrimeElse(T, M, e, sign, notV) ==
  LET prime == PrimeOf(M, At(M.s, e).e, sign)
  IN Shorter(T, Literalled(ImpliesTaut(IncrRef(T.s, prime), prime,
                                       SetNeg(At(M.s, e).t, ~sign)), notV, prime))
PrimeThen(M, e, sign, v, notV) ==
  LET prime == PrimeOf(M, At(M.s, e).t, sign)
  IN PrimeElse(Literalled(ImpliesTaut(IncrRef(M.s, prime), prime,
                                      SetNeg(At(M.s, e).e, ~sign)), v, prime),
               M, e, sign, notV)
NoteSigned(M, e, v, notV) ==
  Folded(LAMBDA N, sign : Noted(N, Ptr(e), sign, PrimeThen(N, e, sign, v, notV)),
         M, <<TRUE, FALSE>>)
NotePrimesWith(M, e, V, N) ==
  [NoteSigned([M EXCEPT !.s = N.s], e, V.r, N.r) EXCEPT !.s = Free(Free(@, V.r), N.r)]
NotePrimesOf(M, e, V) == NotePrimesWith(M, e, V, BddNot(V.s, V.r))
NotePrimes(M, e) ==
  IF Term(e)
  THEN Noted(Noted(M, 0, TRUE, Assign(M.s, BDD_1)), 0, FALSE, BddNot(IncrRef(M.s, BDD_1), BDD_1))
  ELSE NotePrimesOf(M, e, CreateVar(M.s, VarId(M.s, e)))
PrimeImplicant(s, f) ==
  IF f = VOID THEN Pair(s, VOID)
  ELSE Unfix(Strictly(LAMBDA M : Taken(M, PrimeOf(M, f, TRUE)),
                      Folded(NotePrimes, NoNotes(FixOrder(s)), Visited(s, f, TERMID))), s)

\* bdd_cube_factor: the literals that every prime of f has.
RECURSIVE CubeFactor(_, _)
FactorWith(V, op, p) == Drop(Drop(BddBinary(p.s, op, V.r, p.r), V.r), p.r)
FactorBelow(V, op, f) == FactorWith(V, op, CubeFactor(V.s, f))
FactorEither(p) == Drop(CubeFactor(p.s, p.r), p.r)
CubeFactor(s, f) ==
  LET T == CofactorPos(s, f)
      E == CofactorNeg(s, f)
  IN IF f = VOID THEN Pair(s, VOID)
     ELSE IF Term(f) THEN Assign(s, f)
     ELSE IF BDD_0 \in {T, E}
     THEN FactorBelow(CreateVar(s, VarId(s, f)), IF E = BDD_0 THEN "and" ELSE "less",
                      IF E = BDD_0 THEN T ELSE E)
     ELSE FactorEither(BddOr(s, T, E))

(***************************************************************************)
(* bdd_eval: the value of f where the literals of the cube hold and the    *)
(* other variables are 0 (all are 1 when the cube is the constant 1).  The *)
(* walk goes down by 0 until it is at the variable of the cube, one that f *)
(* skips included.                                                         *)
(***************************************************************************)
RECURSIVE AllSet(_, _, _), Skipped(_, _, _), EvalAt(_, _, _)
AllSet(s, f, up) ==
  IF Term(f) THEN f ELSE AllSet(s, IF up THEN CofactorPos(s, f) ELSE CofactorNeg(s, f), up)
Skipped(s, f, r) ==
  IF Term(f) \/ Rank(s, f) = r THEN f ELSE Skipped(s, CofactorNeg(s, f), r)
EvalAt(s, f, cube) ==
  LET g == Skipped(s, f, Rank(s, cube))
      T == CofactorPos(s, cube)
      E == CofactorNeg(s, cube)
  IN IF E = BDD_1 THEN AllSet(s, CofactorNeg(s, g), FALSE)
     ELSE IF E # BDD_0 THEN EvalAt(s, CofactorNeg(s, g), E)
     ELSE IF T = BDD_1 THEN AllSet(s, CofactorPos(s, g), FALSE)
     ELSE EvalAt(s, CofactorPos(s, g), T)
Eval(s, f, cube) ==
  IF VOID \in {f, cube} THEN Pair(s, IF f # VOID /\ Term(f) THEN f ELSE VOID)
  ELSE Assign(s, IF Term(f) THEN f ELSE IF Term(cube) THEN AllSet(s, f, cube = BDD_1)
                 ELSE EvalAt(s, f, cube))

(***************************************************************************)
(* Vectors of BDDs.                                                        *)
(***************************************************************************)
InVec(s, vec, Op(_, _)) ==
  Folded(LAMBDA M, i : LET p == Op(M.s, M.vec[i])
                       IN [s |-> Free(p.s, M.vec[i]), vec |-> [M.vec EXCEPT ![i] = p.r]],
         [s |-> s, vec |-> vec], [i \in DOMAIN vec |-> i])
CopyBddVec(s, vec) == [s |-> Copied(s, vec), vec |-> vec]
ComplBddVec(s, vec) == InVec(s, vec, BddNot)
ConstrainVec(s, vec, c) ==
  Unfix(InVec(FixOrder(s), vec, LAMBDA t, f : Constrain(t, f, c)), s)
=============================================================================
