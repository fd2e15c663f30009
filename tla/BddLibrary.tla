----------------------------- MODULE BddLibrary -----------------------------
(***************************************************************************)
(* The client of BddPackage and, beside it, a study of the library of      *)
(* functions on BDDs: a store with three variables, in one order or        *)
(* another, in which the client holds f, its complement and a second       *)
(* function h, for every f of three variables; it calls one function of    *)
(* the library, whose result goes to the last slot, or passes what it      *)
(* holds as a vector, which is worked on in place.                         *)
(*                                                                         *)
(*   ops     in a study, Study before its one call and Answered after it,  *)
(*           or Leaked after a call that keeps references for ever         *)
(***************************************************************************)
EXTENDS BddPackage, BddFactor

Study == MaxOps + 1
Answered == MaxOps + 2
Leaked == MaxOps + 3

ASSUME StudyConstants == MaxVars = 3 /\ Slots = 1 .. 4 /\ MaxOps > 0

F == held[1]
H == held[3]
FM == meant[1]
HM == meant[3]
Vec == <<held[1], held[2], held[3], held[4]>>

\* The BDD of the function m of the variables ids.
RECURSIVE Built(_, _, _)
BuiltNode(V, T, E) == Drop(Drop(Drop(Ite(V.s, V.r, T.r, E.r), V.r), T.r), E.r)
BuiltElse(T, m, ids) ==
  LET E == Built(T.s, {x \in m : Head(ids) \notin x}, Tail(ids))
  IN BuiltNode(CreateVar(E.s, Head(ids)), T, E)
Built(s, m, ids) ==
  IF ids = <<>> THEN Assign(s, IF m = {} THEN BDD_0 ELSE BDD_1)
  ELSE BuiltElse(Built(s, {x \ {Head(ids)} : x \in {y \in m : Head(ids) \in y}}, Tail(ids)),
                 m, ids)
BuiltBdd(s, m) == Built(s, m, <<0, 1, 2>>)

\* Three variables in the order of their numbers, or in the reverse order,
\* none of them held; each order with an h.
GivenUp(p) == Free(p.s, p.r)
Ordered(Create(_)) == GivenUp(Create(GivenUp(Create(GivenUp(Create(InitStore))))))
Orders ==
  {[store |-> Ordered(CreateVarLast), h |-> {x \in Valuations : (0 \in x) # (1 \in x)}],
   [store |-> Ordered(CreateVarFirst), h |-> {x \in Valuations : 1 \in x /\ 2 \notin x}]}

StudyWith(f, n, h) == [s |-> h.s, held |-> <<f.r, n.r, h.r, VOID>>]
StudyThen(f, n, h) == StudyWith(f, n, BuiltBdd(n.s, h))
StudyOf(f, h) == StudyThen(f, BddNot(f.s, f.r), h)

StudyInit == \E o \in Orders, m \in SUBSET Valuations :
  /\ \E S \in {StudyOf(BuiltBdd(o.store, m), o.h)} : store = S.s /\ held = S.held
  /\ meant = <<m, Valuations \ m, o.h, {}>>
  /\ dump = NoDump
  /\ ops = Study

LibInit == Init \/ StudyInit

(***************************************************************************)
(* Functions on sets of valuations.                                        *)
(***************************************************************************)
Flipped(m, vs) == {x \in Valuations : ((x \ vs) \cup (vs \ x)) \in m}
PutAll(m, new) == {x \in Valuations : {v \in Vars : x \in new[v]} \in m}
Variable(v) == {x \in Valuations : v \in x}
Essential(m) == {v \in Vars : Flipped(m, {v}) # m}
Quantifying(m, D, existential) ==
  FoldSet(LAMBDA v, q : Without(q, v, existential), m, D)

(***************************************************************************)
(* The calls.                                                              *)
(***************************************************************************)
Leaves(how) == ops = Study /\ ops' = how
Answer(p, m) == Leaves(Answered) /\ Receive(4, p, m)
InPlace(V, Of(_)) ==
  /\ store' = V.s
  /\ held' = V.vec
  /\ meant' = [x \in Slots |-> IF Full(x) THEN Of(meant[x]) ELSE {}]
  /\ UNCHANGED dump

InvertOne == \E v \in Vars : Answer(InvertInput(store, F, v), Flipped(FM, {v}))
InvertAll == Answer(InvertInputs(store, F), Flipped(FM, Vars))
SwapPairs ==
  /\ \A v \in Essential(FM) : Partner(v) \in Vars
  /\ Answer(SwapOddEvenVars(store, F), PutAll(FM, [v \in Vars |-> Variable(Partner(v))]))

SubstOne == \E v \in Vars :
  Answer(Subst(store, H, v, F), PutAll(FM, [w \in Vars |-> IF w = v THEN HM ELSE Variable(w)]))
SubstList ==
  Answer(SubstParList(store, <<H, held[2]>>, <<2, 0>>, F),
         PutAll(FM, (2 :> HM) @@ (0 :> meant[2]) @@ (1 :> Variable(1))))
ComposeWith == \E g \in {BDD_0, BDD_1, H} :
  Answer(Compose(store, F, g, H),
         CASE g = BDD_0 -> FM \cup HM
           [] g = BDD_1 -> FM \cap HM
           [] OTHER -> PutAll(FM, [w \in Vars |-> IF w = VarId(store, g) THEN HM
                                                  ELSE Variable(w)]))

\* Exactly one argument of <<f, h, f>> is h where f is not.
None == Answer(NoneOf(store, <<F, H>>), Valuations \ (FM \cup HM))
One == \E args \in {<<F, H>>, <<F, H, F>>} :
  Answer(OneOf(store, args), (IF Len(args) = 2 THEN FM \ HM ELSE {}) \cup (HM \ FM))
VarsAsCube == \E ids \in {<<0, 2>>, <<2, 0, 2>>, <<-1>>} :
  Answer(ListOfVarsAsCube(store, ids),
         {x \in Valuations : \A i \in DOMAIN ids : (IF ids[i] < 0 THEN -ids[i] ELSE ids[i]) \in x})
Supporting ==
  Answer(SupportAsCube(store, F), {x \in Valuations : Essential(FM) \subseteq x})
Factor ==
  Answer(CubeFactor(store, F),
         {x \in Valuations : \A v \in Vars : /\ FM \subseteq Variable(v) => v \in x
                                             /\ FM \cap Variable(v) = {} => v \notin x})

\* What these return is judged in AnswersTrue.
AnswerAny(p) == Leaves(Answered) /\ ReceiveAny(4, p)
Path == \E value \in BOOLEAN : AnswerAny(ShortestPathAsCube(store, F, value))
PrimeOne == AnswerAny(PrimeImplicant(store, F))

\* The difference by a list of variables.  A node is noted once, for the part of
\* the list it is first met with: what is promised is not returned, and any
\* function received, when it is met with two (a shared node).
RECURSIVE MetWith(_, _)
MetWith(e, ids) ==
  IF ids = <<>> \/ Term(e) THEN {}
  ELSE LET r == store.rank[Head(ids)]
           rest == IF r = Rank(store, e) THEN Tail(ids) ELSE ids
       IN {<<Ptr(e), ids>>} \cup
          (IF r < Rank(store, e) THEN {}
           ELSE MetWith(At(store, e).t, rest) \cup MetWith(At(store, e).e, rest))
MetOnce(ids) == \A a, b \in MetWith(F, ids) : a[1] = b[1] => a = b
Difference(m, v) == {x \in Valuations : (x \in m) # (x \in Flipped(m, {v}))}
DiffBy == \E v, w \in Vars :
  /\ Leaves(Answered)
  /\ store.rank[v] <= store.rank[w]
  /\ LET ids == IF v = w THEN <<v>> ELSE <<v, w>>
     IN \E p \in {Diff(store, F, ids)} :
          IF MetOnce(ids) THEN Receive(4, p, FoldRight(LAMBDA u, m : Difference(m, u), ids, FM))
          ELSE ReceiveAny(4, p)

\* The variables that are quantified over, and their cube: BDD_0 stands for
\* all of them.
Everything == {-1}
Domains == {{0}, {1}, {0, 2}, Vars}
DomainCube(D) ==
  IF D = Everything THEN Assign(store, BDD_0) ELSE ListOfVarsAsCube(store, Listing(D))
Over(D) == IF D = Everything THEN Vars ELSE D
LeavesOver(D) == Leaves(IF D = Everything THEN Answered ELSE Leaked)
Smoothed(C, D) ==
  Receive(4, Drop(AndSmoothC(C.s, F, H, C.r), C.r), Quantifying(FM \cap HM, D, TRUE))
Quantified1(C, D, existential) ==
  Receive(4, Drop(QuantifyC(C.s, existential, F, C.r), C.r), Quantifying(FM, D, existential))
QuantifyOver == \E D \in Domains \cup {Everything}, existential \in BOOLEAN :
  LeavesOver(D) /\ Quantified1(DomainCube(D), Over(D), existential)
SmoothOver == \E D \in Domains \cup {Everything} :
  LeavesOver(D) /\ Smoothed(DomainCube(D), Over(D))
SmoothVar == \E v \in Vars, existential \in BOOLEAN :
  /\ Leaves(Leaked)
  /\ Receive(4, Quant1(store, existential, F, v), Without(FM, v, existential))

(***************************************************************************)
(* Vectors.  What a variable is replaced with does not depend on it.       *)
(***************************************************************************)
FreeAlso(V, e) == [V EXCEPT !.s = Free(@, e)]
SubstInVec(V, v, w) ==
  InPlace(FreeAlso(SubstVec(V.s, Vec, v, V.r), V.r),
          LAMBDA m : PutAll(m, [u \in Vars |-> Variable(IF u = v THEN w ELSE u)]))
VecSubst == \E v, w \in Vars :
  v # w /\ Leaves(Answered) /\ SubstInVec(CreateVar(store, w), v, w)
VecQuantify == \E D \in Domains, existential \in BOOLEAN :
  /\ Leaves(Answered)
  /\ InPlace(QuantifyVec(store, existential, Vec, RankOrderVars(store, Listing(D))),
             LAMBDA m : Quantifying(m, D, existential))
QuantifyCInVec(C, D, existential) ==
  InPlace(FreeAlso(QuantifyCVec(C.s, existential, Vec, C.r), C.r),
          LAMBDA m : Quantifying(m, D, existential))
VecQuantifyC == \E D \in Domains \cup {Everything}, existential \in BOOLEAN :
  LeavesOver(D) /\ QuantifyCInVec(DomainCube(D), Over(D), existential)
VecConstrain ==
  /\ Leaves(Answered)
  /\ InPlace(FreeAlso(ConstrainVec(IncrRef(store, H), Vec, H), H),
             LAMBDA m : ConstrainPromise(m, HM))
VecNegate ==
  Leaves(Answered) /\ InPlace(ComplBddVec(store, Vec), LAMBDA m : Valuations \ m)

Ask ==
  \/ InvertOne \/ InvertAll \/ SwapPairs \/ SubstOne \/ SubstList \/ ComposeWith
  \/ None \/ One \/ VarsAsCube \/ Supporting \/ Factor
  \/ Path \/ PrimeOne \/ DiffBy
  \/ QuantifyOver \/ SmoothOver \/ SmoothVar
  \/ VecSubst \/ VecQuantify \/ VecQuantifyC \/ VecConstrain \/ VecNegate

LibNext == Next \/ Ask

LibSpec == LibInit /\ [][LibNext]_vars

(***************************************************************************)
(* Properties.                                                             *)
(***************************************************************************)
\* Every count is exact, as RefsExact says, except that the quantifications
\* over a cube keep references they never give up: after one of them a count
\* may be too large but never too small, so that nothing in use is freed.
RefsKept ==
  /\ ops # Leaked => RefsExact
  /\ \A n \in Nodes(store) : store.node[n].ref = MaxRef \/ store.node[n].ref >= Owners(n)

\* A walk by pointer reversal visits every node below its root once, the
\* children before their parents in post-order, and leaves every link as it
\* found it and every node it met marked.
Below(e) ==
  LET RECURSIVE Reach(_)
      Reach(set) == LET more == set \cup {Ptr(store.node[n].t) : n \in set \ {0}}
                                    \cup {Ptr(store.node[n].e) : n \in set \ {0}}
                    IN IF more = set THEN set ELSE Reach(more)
  IN Reach({Ptr(e)})

WalkRestoresLinks ==
  ops = Study => \A x \in 1 .. 3, post \in BOOLEAN :
    LET w == Traverse(store, NoMarks(store), held[x], post)
        seen == [i \in DOMAIN w.out |-> Ptr(w.out[i])]
    IN /\ w.node = store.node
       /\ {seen[i] : i \in DOMAIN seen} = Below(held[x])
       /\ Len(seen) = Cardinality(Below(held[x]))
       /\ {n \in DOMAIN w.mark : w.mark[n] = 1} = Below(held[x])
       /\ post => \A i, j \in DOMAIN seen : i < j =>
            seen[j] \notin Below(2 * seen[i])

\* The cubes of a function are distinct prime implicants that make it up, and
\* when they are asked to be irredundant none can be left out.
IsCube(m) == \E on, off \in SUBSET Vars :
  m = {x \in Valuations : on \subseteq x /\ x \cap off = {}}
Prime(m, f) ==
  /\ IsCube(m) /\ m \subseteq f
  /\ \A v \in Vars : m # Without(m, v, TRUE) => ~(Without(m, v, TRUE) \subseteq f)

CubesExplain ==
  ops = Study => \A x \in 1 .. 3, irredundant \in BOOLEAN :
    \A L \in {CubesOf(store, held[x], irredundant)} :
      LET m == [i \in DOMAIN L.cubes |-> Meaning(L.s, L.cubes[i], Vars)]
          all == {m[i] : i \in DOMAIN m}
      IN /\ UNION all = meant[x]
         /\ Cardinality(all) = Len(L.cubes)
         /\ \A c \in all : Prime(c, meant[x])
         /\ irredundant => \A c \in all : UNION (all \ {c}) # meant[x]

RECURSIVE Tested(_, _)
Tested(e, x) ==
  IF Term(e) THEN {}
  ELSE LET v == VarId(store, e)
       IN {v} \cup Tested(IF v \in x THEN At(store, e).t ELSE At(store, e).e, x)

\* bdd_sat finds a valuation exactly if there is one, and whatever it leaves
\* open may be chosen freely.
SatTrue ==
  LET found == Sat(store, F)
  IN /\ found.found <=> FM # {}
     /\ found.found => \A x \in Valuations :
          (\A v \in DOMAIN found.pi : found.pi[v] <=> v \in x) => x \in FM

\* The numbers of satisfying valuations of all variables and of the variables
\* of a cube that has the support; the cube of no variables is left out, for
\* which the count of the constant 1 is 0 (bdd_count_sat_assignments).
CountTrue ==
  /\ CountSat(store, F, BDD_0) = Cardinality(FM)
  /\ \A D \in SUBSET Vars \ {{}} : Essential(FM) \subseteq D =>
       \A C \in {ListOfVarsAsCube(store, Listing(D))} :
         CountSat(C.s, F, C.r) = Cardinality(FM \cap SUBSET D)

SupportTrue ==
  \A ids \in {SupportAsListOfVars(store, F)} :
     /\ \A v \in Vars : InSupport(store, v, F) <=> v \in Essential(FM)
     /\ Range(ids) = Essential(FM) /\ NrSupportVars(store, F) = Cardinality(Range(ids))
     /\ \A i \in 2 .. Len(ids) : store.rank[ids[i - 1]] < store.rank[ids[i]]
     /\ \A v \in Vars :
          UnateIn(store, F, v).r <=>
            \/ FM \cap Variable(v) \subseteq Flipped(FM, {v})
            \/ FM \ Variable(v) \subseteq Flipped(FM, {v})

\* What is read off a cube, and what is no cube.  The list of its variables has
\* the signs of all but variable 0, whose negative is itself.
CubeTrue ==
  LET walk == CubeWalk(store, F)
      literals == {[v |-> v, neg |-> FM \cap Variable(v) = {}] : v \in Essential(FM)}
  IN /\ walk.cube <=> IsCube(FM)
     /\ CubeP(store, F) <=> IsCube(FM)
     /\ IsCube(FM) /\ FM # {} =>
          /\ Range(walk.literals) = literals
          /\ SizeCube(store, F) = Cardinality(literals)
          /\ CubeLength(store, F) = Cardinality(literals)
          /\ \A i \in DOMAIN walk.literals : LET l == walk.literals[i] IN
               CubeAsListOfVars(store, F)[i] = IF l.neg THEN -l.v ELSE l.v

\* A path to a constant is an implicant, of as many literals as the shortest
\* of all walks to that constant has tests.
FewestTests(goal) ==
  CHOOSE k \in {Cardinality(Tested(F, x)) : x \in goal} :
    \A x \in goal : k <= Cardinality(Tested(F, x))
PathExplains(m, goal, least) ==
  /\ IsCube(m) /\ m # {} /\ m \subseteq goal
  /\ Cardinality(Essential(m)) = least
PathTrue ==
  \A value \in BOOLEAN :
    LET goal == IF value THEN FM ELSE Valuations \ FM
    IN \A p \in {ShortestPathAsCube(store, F, value)} :
         IF goal = {} THEN p.r = BDD_0
         ELSE \A least \in {FewestTests(goal)} :
                /\ \A m \in {Meaning(p.s, p.r, Vars)} : PathExplains(m, goal, least)
                /\ value => Len(ShortestPathToOne(store, F)) = least + 1

PrimeTrue ==
  \A p \in {PrimeImplicant(store, F)} :
    IF FM = {} THEN p.r = BDD_0 ELSE Prime(Meaning(p.s, p.r, Vars), FM)

\* bdd_eval with all variables 0, with all 1, and under the literals on for the
\* variables D.  Only cubes are judged all of whose variables the walk tests:
\* bdd_eval passes over others in the function but not in the cube, and is wrong
\* then of what bdd_fns.doc says of any cube.
ValueAt(x) == IF x \in FM THEN BDD_1 ELSE BDD_0
EvalTrue ==
  /\ Eval(store, F, BDD_0).r = ValueAt({}) /\ Eval(store, F, BDD_1).r = ValueAt(Vars)
  /\ \A D \in SUBSET Vars : \A on \in SUBSET D : D # {} /\ D \subseteq Tested(F, on) =>
       LET C == BuiltBdd(store, {x \in Valuations : x \cap D = on})
       IN Eval(C.s, F, C.r).r = ValueAt(on)

\* The value of a factored expression; R has the expressions of the roots and
\* of what was given a name.
RECURSIVE ValueOf(_, _, _)
ValueOf(R, expr, x) ==
  CASE expr.op = "const" -> expr.edge = BDD_1
    [] expr.op = "lit" -> (expr.v \in x) # expr.neg
    [] expr.op = "and" -> ValueOf(R, expr.l, x) /\ ValueOf(R, expr.r, x)
    [] expr.op = "or" -> ValueOf(R, expr.l, x) \/ ValueOf(R, expr.r, x)
    [] expr.op = "xor" -> ValueOf(R, expr.l, x) # ValueOf(R, expr.r, x)
    [] expr.op = "root" -> ValueOf(R, R.roots[expr.index], x) # expr.neg
    [] expr.op = "sub" -> ValueOf(R, R.subs[expr.index], x) # expr.neg

\* The equations of f, its complement and h stand for them, with few names or
\* with one for every node, in either style.
Eager == {[in |-> 1, size |-> 1]}
Interfaces == [matrix : {DefaultMatrix, Eager}, style : BOOLEAN, xors : BOOLEAN,
               implications : BOOLEAN]
FactorTrue ==
  \A I \in Interfaces : \A R \in {FactorVec(I, store, <<F, held[2], H>>)} :
    \A k \in 1 .. 3 : {x \in Valuations : ValueOf(R, R.roots[k], x)} = meant[k]

\* bdd_restrict(f, c) agrees with f wherever c holds.
RestrictTrue ==
  \A x, y \in 1 .. 3 : held[y] # BDD_0 =>
    \A p \in {RestrictTo(store, held[x], held[y])} :
      Meaning(p.s, p.r, Vars) \cap meant[y] = meant[x] \cap meant[y]

\* bdd_ite_const finds the constants and only them without building a node:
\* whether one function implies another, and whether two are the same.
ConstantsTrue ==
  \A x, y \in 1 .. 3 : \A h \in {BDD_1, Compl(held[y])} :
    LET p == IteConst(store, held[x], held[y], h)
        m == (meant[x] \cap meant[y])
             \cup (IF h = BDD_1 THEN Valuations \ meant[x]
                   ELSE Valuations \ (meant[x] \cup meant[y]))
    IN /\ p.s.node = store.node
       /\ p.r = IF m = {} THEN BDD_0 ELSE IF m = Valuations THEN BDD_1 ELSE VOID

\* What the library says of a function of three variables is so: whether and how
\* it can be satisfied, its support, unateness, primes, shortest paths, values and
\* factors, and whether it is a cube.  The questions are those above, each with the
\* arguments the answer is good for; CountTrue, CubeTrue and EvalTrue leave out
\* some that the documentation has.
AnswersTrue ==
  ops = Study =>
    /\ SatTrue /\ CountTrue /\ SupportTrue /\ CubeTrue /\ PathTrue /\ PrimeTrue
    /\ EvalTrue /\ FactorTrue /\ RestrictTrue /\ ConstantsTrue
=============================================================================
