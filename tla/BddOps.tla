------------------------------- MODULE BddOps -------------------------------
(***************************************************************************)
(* The rest of the package's basic interface (src/src/BDD/bdd/src/bdd.c):  *)
(* Boolean operations, cofactors, the walk over a BDD by pointer reversal  *)
(* and what is counted with it, and dumping and restoring of BDDs.         *)
(***************************************************************************)
EXTENDS BddOrder, TLC

\* p.r was computed from the edge e, which is given up.
Drop(p, e) == Pair(Free(p.s, e), p.r)

BddNot(s, f) == Ite(s, f, BDD_0, BDD_1)

\* The Boolean operations, each one if-then-else; n is the negation of g,
\* which five of them build first and give up after.
OperationTriple(op, f, g, n) ==
  CASE op = "and" -> Triple(f, g, BDD_0)
    [] op = "or" -> Triple(f, BDD_1, g)
    [] op = "less" -> Triple(f, BDD_0, g)
    [] op = "greater" -> Triple(g, BDD_0, f)
    [] op = "implies" -> Triple(f, g, BDD_1)
    [] op = "xor" -> Triple(f, n, g)
    [] op = "equiv" -> Triple(f, g, n)
    [] op = "nor" -> Triple(f, BDD_0, n)
    [] op = "nand" -> Triple(f, n, BDD_1)
    [] op = "implied" -> Triple(f, BDD_1, n)

NegatesSecond == {"xor", "equiv", "nor", "nand", "implied"}

Operate(n, op, f, g) ==
  LET x == OperationTriple(op, f, g, n.r) IN Drop(Ite(n.s, x.f, x.g, x.h), n.r)
BddBinary(s, op, f, g) ==
  Operate(IF op \in NegatesSecond THEN BddNot(s, g) ELSE Pair(s, VOID), op, f, g)

BddAnd(s, f, g) == Ite(s, f, g, BDD_0)
BddOr(s, f, g) == Ite(s, f, BDD_1, g)

\* BDD_IMPLIES_TAUT, BDD_COVERS: is f -> g valid?  does f contain g?  The
\* computed table keeps what was found out.
Is(p, e) == [s |-> p.s, r |-> p.r = e]
ImpliesTaut(s, f, g) == Is(IteConst(s, f, g, BDD_1), BDD_1)
Covers(s, f, g) == IF f = g THEN [s |-> s, r |-> TRUE] ELSE ImpliesTaut(s, g, f)

\* bdd_cofactors: the top variable and the cofactors, each a new reference;
\* a constant counts as a variable with cofactors 1 and 0.
CofactorsOf(V, T, E) == [s |-> IncrRef(IncrRef(V.s, T), E), v |-> V.r, t |-> T, e |-> E]
Cofactors(s, f) ==
  LET T == IF f # VOID /\ Term(f) THEN BDD_1 ELSE CofactorPos(s, f)
      E == IF f # VOID /\ Term(f) THEN BDD_0 ELSE CofactorNeg(s, f)
  IN CofactorsOf(IF f = VOID \/ Term(f) THEN Assign(s, f) ELSE CreateVar(s, VarId(s, f)), T, E)

InvertCofactors(c) ==
  Drop(Drop(Drop(Ite(c.s, c.v, c.e, c.t), c.v), c.t), c.e)
InvertInputTop(s, f) == InvertCofactors(Cofactors(s, f))

TopVar(s, f) ==
  IF f = VOID THEN Pair(s, VOID)
  ELSE IF Term(f) THEN Assign(s, f) ELSE CreateVar(s, VarId(s, f))

BddThen(s, f) == Assign(s, CofactorPos(s, f))
BddElse(s, f) == Assign(s, CofactorNeg(s, f))

PosLiteral(s, f) == CofactorPos(s, f) = BDD_1 /\ CofactorNeg(s, f) = BDD_0
NegLiteral(s, f) == CofactorPos(s, f) = BDD_0 /\ CofactorNeg(s, f) = BDD_1
Literal(s, f) == PosLiteral(s, f) \/ NegLiteral(s, f)

(***************************************************************************)
(* bdd_traverse_pre and bdd_traverse_post.  The way back up is kept in the *)
(* nodes themselves: the link that was followed down holds the node above, *)
(* and the flag says which link that is.  Every node on the way changes    *)
(* its mark.  The walk w has the links of the store, the marks and flags,  *)
(* the current edge v, the one above it b, and what was visited.           *)
(***************************************************************************)
Marked(w, e, f) == w.mark[Ptr(e)] = w.mark[Ptr(f)]

Enter(w, post) ==
  [w EXCEPT !.mark[Ptr(w.v)] = 1 - @,
            !.out = IF post THEN @ ELSE Append(@, w.v)]

MoveDownThen(w) ==
  [w EXCEPT !.v = w.node[Ptr(w.v)].t, !.b = w.v,
            !.node[Ptr(w.v)].t = w.b, !.flag[Ptr(w.v)] = 0]
MoveDownElse(w) ==
  [w EXCEPT !.v = w.node[Ptr(w.v)].e, !.b = w.v,
            !.node[Ptr(w.v)].e = w.b, !.flag[Ptr(w.v)] = 1]
MoveUpElse(w) ==
  [w EXCEPT !.v = w.b, !.b = w.node[Ptr(w.b)].e,
            !.node[Ptr(w.b)].e = w.v, !.flag[Ptr(w.b)] = 0]
\* Mutant: the way back up is left in the then link.
MoveUpLeavingLink(w) == [w EXCEPT !.v = w.b, !.b = w.node[Ptr(w.b)].t]
MoveUpThen(w) ==
  [w EXCEPT !.v = w.b, !.b = w.node[Ptr(w.b)].t, !.node[Ptr(w.b)].t = w.v]

RECURSIVE WalkDown(_, _), WalkElse(_, _), WalkUp(_, _)
WalkDown(w, post) ==
  LET x == Enter(w, post)
  IN IF Term(x.v) THEN WalkUp(x, post)
     ELSE IF ~Marked(x, x.node[Ptr(x.v)].t, x.v)
     THEN WalkDown(MoveDownThen(x), post)
     ELSE WalkElse(x, post)
WalkElse(w, post) ==
  IF ~Marked(w, w.node[Ptr(w.v)].e, w.v)
  THEN WalkDown(MoveDownElse(w), post) ELSE WalkUp(w, post)
WalkUp(w, post) ==
  LET x == IF post THEN [w EXCEPT !.out = Append(@, w.v)] ELSE w
  IN IF x.b = VOID THEN x
     ELSE IF x.flag[Ptr(x.b)] = 1 THEN WalkUp(MoveUpElse(x), post)
     ELSE WalkElse(MoveUpThen(x), post)

NoMarks(s) == [n \in DOMAIN s.node |-> 0]

\* A walk from v over a store whose marks are mark.
Traverse(s, mark, v, post) ==
  WalkDown([node |-> s.node, mark |-> mark, flag |-> NoMarks(s), v |-> v,
            b |-> VOID, out |-> <<>>], post)

\* BDD_bdd_size: walks once to count and once to reset the marks.
Size(s, f) ==
  IF f = VOID THEN 0 ELSE Len(Traverse(s, NoMarks(s), f, FALSE).out)

\* bdd_size_vec: the roots not met yet are walked from, in order.
MarkFrom(s, mark, vec) ==
  LET Step(x, f) ==
        IF f = VOID \/ x.mark[Ptr(f)] = 1 THEN x
        ELSE LET w == Traverse(s, x.mark, f, FALSE)
             IN [mark |-> w.mark, n |-> x.n + Len(w.out)]
  IN Folded(Step, [mark |-> mark, n |-> 0], vec)
SizeVec(s, vec) == MarkFrom(s, NoMarks(s), vec).n

\* bdd_depth
RECURSIVE Depth(_, _)
Depth(s, f) ==
  IF f = VOID \/ Term(f) THEN 0
  ELSE 1 + MaxOf(Depth(s, At(s, f).t), Depth(s, At(s, f).e))

\* bdd_max_var_rank: the variable of f with the largest rank.  The search
\* starts from rank 0 and the variable a former call left, so that a variable
\* of rank 0 is never taken.
MaxVarRank(s, f, previous) ==
  LET Larger(best, e) ==
        IF ~Term(e) /\ Rank(s, e) > best.rank
        THEN [rank |-> Rank(s, e), id |-> VarId(s, e)] ELSE best
  IN IF f = VOID \/ Term(f) THEN -1
     ELSE Folded(Larger, [rank |-> 0, id |-> previous],
                   Traverse(s, NoMarks(s), f, FALSE).out).id

(***************************************************************************)
(* Dumping a vector of BDDs: the internal nodes in post-order, each with   *)
(* its variable and the symbolic addresses of its children, then the       *)
(* edges.  The two constants have addresses 0 and 1 (one node, whose       *)
(* address is 1), BDD_X has 2; the nodes count on from 3.                  *)
(***************************************************************************)
PostOrder(s, vec) ==
  LET Step(x, f) ==
        IF f = VOID \/ x.mark[Ptr(f)] = 1 THEN x
        ELSE LET w == Traverse(s, x.mark, f, TRUE)
             IN [mark |-> w.mark, out |-> x.out \o w.out]
      all == Folded(Step, [mark |-> NoMarks(s), out |-> <<>>], vec).out
  IN SelectSeq([i \in DOMAIN all |-> Ptr(all[i])], LAMBDA n : n # 0)

Dump(s, vec) ==
  LET order == PostOrder(s, vec)
      Address(e) == IF Term(e) THEN 1
                    ELSE 2 + CHOOSE i \in DOMAIN order : order[i] = Ptr(e)
      Edge(e) == IF e = VOID THEN [id |-> 0, inv |-> TRUE, neg |-> TRUE]
                 ELSE [id |-> Address(e), inv |-> FALSE, neg |-> Neg(e)]
  IN [nodes |-> [i \in DOMAIN order |->
        LET n == s.node[order[i]]
        IN [v |-> n.v, t |-> Edge(n.t), e |-> Edge(n.e)]],
      edges |-> [i \in DOMAIN vec |-> Edge(vec[i])]]

\* bdd_restore_edge, given the restored functions by symbolic address.
NegatedEdge(f) == Drop(BddNot(f.s, f.r), f.r)
RestoreEdge(s, edge, at) ==
  IF edge.inv /\ edge.neg /\ edge.id = 0 THEN Pair(s, VOID)
  ELSE IF edge.neg THEN NegatedEdge(Assign(s, at[edge.id]))
  ELSE Assign(s, at[edge.id])

\* bdd_restore_node: built with bdd_ite, so the order may be another by now.
RestoreIte(E, v, T) == Drop(Drop(Drop(Ite(E.s, v, T, E.r), v), T), E.r)
RestoreWith(v, T, rec, at) ==
  RestoreIte(RestoreEdge(IncrRef(v.s, T), rec.e, at), v.r, T)
RestoreNode(s, rec, at) == RestoreWith(CreateVar(s, rec.v), at[rec.t.id], rec, at)

\* bdd_restore_from_chars_vec: the nodes, then the edges (field vec), then
\* the nodes are given up.  BDD_X is referenced until the end.
AtAddress(R, at) ==
  [s |-> R.s, at |-> at @@ (MaxOf(3, Cardinality(DOMAIN at) + 1) :> R.r)]
RestoreNodes(s, nodes) ==
  Folded(LAMBDA x, rec : AtAddress(RestoreNode(x.s, rec, x.at), x.at),
           [s |-> s, at |-> (0 :> BDD_0) @@ (1 :> BDD_1)], nodes)

WithEdge(R, x) == [x EXCEPT !.s = R.s, !.vec = Append(@, R.r)]
RestoreEdges(built, edges) ==
  Folded(LAMBDA x, edge : WithEdge(RestoreEdge(x.s, edge, x.at), x),
           [s |-> built.s, at |-> built.at, vec |-> <<>>], edges)

Referenced(s) == [IncrRef(IncrRef(s, BDD_0), BDD_1) EXCEPT !.dead = @ - 1]
GiveUpNodes(done) ==
  [s |-> [Folded(LAMBDA t, i : Free(t, done.at[i]), done.s,
                   Listing(DOMAIN done.at)) EXCEPT !.dead = @ + 1],
   vec |-> done.vec]

Restore(s, dump) ==
  GiveUpNodes(RestoreEdges(RestoreNodes(Referenced(s), dump.nodes), dump.edges))

(***************************************************************************)
(* What an edge means: the sets of variables under which it is true.       *)
(***************************************************************************)
RECURSIVE Holds(_, _, _)
Holds(s, e, val) ==
  IF Term(e) THEN ~Neg(e)
  ELSE LET n == At(s, e)
       IN Holds(s, IF n.v \in val THEN n.t ELSE n.e, val) # Neg(e)

Meaning(s, e, vars) == {val \in SUBSET vars : Holds(s, e, val)}
=============================================================================
