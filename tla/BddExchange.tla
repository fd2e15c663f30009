----------------------------- MODULE BddExchange -----------------------------
(***************************************************************************)
(* The exchange of two adjacent ranks of the variable order, in place      *)
(* (src/src/BDD/bdd/src/bdd.c, bdd_process_level): the nodes of the upper  *)
(* rank that have a child of the lower one are rewritten at their own      *)
(* address, so that every edge held outside keeps its function.            *)
(***************************************************************************)
EXTENDS BddStore

(***************************************************************************)
(* bdd_create_node_1: the constructor used during an exchange.  No rank    *)
(* test, no collection, no resizing, and no dead node to be found.         *)
(***************************************************************************)
FindOrAlloc1(s, v, T, E, same) ==
  IF same # {} THEN Assign(s, 2 * (CHOOSE n \in same : TRUE)) ELSE AllocNode(s, v, T, E)
Unsigned1(s, v, T, E) == FindOrAlloc1(s, v, T, E, SameNode(s, v, T, E))
CreateNode1(s, v, T, E) ==
  IF T = E THEN Assign(s, T)
  ELSE Negate(Unsigned1(s, v, Pos(T), SetNeg(E, Neg(T))), Neg(T))

ExtendIfFull(s, v) ==
  IF Overloaded(s, v) THEN ExtendHashTable(s, v) ELSE s

\* Mutant: the node is unlinked but still counted as dead.
LocalGcStillDead(s, e) ==
  [DecrRef(DecrRef(s, At(s, e).t), At(s, e).e)
     EXCEPT !.node = Table([n \in DOMAIN @ \ {Ptr(e)} |-> @[n]])]
\* bdd_local_gc: unlinks a node that died during an exchange.
LocalGc(s, e) ==
  [DecrRef(DecrRef(s, At(s, e).t), At(s, e).e)
     EXCEPT !.node = Table([n \in DOMAIN @ \ {Ptr(e)} |-> @[n]]), !.dead = @ - 1]

CollectIfDead(s, e) == IF Dead(s, e) THEN LocalGc(s, e) ELSE s

\* Node n takes variable w of the next rank and its new children.
Relink(s, n, w, T, E) ==
  ExtendIfFull([s EXCEPT !.node[n] = [@ EXCEPT !.v = w, !.t = T, !.e = E]], w)

\* The three cases of bdd_process_level for a node n of rank r; a node with
\* no child of rank r + 1 is left alone.  The node is unlinked from its table
\* first, so that its children are not looked up in it.  The child of the
\* lower rank is given up before the other one; the branch made first is the
\* one that does not use both.
GiveBoth(s, F1, F0) ==
  LET t == CollectIfDead(DecrRef(DecrRef(s, F1), F0), F0)
  IN IF Ptr(F0) = Ptr(F1) THEN t ELSE CollectIfDead(t, F1)
GiveNext(s, next, other) == DecrRef(CollectIfDead(DecrRef(s, next), next), other)

Released(s, F1, F0, thenNext, elseNext) ==
  IF thenNext /\ elseNext THEN GiveBoth(s, F1, F0)
  ELSE GiveNext(s, IF thenNext THEN F1 ELSE F0, IF thenNext THEN F0 ELSE F1)

\* A and B are the branches of n in the order they are made.
SecondMade(A, B, n, w, thenFirst) ==
  Relink(B.s, n, w, IF thenFirst THEN A.r ELSE B.r, IF thenFirst THEN B.r ELSE A.r)
FirstMade(A, n, v, w, T, E, thenFirst) ==
  SecondMade(A, CreateNode1(A.s, v, T, E), n, w, thenFirst)

\* The halves of a child by v: itself twice when it is not of the next rank.
Halved(s, e, next) == IF next THEN <<CofactorPos(s, e), CofactorNeg(s, e)>> ELSE <<e, e>>
Exchanged(free, n, v, w, F1, F0, thenNext) ==
  LET a == IF thenNext THEN 1 ELSE 2
  IN FirstMade(CreateNode1(free, v, F1[a], F0[a]), n, v, w, F1[3 - a], F0[3 - a], thenNext)
Processed(s, n, v, w, F1, F0, thenNext, elseNext) ==
  IF ~thenNext /\ ~elseNext THEN s
  ELSE Exchanged(Released([s EXCEPT !.node[n].v = VOID], F1, F0, thenNext, elseNext),
                 n, v, w, Halved(s, F1, thenNext), Halved(s, F0, elseNext), thenNext)
ProcessNode(s, n, r) ==
  Processed(s, n, s.space[r], s.space[r + 1], s.node[n].t, s.node[n].e,
            Rank(s, s.node[n].t) = r + 1, Rank(s, s.node[n].e) = r + 1)

\* bdd_process_level takes the nodes one by one, here from the least address.
Ascending(S) ==
  [i \in 1 .. Cardinality(S) |->
     CHOOSE n \in S : Cardinality({m \in S : m < n}) = i - 1]
ProcessNodes(s, r, q) ==
  LET t[i \in 0 .. Len(q)] ==
        IF i = 0 THEN s ELSE Strictly(LAMBDA y : ProcessNode(y, q[i], r), t[i - 1])
  IN t[Len(q)]
ProcessLevel(s, r) == ProcessNodes(s, r, Ascending(NodesOf(s, s.space[r])))

\* BDD_SWAP_RANKS
RanksSwapped(s, r, v, w) ==
  [s EXCEPT !.rank[v] = r + 1, !.rank[w] = r, !.space[r] = w, !.space[r + 1] = v]
SwapRanks(s, r) == RanksSwapped(ProcessLevel(s, r), r, s.space[r], s.space[r + 1])
=============================================================================
