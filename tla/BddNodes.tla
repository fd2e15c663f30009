------------------------------ MODULE BddNodes ------------------------------
(***************************************************************************)
(* The node store of the BDD package (src/src/BDD/bdd/src/bdd.c): what follows*)
(* the edges of a node (giving up the last reference to it, bringing it    *)
(* back), garbage collection, and the variable order.                      *)
(***************************************************************************)
EXTENDS BddStore

(***************************************************************************)
(* References of the nodes below.                                          *)
(***************************************************************************)
\* bdd_free: gives up one reference; the last one gives up the children's.
RECURSIVE Free(_, _)
FreeChildren(s, e) ==
  IF Dead(s, e) /\ ~Term(e) THEN Free(Free(s, At(s, e).t), At(s, e).e) ELSE s
Free(s, e) ==
  IF e = VOID \/ Dead(s, e) \/ Frozen(s, e) THEN s ELSE FreeChildren(DecrRef(s, e), e)

\* bdd_free_vec
FreeVec(s, vec) == Folded(Free, s, vec)

\* reclaim_aux: takes a reference; a dead node takes its children's again.
RECURSIVE ReclaimAux(_, _)
ReclaimAux(s, e) ==
  IF e = VOID \/ Frozen(s, e) THEN s
  ELSE LET taken == IncrRef(s, e)
       IN IF Dead(s, e) /\ ~Term(e)
          THEN ReclaimAux(ReclaimAux(taken, At(s, e).t), At(s, e).e)
          ELSE taken

\* reclaim: the children of a dead node; its own count is left to the caller.
Reclaim(s, e) == Folded(ReclaimAux, s, <<At(s, e).t, At(s, e).e>>)

\* bdd_lookup_computed_table: a result that died since is brought back.
Reclaimed(s, R) ==
  [s |-> IF R # VOID /\ ~Term(R) /\ Dead(s, R) THEN Reclaim(s, R) ELSE s, r |-> R]
Lookup(s, F, G, H) == Reclaimed(s, LookupNoReclaim(s, F, G, H))

(***************************************************************************)
(* Garbage collection.                                                     *)
(***************************************************************************)
\* bdd_cleanup_sop_cache: gives up the functions and cubes kept there.
CleanSop(s) ==
  LET Give(t, i) == FreeVec(t, Append(s.sop[i].cubes, s.sop[i].f))
  IN [Folded(Give, s, Listing({i \in DOMAIN s.sop : s.sop[i] # NoCubes})) EXCEPT !.sop = EmptySop]

\* bdd_gc_aux
GcAux(s) == Sweep(CleanSop(s))

\* Mutant: the computed table keeps entries of nodes that are freed.
GcNoFlush(s) == GcAux(s)
\* bdd_gc: first the computed table forgets what mentions a dead node.
Gc(s) == GcAux(FlushComputedTable(s))

(***************************************************************************)
(* The variable order.                                                     *)
(***************************************************************************)
\* bdd_var_rank_to_id, bdd_var_id_to_rank
RankToId(s, r) == IF r \in DOMAIN s.space THEN s.space[r] ELSE -1
IdToRank(s, v) == IF v \in DOMAIN s.rank THEN s.rank[v] ELSE -1

FirstRank(s, g) == IF g = 1 THEN 0 ELSE s.groups[g - 1].last + 1
LastRank(s, g) == s.groups[g].last
NrRanks(s, g) == LastRank(s, g) - FirstRank(s, g) + 1

\* bdd_var_id_to_group (groups are numbered from 1 here); 0 for none.
IdToGroup(s, v) ==
  LET r == IdToRank(s, v)
      reaching == {g \in DOMAIN s.groups : r <= s.groups[g].last}
  IN IF r < 0 \/ reaching = {} THEN 0
     ELSE CHOOSE g \in reaching : \A h \in reaching : g <= h

\* bdd_nr_occurs_var
NrOccursVar(s, v) == IF v \in DOMAIN s.rank THEN Items(s, v) ELSE 0

\* The shift of bdd_create_var_after: the variable that was just added last
\* takes rank r, in a group of its own at place g.
MoveLastTo(s, r, g) ==
  LET last == Count(s) - 1
      new == s.space[last]
      Shifted(grp) == [grp EXCEPT !.last = @ + 1]
  IN [s EXCEPT
       !.rank = Table([v \in DOMAIN @ |->
          IF v = new THEN r ELSE IF @[v] >= r THEN @[v] + 1 ELSE @[v]]),
       !.space = Table([i \in DOMAIN @ |->
          IF i < r THEN @[i] ELSE IF i = r THEN new ELSE @[i - 1]]),
       !.groups = [i \in DOMAIN @ |->
          IF i < g THEN @[i]
          ELSE IF i = g THEN [last |-> r, orderable |-> FALSE]
          ELSE Shifted(@[i - 1])]]
=============================================================================
