------------------------------ MODULE BddOrder ------------------------------
(***************************************************************************)
(* Dynamic variable ordering (src/src/BDD/bdd/src/bdd.c): the exchange of  *)
(* two adjacent ranks, which rewrites nodes in place so that every edge    *)
(* held outside keeps its function; sifting of the variables of a group    *)
(* and of the groups; explicit reordering; variable groups; and the        *)
(* top-level bdd_ite that sets a reordering off.                           *)
(***************************************************************************)
EXTENDS BddIte, BddExchange

(***************************************************************************)
(* Sifting.  A position p is a rank, or a group; Step(s, p) exchanges it   *)
(* with the next one.  The walk from one position to another stops when    *)
(* the store has grown by more than 5 % over the best size seen.           *)
(***************************************************************************)
GrownTooFar(s, best) == 100 * NrItems(s) > 105 * best

\* bdd_move_rank_down (an exchange fails only for BDD_X)
RECURSIVE MoveRankDown(_, _, _)
MoveRankDown(s, r, target) ==
  IF r < target THEN MoveRankDown(SwapRanks(s, r), r + 1, target) ELSE s

\* bdd_swap_group_down: exchanges groups g and g + 1, from the last rank on.
RECURSIVE MoveRanksDown(_, _, _, _)
MoveRanksDown(s, first, r, by) ==
  IF r < first THEN s
  ELSE MoveRanksDown(MoveRankDown(s, r, r + by), first, r - 1, by)

\* Positions p and p + 1: two ranks, or two groups with all their ranks.
WithGroups(s, g, t, by) ==
  [t EXCEPT !.groups[g] = [last |-> FirstRank(s, g) + by - 1,
                           orderable |-> s.groups[g + 1].orderable],
            !.groups[g + 1].orderable = s.groups[g].orderable]
Exchange(kind, s, p) ==
  LET rank == kind = "rank"
      by == IF rank THEN 1 ELSE NrRanks(s, p + 1)
      moved == MoveRanksDown(s, IF rank THEN p ELSE FirstRank(s, p),
                             IF rank THEN p ELSE LastRank(s, p), by)
  IN Strictly(LAMBDA t : IF rank THEN t ELSE WithGroups(s, p, t, by), moved)
SwapGroups(s, g) == Exchange("group", s, g)

\* Where a walk has got to: the store, the position, the best size and the
\* position it was seen at.
Walk(s, p, best, at) == [s |-> s, p |-> p, best |-> best, at |-> at]

Judge(s, p, w) ==
  IF NrItems(s) < w.best THEN Walk(s, p, NrItems(s), p)
  ELSE Walk(s, p, w.best, w.at)

\* One exchange towards end; the positions an exchange of p with p + 1 or
\* p - 1 with p concerns are named by the smaller one.
Toward(p, end) == IF p < end THEN p + 1 ELSE p - 1
Pass(kind, s, p, end) == Exchange(kind, s, IF p < end THEN p ELSE p - 1)

\* One leg of the way, to position end; sifting, it may stop on the way.
RECURSIVE Leg(_, _, _, _, _)
LegFrom(s, kind, w, end, sifting) ==
  Leg(kind, IF sifting THEN Judge(s, Toward(w.p, end), w)
            ELSE Walk(s, Toward(w.p, end), w.best, w.at),
      end, sifting, sifting /\ GrownTooFar(s, w.best))
Leg(kind, w, end, sifting, grown) ==
  IF w.p = end \/ grown THEN w
  ELSE LegFrom(Pass(kind, w.s, w.p, end), kind, w, end, sifting)

\* One element of the loops of bdd_dynamic_order_group and bdd_dynamic_order:
\* down to the last but one place, back, up to the first, and to the best.
LegEnd(w, leg, p, first, last) ==
  CASE leg = "down" -> MaxOf(p, last - 1)
    [] leg = "back" -> p
    [] leg = "up" -> first
    [] leg = "best" -> w.at
Sift(kind, s, p, first, last) ==
  Folded(LAMBDA w, leg : Leg(kind, w, LegEnd(w, leg, p, first, last),
                               leg \in {"down", "up"}, FALSE),
           Walk(s, p, NrItems(s), p), <<"down", "back", "up", "best">>).s

\* The variables (or groups, by the variables in them) with nodes, most
\* nodes first.
ByItems(s, sets) ==
  LET Size(vars) == Cardinality(UNION {NodesOf(s, v) : v \in vars})
  IN SortSeq(Listing({vars \in sets : Size(vars) > 0}),
             LAMBDA x, y : Size(x) > Size(y))

GroupVars(s, g) == {s.space[r] : r \in FirstRank(s, g) .. LastRank(s, g)}
PlaceOf(s, vars, kind) ==
  IF kind = "rank" THEN s.rank[CHOOSE v \in vars : TRUE]
  ELSE CHOOSE g \in DOMAIN s.groups : GroupVars(s, g) = vars

\* bdd_dynamic_order_group for the group g; 0 is the loop over the groups.
OrderIn(s, kind, sets, first, last) ==
  Folded(LAMBDA t, vars : Sift(kind, t, PlaceOf(t, vars, kind), first, last),
         s, ByItems(s, sets))
OrderGroup(s, g) ==
  LET kind == IF g = 0 THEN "group" ELSE "rank"
      first == IF g = 0 THEN 1 ELSE FirstRank(s, g)
      last == IF g = 0 THEN Len(s.groups) ELSE LastRank(s, g)
      sets == IF g = 0 THEN {GroupVars(s, h) : h \in DOMAIN s.groups}
              ELSE {{s.space[r]} : r \in first .. last}
  IN IF g > 0 /\ (first = last \/ ~s.groups[g].orderable) THEN s
     ELSE OrderIn(s, kind, sets, first, last)

\* bdd_dynamic_order: collects without flushing, since the computed table is
\* emptied at the end.
Clean(s) == IF s.dead > 0 THEN GcAux(s) ELSE s
DynamicOrder(s) ==
  IF s.groups = <<>> THEN s
  ELSE ClearComputedTable(Folded(OrderGroup, Clean(s),
                                 [g \in DOMAIN s.groups |-> g] \o <<0>>))

\* bdd_dynamic_order_exhaustive: until a pass does not gain nodes.
RECURSIVE DynamicOrderExhaustive(_)
AgainIfGained(s, before) ==
  IF NrItems(s) < before THEN DynamicOrderExhaustive(s) ELSE s
DynamicOrderExhaustive(s) ==
  IF s.dynamic THEN AgainIfGained(DynamicOrder(s), NrItems(Clean(s))) ELSE s

(***************************************************************************)
(* bdd_reorder_var: var to the rank after target; to the first rank when   *)
(* both are the same.  Stops, and reports 0, when the store has grown by   *)
(* more than 5 %.  The result is the store and the success.                *)
(***************************************************************************)
RECURSIVE ReorderWalk(_, _, _, _)
ReorderOn(s, r, target, limit) ==
  IF GrownTooFar(s, limit) THEN [s |-> s, success |-> FALSE]
  ELSE ReorderWalk(s, r, target, limit)
ReorderWalk(s, r, target, limit) ==
  IF r = target THEN [s |-> s, success |-> TRUE]
  ELSE ReorderOn(Pass("rank", s, r, target), Toward(r, target), target, limit)

ReorderFrom(s, r, target) ==
  [ReorderWalk(s, r, target, NrItems(s)) EXCEPT !.s = ClearComputedTable(@)]

ReorderVar(s, var, target) ==
  LET r == s.rank[var]
      t == s.rank[target]
  IN IF r = t + 1 THEN [s |-> s, success |-> TRUE]
     ELSE ReorderFrom(Clean(s), r, IF r < t THEN t ELSE IF r = t THEN 0 ELSE t + 1)

(***************************************************************************)
(* Variable groups.                                                        *)
(***************************************************************************)
SetReorderable(s, v) ==
  LET g == IdToGroup(s, v)
  IN IF g = 0 THEN s
     ELSE [s EXCEPT !.groups[g].orderable = NrRanks(s, g) > 1]

ResetReorderable(s, v) ==
  LET g == IdToGroup(s, v)
  IN IF g = 0 THEN s ELSE [s EXCEPT !.groups[g].orderable = FALSE]

\* The smaller of groups g < h moves until the two are neighbours; the result
\* says at which place the first of them is.
RECURSIVE Approach(_, _, _, _)
Approach(s, g, h, down) ==
  IF h = g + 1 THEN [s |-> s, g |-> g]
  ELSE IF down THEN Approach(SwapGroups(s, g), g + 1, h, down)
  ELSE Approach(SwapGroups(s, h - 1), g, h - 1, down)

Joined(near) ==
  LET group == near.s.groups
      g == near.g
      merged == [last |-> group[g + 1].last,
                 orderable |-> group[g].orderable /\ group[g + 1].orderable]
  IN [near.s EXCEPT !.groups = RemoveAt([@ EXCEPT ![g] = merged], g + 1)]

MergeApart(s, g, h) ==
  ClearComputedTable(Joined(Approach(s, g, h, NrRanks(s, g) < NrRanks(s, h))))

MergeVarGroups(s, v, w) ==
  LET a == IdToGroup(s, v)
      b == IdToGroup(s, w)
      g == IF a < b THEN a ELSE b
  IN IF a = 0 \/ b = 0 \/ a = b THEN s
     ELSE IF a - b \in {-1, 1} THEN Joined([s |-> s, g |-> g])
     ELSE MergeApart(Clean(s), g, MaxOf(a, b))

UndoVarGroups(s) ==
  [s EXCEPT !.groups = [g \in 1 .. Count(s) |->
                          [last |-> g - 1, orderable |-> FALSE]]]

(***************************************************************************)
(* bdd_ite: the recursion, then perhaps a reordering: when the live nodes  *)
(* almost doubled since the last call (reason 1) or passed a threshold     *)
(* (reason 2), which is then set anew from the gain.                       *)
(***************************************************************************)
Judged(s, alive, doubled) ==
  IF (doubled \/ alive > s.threshold) /\ s.dynamic /\ alive > NrVars(s)
  THEN Reordered(DynamicOrder(s), alive, doubled)
  ELSE [s EXCEPT !.history = alive]

AfterIte(s) ==
  IF s.history < 0 THEN [s EXCEPT !.history = Alive(s)]
  ELSE Judged(LowerThreshold(s), Alive(s), 10 * Alive(s) > 19 * (s.history + 1))

WithAfterIte(R) == Pair(AfterIte(R.s), R.r)
Ite(s, F, G, H) ==
  IF F = VOID \/ G = VOID \/ H = VOID THEN Pair(s, VOID)
  ELSE WithAfterIte(IteAux(FirstCall(s), F, G, H))
=============================================================================
