------------------------------ MODULE BddClient ------------------------------
(***************************************************************************)
(* The BDD package as its client sees it, with no bound on the edges held, *)
(* the nodes, the variables or the calls: the specification that the       *)
(* theorems about every reachable store are of (src/src/BDD/bdd/src/bdd.c).*)
(*                                                                         *)
(*   store   the package's global state (BddState)                         *)
(*   held    handle -> the edge that the client owns a reference to        *)
(*                                                                         *)
(* BddPackage is the same client with every operation of the package, on   *)
(* few variables and slots, for TLC.  Here are the operations that the     *)
(* others are made of: variables, bdd_ite with the reordering it may set   *)
(* off, cofactors, further references, references given up or frozen,      *)
(* collections, reorderings and groups of variables.  What calls itself is *)
(* a run (BddRuns); which exchanges of ranks a reordering makes, and how   *)
(* it moves the groups, are left open.  The cache of cubes is empty.       *)
(***************************************************************************)
EXTENDS BddRuns, BddState

VARIABLE held

vars == <<store, held>>

\* BDD_MAXVARID is TERMID - 1.
Vars == 0 .. TERMID - 1
Valuations == SUBSET Vars

\* What a client may pass to an operation: what it holds, and the constants.
Operands == {held[i] : i \in DOMAIN held} \cup {BDD_1, BDD_0}

\* The client receives p.r.
With(hd, i, e) == [j \in DOMAIN hd \cup {i} |-> IF j = i THEN e ELSE hd[j]]
Receive(p) ==
  store' = p.s /\ \E i \in Nat \ DOMAIN held : held' = With(held, i, p.r)
Without(hd, i) == [j \in DOMAIN hd \ {i} |-> hd[j]]

(***************************************************************************)
(* Reordering.                                                             *)
(***************************************************************************)
\* Exchanges of adjacent ranks, any number of them.
Exchanging(s, q) ==
  \E n \in Nat : \E t :
    /\ t[0] = s /\ t[n] = q
    /\ \A k \in 1 .. n : \E r \in DOMAIN t[k - 1].space :
         r + 1 \in DOMAIN t[k - 1].space /\ t[k] = SwapRanks(t[k - 1], r)

\* bdd_dynamic_order and bdd_reorder_var: a collection that leaves the
\* computed table alone, exchanges, and the computed table is emptied.
Tidy(s) == IF s.dead > 0 THEN Sweep(s) ELSE s
Reorders(s, q) ==
  \E t, g : Exchanging(Tidy(s), t) /\ q = ClearComputedTable([t EXCEPT !.groups = g])
DynamicOrders(s, q) == IF s.groups = <<>> THEN q = s ELSE Reorders(s, q)

\* The end of bdd_ite, which may reorder.
Judges(s, alive, doubled, q) ==
  IF (doubled \/ alive > s.threshold) /\ s.dynamic /\ alive > NrVars(s)
  THEN \E t : DynamicOrders(s, t) /\ q = Reordered(t, alive, doubled)
  ELSE q = [s EXCEPT !.history = alive]
EndsIte(s, q) ==
  IF s.history < 0 THEN q = [s EXCEPT !.history = Alive(s)]
  ELSE Judges(LowerThreshold(s), Alive(s), 10 * Alive(s) > 19 * (s.history + 1), q)

(***************************************************************************)
(* Operations.                                                             *)
(***************************************************************************)
\* bdd_create_var; it returns o.
VarGives(s, v, o) == NodeIn(MakeFit(s, v), v, BDD_1, BDD_0, o)
MakeVar == \E v \in Vars : \E o : VarGives(store, v, o) /\ Receive(o)

\* bdd_ite; it leaves the store q and returns the edge e.
IteGives(s, f, g, h, q, e) ==
  \E C, p :
    /\ IteRun(C) /\ IteCall(FirstCall(s), Triple(f, g, h), p) \in C
    /\ EndsIte(p.s, q) /\ e = p.r
IteOf ==
  \E f, g, h \in Operands : \E q, e : IteGives(store, f, g, h, q, e) /\ Receive(Pair(q, e))

\* bdd_assign
Copy == \E f \in Operands : Receive(Assign(store, f))

\* bdd_then, bdd_else
TakeCofactor ==
  \E f \in Operands, set \in BOOLEAN :
    Receive(Assign(store, IF set THEN CofactorPos(store, f) ELSE CofactorNeg(store, f)))

\* bdd_free; it leaves the store q.
FreeGives(s, e, q) == \E C : FreeRun(C) /\ Visit(s, e, q) \in C
GiveBack ==
  \E i \in DOMAIN held : FreeGives(store, held[i], store') /\ held' = Without(held, i)

\* bdd_freeze
FreezeHeld == \E i \in DOMAIN held : store' = Freeze(store, held[i]) /\ UNCHANGED held

\* bdd_gc
Collect == store' = Sweep(FlushComputedTable(store)) /\ UNCHANGED held

\* bdd_dynamic_order, bdd_reorder_var, bdd_merge_var_groups
Reorder == store.dynamic /\ Reorders(store, store') /\ UNCHANGED held

\* bdd_set_var_group_reorderable, bdd_reset_var_group_reorderable,
\* bdd_undo_var_groups, and bdd_merge_var_groups for neighbours
Regroup == \E g : store' = [store EXCEPT !.groups = g] /\ UNCHANGED held

Init == store = InitStore /\ held = [i \in {} |-> BDD_1]

Next ==
  \/ MakeVar \/ IteOf \/ Copy \/ TakeCofactor
  \/ GiveBack \/ FreezeHeld \/ Collect \/ Reorder \/ Regroup

Spec == Init /\ [][Next]_vars

(***************************************************************************)
(* Properties.                                                             *)
(***************************************************************************)
\* Whether an edge is true if T is the set of the nodes that are.
True(T, e) == (Ptr(e) \in T) <=> ~Neg(e)
\* T is a set of nodes that are true under the valuation x.
Labels(s, x, T) ==
  /\ 0 \in T
  /\ \A n \in Nodes(s) :
       n \in T <=> True(T, IF s.node[n].v \in x THEN s.node[n].t ELSE s.node[n].e)
\* The function of an edge.
Function(s, e) == {x \in Valuations : \A T : Labels(s, x, T) => True(T, e)}

\* The client of BddFunctions: it holds the functions of the edges.  That Spec
\* implements its specification says that a function never changes while it is
\* held, whatever is collected, reordered or freed, and that each operation
\* returns the function it promises.
Functions ==
  INSTANCE BddFunctions WITH function <- [i \in DOMAIN held |-> Function(store, held[i])]

\* Equal functions are held by equal edges: comparing edges compares functions.
EqualEdges ==
  \A i, j \in DOMAIN held :
    Function(store, held[i]) = Function(store, held[j]) <=> held[i] = held[j]

\* A node's count is the number of edges to it that the client holds or that a
\* live node has, unless the count has saturated.
LiveNodes == {m \in Nodes(store) : store.node[m].ref > 0}
CountsExact ==
  \A n \in Nodes(store) :
    store.node[n].ref \in
      {MaxRef, Cardinality({i \in DOMAIN held : Ptr(held[i]) = n})
               + Cardinality({m \in LiveNodes : Ptr(store.node[m].t) = n})
               + Cardinality({m \in LiveNodes : Ptr(store.node[m].e) = n})}

\* No entry of the computed table for ite is stale: it has nodes that exist,
\* and its result is the function that its arguments give.
TableSound ==
  \A k \in DOMAIN store.cache :
    LET z == store.cache[k]
    IN z.R # VOID /\ ~FuncP(z.F) =>
         /\ {Ptr(z.F), Ptr(z.G), Ptr(z.H), Ptr(z.R)} \subseteq DOMAIN store.node
         /\ Function(store, z.R) =
              Functions!Ite(Function(store, z.F), Function(store, z.G), Function(store, z.H))

\* Every call returns, whatever the client did before: bdd_create_var,
\* bdd_ite, with the reordering it may set off, and bdd_free have an outcome
\* for all that the client may pass to them.
CallsReturn ==
  /\ \A v \in Vars : \E o : VarGives(store, v, o)
  /\ \A f, g, h \in Operands : \E q, e : IteGives(store, f, g, h, q, e)
  /\ \A i \in DOMAIN held : \E q : FreeGives(store, held[i], q)
=============================================================================
