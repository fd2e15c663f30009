------------------------------ MODULE BddState ------------------------------
(***************************************************************************)
(* The global state of the BDD package (src/src/BDD/bdd/src/bdd.c), and    *)
(* what is right of it whoever its client is.                              *)
(***************************************************************************)
EXTENDS BddStore

VARIABLE store   \* as BddStore describes it

\* The counter of dead nodes, which decides when to collect and when to
\* reorder, is exact: BDD_X and the nodes with count 0.
DeadCounted ==
  /\ store.dead = 1 + Cardinality({n \in DOMAIN store.node : store.node[n].ref = 0})
  /\ store.frozen = Cardinality({n \in DOMAIN store.node : store.node[n].ref = MaxRef})

\* The nodes are in normal form for the order in force: equal functions have
\* equal edges.
Canonical ==
  /\ \A n \in Nodes(store) :
       /\ ~Neg(store.node[n].t)
       /\ store.node[n].t # store.node[n].e
       /\ Rank(store, 2 * n) < Rank(store, store.node[n].t)
       /\ Rank(store, 2 * n) < Rank(store, store.node[n].e)
  /\ \A n, m \in Nodes(store) : n # m =>
       \/ store.node[n].v # store.node[m].v
       \/ store.node[n].t # store.node[m].t
       \/ store.node[n].e # store.node[m].e
=============================================================================
