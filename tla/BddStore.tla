------------------------------- MODULE BddStore ------------------------------
(***************************************************************************)
(* The node store of the BDD package that PVS loads for its model checker  *)
(* and its propositional simplifier (src/src/BDD/bdd/src/bdd.c): nodes     *)
(* with saturating reference counts, the per-variable unique tables, the   *)
(* variable order and its groups, the computed table (a cache that is not  *)
(* counted as a reference), garbage collection.                            *)
(*                                                                         *)
(* The package is sequential C over global variables; here the globals     *)
(* are the fields of one record, the store, and a function that changes    *)
(* them is an operator from a store to a store (and to a pair of a store   *)
(* and an edge, field r, when it returns one).                             *)
(*                                                                         *)
(*   node      address -> [v, t, e, ref]: the nodes of the unique tables,  *)
(*             and at address 0 the constant, which is in no table         *)
(*   dead, frozen   the counters bdd_nr_dead_nodes, bdd_nr_frozen_nodes    *)
(*   space     rank -> the variable whose hash table has this rank         *)
(*   rank      variable -> its rank                                        *)
(*   log       variable -> log2 of the size of its hash table, 0 when the  *)
(*             table is the dummy of a variable not used yet               *)
(*   groups    the variable groups, by their last rank                     *)
(*   cache     slot -> entry of the computed table                         *)
(*   sop       slot -> the function and the cubes that sop_cache keeps     *)
(*   history, threshold   the static variables of bdd_ite                  *)
(*   dynamic   bdd_do_dynamic_ordering                                     *)
(*                                                                         *)
(* This module has what the package does to nodes one at a time, without   *)
(* recursion; BddNodes has what follows the edges of a node.               *)
(*                                                                         *)
(* The package runs as PVS initialises it: complement edges on, inverted   *)
(* inputs off (bdd_init turns them off under dynamic ordering), BDD_X and  *)
(* user terminals never requested.                                         *)
(***************************************************************************)
EXTENDS Integers, FiniteSets, Sequences, SequencesExt, TLC

CONSTANTS
  MaxRef,        \* BDD_MAXREFCOUNT: a count that reaches it stays there
  GcItems,       \* bdd_create_node collects only above this many nodes (4096)
  LoadFactor,    \* BDD_LOAD_FACTOR
  CacheLog,      \* log2 of the initial size of the computed table
  SopSize,       \* SOP_CACHE_SIZE (1279)
  DynaThreshold  \* bdd_dyna_threshold_default

ASSUME StoreConstants ==
  /\ MaxRef \in Nat \ {0, 1} /\ GcItems \in Nat /\ LoadFactor \in Nat \ {0}
  /\ CacheLog \in Nat /\ DynaThreshold \in Nat /\ SopSize \in Nat \ {0}

Pow2(n) == 2^n

(***************************************************************************)
(* Edges.  An edge is twice the address of the node it points to, plus one *)
(* when it complements the function: the low bit of the pointer in C.      *)
(***************************************************************************)
VOID == -1
BDD_1 == 0
BDD_0 == 1
TERMID == 65535
UNSET == -65535    \* the history of bdd_ite before its first call

Ptr(e) == e \div 2
Neg(e) == e % 2 = 1
Pos(e) == 2 * Ptr(e)
Compl(e) == IF Neg(e) THEN e - 1 ELSE e + 1
ComplP(e, f) == f = Compl(e)
Term(e) == Ptr(e) = 0
SetNeg(e, negative) == IF negative THEN Compl(e) ELSE e

At(s, e) == s.node[Ptr(e)]
VarId(s, e) == At(s, e).v
Ref(s, e) == At(s, e).ref
Dead(s, e) == Ref(s, e) = 0
Frozen(s, e) == Ref(s, e) = MaxRef

VarRank(s, v) == IF v = TERMID THEN TERMID ELSE s.rank[v]
Rank(s, e) == VarRank(s, VarId(s, e))

\* BDD_COFACTOR_POS, BDD_COFACTOR_NEG: the cofactors of an edge by its own
\* top variable; a constant is its own cofactor.
CofactorPos(s, e) ==
  IF e = VOID \/ Term(e) THEN e ELSE SetNeg(At(s, e).t, Neg(e))
CofactorNeg(s, e) ==
  IF e = VOID \/ Term(e) THEN e ELSE SetNeg(At(s, e).e, Neg(e))

\* f(x); naming x by a set has TLC evaluate it first, and not put it off.
Strictly(f(_), x) == CHOOSE r \in {f(y) : y \in {x}} : TRUE

\* FoldLeft, each step from a value that was evaluated before it.
Folded(op(_, _), base, seq) ==
  FoldLeft(LAMBDA y, e : Strictly(LAMBDA v : op(v, e), y), base, seq)

\* The function f itself; TLC makes a table of it, to compare it.
Table(f) == IF f = f THEN f ELSE <<>>

\* The elements of a set, in some order.
Listing(S) == FoldSet(LAMBDA x, q : Append(q, x), <<>>, S)

Nodes(s) == DOMAIN s.node \ {0}
NrItems(s) == Cardinality(Nodes(s))
Alive(s) == NrItems(s) - s.dead
NodesOf(s, v) == {n \in Nodes(s) : s.node[n].v = v}
Items(s, v) == Cardinality(NodesOf(s, v))
Count(s) == Cardinality(DOMAIN s.space)
NrVars(s) == Cardinality({v \in DOMAIN s.log : s.log[v] > 0})

(***************************************************************************)
(* Reference counts.                                                       *)
(***************************************************************************)
WithRef(s, e, ref, dead, frozen) ==
  [s EXCEPT !.node[Ptr(e)].ref = ref, !.dead = @ + dead, !.frozen = @ + frozen]
OneIf(b) == IF b THEN 1 ELSE 0
\* Mutant: a count that has saturated goes on.
IncrPast(s, e, ref) == WithRef(s, e, ref + 1, -OneIf(ref = 0), OneIf(ref + 1 = MaxRef))
IncrFrom(s, e, ref) ==
  IF ref = MaxRef THEN s
  ELSE WithRef(s, e, ref + 1, -OneIf(ref = 0), OneIf(ref + 1 = MaxRef))
IncrRef(s, e) == IF e = VOID THEN s ELSE IncrFrom(s, e, Ref(s, e))

DecrFrom(s, e, ref) ==
  IF ref = MaxRef THEN s ELSE WithRef(s, e, ref - 1, OneIf(ref = 1), 0)
DecrRef(s, e) == DecrFrom(s, e, Ref(s, e))

Freeze(s, e) ==
  IF e = VOID \/ Frozen(s, e) THEN s
  ELSE [s EXCEPT !.node[Ptr(e)].ref = MaxRef,
                 !.dead = IF Dead(s, e) THEN @ - 1 ELSE @,
                 !.frozen = @ + 1]

(***************************************************************************)
(* The computed table: a closed hash table that overwrites.  An entry      *)
(* [F, G, H, R] says that R is ite(F, G, H), or the result of a function   *)
(* that F codes (a negative number: BDD_F_SET) for arguments G and H.      *)
(***************************************************************************)
NoEntry == [F |-> 0, G |-> 0, H |-> 0, R |-> VOID]
CacheSize(s) == Cardinality(DOMAIN s.cache)
FuncP(F) == F < 0
Slot(size, F, G, H) == (F + 3 * G + 5 * H) % size

LookupNoReclaim(s, F, G, H) ==
  LET entry == s.cache[Slot(CacheSize(s), F, G, H)]
  IN IF entry.R # VOID /\ entry.F = F /\ entry.G = G /\ entry.H = H
     THEN entry.R ELSE VOID

Insert(s, F, G, H, R) ==
  [s EXCEPT !.cache[Slot(CacheSize(s), F, G, H)] =
     [F |-> F, G |-> G, H |-> H, R |-> R]]

\* An entry that survives bdd_flush_computed_table: no dead node in it.
LiveEntry(s, entry) ==
  /\ entry.R # VOID /\ ~Dead(s, entry.R)
  /\ FuncP(entry.F) \/ ~Dead(s, entry.F)
  /\ ~Dead(s, entry.G) /\ ~Dead(s, entry.H)

FlushComputedTable(s) ==
  [s EXCEPT !.cache = Table([i \in DOMAIN @ |->
     IF LiveEntry(s, @[i]) THEN @[i] ELSE [@[i] EXCEPT !.R = VOID]])]

ClearComputedTable(s) ==
  [s EXCEPT !.cache = Table([i \in DOMAIN @ |-> NoEntry])]

EmptyCache(log2size) == [i \in 0 .. Pow2(log2size) - 1 |-> NoEntry]

NrEntries(s) == Cardinality(UNION {{v} \X (1 .. Pow2(s.log[v])) : v \in DOMAIN s.log})

ExtendComputedTable(s) ==
  LET size == CacheSize(s)
      live == SelectSeq([i \in 1 .. size |-> s.cache[i - 1]],
                        LAMBDA entry : LiveEntry(s, entry))
      larger == [i \in 0 .. 2 * size - 1 |-> NoEntry]
      Rehash(t, entry) == Insert(t, entry.F, entry.G, entry.H, entry.R)
  IN IF NrEntries(s) > 2 * size
     THEN Folded(Rehash, [s EXCEPT !.cache = larger], live)
     ELSE s

(***************************************************************************)
(* The unique table: one hash table for each variable.  The chains of the  *)
(* table of v hold exactly the nodes with variable v, so a table is its    *)
(* size; a larger or smaller one holds the same nodes.                     *)
(***************************************************************************)
ShrunkLog(log2size) == IF log2size <= 1 THEN log2size ELSE log2size - 1
ExtendHashTable(s, v) == [s EXCEPT !.log[v] = @ + 1]

Overloaded(s, v) == Items(s, v) > LoadFactor * Pow2(s.log[v])
Underloaded(s, v) == Items(s, v) < (Pow2(s.log[v]) \div 4) * LoadFactor

(***************************************************************************)
(* Nodes of the unique table, one at a time.  An operator that returns an  *)
(* edge returns [s |-> store, r |-> edge]; the caller owns one reference.  *)
(***************************************************************************)
Pair(s, e) == [s |-> s, r |-> e]
\* bdd_assign: another reference to the same function.
Assign(s, e) == Pair(IncrRef(s, e), e)
Negate(p, negative) == Pair(p.s, SetNeg(p.r, negative))

\* A node <v, T, E> of the table, if there is one.
SameNode(s, v, T, E) ==
  {n \in Nodes(s) : s.node[n].v = v /\ s.node[n].t = T /\ s.node[n].e = E}

\* The address the allocator hands out: freed nodes are used again.
FreshAddress(s) == CHOOSE n \in 0 .. NrItems(s) + 1 :
  n \notin DOMAIN s.node /\ \A m \in 0 .. n - 1 : m \in DOMAIN s.node

\* Mutant: a dead node comes back without its children's references.
FoundAsItIs(s, n) == Assign(s, 2 * n)
FoundNode(s, n) ==
  Assign(IF Dead(s, 2 * n)
         THEN IncrRef(IncrRef(s, s.node[n].t), s.node[n].e) ELSE s, 2 * n)

WithNode(nd, n, new) ==
  [k \in DOMAIN nd \cup {n} |-> IF k = n THEN new ELSE nd[k]]
LinkNode(s, n, new) ==
  Pair(IncrRef(IncrRef([s EXCEPT !.node = Table(WithNode(@, n, new))], new.t), new.e), 2 * n)
AllocNode(s, v, T, E) ==
  LinkNode(s, FreshAddress(s), [v |-> v, t |-> T, e |-> E, ref |-> 1])

\* bdd_gc_aux, once the cache of cubes is empty: unlinks the dead nodes of
\* every table and shrinks the tables.
Sweep(s) ==
  LET gone == {n \in Nodes(s) : s.node[n].ref = 0}
      swept == [s EXCEPT !.node = Table([n \in DOMAIN @ \ gone |-> @[n]]),
                         !.dead = @ - Cardinality(gone)]
  IN [swept EXCEPT !.log = Table([v \in DOMAIN @ |->
        IF Underloaded(swept, v) THEN ShrunkLog(@[v]) ELSE @[v]])]

(***************************************************************************)
(* Variables.                                                              *)
(***************************************************************************)
\* The loop of bdd_make_fit_unique_table: each variable up to v that there is
\* no table for gets the next rank, a dummy table and a group of its own.
AddVars(s, v) ==
  LET new == Count(s) .. v
      With(f) == Table([i \in DOMAIN f \cup new |-> IF i \in new THEN i ELSE f[i]])
      OwnGroup(i) == [last |-> Count(s) + i - 1, orderable |-> FALSE]
  IN [s EXCEPT !.space = With(@), !.rank = With(@),
               !.log = Table([u \in DOMAIN @ \cup new |-> IF u \in new THEN 0 ELSE @[u]]),
               !.groups = @ \o [i \in 1 .. Cardinality(new) |-> OwnGroup(i)]]

MakeFit(s, v) ==
  LET fit == AddVars(s, v)
  IN IF fit.log[v] = 0 THEN ExtendHashTable(fit, v) ELSE fit

(***************************************************************************)
(* When bdd_ite reorders: its static variables.                            *)
(***************************************************************************)
MaxOf(a, b) == IF a < b THEN b ELSE a

LowerThreshold(s) ==
  IF 10 * Alive(s) < s.history + 1
  THEN [s EXCEPT !.threshold = MaxOf(DynaThreshold, 2 * Alive(s))] ELSE s

\* The threshold after a reordering, from the share of the live nodes it left.
Raised(size, alive, kept) == size + (size * kept * kept) \div (alive * alive)
Reordered(t, alive, doubled) ==
  [t EXCEPT !.history = alive,
            !.threshold = IF doubled THEN @
                          ELSE Raised(NrItems(t), alive, Alive(t))]

FirstCall(s) == IF s.history = UNSET THEN [s EXCEPT !.history = Alive(s)] ELSE s

(***************************************************************************)
(* The package when it is loaded.                                          *)
(***************************************************************************)
\* The cache of cubes, empty.
NoCubes == [f |-> VOID, cubes |-> <<>>]
EmptySop == [i \in 0 .. SopSize - 1 |-> NoCubes]

\* bdd_init: two constants are allocated, BDD_X and BDD_1, neither counted as
\* referenced; no variables.
InitStore ==
  [node |-> [n \in {0} |-> [v |-> TERMID, t |-> VOID, e |-> VOID, ref |-> 0]],
   dead |-> 2, frozen |-> 0,
   space |-> <<>>, rank |-> <<>>, log |-> <<>>, groups |-> <<>>,
   cache |-> EmptyCache(CacheLog), sop |-> EmptySop,
   history |-> UNSET, threshold |-> DynaThreshold, dynamic |-> TRUE]
=============================================================================
