----------------------------- MODULE BddPackage -----------------------------
(***************************************************************************)
(* The BDD package as its client sees it: functions held through edges,    *)
(* operations that make new ones, references given up, collections and     *)
(* reorderings at any time in between.                                     *)
(*                                                                         *)
(*   store   the package's global state (BddState)                         *)
(*   held    slot -> the edge the client owns a reference to, or VOID      *)
(*   meant   slot -> the function the edge stood for when it was returned  *)
(*   dump    what bdd_dump_to_chars_vec wrote last, with its meaning       *)
(*   ops     the number of calls so far                                    *)
(***************************************************************************)
EXTENDS BddFns, BddState

CONSTANTS
  Slots,     \* the edges the client can hold at a time, 1 .. n
  MaxVars,   \* bound: variables created
  Starts,    \* the numbers of variables the client begins with
  MaxOps,    \* bound: calls made
  Calls      \* bound: the names of the binary operations that are called

ASSUME PackageConstants ==
  /\ Slots = 1 .. Cardinality(Slots) /\ MaxVars \in Nat /\ MaxOps \in Nat
  /\ \A k \in Starts : k \in 0 .. MaxVars /\ k <= Cardinality(Slots)

VARIABLES held, meant, dump, ops

vars == <<store, held, meant, dump, ops>>

Vars == 0 .. MaxVars - 1
Valuations == SUBSET Vars
NoDump == [nodes |-> <<>>, edges |-> <<>>, meant |-> <<>>]

Full(x) == held[x] # VOID
\* Results go to the lowest slot that is empty.
Empty(x) == held[x] = VOID /\ \A y \in Slots : y < x => Full(y)
MeaningOf(e) == Meaning(store, e, Vars)

(***************************************************************************)
(* What the operations promise, on sets of valuations.                     *)
(***************************************************************************)
BinaryPromise(op, f, g) ==
  CASE op = "and" -> f \cap g
    [] op = "or" -> f \cup g
    [] op = "xor" -> (f \ g) \cup (g \ f)
    [] op = "equiv" -> Valuations \ ((f \ g) \cup (g \ f))
    [] op = "less" -> g \ f
    [] op = "greater" -> g \ f
    [] op = "implies" -> (Valuations \ f) \cup g
    [] op = "implied" -> f \cup (Valuations \ g)
    [] op = "nor" -> Valuations \ (f \cup g)
    [] op = "nand" -> Valuations \ (f \cap g)
    [] op = "apply" -> (f \ g) \cup (g \ f)

\* bdd_constrain's comment: f o PIc, where PIc(x) is the valuation in c at the
\* least distance from x, a variable counting more the lower its rank.
Weight(x, y) ==
  FoldSet(LAMBDA v, sum : sum + Pow2(Count(store) - store.rank[v]), 0,
          {v \in DOMAIN store.rank : (v \in x) # (v \in y)})
Nearest(c, x) ==
  CHOOSE y \in c : \A z \in c : Weight(x, y) <= Weight(x, z)
ConstrainPromise(f, c) ==
  LET known == SUBSET DOMAIN store.rank
  IN {x \in Valuations :
        Nearest(c \cap known, x \cap DOMAIN store.rank) \in f}

(***************************************************************************)
(* Operations.                                                             *)
(***************************************************************************)
BinaryResult(op, s, f, g) ==
  IF op = "apply"
  THEN Apply(s, -3, [p \in {BDD_0, BDD_1} \X {BDD_0, BDD_1} |->
                       IF p[1] = p[2] THEN BDD_0 ELSE BDD_1], f, g)
  ELSE BddBinary(s, op, f, g)

\* The client receives p.r, which stands for the function m, in slot x.
Receive(x, p, m) ==
  /\ store' = p.s
  /\ held' = [held EXCEPT ![x] = p.r]
  /\ meant' = [meant EXCEPT ![x] = m]
  /\ UNCHANGED dump

Call == ops < MaxOps /\ ops' = ops + 1

MakeVar(x) == \E v \in Vars :
  /\ Call /\ Empty(x)
  /\ Receive(x, CreateVar(store, v), {val \in Valuations : v \in val})

NextVar == {val \in Valuations : Count(store) \in val}

MakeVarAfter(x) == \E y \in Slots :
  /\ Call /\ Empty(x) /\ Count(store) < MaxVars
  /\ Receive(x, CreateVarAfter(store, held[y]), NextVar)

MakeVarBefore(x) == \E y \in Slots :
  /\ Call /\ Empty(x) /\ Count(store) < MaxVars
  /\ Receive(x, CreateVarBefore(store, held[y]), NextVar)

Binary(x) == \E y, z \in Slots, op \in Calls :
  /\ Call /\ Empty(x) /\ Full(y) /\ Full(z)
  /\ Receive(x, BinaryResult(op, store, held[y], held[z]),
             BinaryPromise(op, meant[y], meant[z]))

IteOf(x) == \E y, z, w \in Slots :
  /\ Call /\ Empty(x) /\ Full(y) /\ Full(z) /\ Full(w)
  /\ Receive(x, Ite(store, held[y], held[z], held[w]),
             (meant[y] \cap meant[z]) \cup (meant[w] \ meant[y]))

ConstrainBy(x) == \E y, z \in Slots :
  /\ Call /\ Empty(x) /\ Full(y) /\ Full(z) /\ held[z] # BDD_0
  /\ Receive(x, Constrain(store, held[y], held[z]),
             ConstrainPromise(meant[y], meant[z]))

\* bdd_restrict promises less than a function.
ReceiveAny(x, p) == Receive(x, p, Meaning(p.s, p.r, Vars))
RestrictBy(x) == \E y, z \in Slots :
  /\ Call /\ Empty(x) /\ Full(y) /\ Full(z) /\ held[z] # BDD_0
  /\ ReceiveAny(x, RestrictTo(store, held[y], held[z]))

\* The function with its top variable, of which f is made, set or flipped.
AtTop(f, v, set) == {x \in Valuations : (IF set THEN x \cup {v} ELSE x \ {v}) \in f}

TakeCofactor(x) == \E y \in Slots, set \in BOOLEAN :
  /\ Call /\ Empty(x) /\ Full(y)
  /\ Receive(x, IF set THEN BddThen(store, held[y]) ELSE BddElse(store, held[y]),
             IF Term(held[y]) THEN meant[y]
             ELSE AtTop(meant[y], VarId(store, held[y]), set))

\* A constant is complemented: bdd_cofactors takes it for a variable.
InvertTop(x) == \E y \in Slots :
  /\ Call /\ Empty(x) /\ Full(y)
  /\ Receive(x, InvertInputTop(store, held[y]),
             IF Term(held[y]) THEN Valuations \ meant[y]
             ELSE LET v == VarId(store, held[y])
                  IN {val \in Valuations :
                        (IF v \in val THEN val \ {v} ELSE val \cup {v}) \in meant[y]})

Release(x) ==
  /\ Call /\ Full(x)
  /\ store' = Free(store, held[x])
  /\ held' = [held EXCEPT ![x] = VOID]
  /\ meant' = [meant EXCEPT ![x] = {}]
  /\ UNCHANGED dump

FreezeSlot(x) ==
  /\ Call /\ Full(x) /\ ~Frozen(store, held[x])
  /\ store' = Freeze(store, held[x])
  /\ UNCHANGED <<held, meant, dump>>

\* The cubes of a function, read and given up again.
ReadCubes(x) == \E irredundant \in BOOLEAN :
  /\ Call /\ Full(x)
  /\ \E L \in {CubesOf(store, held[x], irredundant)} :
       store' = FreeVec(L.s, L.cubes)
  /\ UNCHANGED <<held, meant, dump>>

\* The client quantifies a function, or a conjunction, by one variable.
Without(m, v, existential) ==
  LET below == {x \in Valuations : x \ {v} \in m}
      above == {x \in Valuations : x \cup {v} \in m}
  IN IF existential THEN below \cup above ELSE below \cap above
QuantifyBy(x) == \E y \in Slots, v \in DOMAIN store.rank, existential \in BOOLEAN :
  /\ Call /\ Empty(x) /\ Full(y)
  /\ Receive(x, BddQuantify(store, existential, held[y], <<v>>),
             Without(meant[y], v, existential))
SmoothBy(x) == \E y, z \in Slots, v \in DOMAIN store.rank :
  /\ Call /\ Empty(x) /\ Full(y) /\ Full(z)
  /\ Receive(x, AndSmooth(store, held[y], held[z], <<v>>),
             Without(meant[y] \cap meant[z], v, TRUE))

\* bdd_subst_par of one function for two variables at once.
Put(m, f, vs) ==
  {x \in Valuations : (IF x \in f THEN x \cup vs ELSE x \ vs) \in m}
SubstBy(x) == \E y, z \in Slots, v, w \in DOMAIN store.rank :
  /\ Call /\ Empty(x) /\ Full(y) /\ Full(z) /\ v <= w
  /\ Receive(x, SubstPar(store, [u \in {v, w} |-> held[z]], held[y]),
             Put(meant[y], meant[z], {v, w}))

Maintain(s) == store' = s /\ store' # store /\ UNCHANGED <<held, meant, dump>>

Collect == Call /\ Maintain(Gc(store))
Reorder == Call /\ Maintain(DynamicOrderExhaustive(store))
MoveVar == \E v, w \in DOMAIN store.rank :
  Call /\ Maintain(ReorderVar(store, v, w).s)
Merge == \E v, w \in DOMAIN store.rank :
  Call /\ v < w /\ Maintain(MergeVarGroups(store, v, w))
Allow == \E v \in DOMAIN store.rank : Call /\ Maintain(SetReorderable(store, v))
Forbid == \E v \in DOMAIN store.rank : Call /\ Maintain(ResetReorderable(store, v))
Ungroup == Call /\ Maintain(UndoVarGroups(store))

HeldVec == [i \in 1 .. Cardinality(Slots) |-> held[i]]

DumpHeld ==
  /\ Call /\ \E x \in Slots : Full(x) /\ ~Term(held[x])
  /\ dump' = Dump(store, HeldVec) @@ [meant |-> meant]
  /\ dump' # dump
  /\ UNCHANGED <<store, held, meant>>

\* What was held is given up, then the dump is read back into the slots.
Restored(r) ==
  /\ store' = r.s
  /\ held' = [x \in Slots |-> r.vec[x]]
  /\ meant' = dump.meant
RestoreHeld ==
  /\ Call /\ dump # NoDump
  /\ Restored(Restore(FreeVec(store, HeldVec), dump))
  /\ UNCHANGED dump

\* The client begins with the first k variables in its first k slots.
WithVars(k) ==
  Folded(LAMBDA p, v : LET q == CreateVar(p.s, v)
                         IN [s |-> q.s, held |-> [p.held EXCEPT ![v + 1] = q.r]],
           [s |-> InitStore, held |-> [x \in Slots |-> VOID]],
           [i \in 1 .. k |-> i - 1])

Init == \E k \in Starts :
  /\ store = WithVars(k).s
  /\ held = WithVars(k).held
  /\ meant = [x \in Slots |-> IF x > k THEN {}
                              ELSE {val \in Valuations : x - 1 \in val}]
  /\ dump = NoDump
  /\ ops = 0

Make == \E x \in Slots :
  \/ MakeVar(x) \/ MakeVarAfter(x) \/ MakeVarBefore(x)
  \/ Binary(x) \/ IteOf(x) \/ ConstrainBy(x) \/ RestrictBy(x)
  \/ TakeCofactor(x) \/ InvertTop(x)
  \/ QuantifyBy(x) \/ SmoothBy(x) \/ SubstBy(x)

Manage ==
  \/ \E x \in Slots : Release(x) \/ FreezeSlot(x) \/ ReadCubes(x)
  \/ Collect \/ DumpHeld \/ RestoreHeld

Order == Reorder \/ MoveVar \/ Merge \/ Allow \/ Forbid \/ Ungroup

Next == Make \/ Manage \/ Order

Spec == Init /\ [][Next]_vars

(***************************************************************************)
(* Properties.                                                             *)
(***************************************************************************)
TypeOK ==
  /\ DOMAIN held = Slots /\ DOMAIN meant = Slots /\ ops \in Nat
  /\ \A n \in Nodes(store) :
       /\ store.node[n].ref \in 0 .. MaxRef
       /\ Ptr(store.node[n].t) \in DOMAIN store.node
       /\ Ptr(store.node[n].e) \in DOMAIN store.node
  /\ \A x \in Slots : held[x] = VOID \/ Ptr(held[x]) \in DOMAIN store.node

\* Every edge the client holds still means the function it meant when it was
\* returned, whatever was collected, cached, reordered or freed since.
HeldKeepMeaning == \A x \in Slots : Full(x) => MeaningOf(held[x]) = meant[x]

\* The number of edges to a node that are held by the client, by nodes that are
\* not dead and by the cache of cubes.
Owners(n) ==
  LET live == {m \in Nodes(store) : store.node[m].ref > 0}
  IN Cardinality({m \in live : Ptr(store.node[m].t) = n})
     + Cardinality({m \in live : Ptr(store.node[m].e) = n})
     + Cardinality({x \in Slots : Full(x) /\ Ptr(held[x]) = n})
     + FoldFunction(LAMBDA entry, sum : sum + Cardinality(
                      {k \in 0 .. Len(entry.cubes) :
                         n = Ptr(IF k = 0 THEN entry.f ELSE entry.cubes[k])}),
                    0, store.sop)

\* A node's count is the number of its owners, unless the count has saturated:
\* no operation leaks a reference or gives up one too many.
RefsExact == \A n \in Nodes(store) : store.node[n].ref \in {Owners(n), MaxRef}

\* No entry of the computed table is stale: one that would be found holds
\* nodes that exist, and its result is what its operation gives.
EntrySound(entry) ==
  LET G == MeaningOf(entry.G)
      H == MeaningOf(entry.H)
      R == MeaningOf(entry.R)
  IN CASE entry.F >= 0 ->
            LET F == MeaningOf(entry.F) IN R = (F \cap G) \cup (H \ F)
       [] entry.F = Constraining -> R = ConstrainPromise(G, H)
       [] entry.F = Restricting -> R \cap H = G \cap H
       [] entry.F = -3 -> R = BinaryPromise("apply", G, H)

CacheSound ==
  \A i \in DOMAIN store.cache :
    LET entry == store.cache[i]
    IN entry.R # VOID =>
         /\ {Ptr(entry.G), Ptr(entry.H), Ptr(entry.R)} \subseteq DOMAIN store.node
         /\ FuncP(entry.F) \/ Ptr(entry.F) \in DOMAIN store.node
         /\ EntrySound(entry)

\* Ranks and tables are inverse to each other and the groups divide the ranks.
OrderConsistent ==
  /\ DOMAIN store.space = 0 .. Count(store) - 1
  /\ DOMAIN store.rank = DOMAIN store.space
  /\ \A v \in DOMAIN store.rank : store.space[store.rank[v]] = v
  /\ \A g \in DOMAIN store.groups : NrRanks(store, g) > 0
  /\ Count(store) > 0 => LastRank(store, Len(store.groups)) = Count(store) - 1
=============================================================================
