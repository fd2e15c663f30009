------------------------------ MODULE MonaDfa ------------------------------
(***************************************************************************)
(* The automata of the MONA library: src/WS1S/mona-1.4/DFA.                *)
(* An automaton has states 0 .. ns - 1, a diagram of transitions q for     *)
(* each, a start state s and a status f for each: 1 accepts, -1 rejects,   *)
(* 0 is "don't care".                                                      *)
(***************************************************************************)
EXTENDS MonaBdd

States(a) == 0 .. a.ns - 1

\* The function f itself; TLC makes a table of it here.
Table(f) == f @@ <<>>

----------------------------------------------------------------------------
(* makebasic.c: an automaton from a table.  A row <<d, e1, ..., en>> stands  *)
(* for a state: its exceptions e, each <<target, path>>, and its default     *)
(* target d.  A path has a bit, or X, for each of the variables.             *)

X == 2

\* The places of a path in the order of the indices of the variables.
SortedIndices(offsets) ==
  SetToSortSeq(1 .. Len(offsets), LAMBDA m, n : offsets[m] < offsets[n])

RECURSIVE MakePath(_, _, _, _, _)
MakePath(offsets, path, order, value, default) ==
  IF order = <<>> THEN Leaf(value)
  ELSE LET i == Head(order)
           sub == MakePath(offsets, path, Tail(order), value, default)
       IN  IF path[i] = X THEN sub
           ELSE IF path[i] = 0 THEN FindNode(sub, Leaf(default), offsets[i])
           ELSE FindNode(Leaf(default), sub, offsets[i])

\* Two exceptions for one letter would end the program.
UniteLeaf(default) ==
  [pq \in Nat \X Nat |->
     IF pq[1] = pq[2] \/ pq[2] = default THEN pq[1]
     ELSE IF pq[1] = default THEN pq[2] ELSE -1]

MakeBdd(offsets, row) ==
  LET paths == [e \in 1 .. Len(row) - 1 |->
                  MakePath(offsets, row[e + 1][2], SortedIndices(offsets),
                           row[e + 1][1], row[1])]
  IN  IF paths = <<>> THEN Leaf(row[1])
      ELSE FoldLeft(LAMBDA p, q : Apply1(Apply2Hashed(p, q), UniteLeaf(row[1])),
                    Head(paths), Tail(paths))

Build(offsets, rows, finals) ==
  [ns |-> Len(rows), s |-> 0,
   q |-> Table([i \in 0 .. Len(rows) - 1 |-> MakeBdd(offsets, rows[i + 1])]),
   f |-> Table([i \in 0 .. Len(rows) - 1 |-> finals[i + 1]])]

----------------------------------------------------------------------------
(* basic.c.  State 0 reads the letter of the Boolean variables.             *)

DfaTrue == Build(<<>>, << <<1>>, <<1>> >>, <<0, 1>>)
DfaFalse == Build(<<>>, << <<1>>, <<1>> >>, <<0, -1>>)

DfaSingleton(i) ==
  Build(<<i>>, << <<1>>, <<1, <<2, <<1>>>> >>, <<2, <<3, <<1>>>> >>, <<3>> >>,
        <<0, -1, 1, -1>>)

DfaEq2(i, j) ==
  IF i = j THEN DfaTrue
  ELSE Build(<<i, j>>,
             << <<1>>, <<2, <<1, <<0, 0>>>>, <<1, <<1, 1>>>> >>, <<2>> >>,
             <<0, 1, -1>>)

DfaSubset(i, j) ==
  IF i = j THEN DfaTrue
  ELSE Build(<<i, j>>, << <<1>>, <<1, <<2, <<1, 0>>>> >>, <<2>> >>, <<0, 1, -1>>)

DfaEmpty(i) ==
  Build(<<i>>, << <<1>>, <<2, <<1, <<0>>>> >>, <<2>> >>, <<0, 1, -1>>)

DfaPlus2(i, j) ==
  IF i = j THEN DfaEmpty(i)
  ELSE Build(<<i, j>>,
             << <<1>>, <<3, <<1, <<0, 0>>>>, <<2, <<0, 1>>>> >>,
                <<2, <<3, <<0, X>>>>, <<1, <<1, 0>>>> >>, <<3>> >>,
             <<0, 1, -1, -1>>)

\* The set {n - 1 : n \in P}, where 0 - 1 is 0.
DfaMinus2(i, j) ==
  IF i = j
  THEN Build(<<i>>, << <<1>>, <<2>>, <<3, <<2, <<0>>>> >>, <<3>> >>, <<0, 1, 1, -1>>)
  ELSE Build(<<i, j>>,
             << <<1>>,
                <<5, <<3, <<0, 0>>>>, <<4, <<1, 0>>>>, <<2, <<1, 1>>>> >>,
                <<3, <<4, <<1, X>>>> >>,
                <<5, <<3, <<0, 0>>>>, <<4, <<1, 0>>>> >>,
                <<5, <<4, <<1, 1>>>>, <<3, <<0, 1>>>> >>,
                <<5>> >>,
             <<0, 1, 1, 1, -1, -1>>)

DfaUnion(i, j, k) ==
  CASE i = j -> DfaSubset(k, i)
    [] i # j /\ i = k -> DfaSubset(j, i)
    [] i # j /\ i # k /\ j = k -> DfaEq2(i, j)
    [] OTHER ->
       Build(<<i, j, k>>,
             << <<1>>,
                <<2, <<1, <<0, 0, 0>>>>, <<1, <<1, X, 1>>>>, <<1, <<1, 1, 0>>>> >>,
                <<2>> >>, <<0, 1, -1>>)

DfaInter(i, j, k) ==
  CASE i = j -> DfaSubset(i, k)
    [] i # j /\ i = k -> DfaSubset(i, j)
    [] i # j /\ i # k /\ j = k -> DfaEq2(i, j)
    [] OTHER ->
       Build(<<i, j, k>>,
             << <<1>>,
                <<2, <<1, <<1, 1, 1>>>>, <<1, <<0, 0, X>>>>, <<1, <<0, 1, 0>>>> >>,
                <<2>> >>, <<0, 1, -1>>)

DfaSetminus(i, j, k) ==
  CASE j = k \/ i = k -> DfaEmpty(i)
    [] j # k /\ i # k /\ i = j ->
       Build(<<i, k>>,
             << <<1>>, <<2, <<1, <<0, X>>>>, <<1, <<1, 0>>>> >>, <<2>> >>,
             <<0, 1, -1>>)
    [] OTHER ->
       Build(<<i, j, k>>,
             << <<1>>,
                <<2, <<1, <<0, 0, X>>>>, <<1, <<1, 1, 0>>>>, <<1, <<0, 1, 1>>>> >>,
                <<2>> >>, <<0, 1, -1>>)

DfaBoolvar(b) == Build(<<b>>, << <<1, <<2, <<0>>>> >>, <<1>>, <<2>> >>, <<0, 1, -1>>)

\* A first-order variable is the place of the first 1 on its track.
DfaFirstOrder(i) ==
  Build(<<i>>, << <<1>>, <<2, <<1, <<0>>>> >>, <<2>> >>, <<0, -1, 1>>)

DfaIn(i, j) ==
  Build(<<i, j>>,
        << <<1>>, <<1, <<3, <<1, 0>>>>, <<2, <<1, 1>>>> >>, <<2>>, <<3>> >>,
        <<0, -1, 1, -1>>)

DfaEq1(i, j) ==
  IF i = j THEN DfaTrue
  ELSE Build(<<i, j>>,
             << <<1>>, <<3, <<1, <<0, 0>>>>, <<2, <<1, 1>>>> >>, <<2>>, <<3>> >>,
             <<0, -1, 1, -1>>)

DfaLess(i, j) ==
  IF i = j THEN DfaFalse
  ELSE Build(<<i, j>>,
             << <<1>>, <<3, <<1, <<0, 0>>>>, <<2, <<1, 0>>>> >>,
                <<4, <<2, <<X, 0>>>> >>, <<3>>, <<4>> >>,
             <<0, -1, -1, -1, 1>>)

DfaLesseq(i, j) ==
  IF i = j THEN DfaTrue
  ELSE Build(<<i, j>>,
             << <<1>>,
                <<3, <<1, <<0, 0>>>>, <<2, <<1, 0>>>>, <<4, <<1, 1>>>> >>,
                <<4, <<2, <<X, 0>>>> >>, <<3>>, <<4>> >>,
             <<0, -1, -1, -1, 1>>)

DfaConst(n, i) ==
  Build(<<i>>,
        << <<3>>, <<1>>, <<2>> >>
          \o [m \in 1 .. n |-> <<2, <<m + 3, <<0>>>> >>]
          \o << <<2, <<1, <<1>>>> >> >>,
        <<0, 1>> \o [m \in 1 .. n + 2 |-> -1])

DfaPlus1(i, j, n) ==
  IF n = 0 THEN DfaEq1(i, j)
  ELSE IF i = j THEN DfaFalse
  ELSE Build(<<i, j>>,
             << <<1>>, <<2, <<1, <<0, 0>>>>, <<3, <<0, 1>>>> >>, <<2>> >>
               \o [m \in 1 .. n - 1 |-> <<2, <<m + 3, <<0, X>>>> >>]
               \o << <<2, <<n + 3, <<1, X>>>> >>, <<n + 3>> >>,
             <<0>> \o [m \in 1 .. n + 2 |-> -1] \o <<1>>)

\* p_i is p_j - 1, where 0 - 1 is 0.
DfaMinus1(i, j) ==
  IF i = j
  THEN Build(<<i>>, << <<1>>, <<2, <<3, <<1>>>> >>, <<2>>, <<3>> >>, <<0, -1, -1, 1>>)
  ELSE Build(<<i, j>>,
             << <<1>>,
                <<5, <<2, <<0, 0>>>>, <<3, <<0, 1>>>>, <<4, <<1, 0>>>> >>,
                <<3, <<2, <<0, 0>>>>, <<3, <<0, 1>>>>, <<4, <<1, 0>>>> >>,
                <<3>>, <<5, <<3, <<X, 0>>>> >>, <<5>> >>,
             <<0, -1, -1, -1, -1, 1>>)

\* Of an empty set: 0.
DfaMax(i, j) ==
  IF i = j THEN DfaTrue
  ELSE Build(<<i, j>>,
             << <<1>>, <<3, <<2, <<0, X>>>> >>,
                <<3, <<2, <<0, X>>>>, <<4, <<1, 0>>>> >>,
                <<4, <<3, <<X, 0>>>> >>, <<4>> >>,
             <<0, -1, -1, 1, -1>>)

DfaMin(i, j) ==
  IF i = j THEN DfaTrue
  ELSE Build(<<i, j>>,
             << <<1>>,
                <<5, <<2, <<0, 0>>>>, <<3, <<0, 1>>>>, <<4, <<1, 0>>>> >>,
                <<3, <<2, <<0, 0>>>>, <<5, <<1, 1>>>> >>,
                <<3>>, <<3, <<4, <<X, 0>>>> >>, <<5>> >>,
             <<0, -1, -1, -1, 1, 1>>)

PlusModuloDistinct(i, j, k) ==
    Build(<<i, j, k>>,
          << <<1>>,
             <<8, <<2, <<0, 0, 0>>>>, <<3, <<0, X, 1>>>>, <<4, <<0, 1, 0>>>>,
                  <<5, <<1, 0, 0>>>>, <<6, <<1, 0, 1>>>>, <<7, <<1, 1, 0>>>> >>,
             <<3, <<9, <<0, 0, 0>>>>, <<4, <<0, 1, 0>>>>, <<10, <<1, 0, 0>>>> >>,
             <<3>>,
             <<3, <<11, <<1, X, 0>>>> >>,
             <<8, <<12, <<X, 0, 0>>>>, <<6, <<X, 0, 1>>>>, <<7, <<X, 1, 0>>>> >>,
             <<8, <<6, <<X, 0, X>>>> >>,
             <<3, <<8, <<X, X, 1>>>> >>,
             <<8>>,
             <<3, <<9, <<0, 0, 0>>>>, <<4, <<0, 1, 0>>>> >>,
             <<3, <<10, <<X, 0, 0>>>>, <<8, <<X, 1, 1>>>> >>,
             <<8, <<11, <<X, X, 0>>>> >>,
             <<3, <<12, <<X, 0, 0>>>>, <<6, <<X, 0, 1>>>>, <<7, <<X, 1, 0>>>> >> >>,
          <<0, -1, -1, -1, -1, -1, -1, -1, 1, -1, -1, -1, -1>>)

\* In the case i = j # k the code gives eight statuses to five states: those
\* of states 0 to 4 are used.
DfaPlusModulo1(i, j, k) ==
  CASE i = j /\ i = k ->
         Build(<<i>>, << <<1>>, <<3, <<2, <<0>>>> >>, <<2>>, <<3>> >>, <<0, -1, -1, 1>>)
    [] i = j /\ i # k ->
         Build(<<i, k>>,
               << <<1>>, <<4, <<2, <<0, X>>>>, <<3, <<1, 0>>>> >>, <<2>>,
                  <<4, <<2, <<X, 0>>>> >>, <<4>> >>,
               <<0, -1, -1, -1, -1, 1, -1, -1>>)
    [] i # j /\ j = k ->
         Build(<<i, k>>,
               << <<1>>,
                  <<5, <<2, <<0, 0>>>>, <<3, <<0, 1>>>>, <<4, <<1, 0>>>> >>,
                  <<3, <<6, <<1, 0>>>> >>, <<3>>, <<5, <<3, <<X, 0>>>> >>, <<5>>,
                  <<5, <<6, <<X, 0>>>> >> >>,
               <<0, -1, -1, -1, -1, 1, -1>>)
    [] i # j /\ i = k ->
         Build(<<k, j>>,
               << <<1>>, <<4, <<2, <<0, X>>>>, <<3, <<1, 0>>>> >>, <<2>>,
                  <<4, <<3, <<X, 0>>>> >>, <<4>> >>,
               <<0, -1, -1, -1, 1>>)
    [] OTHER -> PlusModuloDistinct(i, j, k)

MinusModuloDistinct(i, j, k) ==
    Build(<<i, j, k>>,
          << <<1>>,
             <<3, <<2, <<0, 0, 0>>>>, <<4, <<0, 1, 0>>>>, <<5, <<1, 0, 0>>>>,
                  <<6, <<1, 0, 1>>>>, <<7, <<1, 1, 0>>>>, <<8, <<1, 1, 1>>>> >>,
             <<3, <<2, <<0, 0, 0>>>>, <<9, <<1, 0, 0>>>> >>,
             <<3>>,
             <<3, <<4, <<0, X, 0>>>>, <<7, <<1, X, 0>>>> >>,
             <<8, <<10, <<X, 0, 0>>>>, <<6, <<X, 0, 1>>>>, <<11, <<X, 1, 0>>>> >>,
             <<8, <<6, <<X, 0, X>>>> >>,
             <<3, <<8, <<X, X, 1>>>> >>,
             <<8>>,
             <<3, <<11, <<X, 1, 0>>>>, <<8, <<X, 1, 1>>>> >>,
             <<3, <<10, <<X, 0, 0>>>>, <<6, <<X, 0, 1>>>> >>,
             <<8, <<11, <<X, X, 0>>>> >> >>,
          <<0, -1, -1, -1, -1, -1, -1, -1, 1, -1, -1, -1>>)

DfaMinusModulo1(i, j, k) ==
  CASE i = j /\ i = k ->
         Build(<<i>>, << <<1>>, <<3, <<2, <<0>>>> >>, <<2>>, <<3>> >>, <<0, -1, -1, 1>>)
    [] i = j /\ i # k ->
         Build(<<i, k>>,
               << <<1>>, <<4, <<2, <<0, X>>>>, <<3, <<1, 0>>>> >>, <<2>>,
                  <<4, <<2, <<X, 0>>>> >>, <<4>> >>,
               <<0, -1, -1, -1, 1>>)
    [] i # j /\ j = k ->
         Build(<<i, j>>,
               << <<1>>,
                  <<5, <<2, <<0, 0>>>>, <<3, <<0, 1>>>>, <<4, <<1, 0>>>> >>,
                  <<3, <<2, <<0, 0>>>>, <<4, <<1, 0>>>> >>,
                  <<3>>, <<5, <<3, <<X, 0>>>> >>, <<5>> >>,
               <<0, -1, -1, -1, -1, 1>>)
    [] i # j /\ i = k ->
         Build(<<j, k>>,
               << <<1>>, <<2, <<3, <<0, 1>>>>, <<4, <<1, 1>>>> >>, <<2>>,
                  <<4, <<3, <<0, X>>>> >>, <<4>> >>,
               <<0, -1, -1, -1, 1>>)
    [] OTHER -> MinusModuloDistinct(i, j, k)

\* The number n as the set of the places of its bits.
RECURSIVE Bits(_)
Bits(n) == IF n = 0 THEN 0 ELSE 1 + Bits(n \div 2)

DfaPresbConst(i, n) ==
  Build(<<i>>,
        << <<2>>, <<1>> >>
          \o [m \in 1 .. Bits(n) |->
                << m + 2, <<1, <<IF (n \div 2^(m - 1)) % 2 = 1 THEN 0 ELSE 1>>>> >>]
          \o << <<Bits(n) + 2, <<1, <<1>>>> >> >>,
        <<0, -1>> \o [m \in 1 .. Bits(n) |-> -1] \o <<1>>)

----------------------------------------------------------------------------
(* dfa.c                                                                    *)

DfaNegation(a) == [a EXCEPT !.f = Table([i \in States(a) |-> -a.f[i]])]
DfaRestrict(a) ==
  [a EXCEPT !.f = Table([i \in States(a) |-> IF a.f[i] = -1 THEN 0 ELSE a.f[i]])]
DfaUnrestrict(a) ==
  [a EXCEPT !.f = Table([i \in States(a) |-> IF a.f[i] = 0 THEN -1 ELSE a.f[i]])]
DfaCopy(a) ==
  [a EXCEPT !.q = Table([i \in States(a) |-> Apply1(a.q[i], [v \in Nat |-> v])])]

----------------------------------------------------------------------------
(* product.c: the reachable pairs of states, numbered as they are found.    *)

IsLoop(a, p) == IsLeaf(a.q[p]) /\ LeafValue(a.q[p]) = p

\* A pair with a bottom state that never leaves itself need not be followed.
MakesALoop(a1, p, a2, q) ==
  IF IsLoop(a1, p) THEN a1.f[p] = 0 ELSE IsLoop(a2, q) /\ a2.f[q] = 0

PairDiagram(a1, a2, pq) ==
  IF MakesALoop(a1, pq[1], a2, pq[2]) THEN Leaf(pq)
  ELSE Apply2Sequential(a1.q[pq[1]], a2.q[pq[2]])

AppendNew(list, more) ==
  FoldLeft(LAMBDA l, e : IF Contains(l, e) THEN l ELSE Append(l, e), list, more)

RECURSIVE PairsFrom(_, _, _, _)
PairsFrom(a1, a2, list, h) ==
  IF h > Len(list) THEN list
  ELSE PairsFrom(a1, a2, AppendNew(list, CallLeafs(PairDiagram(a1, a2, list[h]))), h + 1)

PlaceIn(list) ==
  Table([e \in Range(list) |-> SelectInSeq(list, LAMBDA x : x = e) - 1])

\* binfun is the table of the connective: the pairs of truth values it holds of.
ProductStatus(s, t, binfun) ==
  IF s = 0 \/ t = 0 THEN 0 ELSE IF <<s = 1, t = 1>> \in binfun THEN 1 ELSE -1

ProductOn(a1, a2, binfun, list, place) ==
  [ns |-> Len(list), s |-> 0,
   q |-> Table([i \in 0 .. Len(list) - 1 |->
                  Renumber(PairDiagram(a1, a2, list[i + 1]), place)]),
   f |-> Table([i \in 0 .. Len(list) - 1 |->
                  ProductStatus(a1.f[list[i + 1][1]], a2.f[list[i + 1][2]], binfun)])]

ProductOf(a1, a2, binfun, list) == ProductOn(a1, a2, binfun, list, PlaceIn(list))

DfaProduct(a1, a2, binfun) ==
  ProductOf(a1, a2, binfun, PairsFrom(a1, a2, << <<a1.s, a2.s>> >>, 1))

DfaAND == {<<TRUE, TRUE>>}
DfaOR == BOOLEAN \X BOOLEAN \ {<<FALSE, FALSE>>}
DfaIMPL == BOOLEAN \X BOOLEAN \ {<<TRUE, FALSE>>}
DfaBIIMPL == {<<TRUE, TRUE>>, <<FALSE, FALSE>>}

----------------------------------------------------------------------------
(* quotient.c                                                               *)

\* The successor of a state by the letter with the bit of v and zeros.
RECURSIVE Read00(_, _, _)
Read00(p, v, choice) ==
  IF IsLeaf(p) THEN LeafValue(p)
  ELSE IF IfIndex(p) = v /\ choice = 1 THEN Read00(BddThen(p), v, choice)
  ELSE Read00(BddElse(p), v, choice)

RECURSIVE Color(_, _, _)
Color(a, v, colored) ==
  LET more == colored \cup
        {i \in States(a) : \E b \in {0, 1} : Read00(a.q[i], v, b) \in colored}
  IN  IF more = colored THEN colored ELSE Color(a, v, more)

\* A state gets the status it has after some number of letters that are zero but
\* for v; 1 before -1 before 0.
DfaRightQuotient(a, v) ==
  LET accepting == Color(a, v, {i \in States(a) : a.f[i] = 1})
      rejecting == Color(a, v, {i \in States(a) : a.f[i] = -1})
  IN  [a EXCEPT !.f = Table([i \in States(a) |->
         IF i \in accepting THEN 1 ELSE IF i \in rejecting THEN -1 ELSE 0])]

----------------------------------------------------------------------------
(* project.c: the reachable sets of states, numbered as they are found.     *)

\* The diagram of a set is the union of those of its members, in whichever way
\* the set was put together.
UnionOf(p, q) ==
  Apply1(Apply2Hashed(p, q), [st \in (SUBSET Nat) \X (SUBSET Nat) |-> st[1] \cup st[2]])

EvalBdd(a, v, set) ==
  FoldLeft(LAMBDA p, i : UnionOf(p, Project(a.q[i], v)),
           Project(a.q[Min(set)], v), SetToSortSeq(set \ {Min(set)}, <))

RECURSIVE SetsFrom(_, _, _, _)
SetsFrom(a, v, list, h) ==
  IF h > Len(list) THEN list
  ELSE SetsFrom(a, v, AppendNew(list, CallLeafs(EvalBdd(a, v, list[h]))), h + 1)

ProjectStatus(a, set) ==
  IF \A i \in set : a.f[i] = 0 THEN 0 ELSE IF \E i \in set : a.f[i] = 1 THEN 1 ELSE -1

ProjectOn(a, v, list, place) ==
  [ns |-> Len(list), s |-> 0,
   q |-> Table([i \in 0 .. Len(list) - 1 |-> Apply1(EvalBdd(a, v, list[i + 1]), place)]),
   f |-> Table([i \in 0 .. Len(list) - 1 |-> ProjectStatus(a, list[i + 1])])]

ProjectOf(a, v, list) == ProjectOn(a, v, list, PlaceIn(list))

DfaProject(a, v) == ProjectOf(a, v, SetsFrom(a, v, << {a.s} >>, 1))

----------------------------------------------------------------------------
(* minimize.c                                                               *)

\* The classes of states with equal roots and statuses, numbered in the order of
\* their first states.
RenamePartition(a, roots) ==
  LET keys == AppendNew(<<>>, [i \in 1 .. a.ns |-> <<roots[i - 1], a.f[i - 1]>>])
  IN  Table([i \in States(a) |->
               SelectInSeq(keys, LAMBDA e : e = <<roots[i], a.f[i]>>) - 1])

Roots(a, discrs) == Table([i \in States(a) |-> Apply1(a.q[i], discrs)])

NrBlocks(a, discrs) == Cardinality({discrs[i] : i \in States(a)})

Quotient(a, roots, discrs) ==
  LET member(c) == CHOOSE i \in States(a) : discrs[i] = c
  IN  [ns |-> NrBlocks(a, discrs), s |-> discrs[a.s],
       q |-> Table([c \in 0 .. NrBlocks(a, discrs) - 1 |-> roots[member(c)]]),
       f |-> Table([c \in 0 .. NrBlocks(a, discrs) - 1 |-> a.f[member(c)]])]

RECURSIVE Refine(_, _, _)
Refine(a, discrs, blocks) ==
  LET roots == Roots(a, discrs)
      next == RenamePartition(a, roots)
  IN  IF NrBlocks(a, next) > blocks THEN Refine(a, next, NrBlocks(a, next))
      ELSE Quotient(a, roots, next)

\* In place of DfaMinimize: the blocks are counted one off.
MinimizeFromThree(a) == Refine(a, RenamePartition(a, [i \in States(a) |-> 0]), 3)

DfaMinimize(a) == Refine(a, RenamePartition(a, [i \in States(a) |-> 0]), 2)

----------------------------------------------------------------------------
(* analyze.c                                                                *)

\* The breadth-first search: one walk over the diagrams, in which every value is
\* met once; the start state may so be met again, at a distance above 0.
RECURSIVE AutomatonBfs(_, _)
AutomatonBfs(a, b) ==
  IF b.queue = <<>> THEN b
  ELSE LET p == Head(b.queue)
           found == SelectSeq(CallLeafs(a.q[p]), LAMBDA t : t \notin b.met)
       IN  AutomatonBfs(a,
             [queue |-> Tail(b.queue) \o found, met |-> b.met \cup Range(found),
              dist |-> [t \in Range(found) |-> b.dist[p] + 1] @@ b.dist,
              prev |-> [t \in Range(found) |-> p] @@ b.prev])

Bfs(a) == AutomatonBfs(a, [queue |-> <<a.s>>, met |-> {},
                           dist |-> a.s :> 0, prev |-> a.s :> -1])

\* In place of ExampleStates: the start state counts before it is reached.
ExampleStatesFromStart(a, b, polarity) == {i \in DOMAIN b.dist : a.f[i] = polarity}

\* dist and prev of a state that is not reached are not initialised: that every
\* state is reached keeps them from being read.
ExampleStates(a, b, polarity) ==
  {i \in DOMAIN b.dist : a.f[i] = polarity /\ b.dist[i] >= 1}

RECURSIVE PathTo(_, _, _)
PathTo(b, i, length) ==
  IF length = 0 THEN <<i>> ELSE Append(PathTo(b, b.prev[i], length - 1), i)

\* In place of NearestPath: the first state, however far.
FirstPath(b, ends) == PathTo(b, Min(ends), b.dist[Min(ends)])

\* The first of the nearest states of a status, by the path that led there.
NearestPath(b, ends) ==
  LET least == Min({b.dist[i] : i \in ends})
  IN  PathTo(b, Min({i \in ends : b.dist[i] = least}), least)

\* The letter of a step: the bits on the path through the diagram, X elsewhere.
LetterOf(trace, i) ==
  IF \E n \in 1 .. Len(trace) : trace[n][1] = i
  THEN trace[SelectInSeq(trace, LAMBDA t : t[1] = i)][2] ELSE X

TraceOf(a, p, t) == CHOOSE trace \in FindOnePath(a.q[p], t) : TRUE

LettersAlong(a, path, offsets) ==
  [j \in 1 .. Len(path) - 1 |->
     [i \in Range(offsets) |-> LetterOf(TraceOf(a, path[j], path[j + 1]), i)]]

\* {} when there is none.
MakeExample(a, b, polarity, offsets) ==
  IF ExampleStates(a, b, polarity) = {} THEN {}
  ELSE {LettersAlong(a, NearestPath(b, ExampleStates(a, b, polarity)), offsets)}

\* 1 for valid, -1 for unsatisfiable.
StatusFrom(a, b) ==
  IF ExampleStates(a, b, 1) = {} THEN -1
  ELSE IF ExampleStates(a, b, -1) = {} THEN 1 ELSE 0

DfaStatus(a) == StatusFrom(a, Bfs(a))

----------------------------------------------------------------------------
(* external.c                                                               *)

ExportTable(a) == FoldLeft(LAMBDA t, i : Export(t, a.q[i]), <<>>, [n \in 1 .. a.ns |-> n - 1])

FileOf(a, table) ==
  [ns |-> a.ns, s |-> a.s, f |-> a.f,
   q |-> Table([i \in States(a) |-> MarkOf(table, a.q[i])]), bdd |-> Written(table)]

DfaExport(a) == FileOf(a, ExportTable(a))

DfaImport(file) ==
  [ns |-> file.ns, s |-> file.s, f |-> file.f,
   q |-> [i \in 0 .. file.ns - 1 |-> MakeNode(file.bdd, file.q[i])]]
=============================================================================
