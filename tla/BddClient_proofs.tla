-------------------------- MODULE BddClient_proofs --------------------------
(***************************************************************************)
(* Proofs about every store the client of the BDD package can bring about  *)
(* (BddClient), from the theorems of BddStore_proofs about single steps.   *)
(*                                                                         *)
(* The inductive invariant, Right(store, held), has these parts:           *)
(*   IsHeld      finitely many handles, each with an edge                  *)
(*   Kept        a reduced, ordered diagram, some of whose nodes may be    *)
(*               dead, and counts that are those of its live nodes and of  *)
(*               the client's references                                   *)
(*   CacheRight  each entry of the computed table is right                 *)
(*   Numbered    the variables and the ranks are the first numbers         *)
(* Counts and canonical form need each other: bdd_create_node finds a dead *)
(* node by its links, whose own counts must then be raised again, and      *)
(* bdd_free must not take a node from the table that a live one refers to. *)
(***************************************************************************)
EXTENDS BddStore_proofs, BddClient

------------------------------------------------------------------------------
(* What the client holds.                                                  *)

IsHeld(hd) == IsFiniteSet(DOMAIN hd) /\ hd \in [DOMAIN hd -> Edge]

(* The handles of edges to address n, and how many they are.               *)
HandlesOf(hd, n) == {i \in DOMAIN hd : Ptr(hd[i]) = n}
References(hd) == [n \in Nat |-> Cardinality(HandlesOf(hd, n))]

(* The counts of an empty hand, and of any.                                *)
LEMMA ReferencesNat ==
  ASSUME NEW hd, IsHeld(hd)
  PROVE  /\ References(hd) \in [Nat -> Nat]
         /\ \A n \in Nat :
              IsFiniteSet(HandlesOf(hd, n)) /\ References(hd)[n] = Cardinality(HandlesOf(hd, n))
         /\ \A i \in DOMAIN hd : Ptr(hd[i]) \in Nat /\ References(hd)[Ptr(hd[i])] > 0
<1>1. ASSUME NEW n \in Nat
      PROVE  /\ IsFiniteSet(HandlesOf(hd, n)) /\ Cardinality(HandlesOf(hd, n)) \in Nat
             /\ References(hd)[n] = Cardinality(HandlesOf(hd, n))
  <2>1. IsFiniteSet(HandlesOf(hd, n))  BY FS_Subset DEF IsHeld, HandlesOf
  <2> QED BY <2>1, FS_CardinalityType DEF References
<1>2. ASSUME NEW i \in DOMAIN hd
      PROVE  Ptr(hd[i]) \in Nat /\ References(hd)[Ptr(hd[i])] > 0
  <2>1. hd[i] \in Edge  BY DEF IsHeld
  <2>2. Ptr(hd[i]) \in Nat  BY <2>1, EdgeFacts
  <2>3. i \in HandlesOf(hd, Ptr(hd[i]))  BY DEF HandlesOf
  <2>4. Cardinality(HandlesOf(hd, Ptr(hd[i]))) # 0  BY <1>1, <2>2, <2>3, FS_EmptySet
  <2> QED BY <1>1, <2>2, <2>4
<1>3. References(hd) \in [Nat -> Nat]  BY <1>1 DEF References
<1> QED BY <1>1, <1>2, <1>3

(* Whether w is hd with edge e at a new handle i.                          *)
More(hd, i, e, w) == w = With(hd, i, e)

(* A handle more is a reference more.                                      *)
LEMMA ReferencesMore ==
  ASSUME NEW hd, IsHeld(hd), NEW i, i \notin DOMAIN hd, NEW e \in Edge,
         NEW w, More(hd, i, e, w)
  PROVE  IsHeld(w) /\ References(w) = Plus(References(hd), Ptr(e))
<1> DEFINE h == References(hd)
<1>1. DOMAIN w = DOMAIN hd \cup {i} /\ w[i] = e /\ \A j \in DOMAIN hd : w[j] = hd[j]
  BY DEF More, With
<1>2. w \in [DOMAIN w -> Edge]  BY <1>1 DEF IsHeld, More, With
<1>3. IsFiniteSet(DOMAIN w)  BY <1>1, FS_AddElement DEF IsHeld
<1>4. IsHeld(w)  BY <1>2, <1>3 DEF IsHeld
<1>5. h \in [Nat -> Nat] /\ Ptr(e) \in Nat  BY ReferencesNat, EdgeFacts
<1>6. ASSUME NEW n \in Nat PROVE References(w)[n] = Plus(h, Ptr(e))[n]
  <2>1. IsFiniteSet(HandlesOf(hd, n)) /\ h[n] = Cardinality(HandlesOf(hd, n))
    BY ReferencesNat
  <2>2. References(w)[n] = Cardinality(HandlesOf(w, n))  BY <1>4, ReferencesNat
  <2>3. Plus(h, Ptr(e))[n] = IF Ptr(e) = n THEN h[n] + 1 ELSE h[n]  BY <1>5, PlusFacts
  <2>4. CASE Ptr(e) = n
    <3>1. HandlesOf(w, n) = HandlesOf(hd, n) \cup {i} /\ i \notin HandlesOf(hd, n)
      BY <1>1, <2>4 DEF HandlesOf
    <3>2. Cardinality(HandlesOf(w, n)) = Cardinality(HandlesOf(hd, n)) + 1
      BY <2>1, <3>1, FS_AddElement
    <3> QED BY <2>1, <2>2, <2>3, <2>4, <3>2
  <2>5. CASE Ptr(e) # n
    <3>1. HandlesOf(w, n) = HandlesOf(hd, n)  BY <1>1, <2>5 DEF HandlesOf
    <3> QED BY <2>1, <2>2, <2>3, <2>5, <3>1
  <2> QED BY <2>4, <2>5
<1>7. References(w) \in [Nat -> Nat] /\ Plus(h, Ptr(e)) \in [Nat -> Nat]
  BY <1>4, <1>5, ReferencesNat, PlusFacts
<1> HIDE DEF h
<1>8. References(w) = Plus(h, Ptr(e))  BY <1>6, <1>7
<1> QED BY <1>4, <1>8 DEF h

(* A handle less is a reference less.                                      *)
LEMMA ReferencesLess ==
  ASSUME NEW hd, IsHeld(hd), NEW i \in DOMAIN hd, NEW w, w = Without(hd, i)
  PROVE  IsHeld(w) /\ References(w) = Less(References(hd), Ptr(hd[i]))
<1>1. DOMAIN w = DOMAIN hd \ {i} /\ \A j \in DOMAIN hd \ {i} : w[j] = hd[j]
  BY DEF Without
<1>2. w \in [DOMAIN w -> Edge] /\ hd[i] \in Edge  BY <1>1 DEF IsHeld, Without
<1>3. IsFiniteSet(DOMAIN w)  BY <1>1, FS_Subset DEF IsHeld
<1>4. IsHeld(w)  BY <1>2, <1>3 DEF IsHeld
<1>5. PICK e \in Edge : e = hd[i]  BY <1>2
<1>6. hd = With(w, i, e)
  <2> DEFINE u == With(w, i, e)
  <2>1. u = [j \in DOMAIN w \cup {i} |-> IF j = i THEN e ELSE w[j]]  BY DEF With
  <2>2. DOMAIN w \cup {i} = DOMAIN hd  BY <1>1
  <2>3. \A j \in DOMAIN hd : hd[j] = IF j = i THEN e ELSE w[j]  BY <1>1, <1>5
  <2>4. hd = [j \in DOMAIN hd |-> hd[j]]  BY DEF IsHeld
  <2> QED BY <2>1, <2>2, <2>3, <2>4
<1>7. References(hd) = Plus(References(w), Ptr(e))
  <2>1. More(w, i, e, hd) /\ i \notin DOMAIN w  BY <1>1, <1>6 DEF More
  <2> QED BY <1>4, <2>1, ReferencesMore
<1>8. References(w) \in [Nat -> Nat] /\ Ptr(e) \in Nat  BY <1>4, ReferencesNat, EdgeFacts
<1>9. Less(Plus(References(w), Ptr(e)), Ptr(e)) = References(w)  BY <1>8, PlusFacts
<1> QED BY <1>4, <1>5, <1>7, <1>9

------------------------------------------------------------------------------
(* The functions of edges.                                                 *)

(* The readings of BddStore_proofs are those that Function is of.          *)
LEMMA LabelsRead ==
  ASSUME NEW s, NEW x, NEW T
  PROVE  Labels(s, x, T) <=> Reads(s.node, Nodes(s), x, T)
BY DEF Labels, Reads, True, Holds, Chosen

(* An edge of a diagram has a value under each valuation, which is in its  *)
(* function if that is so in any reading.                                  *)
LEMMA FunctionTells ==
  ASSUME NEW s, Diagram(s), NEW e \in Edge, Ptr(e) \in DOMAIN s.node
  PROVE  /\ Function(s, e) \in SUBSET Valuations
         /\ \A x \in Valuations : \A T : Reads(s.node, Nodes(s), x, T) =>
              (x \in Function(s, e) <=> Holds(T, e))
<1>1. ASSUME NEW x \in Valuations, NEW T, Reads(s.node, Nodes(s), x, T)
      PROVE  x \in Function(s, e) <=> Holds(T, e)
  <2>1. ASSUME NEW J, Reads(s.node, Nodes(s), x, J)
        PROVE  Holds(J, e) <=> Holds(T, e)
    <3>1. Agree(DOMAIN s.node, T, J)  BY <1>1, <2>1, ReadingUnique
    <3> QED BY <3>1 DEF Agree, Holds
  <2>2. \A J : Labels(s, x, J) <=> Reads(s.node, Nodes(s), x, J)  BY LabelsRead
  <2>3. \A J : True(J, e) <=> Holds(J, e)  BY DEF True, Holds
  <2> QED BY <1>1, <2>1, <2>2, <2>3 DEF Function
<1> QED BY <1>1 DEF Function

(* A function is told by its values.                                       *)
LEMMA FunctionTold ==
  ASSUME NEW s, Diagram(s), NEW e \in Edge, Ptr(e) \in DOMAIN s.node,
         NEW m \in SUBSET Valuations,
         \A x \in Valuations : \E T : /\ Reads(s.node, Nodes(s), x, T)
                                      /\ x \in m <=> Holds(T, e)
  PROVE  Function(s, e) = m
<1>1. \A x \in Valuations : x \in Function(s, e) <=> x \in m  BY FunctionTells
<1> QED BY <1>1, FunctionTells

(* The constants.                                                          *)
LEMMA ConstantFunctions ==
  ASSUME NEW s, Diagram(s)
  PROVE  Function(s, BDD_1) = Valuations /\ Function(s, BDD_0) = {}
<1>1. BDD_1 \in Edge /\ BDD_0 \in Edge /\ Ptr(BDD_1) = 0 /\ Ptr(BDD_0) = 0 /\ 0 \in DOMAIN s.node
  BY EdgeFacts DEF Diagram, IsStore
<1>2. ASSUME NEW x \in Valuations
      PROVE  \E T : Reads(s.node, Nodes(s), x, T) /\ Holds(T, BDD_1) /\ ~Holds(T, BDD_0)
  <2>1. PICK T : Reads(s.node, Nodes(s), x, T)  BY ReadingExists
  <2> QED BY <2>1, HoldsFacts DEF Reads
<1>3. Function(s, BDD_1) = Valuations
  <2>1. Valuations \in SUBSET Valuations  OBVIOUS
  <2> QED BY <1>1, <1>2, <2>1, FunctionTold
<1>4. Function(s, BDD_0) = {}
  <2>1. \A x \in Valuations : x \notin Function(s, BDD_0)
    BY <1>1, <1>2, FunctionTells
  <2> QED BY <1>1, <2>1, FunctionTells
<1> QED BY <1>3, <1>4

(* What a store that follows another does not change.                      *)
LEMMA FunctionFollows ==
  ASSUME NEW s, NEW h, Kept(s, h), NEW q, NEW g, Kept(q, g), Follows(s, q),
         NEW e, InUse(s, e)
  PROVE  Function(q, e) = Function(s, e)
<1>1. Diagram(s) /\ Diagram(q) /\ e \in Edge  BY DEF Kept, InUse
<1>2. Ptr(e) \in DOMAIN s.node /\ Ptr(e) \in DOMAIN q.node
  <2>1. 0 \in DOMAIN s.node  BY <1>1 DEF Diagram, IsStore
  <2> QED BY <2>1, FollowsBelow DEF InUse, Live, Nodes
<1>3. ASSUME NEW x \in Valuations
      PROVE  \E T : Reads(q.node, Nodes(q), x, T) /\ (x \in Function(s, e) <=> Holds(T, e))
  <2>1. PICK I : Reads(s.node, Nodes(s), x, I)  BY <1>1, ReadingExists
  <2>2. PICK T : Reads(q.node, Nodes(q), x, T)  BY <1>1, ReadingExists
  <2>3. Holds(T, e) <=> Holds(I, e)  BY <2>1, <2>2, FollowsReads
  <2>4. x \in Function(s, e) <=> Holds(I, e)  BY <1>1, <1>2, <2>1, FunctionTells
  <2> QED BY <2>2, <2>3, <2>4
<1>4. Function(s, e) \in SUBSET Valuations  BY <1>1, <1>2, FunctionTells
<1> QED BY <1>1, <1>2, <1>3, <1>4, FunctionTold

------------------------------------------------------------------------------
(* The invariant.                                                          *)

Numbered(s) == \E n \in Nat : DOMAIN s.space = 0 .. n - 1 /\ DOMAIN s.rank = 0 .. n - 1

Right(s, hd) ==
  /\ IsHeld(hd) /\ Kept(s, References(hd))
  /\ CacheRight(s) /\ Numbered(s)

(* The edges held have the functions they had.                             *)
SameFunctions(s, q, hd) == \A i \in DOMAIN hd : Function(q, hd[i]) = Function(s, hd[i])

(* What the client may name is in use: it holds it, or it is a constant.   *)
LEMMA HandleInUse ==
  ASSUME NEW s, NEW hd, Right(s, hd)
  PROVE  /\ \A i \in DOMAIN hd : InUse(s, hd[i])
         /\ InUse(s, BDD_1) /\ InUse(s, BDD_0)
         /\ \A e : InUse(s, e) => e \in Edge /\ Ptr(e) \in DOMAIN s.node
<1>1. IsHeld(hd) /\ Kept(s, References(hd)) /\ Diagram(s) /\ 0 \in DOMAIN s.node
  BY DEF Right, Kept, Diagram, IsStore
<1>2. ASSUME NEW i \in DOMAIN hd PROVE InUse(s, hd[i])
  <2>1. Ptr(hd[i]) \in Nat /\ References(hd)[Ptr(hd[i])] > 0  BY <1>1, ReferencesNat
  <2>2. Ptr(hd[i]) \in DOMAIN s.node /\ s.node[Ptr(hd[i])].ref > 0  BY <1>1, <2>1, HeldInUse
  <2>3. hd[i] \in Edge  BY <1>1 DEF IsHeld
  <2> QED BY <2>2, <2>3 DEF InUse, Live, Nodes
<1>3. InUse(s, BDD_1) /\ InUse(s, BDD_0)  BY EdgeFacts DEF InUse
<1>4. \A e : InUse(s, e) => e \in Edge /\ Ptr(e) \in DOMAIN s.node
  BY <1>1 DEF InUse, Live, Nodes
<1> QED BY <1>2, <1>3, <1>4

(* An operation that only adds to the store and returns an edge.           *)
LEMMA Received ==
  ASSUME NEW s, NEW hd, Right(s, hd), NEW o, Owned(s, References(hd), o), CacheRight(o.s),
         NEW i, i \notin DOMAIN hd, NEW w, More(hd, i, o.r, w)
  PROVE  Right(o.s, w) /\ SameFunctions(s, o.s, hd)
<1>1. /\ IsHeld(hd) /\ Kept(s, References(hd)) /\ Numbered(s)
      /\ o.r \in Edge /\ Kept(o.s, Plus(References(hd), Ptr(o.r))) /\ Follows(s, o.s)
  BY DEF Right, Owned
<1>2. IsHeld(w) /\ References(w) = Plus(References(hd), Ptr(o.r))  BY <1>1, ReferencesMore
<1>3. Numbered(o.s)  BY <1>1 DEF Follows, SameOrder, Numbered
<1>4. SameFunctions(s, o.s, hd)
  BY <1>1, HandleInUse, FunctionFollows DEF SameFunctions
<1> QED BY <1>1, <1>2, <1>3, <1>4 DEF Right

(* Other fields than those of the diagram and of the computed table.       *)
LEMMA FieldsApart ==
  ASSUME NEW s, NEW hd, Right(s, hd), NEW q, SameStore(s, q), SameCache(s, q)
  PROVE  /\ Right(q, hd) /\ (\A e : Function(q, e) = Function(s, e))
         /\ \A e : InUse(s, e) => InUse(q, e)
<1>1. IsHeld(hd) /\ Kept(s, References(hd)) /\ CacheRight(s) /\ Numbered(s) /\ Diagram(s)
  BY DEF Right, Kept
<1>2. /\ DOMAIN q = DOMAIN s /\ q.node = s.node /\ q.space = s.space /\ q.rank = s.rank
  BY DEF SameStore, SameOrder
<1>3. Kept(q, References(hd)) /\ Live(q) = Live(s)  BY <1>1, SameStoreKept
<1>4. CacheRight(q)
  <2>1. Diagram(q) /\ "cache" \in DOMAIN q  BY <1>1, <1>2, <1>3 DEF Kept, CacheRight
  <2>2. \A m \in DOMAIN s.node : SameLink(q.node[m], s.node[m])  BY <1>2 DEF SameLink
  <2> QED BY <1>1, <1>2, <2>1, <2>2, CacheKeeps
<1>5. Numbered(q)  BY <1>1, <1>2 DEF Numbered
<1>6. \A e : Function(q, e) = Function(s, e)
  <2>1. Nodes(q) = Nodes(s)  BY <1>2 DEF Nodes
  <2>2. \A x, T : Labels(q, x, T) <=> Labels(s, x, T)  BY <1>2, <2>1 DEF Labels
  <2> QED BY <2>2 DEF Function
<1> QED BY <1>1, <1>3, <1>4, <1>5, <1>6 DEF Right, InUse

------------------------------------------------------------------------------
(* New variables.                                                          *)

(* What bdd_make_fit_unique_table adds.                                    *)
LEMMA Fitted ==
  ASSUME NEW s, IsStore(s), Numbered(s), Ranking(s), NEW v \in Vars, NEW q, q = MakeFit(s, v)
  PROVE  /\ q.node = s.node /\ q.dead = s.dead /\ q.frozen = s.frozen
         /\ DOMAIN q = DOMAIN s /\ SameCache(s, q)
         /\ Numbered(q) /\ Ranking(q) /\ v \in DOMAIN q.rank
         /\ DOMAIN s.rank \subseteq DOMAIN q.rank
         /\ \A x \in DOMAIN s.rank : q.rank[x] = s.rank[x]
<1>1. PICK n \in Nat : DOMAIN s.space = 0 .. n - 1 /\ DOMAIN s.rank = 0 .. n - 1
  BY DEF Numbered
<1>2. Count(s) = n
  <2>1. Cardinality(0 .. n - 1) = n  BY FS_Interval
  <2> QED BY <1>1, <2>1 DEF Count
<1>3. v \in Nat /\ v < TERMID /\ TERMID \in Nat
  <2>1. TERMID \in Nat  BY DEF TERMID
  <2>2. v \in 0 .. TERMID - 1  BY DEF Vars
  <2> QED BY <2>1, <2>2
<1> DEFINE new == n .. v
           Wider(f) == [i \in DOMAIN f \cup new |-> IF i \in new THEN i ELSE f[i]]
           a == AddVars(s, v)
<1>4. /\ DOMAIN a = DOMAIN s /\ a.node = s.node /\ a.dead = s.dead /\ a.frozen = s.frozen
      /\ SameCache(s, a) /\ a.space = Wider(s.space) /\ a.rank = Wider(s.rank)
  <2> DEFINE l == Table([u \in DOMAIN s.log \cup new |-> IF u \in new THEN 0 ELSE s.log[u]])
             S == Table([i \in DOMAIN s.space \cup new |-> IF i \in new THEN i ELSE s.space[i]])
             R == Table([i \in DOMAIN s.rank \cup new |-> IF i \in new THEN i ELSE s.rank[i]])
             g == s.groups \o [i \in 1 .. Cardinality(new) |-> [last |-> n + i - 1, orderable |-> FALSE]]
  <2>1. a = [s EXCEPT !.space = S, !.rank = R, !.log = l, !.groups = g]
    BY <1>2 DEF AddVars
  <2>2. S = Wider(s.space) /\ R = Wider(s.rank)  BY TableSame
  <2> HIDE DEF a, l, S, R, g, Wider
  <2> QED BY <2>1, <2>2 DEF IsStore, SameCache
<1> HIDE DEF a
<1>5. /\ DOMAIN q = DOMAIN a /\ q.node = a.node /\ q.dead = a.dead /\ q.frozen = a.frozen
      /\ SameCache(a, q) /\ q.space = a.space /\ q.rank = a.rank
  <2>1. q = a \/ q = ExtendHashTable(a, v)  BY DEF MakeFit, a
  <2> DEFINE l == [a.log EXCEPT ![v] = @ + 1]
  <2>2. ExtendHashTable(a, v) = [a EXCEPT !.log = l]  BY DEF ExtendHashTable
  <2> HIDE DEF l
  <2> QED BY <1>4, <2>1, <2>2 DEF SameCache, IsStore
<1>6. q.space = Wider(s.space) /\ q.rank = Wider(s.rank)  BY <1>4, <1>5
<1>7. /\ DOMAIN q.space = (0 .. n - 1) \cup (n .. v)
      /\ DOMAIN q.rank = (0 .. n - 1) \cup (n .. v)
      /\ \A i \in 0 .. n - 1 : q.space[i] = s.space[i] /\ q.rank[i] = s.rank[i]
      /\ \A i \in n .. v : q.space[i] = i /\ q.rank[i] = i
  BY <1>1, <1>6
<1> HIDE DEF Wider
<1>8. Numbered(q)
  <2>1. CASE v < n
    <3>1. DOMAIN q.space = 0 .. n - 1 /\ DOMAIN q.rank = 0 .. n - 1  BY <1>3, <1>7, <2>1
    <3> QED BY <3>1 DEF Numbered
  <2>2. CASE n <= v
    <3>1. DOMAIN q.space = 0 .. (v + 1) - 1 /\ DOMAIN q.rank = 0 .. (v + 1) - 1
      BY <1>3, <1>7, <2>2
    <3> QED BY <1>3, <3>1 DEF Numbered
  <2> QED BY <1>3, <2>1, <2>2
<1>9. Ranking(q)
  <2>1. /\ 0 .. n - 1 \subseteq 0 .. TERMID - 1
        /\ \A x \in 0 .. n - 1 : s.rank[x] \in 0 .. n - 1 /\ s.space[s.rank[x]] = x
        /\ \A i \in 0 .. n - 1 : s.space[i] \in 0 .. n - 1 /\ s.rank[s.space[i]] = i
    BY <1>1 DEF Ranking
  <2>2. n .. v \subseteq 0 .. TERMID - 1  BY <1>3
  <2> QED BY <1>7, <2>1, <2>2 DEF Ranking
<1>10. v \in DOMAIN q.rank  BY <1>3, <1>7
<1>11. DOMAIN s.rank \subseteq DOMAIN q.rank /\ \A x \in DOMAIN s.rank : q.rank[x] = s.rank[x]
  BY <1>1, <1>7
<1>12. SameCache(s, q)  BY <1>4, <1>5 DEF SameCache
<1> QED BY <1>4, <1>5, <1>8, <1>9, <1>10, <1>11, <1>12

(* It changes nothing for the nodes there are.                             *)
LEMMA FitRight ==
  ASSUME NEW s, NEW hd, Right(s, hd), NEW v \in Vars, NEW q, q = MakeFit(s, v)
  PROVE  Right(q, hd) /\ v \in DOMAIN q.rank /\ \A e : Function(q, e) = Function(s, e)
<1> DEFINE h == References(hd)
<1>1. /\ IsHeld(hd) /\ Kept(s, h) /\ CacheRight(s) /\ Numbered(s)
      /\ Stage(s, Live(s), h) /\ Diagram(s) /\ IsStore(s) /\ Ranking(s)
  BY DEF Right, Kept, Diagram
<1> HIDE DEF h
<1>2. /\ q.node = s.node /\ q.dead = s.dead /\ q.frozen = s.frozen
      /\ DOMAIN q = DOMAIN s /\ SameCache(s, q)
      /\ Numbered(q) /\ Ranking(q) /\ v \in DOMAIN q.rank
      /\ DOMAIN s.rank \subseteq DOMAIN q.rank
      /\ \A x \in DOMAIN s.rank : q.rank[x] = s.rank[x]
  BY <1>1, Fitted
<1>3. IsStore(q)  BY <1>1, <1>2 DEF IsStore
<1>4. Nodes(q) = Nodes(s) /\ Live(q) = Live(s)  BY <1>2 DEF Nodes, Live
<1>5. Stage(q, Live(q), h)  BY <1>1, <1>2, <1>3, <1>4 DEF Stage, Counted
<1>6. Diagram(q)
  <2>1. \A k \in DOMAIN s.node : NodeRank(q, k) = NodeRank(s, k)
    <3>1. \A k \in Nodes(s) : s.node[k].v \in DOMAIN s.rank  BY <1>1 DEF Diagram
    <3>2. s.node[0].v = TERMID  BY <1>1 DEF Diagram
    <3> QED BY <1>2, <3>1, <3>2 DEF NodeRank, VarRank, Nodes
  <2>2. \A k \in Nodes(s) : Kids(s.node, k) \subseteq DOMAIN s.node  BY <1>1, KidsInside DEF Diagram
  <2>3. ASSUME NEW k \in Nodes(q)
        PROVE  /\ q.node[k].v \in DOMAIN q.rank
               /\ \A c \in Kids(q.node, k) : NodeRank(q, k) < NodeRank(q, c)
    <3>1. k \in Nodes(s) /\ k \in DOMAIN s.node  BY <1>4 DEF Nodes
    <3>2. s.node[k].v \in DOMAIN s.rank /\ \A c \in Kids(s.node, k) : NodeRank(s, k) < NodeRank(s, c)
      BY <1>1, <3>1 DEF Diagram
    <3> QED BY <1>2, <2>1, <2>2, <3>1, <3>2
  <2> QED BY <1>1, <1>2, <1>3, <1>4, <2>3 DEF Diagram
<1>7. CacheRight(q)
  <2>1. \A m \in DOMAIN s.node : SameLink(q.node[m], s.node[m])  BY <1>2 DEF SameLink
  <2>2. "cache" \in DOMAIN q  BY <1>1, <1>2 DEF CacheRight
  <2> QED BY <1>1, <1>2, <1>6, <2>1, <2>2, CacheKeeps
<1>8. \A e : Function(q, e) = Function(s, e)
  <2>1. \A x, T : Labels(q, x, T) <=> Labels(s, x, T)  BY <1>2, <1>4 DEF Labels
  <2> QED BY <2>1 DEF Function
<1> QED BY <1>1, <1>2, <1>5, <1>6, <1>7, <1>8 DEF Right, Kept, h

(* Constants are above every variable.                                     *)
LEMMA ConstantsBranch ==
  ASSUME NEW s, NEW h, Kept(s, h), NEW v \in DOMAIN s.rank, NEW e \in {BDD_1, BDD_0}
  PROVE  Branchable(s, v, e)
<1>1. Diagram(s) /\ IsStore(s) /\ Ranking(s) /\ s.node[0].v = TERMID
  BY DEF Kept, Diagram
<1>2. e \in Edge /\ Ptr(e) = 0 /\ 0 \in DOMAIN s.node  BY <1>1, EdgeFacts DEF IsStore
<1>3. NodeRank(s, 0) = TERMID  BY <1>1 DEF NodeRank, VarRank
<1>4. TERMID > s.rank[v]
  <2>1. s.rank[v] \in 0 .. TERMID - 1  BY <1>1 DEF Ranking
  <2>2. TERMID \in Nat  BY DEF TERMID
  <2> QED BY <2>1, <2>2
<1> QED BY <1>2, <1>3, <1>4 DEF Branchable, InUse, Deeper

(* The function IF v THEN T ELSE E, of constants.                          *)
LiteralFunction(v, T, E) == {x \in Valuations : (IF v \in x THEN T ELSE E) = BDD_1}

(* bdd_create_node, of constants: a literal.                               *)
LEMMA LiteralMade ==
  ASSUME NEW s, NEW hd, Right(s, hd), NEW v \in Vars, v \in DOMAIN s.rank,
         NEW T \in {BDD_1, BDD_0}, NEW E \in {BDD_1, BDD_0}, NEW o, NodeIn(s, v, T, E, o)
  PROVE  /\ Owned(s, References(hd), o) /\ CacheRight(o.s)
         /\ Function(o.s, o.r) = LiteralFunction(v, T, E)
<1> DEFINE h == References(hd)
           m == LiteralFunction(v, T, E)
<1>1. Kept(s, h) /\ CacheRight(s) /\ Diagram(s)  BY DEF Right, Kept
<1> HIDE DEF h, m
<1>2. Branchable(s, v, T) /\ Branchable(s, v, E)  BY <1>1, ConstantsBranch
<1>3. NodeFor(s, v, T, E, o) /\ CacheRight(o.s)  BY <1>1, <1>2, NodeInFor
<1>4. Joins(s, h, v, T, E, o)  BY <1>1, <1>2, <1>3, NodeJoins
<1>5. Owned(s, h, o)  BY <1>4 DEF Joins
<1>6. Diagram(o.s) /\ o.r \in Edge /\ Ptr(o.r) \in DOMAIN o.s.node
  <2>1. Ptr(o.r) \in DOMAIN o.s.node  BY <1>1, <1>5, OwnedInUse
  <2> QED BY <1>5, <2>1 DEF Owned, Kept
<1>7. ASSUME NEW x \in Valuations
      PROVE  \E J : Reads(o.s.node, Nodes(o.s), x, J) /\ (x \in m <=> Holds(J, o.r))
  <2>1. PICK I : Reads(s.node, Nodes(s), x, I)  BY <1>1, ReadingExists
  <2>2. PICK J : Reads(o.s.node, Nodes(o.s), x, J)  BY <1>6, ReadingExists
  <2>3. Holds(J, o.r) <=> IF v \in x THEN Holds(I, T) ELSE Holds(I, E)
    BY <1>4, <2>1, <2>2 DEF Joins
  <2>4. Holds(I, BDD_1) /\ ~Holds(I, BDD_0)  BY <2>1, HoldsFacts DEF Reads
  <2>5. BDD_1 # BDD_0  BY DEF BDD_1, BDD_0
  <2>6. x \in m <=> (IF v \in x THEN T ELSE E) = BDD_1  BY DEF m, LiteralFunction
  <2>7. \A e \in {BDD_1, BDD_0} : e = BDD_1 <=> Holds(I, e)  BY <2>4, <2>5
  <2> QED BY <2>2, <2>3, <2>6, <2>7
<1>8. m \in SUBSET Valuations  BY DEF m, LiteralFunction
<1>9. Function(o.s, o.r) = m  BY <1>6, <1>7, <1>8, FunctionTold
<1> QED BY <1>3, <1>5, <1>9 DEF h, m

(* bdd_create_var, with either sign: the client holds one edge more.       *)
LEMMA LiteralReceived ==
  ASSUME NEW s, NEW hd, Right(s, hd), NEW v \in Vars,
         NEW T \in {BDD_1, BDD_0}, NEW E \in {BDD_1, BDD_0},
         NEW o, NodeIn(MakeFit(s, v), v, T, E, o),
         NEW i, i \notin DOMAIN hd, NEW w, More(hd, i, o.r, w)
  PROVE  /\ Right(o.s, w) /\ SameFunctions(s, o.s, hd)
         /\ Function(o.s, o.r) = LiteralFunction(v, T, E)
<1>1. PICK q : q = MakeFit(s, v)  OBVIOUS
<1>2. Right(q, hd) /\ v \in DOMAIN q.rank /\ \A e : Function(q, e) = Function(s, e)
  BY <1>1, FitRight
<1>3. NodeIn(q, v, T, E, o)  BY <1>1
<1>4. /\ Owned(q, References(hd), o) /\ CacheRight(o.s)
      /\ Function(o.s, o.r) = LiteralFunction(v, T, E)
  BY <1>2, <1>3, LiteralMade
<1>5. Right(o.s, w) /\ SameFunctions(q, o.s, hd)  BY <1>2, <1>4, Received
<1> QED BY <1>2, <1>4, <1>5 DEF SameFunctions

------------------------------------------------------------------------------
(* References and cofactors.                                               *)

(* bdd_assign, of any edge in use.                                         *)
LEMMA AssignReceived ==
  ASSUME NEW s, NEW hd, Right(s, hd), NEW e, InUse(s, e), NEW o, o = Assign(s, e),
         NEW i, i \notin DOMAIN hd, NEW w, More(hd, i, o.r, w)
  PROVE  /\ Right(o.s, w) /\ SameFunctions(s, o.s, hd)
         /\ o.r = e /\ Function(o.s, o.r) = Function(s, e)
<1> DEFINE h == References(hd)
<1>1. Kept(s, h) /\ CacheRight(s)  BY DEF Right
<1> HIDE DEF h
<1>2. o.r = e /\ Kept(o.s, Plus(h, Ptr(e))) /\ Follows(s, o.s)  BY <1>1, AssignKept
<1>3. CacheRight(o.s)  BY <1>1, AssignCache
<1>4. Owned(s, h, o)  BY <1>2 DEF Owned, InUse
<1>5. Right(o.s, w) /\ SameFunctions(s, o.s, hd)  BY <1>3, <1>4, Received DEF h
<1>6. Function(o.s, e) = Function(s, e)  BY <1>1, <1>2, FunctionFollows
<1> QED BY <1>2, <1>5, <1>6

(* The variable of an edge that is no constant.                            *)
LEMMA TopVariable ==
  ASSUME NEW s, NEW h, Kept(s, h), NEW e, InUse(s, e), ~Term(e)
  PROVE  /\ e # VOID /\ VarId(s, e) \in DOMAIN s.rank /\ VarId(s, e) \in Vars
         /\ CofactorPos(s, e) = CornerT(s.node, e, VarId(s, e))
         /\ CofactorNeg(s, e) = CornerE(s.node, e, VarId(s, e))
         /\ NodeRank(s, Ptr(e)) = s.rank[VarId(s, e)]
<1>1. e \in Edge /\ e # VOID /\ Ptr(e) # 0  BY EdgeFacts DEF InUse
<1>2. Ptr(e) \in Nodes(s)  BY <1>1 DEF InUse, Live
<1>3. Diagram(s) /\ Ranking(s) /\ VarId(s, e) \in DOMAIN s.rank
  BY <1>2 DEF Kept, Diagram, VarId, At
<1>4. VarId(s, e) \in Vars  BY <1>3 DEF Ranking, Vars
<1>5. VarId(s, e) # TERMID
  <2>1. TERMID \in Nat  BY DEF TERMID
  <2>2. \A u \in Vars : u # TERMID  BY <2>1 DEF Vars
  <2> QED BY <1>4, <2>2
<1>6. NodeRank(s, Ptr(e)) = s.rank[VarId(s, e)]
  BY <1>5 DEF NodeRank, VarRank, VarId, At
<1> QED BY <1>1, <1>3, <1>4, <1>6 DEF CofactorPos, CofactorNeg, CornerT, CornerE, VarId, At

(* bdd_then, bdd_else: the function with the top variable set.             *)
LEMMA CofactorFunction ==
  ASSUME NEW s, NEW h, Kept(s, h), NEW e, InUse(s, e), ~Term(e), NEW set \in BOOLEAN,
         NEW c, c = IF set THEN CofactorPos(s, e) ELSE CofactorNeg(s, e)
  PROVE  /\ InUse(s, c)
         /\ \E v \in Vars : Function(s, c) = Functions!Cofactor(Function(s, e), v, set)
<1> DEFINE v == VarId(s, e)
<1>1. /\ v \in DOMAIN s.rank /\ v \in Vars /\ NodeRank(s, Ptr(e)) = s.rank[v]
      /\ c = IF set THEN CornerT(s.node, e, v) ELSE CornerE(s.node, e, v)
  BY TopVariable
<1> HIDE DEF v
<1>2. Diagram(s) /\ IsStore(s) /\ Ranking(s) /\ e \in Edge  BY DEF Kept, Diagram, InUse
<1>3. InUse(s, c)  BY <1>1, CornersInUse
<1>4. \A f : InUse(s, f) => f \in Edge /\ Ptr(f) \in DOMAIN s.node
  BY <1>2 DEF InUse, Live, Nodes, IsStore
<1>5. Deeper(s, c, v)
  <2>1. s.rank[v] \in Nat  BY <1>1, <1>2 DEF Ranking
  <2>2. NodeRank(s, Ptr(e)) >= s.rank[v]  BY <1>1, <2>1
  <2> QED BY <1>1, <1>2, <1>4, <2>2, CornersDeeper
<1>6. ASSUME NEW x \in Valuations
      PROVE  LET y == IF set THEN x \cup {v} ELSE x \ {v}
             IN y \in Valuations /\ (x \in Function(s, c) <=> y \in Function(s, e))
  <2> DEFINE y == IF set THEN x \cup {v} ELSE x \ {v}
  <2>1. y \in Valuations /\ (v \in y <=> set) /\ \A u \in DOMAIN s.rank \ {v} : u \in x <=> u \in y
    BY <1>1 DEF Valuations
  <2> HIDE DEF y
  <2>2. PICK I : Reads(s.node, Nodes(s), x, I)  BY <1>2, ReadingExists
  <2>3. PICK J : Reads(s.node, Nodes(s), y, J)  BY <1>2, ReadingExists
  <2>4. Holds(J, e) <=> Holds(J, c)
    BY <1>1, <1>2, <1>4, <2>1, <2>3, CornerReads
  <2>5. Holds(J, c) <=> Holds(I, c)
    <3>1. Ptr(c) \in J <=> Ptr(c) \in I
      BY <1>1, <1>2, <1>5, <2>1, <2>2, <2>3, Independent DEF Deeper
    <3> QED BY <3>1 DEF Holds
  <2>6. x \in Function(s, c) <=> Holds(I, c)  BY <1>2, <1>3, <1>4, <2>2, FunctionTells
  <2>7. y \in Function(s, e) <=> Holds(J, e)  BY <1>2, <1>4, <2>1, <2>3, FunctionTells
  <2> QED BY <2>1, <2>4, <2>5, <2>6, <2>7 DEF y
<1>7. Function(s, c) \in SUBSET Valuations  BY <1>2, <1>3, <1>4, FunctionTells
<1>8. Functions!Valuations = Valuations  BY DEF Functions!Valuations, Valuations
<1>9. Function(s, c) = Functions!Cofactor(Function(s, e), v, set)
  BY <1>6, <1>7, <1>8 DEF Functions!Cofactor
<1> QED BY <1>1, <1>3, <1>9

------------------------------------------------------------------------------
(* An exchange of two ranks leaves the computed table alone.               *)

(* q is s, with other fields but the computed table.                       *)
CacheAs(s, q) == DOMAIN q = DOMAIN s /\ SameCache(s, q)

(* Steps that leave the computed table alone leave it alone together.      *)
LEMMA CacheAsChain ==
  ASSUME NEW s, NEW q, NEW p, CacheAs(s, q), CacheAs(q, p)
  PROVE  CacheAs(s, p)
BY DEF CacheAs, SameCache

(* No step is such a step.                                                 *)
LEMMA CacheAsSame ==
  ASSUME NEW s
  PROVE  CacheAs(s, s)
BY DEF CacheAs, SameCache

(* References counted on the way.                                          *)
LEMMA CacheAsCounts ==
  ASSUME NEW s, NEW q, CacheAs(s, q), NEW e
  PROVE  CacheAs(s, IncrRef(q, e)) /\ CacheAs(s, DecrRef(q, e))
<1>1. CacheAs(q, IncrRef(q, e)) /\ CacheAs(q, DecrRef(q, e))
  BY CountsKeepCache DEF CacheAs
<1> QED BY <1>1, CacheAsChain

(* bdd_create_node without a collection.                                   *)
LEMMA MadeCacheAs ==
  ASSUME NEW s, NEW v, NEW T, NEW E
  PROVE  CacheAs(s, CreateNode1(s, v, T, E).s)
<1>1. ASSUME NEW a, NEW b PROVE Assign(a, b).s = IncrRef(a, b)  BY DEF Assign, Pair
<1>2. CASE T = E
  <2>1. CreateNode1(s, v, T, E).s = IncrRef(s, T)  BY <1>1, <1>2 DEF CreateNode1
  <2> QED BY <2>1, CacheAsSame, CacheAsCounts
<1>3. CASE T # E
  <2> DEFINE P == Pos(T)
             M == SetNeg(E, Neg(T))
             S == SameNode(s, v, P, M)
             p == FindOrAlloc1(s, v, P, M, S)
  <2>1. CreateNode1(s, v, T, E).s = p.s
    BY <1>3 DEF CreateNode1, Unsigned1, Negate, Pair
  <2>2. CASE S # {}
    <3>1. p.s = IncrRef(s, 2 * (CHOOSE n \in S : TRUE))  BY <1>1, <2>2 DEF FindOrAlloc1
    <3> QED BY <2>1, <3>1, CacheAsSame, CacheAsCounts
  <2>3. CASE S = {}
    <3>1. p = AllocNode(s, v, P, M)  BY <2>3 DEF FindOrAlloc1
    <3>2. p \in Picked(s, v, P, M)  BY <2>3, <3>1 DEF Picked
    <3> HIDE DEF p, P, M, S
    <3> QED BY <2>1, <3>2, PickedCache DEF CacheAs
  <2> QED BY <2>2, <2>3
<1> QED BY <1>2, <1>3

(* bdd_local_gc.                                                           *)
LEMMA CollectedCacheAs ==
  ASSUME NEW s, NEW q, CacheAs(s, q), NEW e
  PROVE  CacheAs(s, CollectIfDead(q, e))
<1> DEFINE a == DecrRef(DecrRef(q, At(q, e).t), At(q, e).e)
           nd == Table([n \in DOMAIN a.node \ {Ptr(e)} |-> a.node[n]])
           d == a.dead - 1
           l == [a EXCEPT !.node = nd, !.dead = d]
<1>1. CacheAs(s, a)  BY CacheAsCounts
<1>2. LocalGc(q, e) = l  BY DEF LocalGc
<1> HIDE DEF a, nd, d
<1>3. CacheAs(a, l)  BY DEF CacheAs, SameCache
<1>4. CacheAs(s, l)  BY <1>1, <1>3, CacheAsChain
<1> QED BY <1>2, <1>4 DEF CollectIfDead

(* Giving up the links of a node that is rewritten.                        *)
LEMMA ReleasedCacheAs ==
  ASSUME NEW s, NEW q, CacheAs(s, q), NEW F, NEW E, NEW a \in BOOLEAN, NEW b \in BOOLEAN
  PROVE  CacheAs(s, Released(q, F, E, a, b))
<1>1. ASSUME NEW n, NEW o PROVE CacheAs(s, GiveNext(q, n, o))
  <2>1. CacheAs(s, DecrRef(q, n))  BY CacheAsCounts
  <2>2. CacheAs(s, CollectIfDead(DecrRef(q, n), n))  BY <2>1, CollectedCacheAs
  <2> QED BY <2>2, CacheAsCounts DEF GiveNext
<1>2. CacheAs(s, GiveBoth(q, F, E))
  <2> DEFINE c == DecrRef(DecrRef(q, F), E)
             t == CollectIfDead(c, E)
  <2>1. CacheAs(s, c)  BY CacheAsCounts
  <2> HIDE DEF c
  <2>2. CacheAs(s, t)  BY <2>1, CollectedCacheAs
  <2>3. GiveBoth(q, F, E) = IF Ptr(E) = Ptr(F) THEN t ELSE CollectIfDead(t, F)
    BY DEF GiveBoth, c
  <2> HIDE DEF t
  <2>4. CacheAs(s, CollectIfDead(t, F))  BY <2>2, CollectedCacheAs
  <2> QED BY <2>2, <2>3, <2>4
<1> QED BY <1>1, <1>2 DEF Released

(* Giving it its new links.                                                *)
LEMMA RelinkedCacheAs ==
  ASSUME NEW s, NEW q, CacheAs(s, q), NEW n, NEW w, NEW T, NEW E
  PROVE  CacheAs(s, Relink(q, n, w, T, E))
<1> DEFINE nd == [q.node EXCEPT ![n] = [@ EXCEPT !.v = w, !.t = T, !.e = E]]
           a == [q EXCEPT !.node = nd]
           l == [a.log EXCEPT ![w] = @ + 1]
           b == [a EXCEPT !.log = l]
<1>1. Relink(q, n, w, T, E) = IF Overloaded(a, w) THEN b ELSE a
  BY DEF Relink, ExtendIfFull, ExtendHashTable
<1> HIDE DEF nd, l
<1>2. CacheAs(q, a)  BY DEF CacheAs, SameCache
<1> HIDE DEF a
<1>3. CacheAs(a, b)  BY DEF CacheAs, SameCache
<1> HIDE DEF b
<1>4. CacheAs(s, a) /\ CacheAs(s, b)  BY <1>2, <1>3, CacheAsChain
<1> QED BY <1>1, <1>4

(* One node of bdd_process_level.                                          *)
LEMMA ProcessedCacheAs ==
  ASSUME NEW s, NEW n, NEW r
  PROVE  CacheAs(s, ProcessNode(s, n, r))
<1> DEFINE v == s.space[r]
           w == s.space[r + 1]
           F == s.node[n].t
           E == s.node[n].e
           a == Rank(s, F) = r + 1
           b == Rank(s, E) = r + 1
           f == [s EXCEPT !.node[n].v = VOID]
           g == Released(f, F, E, a, b)
           H == Halved(s, F, a)
           K == Halved(s, E, b)
<1>1. CacheAs(s, f)
  <2> DEFINE nd == [s.node EXCEPT ![n].v = VOID]
  <2>1. f = [s EXCEPT !.node = nd]  OBVIOUS
  <2> HIDE DEF nd, f
  <2> QED BY <2>1 DEF CacheAs, SameCache
<1>2. a \in BOOLEAN /\ b \in BOOLEAN  OBVIOUS
<1>3. ProcessNode(s, n, r) = IF ~a /\ ~b THEN s ELSE Exchanged(g, n, v, w, H, K, a)
  BY DEF ProcessNode, Processed
<1> HIDE DEF f, a, b, v, w, F, E, H, K
<1>4. CacheAs(s, g)  BY <1>1, <1>2, ReleasedCacheAs
<1> HIDE DEF g
<1>5. CacheAs(s, Exchanged(g, n, v, w, H, K, a))
  <2> DEFINE i == IF a THEN 1 ELSE 2
             A == CreateNode1(g, v, H[i], K[i])
             B == CreateNode1(A.s, v, H[3 - i], K[3 - i])
             x == IF a THEN A.r ELSE B.r
             y == IF a THEN B.r ELSE A.r
  <2>1. Exchanged(g, n, v, w, H, K, a) = Relink(B.s, n, w, x, y)
    BY DEF Exchanged, FirstMade, SecondMade
  <2> HIDE DEF i, x, y
  <2>2. CacheAs(g, A.s) /\ CacheAs(A.s, B.s)  BY MadeCacheAs
  <2> HIDE DEF A, B
  <2>3. CacheAs(s, B.s)  BY <1>4, <2>2, CacheAsChain
  <2> QED BY <2>1, <2>3, RelinkedCacheAs
<1> QED BY <1>3, <1>5, CacheAsSame

(* What a store has after steps that each keep it.                         *)
LEMMA StepsCacheAs ==
  ASSUME NEW s, NEW n \in Nat, NEW t, t[0] = s,
         \A i \in 1 .. n : CacheAs(t[i - 1], t[i])
  PROVE  CacheAs(s, t[n])
<1> DEFINE Bad == {k \in 1 .. n : ~CacheAs(s, t[k])}
<1>1. Bad = {}
  <2> SUFFICES ASSUME Bad # {} PROVE FALSE  OBVIOUS
  <2>1. PICK i \in Bad : \A j \in Bad : i <= j
    <3>1. Bad \in SUBSET (1 .. n)  OBVIOUS
    <3> HIDE DEF Bad
    <3> QED BY <3>1, LeastElement
  <2>2. i \in 1 .. n /\ ~CacheAs(s, t[i])  BY <2>1
  <2>3. CacheAs(s, t[i - 1])
    <3>1. CASE i = 1
      <4>1. t[i - 1] = s  BY <3>1
      <4> QED BY <4>1, CacheAsSame
    <3>2. CASE i # 1
      <4>1. i - 1 \in 1 .. n /\ ~(i <= i - 1)  BY <2>2, <3>2
      <4> QED BY <2>1, <4>1
    <3> QED BY <3>1, <3>2
  <2>4. CacheAs(t[i - 1], t[i])  BY <2>2
  <2> QED BY <2>2, <2>3, <2>4, CacheAsChain
<1> QED
  <2>1. CASE n = 0  BY <2>1, CacheAsSame
  <2>2. CASE n # 0
    <3>1. n \in 1 .. n  BY <2>2
    <3> QED BY <1>1, <3>1
  <2> QED BY <2>1, <2>2

(* BDD_SWAP_RANKS, of any well-kept store.                                 *)
LEMMA SwapLeaves ==
  ASSUME NEW s, NEW h, WellKept(s, h), NEW r \in DOMAIN s.space, r + 1 \in DOMAIN s.space
  PROVE  LET g == SwapRanks(s, r)
         IN /\ CacheAs(s, g)
            /\ DOMAIN g.space = DOMAIN s.space /\ DOMAIN g.rank = DOMAIN s.rank
<1>1. Midway(s, h, r)  BY ExchangeBegins
<1>2. PICK q, t : LevelRun(s, r, q, t) /\ ProcessLevel(s, r) = t[Len(q)]
  BY <1>1, LevelRuns
<1>3. PICK f : f = t[Len(q)]  OBVIOUS
<1>4. Midway(f, h, r) /\ SameOrder(s, f)  BY <1>1, <1>2, <1>3, LevelExchanged
<1>5. CacheAs(s, f)
  <2>1. /\ Len(q) \in Nat /\ t[0] = s
        /\ \A i \in 1 .. Len(q) : t[i] = ProcessNode(t[i - 1], q[i], r)
    BY <1>2 DEF LevelRun
  <2>2. \A i \in 1 .. Len(q) : CacheAs(t[i - 1], t[i])  BY <2>1, ProcessedCacheAs
  <2> QED BY <1>3, <2>1, <2>2, StepsCacheAs
<1>6. f.space = s.space /\ f.rank = s.rank  BY <1>4 DEF SameOrder
<1> DEFINE v == s.space[r]
           w == s.space[r + 1]
           g == RanksSwapped(f, r, v, w)
<1>7. SwapRanks(s, r) = g  BY <1>2, <1>3 DEF SwapRanks
<1>8. /\ IsStore(f) /\ Ranking(f) /\ r \in DOMAIN f.space /\ r + 1 \in DOMAIN f.space
  BY <1>4 DEF Midway, Exchangeable, Stage
<1>9. DOMAIN g = DOMAIN f /\ DOMAIN g.rank = DOMAIN f.rank /\ DOMAIN g.space = DOMAIN f.space
  BY <1>6, <1>8, SwappedFields DEF IsSwapped
<1>10. CacheAs(f, g)
  <2> DEFINE k == [f.rank EXCEPT ![v] = r + 1, ![w] = r]
             p == [f.space EXCEPT ![r] = w, ![r + 1] = v]
  <2>1. g = [f EXCEPT !.rank = k, !.space = p]  BY DEF RanksSwapped
  <2> HIDE DEF k, p, g
  <2> QED BY <2>1 DEF CacheAs, SameCache
<1> HIDE DEF g
<1>11. CacheAs(s, g)  BY <1>5, <1>10, CacheAsChain
<1> QED BY <1>6, <1>7, <1>9, <1>11

------------------------------------------------------------------------------
(* Reordering.                                                             *)

(* What exchanges keep of s, where h are the references from outside.      *)
AfterExchanges(s, h, q) ==
  /\ WellKept(q, h) /\ Numbered(q) /\ CacheAs(s, q)
  /\ \A x, I, J : Reads(s.node, Nodes(s), x, I) /\ Reads(q.node, Nodes(q), x, J) =>
       Agree(Held(h) \cup {0}, I, J)

(* What is held is in the store.                                           *)
LEMMA HeldInside ==
  ASSUME NEW s, NEW S, NEW h, Stage(s, S, h)
  PROVE  Held(h) \cup {0} \subseteq DOMAIN s.node
BY DEF Stage, IsStore, Held

(* One exchange more.                                                      *)
LEMMA ExchangeMore ==
  ASSUME NEW s, NEW h, NEW q, AfterExchanges(s, h, q),
         NEW r \in DOMAIN q.space, r + 1 \in DOMAIN q.space
  PROVE  AfterExchanges(s, h, SwapRanks(q, r))
<1>1. PICK g : g = SwapRanks(q, r)  OBVIOUS
<1>2. WellKept(q, h) /\ Numbered(q) /\ CacheAs(s, q) /\ Diagram(q)
  BY DEF AfterExchanges, WellKept
<1>3. Exchanges(q, h, r, g)  BY <1>1, <1>2, SwapRanksSound
<1>4. CacheAs(q, g) /\ DOMAIN g.space = DOMAIN q.space /\ DOMAIN g.rank = DOMAIN q.rank
  BY <1>1, <1>2, SwapLeaves
<1>5. Numbered(g)  BY <1>2, <1>4 DEF Numbered
<1>6. CacheAs(s, g)  BY <1>2, <1>4, CacheAsChain
<1>7. ASSUME NEW x, NEW I, NEW J, Reads(s.node, Nodes(s), x, I), Reads(g.node, Nodes(g), x, J)
      PROVE  Agree(Held(h) \cup {0}, I, J)
  <2>1. PICK K : Reads(q.node, Nodes(q), x, K)  BY <1>2, ReadingExists
  <2>2. Agree(Held(h) \cup {0}, I, K)  BY <1>7, <2>1 DEF AfterExchanges
  <2>3. Agree(Held(h) \cup {0}, K, J)  BY <1>3, <1>7, <2>1 DEF Exchanges
  <2> QED BY <2>2, <2>3 DEF Agree
<1>8. WellKept(g, h)  BY <1>3 DEF Exchanges
<1> QED BY <1>1, <1>5, <1>6, <1>7, <1>8 DEF AfterExchanges

(* Before the first one.                                                   *)
LEMMA ExchangedNone ==
  ASSUME NEW s, NEW h, WellKept(s, h), Numbered(s)
  PROVE  AfterExchanges(s, h, s)
<1>1. Diagram(s) /\ Held(h) \cup {0} \subseteq DOMAIN s.node
  BY HeldInside DEF WellKept
<1>2. ASSUME NEW x, NEW I, NEW J, Reads(s.node, Nodes(s), x, I), Reads(s.node, Nodes(s), x, J)
      PROVE  Agree(Held(h) \cup {0}, I, J)
  <2>1. Agree(DOMAIN s.node, I, J)  BY <1>1, <1>2, ReadingUnique
  <2> QED BY <1>1, <2>1 DEF Agree
<1> QED BY <1>2, CacheAsSame DEF AfterExchanges

(* Any number of exchanges, one after the other.                           *)
LEMMA ExchangesKeep ==
  ASSUME NEW s, NEW h, WellKept(s, h), Numbered(s), NEW q, Exchanging(s, q)
  PROVE  AfterExchanges(s, h, q)
<1>0. PICK n \in Nat : \E t :
        /\ t[0] = s /\ t[n] = q
        /\ \A k \in 1 .. n : \E r \in DOMAIN t[k - 1].space :
             r + 1 \in DOMAIN t[k - 1].space /\ t[k] = SwapRanks(t[k - 1], r)
  BY DEF Exchanging
<1>1. PICK t :
        /\ t[0] = s /\ t[n] = q
        /\ \A k \in 1 .. n : \E r \in DOMAIN t[k - 1].space :
             r + 1 \in DOMAIN t[k - 1].space /\ t[k] = SwapRanks(t[k - 1], r)
  BY <1>0
<1>2. AfterExchanges(s, h, t[0])  BY <1>1, ExchangedNone
<1>3. ASSUME NEW k \in 1 .. n, AfterExchanges(s, h, t[k - 1]) PROVE AfterExchanges(s, h, t[k])
  <2>1. PICK r \in DOMAIN t[k - 1].space :
          r + 1 \in DOMAIN t[k - 1].space /\ t[k] = SwapRanks(t[k - 1], r)
    BY <1>1
  <2> QED BY <1>3, <2>1, ExchangeMore
<1> DEFINE Bad == {k \in 1 .. n : ~AfterExchanges(s, h, t[k])}
<1>4. Bad = {}
  <2> SUFFICES ASSUME Bad # {} PROVE FALSE  OBVIOUS
  <2>1. PICK i \in Bad : \A j \in Bad : i <= j
    <3>1. Bad \in SUBSET (1 .. n)  OBVIOUS
    <3> HIDE DEF Bad
    <3> QED BY <3>1, LeastElement
  <2>2. i \in 1 .. n /\ ~AfterExchanges(s, h, t[i])  BY <2>1
  <2>3. AfterExchanges(s, h, t[i - 1])
    <3>1. CASE i = 1
      <4>1. i - 1 = 0  BY <3>1
      <4> QED BY <1>2, <4>1
    <3>2. CASE i # 1
      <4>1. i - 1 \in 1 .. n /\ ~(i <= i - 1)  BY <2>2, <3>2
      <4> QED BY <2>1, <4>1
    <3> QED BY <3>1, <3>2
  <2> QED BY <1>3, <2>2, <2>3
<1> QED
  <2>1. CASE n = 0  BY <1>1, <1>2, <2>1
  <2>2. CASE n # 0
    <3>1. n \in 1 .. n  BY <2>2
    <3> QED BY <1>1, <1>4, <3>1
  <2> QED BY <2>1, <2>2

(* Functions of the edges held, in stores whose readings agree on them.    *)
LEMMA FunctionAgrees ==
  ASSUME NEW s, NEW q, Diagram(s), Diagram(q), NEW D,
         D \subseteq DOMAIN s.node, D \subseteq DOMAIN q.node,
         \A x, I, J : Reads(s.node, Nodes(s), x, I) /\ Reads(q.node, Nodes(q), x, J) =>
           Agree(D, I, J),
         NEW e \in Edge, Ptr(e) \in D
  PROVE  Function(q, e) = Function(s, e)
<1>1. Ptr(e) \in DOMAIN s.node /\ Ptr(e) \in DOMAIN q.node  OBVIOUS
<1>2. ASSUME NEW x \in Valuations
      PROVE  \E T : Reads(q.node, Nodes(q), x, T) /\ (x \in Function(s, e) <=> Holds(T, e))
  <2>1. PICK I : Reads(s.node, Nodes(s), x, I)  BY ReadingExists
  <2>2. PICK T : Reads(q.node, Nodes(q), x, T)  BY ReadingExists
  <2>3. Holds(T, e) <=> Holds(I, e)
    <3>1. Ptr(e) \in T <=> Ptr(e) \in I  BY <2>1, <2>2 DEF Agree
    <3> QED BY <3>1 DEF Holds
  <2>4. x \in Function(s, e) <=> Holds(I, e)  BY <1>1, <2>1, FunctionTells
  <2> QED BY <2>2, <2>3, <2>4
<1>3. Function(s, e) \in SUBSET Valuations  BY <1>1, FunctionTells
<1> QED BY <1>1, <1>2, <1>3, FunctionTold

(* A cache that is empty is right.                                         *)
LEMMA ClearedRight ==
  ASSUME NEW s, "cache" \in DOMAIN s,
         CacheSize(s) \in Nat \ {0}, DOMAIN s.cache = 0 .. CacheSize(s) - 1
  PROVE  CacheRight(ClearComputedTable(s))
<1> DEFINE c == [i \in DOMAIN s.cache |-> NoEntry]
           q == ClearComputedTable(s)
<1>1. q.cache = c /\ DOMAIN q = DOMAIN s
  <2>1. q = [s EXCEPT !.cache = c]  BY TableSame DEF ClearComputedTable
  <2> HIDE DEF c
  <2> QED BY <2>1
<1> HIDE DEF q
<1>2. NoEntry \in Entry /\ NoEntry.R = VOID  BY DEF NoEntry, Entry, VOID
<1>3. DOMAIN q.cache = DOMAIN s.cache /\ \A i \in DOMAIN s.cache : q.cache[i] = NoEntry
  BY <1>1
<1>4. q.cache \in [DOMAIN q.cache -> Entry]  BY <1>1, <1>2
<1>5. CacheSize(q) = CacheSize(s)  BY <1>3 DEF CacheSize
<1>6. \A i \in DOMAIN q.cache : EntryRight(q, q.cache[i])
  BY <1>2, <1>3 DEF EntryRight
<1>7. CacheRight(q)  BY <1>1, <1>3, <1>4, <1>5, <1>6 DEF CacheRight
<1> QED BY <1>7 DEF q

(* The collection before the exchanges.                                    *)
LEMMA TidyKeeps ==
  ASSUME NEW s, NEW h, Kept(s, h), Numbered(s)
  PROVE  LET t == Tidy(s)
         IN /\ WellKept(t, h) /\ Numbered(t) /\ CacheAs(s, t)
            /\ \A x, I, J : Reads(s.node, Nodes(s), x, I) /\ Reads(t.node, Nodes(t), x, J) =>
                 Agree(Held(h) \cup {0}, I, J)
<1>1. Stage(s, Live(s), h) /\ Diagram(s) /\ Counted(s)  BY DEF Kept, Stage
<1>2. Tidy(s) = Sweep(s)
  <2>1. Cardinality(WithCount(s.node, 0)) \in Nat
    <3>1. IsFiniteSet(WithCount(s.node, 0))
      <4>1. IsFiniteSet(DOMAIN s.node)  BY <1>1, StageFacts
      <4> QED BY <4>1, FS_Subset DEF WithCount
    <3> QED BY <3>1, FS_CardinalityType
  <2>2. s.dead > 0  BY <1>1, <2>1 DEF Counted
  <2> QED BY <2>2 DEF Tidy
<1>3. PICK t : t = Sweep(s)  OBVIOUS
<1>4. /\ WellKept(t, h) /\ SameOrder(s, t) /\ Held(h) \cup {0} \subseteq DOMAIN t.node
      /\ \A x, I : Reads(s.node, Live(s), x, I) <=> Reads(t.node, Nodes(t), x, I)
  BY <1>3, SweepKeeps DEF Collects
<1>5. Numbered(t)  BY <1>4 DEF Numbered, SameOrder
<1>6. CacheAs(s, t)
  <2> DEFINE gone == {n \in Nodes(s) : s.node[n].ref = 0}
             nd == Table([n \in DOMAIN s.node \ gone |-> s.node[n]])
             d == s.dead - Cardinality(gone)
             q == [s EXCEPT !.node = nd, !.dead = d]
             l == Table([v \in DOMAIN q.log |->
                     IF Underloaded(q, v) THEN ShrunkLog(q.log[v]) ELSE q.log[v]])
             g == [q EXCEPT !.log = l]
  <2>1. t = g  BY <1>3 DEF Sweep
  <2> HIDE DEF nd, d, l
  <2>2. CacheAs(s, q)  BY DEF CacheAs, SameCache
  <2> HIDE DEF q
  <2>3. CacheAs(q, g)  BY DEF CacheAs, SameCache
  <2> HIDE DEF g
  <2> QED BY <2>1, <2>2, <2>3, CacheAsChain
<1>7. ASSUME NEW x, NEW I, NEW J, Reads(s.node, Nodes(s), x, I), Reads(t.node, Nodes(t), x, J)
      PROVE  Agree(Held(h) \cup {0}, I, J)
  <2>1. Live(s) \subseteq Nodes(s)  BY DEF Live
  <2>2. Reads(s.node, Live(s), x, I)  BY <1>7, <2>1 DEF Reads
  <2>3. Reads(t.node, Nodes(t), x, I)  BY <1>4, <2>2
  <2>4. Agree(DOMAIN t.node, I, J)
    <3>1. Diagram(t)  BY <1>4 DEF WellKept
    <3> QED BY <1>7, <2>3, <3>1, ReadingUnique
  <2> QED BY <1>4, <2>4 DEF Agree
<1> QED BY <1>2, <1>3, <1>4, <1>5, <1>6, <1>7

(* bdd_dynamic_order, whatever exchanges it makes.                         *)
LEMMA ReordersRight ==
  ASSUME NEW s, NEW hd, Right(s, hd), NEW q, Reorders(s, q)
  PROVE  Right(q, hd) /\ SameFunctions(s, q, hd)
<1> DEFINE h == References(hd)
<1>1. IsHeld(hd) /\ Kept(s, h) /\ CacheRight(s) /\ Numbered(s) /\ Diagram(s)
  BY DEF Right, Kept
<1>2. \A i \in DOMAIN hd : hd[i] \in Edge /\ Ptr(hd[i]) \in Held(h)
  BY <1>1, ReferencesNat DEF IsHeld, Held
<1> HIDE DEF h
<1>3. PICK t, g : Exchanging(Tidy(s), t) /\ q = ClearComputedTable([t EXCEPT !.groups = g])
  BY DEF Reorders
<1>4. PICK a : a = Tidy(s)  OBVIOUS
<1>5. /\ WellKept(a, h) /\ Numbered(a) /\ CacheAs(s, a)
      /\ \A x, I, J : Reads(s.node, Nodes(s), x, I) /\ Reads(a.node, Nodes(a), x, J) =>
           Agree(Held(h) \cup {0}, I, J)
  BY <1>1, <1>4, TidyKeeps
<1>6. AfterExchanges(a, h, t)  BY <1>3, <1>4, <1>5, ExchangesKeep
<1>7. WellKept(t, h) /\ Numbered(t) /\ CacheAs(a, t) /\ Diagram(t) /\ Stage(t, Nodes(t), h)
  BY <1>6 DEF AfterExchanges, WellKept
<1>8. CacheAs(s, t)  BY <1>5, <1>7, CacheAsChain
<1>9. Kept(t, h)
  <2>1. Live(t) = Nodes(t)  BY <1>7 DEF WellKept, Live
  <2> QED BY <1>7, <2>1 DEF Kept
<1> DEFINE b == [t EXCEPT !.groups = g]
<1>10. SameStore(t, b) /\ CacheAs(t, b) /\ IsStore(t)
  <2>1. IsStore(t)  BY <1>7 DEF Stage
  <2> QED BY <2>1 DEF SameStore, SameOrder, CacheAs, SameCache, IsStore
<1>11. "cache" \in DOMAIN b /\ CacheSize(b) \in Nat \ {0} /\ DOMAIN b.cache = 0 .. CacheSize(b) - 1
  <2>1. CacheAs(s, b)  BY <1>8, <1>10, CacheAsChain
  <2>2. "cache" \in DOMAIN b /\ b.cache = s.cache  BY <1>1, <2>1 DEF CacheAs, SameCache, CacheRight
  <2> QED BY <1>1, <2>2 DEF CacheRight, CacheSize
<1> HIDE DEF b
<1>12. Kept(b, h)  BY <1>9, <1>10, SameStoreKept
<1>13. CacheRight(q)  BY <1>3, <1>11, ClearedRight DEF b
<1>14. SameStore(b, q)
  <2>1. IsStore(b)  BY <1>12 DEF Kept, Diagram
  <2> DEFINE c == Table([i \in DOMAIN b.cache |-> NoEntry])
  <2>2. q = [b EXCEPT !.cache = c]  BY <1>3 DEF ClearComputedTable, b
  <2> HIDE DEF c
  <2> QED BY <2>1, <2>2, CacheFields
<1>15. Kept(q, h)  BY <1>12, <1>14, SameStoreKept
<1>16. /\ q.node = t.node /\ q.space = t.space /\ q.rank = t.rank
  BY <1>10, <1>14 DEF SameStore, SameOrder
<1>17. Numbered(q)  BY <1>7, <1>16 DEF Numbered
<1>18. ASSUME NEW x, NEW I, NEW J, Reads(s.node, Nodes(s), x, I), Reads(q.node, Nodes(q), x, J)
       PROVE  Agree(Held(h) \cup {0}, I, J)
  <2>1. Reads(t.node, Nodes(t), x, J)  BY <1>16, <1>18 DEF Nodes
  <2>2. PICK K : Reads(a.node, Nodes(a), x, K)  BY <1>5, ReadingExists DEF WellKept
  <2>3. Agree(Held(h) \cup {0}, I, K)  BY <1>5, <1>18, <2>2
  <2>4. Agree(Held(h) \cup {0}, K, J)  BY <1>6, <2>1, <2>2 DEF AfterExchanges
  <2> QED BY <2>3, <2>4 DEF Agree
<1>19. SameFunctions(s, q, hd)
  <2>1. Diagram(q) /\ Held(h) \cup {0} \subseteq DOMAIN q.node
    BY <1>15, HeldInside DEF Kept
  <2>2. Held(h) \cup {0} \subseteq DOMAIN s.node  BY <1>1, HeldInside DEF Kept
  <2>3. \A e \in Edge : Ptr(e) \in Held(h) \cup {0} => Function(q, e) = Function(s, e)
    BY <1>1, <1>18, <2>1, <2>2, FunctionAgrees
  <2> QED BY <1>2, <2>3 DEF SameFunctions
<1> QED BY <1>1, <1>13, <1>15, <1>17, <1>19 DEF Right, h

------------------------------------------------------------------------------
(* bdd_ite.                                                                *)

(* Its static variables, and the groups, are apart from the diagram.       *)
Statics(s, q) ==
  \/ q = s
  \/ \E a : q \in {[s EXCEPT !.history = a], [s EXCEPT !.threshold = a], [s EXCEPT !.groups = a]}
  \/ \E a, b : q = [s EXCEPT !.history = a, !.threshold = b]

(* What is right stays so when only these change.                          *)
LEMMA StaticsApart ==
  ASSUME NEW s, NEW hd, Right(s, hd), NEW q, Statics(s, q)
  PROVE  /\ Right(q, hd) /\ (\A e : Function(q, e) = Function(s, e))
         /\ (\A e : InUse(s, e) => InUse(q, e)) /\ SameFunctions(s, q, hd)
<1>1. IsStore(s)  BY DEF Right, Kept, Stage
<1>2. SameStore(s, q) /\ SameCache(s, q)
  BY <1>1 DEF Statics, SameStore, SameOrder, SameCache, IsStore
<1>3. /\ Right(q, hd) /\ (\A e : Function(q, e) = Function(s, e))
      /\ \A e : InUse(s, e) => InUse(q, e)
  BY <1>2, FieldsApart
<1> QED BY <1>3 DEF SameFunctions

(* Steps that keep the functions of the edges held keep them together.     *)
LEMMA SameFunctionsChain ==
  ASSUME NEW s, NEW q, NEW p, NEW hd, SameFunctions(s, q, hd), SameFunctions(q, p, hd)
  PROVE  SameFunctions(s, p, hd)
BY DEF SameFunctions

(* What bdd_ite does after its result is there.                            *)
LEMMA EndsRight ==
  ASSUME NEW s, NEW hd, Right(s, hd), NEW q, EndsIte(s, q)
  PROVE  Right(q, hd) /\ SameFunctions(s, q, hd)
<1>1. CASE s.history < 0
  <2>1. q = [s EXCEPT !.history = Alive(s)]  BY <1>1 DEF EndsIte
  <2>2. Statics(s, q)  BY <2>1 DEF Statics
  <2> QED BY <2>2, StaticsApart
<1>2. CASE ~(s.history < 0)
  <2> DEFINE t == LowerThreshold(s)
             alive == Alive(s)
             doubled == 10 * Alive(s) > 19 * (s.history + 1)
  <2>1. Judges(t, alive, doubled, q)  BY <1>2 DEF EndsIte
  <2>2. Right(t, hd) /\ SameFunctions(s, t, hd)
    <3> DEFINE b == MaxOf(DynaThreshold, 2 * Alive(s))
    <3>1. t \in {s, [s EXCEPT !.threshold = b]}  BY DEF LowerThreshold
    <3> HIDE DEF b, t
    <3>2. Statics(s, t)  BY <3>1 DEF Statics
    <3> QED BY <3>2, StaticsApart
  <2> HIDE DEF t, alive, doubled
  <2>3. CASE q = [t EXCEPT !.history = alive]
    <3>0. Statics(t, q)  BY <2>3 DEF Statics
    <3>1. Right(q, hd) /\ SameFunctions(t, q, hd)  BY <2>2, <3>0, StaticsApart
    <3> QED BY <2>2, <3>1, SameFunctionsChain
  <2>4. CASE \E u : DynamicOrders(t, u) /\ q = Reordered(u, alive, doubled)
    <3>1. PICK u : DynamicOrders(t, u) /\ q = Reordered(u, alive, doubled)  BY <2>4
    <3>2. Right(u, hd) /\ SameFunctions(t, u, hd)
      <4>1. CASE u = t  BY <2>2, <4>1 DEF SameFunctions
      <4>2. CASE Reorders(t, u)  BY <2>2, <4>2, ReordersRight
      <4> QED BY <3>1, <4>1, <4>2 DEF DynamicOrders
    <3>3. Right(q, hd) /\ SameFunctions(u, q, hd)
      <4> DEFINE b == IF doubled THEN u.threshold ELSE Raised(NrItems(u), alive, Alive(u))
      <4>1. q = [u EXCEPT !.history = alive, !.threshold = b]  BY <3>1 DEF Reordered
      <4> HIDE DEF b
      <4>2. Statics(u, q)  BY <4>1 DEF Statics
      <4> QED BY <3>2, <4>2, StaticsApart
    <3> QED BY <2>2, <3>2, <3>3, SameFunctionsChain
  <2> QED BY <2>1, <2>3, <2>4 DEF Judges
<1> QED BY <1>1, <1>2

(* The value of an if-then-else of functions.                              *)
LEMMA IteFunction ==
  ASSUME NEW s, NEW h, Kept(s, h), NEW y, IsTriple(y), TripleInUse(s, y),
         NEW p, Delivers(s, h, y, p)
  PROVE  Function(p.s, p.r) =
           Functions!Ite(Function(s, y.f), Function(s, y.g), Function(s, y.h))
<1> DEFINE m == Functions!Ite(Function(s, y.f), Function(s, y.g), Function(s, y.h))
<1>1. Diagram(s) /\ 0 \in DOMAIN s.node  BY DEF Kept, Diagram, IsStore
<1>2. \A e : InUse(s, e) => e \in Edge /\ Ptr(e) \in DOMAIN s.node
  BY <1>1 DEF InUse, Live, Nodes
<1>3. \A e \in {y.f, y.g, y.h} :
        /\ Function(s, e) \in SUBSET Valuations
        /\ \A x \in Valuations : \A T : Reads(s.node, Nodes(s), x, T) =>
             (x \in Function(s, e) <=> Holds(T, e))
  BY <1>1, <1>2, FunctionTells DEF TripleInUse
<1>4. Diagram(p.s) /\ p.r \in Edge /\ Ptr(p.r) \in DOMAIN p.s.node
  <2>1. Owned(s, h, p)  BY DEF Delivers
  <2> QED BY <2>1, OwnedInUse DEF Owned, Kept
<1>5. m \in SUBSET Valuations
      /\ \A x : x \in m <=> IF x \in Function(s, y.f) THEN x \in Function(s, y.g)
                                                      ELSE x \in Function(s, y.h)
  BY <1>3 DEF Functions!Ite
<1> HIDE DEF m
<1>6. ASSUME NEW x \in Valuations
      PROVE  \E J : Reads(p.s.node, Nodes(p.s), x, J) /\ (x \in m <=> Holds(J, p.r))
  <2>1. PICK I : Reads(s.node, Nodes(s), x, I)  BY <1>1, ReadingExists
  <2>2. PICK J : Reads(p.s.node, Nodes(p.s), x, J)  BY <1>4, ReadingExists
  <2>3. Holds(J, p.r) <=> Means(I, y)  BY <2>1, <2>2 DEF Delivers
  <2>4. x \in m <=> Means(I, y)  BY <1>3, <1>5, <2>1 DEF Means
  <2> QED BY <2>2, <2>3, <2>4
<1>7. Function(p.s, p.r) = m  BY <1>4, <1>5, <1>6, FunctionTold
<1> QED BY <1>7 DEF m

(* The whole of bdd_ite, with the reordering that it may set off.          *)
LEMMA IteReceived ==
  ASSUME NEW s, NEW hd, Right(s, hd), NEW f, InUse(s, f), NEW g, InUse(s, g), NEW k, InUse(s, k),
         NEW q, NEW e, IteGives(s, f, g, k, q, e),
         NEW i, i \notin DOMAIN hd, NEW w, More(hd, i, e, w)
  PROVE  /\ Right(q, w) /\ SameFunctions(s, q, hd)
         /\ Function(q, e) = Functions!Ite(Function(s, f), Function(s, g), Function(s, k))
<1> DEFINE h == References(hd)
           y == Triple(f, g, k)
<1>0. PICK C, p : /\ IteRun(C) /\ IteCall(FirstCall(s), Triple(f, g, k), p) \in C
                  /\ EndsIte(p.s, q) /\ e = p.r
  BY DEF IteGives
<1>1. PICK t : t = FirstCall(s)  OBVIOUS
<1>2. /\ Right(t, hd) /\ (\A c : Function(t, c) = Function(s, c))
      /\ (\A c : InUse(s, c) => InUse(t, c)) /\ SameFunctions(s, t, hd)
  <2> DEFINE a == Alive(s)
  <2>1. t \in {s, [s EXCEPT !.history = a]}  BY <1>1 DEF FirstCall
  <2> HIDE DEF a
  <2>2. Statics(s, t)  BY <2>1 DEF Statics
  <2> QED BY <2>2, StaticsApart
<1>3. f \in Edge /\ g \in Edge /\ k \in Edge  BY DEF InUse
<1>4. IsTriple(y) /\ y.f = f /\ y.g = g /\ y.h = k  BY <1>3, TripleFacts
<1>5. IteRun(C) /\ IteCall(t, y, p) \in C  BY <1>0, <1>1
<1> HIDE DEF h, y
<1>6. TripleInUse(t, y)  BY <1>2, <1>4 DEF TripleInUse
<1>7. Kept(t, h) /\ CacheRight(t)  BY <1>2 DEF Right, h
<1>8. Delivers(t, h, y, p) /\ CacheRight(p.s)  BY <1>4, <1>5, <1>6, <1>7, IteRight
<1>9. Function(p.s, p.r) = Functions!Ite(Function(s, f), Function(s, g), Function(s, k))
  <2>1. Function(p.s, p.r) = Functions!Ite(Function(t, y.f), Function(t, y.g), Function(t, y.h))
    BY <1>4, <1>6, <1>7, <1>8, IteFunction
  <2> QED BY <1>2, <1>4, <2>1
<1>10. Owned(t, h, p)  BY <1>8 DEF Delivers
<1>11. Right(p.s, w) /\ SameFunctions(t, p.s, hd)  BY <1>0, <1>2, <1>8, <1>10, Received DEF h
<1>12. Right(q, w) /\ SameFunctions(p.s, q, w)  BY <1>0, <1>11, EndsRight
<1>13. i \in DOMAIN w /\ w[i] = p.r /\ \A j \in DOMAIN hd : j \in DOMAIN w /\ w[j] = hd[j]
  BY <1>0 DEF More, With
<1>14. Function(q, p.r) = Function(p.s, p.r) /\ SameFunctions(p.s, q, hd)
  BY <1>12, <1>13 DEF SameFunctions
<1> QED BY <1>0, <1>2, <1>9, <1>11, <1>12, <1>14, SameFunctionsChain

------------------------------------------------------------------------------
(* References given up, and collections.                                   *)

(* bdd_free.                                                               *)
LEMMA GivenBack ==
  ASSUME NEW s, NEW hd, Right(s, hd), NEW i \in DOMAIN hd,
         NEW q, FreeGives(s, hd[i], q), NEW w, w = Without(hd, i)
  PROVE  Right(q, w) /\ SameFunctions(s, q, hd)
<1> DEFINE h == References(hd)
           e == hd[i]
           g == Less(h, Ptr(e))
<1>1. IsHeld(hd) /\ Kept(s, h) /\ CacheRight(s) /\ Numbered(s) /\ Diagram(s) /\ IsStore(s)
  BY DEF Right, Kept, Diagram
<1>2. e \in Edge /\ h[Ptr(e)] > 0  BY <1>1, ReferencesNat DEF IsHeld
<1>3. IsHeld(w) /\ References(w) = g  BY <1>1, ReferencesLess
<1>4. \A j \in DOMAIN hd : InUse(s, hd[j]) /\ hd[j] \in Edge /\ Ptr(hd[j]) \in DOMAIN s.node
  BY HandleInUse
<1> HIDE DEF h, e, g
<1>5. PICK C : FreeRun(C) /\ Visit(s, e, q) \in C  BY DEF FreeGives, e
<1>6. Recounts(s, q, g) /\ SameCache(s, q)
  <2>1. Recounts(s, q, Less(h, Ptr(e))) /\ SameCache(s, q)  BY <1>1, <1>2, <1>5, FreeReleases
  <2> QED BY <2>1 DEF g
<1>7. /\ Kept(q, g) /\ SameLinks(s, q) /\ Diagram(q) /\ SameOrder(s, q)
      /\ DOMAIN q.node = DOMAIN s.node /\ \A m \in DOMAIN s.node : SameLink(q.node[m], s.node[m])
      /\ \A x, I : Reads(q.node, Nodes(q), x, I) <=> Reads(s.node, Nodes(s), x, I)
  BY <1>6 DEF Recounts, SameLinks, Kept
<1>8. CacheRight(q)
  <2>1. "cache" \in DOMAIN q  BY <1>1, <1>7 DEF CacheRight, SameOrder
  <2> QED BY <1>1, <1>6, <1>7, <2>1, CacheKeeps
<1>9. Numbered(q)  BY <1>1, <1>7 DEF Numbered, SameOrder
<1>10. SameFunctions(s, q, hd)
  <2>1. \A x, I, J : Reads(s.node, Nodes(s), x, I) /\ Reads(q.node, Nodes(q), x, J) =>
          Agree(DOMAIN s.node, I, J)
    BY <1>1, <1>7, ReadingUnique
  <2>2. DOMAIN s.node \subseteq DOMAIN q.node  BY <1>7
  <2>3. \A a \in Edge : Ptr(a) \in DOMAIN s.node => Function(q, a) = Function(s, a)
    BY <1>1, <1>7, <2>1, <2>2, FunctionAgrees
  <2> QED BY <1>4, <2>3 DEF SameFunctions
<1> QED BY <1>3, <1>7, <1>8, <1>9, <1>10 DEF Right

(* bdd_freeze: a count that is never touched again.                        *)
LEMMA FrozenRight ==
  ASSUME NEW s, NEW hd, Right(s, hd), NEW i \in DOMAIN hd, NEW q, q = Freeze(s, hd[i])
  PROVE  Right(q, hd) /\ SameFunctions(s, q, hd)
<1> DEFINE h == References(hd)
<1>1. /\ IsHeld(hd) /\ Kept(s, h) /\ CacheRight(s) /\ Numbered(s) /\ Diagram(s) /\ IsStore(s)
      /\ Stage(s, Live(s), h) /\ h \in [Nat -> Nat]
  BY DEF Right, Kept, Diagram, Stage
<1>2. PICK e : e = hd[i]  OBVIOUS
<1>3. e \in Edge /\ Ptr(e) \in DOMAIN s.node /\ e # VOID /\ InUse(s, e)
  BY <1>2, HandleInUse, EdgeFacts
<1>4. \A j \in DOMAIN hd : hd[j] \in Edge /\ Ptr(hd[j]) \in DOMAIN s.node
  BY HandleInUse
<1>4a. h[Ptr(e)] > 0  BY <1>1, <1>2, ReferencesNat
<1> HIDE DEF h
<1>5. CASE Frozen(s, e)
  <2>1. q = s  BY <1>2, <1>5 DEF Freeze
  <2> QED BY <2>1 DEF SameFunctions
<1>6. CASE ~Frozen(s, e)
  <2> DEFINE old == s.node[Ptr(e)].ref
             d == OneIf(MaxRef = 0) - OneIf(old = 0)
             f == OneIf(MaxRef = MaxRef) - OneIf(old = MaxRef)
             c == CountSet(s, e, MaxRef)
  <2>1. MaxRef \in 0 .. MaxRef /\ MaxRef # 0  BY StoreConstants DEF StoreConstants
  <2>2. Stage(c, Live(s), h) /\ SameLinks(s, c) /\ c.node[Ptr(e)].ref = MaxRef
        /\ \A m \in DOMAIN s.node \ {Ptr(e)} : c.node[m].ref = s.node[m].ref
    BY <1>1, <1>3, <2>1, SetCount
  <2>3. old > 0
    <3>1. old \in 0 .. MaxRef /\ s.node[Ptr(e)].ref > 0
      BY <1>1, <1>3, <1>4a, HeldInUse, EdgeFacts, StageFacts
    <3> QED BY <3>1
  <2>4. d = 0 /\ f = 1
    <3>1. old # MaxRef  BY <1>6 DEF Frozen, Ref, At
    <3> QED BY <2>1, <2>3, <3>1 DEF OneIf
  <2>5. q = c
    <3>0. ~Dead(s, e)  BY <2>3 DEF Dead, Ref, At
    <3>1. q = [s EXCEPT !.node[Ptr(e)].ref = MaxRef, !.dead = s.dead, !.frozen = s.frozen + 1]
      BY <1>2, <1>3, <1>6, <3>0 DEF Freeze
    <3>2. s.dead + 0 = s.dead  BY <1>1 DEF IsStore
    <3>3. c = WithRef(s, e, MaxRef, d, f)  BY DEF CountSet
    <3>4. WithRef(s, e, MaxRef, 0, 1)
            = [s EXCEPT !.node[Ptr(e)].ref = MaxRef, !.dead = s.dead + 0, !.frozen = s.frozen + 1]
      BY DEF WithRef
    <3> HIDE DEF c, d, f
    <3> QED BY <2>4, <3>1, <3>2, <3>3, <3>4
  <2>6. Live(q) = Live(s)
    <3>1. DOMAIN q.node = DOMAIN s.node  BY <2>2, <2>5 DEF SameLinks
    <3>2. \A m \in DOMAIN s.node : q.node[m].ref > 0 <=> s.node[m].ref > 0
      <4>1. MaxRef > 0  BY <2>1
      <4>2. /\ q.node[Ptr(e)].ref > 0 /\ s.node[Ptr(e)].ref > 0
            /\ \A m \in DOMAIN s.node \ {Ptr(e)} : q.node[m].ref = s.node[m].ref
        BY <2>2, <2>3, <2>5, <4>1
      <4> SUFFICES ASSUME NEW m \in DOMAIN s.node
                   PROVE  q.node[m].ref > 0 <=> s.node[m].ref > 0
        OBVIOUS
      <4>3. CASE m = Ptr(e)  BY <4>2, <4>3
      <4>4. CASE m # Ptr(e)  BY <4>2, <4>4
      <4> QED BY <4>3, <4>4
    <3> QED BY <3>1, <3>2 DEF Live, Nodes
  <2>7. /\ SameLinks(s, q) /\ SameOrder(s, q) /\ DOMAIN q.node = DOMAIN s.node
        /\ \A m \in DOMAIN s.node : SameLink(q.node[m], s.node[m])
    BY <2>2, <2>5 DEF SameLinks
  <2>8. /\ Diagram(q)
        /\ \A x, I : Reads(q.node, Nodes(q), x, I) <=> Reads(s.node, Nodes(s), x, I)
    <3>1. IsStore(q)  BY <2>2, <2>5 DEF Stage
    <3> QED BY <1>1, <2>7, <3>1, DiagramSame
  <2>9. Kept(q, h)  BY <2>2, <2>5, <2>6, <2>8 DEF Kept
  <2>10. CacheRight(q)
    <3>1. SameCache(s, c)
      <4> DEFINE nd == [s.node EXCEPT ![Ptr(e)].ref = MaxRef]
                 a == s.dead + d
                 b == s.frozen + f
      <4>1. c = [s EXCEPT !.node = nd, !.dead = a, !.frozen = b]  BY DEF CountSet, WithRef
      <4> HIDE DEF nd, a, b, c
      <4> QED BY <4>1 DEF SameCache
    <3>2. "cache" \in DOMAIN q  BY <1>1, <2>7 DEF CacheRight, SameOrder
    <3> QED BY <1>1, <2>5, <2>7, <2>8, <3>1, <3>2, CacheKeeps
  <2>11. Numbered(q)  BY <1>1, <2>7 DEF Numbered, SameOrder
  <2>12. SameFunctions(s, q, hd)
    <3>1. \A x, I, J : Reads(s.node, Nodes(s), x, I) /\ Reads(q.node, Nodes(q), x, J) =>
            Agree(DOMAIN s.node, I, J)
      BY <1>1, <2>8, ReadingUnique
    <3>2. \A a \in Edge : Ptr(a) \in DOMAIN s.node => Function(q, a) = Function(s, a)
      BY <1>1, <2>7, <2>8, <3>1, FunctionAgrees
    <3> QED BY <1>4, <3>2 DEF SameFunctions
  <2> QED BY <1>1, <2>9, <2>10, <2>11, <2>12 DEF Right, h
<1> QED BY <1>5, <1>6

(* bdd_gc.                                                                 *)
LEMMA Collected ==
  ASSUME NEW s, NEW hd, Right(s, hd), NEW q, q = Sweep(FlushComputedTable(s))
  PROVE  Right(q, hd) /\ SameFunctions(s, q, hd)
<1> DEFINE h == References(hd)
<1>1. IsHeld(hd) /\ Kept(s, h) /\ CacheRight(s) /\ Numbered(s)  BY DEF Right
<1> HIDE DEF h
<1>2. Kept(q, h) /\ CacheRight(q)  BY <1>1, CollectionKeepsCache
<1>3. Follows(s, q)
  <2>1. SameStore(Sweep(s), q)  BY <1>1, SweepAlike
  <2>2. Tidied(s, q)  BY <2>1 DEF Tidied
  <2> QED BY <1>1, <2>2, TidiedKept
<1>4. Numbered(q)  BY <1>1, <1>3 DEF Numbered, Follows, SameOrder
<1>5. SameFunctions(s, q, hd)
  BY <1>1, <1>2, <1>3, HandleInUse, FunctionFollows DEF SameFunctions
<1> QED BY <1>1, <1>2, <1>4, <1>5 DEF Right, h

------------------------------------------------------------------------------
(* The initial store.                                                      *)

(* The computed table has slots: 2^n is the number of subsets of 1 .. n.   *)
LEMMA Pow2Positive ==
  ASSUME NEW n \in Nat
  PROVE  Pow2(n) \in Nat \ {0}
<1>1. IsFiniteSet(1 .. n) /\ Cardinality(1 .. n) = n  BY FS_Interval
<1>2. IsFiniteSet(SUBSET (1 .. n)) /\ Cardinality(SUBSET (1 .. n)) = 2^n
  BY <1>1, FS_SUBSET
<1>3. 2^n \in Nat  BY <1>2, FS_CardinalityType
<1>4. {} \in SUBSET (1 .. n)  OBVIOUS
<1>5. 2^n # 0  BY <1>2, <1>4, FS_EmptySet
<1> QED BY <1>3, <1>5 DEF Pow2

(* The package as it is loaded, and a client that holds nothing.           *)
LEMMA InitRight ==
  ASSUME NEW hd, DOMAIN hd = {}, hd = [i \in {} |-> BDD_1]
  PROVE  Right(InitStore, hd)
<1> DEFINE h == References(hd)
           s == InitStore
<1>1. IsHeld(hd)
  <2>1. IsFiniteSet({})  BY FS_EmptySet
  <2> QED BY <2>1 DEF IsHeld
<1>2. h \in [Nat -> Nat] /\ \A n \in Nat : h[n] = 0
  <2>1. \A n \in Nat : HandlesOf(hd, n) = {}  BY DEF HandlesOf
  <2>2. \A n \in Nat : h[n] = 0  BY <1>1, <2>1, ReferencesNat, FS_EmptySet
  <2> QED BY <1>1, <2>2, ReferencesNat
<1> HIDE DEF h
<1>3. /\ DOMAIN s = {"node", "dead", "frozen", "space", "rank", "log", "groups", "cache", "sop",
                     "history", "threshold", "dynamic"}
      /\ s.node = [n \in {0} |-> [v |-> TERMID, t |-> VOID, e |-> VOID, ref |-> 0]]
      /\ s.dead = 2 /\ s.frozen = 0 /\ s.space = <<>> /\ s.rank = <<>>
      /\ s.cache = EmptyCache(CacheLog)
  BY DEF InitStore
<1> HIDE DEF s
<1>4. DOMAIN s.node = {0} /\ s.node[0] = [v |-> TERMID, t |-> VOID, e |-> VOID, ref |-> 0]
  BY <1>3
<1>5. MaxRef \in Nat /\ MaxRef # 0 /\ CacheLog \in Nat
  BY StoreConstants DEF StoreConstants
<1>6. IsFiniteSet({0}) /\ Cardinality({0}) = 1  BY FS_Singleton
<1>7. IsStore(s)
  <2>1. s.node[0] \in Node  BY <1>4, <1>5 DEF Node, TERMID, VOID
  <2>2. s.node \in [DOMAIN s.node -> Node]  BY <1>3, <1>4, <2>1
  <2> QED BY <1>3, <1>4, <1>6, <2>2 DEF IsStore
<1>8. Counted(s)
  <2>1. WithCount(s.node, 0) = {0} /\ WithCount(s.node, MaxRef) = {}
    BY <1>4, <1>5 DEF WithCount
  <2>2. Cardinality(WithCount(s.node, 0)) = 1  BY <1>6, <2>1
  <2>3. Cardinality(WithCount(s.node, MaxRef)) = 0  BY <2>1, FS_EmptySet
  <2> QED BY <1>3, <2>2, <2>3 DEF Counted
<1>9. Nodes(s) = {} /\ Live(s) = {}  BY <1>4 DEF Nodes, Live
<1>10. Stage(s, Live(s), h)
  <2>1. s.node[0].ref = h[0] + Uses(s.node, {}, 0)
    <3>1. Thens(s.node, {}, 0) = {} /\ Elses(s.node, {}, 0) = {}  BY DEF Thens, Elses
    <3>2. Cardinality(Thens(s.node, {}, 0)) = 0 /\ Cardinality(Elses(s.node, {}, 0)) = 0
      BY <3>1, FS_EmptySet
    <3>3. Uses(s.node, {}, 0) = 0  BY <3>2 DEF Uses
    <3> QED BY <1>2, <1>4, <3>3
  <2>2. Backed(s.node, {}, h)  BY <1>4, <2>1 DEF Backed
  <2>3. Linked(s.node, {})  BY DEF Linked
  <2> QED BY <1>2, <1>7, <1>8, <1>9, <2>2, <2>3 DEF Stage
<1>11. DOMAIN s.space = {} /\ DOMAIN s.rank = {}  BY <1>3
<1>12. Diagram(s)
  <2>1. Ranking(s)  BY <1>11 DEF Ranking
  <2>2. Distinct(s.node)  BY <1>4 DEF Distinct
  <2>3. Linked(s.node, {})  BY DEF Linked
  <2>4. s.node[0].v = TERMID  BY <1>4
  <2> QED BY <1>7, <1>9, <2>1, <2>2, <2>3, <2>4 DEF Diagram
<1>13. Numbered(s)
  <2>1. 0 .. 0 - 1 = {} /\ 0 \in Nat  OBVIOUS
  <2> QED BY <1>11, <2>1 DEF Numbered
<1>14. CacheRight(s)
  <2> DEFINE N == Pow2(CacheLog)
  <2>1. N \in Nat \ {0}  BY <1>5, Pow2Positive
  <2>2. s.cache = [i \in 0 .. N - 1 |-> NoEntry]  BY <1>3 DEF EmptyCache
  <2> HIDE DEF N
  <2>3. DOMAIN s.cache = 0 .. N - 1 /\ \A i \in 0 .. N - 1 : s.cache[i] = NoEntry
    BY <2>2
  <2>4. CacheSize(s) = N
    <3>1. Cardinality(0 .. N - 1) = N  BY <2>1, FS_Interval
    <3> QED BY <2>3, <3>1 DEF CacheSize
  <2>5. NoEntry \in Entry /\ NoEntry.R = VOID  BY DEF NoEntry, Entry, VOID
  <2>6. s.cache \in [DOMAIN s.cache -> Entry]  BY <2>2, <2>5
  <2>7. \A i \in DOMAIN s.cache : EntryRight(s, s.cache[i])
    BY <2>3, <2>5 DEF EntryRight
  <2> QED BY <1>3, <2>1, <2>3, <2>4, <2>6, <2>7 DEF CacheRight
<1>15. Kept(s, h)  BY <1>10, <1>12 DEF Kept
<1>16. Right(s, hd)  BY <1>1, <1>13, <1>14, <1>15 DEF Right, h
<1> QED BY <1>16 DEF s

------------------------------------------------------------------------------
(* What the client's functions are after a step.                           *)

(* The function that the abstract client holds.                            *)
Meaning(s, hd) == [i \in DOMAIN hd |-> Function(s, hd[i])]

(* Nothing that is held changed.                                           *)
LEMMA MeaningSame ==
  ASSUME NEW s, NEW q, NEW hd, SameFunctions(s, q, hd)
  PROVE  Meaning(q, hd) = Meaning(s, hd)
BY DEF Meaning, SameFunctions

(* A handle more.                                                          *)
LEMMA MeaningMore ==
  ASSUME NEW s, NEW q, NEW hd, SameFunctions(s, q, hd), NEW i, i \notin DOMAIN hd, NEW e,
         NEW w, More(hd, i, e, w)
  PROVE  Meaning(q, w) = With(Meaning(s, hd), i, Function(q, e))
<1>1. DOMAIN w = DOMAIN hd \cup {i} /\ w[i] = e /\ \A j \in DOMAIN hd : w[j] = hd[j]
  BY DEF More, With
<1>2. DOMAIN Meaning(s, hd) = DOMAIN hd /\ \A j \in DOMAIN hd : Meaning(s, hd)[j] = Function(s, hd[j])
  BY DEF Meaning
<1>3. Meaning(q, w) = [j \in DOMAIN hd \cup {i} |-> Function(q, w[j])]
  BY <1>1 DEF Meaning
<1>4. \A j \in DOMAIN hd \cup {i} :
        Function(q, w[j]) = IF j = i THEN Function(q, e) ELSE Meaning(s, hd)[j]
  BY <1>1, <1>2 DEF SameFunctions
<1> QED BY <1>2, <1>3, <1>4 DEF With

(* A handle less.                                                          *)
LEMMA MeaningLess ==
  ASSUME NEW s, NEW q, NEW hd, SameFunctions(s, q, hd), NEW i \in DOMAIN hd,
         NEW w, w = Without(hd, i)
  PROVE  Meaning(q, w) = Without(Meaning(s, hd), i)
<1>1. DOMAIN w = DOMAIN hd \ {i} /\ \A j \in DOMAIN hd \ {i} : w[j] = hd[j]
  BY DEF Without
<1>2. DOMAIN Meaning(s, hd) = DOMAIN hd /\ \A j \in DOMAIN hd : Meaning(s, hd)[j] = Function(s, hd[j])
  BY DEF Meaning
<1>3. Meaning(q, w) = [j \in DOMAIN hd \ {i} |-> Function(q, w[j])]
  BY <1>1 DEF Meaning
<1>4. \A j \in DOMAIN hd \ {i} : Function(q, w[j]) = Meaning(s, hd)[j]
  BY <1>1, <1>2 DEF SameFunctions
<1> QED BY <1>2, <1>3, <1>4 DEF Without

(* What the client may pass to an operation is known to the abstract one.  *)
LEMMA OperandKnown ==
  ASSUME Right(store, held), NEW e \in Operands
  PROVE  InUse(store, e) /\ Function(store, e) \in Functions!Known
<1>1. CASE \E i \in DOMAIN held : e = held[i]
  <2>1. PICK i \in DOMAIN held : e = held[i]  BY <1>1
  <2>2. InUse(store, e)  BY <2>1, HandleInUse
  <2>3. Function(store, e) \in Functions!Known  BY <2>1 DEF Functions!Known
  <2> QED BY <2>2, <2>3
<1>2. CASE e \in {BDD_1, BDD_0}
  <2>1. InUse(store, e)  BY <1>2, HandleInUse
  <2>2. Diagram(store)  BY DEF Right, Kept
  <2>3. Function(store, e) \in {Valuations, {}}  BY <1>2, <2>2, ConstantFunctions
  <2>4. Functions!Valuations = Valuations  BY DEF Functions!Valuations, Valuations
  <2>5. Function(store, e) \in Functions!Known  BY <2>3, <2>4 DEF Functions!Known
  <2> QED BY <2>1, <2>5
<1> QED BY <1>1, <1>2 DEF Operands

(* The client received an edge.                                            *)
LEMMA Gained ==
  ASSUME SameFunctions(store, store', held), NEW i \in Nat \ DOMAIN held, NEW e,
         More(held, i, e, held'), NEW m, Function(store', e) = m
  PROVE  Functions!Receive(m)
<1>1. Meaning(store', held') = With(Meaning(store, held), i, m)  BY MeaningMore
<1>2. DOMAIN Meaning(store, held) = DOMAIN held  BY DEF Meaning
<1>3. i \in Nat \ DOMAIN Meaning(store, held)  BY <1>2
<1> QED BY <1>1, <1>3 DEF Functions!Receive, Meaning, With

------------------------------------------------------------------------------
(* Every step of the client.                                               *)

(* bdd_create_var.                                                         *)
LEMMA MakeVarStep ==
  ASSUME Right(store, held), MakeVar
  PROVE  Right(store', held') /\ Functions!MakeVar
<1>0. PICK v \in Vars : \E o : VarGives(store, v, o) /\ Receive(o)  BY DEF MakeVar
<1>1. PICK o : VarGives(store, v, o) /\ Receive(o)  BY <1>0
<1>2. PICK i \in Nat \ DOMAIN held : held' = With(held, i, o.r) /\ store' = o.s
  BY <1>1 DEF Receive
<1>3. More(held, i, o.r, held') /\ i \notin DOMAIN held  BY <1>2 DEF More
<1> DEFINE m == LiteralFunction(v, BDD_1, BDD_0)
<1>4. /\ Right(o.s, held') /\ SameFunctions(store, o.s, held)
      /\ Function(o.s, o.r) = m
  BY <1>1, <1>3, LiteralReceived DEF VarGives
<1>5. Right(store', held') /\ Functions!Receive(m)  BY <1>2, <1>3, <1>4, Gained
<1>6. m = Functions!Variable(v)
  <2>1. BDD_1 # BDD_0  BY DEF BDD_1, BDD_0
  <2> QED BY <2>1 DEF LiteralFunction, Functions!Variable, Functions!Valuations, Valuations
<1> HIDE DEF m
<1> QED BY <1>5, <1>6 DEF Functions!MakeVar

(* bdd_ite.                                                                *)
LEMMA IteOfStep ==
  ASSUME Right(store, held), IteOf
  PROVE  Right(store', held') /\ Functions!IteOf
<1>0. PICK f \in Operands, g \in Operands, k \in Operands :
        \E q, e : IteGives(store, f, g, k, q, e) /\ Receive(Pair(q, e))
  BY DEF IteOf
<1>1. PICK q, e : IteGives(store, f, g, k, q, e) /\ Receive(Pair(q, e))  BY <1>0
<1>2. PICK i \in Nat \ DOMAIN held : held' = With(held, i, e) /\ store' = q
  BY <1>1 DEF Receive, Pair
<1>3. More(held, i, e, held') /\ i \notin DOMAIN held  BY <1>2 DEF More
<1>4. \A c \in {f, g, k} : InUse(store, c) /\ Function(store, c) \in Functions!Known
  BY <1>1, OperandKnown
<1> DEFINE m == Functions!Ite(Function(store, f), Function(store, g), Function(store, k))
<1>5. Right(q, held') /\ SameFunctions(store, q, held) /\ Function(q, e) = m
  <2>1. InUse(store, f) /\ InUse(store, g) /\ InUse(store, k)  BY <1>4
  <2> QED BY <1>1, <1>3, <2>1, IteReceived
<1> HIDE DEF m
<1>6. Functions!Receive(m)  BY <1>2, <1>3, <1>5, Gained
<1> QED BY <1>2, <1>4, <1>5, <1>6 DEF Functions!IteOf, m

(* The client receives a reference to what is in use.                      *)
LEMMA AssignStep ==
  ASSUME Right(store, held), NEW e, InUse(store, e), Receive(Assign(store, e))
  PROVE  Right(store', held') /\ Functions!Receive(Function(store, e))
<1>1. PICK o : o = Assign(store, e)  OBVIOUS
<1>2. PICK i \in Nat \ DOMAIN held : held' = With(held, i, o.r) /\ store' = o.s
  BY <1>1 DEF Receive
<1>3. More(held, i, o.r, held') /\ i \notin DOMAIN held  BY <1>2 DEF More
<1>4. /\ Right(o.s, held') /\ SameFunctions(store, o.s, held)
      /\ o.r = e /\ Function(o.s, o.r) = Function(store, e)
  BY <1>1, <1>3, AssignReceived
<1> QED BY <1>2, <1>3, <1>4, Gained

(* bdd_assign.                                                             *)
LEMMA CopyStep ==
  ASSUME Right(store, held), Copy
  PROVE  Right(store', held') /\ Functions!Copy
<1>1. PICK f \in Operands : Receive(Assign(store, f))  BY DEF Copy
<1>2. InUse(store, f) /\ Function(store, f) \in Functions!Known  BY OperandKnown
<1>3. Right(store', held') /\ Functions!Receive(Function(store, f))
  BY <1>1, <1>2, AssignStep
<1> QED BY <1>2, <1>3 DEF Functions!Copy

(* bdd_then and bdd_else; a constant is its own cofactor by any variable.  *)
LEMMA CofactorStep ==
  ASSUME Right(store, held), TakeCofactor
  PROVE  Right(store', held') /\ Functions!TakeCofactor
<1>1. PICK f \in Operands, set \in BOOLEAN :
        Receive(Assign(store, IF set THEN CofactorPos(store, f) ELSE CofactorNeg(store, f)))
  BY DEF TakeCofactor
<1>2. PICK c : c = IF set THEN CofactorPos(store, f) ELSE CofactorNeg(store, f)  OBVIOUS
<1>3. InUse(store, f) /\ Function(store, f) \in Functions!Known  BY OperandKnown
<1>4. Kept(store, References(held)) /\ Diagram(store)  BY DEF Right, Kept
<1>5. InUse(store, c) /\ \E v \in Vars : Function(store, c) = Functions!Cofactor(Function(store, f), v, set)
  <2>1. CASE ~Term(f)  BY <1>2, <1>3, <1>4, <2>1, CofactorFunction
  <2>2. CASE Term(f)
    <3>1. c = f  BY <1>2, <2>2 DEF CofactorPos, CofactorNeg
    <3>2. f \in {BDD_1, BDD_0}
      <4>1. f \in Edge /\ Ptr(f) = 0  BY <1>3, <2>2 DEF InUse, Term
      <4> QED BY <4>1, EdgeFacts
    <3>3. Function(store, f) \in {Valuations, {}}  BY <1>4, <3>2, ConstantFunctions
    <3>4. 0 \in Vars  BY DEF Vars, TERMID
    <3>5. Functions!Valuations = SUBSET Vars /\ Valuations = SUBSET Vars
      BY DEF Functions!Valuations, Valuations
    <3>6. \A m \in {Valuations, {}} : Functions!Cofactor(m, 0, set) = m
      BY <3>4, <3>5 DEF Functions!Cofactor
    <3> QED BY <1>3, <3>1, <3>3, <3>4, <3>6
  <2> QED BY <2>1, <2>2
<1>6. Right(store', held') /\ Functions!Receive(Function(store, c))
  BY <1>1, <1>2, <1>5, AssignStep
<1> QED BY <1>3, <1>5, <1>6 DEF Functions!TakeCofactor

(* bdd_free.                                                               *)
LEMMA GiveBackStep ==
  ASSUME Right(store, held), GiveBack
  PROVE  Right(store', held') /\ Functions!GiveBack
<1>1. PICK i \in DOMAIN held : FreeGives(store, held[i], store') /\ held' = Without(held, i)
  BY DEF GiveBack
<1>2. Right(store', held') /\ SameFunctions(store, store', held)  BY <1>1, GivenBack
<1>3. Meaning(store', held') = Without(Meaning(store, held), i)  BY <1>1, <1>2, MeaningLess
<1>4. i \in DOMAIN Meaning(store, held)  BY DEF Meaning
<1> QED BY <1>2, <1>3, <1>4 DEF Functions!GiveBack, Meaning, Without

(* A step that the abstract client does not see.                           *)
LEMMA HiddenStep ==
  ASSUME Right(store, held), FreezeHeld \/ Collect \/ Reorder \/ Regroup
  PROVE  Right(store', held') /\ Meaning(store', held') = Meaning(store, held)
<1>1. Right(store', held) /\ SameFunctions(store, store', held) /\ held' = held
  <2>1. CASE FreezeHeld
    <3>1. PICK i \in DOMAIN held : store' = Freeze(store, held[i]) /\ held' = held
      BY <2>1 DEF FreezeHeld
    <3> QED BY <3>1, FrozenRight
  <2>2. CASE Collect  BY <2>2, Collected DEF Collect
  <2>3. CASE Reorder  BY <2>3, ReordersRight DEF Reorder
  <2>4. CASE Regroup
    <3>1. PICK g : store' = [store EXCEPT !.groups = g] /\ held' = held  BY <2>4 DEF Regroup
    <3>2. Statics(store, store')  BY <3>1 DEF Statics
    <3> QED BY <3>1, <3>2, StaticsApart
  <2> QED BY <2>1, <2>2, <2>3, <2>4
<1> QED BY <1>1, MeaningSame

------------------------------------------------------------------------------
(* Theorems.                                                               *)

(* The inductive invariant.                                                *)
ClientInv == Right(store, held)

(* One step keeps all right, and is one of the abstract client or hidden   *)
(* from it.                                                                *)
LEMMA ClientStep ==
  ASSUME ClientInv, [Next]_vars
  PROVE  /\ ClientInv'
         /\ Functions!Next \/ Meaning(store', held') = Meaning(store, held)
<1>1. Right(store, held)  BY DEF ClientInv
<1>2. SUFFICES /\ Right(store', held')
               /\ Functions!Next \/ Meaning(store', held') = Meaning(store, held)
  BY DEF ClientInv
<1>3. CASE MakeVar  BY <1>1, <1>3, MakeVarStep DEF Functions!Next
<1>5. CASE IteOf  BY <1>1, <1>5, IteOfStep DEF Functions!Next
<1>6. CASE Copy  BY <1>1, <1>6, CopyStep DEF Functions!Next
<1>7. CASE TakeCofactor  BY <1>1, <1>7, CofactorStep DEF Functions!Next
<1>8. CASE GiveBack  BY <1>1, <1>8, GiveBackStep DEF Functions!Next
<1>9. CASE FreezeHeld \/ Collect \/ Reorder \/ Regroup  BY <1>1, <1>9, HiddenStep
<1>10. CASE UNCHANGED vars
  <2>1. store' = store /\ held' = held  BY <1>10 DEF vars
  <2> QED BY <1>1, <2>1
<1> QED BY <1>3, <1>5, <1>6, <1>7, <1>8, <1>9, <1>10 DEF Next

(* So does the package begin.                                              *)
LEMMA ClientBegins ==
  ASSUME Init
  PROVE  ClientInv /\ Functions!Init
<1>1. store = InitStore /\ held = [i \in {} |-> BDD_1]  BY DEF Init
<1>2. DOMAIN held = {}  BY <1>1
<1>3. ClientInv  BY <1>1, <1>2, InitRight DEF ClientInv
<1>4. Functions!Init  BY <1>2 DEF Functions!Init
<1> QED BY <1>3, <1>4

(* Every store a client can bring about is right: reduced and ordered,     *)
(* with exact counts, and with no stale entry in its computed table.       *)
THEOREM ClientRight == Spec => []ClientInv
<1>1. Init => ClientInv  BY ClientBegins
<1>2. ClientInv /\ [Next]_vars => ClientInv'  BY ClientStep
<1> QED BY <1>1, <1>2, PTL DEF Spec

(* The package implements BddFunctions: each operation returns the         *)
(* function it promises, and no function changes while it is held,         *)
(* whatever is collected, reordered, frozen or freed.                      *)
THEOREM ClientImplements == Spec => Functions!Spec
<1>1. Init => Functions!Init  BY ClientBegins
<1>2. ClientInv /\ [Next]_vars => [Functions!Next]_([i \in DOMAIN held |-> Function(store, held[i])])
  BY ClientStep DEF Meaning
<1>3. Spec => []ClientInv  BY ClientRight
<1> QED BY <1>1, <1>2, <1>3, PTL DEF Spec, Functions!Spec

(* The counters of dead and of frozen nodes are exact.                     *)
THEOREM ClientDeadCounted == Spec => []DeadCounted
<1>1. ClientInv => DeadCounted
  BY DEF ClientInv, Right, Kept, Stage, Counted, WithCount, DeadCounted
<1> QED BY <1>1, ClientRight, PTL

(* The nodes are in normal form, for the order in force.                   *)
THEOREM ClientCanonical == Spec => []Canonical
<1>1. ASSUME ClientInv PROVE Canonical
  <2> DEFINE s == store
  <2>1. Diagram(s)  BY <1>1 DEF ClientInv, Right, Kept
  <2>2. DOMAIN s.node \subseteq Nat  BY <2>1 DEF Diagram, IsStore
  <2>3. \A e : Rank(s, e) = NodeRank(s, Ptr(e))  BY DEF Rank, VarId, At, NodeRank
  <2>4. \A n \in Nodes(s) : Ptr(2 * n) = n  BY <2>2, EdgeFacts DEF Nodes
  <2> HIDE DEF s
  <2>5. \A n \in Nodes(s) :
          /\ ~Neg(s.node[n].t) /\ s.node[n].t # s.node[n].e
          /\ Rank(s, 2 * n) < Rank(s, s.node[n].t) /\ Rank(s, 2 * n) < Rank(s, s.node[n].e)
    <3> TAKE n \in Nodes(s)
    <3>1. ~Neg(s.node[n].t) /\ s.node[n].t # s.node[n].e  BY <2>1 DEF Diagram
    <3>2. NodeRank(s, n) < NodeRank(s, Ptr(s.node[n].t)) /\ NodeRank(s, n) < NodeRank(s, Ptr(s.node[n].e))
      BY <2>1 DEF Diagram, Kids
    <3>3. Rank(s, 2 * n) = NodeRank(s, n)  BY <2>3, <2>4
    <3> QED BY <2>3, <3>1, <3>2, <3>3
  <2>6. \A n, m \in Nodes(s) : n # m =>
          \/ s.node[n].v # s.node[m].v \/ s.node[n].t # s.node[m].t \/ s.node[n].e # s.node[m].e
    BY <2>1 DEF Diagram, Distinct, SameLink, Nodes
  <2> QED BY <2>5, <2>6 DEF Canonical, s
<1> QED BY <1>1, ClientRight, PTL

(* A node's count is the number of its owners.                             *)
THEOREM ClientCountsExact == Spec => []CountsExact
<1>1. ASSUME ClientInv PROVE CountsExact
  <2> DEFINE h == References(held)
             S == Live(store)
  <2>1. IsHeld(held) /\ Stage(store, S, h)  BY <1>1 DEF ClientInv, Right, Kept
  <2>2. LiveNodes = S  BY DEF LiveNodes, Live
  <2> HIDE DEF S, h
  <2>3. ASSUME NEW n \in Nodes(store)
        PROVE  store.node[n].ref \in
                 {MaxRef, Cardinality({i \in DOMAIN held : Ptr(held[i]) = n})
                          + Cardinality({m \in S : Ptr(store.node[m].t) = n})
                          + Cardinality({m \in S : Ptr(store.node[m].e) = n})}
    <3> DEFINE a == Cardinality({i \in DOMAIN held : Ptr(held[i]) = n})
               b == Cardinality({m \in S : Ptr(store.node[m].t) = n})
               c == Cardinality({m \in S : Ptr(store.node[m].e) = n})
    <3>1. n \in DOMAIN store.node /\ n \in Nat  BY <2>1 DEF Nodes, Stage, IsStore
    <3>2. store.node[n].ref \in {MaxRef, h[n] + Uses(store.node, S, n)}
      BY <2>1, <3>1 DEF Stage, Backed
    <3>3. h[n] = a /\ IsFiniteSet({i \in DOMAIN held : Ptr(held[i]) = n})
      BY <2>1, <3>1, ReferencesNat DEF h, HandlesOf
    <3>4. Uses(store.node, S, n) = b + c  BY DEF Uses, Thens, Elses
    <3>5. a \in Nat /\ b \in Nat /\ c \in Nat
      <4>1. IsFiniteSet(S)  BY <2>1, StageFacts
      <4>2. /\ IsFiniteSet({m \in S : Ptr(store.node[m].t) = n})
            /\ IsFiniteSet({m \in S : Ptr(store.node[m].e) = n})
        BY <4>1, FS_Subset
      <4> QED BY <3>3, <4>2, FS_CardinalityType
    <3> HIDE DEF a, b, c
    <3>6. h[n] + Uses(store.node, S, n) = a + b + c  BY <3>3, <3>4, <3>5
    <3>7. store.node[n].ref \in {MaxRef, a + b + c}  BY <3>2, <3>6
    <3> QED BY <3>7 DEF a, b, c
  <2> QED BY <2>2, <2>3 DEF CountsExact
<1> QED BY <1>1, ClientRight, PTL

(* Only the variables there are matter to a reading.                       *)
LEMMA ReadsVars ==
  ASSUME NEW s, Diagram(s), NEW x, NEW I
  PROVE  Reads(s.node, Nodes(s), x, I) <=> Reads(s.node, Nodes(s), x \cap Vars, I)
<1>1. \A k \in Nodes(s) : s.node[k].v \in Vars  BY DEF Diagram, Ranking, Vars
<1>2. \A k \in Nodes(s) : Chosen(s.node, k, x) = Chosen(s.node, k, x \cap Vars)
  BY <1>1 DEF Chosen
<1> QED BY <1>2 DEF Reads

(* Equal functions are held by equal edges.                                *)
THEOREM ClientEqualEdges == Spec => []EqualEdges
<1>1. ASSUME ClientInv PROVE EqualEdges
  <2> SUFFICES ASSUME NEW i \in DOMAIN held, NEW j \in DOMAIN held,
                      Function(store, held[i]) = Function(store, held[j])
               PROVE  held[i] = held[j]
    BY DEF EqualEdges
  <2>1. Right(store, held) /\ Diagram(store)  BY <1>1 DEF ClientInv, Right, Kept
  <2>2. PICK e, f : e = held[i] /\ f = held[j]  OBVIOUS
  <2>3. /\ e \in Edge /\ Ptr(e) \in DOMAIN store.node
        /\ f \in Edge /\ Ptr(f) \in DOMAIN store.node
    BY <2>1, <2>2, HandleInUse
  <2>4. ASSUME NEW x, NEW I, Reads(store.node, Nodes(store), x, I)
        PROVE  Holds(I, e) <=> Holds(I, f)
    <3>1. PICK y : y = x \cap Vars  OBVIOUS
    <3>2. y \in Valuations  BY <3>1 DEF Valuations
    <3>3. Reads(store.node, Nodes(store), y, I)  BY <2>1, <2>4, <3>1, ReadsVars
    <3>4. y \in Function(store, e) <=> Holds(I, e)  BY <2>1, <2>3, <3>2, <3>3, FunctionTells
    <3>5. y \in Function(store, f) <=> Holds(I, f)  BY <2>1, <2>3, <3>2, <3>3, FunctionTells
    <3> QED BY <2>2, <3>4, <3>5
  <2>5. SameFunction(store, e, f)  BY <2>4 DEF SameFunction
  <2> QED BY <2>1, <2>2, <2>3, <2>5, EqualFunctions
<1> QED BY <1>1, ClientRight, PTL

(* No entry of the computed table is stale.                                *)
THEOREM ClientTableSound == Spec => []TableSound
<1>1. ASSUME ClientInv PROVE TableSound
  <2> DEFINE s == store
  <2>1. Diagram(s) /\ CacheRight(s)  BY <1>1 DEF ClientInv, Right, Kept
  <2> HIDE DEF s
  <2>2. ASSUME NEW k \in DOMAIN s.cache, NEW z, z = s.cache[k], z.R # VOID, ~FuncP(z.F)
        PROVE  /\ {Ptr(z.F), Ptr(z.G), Ptr(z.H), Ptr(z.R)} \subseteq DOMAIN s.node
               /\ Function(s, z.R) =
                    Functions!Ite(Function(s, z.F), Function(s, z.G), Function(s, z.H))
    <3> DEFINE m == Functions!Ite(Function(s, z.F), Function(s, z.G), Function(s, z.H))
    <3>1. EntryRight(s, z)  BY <2>1, <2>2 DEF CacheRight
    <3>2. \A e \in {z.F, z.G, z.H, z.R} : e \in Edge /\ Ptr(e) \in DOMAIN s.node
      BY <2>2, <3>1 DEF EntryRight, EntryEdges
    <3>3. \A x, I : Reads(s.node, Nodes(s), x, I) => (Holds(I, z.R) <=> Means(I, Triple(z.F, z.G, z.H)))
      BY <2>2, <3>1 DEF EntryRight
    <3>4. \A e \in {z.F, z.G, z.H, z.R} :
            /\ Function(s, e) \in SUBSET Valuations
            /\ \A x \in Valuations : \A T : Reads(s.node, Nodes(s), x, T) =>
                 (x \in Function(s, e) <=> Holds(T, e))
      BY <2>1, <3>2, FunctionTells
    <3>5. m \in SUBSET Valuations
          /\ \A x : x \in m <=> IF x \in Function(s, z.F) THEN x \in Function(s, z.G)
                                                          ELSE x \in Function(s, z.H)
      BY <3>4 DEF Functions!Ite
    <3>6. ASSUME NEW x \in Valuations PROVE x \in Function(s, z.R) <=> x \in m
      <4>1. PICK I : Reads(s.node, Nodes(s), x, I)  BY <2>1, ReadingExists
      <4>2. Means(I, Triple(z.F, z.G, z.H)) <=> IF Holds(I, z.F) THEN Holds(I, z.G) ELSE Holds(I, z.H)
        BY DEF Means, Triple
      <4>3. Holds(I, z.R) <=> IF Holds(I, z.F) THEN Holds(I, z.G) ELSE Holds(I, z.H)
        BY <3>3, <4>1, <4>2
      <4> HIDE DEF m
      <4> QED BY <3>4, <3>5, <4>1, <4>3
    <3> HIDE DEF m
    <3>7. Function(s, z.R) = m  BY <3>4, <3>5, <3>6
    <3> QED BY <3>2, <3>7 DEF m
  <2> QED BY <2>2 DEF TableSound, s
<1> QED BY <1>1, ClientRight, PTL

------------------------------------------------------------------------------
(* Calls return.                                                           *)

(* A reordering may make no exchange at all.                               *)
LEMMA OrderingEnds ==
  ASSUME NEW s
  PROVE  \E q : DynamicOrders(s, q)
<1>1. CASE s.groups = <<>>  BY <1>1 DEF DynamicOrders
<1>2. CASE s.groups # <<>>
  <2>1. PICK a : a = Tidy(s)  OBVIOUS
  <2> DEFINE t == [k \in {0} |-> a]
             q == ClearComputedTable([a EXCEPT !.groups = <<>>])
  <2>2. Exchanging(a, a)
    <3>1. 0 \in Nat /\ t[0] = a /\ 1 .. 0 = {}  OBVIOUS
    <3>2. \A k \in 1 .. 0 : \E r \in DOMAIN t[k - 1].space :
            r + 1 \in DOMAIN t[k - 1].space /\ t[k] = SwapRanks(t[k - 1], r)
      BY <3>1
    <3> HIDE DEF t
    <3> QED BY <3>1, <3>2 DEF Exchanging
  <2>3. Reorders(s, q)  BY <2>1, <2>2 DEF Reorders
  <2> QED BY <1>2, <2>3 DEF DynamicOrders
<1> QED BY <1>1, <1>2

(* So the end of bdd_ite has an outcome, too.                              *)
LEMMA EndsEnd ==
  ASSUME NEW s
  PROVE  \E q : EndsIte(s, q)
<1>1. CASE s.history < 0  BY <1>1 DEF EndsIte
<1>2. CASE ~(s.history < 0)
  <2> DEFINE t == LowerThreshold(s)
             a == Alive(s)
             d == 10 * Alive(s) > 19 * (s.history + 1)
  <2>1. PICK u : DynamicOrders(t, u)  BY OrderingEnds
  <2>2. \E q : Judges(t, a, d, q)
    <3>1. \/ Judges(t, a, d, Reordered(u, a, d))
          \/ Judges(t, a, d, [t EXCEPT !.history = a])
      <4> HIDE DEF t, a, d
      <4> QED BY <2>1 DEF Judges
    <3> QED BY <3>1
  <2> QED BY <1>2, <2>2 DEF EndsIte
<1> QED BY <1>1, <1>2

(* A run of bdd_ite_aux and its end make one of bdd_ite.                   *)
LEMMA IteOutcome ==
  ASSUME NEW s, NEW hd, Right(s, hd), NEW f, InUse(s, f), NEW g, InUse(s, g), NEW k, InUse(s, k)
  PROVE  \E q, e : IteGives(s, f, g, k, q, e)
<1> DEFINE h == References(hd)
           y == Triple(f, g, k)
<1>1. PICK t : t = FirstCall(s)  OBVIOUS
<1>2. Right(t, hd) /\ (\A e : InUse(s, e) => InUse(t, e))
  <2> DEFINE a == Alive(s)
  <2>1. t \in {s, [s EXCEPT !.history = a]}  BY <1>1 DEF FirstCall
  <2> HIDE DEF a
  <2>2. Statics(s, t)  BY <2>1 DEF Statics
  <2> QED BY <2>2, StaticsApart
<1>3. f \in Edge /\ g \in Edge /\ k \in Edge  BY DEF InUse
<1>4. IsTriple(y) /\ y.f = f /\ y.g = g /\ y.h = k  BY <1>3, TripleFacts
<1> HIDE DEF h, y
<1>5. TripleInUse(t, y)  BY <1>2, <1>4 DEF TripleInUse
<1>6. Kept(t, h) /\ CacheRight(t)  BY <1>2 DEF Right, h
<1>7. PICK C, p : IteRun(C) /\ IteCall(t, y, p) \in C  BY <1>4, <1>5, <1>6, IteReturns
<1>8. PICK q : EndsIte(p.s, q)  BY EndsEnd
<1>9. IteGives(s, f, g, k, q, p.r)  BY <1>1, <1>7, <1>8 DEF IteGives, y
<1> QED BY <1>9

(* Every call returns.                                                     *)
THEOREM ClientCallsReturn == Spec => []CallsReturn
<1>1. ASSUME ClientInv PROVE CallsReturn
  <2>1. Right(store, held)  BY <1>1 DEF ClientInv
  <2>2. ASSUME NEW v \in Vars PROVE \E o : VarGives(store, v, o)
    <3>1. PICK q : q = MakeFit(store, v)  OBVIOUS
    <3>2. Kept(q, References(held)) /\ CacheRight(q)  BY <2>1, <3>1, FitRight DEF Right
    <3>3. PICK o : NodeIn(q, v, BDD_1, BDD_0, o)  BY <3>2, NodeEnds
    <3> QED BY <3>1, <3>3 DEF VarGives
  <2>3. ASSUME NEW f \in Operands, NEW g \in Operands, NEW k \in Operands
        PROVE  \E q, e : IteGives(store, f, g, k, q, e)
    BY <2>1, OperandKnown, IteOutcome
  <2>4. ASSUME NEW i \in DOMAIN held PROVE \E q : FreeGives(store, held[i], q)
    <3> DEFINE h == References(held)
    <3>1. Kept(store, h) /\ held[i] \in Edge /\ h[Ptr(held[i])] > 0
      BY <2>1, ReferencesNat DEF Right, IsHeld
    <3> HIDE DEF h
    <3>2. Releasable(store, h, held[i])  BY <3>1 DEF Releasable
    <3>3. Frees(store, held[i])  BY <3>2, FreeEnds
    <3> QED BY <3>3 DEF Frees, FreeGives
  <2> QED BY <2>2, <2>3, <2>4 DEF CallsReturn
<1> QED BY <1>1, ClientRight, PTL
=============================================================================
