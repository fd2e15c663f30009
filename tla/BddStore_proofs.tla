--------------------------- MODULE BddStore_proofs ---------------------------
(***************************************************************************)
(* Proofs about the BDD package of PVS (src/src/BDD/bdd/src/bdd.c), for    *)
(* every store, whatever its size and the number of its variables.         *)
(*                                                                         *)
(* First, that bdd_ite_aux decides its trivial cases right and puts the    *)
(* others in a standard form of the same meaning.                          *)
(*                                                                         *)
(* Then, that the exchange of two adjacent variables is right, the step    *)
(* that all dynamic ordering is made of: BDD_SWAP_RANKS rewrites nodes at  *)
(* their address, gives up and makes others, moves reference counts and    *)
(* reads ranks that are no longer those of the nodes, and has to leave a   *)
(* reduced, ordered, shared diagram with exact counts, in which each edge  *)
(* that is held somewhere stands for the function it stood for.            *)
(*                                                                         *)
(* The argument goes from the inside out.                                  *)
(*   Stage(s, S, h)   the counts of store s are those of the links of the  *)
(*                    nodes of S and of the h[m] references that others    *)
(*                    hold to address m.  While a node is taken apart it   *)
(*                    is not in S, and its links are in h.                 *)
(*   Exchangeable, Apart, Rising   what is true between two nodes of an    *)
(*                    exchange, when some nodes of the upper variable are  *)
(*                    rewritten and others are not; together Midway.       *)
(*   NodeExchanged    one node of bdd_process_level keeps Midway.          *)
(*   LevelExchanged   so do all of them, and then nothing is left to do.   *)
(*   WellKept(s, h)   what is true before and after an exchange.           *)
(*   SwapRanksSound   the whole: a well-kept store becomes a well-kept     *)
(*                    one, in the other order, with the same functions.    *)
(*                                                                         *)
(* A function is a reading: for a set x of variables that are true, the    *)
(* addresses whose nodes are true (Reads).  A diagram has exactly one for  *)
(* each x (OneReading), and in it two edges have the same function only if *)
(* they are equal (EqualFunctions).                                        *)
(*                                                                         *)
(* Between reorderings a store is Kept: a diagram with exact counts, some  *)
(* of whose nodes may be dead.  SweepKeeps: the sweep of bdd_gc_aux makes  *)
(* it well kept, as a reordering wants it.  ReferenceReleased: one step of *)
(* bdd_free.  NodeMade: bdd_create_node, for a node that is alive, dead or *)
(* new.                                                                    *)
(*                                                                         *)
(* Then one call of bdd_ite_aux.  Delivers(s, h, y, p) is what a call      *)
(* promises; IteEnds, IteProjects and IteStandard prove it of the calls    *)
(* that do not recur, IteStep of one that does, given that its two         *)
(* recursive calls keep the promise.  CollectionKeepsCache and             *)
(* ResultCached: the computed table stays right.                           *)
(*                                                                         *)
(* Last, whole runs (BddRuns).  Ranks rise from call to call and none is   *)
(* below that of the constant, so that, if some call of a run broke its    *)
(* promise, there would be one of greatest rank, all calls of which keep   *)
(* theirs: one step shows that there is none.  ResultRevived is so proved  *)
(* of bdd_lookup_computed_table, FreeReleases of bdd_free and IteRight of  *)
(* bdd_ite_aux.  ReclaimEnds, FreeEnds and IteReturns prove the same way   *)
(* that there is a run for all arguments: the recursions end.              *)
(***************************************************************************)
EXTENDS BddRuns, TLAPS, FiniteSetTheorems

------------------------------------------------------------------------------
(* If-then-else before its recursion.                                      *)

(* Edges, but for VOID.                                                    *)
Edge == Nat

(* An edge is an address and a sign.                                       *)
LEMMA EdgeFacts ==
  /\ \A e \in Edge : /\ Ptr(e) \in Nat /\ Neg(e) \in BOOLEAN
                     /\ Compl(e) \in Edge /\ Ptr(Compl(e)) = Ptr(e)
                     /\ Neg(Compl(e)) <=> ~Neg(e)
                     /\ Compl(Compl(e)) = e /\ Compl(e) # e
                     /\ Pos(e) \in Edge /\ Ptr(Pos(e)) = Ptr(e) /\ ~Neg(Pos(e))
                     /\ ~Neg(e) => Pos(e) = e
                     /\ Neg(e) => Pos(e) = Compl(e)
                     /\ Term(e) <=> Ptr(e) = 0
                     /\ e # VOID
  /\ \A e, f \in Edge : e = f <=> Ptr(e) = Ptr(f) /\ (Neg(e) <=> Neg(f))
  /\ \A n \in Nat : 2 * n \in Edge /\ Ptr(2 * n) = n /\ ~Neg(2 * n)
  /\ BDD_1 \in Edge /\ BDD_0 \in Edge /\ Ptr(BDD_1) = 0 /\ Ptr(BDD_0) = 0
  /\ ~Neg(BDD_1) /\ Neg(BDD_0) /\ Compl(BDD_1) = BDD_0
BY DEF Edge, Ptr, Neg, Compl, Pos, Term, VOID, BDD_1, BDD_0

(* The value of an edge where the functions of the nodes of T are true.    *)
Holds(T, e) == (Ptr(e) \in T) <=> ~Neg(e)

(* The complement of an edge is the negation of its function.              *)
LEMMA HoldsFacts ==
  ASSUME NEW T, 0 \in T
  PROVE  /\ \A e \in Edge : Holds(T, Compl(e)) <=> ~Holds(T, e)
         /\ \A e \in Edge : ~Neg(e) => (Holds(T, e) <=> Ptr(e) \in T)
         /\ Holds(T, BDD_1) /\ ~Holds(T, BDD_0)
         /\ \A e \in Edge : \A b \in BOOLEAN : Holds(T, SetNeg(e, b)) <=> (Holds(T, e) <=> ~b)
BY EdgeFacts DEF Holds, SetNeg

(* The arguments of an if-then-else, and its value.                        *)
IsTriple(x) == x \in [f : Edge, g : Edge, h : Edge]
Means(T, x) == IF Holds(T, x.f) THEN Holds(T, x.g) ELSE Holds(T, x.h)

LEMMA TripleFacts ==
  ASSUME NEW F \in Edge, NEW G \in Edge, NEW H \in Edge
  PROVE  /\ IsTriple(Triple(F, G, H))
         /\ Triple(F, G, H).f = F /\ Triple(F, G, H).g = G /\ Triple(F, G, H).h = H
BY DEF IsTriple, Triple

(* An argument equal or complementary to the first is a constant where it  *)
(* counts.                                                                 *)
LEMMA ConstantsIntroduced ==
  ASSUME NEW T, 0 \in T, NEW F \in Edge, NEW G \in Edge, NEW H \in Edge
  PROVE  /\ IsTriple(IntroduceConstants(F, G, H))
         /\ Means(T, IntroduceConstants(F, G, H)) <=> Means(T, Triple(F, G, H))
<1> DEFINE G1 == IF F = G THEN BDD_1 ELSE IF ComplP(F, G) THEN BDD_0 ELSE G
           H1 == IF F = H THEN BDD_0 ELSE IF ComplP(F, H) THEN BDD_1 ELSE H
<1>1. G1 \in Edge /\ H1 \in Edge  BY EdgeFacts
<1>2. Holds(T, F) => (Holds(T, G1) <=> Holds(T, G))
  BY HoldsFacts, EdgeFacts DEF ComplP
<1>3. ~Holds(T, F) => (Holds(T, H1) <=> Holds(T, H))
  BY HoldsFacts, EdgeFacts DEF ComplP
<1> QED BY <1>1, <1>2, <1>3, TripleFacts DEF IntroduceConstants, Means

(* The cases decided without recursion are decided right.                  *)
LEMMA TrivialCase ==
  ASSUME NEW T, 0 \in T, NEW x, IsTriple(x), Trivial(x) # VOID
  PROVE  Trivial(x) \in Edge /\ (Holds(T, Trivial(x)) <=> Means(T, x))
<1>0. x.f \in Edge /\ x.g \in Edge /\ x.h \in Edge  BY DEF IsTriple
<1> QED BY <1>0, HoldsFacts, EdgeFacts DEF Trivial, Means

(* y means what x means, in every assignment.                              *)
Orders(s, x, y) ==
  IsTriple(y) /\ \A T : 0 \in T => (Means(T, y) <=> Means(T, x))

(* Exchanging the arguments of an or, and, implication or equivalence      *)
(* keeps the meaning.                                                      *)
LEMMA TripleOrdered ==
  ASSUME NEW s, NEW x, IsTriple(x)
  PROVE  Orders(s, x, OrderTriple(s, x))
<1> USE DEF Orders
<1>1. ASSUME NEW y, IsTriple(y) PROVE Orders(s, y, OrOrder(s, y))
  BY <1>1, HoldsFacts, TripleFacts DEF OrOrder, Means, IsTriple
<1>2. ASSUME NEW y, IsTriple(y) PROVE Orders(s, y, AndOrder(s, y))
  BY <1>2, HoldsFacts, TripleFacts DEF AndOrder, Means, IsTriple
<1>3. ASSUME NEW y, IsTriple(y) PROVE Orders(s, y, ImpliesOrder(s, y))
  BY <1>3, HoldsFacts, EdgeFacts, TripleFacts DEF ImpliesOrder, Means, IsTriple
<1>4. ASSUME NEW y, IsTriple(y) PROVE Orders(s, y, LessOrder(s, y))
  BY <1>4, HoldsFacts, EdgeFacts, TripleFacts DEF LessOrder, Means, IsTriple
<1>5. ASSUME NEW y, IsTriple(y) PROVE Orders(s, y, EquivOrder(s, y))
  BY <1>5, HoldsFacts, EdgeFacts, TripleFacts DEF EquivOrder, Means, IsTriple, ComplP
<1> DEFINE a == OrOrder(s, x)
           b == AndOrder(s, a)
           c == ImpliesOrder(s, b)
           d == LessOrder(s, c)
<1>6. Orders(s, x, a)  BY <1>1
<1> HIDE DEF a
<1>7. Orders(s, x, b)  BY <1>2, <1>6
<1> HIDE DEF b
<1>8. Orders(s, x, c)  BY <1>3, <1>7
<1> HIDE DEF c
<1>9. Orders(s, x, d)  BY <1>4, <1>8
<1> HIDE DEF d
<1>10. Orders(s, x, EquivOrder(s, d))  BY <1>5, <1>9
<1> QED BY <1>10 DEF OrderTriple, a, b, c, d

(* bdd_ite_aux: introducing constants, exchanging arguments and moving     *)
(* complements keep the meaning of ite(F, G, H), up to the sign it         *)
(* returns; a trivial case has the right answer; and in the standard       *)
(* triple, by which the computed table is searched, neither of the first   *)
(* two arguments is complemented, whatever the edges are and however they  *)
(* rank.                                                                   *)
THEOREM StandardTripleMeans ==
  ASSUME NEW s, NEW F \in Edge, NEW G \in Edge, NEW H \in Edge,
         NEW T, 0 \in T
  PROVE  LET x == IntroduceConstants(F, G, H)
             std == StandardTriple(s, x)
             ite == IF Holds(T, F) THEN Holds(T, G) ELSE Holds(T, H)
         IN /\ Trivial(x) # VOID => (Holds(T, Trivial(x)) <=> ite)
            /\ (Means(T, std.x) <=> ~std.negate) <=> ite
            /\ ~Neg(std.x.f) /\ ~Neg(std.x.g)
<1> DEFINE x == IntroduceConstants(F, G, H)
           y == OrderTriple(s, x)
           z == FirstPositive(y)
           ite == IF Holds(T, F) THEN Holds(T, G) ELSE Holds(T, H)
<1>1. IsTriple(x) /\ (Means(T, x) <=> ite)
  BY ConstantsIntroduced, TripleFacts DEF Means
<1>2. IsTriple(y) /\ (Means(T, y) <=> Means(T, x))
  BY <1>1, TripleOrdered DEF Orders
<1> HIDE DEF y
<1>3. IsTriple(z) /\ (Means(T, z) <=> Means(T, y)) /\ ~Neg(z.f)
  BY <1>2, HoldsFacts, EdgeFacts, TripleFacts DEF FirstPositive, Means, IsTriple
<1> HIDE DEF z
<1> DEFINE w == SecondPositive(z)
<1>4. /\ (Means(T, w.x) <=> ~w.negate) <=> Means(T, z)
      /\ ~Neg(w.x.f) /\ ~Neg(w.x.g)
  BY <1>3, HoldsFacts, EdgeFacts, TripleFacts DEF SecondPositive, Means, IsTriple
<1>5. StandardTriple(s, x) = w  BY DEF StandardTriple, w, z, y
<1>6. Trivial(x) # VOID => (Holds(T, Trivial(x)) <=> ite)
  BY <1>1, TrivialCase
<1> QED BY <1>1, <1>2, <1>3, <1>4, <1>5, <1>6

------------------------------------------------------------------------------
(* The store and its reference counts.                                     *)

(* The nodes of the unique tables and of the constant; a rewritten node    *)
(* passes through variable VOID.                                           *)
Node == [v : Int, t : Int, e : Int, ref : 0 .. MaxRef]

(* What every store is, in the fields that an exchange uses.               *)
IsStore(s) ==
  /\ {"node", "dead", "frozen", "log", "space", "rank"} \subseteq DOMAIN s
  /\ DOMAIN s.node \subseteq Nat /\ IsFiniteSet(DOMAIN s.node) /\ 0 \in DOMAIN s.node
  /\ s.node \in [DOMAIN s.node -> Node]
  /\ s.dead \in Int /\ s.frozen \in Int

SetRef(nd, m, c) == [nd EXCEPT ![m].ref = c]

(* What BDD_INCR_REF and BDD_DECR_REF change of a store.                   *)
LEMMA WithRefFields ==
  ASSUME NEW s, IsStore(s), NEW e \in Edge, Ptr(e) \in DOMAIN s.node,
         NEW c \in 0 .. MaxRef, NEW d \in Int, NEW f \in Int,
         NEW q, q = WithRef(s, e, c, d, f)
  PROVE  /\ IsStore(q) /\ SameOrder(s, q)
         /\ q.node = SetRef(s.node, Ptr(e), c)
         /\ q.dead = s.dead + d /\ q.frozen = s.frozen + f
<1>1. q.node = SetRef(s.node, Ptr(e), c)  BY DEF WithRef, IsStore, SetRef
<1>2. q.dead = s.dead + d /\ q.frozen = s.frozen + f  BY DEF WithRef, IsStore
<1>3. SameOrder(s, q)  BY DEF WithRef, IsStore, SameOrder
<1>4. q.node \in [DOMAIN s.node -> Node]  BY <1>1 DEF IsStore, Node, SetRef
<1>5. IsStore(q)  BY <1>1, <1>2, <1>3, <1>4 DEF IsStore, SameOrder, SetRef
<1> QED BY <1>1, <1>2, <1>3, <1>5

(* Who refers to address m from the nodes of S.                            *)
Thens(nd, S, m) == {k \in S : Ptr(nd[k].t) = m}
Elses(nd, S, m) == {k \in S : Ptr(nd[k].e) = m}
Uses(nd, S, m) == Cardinality(Thens(nd, S, m)) + Cardinality(Elses(nd, S, m))

(* The uses of an address are a number, and not 0 when there is one.       *)
LEMMA UsesNat ==
  ASSUME NEW nd, NEW S, IsFiniteSet(S), NEW m
  PROVE  /\ Uses(nd, S, m) \in Nat
         /\ \A k \in S : Ptr(nd[k].t) = m \/ Ptr(nd[k].e) = m => Uses(nd, S, m) > 0
         /\ (\A k \in S : Ptr(nd[k].t) # m /\ Ptr(nd[k].e) # m) => Uses(nd, S, m) = 0
<1>1. IsFiniteSet(Thens(nd, S, m)) /\ IsFiniteSet(Elses(nd, S, m))
  BY FS_Subset DEF Thens, Elses
<1>2. /\ Cardinality(Thens(nd, S, m)) \in Nat /\ Cardinality(Elses(nd, S, m)) \in Nat
      /\ Cardinality(Thens(nd, S, m)) = 0 <=> Thens(nd, S, m) = {}
      /\ Cardinality(Elses(nd, S, m)) = 0 <=> Elses(nd, S, m) = {}
  BY <1>1, FS_CardinalityType, FS_EmptySet
<1>3. Uses(nd, S, m) \in Nat  BY <1>2 DEF Uses
<1>4. ASSUME NEW k \in S, Ptr(nd[k].t) = m \/ Ptr(nd[k].e) = m
      PROVE  Uses(nd, S, m) > 0
  <2>1. Thens(nd, S, m) # {} \/ Elses(nd, S, m) # {}  BY <1>4 DEF Thens, Elses
  <2> QED BY <1>2, <2>1 DEF Uses
<1>5. ASSUME \A k \in S : Ptr(nd[k].t) # m /\ Ptr(nd[k].e) # m
      PROVE  Uses(nd, S, m) = 0
  <2>1. Thens(nd, S, m) = {} /\ Elses(nd, S, m) = {}  BY <1>5 DEF Thens, Elses
  <2> QED BY <1>2, <2>1 DEF Uses
<1> QED BY <1>3, <1>4, <1>5

(* They depend on the links alone.                                         *)
LEMMA UsesSame ==
  ASSUME NEW nd, NEW nd2, NEW S, NEW m,
         \A k \in S : nd2[k].t = nd[k].t /\ nd2[k].e = nd[k].e
  PROVE  Uses(nd2, S, m) = Uses(nd, S, m)
<1>1. Thens(nd2, S, m) = Thens(nd, S, m) /\ Elses(nd2, S, m) = Elses(nd, S, m)
  BY DEF Thens, Elses
<1> QED BY <1>1 DEF Uses

(* One more node adds the uses it makes.                                   *)
LEMMA UsesAdd ==
  ASSUME NEW nd, NEW S, IsFiniteSet(S), NEW k, k \notin S, NEW m
  PROVE  Uses(nd, S \cup {k}, m) = Uses(nd, S, m)
           + OneIf(Ptr(nd[k].t) = m) + OneIf(Ptr(nd[k].e) = m)
<1> DEFINE A == Thens(nd, S, m)  B == Elses(nd, S, m)
           A2 == Thens(nd, S \cup {k}, m)  B2 == Elses(nd, S \cup {k}, m)
<1>1. IsFiniteSet(A) /\ IsFiniteSet(B) /\ k \notin A /\ k \notin B
  BY FS_Subset DEF Thens, Elses
<1>2. Cardinality(A2) = Cardinality(A) + OneIf(Ptr(nd[k].t) = m)
  <2>1. CASE Ptr(nd[k].t) = m
    <3>1. A2 = A \cup {k}  BY <2>1 DEF Thens
    <3>2. OneIf(Ptr(nd[k].t) = m) = 1  BY <2>1 DEF OneIf
    <3> HIDE DEF A, A2
    <3>3. Cardinality(A \cup {k}) = Cardinality(A) + 1  BY <1>1, FS_AddElement
    <3> QED BY <3>1, <3>2, <3>3
  <2>2. CASE Ptr(nd[k].t) # m
    <3>1. A2 = A  BY <2>2 DEF Thens
    <3> QED BY <1>1, <2>2, <3>1, FS_CardinalityType DEF OneIf
  <2> QED BY <2>1, <2>2
<1>3. Cardinality(B2) = Cardinality(B) + OneIf(Ptr(nd[k].e) = m)
  <2>1. CASE Ptr(nd[k].e) = m
    <3>1. B2 = B \cup {k}  BY <2>1 DEF Elses
    <3>2. OneIf(Ptr(nd[k].e) = m) = 1  BY <2>1 DEF OneIf
    <3> HIDE DEF B, B2
    <3>3. Cardinality(B \cup {k}) = Cardinality(B) + 1  BY <1>1, FS_AddElement
    <3> QED BY <3>1, <3>2, <3>3
  <2>2. CASE Ptr(nd[k].e) # m
    <3>1. B2 = B  BY <2>2 DEF Elses
    <3> QED BY <1>1, <2>2, <3>1, FS_CardinalityType DEF OneIf
  <2> QED BY <2>1, <2>2
<1>4. Cardinality(A) \in Nat /\ Cardinality(B) \in Nat  BY <1>1, FS_CardinalityType
<1> HIDE DEF A, B, A2, B2
<1> QED
  <2>1. Uses(nd, S \cup {k}, m) = Cardinality(A2) + Cardinality(B2)  BY DEF Uses, A2, B2
  <2>2. Uses(nd, S, m) = Cardinality(A) + Cardinality(B)  BY DEF Uses, A, B
  <2> QED BY <1>2, <1>3, <1>4, <2>1, <2>2 DEF OneIf

(* The counters.                                                           *)
WithCount(nd, c) == {m \in DOMAIN nd : nd[m].ref = c}
(* bdd_nr_dead_nodes and bdd_nr_frozen_nodes; the first starts at 1.       *)
Counted(s) ==
  /\ s.dead = 1 + Cardinality(WithCount(s.node, 0))
  /\ s.frozen = Cardinality(WithCount(s.node, MaxRef))

(* A count that changes moves its node from one counter to another.        *)
LEMMA CountMoves ==
  ASSUME NEW nd, IsFiniteSet(DOMAIN nd), nd \in [DOMAIN nd -> Node],
         NEW m \in DOMAIN nd, NEW c \in 0 .. MaxRef, NEW a \in 0 .. MaxRef
  PROVE  LET nd2 == SetRef(nd, m, c) IN
         /\ Cardinality(WithCount(nd, a)) \in Nat
         /\ Cardinality(WithCount(nd2, a)) = Cardinality(WithCount(nd, a))
              + OneIf(c = a) - OneIf(nd[m].ref = a)
<1> DEFINE nd2 == SetRef(nd, m, c)
           W == WithCount(nd, a)
           W2 == WithCount(nd2, a)
<1>1. IsFiniteSet(W) /\ Cardinality(W) \in Nat
  BY FS_Subset, FS_CardinalityType DEF WithCount
<1>2. /\ DOMAIN nd2 = DOMAIN nd /\ nd2[m].ref = c
      /\ \A k \in DOMAIN nd : k # m => nd2[k] = nd[k]
  BY DEF Node, SetRef
<1> HIDE DEF nd2
<1>3. W2 = IF c = a THEN W \cup {m} ELSE W \ {m}  BY <1>2 DEF WithCount
<1>4. m \in W <=> nd[m].ref = a  BY DEF WithCount
<1> HIDE DEF W, W2
<1>5. Cardinality(W2) = Cardinality(W) + OneIf(c = a) - OneIf(nd[m].ref = a)
  <2>1. /\ Cardinality(W \cup {m}) = IF m \in W THEN Cardinality(W) ELSE Cardinality(W) + 1
        /\ Cardinality(W \ {m}) = IF m \in W THEN Cardinality(W) - 1 ELSE Cardinality(W)
    BY <1>1, FS_AddElement, FS_RemoveElement
  <2> QED BY <1>1, <1>3, <1>4, <2>1 DEF OneIf
<1> QED BY <1>1, <1>5 DEF W, W2, nd2

(* One reference more, or less, held to address m.                         *)
Plus(h, m) == [h EXCEPT ![m] = @ + 1]
Less(h, m) == [h EXCEPT ![m] = @ - 1]

(* Every count is what is held plus what the nodes of S use, or has        *)
(* saturated.                                                              *)
Backed(nd, S, h) ==
  \A m \in DOMAIN nd : nd[m].ref \in {MaxRef, h[m] + Uses(nd, S, m)}

(* The links of the nodes of S lead into the store.                        *)
Linked(nd, S) ==
  \A k \in S : /\ nd[k].t \in Edge /\ Ptr(nd[k].t) \in DOMAIN nd
               /\ nd[k].e \in Edge /\ Ptr(nd[k].e) \in DOMAIN nd

(* The counts are right for the nodes of S, and references h from          *)
(* elsewhere.                                                              *)
Stage(s, S, h) ==
  /\ IsStore(s) /\ S \subseteq DOMAIN s.node \ {0}
  /\ h \in [Nat -> Nat] /\ \A m \in Nat \ DOMAIN s.node : h[m] = 0
  /\ Linked(s.node, S)
  /\ Backed(s.node, S, h)
  /\ Counted(s)

(* Two nodes with the same variable and children.                          *)
SameLink(a, b) == a.v = b.v /\ a.t = b.t /\ a.e = b.e
SameLinks(s, q) ==
  /\ SameOrder(s, q) /\ DOMAIN q.node = DOMAIN s.node
  /\ \A k \in DOMAIN s.node : SameLink(q.node[k], s.node[k])

(* What is used of a stage. A node that is used is not dead.               *)
LEMMA StageFacts ==
  ASSUME NEW s, NEW S, NEW h, Stage(s, S, h)
  PROVE  /\ IsFiniteSet(S) /\ IsFiniteSet(DOMAIN s.node) /\ DOMAIN s.node \subseteq Nat
         /\ \A m \in Nat : h[m] \in Nat /\ Uses(s.node, S, m) \in Nat
         /\ \A m \in DOMAIN s.node :
              /\ s.node[m] \in Node /\ s.node[m].ref \in 0 .. MaxRef
              /\ s.node[m].ref = MaxRef \/ s.node[m].ref = h[m] + Uses(s.node, S, m)
         /\ \A k \in S : /\ s.node[Ptr(s.node[k].t)].ref > 0
                         /\ s.node[Ptr(s.node[k].e)].ref > 0
<1>1. IsFiniteSet(S) /\ DOMAIN s.node \subseteq Nat /\ IsFiniteSet(DOMAIN s.node)
  BY FS_Subset DEF Stage, IsStore
<1>2. \A m \in Nat : h[m] \in Nat /\ Uses(s.node, S, m) \in Nat
  BY <1>1, UsesNat DEF Stage
<1>3. \A m \in DOMAIN s.node :
              /\ s.node[m] \in Node /\ s.node[m].ref \in 0 .. MaxRef
              /\ s.node[m].ref = MaxRef \/ s.node[m].ref = h[m] + Uses(s.node, S, m)
  BY DEF Stage, IsStore, Backed, Node
<1>4. ASSUME NEW k \in S
      PROVE  /\ s.node[Ptr(s.node[k].t)].ref > 0
             /\ s.node[Ptr(s.node[k].e)].ref > 0
  <2> DEFINE a == Ptr(s.node[k].t)  b == Ptr(s.node[k].e)
  <2>1. a \in DOMAIN s.node /\ b \in DOMAIN s.node  BY DEF Stage, Linked
  <2>2. Uses(s.node, S, a) > 0 /\ Uses(s.node, S, b) > 0  BY <1>1, UsesNat
  <2> HIDE DEF a, b
  <2>3. s.node[a].ref > 0 /\ s.node[b].ref > 0
    BY <1>1, <1>2, <1>3, <2>1, <2>2, StoreConstants DEF StoreConstants
  <2> QED BY <2>3 DEF a, b
<1> QED BY <1>1, <1>2, <1>3, <1>4

(* s with the count of e's node set to c, and the counters that go with it. *)
CountSet(s, e, c) ==
  LET old == s.node[Ptr(e)].ref
  IN WithRef(s, e, c, OneIf(c = 0) - OneIf(old = 0), OneIf(c = MaxRef) - OneIf(old = MaxRef))

(* Setting one count right keeps the stage.                                *)
LEMMA SetCount ==
  ASSUME NEW s, NEW S, NEW h, Stage(s, S, h), NEW e \in Edge, Ptr(e) \in DOMAIN s.node,
         NEW c \in 0 .. MaxRef, NEW g \in [Nat -> Nat],
         \A m \in Nat \ {Ptr(e)} : g[m] = h[m],
         c \in {MaxRef, g[Ptr(e)] + Uses(s.node, S, Ptr(e))}
  PROVE  /\ Stage(CountSet(s, e, c), S, g) /\ SameLinks(s, CountSet(s, e, c))
         /\ CountSet(s, e, c).node[Ptr(e)].ref = c
         /\ \A m \in DOMAIN s.node \ {Ptr(e)} : CountSet(s, e, c).node[m].ref = s.node[m].ref
<1> DEFINE p == Ptr(e)
           old == s.node[p].ref
           d == OneIf(c = 0) - OneIf(old = 0)
           f == OneIf(c = MaxRef) - OneIf(old = MaxRef)
           q == WithRef(s, e, c, d, f)
<1>0. p \in Nat /\ d \in Int /\ f \in Int /\ MaxRef \in Nat
  BY EdgeFacts, StoreConstants DEF OneIf, StoreConstants
<1>1. /\ IsStore(q) /\ SameOrder(s, q)
      /\ q.node = SetRef(s.node, p, c)
      /\ q.dead = s.dead + d /\ q.frozen = s.frozen + f
  <2>1. IsStore(s)  BY DEF Stage
  <2>2. q = WithRef(s, e, c, d, f)  OBVIOUS
  <2> HIDE DEF d, f, p, q
  <2>3. Ptr(e) \in DOMAIN s.node /\ p = Ptr(e)  BY DEF p
  <2> QED BY <1>0, <2>1, <2>2, <2>3, WithRefFields
<1>2. Counted(q)
  <2>1. /\ Cardinality(WithCount(q.node, 0)) = Cardinality(WithCount(s.node, 0)) + d
        /\ Cardinality(WithCount(s.node, 0)) \in Nat
    <3>1. /\ Cardinality(WithCount(s.node, 0)) \in Nat
          /\ Cardinality(WithCount(SetRef(s.node, p, c), 0))
               = Cardinality(WithCount(s.node, 0)) + OneIf(c = 0) - OneIf(s.node[p].ref = 0)
      BY <1>0, CountMoves DEF Stage, IsStore
    <3>2. OneIf(c = 0) \in Int /\ OneIf(old = 0) \in Int  BY DEF OneIf
    <3> HIDE DEF q
    <3> QED BY <1>1, <3>1, <3>2
  <2>2. /\ Cardinality(WithCount(q.node, MaxRef)) = Cardinality(WithCount(s.node, MaxRef)) + f
        /\ Cardinality(WithCount(s.node, MaxRef)) \in Nat
    <3>1. /\ Cardinality(WithCount(s.node, MaxRef)) \in Nat
          /\ Cardinality(WithCount(SetRef(s.node, p, c), MaxRef))
               = Cardinality(WithCount(s.node, MaxRef)) + OneIf(c = MaxRef) - OneIf(s.node[p].ref = MaxRef)
      BY <1>0, CountMoves DEF Stage, IsStore
    <3>2. OneIf(c = MaxRef) \in Int /\ OneIf(old = MaxRef) \in Int  BY DEF OneIf
    <3> HIDE DEF q
    <3> QED BY <1>1, <3>1, <3>2
  <2> HIDE DEF d, f, q
  <2> QED BY <1>0, <1>1, <2>1, <2>2 DEF Stage, Counted
<1> HIDE DEF d, f, q
<1>3. /\ DOMAIN q.node = DOMAIN s.node /\ q.node[p].ref = c
      /\ \A m \in DOMAIN s.node : /\ SameLink(q.node[m], s.node[m])
                                  /\ m # p => q.node[m].ref = s.node[m].ref
  BY <1>1 DEF Stage, IsStore, Node, SameLink, SetRef
<1>4. S \subseteq DOMAIN s.node  BY DEF Stage
<1>5. \A m : Uses(q.node, S, m) = Uses(s.node, S, m)
  BY <1>3, <1>4, UsesSame DEF SameLink
<1>6. Backed(q.node, S, g)
  <2> SUFFICES ASSUME NEW m \in DOMAIN s.node
               PROVE  q.node[m].ref \in {MaxRef, g[m] + Uses(s.node, S, m)}
    BY <1>3, <1>5 DEF Backed
  <2>1. CASE m = p  BY <1>3, <2>1
  <2>2. CASE m # p
    <3>1. m \in Nat /\ g[m] = h[m]  BY <2>2 DEF Stage, IsStore
    <3> QED BY <1>3, <2>2, <3>1 DEF Stage, Backed
  <2> QED BY <2>1, <2>2
<1>7. Linked(q.node, S)  BY <1>3, <1>4 DEF Stage, Linked, SameLink
<1>8. \A m \in Nat \ DOMAIN q.node : g[m] = 0  BY <1>3 DEF Stage
<1>9. Stage(q, S, g)  BY <1>1, <1>2, <1>3, <1>6, <1>7, <1>8 DEF Stage
<1>10. q = CountSet(s, e, c)  BY DEF q, d, f, CountSet
<1> QED BY <1>1, <1>3, <1>9, <1>10 DEF SameLinks

(* BDD_INCR_REF: one reference more is held.                               *)
LEMMA IncrStage ==
  ASSUME NEW s, NEW S, NEW h, Stage(s, S, h), NEW e \in Edge, Ptr(e) \in DOMAIN s.node
  PROVE  /\ Stage(IncrRef(s, e), S, Plus(h, Ptr(e))) /\ SameLinks(s, IncrRef(s, e))
         /\ \A m \in DOMAIN s.node : IncrRef(s, e).node[m].ref >= s.node[m].ref
         /\ \A m \in DOMAIN s.node \ {Ptr(e)} : IncrRef(s, e).node[m].ref = s.node[m].ref
         /\ IncrRef(s, e).node[Ptr(e)].ref > 0
<1> DEFINE p == Ptr(e)
           old == s.node[p].ref
           g == Plus(h, p)
<1>0. MaxRef \in Nat \ {0, 1} /\ p \in Nat  BY StoreConstants, EdgeFacts DEF StoreConstants
<1>1. /\ old \in 0 .. MaxRef /\ (old = MaxRef \/ old = h[p] + Uses(s.node, S, p))
      /\ h[p] \in Nat /\ Uses(s.node, S, p) \in Nat
  BY <1>0, StageFacts
<1>2. /\ g \in [Nat -> Nat] /\ g[p] = h[p] + 1
      /\ \A m \in Nat \ {p} : g[m] = h[m]
  BY <1>0 DEF Stage, Plus
<1>3. IncrRef(s, e) = IF old = MaxRef THEN s
                      ELSE WithRef(s, e, old + 1, -OneIf(old = 0), OneIf(old + 1 = MaxRef))
  BY EdgeFacts DEF IncrRef, IncrFrom, Ref, At
<1> HIDE DEF g, old
<1>4. CASE old = MaxRef
  <2>1. Backed(s.node, S, g)
    <3> SUFFICES ASSUME NEW m \in DOMAIN s.node
                 PROVE  s.node[m].ref \in {MaxRef, g[m] + Uses(s.node, S, m)}
      BY DEF Backed
    <3>1. CASE m = p  BY <1>4, <3>1 DEF old
    <3>2. CASE m # p
      <4>1. m \in Nat /\ g[m] = h[m]  BY <1>2, <3>2 DEF Stage, IsStore
      <4> QED BY <4>1 DEF Stage, Backed
    <3> QED BY <3>1, <3>2
  <2>2. \A m \in Nat \ DOMAIN s.node : g[m] = 0  BY <1>2 DEF Stage
  <2>3. Stage(s, S, g)  BY <1>2, <2>1, <2>2 DEF Stage
  <2>4. SameLinks(s, s)  BY DEF SameLinks, SameOrder, SameLink
  <2>5. \A m \in DOMAIN s.node : s.node[m].ref >= s.node[m].ref  BY StageFacts
  <2> QED BY <1>0, <1>3, <1>4, <2>3, <2>4, <2>5 DEF g, old
<1>5. CASE old # MaxRef
  <2> DEFINE c == old + 1
             q == CountSet(s, e, c)
  <2>1. c \in 0 .. MaxRef /\ c = g[p] + Uses(s.node, S, p)  BY <1>0, <1>1, <1>2, <1>5
  <2>2. /\ Stage(q, S, g) /\ SameLinks(s, q) /\ q.node[p].ref = c
        /\ \A m \in DOMAIN s.node \ {p} : q.node[m].ref = s.node[m].ref
    <3> HIDE DEF c
    <3> QED BY <1>2, <2>1, SetCount
  <2>3. IncrRef(s, e) = q
    <3>1. OneIf(c = 0) - OneIf(old = 0) = -OneIf(old = 0)  BY <1>1 DEF OneIf
    <3>2. OneIf(c = MaxRef) - OneIf(old = MaxRef) = OneIf(old + 1 = MaxRef)
      BY <1>1, <1>5 DEF OneIf
    <3>3. q = WithRef(s, e, c, OneIf(c = 0) - OneIf(old = 0),
                               OneIf(c = MaxRef) - OneIf(old = MaxRef))
      BY DEF CountSet, old
    <3> QED BY <1>3, <1>5, <3>1, <3>2, <3>3
  <2> HIDE DEF q
  <2>4. \A m \in DOMAIN s.node : q.node[m].ref >= s.node[m].ref
    BY <1>1, <2>2, StageFacts DEF old
  <2>5. q.node[p].ref > 0  BY <1>1, <2>2
  <2> QED BY <2>2, <2>3, <2>4, <2>5 DEF g
<1> QED BY <1>4, <1>5

(* BDD_DECR_REF: one reference less is held; there must be one.            *)
LEMMA DecrStage ==
  ASSUME NEW s, NEW S, NEW h, Stage(s, S, h), NEW e \in Edge, Ptr(e) \in DOMAIN s.node,
         h[Ptr(e)] > 0
  PROVE  /\ Stage(DecrRef(s, e), S, Less(h, Ptr(e))) /\ SameLinks(s, DecrRef(s, e))
         /\ \A m \in DOMAIN s.node \ {Ptr(e)} : DecrRef(s, e).node[m].ref = s.node[m].ref
<1> DEFINE p == Ptr(e)
           old == s.node[p].ref
           g == Less(h, p)
<1>0. MaxRef \in Nat \ {0, 1} /\ p \in Nat  BY StoreConstants, EdgeFacts DEF StoreConstants
<1>1. /\ old \in 0 .. MaxRef /\ (old = MaxRef \/ old = h[p] + Uses(s.node, S, p))
      /\ h[p] \in Nat \ {0} /\ Uses(s.node, S, p) \in Nat
  BY <1>0, StageFacts
<1>2. /\ g \in [Nat -> Nat] /\ g[p] = h[p] - 1
      /\ \A m \in Nat \ {p} : g[m] = h[m]
  <2>1. h \in [Nat -> Nat]  BY DEF Stage
  <2> QED BY <1>0, <1>1, <2>1 DEF Less
<1>3. DecrRef(s, e) = IF old = MaxRef THEN s ELSE WithRef(s, e, old - 1, OneIf(old = 1), 0)
  BY EdgeFacts DEF DecrRef, DecrFrom, Ref, At
<1> HIDE DEF g, old
<1>4. CASE old = MaxRef
  <2>1. Backed(s.node, S, g)
    <3> SUFFICES ASSUME NEW m \in DOMAIN s.node
                 PROVE  s.node[m].ref \in {MaxRef, g[m] + Uses(s.node, S, m)}
      BY DEF Backed
    <3>1. CASE m = p  BY <1>4, <3>1 DEF old
    <3>2. CASE m # p
      <4>1. m \in Nat /\ g[m] = h[m]  BY <1>2, <3>2 DEF Stage, IsStore
      <4> QED BY <4>1 DEF Stage, Backed
    <3> QED BY <3>1, <3>2
  <2>2. \A m \in Nat \ DOMAIN s.node : g[m] = 0  BY <1>2 DEF Stage
  <2>3. Stage(s, S, g)  BY <1>2, <2>1, <2>2 DEF Stage
  <2>4. SameLinks(s, s)  BY DEF SameLinks, SameOrder, SameLink
  <2> QED BY <1>3, <1>4, <2>3, <2>4 DEF g
<1>5. CASE old # MaxRef
  <2> DEFINE c == old - 1
             q == CountSet(s, e, c)
  <2>1. c \in 0 .. MaxRef /\ c = g[p] + Uses(s.node, S, p)  BY <1>0, <1>1, <1>2, <1>5
  <2>2. /\ Stage(q, S, g) /\ SameLinks(s, q)
        /\ \A m \in DOMAIN s.node \ {p} : q.node[m].ref = s.node[m].ref
    <3> HIDE DEF c
    <3> QED BY <1>2, <2>1, SetCount
  <2>3. DecrRef(s, e) = q
    <3>1. OneIf(c = 0) - OneIf(old = 0) = OneIf(old = 1)  BY <1>1, <1>5 DEF OneIf
    <3>2. OneIf(c = MaxRef) - OneIf(old = MaxRef) = 0  BY <1>1, <1>5 DEF OneIf
    <3>3. q = WithRef(s, e, c, OneIf(c = 0) - OneIf(old = 0),
                               OneIf(c = MaxRef) - OneIf(old = MaxRef))
      BY DEF CountSet, old
    <3> QED BY <1>3, <1>5, <3>1, <3>2, <3>3
  <2> HIDE DEF q
  <2> QED BY <2>2, <2>3 DEF g
<1> QED BY <1>4, <1>5

(* One reference, taken and given back.                                    *)
LEMMA PlusFacts ==
  ASSUME NEW h \in [Nat -> Nat], NEW a \in Nat
  PROVE  /\ Plus(h, a) \in [Nat -> Nat]
         /\ \A m \in Nat : Plus(h, a)[m] = IF a = m THEN h[m] + 1 ELSE h[m]
         /\ Less(Plus(h, a), a) = h
<1> DEFINE g == Plus(h, a)
<1>1. g \in [Nat -> Nat]  BY DEF Plus
<1>2. \A m \in Nat : g[m] = IF a = m THEN h[m] + 1 ELSE h[m]  BY DEF Plus
<1> HIDE DEF g
<1>3. Less(g, a) = [m \in Nat |-> IF m = a THEN g[a] - 1 ELSE g[m]]
  BY <1>1 DEF Less
<1>4. Less(g, a) = h  BY <1>1, <1>2, <1>3
<1> QED BY <1>1, <1>2, <1>4 DEF g

(* Two references more.                                                    *)
Two(h, a, b) == Plus(Plus(h, a), b)

TwoAt(h, a, b, m) == h[m] + (IF a = m THEN 1 ELSE 0) + (IF b = m THEN 1 ELSE 0)

(* Two references, taken, and one given back.                              *)
LEMMA PlusTwo ==
  ASSUME NEW h \in [Nat -> Nat], NEW a \in Nat, NEW b \in Nat
  PROVE  /\ Two(h, a, b) \in [Nat -> Nat]
         /\ \A m \in Nat : Two(h, a, b)[m] = TwoAt(h, a, b, m)
         /\ Less(Two(h, a, b), a) = Plus(h, b)
<1> DEFINE p == Plus(h, a)  q == Plus(h, b)  f == Plus(q, a)  g == Plus(p, b)
<1>1. /\ p \in [Nat -> Nat] /\ \A m \in Nat : p[m] = IF a = m THEN h[m] + 1 ELSE h[m]
      /\ q \in [Nat -> Nat] /\ \A m \in Nat : q[m] = IF b = m THEN h[m] + 1 ELSE h[m]
  BY PlusFacts
<1> HIDE DEF p, q
<1>2. /\ g \in [Nat -> Nat] /\ \A m \in Nat : g[m] = IF b = m THEN p[m] + 1 ELSE p[m]
      /\ f \in [Nat -> Nat] /\ \A m \in Nat : f[m] = IF a = m THEN q[m] + 1 ELSE q[m]
      /\ Less(f, a) = q
  BY <1>1, PlusFacts
<1> HIDE DEF f, g
<1>3. \A m \in Nat : g[m] = h[m] + (IF a = m THEN 1 ELSE 0) + (IF b = m THEN 1 ELSE 0)
  BY <1>1, <1>2
<1>4. \A m \in Nat : f[m] = g[m]  BY <1>1, <1>2, <1>3
<1>5. f = g  BY <1>2, <1>4
<1>6. Two(h, a, b) = g  BY DEF Two, g, p
<1> QED BY <1>2, <1>3, <1>5, <1>6 DEF q, TwoAt

(* A node taken out of its table: its links are references that somebody   *)
(* holds.                                                                  *)
LEMMA DetachStage ==
  ASSUME NEW s, NEW S, NEW h, Stage(s, S, h), NEW k \in S
  PROVE  Stage(s, S \ {k}, Two(h, Ptr(s.node[k].t), Ptr(s.node[k].e)))
<1> DEFINE a == Ptr(s.node[k].t)  b == Ptr(s.node[k].e)
           S1 == S \ {k}
           g == Two(h, a, b)
<1>1. a \in DOMAIN s.node /\ b \in DOMAIN s.node /\ a \in Nat /\ b \in Nat
  BY DEF Stage, Linked, IsStore
<1>2. IsFiniteSet(S1) /\ k \notin S1 /\ S = S1 \cup {k}
  BY StageFacts, FS_RemoveElement
<1>3. ASSUME NEW m \in Nat
      PROVE  Uses(s.node, S, m) = Uses(s.node, S1, m) + OneIf(a = m) + OneIf(b = m)
  <2> HIDE DEF S1
  <2> QED BY <1>2, UsesAdd
<1>4. /\ g \in [Nat -> Nat]
      /\ \A m \in Nat : g[m] = h[m] + OneIf(a = m) + OneIf(b = m)
  <2>1. h \in [Nat -> Nat]  BY DEF Stage
  <2>2. g = Two(h, a, b)  OBVIOUS
  <2> HIDE DEF a, b, g
  <2>3. /\ Two(h, a, b) \in [Nat -> Nat]
        /\ \A m \in Nat : Two(h, a, b)[m] = TwoAt(h, a, b, m)
    BY <1>1, <2>1, PlusTwo
  <2> QED BY <2>2, <2>3 DEF OneIf, TwoAt
<1>5. \A m \in Nat : Uses(s.node, S1, m) \in Nat /\ h[m] \in Nat
  BY <1>2, UsesNat DEF Stage
<1> HIDE DEF g, a, b, S1
<1>6. ASSUME NEW m \in DOMAIN s.node
      PROVE  s.node[m].ref \in {MaxRef, g[m] + Uses(s.node, S1, m)}
  <2>1. m \in Nat  BY DEF Stage, IsStore
  <2>2. s.node[m].ref \in {MaxRef, h[m] + Uses(s.node, S, m)}  BY DEF Stage, Backed
  <2>4. OneIf(a = m) \in Nat /\ OneIf(b = m) \in Nat  BY DEF OneIf
  <2>3. g[m] + Uses(s.node, S1, m) = h[m] + Uses(s.node, S, m)
    BY <1>3, <1>4, <1>5, <2>1, <2>4
  <2> QED BY <2>2, <2>3
<1>7. \A m \in Nat \ DOMAIN s.node : g[m] = 0
  BY <1>1, <1>4 DEF Stage, OneIf
<1>8. Stage(s, S1, g)
  BY <1>2, <1>4, <1>6, <1>7 DEF Stage, Backed, Linked
<1> QED BY <1>8 DEF g, a, b, S1

(* A node put in its table: the references it was given are its links.     *)
LEMMA AttachStage ==
  ASSUME NEW s, NEW S, NEW h \in [Nat -> Nat], NEW k \in DOMAIN s.node \ {0}, k \notin S,
         s.node[k].t \in Edge, Ptr(s.node[k].t) \in DOMAIN s.node,
         s.node[k].e \in Edge, Ptr(s.node[k].e) \in DOMAIN s.node,
         Stage(s, S, Two(h, Ptr(s.node[k].t), Ptr(s.node[k].e)))
  PROVE  Stage(s, S \cup {k}, h)
<1> DEFINE a == Ptr(s.node[k].t)  b == Ptr(s.node[k].e)
           S1 == S \cup {k}
           g == Two(h, a, b)
<1>1. a \in Nat /\ b \in Nat  BY DEF Stage, IsStore
<1>2. IsFiniteSet(S)  BY StageFacts
<1>3. ASSUME NEW m \in Nat
      PROVE  Uses(s.node, S1, m) = Uses(s.node, S, m) + OneIf(a = m) + OneIf(b = m)
  BY <1>2, UsesAdd
<1>4. /\ g \in [Nat -> Nat]
      /\ \A m \in Nat : g[m] = h[m] + OneIf(a = m) + OneIf(b = m)
  <2>2. g = Two(h, a, b)  OBVIOUS
  <2> HIDE DEF a, b, g
  <2>3. /\ Two(h, a, b) \in [Nat -> Nat]
        /\ \A m \in Nat : Two(h, a, b)[m] = TwoAt(h, a, b, m)
    BY <1>1, PlusTwo
  <2> QED BY <2>2, <2>3 DEF OneIf, TwoAt
<1>5. \A m \in Nat : Uses(s.node, S, m) \in Nat /\ h[m] \in Nat
  BY <1>2, UsesNat
<1>6. Stage(s, S, g)  OBVIOUS
<1>0. a \in DOMAIN s.node /\ b \in DOMAIN s.node  OBVIOUS
<1> HIDE DEF g, a, b, S1
<1>7. ASSUME NEW m \in DOMAIN s.node
      PROVE  s.node[m].ref \in {MaxRef, h[m] + Uses(s.node, S1, m)}
  <2>1. m \in Nat  BY DEF Stage, IsStore
  <2>2. s.node[m].ref \in {MaxRef, g[m] + Uses(s.node, S, m)}  BY <1>6 DEF Stage, Backed
  <2>4. OneIf(a = m) \in Nat /\ OneIf(b = m) \in Nat  BY DEF OneIf
  <2>3. g[m] + Uses(s.node, S, m) = h[m] + Uses(s.node, S1, m)
    BY <1>3, <1>4, <1>5, <2>1, <2>4
  <2> QED BY <2>2, <2>3
<1>8. \A m \in Nat \ DOMAIN s.node : h[m] = 0
  <2> SUFFICES ASSUME NEW m \in Nat \ DOMAIN s.node PROVE h[m] = 0  OBVIOUS
  <2>1. a # m /\ b # m  BY <1>0
  <2>2. OneIf(a = m) = 0 /\ OneIf(b = m) = 0  BY <2>1 DEF OneIf
  <2>3. g[m] = 0  BY <1>6 DEF Stage
  <2>4. g[m] = h[m] + OneIf(a = m) + OneIf(b = m) /\ h[m] \in Nat  BY <1>4, <1>5
  <2> QED BY <2>2, <2>3, <2>4
<1>9. Linked(s.node, S1)  BY <1>6 DEF Stage, Linked, S1
<1>10. Stage(s, S1, h)
  BY <1>6, <1>7, <1>8, <1>9 DEF Stage, Backed, S1
<1> QED BY <1>10 DEF S1

(* A table is the function it is made of.                                  *)
LEMMA TableSame ==
  ASSUME NEW f
  PROVE  Table(f) = f
BY DEF Table

(* bdd_local_gc: a dead node is unlinked, and its children given up.       *)
(* Nobody uses it.                                                         *)
LEMMA RemoveStage ==
  ASSUME NEW s, NEW S, NEW h, Stage(s, S, h), NEW e \in Edge, Ptr(e) \in S,
         s.node[Ptr(e)].ref = 0
  PROVE  LET q == LocalGc(s, e)
             f == Ptr(e)
         IN /\ Stage(q, S \ {f}, h) /\ SameOrder(s, q)
            /\ DOMAIN q.node = DOMAIN s.node \ {f} /\ h[f] = 0
            /\ \A m \in DOMAIN q.node :
                 /\ SameLink(q.node[m], s.node[m])
                 /\ m \notin {Ptr(s.node[f].t), Ptr(s.node[f].e)} =>
                      q.node[m].ref = s.node[m].ref
            /\ \A k \in S : Ptr(s.node[k].t) # f /\ Ptr(s.node[k].e) # f
<1> DEFINE f == Ptr(e)
           t == s.node[f].t
           u == s.node[f].e
           a == Ptr(t)
           b == Ptr(u)
           S1 == S \ {f}
           g == Two(h, a, b)
           s1 == DecrRef(s, t)
           s2 == DecrRef(s1, u)
           q == LocalGc(s, e)
<1>0. MaxRef \in Nat \ {0, 1}  BY StoreConstants DEF StoreConstants
<1>1. /\ f \in DOMAIN s.node /\ f \in Nat /\ f # 0 /\ t \in Edge /\ u \in Edge
      /\ a \in DOMAIN s.node /\ b \in DOMAIN s.node /\ a \in Nat /\ b \in Nat
      /\ h \in [Nat -> Nat]
  BY DEF Stage, Linked, IsStore
<1>2. /\ Uses(s.node, S, f) = 0 /\ h[f] = 0
      /\ \A k \in S : Ptr(s.node[k].t) # f /\ Ptr(s.node[k].e) # f
  <2>1. h[f] + Uses(s.node, S, f) = 0 /\ h[f] \in Nat /\ Uses(s.node, S, f) \in Nat
    BY <1>0, <1>1, StageFacts
  <2>2. \A k \in S : Ptr(s.node[k].t) # f /\ Ptr(s.node[k].e) # f
    BY <2>1, StageFacts, UsesNat
  <2> QED BY <2>1, <2>2
<1>3. Stage(s, S1, g)  BY DetachStage
<1>4. /\ g[a] > 0 /\ Less(g, a) = Plus(h, b)
      /\ Plus(h, b)[b] > 0 /\ Less(Plus(h, b), b) = h
  <2> DEFINE p == Plus(h, b)
  <2>1. g = Two(h, a, b) /\ p = Plus(h, b)  OBVIOUS
  <2> HIDE DEF a, b, g, p
  <2>8. /\ \A m \in Nat : Two(h, a, b)[m] = TwoAt(h, a, b, m)
        /\ Less(Two(h, a, b), a) = Plus(h, b)
    BY <1>1, PlusTwo
  <2>2. /\ \A m \in Nat : g[m] = h[m] + (IF a = m THEN 1 ELSE 0) + (IF b = m THEN 1 ELSE 0)
        /\ Less(g, a) = p
    BY <2>1, <2>8 DEF TwoAt
  <2>3. \A m \in Nat : p[m] = IF b = m THEN h[m] + 1 ELSE h[m]  BY <1>1, <2>1, PlusFacts
  <2>4. Less(p, b) = h  BY <1>1, <2>1, PlusFacts
  <2>5. h[a] \in Nat /\ h[b] \in Nat  BY <1>1
  <2>6. g[a] > 0  BY <1>1, <2>2, <2>5
  <2>7. p[b] > 0  BY <1>1, <2>3, <2>5
  <2> QED BY <2>1, <2>2, <2>4, <2>6, <2>7
<1> HIDE DEF g
<1>5. /\ Stage(s1, S1, Plus(h, b)) /\ SameLinks(s, s1)
      /\ \A m \in DOMAIN s.node \ {a} : s1.node[m].ref = s.node[m].ref
  BY <1>1, <1>3, <1>4, DecrStage
<1>6. b \in DOMAIN s1.node  BY <1>1, <1>5 DEF SameLinks
<1> HIDE DEF s1
<1>7. /\ Stage(s2, S1, h) /\ SameLinks(s1, s2)
      /\ \A m \in DOMAIN s1.node \ {b} : s2.node[m].ref = s1.node[m].ref
  BY <1>1, <1>4, <1>5, <1>6, DecrStage, SMTT(40)
<1> HIDE DEF s2
<1>8. /\ SameOrder(s, s2) /\ DOMAIN s2.node = DOMAIN s.node
      /\ \A m \in DOMAIN s.node : SameLink(s2.node[m], s.node[m])
      /\ \A m \in DOMAIN s.node \ {a, b} : s2.node[m].ref = s.node[m].ref
  BY <1>5, <1>7 DEF SameLinks, SameOrder, SameLink
<1>9. a # f /\ b # f /\ s2.node[f].ref = 0  BY <1>1, <1>2, <1>8
<1>10. /\ q.node = [n \in DOMAIN s.node \ {f} |-> s2.node[n]] /\ q.dead = s2.dead - 1
       /\ q.frozen = s2.frozen /\ SameOrder(s2, q)
  <2> DEFINE nd == [n \in DOMAIN s2.node \ {f} |-> s2.node[n]]
  <2>1. Table(nd) = nd  BY TableSame
  <2>2. q = [s2 EXCEPT !.node = Table([n \in DOMAIN @ \ {f} |-> @[n]]), !.dead = @ - 1]
    BY DEF LocalGc, s2, s1, At
  <2>3. q = [s2 EXCEPT !.node = nd, !.dead = @ - 1]
    BY <1>7, <2>1, <2>2 DEF Stage, IsStore
  <2>4. IsStore(s2)  BY <1>7 DEF Stage
  <2> HIDE DEF nd, q
  <2>5. q.node = nd /\ q.dead = s2.dead - 1 /\ q.frozen = s2.frozen /\ SameOrder(s2, q)
    BY <2>3, <2>4 DEF IsStore, SameOrder
  <2> QED BY <1>8, <2>5 DEF nd
<1> HIDE DEF q
<1>11. IsStore(q)
  <2>1. IsFiniteSet(DOMAIN s.node \ {f})  BY <1>3, StageFacts, FS_RemoveElement
  <2>2. IsStore(s2)  BY <1>7 DEF Stage
  <2> QED BY <1>1, <1>8, <1>10, <2>1, <2>2 DEF IsStore, SameOrder
<1>12. Counted(q)
  <2> DEFINE W(nd, c) == WithCount(nd, c)
  <2>1. WithCount(q.node, 0) = WithCount(s2.node, 0) \ {f}  BY <1>8, <1>10 DEF WithCount
  <2>2. WithCount(q.node, MaxRef) = WithCount(s2.node, MaxRef)
    BY <1>0, <1>8, <1>9, <1>10 DEF WithCount
  <2>3. IsFiniteSet(WithCount(s2.node, 0)) /\ f \in WithCount(s2.node, 0)
    BY <1>1, <1>7, <1>8, <1>9, StageFacts, FS_Subset DEF WithCount
  <2>4. /\ Cardinality(WithCount(q.node, 0)) = Cardinality(WithCount(s2.node, 0)) - 1
        /\ Cardinality(WithCount(s2.node, 0)) \in Nat
    BY <2>1, <2>3, FS_RemoveElement, FS_CardinalityType
  <2>5. Counted(s2) /\ s2.dead \in Int  BY <1>7 DEF Stage, IsStore
  <2> QED BY <1>10, <2>2, <2>4, <2>5 DEF Counted
<1>13. Linked(q.node, S1)
  <2>1. Linked(s2.node, S1) /\ S1 \subseteq DOMAIN s2.node  BY <1>7 DEF Stage
  <2> QED BY <1>2, <1>8, <1>10, <2>1 DEF Linked, SameLink
<1>14. Backed(q.node, S1, h)
  <2>1. Backed(s2.node, S1, h)  BY <1>7 DEF Stage
  <2>2. \A m : Uses(q.node, S1, m) = Uses(s2.node, S1, m)
    BY <1>1, <1>7, <1>8, <1>10, UsesSame DEF Stage
  <2> QED BY <1>8, <1>10, <2>1, <2>2 DEF Backed
<1>15. Stage(q, S1, h)
  BY <1>1, <1>2, <1>7, <1>8, <1>10, <1>11, <1>12, <1>13, <1>14 DEF Stage
<1>16. SameOrder(s, q)  BY <1>8, <1>10 DEF SameOrder
<1>17. \A m \in DOMAIN q.node :
                 /\ SameLink(q.node[m], s.node[m])
                 /\ m \notin {a, b} => q.node[m].ref = s.node[m].ref
  BY <1>8, <1>10
<1> QED BY <1>2, <1>10, <1>15, <1>16, <1>17 DEF q

(* A set of positions has a first one.                                     *)
LEMMA LeastElement ==
  ASSUME NEW k \in Nat, NEW S \in SUBSET (1..k), S # {}
  PROVE  \E x \in S : \A y \in S : x <= y
<1> DEFINE R == StrictSubsetOrdering(1..k)
           T == {S \cap (1..m) : m \in S}
<1>1. IsFiniteSet(1..k)  BY FS_Interval
<1>2. FiniteSubsetsOf(1..k) = SUBSET (1..k)  BY <1>1, FS_FiniteSubsetsOfFinite
<1>3. IsWellFoundedOn(R, SUBSET (1..k))
  BY <1>2, FS_StrictSubsetOrderingWellFounded
<1>4. T \subseteq SUBSET (1..k) /\ T # {}  OBVIOUS
<1>5. PICK t \in T : \A u \in T : ~ (<<u, t>> \in R)
  <2> HIDE DEF R, T
  <2> QED BY <1>3, <1>4, WFMin
<1>6. PICK m \in S : t = S \cap (1..m)  BY <1>5
<1>7. ASSUME NEW y \in S PROVE m <= y
  <2>1. SUFFICES ASSUME y < m PROVE FALSE  OBVIOUS
  <2> DEFINE u == S \cap (1..y)
  <2>2. u \in T /\ u \subseteq t /\ m \in t /\ m \notin u
    BY <1>6, <2>1
  <2>3. <<u, t>> \in R
    BY <1>4, <1>5, <2>2 DEF StrictSubsetOrdering
  <2> QED BY <1>5, <2>2, <2>3
<1> QED BY <1>7

(* bdd_alloc hands out an address that is not in use.                      *)
LEMMA FreshIsFresh ==
  ASSUME NEW s, IsStore(s)
  PROVE  FreshAddress(s) \in Nat \ {0} /\ FreshAddress(s) \notin DOMAIN s.node
<1> DEFINE D == DOMAIN s.node
           K == NrItems(s)
           F == {n \in 1 .. K + 1 : n \notin D}
<1>1. D \subseteq Nat /\ IsFiniteSet(D) /\ 0 \in D  BY DEF IsStore
<1>2. IsFiniteSet(D \ {0}) /\ K = Cardinality(D \ {0}) /\ K \in Nat
      /\ Cardinality(D) = K + 1
  <2>1. IsFiniteSet(D \ {0}) /\ Cardinality(D \ {0}) = Cardinality(D) - 1
    BY <1>1, FS_RemoveElement
  <2>2. Cardinality(D) \in Nat /\ Cardinality(D \ {0}) \in Nat
    BY <1>1, <2>1, FS_CardinalityType
  <2> QED BY <2>1, <2>2 DEF NrItems, Nodes
<1> HIDE DEF D, K
<1>3. F # {}
  <2>1. SUFFICES ASSUME F = {} PROVE FALSE  OBVIOUS
  <2>2. 0 .. K + 1 \subseteq D  BY <1>1, <1>2, <2>1
  <2>3. Cardinality(0 .. K + 1) = K + 2  BY <1>2, FS_Interval
  <2>4. Cardinality(0 .. K + 1) <= Cardinality(D)  BY <1>1, <2>2, FS_Subset
  <2> QED BY <1>2, <2>3, <2>4
<1>4. PICK x \in F : \A y \in F : x <= y
  <2>1. F \in SUBSET (1 .. K + 1) /\ K + 1 \in Nat  BY <1>2
  <2> HIDE DEF F
  <2> QED BY <1>3, <2>1, LeastElement
<1>5. x \in 0 .. K + 1 /\ x \notin D /\ \A m \in 0 .. x - 1 : m \in D
  <2>1. ASSUME NEW m \in 0 .. x - 1, m \notin D PROVE FALSE
    <3>1. m \in F  BY <1>1, <1>2, <2>1
    <3> QED BY <1>2, <1>4, <3>1
  <2> QED BY <1>2, <1>4, <2>1
<1>6. FreshAddress(s) \in 0 .. K + 1 /\ FreshAddress(s) \notin D
  BY <1>5 DEF FreshAddress, K, D
<1> QED BY <1>1, <1>2, <1>6 DEF D

(* q has the nodes of s, with counts no lower, and maybe others.           *)
Keeps(s, q) ==
  /\ SameOrder(s, q) /\ DOMAIN s.node \subseteq DOMAIN q.node
  /\ \A m \in DOMAIN s.node : /\ SameLink(q.node[m], s.node[m])
                              /\ q.node[m].ref >= s.node[m].ref

(* This is transitive.                                                     *)
LEMMA KeepsChain ==
  ASSUME NEW s, IsStore(s), NEW q, IsStore(q), NEW p, IsStore(p), Keeps(s, q), Keeps(q, p)
  PROVE  Keeps(s, p)
<1>1. /\ \A m \in DOMAIN s.node : s.node[m].ref \in Int
      /\ \A m \in DOMAIN q.node : q.node[m].ref \in Int
      /\ \A m \in DOMAIN p.node : p.node[m].ref \in Int
  BY DEF IsStore, Node
<1> QED BY <1>1 DEF Keeps, SameOrder, SameLink

(* p is s with a new node n, which is held once and uses its children.     *)
Allocates(s, S, h, v, T, E, n, p) ==
  /\ n \in Nat \ {0} /\ n \notin DOMAIN s.node /\ p.r = 2 * n
  /\ Stage(p.s, S \cup {n}, Plus(h, n)) /\ Keeps(s, p.s)
  /\ DOMAIN p.s.node = DOMAIN s.node \cup {n}
  /\ p.s.node[n].v = v /\ p.s.node[n].t = T /\ p.s.node[n].e = E
  /\ p.s.node[n].ref > 0
  /\ p.s.node[Ptr(T)].ref > 0 /\ p.s.node[Ptr(E)].ref > 0
  /\ \A m \in DOMAIN s.node \ {Ptr(T), Ptr(E)} : p.s.node[m].ref = s.node[m].ref

(* bdd_create_node_1, a new node.                                          *)
LEMMA AllocStage ==
  ASSUME NEW s, NEW S, NEW h, Stage(s, S, h), NEW v \in Int,
         NEW T \in Edge, Ptr(T) \in DOMAIN s.node,
         NEW E \in Edge, Ptr(E) \in DOMAIN s.node
  PROVE  Allocates(s, S, h, v, T, E, FreshAddress(s), AllocNode(s, v, T, E))
<1> DEFINE n == FreshAddress(s)
           new == [v |-> v, t |-> T, e |-> E, ref |-> 1]
           a == Ptr(T)
           b == Ptr(E)
           g == Plus(h, n)
           s0 == [s EXCEPT !.node = Table(WithNode(@, n, new))]
           s1 == IncrRef(s0, T)
           s2 == IncrRef(s1, E)
<1>0. MaxRef \in Nat \ {0, 1}  BY StoreConstants DEF StoreConstants
<1>1. IsStore(s) /\ h \in [Nat -> Nat]  BY DEF Stage
<1>2. n \in Nat \ {0} /\ n \notin DOMAIN s.node  BY <1>1, FreshIsFresh
<1> HIDE DEF n
<1>3. a \in DOMAIN s.node /\ b \in DOMAIN s.node /\ a \in Nat /\ b \in Nat
  BY <1>1 DEF IsStore
<1>4. new \in Node /\ new.v = v /\ new.t = T /\ new.e = E /\ new.ref = 1
  BY <1>0 DEF Node, Edge
<1> HIDE DEF new
<1>5. s0.node = WithNode(s.node, n, new) /\ s0.dead = s.dead /\ s0.frozen = s.frozen
      /\ SameOrder(s, s0)
  BY <1>1, TableSame DEF IsStore, SameOrder
<1>6. AllocNode(s, v, T, E) = Pair(s2, 2 * n)
  <2>1. AllocNode(s, v, T, E) = LinkNode(s, n, new)  BY DEF AllocNode, n, new
  <2> QED BY <1>4, <2>1 DEF LinkNode
<1> HIDE DEF s0
<1>7. /\ DOMAIN s0.node = DOMAIN s.node \cup {n} /\ s0.node[n] = new
      /\ \A m \in DOMAIN s.node : s0.node[m] = s.node[m]
      /\ s0.node \in [DOMAIN s0.node -> Node]
  BY <1>1, <1>2, <1>4, <1>5 DEF WithNode, IsStore
<1>8. IsStore(s0)
  <2>1. IsFiniteSet(DOMAIN s0.node)  BY <1>1, <1>7, FS_AddElement DEF IsStore
  <2> QED BY <1>1, <1>2, <1>5, <1>7, <2>1 DEF IsStore, SameOrder
<1>9. /\ g \in [Nat -> Nat] /\ g[n] = 1
      /\ \A m \in Nat \ {n} : g[m] = h[m]
  <2>1. h[n] = 0  BY <1>2 DEF Stage
  <2>2. g = Plus(h, n)  OBVIOUS
  <2> HIDE DEF g
  <2>3. /\ Plus(h, n) \in [Nat -> Nat]
        /\ \A m \in Nat : Plus(h, n)[m] = IF n = m THEN h[m] + 1 ELSE h[m]
    BY <1>1, <1>2, PlusFacts
  <2> QED BY <1>2, <2>1, <2>2, <2>3
<1>10. Stage(s0, S, g)
  <2>1. S \subseteq DOMAIN s.node \ {0} /\ IsFiniteSet(S)  BY StageFacts DEF Stage
  <2>2. \A m : Uses(s0.node, S, m) = Uses(s.node, S, m)  BY <1>7, <2>1, UsesSame
  <2>3. Linked(s0.node, S)  BY <1>7, <2>1 DEF Stage, Linked
  <2>4. Uses(s0.node, S, n) = 0
    <3>1. \A k \in S : Ptr(s.node[k].t) # n /\ Ptr(s.node[k].e) # n
      BY <1>2 DEF Stage, Linked
    <3>2. Uses(s.node, S, n) = 0  BY <2>1, <3>1, UsesNat
    <3> QED BY <2>2, <3>2
  <2>5. Backed(s0.node, S, g)
    <3> SUFFICES ASSUME NEW m \in DOMAIN s0.node
                 PROVE  s0.node[m].ref \in {MaxRef, g[m] + Uses(s0.node, S, m)}
      BY DEF Backed
    <3>1. CASE m = n  BY <1>4, <1>7, <1>9, <2>4, <3>1
    <3>2. CASE m # n
      <4>1. m \in DOMAIN s.node /\ m \in Nat  BY <1>1, <1>7, <3>2 DEF IsStore
      <4> QED BY <1>7, <1>9, <2>2, <3>2, <4>1 DEF Stage, Backed
    <3> QED BY <3>1, <3>2
  <2>6. Counted(s0)
    <3>1. /\ WithCount(s0.node, 0) = WithCount(s.node, 0)
          /\ WithCount(s0.node, MaxRef) = WithCount(s.node, MaxRef)
      BY <1>0, <1>4, <1>7 DEF WithCount
    <3> QED BY <1>5, <3>1 DEF Stage, Counted
  <2>7. \A m \in Nat \ DOMAIN s0.node : g[m] = 0  BY <1>7, <1>9 DEF Stage
  <2> QED BY <1>7, <1>8, <1>9, <2>1, <2>3, <2>5, <2>6, <2>7 DEF Stage
<1> HIDE DEF g
<1>11. /\ Stage(s1, S, Plus(g, a)) /\ SameLinks(s0, s1)
       /\ \A m \in DOMAIN s0.node : s1.node[m].ref >= s0.node[m].ref
       /\ \A m \in DOMAIN s0.node \ {a} : s1.node[m].ref = s0.node[m].ref
       /\ s1.node[a].ref > 0
  BY <1>3, <1>7, <1>10, IncrStage
<1>12. b \in DOMAIN s1.node  BY <1>3, <1>7, <1>11 DEF SameLinks
<1> HIDE DEF s1
<1>13. /\ Stage(s2, S, Two(g, a, b)) /\ SameLinks(s1, s2)
       /\ \A m \in DOMAIN s1.node : s2.node[m].ref >= s1.node[m].ref
       /\ \A m \in DOMAIN s1.node \ {b} : s2.node[m].ref = s1.node[m].ref
       /\ s2.node[b].ref > 0
  BY <1>11, <1>12, IncrStage DEF Two
<1> HIDE DEF s2
<1>14. /\ DOMAIN s2.node = DOMAIN s.node \cup {n} /\ SameOrder(s, s2)
       /\ SameLink(s2.node[n], new)
       /\ \A m \in DOMAIN s.node : SameLink(s2.node[m], s.node[m])
  BY <1>5, <1>7, <1>11, <1>13 DEF SameLinks, SameLink, SameOrder
<1>15. /\ \A m \in DOMAIN s0.node : s2.node[m].ref >= s0.node[m].ref
       /\ s2.node[a].ref > 0
  <2>1. \A m \in DOMAIN s0.node :
          s0.node[m].ref \in Int /\ s1.node[m].ref \in Int /\ s2.node[m].ref \in Int
    BY <1>10, <1>11, <1>13, StageFacts, SMTT(40) DEF SameLinks
  <2> QED BY <1>3, <1>7, <1>11, <1>13, <2>1 DEF SameLinks
<1>21. \A m \in DOMAIN s.node \ {a, b} : s2.node[m].ref = s.node[m].ref
  BY <1>7, <1>11, <1>13 DEF SameLinks
<1>16. s2.node[n].ref > 0
  <2>1. s2.node[n].ref \in Int  BY <1>13, <1>14, StageFacts
  <2> QED BY <1>4, <1>7, <1>15, <2>1
<1>17. s2.node[n].v = v /\ s2.node[n].t = T /\ s2.node[n].e = E
  BY <1>4, <1>14 DEF SameLink
<1>18. Stage(s2, S \cup {n}, g)
  <2>1. n \notin S /\ n \in DOMAIN s2.node \ {0}  BY <1>2, <1>14 DEF Stage
  <2> QED BY <1>3, <1>9, <1>13, <1>14, <1>17, <2>1, AttachStage DEF a, b
<1>19. Keeps(s, s2)
  BY <1>7, <1>14, <1>15 DEF Keeps
<1>20. AllocNode(s, v, T, E).s = s2 /\ AllocNode(s, v, T, E).r = 2 * n
  BY <1>6 DEF Pair
<1> HIDE DEF s2, a, b
<1>22. Allocates(s, S, h, v, T, E, n, AllocNode(s, v, T, E))
  BY <1>2, <1>13, <1>14, <1>15, <1>16, <1>17, <1>18, <1>19, <1>20, <1>21
     DEF g, a, b, Allocates
<1> QED BY <1>22 DEF n
------------------------------------------------------------------------------
(* Making a branch: bdd_create_node_1.                                     *)

(* An edge with its sign changed, or not.                                  *)
LEMMA SetNegFacts ==
  ASSUME NEW e \in Edge, NEW b \in BOOLEAN
  PROVE  /\ SetNeg(e, b) \in Edge /\ Ptr(SetNeg(e, b)) = Ptr(e)
         /\ Neg(SetNeg(e, b)) <=> (Neg(e) <=> ~b)
BY EdgeFacts DEF SetNeg

(* The addresses of q that are not in s.                                   *)
Fresh(s, q) == DOMAIN q.node \ DOMAIN s.node

(* Node k is what <v, T, E> is made into: its first child is not           *)
(* complemented.                                                           *)
IsBranch(nd, k, v, T, E) ==
  nd[k].v = v /\ nd[k].t = Pos(T) /\ nd[k].e = SetNeg(E, Neg(T))

\* No other node has the variable and the children of node m.
Alone(nd, m) == \A k \in DOMAIN nd \ {0} : SameLink(nd[k], nd[m]) => k = m

\* p is the store and the edge that bdd_create_node_1(v, T, E) leaves.
MadeFrom(s, S, h, v, T, E, p) ==
  /\ p.r \in Edge
  /\ Stage(p.s, S \cup Fresh(s, p.s), Plus(h, Ptr(p.r))) /\ Keeps(s, p.s)
  /\ \A m \in Fresh(s, p.s) : /\ IsBranch(p.s.node, m, v, T, E) /\ T # E
                              /\ p.s.node[m].ref > 0 /\ Alone(p.s.node, m)
  /\ p.s.node[Ptr(T)].ref > 0 /\ p.s.node[Ptr(E)].ref > 0
  /\ T = E => p.r = T
  /\ T # E => /\ Ptr(p.r) \in S \cup Fresh(s, p.s) /\ (Neg(p.r) <=> Neg(T))
              /\ IsBranch(p.s.node, Ptr(p.r), v, T, E)

(* bdd_assign: the reference counts of an edge that is given out again.    *)
LEMMA AssignStage ==
  ASSUME NEW s, NEW S, NEW h, Stage(s, S, h), NEW e \in Edge, Ptr(e) \in DOMAIN s.node
  PROVE  /\ Assign(s, e).r = e
         /\ Stage(Assign(s, e).s, S, Plus(h, Ptr(e))) /\ Keeps(s, Assign(s, e).s)
         /\ Fresh(s, Assign(s, e).s) = {}
         /\ Assign(s, e).s.node[Ptr(e)].ref > 0
<1>1. Assign(s, e).r = e /\ Assign(s, e).s = IncrRef(s, e)  BY DEF Assign, Pair
<1> QED BY <1>1, IncrStage DEF SameLinks, Keeps, Fresh

(* The same when T is not complemented and differs from E.                 *)
UnsignedFrom(s, S, h, v, T, E, p) ==
  /\ p.r \in Edge /\ ~Neg(p.r)
  /\ Stage(p.s, S \cup Fresh(s, p.s), Plus(h, Ptr(p.r))) /\ Keeps(s, p.s)
  /\ \A m \in Fresh(s, p.s) :
       /\ p.s.node[m].v = v /\ p.s.node[m].t = T /\ p.s.node[m].e = E
       /\ p.s.node[m].ref > 0 /\ Alone(p.s.node, m)
  /\ p.s.node[Ptr(T)].ref > 0 /\ p.s.node[Ptr(E)].ref > 0
  /\ Ptr(p.r) \in S \cup Fresh(s, p.s)
  /\ p.s.node[Ptr(p.r)].v = v /\ p.s.node[Ptr(p.r)].t = T
  /\ p.s.node[Ptr(p.r)].e = E

(* The node is found or allocated, and held once more.                     *)
LEMMA UnsignedMade ==
  ASSUME NEW s, NEW S, NEW h, Stage(s, S, h), NEW v \in Int,
         NEW T \in Edge, Ptr(T) \in DOMAIN s.node, ~Neg(T),
         NEW E \in Edge, Ptr(E) \in DOMAIN s.node,
         \A m \in DOMAIN s.node : s.node[m].v = v => m \in S
  PROVE  UnsignedFrom(s, S, h, v, T, E, Unsigned1(s, v, T, E))
<1> DEFINE same == SameNode(s, v, T, E)
           p == Unsigned1(s, v, T, E)
<1>1. CASE same # {}
  <2> DEFINE n == CHOOSE n \in same : TRUE
             q == Assign(s, 2 * n)
  <2>1. n \in same  BY <1>1
  <2>2. p = q  BY <1>1 DEF Unsigned1, FindOrAlloc1
  <2> HIDE DEF n, p
  <2>3. /\ n \in DOMAIN s.node /\ n \in Nat
        /\ s.node[n].v = v /\ s.node[n].t = T /\ s.node[n].e = E
    BY <2>1 DEF SameNode, Nodes, Stage, IsStore
  <2>4. n \in S  BY <2>3
  <2>5. 2 * n \in Edge /\ Ptr(2 * n) = n /\ ~Neg(2 * n)  BY <2>3, EdgeFacts
  <2>6. /\ q.r = 2 * n /\ Stage(q.s, S, Plus(h, n)) /\ Keeps(s, q.s) /\ Fresh(s, q.s) = {}
    BY <2>3, <2>5, AssignStage
  <2> HIDE DEF q
  <2>7. q.s.node[n].v = v /\ q.s.node[n].t = T /\ q.s.node[n].e = E
    BY <2>3, <2>6 DEF Keeps, SameLink
  <2>8. q.s.node[Ptr(T)].ref > 0 /\ q.s.node[Ptr(E)].ref > 0
    BY <2>4, <2>6, <2>7, StageFacts
  <2>9. S \cup Fresh(s, q.s) = S  BY <2>6
  <2> QED BY <2>2, <2>4, <2>5, <2>6, <2>7, <2>8, <2>9 DEF p, UnsignedFrom
<1>2. CASE same = {}
  <2> DEFINE n == FreshAddress(s)
             q == AllocNode(s, v, T, E)
  <2>1. p = q  BY <1>2 DEF Unsigned1, FindOrAlloc1
  <2>2. Allocates(s, S, h, v, T, E, n, q)  BY AllocStage
  <2> HIDE DEF n, p, q
  <2>3. 2 * n \in Edge /\ Ptr(2 * n) = n /\ ~Neg(2 * n)  BY <2>2, EdgeFacts DEF Allocates
  <2>4. Fresh(s, q.s) = {n}  BY <2>2 DEF Fresh, Allocates
  <2>5. Alone(q.s.node, n)
    <3> SUFFICES ASSUME NEW k \in DOMAIN q.s.node \ {0}, SameLink(q.s.node[k], q.s.node[n]),
                        k # n
                 PROVE  FALSE
      BY DEF Alone
    <3>1. k \in Nodes(s)  BY <2>2 DEF Nodes, Allocates
    <3>2. s.node[k].v = v /\ s.node[k].t = T /\ s.node[k].e = E
      BY <2>2, <3>1 DEF Keeps, SameLink, Nodes, Allocates
    <3> QED BY <1>2, <3>1, <3>2 DEF SameNode
  <2> QED BY <2>1, <2>2, <2>3, <2>4, <2>5 DEF p, UnsignedFrom, Allocates
<1> QED BY <1>1, <1>2

(* bdd_create_node_1 leaves the counts right, and a node with the variable *)
(* and the children that were asked for; one that it adds is like no       *)
(* other.                                                                  *)
LEMMA Made ==
  ASSUME NEW s, NEW S, NEW h, Stage(s, S, h), NEW v \in Int,
         NEW T \in Edge, Ptr(T) \in DOMAIN s.node,
         NEW E \in Edge, Ptr(E) \in DOMAIN s.node,
         \A m \in DOMAIN s.node : s.node[m].v = v => m \in S
  PROVE  MadeFrom(s, S, h, v, T, E, CreateNode1(s, v, T, E))
<1> DEFINE p == CreateNode1(s, v, T, E)
<1>1. CASE T = E
  <2> DEFINE q == Assign(s, T)
  <2>1. p = q  BY <1>1 DEF CreateNode1
  <2>2. /\ q.r = T /\ Stage(q.s, S, Plus(h, Ptr(T))) /\ Keeps(s, q.s)
        /\ Fresh(s, q.s) = {} /\ q.s.node[Ptr(T)].ref > 0
    BY AssignStage
  <2> HIDE DEF p, q
  <2>3. S \cup Fresh(s, q.s) = S  BY <2>2
  <2> QED BY <1>1, <2>1, <2>2, <2>3 DEF MadeFrom, p
<1>2. CASE T # E
  <2> DEFINE T1 == Pos(T)
             E1 == SetNeg(E, Neg(T))
             q == Unsigned1(s, v, T1, E1)
             r == SetNeg(q.r, Neg(T))
  <2>1. p.s = q.s /\ p.r = r  BY <1>2 DEF CreateNode1, Negate, Pair
  <2>2. /\ T1 \in Edge /\ Ptr(T1) = Ptr(T) /\ ~Neg(T1) /\ Neg(T) \in BOOLEAN
        /\ E1 \in Edge /\ Ptr(E1) = Ptr(E)
        /\ Ptr(T1) \in DOMAIN s.node /\ Ptr(E1) \in DOMAIN s.node
    BY EdgeFacts, SetNegFacts
  <2> HIDE DEF T1, E1, p
  <2>3. UnsignedFrom(s, S, h, v, T1, E1, q)  BY <2>2, UnsignedMade
  <2> HIDE DEF q
  <2>4. r \in Edge /\ Ptr(r) = Ptr(q.r) /\ (Neg(r) <=> Neg(T))
    BY <2>2, <2>3, SetNegFacts DEF UnsignedFrom
  <2> HIDE DEF r
  <2> QED BY <1>2, <2>1, <2>2, <2>3, <2>4
        DEF MadeFrom, UnsignedFrom, IsBranch, p, T1, E1
<1> QED BY <1>1, <1>2

(* A set of addresses that makes the nodes of S functions of x, the set of  *)
(* variables that are true.                                                 *)
Chosen(nd, k, x) == IF nd[k].v \in x THEN nd[k].t ELSE nd[k].e
Reads(nd, S, x, T) ==
  0 \in T /\ \A k \in S : k \in T <=> Holds(T, Chosen(nd, k, x))
(* T and U are the same on the addresses of D.                             *)
Agree(D, T, U) == \A m \in D : m \in U <=> m \in T

(* The value of an edge depends on its address alone.                      *)
LEMMA HoldsSame ==
  ASSUME NEW D, NEW T, NEW U, Agree(D, T, U), NEW e, Ptr(e) \in D
  PROVE  Holds(U, e) <=> Holds(T, e)
BY DEF Holds, Agree

(* A reading of S is one of any part of it that is closed under links and  *)
(* has not changed.                                                        *)
LEMMA ReadsKept ==
  ASSUME NEW nd, NEW S, Linked(nd, S), S \subseteq DOMAIN nd, NEW x, NEW T, Reads(nd, S, x, T),
         NEW D, NEW U, Agree(D, T, U), 0 \in D, NEW Q, Q \subseteq S, Q \subseteq D,
         \A k \in Q : Ptr(nd[k].t) \in D /\ Ptr(nd[k].e) \in D,
         NEW nd2, \A k \in Q : SameLink(nd2[k], nd[k])
  PROVE  Reads(nd2, Q, x, U)
<1>1. 0 \in U  BY DEF Reads, Agree
<1>2. ASSUME NEW k \in Q PROVE k \in U <=> Holds(U, Chosen(nd2, k, x))
  <2> DEFINE e == Chosen(nd, k, x)
  <2>1. Chosen(nd2, k, x) = e  BY DEF Chosen, SameLink
  <2>2. Ptr(e) \in D  BY DEF Chosen
  <2> HIDE DEF e
  <2>3. Holds(U, e) <=> Holds(T, e)  BY <2>2, HoldsSame
  <2>4. k \in T <=> Holds(T, e)  BY DEF Reads, e
  <2>5. k \in U <=> k \in T  BY DEF Agree
  <2> QED BY <2>1, <2>3, <2>4, <2>5
<1> QED BY <1>1, <1>2 DEF Reads

(* J reads p as I reads s, and the edge made is IF v THEN T ELSE E.        *)
ReadFrom(s, S, v, T, E, p, x, I, J) ==
  /\ Reads(p.s.node, S \cup Fresh(s, p.s), x, J)
  /\ Agree(DOMAIN s.node, I, J)
  /\ Holds(J, p.r) <=> IF v \in x THEN Holds(I, T) ELSE Holds(I, E)

(* What bdd_create_node_1 returns has the function it should have.         *)
LEMMA MadeReads ==
  ASSUME NEW s, NEW S, NEW h, Stage(s, S, h), NEW v \in Int,
         NEW T \in Edge, Ptr(T) \in DOMAIN s.node,
         NEW E \in Edge, Ptr(E) \in DOMAIN s.node,
         NEW p, MadeFrom(s, S, h, v, T, E, p),
         NEW x, NEW I, Reads(s.node, S, x, I)
  PROVE  \E J : ReadFrom(s, S, v, T, E, p, x, I, J)
<1> DEFINE N == Fresh(s, p.s)
           D == DOMAIN s.node
           b == IF v \in x THEN Holds(I, Pos(T)) ELSE Holds(I, SetNeg(E, Neg(T)))
           J == (I \cap D) \cup {m \in N : b}
           S1 == S \cup N
<1>1. Agree(D, I, J) /\ 0 \in D /\ 0 \in I /\ S \subseteq D
  BY DEF Agree, Fresh, Stage, IsStore, Reads
<1>2. Linked(s.node, S) /\ \A k \in S : SameLink(p.s.node[k], s.node[k])
  BY <1>1 DEF Stage, MadeFrom, Keeps
<1>3. Reads(p.s.node, S, x, J)
  <2> HIDE DEF J, D
  <2>1. \A k \in S : Ptr(s.node[k].t) \in D /\ Ptr(s.node[k].e) \in D
    BY <1>2 DEF Linked, D
  <2>2. S \subseteq DOMAIN s.node  BY <1>1 DEF D
  <2> QED BY <1>1, <1>2, <2>1, <2>2, ReadsKept
<1>4. \A m \in N : m \in J <=> b  BY DEF Fresh
<1>5. /\ Pos(T) \in Edge /\ Ptr(Pos(T)) = Ptr(T) /\ ~Neg(Pos(T)) /\ Neg(T) \in BOOLEAN
      /\ SetNeg(E, Neg(T)) \in Edge /\ Ptr(SetNeg(E, Neg(T))) = Ptr(E)
  BY EdgeFacts, SetNegFacts
<1>6. b <=> IF v \in x THEN Holds(J, Pos(T)) ELSE Holds(J, SetNeg(E, Neg(T)))
  <2>1. Ptr(Pos(T)) \in D /\ Ptr(SetNeg(E, Neg(T))) \in D  BY <1>5
  <2> HIDE DEF J, D
  <2> QED BY <1>1, <2>1, HoldsSame
<1> HIDE DEF J, b
<1>7. \A m \in S1 : IsBranch(p.s.node, m, v, T, E) =>
        (Holds(J, Chosen(p.s.node, m, x)) <=> b)
  BY <1>6 DEF IsBranch, Chosen
<1>8. Reads(p.s.node, S1, x, J)
  <2>1. \A m \in N : m \in J <=> Holds(J, Chosen(p.s.node, m, x))
    BY <1>4, <1>7 DEF MadeFrom
  <2> QED BY <1>3, <2>1 DEF Reads
<1>9. Holds(J, p.r) <=> IF v \in x THEN Holds(I, T) ELSE Holds(I, E)
  <2>0. Holds(J, T) = Holds(I, T) /\ Holds(J, E) = Holds(I, E)
    <3>1. Ptr(T) \in D /\ Ptr(E) \in D  OBVIOUS
    <3>2. (Holds(J, T) <=> Holds(I, T)) /\ (Holds(J, E) <=> Holds(I, E))
      BY <1>1, <3>1, HoldsSame
    <3> QED BY <3>2 DEF Holds
  <2>1. CASE T = E  BY <2>0, <2>1 DEF MadeFrom
  <2>2. CASE T # E
    <3> DEFINE k == Ptr(p.r)
    <3>1. /\ k \in S1 /\ IsBranch(p.s.node, k, v, T, E) /\ (Neg(p.r) <=> Neg(T))
          /\ p.r \in Edge
      BY <2>2 DEF MadeFrom
    <3>2. k \in J <=> b  BY <1>7, <1>8, <3>1 DEF Reads
    <3>3. 0 \in J  BY <1>8 DEF Reads
    <3> DEFINE P == Pos(T)  M == SetNeg(E, Neg(T))
    <3>4. Holds(J, P) <=> (Holds(J, T) <=> ~Neg(T))
      BY EdgeFacts, <1>5 DEF Holds
    <3>5. Holds(J, M) <=> (Holds(J, E) <=> ~Neg(T))
      BY <1>5, <3>3, HoldsFacts
    <3>6. Holds(J, p.r) <=> (k \in J <=> ~Neg(T))  BY <3>1 DEF Holds
    <3>7. b <=> IF v \in x THEN Holds(J, P) ELSE Holds(J, M)  BY <1>6
    <3> HIDE DEF P, M, k
    <3>8. Holds(J, p.r) <=> IF v \in x THEN Holds(J, T) ELSE Holds(J, E)
      BY <3>2, <3>4, <3>5, <3>6, <3>7
    <3> QED BY <2>0, <3>8
  <2> QED BY <2>1, <2>2
<1> QED BY <1>1, <1>8, <1>9 DEF ReadFrom
------------------------------------------------------------------------------
(* Giving up the children of an unlinked node.                             *)

(* The addresses of the children of a node.                                *)
Kids(nd, k) == {Ptr(nd[k].t), Ptr(nd[k].e)}

(* q is s with the nodes of S \ Q unlinked; only counts of W may be lower. *)
Gives(s, S, q, Q, g, W) ==
  /\ Stage(q, Q, g) /\ SameOrder(s, q)
  /\ Q \subseteq S /\ DOMAIN q.node = DOMAIN s.node \ (S \ Q)
  /\ \A m \in DOMAIN q.node : /\ SameLink(q.node[m], s.node[m])
                              /\ m \notin W => q.node[m].ref = s.node[m].ref

(* Two such steps are one.                                                 *)
LEMMA GivesChain ==
  ASSUME NEW s, NEW S, S \subseteq DOMAIN s.node,
         NEW q, NEW Q, NEW g, NEW W, Gives(s, S, q, Q, g, W),
         NEW p, NEW P, NEW f, NEW X, Gives(q, Q, p, P, f, X)
  PROVE  Gives(s, S, p, P, f, W \cup X)
BY DEF Gives, SameOrder, SameLink

(* BDD_DECR_REF is such a step.                                            *)
LEMMA GivesDecr ==
  ASSUME NEW s, NEW S, NEW h, Stage(s, S, h), NEW e \in Edge, Ptr(e) \in DOMAIN s.node,
         h[Ptr(e)] > 0
  PROVE  Gives(s, S, DecrRef(s, e), S, Less(h, Ptr(e)), {Ptr(e)})
BY DecrStage DEF Gives, SameLinks

(* So is unlinking a node if it is dead.                                   *)
LEMMA GivesCollect ==
  ASSUME NEW s, NEW S, NEW h, Stage(s, S, h), NEW e \in Edge, Ptr(e) \in S
  PROVE  \E Q : /\ Gives(s, S, CollectIfDead(s, e), Q, h, Kids(s.node, Ptr(e)))
                /\ S \ Q \subseteq {Ptr(e)}
                /\ Ptr(e) \in Q => CollectIfDead(s, e).node[Ptr(e)].ref > 0
<1> DEFINE f == Ptr(e)
<1>0. S \subseteq DOMAIN s.node /\ f \in DOMAIN s.node  BY DEF Stage
<1>1. Dead(s, e) <=> s.node[f].ref = 0  BY DEF Dead, Ref, At
<1>2. CASE s.node[f].ref = 0
  <2> DEFINE q == LocalGc(s, e)
  <2>1. CollectIfDead(s, e) = q  BY <1>1, <1>2 DEF CollectIfDead
  <2>2. /\ Stage(q, S \ {f}, h) /\ SameOrder(s, q)
        /\ DOMAIN q.node = DOMAIN s.node \ {f}
        /\ \A m \in DOMAIN q.node :
             /\ SameLink(q.node[m], s.node[m])
             /\ m \notin Kids(s.node, f) => q.node[m].ref = s.node[m].ref
    BY <1>2, RemoveStage DEF Kids
  <2> HIDE DEF q
  <2>3. Gives(s, S, q, S \ {f}, h, Kids(s.node, f))  BY <1>0, <2>2 DEF Gives
  <2> QED BY <2>1, <2>3
<1>3. CASE s.node[f].ref # 0
  <2>1. CollectIfDead(s, e) = s  BY <1>1, <1>3 DEF CollectIfDead
  <2>2. s.node[f].ref > 0  BY <1>0, <1>3, StageFacts, StoreConstants DEF StoreConstants
  <2>3. Gives(s, S, s, S, h, Kids(s.node, f))
    BY <1>0 DEF Gives, SameOrder, SameLink
  <2> QED BY <2>1, <2>2, <2>3
<1> QED BY <1>2, <1>3

(* Two references may be taken in either order.                            *)
LEMMA PlusSwap ==
  ASSUME NEW h \in [Nat -> Nat], NEW a \in Nat, NEW b \in Nat
  PROVE  Two(h, a, b) = Two(h, b, a)
<1>1. /\ Two(h, a, b) \in [Nat -> Nat] /\ Two(h, b, a) \in [Nat -> Nat]
      /\ \A m \in Nat : Two(h, a, b)[m] = TwoAt(h, a, b, m) /\ Two(h, b, a)[m] = TwoAt(h, b, a, m)
  BY PlusTwo
<1>2. \A m \in Nat : TwoAt(h, a, b, m) = TwoAt(h, b, a, m)  BY DEF TwoAt
<1> DEFINE f == Two(h, a, b)  g == Two(h, b, a)
<1>3. f \in [Nat -> Nat] /\ g \in [Nat -> Nat] /\ \A m \in Nat : f[m] = g[m]  BY <1>1, <1>2
<1> HIDE DEF f, g
<1>4. f = g  BY <1>3
<1> QED BY <1>4 DEF f, g

(* Two references are given up one after the other.                        *)
LEMMA TwoDown ==
  ASSUME NEW h \in [Nat -> Nat], NEW a \in Nat, NEW b \in Nat
  PROVE  /\ Two(h, a, b)[a] > 0 /\ Less(Two(h, a, b), a) = Plus(h, b)
         /\ Plus(h, b)[b] > 0 /\ Less(Plus(h, b), b) = h
<1> DEFINE p == Plus(h, b)
           g == Two(h, a, b)
<1>1. \A m \in Nat : g[m] = TwoAt(h, a, b, m) /\ Less(g, a) = p  BY PlusTwo
<1>2. \A m \in Nat : p[m] = IF b = m THEN h[m] + 1 ELSE h[m]  BY PlusFacts
<1>3. Less(p, b) = h  BY PlusFacts
<1> HIDE DEF p, g
<1>4. g[a] > 0  BY <1>1 DEF TwoAt
<1>5. p[b] > 0  BY <1>2
<1> QED BY <1>1, <1>3, <1>4, <1>5 DEF p, g

(* The result of releasing the children F and G of an unlinked node, those  *)
(* of X, of the next rank, unlinked when they die.                          *)
LetGo(s, S, h, X, W, q) ==
  \E Q : /\ Gives(s, S, q, Q, h, W) /\ S \ Q \subseteq X
         /\ \A m \in X \cap Q : q.node[m].ref > 0

(* Releasing a child F of the next rank, and the other child G of a node:  *)
(* F is unlinked if it died, before G is given up.                         *)
LEMMA NextLetGo ==
  ASSUME NEW s, NEW S, NEW h \in [Nat -> Nat], NEW F \in Edge, NEW G \in Edge,
         Ptr(F) \in S, Ptr(G) \in DOMAIN s.node, Ptr(G) # Ptr(F),
         Ptr(F) \notin Kids(s.node, Ptr(F)),
         Stage(s, S, Two(h, Ptr(F), Ptr(G)))
  PROVE  LetGo(s, S, h, {Ptr(F)}, {Ptr(F), Ptr(G)} \cup Kids(s.node, Ptr(F)),
               GiveNext(s, F, G))
<1> DEFINE a == Ptr(F)
           b == Ptr(G)
           g == Two(h, a, b)
           p == Plus(h, b)
           s1 == DecrRef(s, F)
           s2 == CollectIfDead(s1, F)
           s3 == DecrRef(s2, G)
<1>1. a \in Nat /\ b \in Nat /\ S \subseteq DOMAIN s.node  BY EdgeFacts DEF Stage
<1>2. g[a] > 0 /\ Less(g, a) = p /\ p[b] > 0 /\ Less(p, b) = h  BY <1>1, TwoDown
<1>3. Stage(s, S, g)  OBVIOUS
<1> HIDE DEF g, p
<1>4. Gives(s, S, s1, S, p, {a})  BY <1>1, <1>2, <1>3, GivesDecr
<1> HIDE DEF s1
<1>5. Stage(s1, S, p) /\ Kids(s1.node, a) = Kids(s.node, a) /\ a \in DOMAIN s1.node
  BY <1>1, <1>4 DEF Gives, Kids, SameLink
<1>6. PICK Q : /\ Gives(s1, S, s2, Q, p, Kids(s.node, a)) /\ S \ Q \subseteq {a}
               /\ a \in Q => s2.node[a].ref > 0
  BY <1>5, GivesCollect
<1> HIDE DEF s2
<1>7. Stage(s2, Q, p) /\ b \in DOMAIN s2.node
  BY <1>1, <1>4, <1>6 DEF Gives
<1>8. Gives(s2, Q, s3, Q, h, {b})  BY <1>2, <1>7, GivesDecr
<1> HIDE DEF s3
<1>9. Gives(s, S, s2, Q, p, {a} \cup Kids(s.node, a))  BY <1>1, <1>4, <1>6, GivesChain
<1>10. Gives(s, S, s3, Q, h, ({a} \cup Kids(s.node, a)) \cup {b})
  BY <1>1, <1>8, <1>9, GivesChain
<1>11. a \in Q => s3.node[a].ref > 0
  BY <1>6, <1>8 DEF Gives, Stage
<1>12. GiveNext(s, F, G) = s3  BY DEF GiveNext, s3, s2, s1
<1>13. ({a} \cup Kids(s.node, a)) \cup {b} = {a, b} \cup Kids(s.node, a)  OBVIOUS
<1> QED BY <1>6, <1>10, <1>11, <1>12, <1>13 DEF LetGo

(* Releasing two children of the next rank, which may be the same node.    *)
LEMMA BothLetGo ==
  ASSUME NEW s, NEW S, NEW h \in [Nat -> Nat], NEW F \in Edge, NEW G \in Edge,
         Ptr(F) \in S, Ptr(G) \in S,
         Ptr(G) \notin Kids(s.node, Ptr(F)),
         Stage(s, S, Two(h, Ptr(F), Ptr(G)))
  PROVE  LetGo(s, S, h, {Ptr(F), Ptr(G)},
               {Ptr(F), Ptr(G)} \cup Kids(s.node, Ptr(F)) \cup Kids(s.node, Ptr(G)),
               GiveBoth(s, F, G))
<1> DEFINE a == Ptr(F)
           b == Ptr(G)
           g == Two(h, a, b)
           p == Plus(h, b)
           s1 == DecrRef(s, F)
           s2 == DecrRef(s1, G)
           s3 == CollectIfDead(s2, G)
           s4 == CollectIfDead(s3, F)
           K == Kids(s.node, a)
           L == Kids(s.node, b)
<1>1. a \in Nat /\ b \in Nat /\ S \subseteq DOMAIN s.node  BY EdgeFacts DEF Stage
<1>2. g[a] > 0 /\ Less(g, a) = p /\ p[b] > 0 /\ Less(p, b) = h  BY <1>1, TwoDown
<1>3. Stage(s, S, g)  OBVIOUS
<1> HIDE DEF g, p
<1>4. Gives(s, S, s1, S, p, {a})  BY <1>1, <1>2, <1>3, GivesDecr
<1> HIDE DEF s1
<1>5. Stage(s1, S, p) /\ b \in DOMAIN s1.node  BY <1>1, <1>4 DEF Gives
<1>6. Gives(s1, S, s2, S, h, {b})  BY <1>2, <1>5, GivesDecr
<1> HIDE DEF s2
<1>7. Gives(s, S, s2, S, h, {a} \cup {b})  BY <1>1, <1>4, <1>6, GivesChain
<1>8. Stage(s2, S, h) /\ Kids(s2.node, b) = L
  BY <1>1, <1>7 DEF Gives, Kids, SameLink
<1>9. PICK Q : /\ Gives(s2, S, s3, Q, h, L) /\ S \ Q \subseteq {b}
               /\ b \in Q => s3.node[b].ref > 0
  BY <1>8, GivesCollect
<1> HIDE DEF s3
<1>10. Gives(s, S, s3, Q, h, ({a} \cup {b}) \cup L)  BY <1>1, <1>7, <1>9, GivesChain
<1>11. GiveBoth(s, F, G) = IF b = a THEN s3 ELSE s4  BY DEF GiveBoth, s4, s3, s2, s1
<1>12. CASE a = b
  <2>1. K = L  BY <1>12
  <2>2. ({a} \cup {b}) \cup L = {a, b} \cup K \cup L  BY <2>1
  <2> QED BY <1>9, <1>10, <1>11, <1>12, <2>2 DEF LetGo
<1>13. CASE a # b
  <2>1. a \in Q /\ Stage(s3, Q, h)  BY <1>9, <1>13 DEF Gives
  <2>2. Kids(s3.node, a) = K  BY <1>10, <2>1 DEF Gives, Kids, SameLink, Stage
  <2>3. PICK P : /\ Gives(s3, Q, s4, P, h, K) /\ Q \ P \subseteq {a}
                 /\ a \in P => s4.node[a].ref > 0
    BY <2>1, <2>2, GivesCollect
  <2> HIDE DEF s4
  <2>4. Gives(s, S, s4, P, h, (({a} \cup {b}) \cup L) \cup K)
    BY <1>1, <1>10, <2>3, GivesChain
  <2>5. b \in P => s4.node[b].ref > 0
    BY <1>9, <2>3 DEF Gives, Stage
  <2>6. (({a} \cup {b}) \cup L) \cup K = {a, b} \cup K \cup L  OBVIOUS
  <2>7. S \ P \subseteq {a, b}  BY <1>9, <2>3
  <2>8. \A m \in {a, b} \cap P : s4.node[m].ref > 0  BY <2>3, <2>5
  <2>9. Gives(s, S, s4, P, h, {a, b} \cup K \cup L)  BY <2>4, <2>6
  <2>10. LetGo(s, S, h, {a, b}, {a, b} \cup K \cup L, s4)  BY <2>7, <2>8, <2>9 DEF LetGo
  <2> QED BY <1>11, <1>13, <2>10
<1> QED BY <1>12, <1>13
------------------------------------------------------------------------------
(* Making the two branches of a node.                                      *)

(* The addresses of four edges.                                            *)
Four(T1, E1, T2, E2) == {Ptr(T1), Ptr(E1), Ptr(T2), Ptr(E2)}

(* e is the edge for <v, T, E>.                                            *)
IsMade(nd, e, v, T, E) ==
  /\ e \in Edge /\ Ptr(e) \in DOMAIN nd
  /\ T = E => e = T
  /\ T # E => (Neg(e) <=> Neg(T)) /\ IsBranch(nd, Ptr(e), v, T, E)

\* b is the store after <v, T1, E1> and <v, T2, E2> were made, r1 and r2 the edges.
TwoMade(q, Q, h, v, T1, E1, T2, E2, r1, r2, b) ==
  /\ Stage(b, Q \cup Fresh(q, b), Two(h, Ptr(r1), Ptr(r2))) /\ Keeps(q, b)
  /\ \A m \in Fresh(q, b) : /\ \/ IsBranch(b.node, m, v, T1, E1) /\ T1 # E1
                               \/ IsBranch(b.node, m, v, T2, E2) /\ T2 # E2
                            /\ b.node[m].ref > 0 /\ Alone(b.node, m)
  /\ \A m \in Four(T1, E1, T2, E2) : b.node[m].ref > 0
  /\ IsMade(b.node, r1, v, T1, E1) /\ IsMade(b.node, r2, v, T2, E2)

(* Both edges have the function they should have.                          *)
TwoRead(q, Q, v, T1, E1, T2, E2, r1, r2, b) ==
  \A x, I : Reads(q.node, Q, x, I) =>
    \E J : /\ Reads(b.node, Q \cup Fresh(q, b), x, J) /\ Agree(DOMAIN q.node, I, J)
           /\ Holds(J, r1) <=> IF v \in x THEN Holds(I, T1) ELSE Holds(I, E1)
           /\ Holds(J, r2) <=> IF v \in x THEN Holds(I, T2) ELSE Holds(I, E2)

(* What is used of one branch when the next one is made.                   *)
MadeShape(s, S, v, T, E, p) ==
  /\ IsMade(p.s.node, p.r, v, T, E)
  /\ DOMAIN p.s.node = DOMAIN s.node \cup Fresh(s, p.s)
  /\ S \cup Fresh(s, p.s) \subseteq DOMAIN p.s.node

(* The branch is in the store it leaves.                                   *)
LEMMA MadeFacts ==
  ASSUME NEW s, NEW S, NEW h, Stage(s, S, h), NEW v, NEW T \in Edge, NEW E \in Edge,
         Ptr(T) \in DOMAIN s.node, Ptr(E) \in DOMAIN s.node,
         NEW p, MadeFrom(s, S, h, v, T, E, p)
  PROVE  MadeShape(s, S, v, T, E, p)
<1>1. DOMAIN s.node \subseteq DOMAIN p.s.node /\ S \subseteq DOMAIN s.node
  BY DEF MadeFrom, Keeps, Stage
<1>2. /\ DOMAIN p.s.node = DOMAIN s.node \cup Fresh(s, p.s)
      /\ S \cup Fresh(s, p.s) \subseteq DOMAIN p.s.node
  BY <1>1 DEF Fresh
<1>3. IsMade(p.s.node, p.r, v, T, E)
  <2>1. CASE T = E  BY <1>2, <2>1 DEF MadeFrom, IsMade
  <2>2. CASE T # E  BY <1>2, <2>2 DEF MadeFrom, IsMade
  <2> QED BY <2>1, <2>2
<1> QED BY <1>2, <1>3 DEF MadeShape

(* Making a branch keeps the one that was made before it.                  *)
LEMMA BothMade ==
  ASSUME NEW q, NEW Q, NEW h, Stage(q, Q, h), NEW v \in Int,
         NEW T1 \in Edge, NEW E1 \in Edge, NEW T2 \in Edge, NEW E2 \in Edge,
         Four(T1, E1, T2, E2) \subseteq DOMAIN q.node,
         \A m \in DOMAIN q.node : q.node[m].v = v => m \in Q
  PROVE  LET A == CreateNode1(q, v, T1, E1)
             B == CreateNode1(A.s, v, T2, E2)
         IN /\ TwoMade(q, Q, h, v, T1, E1, T2, E2, A.r, B.r, B.s)
            /\ TwoRead(q, Q, v, T1, E1, T2, E2, A.r, B.r, B.s)
<1> DEFINE A == CreateNode1(q, v, T1, E1)
           a == A.s
           g == Plus(h, Ptr(A.r))
           P == Q \cup Fresh(q, a)
           B == CreateNode1(a, v, T2, E2)
           b == B.s
           C == Four(T1, E1, T2, E2)
           R == Q \cup Fresh(q, b)
<1>1. Ptr(T1) \in DOMAIN q.node /\ Ptr(E1) \in DOMAIN q.node
      /\ Ptr(T2) \in DOMAIN q.node /\ Ptr(E2) \in DOMAIN q.node
  BY DEF Four
<1>2. MadeFrom(q, Q, h, v, T1, E1, A)  BY <1>1, Made
<1> HIDE DEF A
<1>3. /\ IsMade(a.node, A.r, v, T1, E1)
      /\ DOMAIN a.node = DOMAIN q.node \cup Fresh(q, a) /\ P \subseteq DOMAIN a.node
  BY <1>1, <1>2, MadeFacts DEF MadeShape
<1>4. /\ Stage(a, P, g) /\ Keeps(q, a) /\ A.r \in Edge
      /\ a.node[Ptr(T1)].ref > 0 /\ a.node[Ptr(E1)].ref > 0
      /\ \A m \in Fresh(q, a) : /\ IsBranch(a.node, m, v, T1, E1) /\ T1 # E1
                                /\ a.node[m].ref > 0 /\ Alone(a.node, m)
  BY <1>2 DEF MadeFrom
<1>5. \A m \in DOMAIN a.node : a.node[m].v = v => m \in P
  BY <1>3, <1>4 DEF Keeps, SameLink
<1>6. MadeFrom(a, P, g, v, T2, E2, B)
  <2>1. Ptr(T2) \in DOMAIN a.node /\ Ptr(E2) \in DOMAIN a.node  BY <1>1, <1>3
  <2>2. B = CreateNode1(a, v, T2, E2)  OBVIOUS
  <2> HIDE DEF g, P, B, a
  <2> QED BY <1>4, <1>5, <2>1, <2>2, Made
<1> HIDE DEF B
<1>7. /\ IsMade(b.node, B.r, v, T2, E2)
      /\ DOMAIN b.node = DOMAIN a.node \cup Fresh(a, b)
  <2>1. Ptr(T2) \in DOMAIN a.node /\ Ptr(E2) \in DOMAIN a.node  BY <1>1, <1>3
  <2>2. MadeShape(a, P, v, T2, E2, B)
    <3> HIDE DEF g, P, a
    <3> QED BY <1>4, <1>6, <2>1, MadeFacts
  <2> QED BY <2>2 DEF MadeShape
<1>8. /\ Stage(b, P \cup Fresh(a, b), Plus(g, Ptr(B.r))) /\ Keeps(a, b) /\ B.r \in Edge
      /\ b.node[Ptr(T2)].ref > 0 /\ b.node[Ptr(E2)].ref > 0
      /\ \A m \in Fresh(a, b) : /\ IsBranch(b.node, m, v, T2, E2) /\ T2 # E2
                                /\ b.node[m].ref > 0 /\ Alone(b.node, m)
  BY <1>6 DEF MadeFrom
<1>9. /\ Fresh(q, b) = Fresh(q, a) \cup Fresh(a, b) /\ R = P \cup Fresh(a, b)
      /\ Fresh(q, a) \cap Fresh(a, b) = {}
  BY <1>3, <1>7 DEF Fresh
<1>10. Stage(b, R, Two(h, Ptr(A.r), Ptr(B.r)))  BY <1>8, <1>9 DEF Two
<1>11. Keeps(q, b)
  <2>1. IsStore(q) /\ IsStore(a) /\ IsStore(b)  BY <1>4, <1>8 DEF Stage
  <2> HIDE DEF a, b
  <2> QED BY <1>4, <1>8, <2>1, KeepsChain
<1>12. \A m \in DOMAIN a.node :
         SameLink(b.node[m], a.node[m]) /\ (a.node[m].ref > 0 => b.node[m].ref > 0)
  <2>1. \A m \in DOMAIN a.node : a.node[m].ref \in Int /\ b.node[m].ref \in Int
    BY <1>4, <1>7, <1>10, StageFacts
  <2> QED BY <1>8, <2>1 DEF Keeps
<1>13. ASSUME NEW m \in Fresh(q, b)
       PROVE  /\ \/ IsBranch(b.node, m, v, T1, E1) /\ T1 # E1
                 \/ IsBranch(b.node, m, v, T2, E2) /\ T2 # E2
              /\ b.node[m].ref > 0 /\ Alone(b.node, m)
  <2>1. CASE m \in Fresh(q, a)
    <3>1. m \in DOMAIN a.node  BY <1>3, <2>1
    <3>2. IsBranch(b.node, m, v, T1, E1) /\ T1 # E1 /\ b.node[m].ref > 0
      BY <1>4, <1>12, <2>1, <3>1 DEF IsBranch, SameLink
    <3>3. ASSUME NEW k \in DOMAIN b.node \ {0}, SameLink(b.node[k], b.node[m])
          PROVE  k = m
      <4>1. CASE k \in DOMAIN a.node
        <5>1. SameLink(a.node[k], a.node[m])  BY <1>12, <3>1, <3>3, <4>1 DEF SameLink
        <5> QED BY <1>4, <2>1, <4>1, <5>1 DEF Alone
      <4>2. CASE k \in Fresh(a, b)
        <5>1. SameLink(b.node[m], b.node[k])  BY <3>3 DEF SameLink
        <5>2. m \in DOMAIN b.node \ {0}
          BY <1>4, <1>7, <2>1, <3>1 DEF Fresh, Stage, IsStore
        <5> QED BY <1>8, <4>2, <5>1, <5>2 DEF Alone
      <4> QED BY <1>7, <4>1, <4>2
    <3> QED BY <3>2, <3>3 DEF Alone
  <2>2. CASE m \in Fresh(a, b)  BY <1>8, <2>2
  <2> QED BY <1>9, <2>1, <2>2
<1>15. \A m \in C : b.node[m].ref > 0
  <2>1. Ptr(T1) \in DOMAIN a.node /\ Ptr(E1) \in DOMAIN a.node  BY <1>1, <1>3
  <2> QED BY <1>4, <1>8, <1>12, <2>1 DEF Four
<1>16. IsMade(b.node, A.r, v, T1, E1)
  BY <1>3, <1>7, <1>12 DEF IsMade, IsBranch, SameLink
<1>17. TwoMade(q, Q, h, v, T1, E1, T2, E2, A.r, B.r, b)
  BY <1>7, <1>10, <1>11, <1>13, <1>15, <1>16 DEF TwoMade
<1>18. TwoRead(q, Q, v, T1, E1, T2, E2, A.r, B.r, b)
  <2> SUFFICES ASSUME NEW x, NEW I, Reads(q.node, Q, x, I)
               PROVE  \E J : /\ Reads(b.node, R, x, J) /\ Agree(DOMAIN q.node, I, J)
                             /\ Holds(J, A.r) <=> IF v \in x THEN Holds(I, T1) ELSE Holds(I, E1)
                             /\ Holds(J, B.r) <=> IF v \in x THEN Holds(I, T2) ELSE Holds(I, E2)
    BY DEF TwoRead
  <2>0. PICK J : ReadFrom(q, Q, v, T1, E1, A, x, I, J)  BY <1>1, <1>2, MadeReads
  <2>1. /\ Reads(a.node, P, x, J) /\ Agree(DOMAIN q.node, I, J)
        /\ Holds(J, A.r) <=> IF v \in x THEN Holds(I, T1) ELSE Holds(I, E1)
    BY <2>0 DEF ReadFrom
  <2>2. Ptr(T2) \in DOMAIN a.node /\ Ptr(E2) \in DOMAIN a.node  BY <1>1, <1>3
  <2>9. PICK K : ReadFrom(a, P, v, T2, E2, B, x, J, K)
    <3> HIDE DEF g, P, a, R
    <3> QED BY <1>4, <1>6, <2>1, <2>2, MadeReads
  <2>3. /\ Reads(b.node, P \cup Fresh(a, b), x, K) /\ Agree(DOMAIN a.node, J, K)
        /\ Holds(K, B.r) <=> IF v \in x THEN Holds(J, T2) ELSE Holds(J, E2)
    BY <2>9 DEF ReadFrom
  <2>4. Holds(K, A.r) <=> Holds(J, A.r)
    <3>1. Ptr(A.r) \in DOMAIN a.node  BY <1>3 DEF IsMade
    <3> QED BY <2>3, <3>1, HoldsSame
  <2>5. (Holds(J, T2) <=> Holds(I, T2)) /\ (Holds(J, E2) <=> Holds(I, E2))
    BY <1>1, <2>1, HoldsSame
  <2>6. Agree(DOMAIN q.node, I, K)  BY <1>3, <2>1, <2>3 DEF Agree
  <2>7. Reads(b.node, R, x, K)  BY <1>9, <2>3
  <2> QED BY <2>1, <2>3, <2>4, <2>5, <2>6, <2>7
<1> QED BY <1>17, <1>18 DEF A, B
------------------------------------------------------------------------------
(* The store in the middle of an exchange.                                 *)

(* Below a node of variable v there is no other node of v, whether or not a *)
(* node of w comes in between.                                              *)
NoReturn(nd, v, w) ==
  \A k \in DOMAIN nd \ {0} : nd[k].v = v =>
    \A c \in Kids(nd, k) :
      nd[c].v # v /\ (nd[c].v = w => \A d \in Kids(nd, c) : nd[d].v # v)

(* The store between two nodes of the exchange of v and w: the counts are  *)
(* right, all nodes are alive and in normal form, and no path meets v or w *)
(* twice within two links.                                                 *)
Exchangeable(s, h, v, w) ==
  /\ Stage(s, Nodes(s), h) /\ s.node[0].v = TERMID
  /\ v \in Int \ {VOID, TERMID} /\ w \in Int \ {VOID, TERMID} /\ v # w
  /\ \A k \in Nodes(s) : s.node[k].ref > 0
  /\ \A k \in Nodes(s) : ~Neg(s.node[k].t) /\ s.node[k].t # s.node[k].e
  /\ NoReturn(s.node, v, w) /\ NoReturn(s.node, w, v)

(* c1 and c2 are the halves by w of a child F of a node of v.               *)
IsHalved(s, v, w, F, c1, c2) ==
  /\ c1 \in Edge /\ c2 \in Edge
  /\ {Ptr(c1), Ptr(c2)} = IF s.node[Ptr(F)].v = w THEN Kids(s.node, Ptr(F)) ELSE {Ptr(F)}
  /\ \A c \in {Ptr(c1), Ptr(c2)} : c \in DOMAIN s.node /\ s.node[c].v \notin {v, w}
  /\ s.node[Ptr(F)].v = w => c1 # c2
  /\ s.node[Ptr(F)].v # w => c1 = F /\ c2 = F
  /\ ~Neg(F) => ~Neg(c1)
  /\ \A x, I : Reads(s.node, Nodes(s), x, I) =>
       (Holds(I, F) <=> IF w \in x THEN Holds(I, c1) ELSE Holds(I, c2))

(* The halves of an edge on the variable w.                               *)
HalfT(s, F, w) == Halved(s, F, s.node[Ptr(F)].v = w)[1]
HalfE(s, F, w) == Halved(s, F, s.node[Ptr(F)].v = w)[2]

(* The halves of a child have neither v nor w, and the child is IF w THEN  *)
(* the first ELSE the second.                                              *)
LEMMA Halves ==
  ASSUME NEW s, NEW h, NEW v, NEW w, Exchangeable(s, h, v, w),
         NEW n \in Nodes(s), s.node[n].v = v,
         NEW F \in {s.node[n].t, s.node[n].e}
  PROVE  /\ F \in Edge /\ Ptr(F) \in DOMAIN s.node
         /\ IsHalved(s, v, w, F, HalfT(s, F, w), HalfE(s, F, w))
<1> DEFINE k == Ptr(F)
           next == s.node[k].v = w
           c1 == HalfT(s, F, w)
           c2 == HalfE(s, F, w)
<1>0. c1 = Halved(s, F, next)[1] /\ c2 = Halved(s, F, next)[2]  BY DEF HalfT, HalfE
<1>1. F \in Edge /\ k \in DOMAIN s.node /\ k \in Kids(s.node, n) /\ n \in DOMAIN s.node \ {0}
  BY DEF Exchangeable, Stage, Linked, Kids, Nodes
<1>2. s.node[k].v # v  BY <1>1 DEF Exchangeable, NoReturn
<1>3. CASE ~next
  <2>1. c1 = F /\ c2 = F  BY <1>0, <1>3 DEF Halved
  <2> HIDE DEF c1, c2
  <2> QED BY <1>1, <1>2, <1>3, <2>1 DEF IsHalved, c1, c2
<1>4. CASE next
  <2> DEFINE t == s.node[k].t  e == s.node[k].e
  <2>1. k \in Nodes(s) /\ k # 0  BY <1>1, <1>4 DEF Exchangeable, Nodes
  <2>2. /\ t \in Edge /\ e \in Edge /\ Ptr(t) \in DOMAIN s.node /\ Ptr(e) \in DOMAIN s.node
        /\ ~Neg(t) /\ t # e
    BY <2>1 DEF Exchangeable, Stage, Linked
  <2>3. c1 = SetNeg(t, Neg(F)) /\ c2 = SetNeg(e, Neg(F))
    <3>1. ~(F = VOID \/ Term(F))  BY <1>1, <2>1, EdgeFacts
    <3> QED BY <1>0, <1>4, <3>1 DEF Halved, CofactorPos, CofactorNeg, At
  <2> HIDE DEF c1, c2
  <2>4. Neg(F) \in BOOLEAN  BY <1>1, EdgeFacts
  <2>5. /\ c1 \in Edge /\ c2 \in Edge /\ Ptr(c1) = Ptr(t) /\ Ptr(c2) = Ptr(e)
        /\ Neg(c1) <=> (Neg(t) <=> ~Neg(F))
        /\ Neg(c2) <=> (Neg(e) <=> ~Neg(F))
    BY <2>2, <2>3, <2>4, SetNegFacts
  <2>6. c1 # c2  BY <2>2, <2>3, <2>5, EdgeFacts DEF SetNeg
  <2>7. {Ptr(c1), Ptr(c2)} = Kids(s.node, k)  BY <2>5 DEF Kids
  <2>8. \A c \in Kids(s.node, k) : c \in DOMAIN s.node /\ s.node[c].v \notin {v, w}
    <3>1. \A c \in Kids(s.node, k) : s.node[c].v # v
      BY <1>1, <1>4 DEF Exchangeable, NoReturn
    <3>2. \A c \in Kids(s.node, k) : s.node[c].v # w
      BY <1>1, <1>4, <2>1 DEF Exchangeable, NoReturn
    <3> QED BY <2>2, <3>1, <3>2 DEF Kids
  <2>9. ASSUME NEW x, NEW I, Reads(s.node, Nodes(s), x, I)
        PROVE  Holds(I, F) <=> IF w \in x THEN Holds(I, c1) ELSE Holds(I, c2)
    <3>1. 0 \in I /\ (k \in I <=> Holds(I, Chosen(s.node, k, x)))  BY <2>1, <2>9 DEF Reads
    <3>2. Chosen(s.node, k, x) = IF w \in x THEN t ELSE e  BY <1>4 DEF Chosen
    <3>3. Holds(I, F) <=> (k \in I <=> ~Neg(F))  BY DEF Holds
    <3>4. /\ Holds(I, c1) <=> (Holds(I, t) <=> ~Neg(F))
          /\ Holds(I, c2) <=> (Holds(I, e) <=> ~Neg(F))
      BY <2>2, <2>3, <2>4, <3>1, HoldsFacts
    <3> HIDE DEF t, e
    <3> QED BY <3>1, <3>2, <3>3, <3>4
  <2> HIDE DEF t, e
  <2>10. ~Neg(F) => ~Neg(c1)  BY <2>2, <2>4, <2>5
  <2> QED BY <1>1, <1>4, <2>5, <2>6, <2>7, <2>8, <2>9, <2>10 DEF IsHalved, c1, c2
<1> QED BY <1>3, <1>4

(* A node that nothing counted refers from may be rewritten.                *)
LEMMA Recast ==
  ASSUME NEW s, NEW S, NEW h, Stage(s, S, h), NEW n \in DOMAIN s.node, n \notin S,
         NEW q, SameOrder(s, q), q.dead = s.dead, q.frozen = s.frozen,
         DOMAIN q.node = DOMAIN s.node, q.node \in [DOMAIN q.node -> Node],
         \A m \in DOMAIN s.node \ {n} : q.node[m] = s.node[m],
         q.node[n].ref = s.node[n].ref
  PROVE  Stage(q, S, h)
<1>1. IsStore(s)  BY DEF Stage
<1>2. IsStore(q)  BY <1>1 DEF IsStore, SameOrder
<1>3. S \subseteq DOMAIN s.node \ {n, 0}  BY DEF Stage
<1>4. \A m : Uses(q.node, S, m) = Uses(s.node, S, m)  BY <1>3, UsesSame
<1>5. \A m \in DOMAIN s.node : q.node[m].ref = s.node[m].ref  OBVIOUS
<1>6. Backed(q.node, S, h)  BY <1>4, <1>5 DEF Stage, Backed
<1>7. WithCount(q.node, 0) = WithCount(s.node, 0)
      /\ WithCount(q.node, MaxRef) = WithCount(s.node, MaxRef)
  BY <1>5 DEF WithCount
<1>8. Counted(q)  BY <1>7 DEF Stage, Counted
<1>9. Linked(q.node, S)  BY <1>3 DEF Stage, Linked
<1> QED BY <1>2, <1>3, <1>6, <1>8, <1>9 DEF Stage

(* A node unlinked from its table, before its children are released.       *)
Freed(s, n) == [s EXCEPT !.node[n].v = VOID]

(* What changes of a store by that.                                        *)
FreedStage(s, n, q) ==
  /\ SameOrder(s, q) /\ DOMAIN q.node = DOMAIN s.node
  /\ \A m \in DOMAIN s.node \ {n} : q.node[m] = s.node[m]
  /\ q.node[n].v = VOID /\ q.node[n].t = s.node[n].t
  /\ q.node[n].e = s.node[n].e /\ q.node[n].ref = s.node[n].ref

(* The links of the node become references that bdd_process_level holds.   *)
LEMMA FreedFacts ==
  ASSUME NEW s, NEW S, NEW h, Stage(s, S, h), NEW n \in S
  PROVE  /\ Stage(Freed(s, n), S \ {n}, Two(h, Ptr(s.node[n].t), Ptr(s.node[n].e)))
         /\ FreedStage(s, n, Freed(s, n))
<1> DEFINE q == Freed(s, n)
           g == Two(h, Ptr(s.node[n].t), Ptr(s.node[n].e))
<1>1. IsStore(s) /\ n \in DOMAIN s.node  BY DEF Stage
<1>2. Stage(s, S \ {n}, g)  BY DetachStage
<1>3. q.node = [s.node EXCEPT ![n].v = VOID]  BY <1>1 DEF Freed, IsStore
<1>4. q.dead = s.dead /\ q.frozen = s.frozen /\ SameOrder(s, q)
  BY <1>1 DEF Freed, IsStore, SameOrder
<1> HIDE DEF q, g
<1>5. /\ DOMAIN q.node = DOMAIN s.node /\ q.node \in [DOMAIN q.node -> Node]
      /\ \A m \in DOMAIN s.node \ {n} : q.node[m] = s.node[m]
      /\ q.node[n].v = VOID /\ q.node[n].t = s.node[n].t
      /\ q.node[n].e = s.node[n].e /\ q.node[n].ref = s.node[n].ref
  BY <1>1, <1>3 DEF IsStore, Node, VOID
<1>6. Stage(q, S \ {n}, g)
  <2> DEFINE P == S \ {n}
  <2>1. n \notin P /\ Stage(s, P, g)  BY <1>2
  <2> HIDE DEF P
  <2>2. Stage(q, P, g)  BY <1>1, <1>4, <1>5, <2>1, Recast
  <2> QED BY <2>2 DEF P
<1> QED BY <1>4, <1>5, <1>6 DEF q, g, FreedStage

(* What changes when node n takes variable w and its new branches.         *)
RelinkStage(s, n, w, T, E, q) ==
  /\ SameOrder(s, q) /\ DOMAIN q.node = DOMAIN s.node
  /\ \A m \in DOMAIN s.node \ {n} : q.node[m] = s.node[m]
  /\ q.node[n].v = w /\ q.node[n].t = T /\ q.node[n].e = E
  /\ q.node[n].ref = s.node[n].ref

(* The references to the branches become links of node n again.            *)
LEMMA Relinked ==
  ASSUME NEW s, NEW S, NEW h \in [Nat -> Nat], NEW n \in DOMAIN s.node \ {0}, n \notin S,
         NEW w \in Int, NEW T \in Edge, Ptr(T) \in DOMAIN s.node,
         NEW E \in Edge, Ptr(E) \in DOMAIN s.node,
         Stage(s, S, Two(h, Ptr(T), Ptr(E)))
  PROVE  /\ Stage(Relink(s, n, w, T, E), S \cup {n}, h)
         /\ RelinkStage(s, n, w, T, E, Relink(s, n, w, T, E))
<1> DEFINE p == [s EXCEPT !.node[n] = [@ EXCEPT !.v = w, !.t = T, !.e = E]]
           new == [s.node[n] EXCEPT !.v = w, !.t = T, !.e = E]
           q == Relink(s, n, w, T, E)
           g == Two(h, Ptr(T), Ptr(E))
<1>1. IsStore(s) /\ Stage(s, S, g)  BY DEF Stage
<1> HIDE DEF g
<1>2. /\ new \in Node /\ new.v = w /\ new.t = T /\ new.e = E /\ new.ref = s.node[n].ref
  <2> DEFINE old == s.node[n]
  <2>1. old \in Node  BY <1>1 DEF IsStore
  <2>2. T \in Int /\ E \in Int  BY DEF Edge
  <2> HIDE DEF old
  <2>3. /\ [old EXCEPT !.v = w, !.t = T, !.e = E] \in Node
        /\ [old EXCEPT !.v = w, !.t = T, !.e = E].v = w
        /\ [old EXCEPT !.v = w, !.t = T, !.e = E].t = T
        /\ [old EXCEPT !.v = w, !.t = T, !.e = E].e = E
        /\ [old EXCEPT !.v = w, !.t = T, !.e = E].ref = old.ref
    BY <2>1, <2>2 DEF Node
  <2> QED BY <2>3 DEF old
<1>3. p.node = [s.node EXCEPT ![n] = new]  BY <1>1 DEF IsStore
<1>4. p.dead = s.dead /\ p.frozen = s.frozen /\ SameOrder(s, p) /\ "log" \in DOMAIN p
  BY <1>1 DEF IsStore, SameOrder
<1>5. q = ExtendIfFull(p, w)  BY DEF Relink
<1> HIDE DEF p, new, q
<1>6. q.node = p.node /\ q.dead = p.dead /\ q.frozen = p.frozen /\ SameOrder(s, q)
  BY <1>1, <1>4, <1>5 DEF ExtendIfFull, ExtendHashTable, IsStore, SameOrder
<1>7. /\ DOMAIN q.node = DOMAIN s.node /\ q.node \in [DOMAIN q.node -> Node]
      /\ \A m \in DOMAIN s.node \ {n} : q.node[m] = s.node[m]
      /\ q.node[n] = new
  BY <1>1, <1>2, <1>3, <1>6 DEF IsStore
<1>8. q.dead = s.dead /\ q.frozen = s.frozen /\ q.node[n].ref = s.node[n].ref
      /\ q.node[n].v = w /\ q.node[n].t = T /\ q.node[n].e = E
  BY <1>2, <1>4, <1>6, <1>7
<1>9. Stage(q, S, g)  BY <1>1, <1>6, <1>7, <1>8, Recast
<1>10. Stage(q, S \cup {n}, h)
  <2>1. Stage(q, S, Two(h, Ptr(q.node[n].t), Ptr(q.node[n].e)))  BY <1>8, <1>9 DEF g
  <2> QED BY <1>7, <1>8, <2>1, AttachStage
<1> QED BY <1>6, <1>7, <1>8, <1>10 DEF RelinkStage, q
------------------------------------------------------------------------------
(* One node: its children released, its branches made, its links set.      *)

(* The children of n that have variable w, and the addresses whose counts  *)
(* the release of the children of n may change.                            *)
NextKids(nd, n, w) == {c \in Kids(nd, n) : nd[c].v = w}
Touched(nd, n, w) == Kids(nd, n) \cup UNION {Kids(nd, c) : c \in NextKids(nd, n, w)}

(* The children of n are released: only those of w may be unlinked, and    *)
(* those that stay are alive.                                              *)
LEMMA ChildrenLetGo ==
  ASSUME NEW s, NEW h, NEW v, NEW w, Exchangeable(s, h, v, w),
         NEW n \in Nodes(s), s.node[n].v = v, NextKids(s.node, n, w) # {}
  PROVE  LET F1 == s.node[n].t
             F0 == s.node[n].e
         IN LetGo(Freed(s, n), Nodes(s) \ {n}, h, NextKids(s.node, n, w),
                  Touched(s.node, n, w),
                  Released(Freed(s, n), F1, F0, s.node[Ptr(F1)].v = w, s.node[Ptr(F0)].v = w))
<1> DEFINE F1 == s.node[n].t
           F0 == s.node[n].e
           a == Ptr(F1)
           b == Ptr(F0)
           tn == s.node[a].v = w
           en == s.node[b].v = w
           f == Freed(s, n)
           S == Nodes(s) \ {n}
           X == NextKids(s.node, n, w)
           W == Touched(s.node, n, w)
<1>1. /\ F1 \in Edge /\ F0 \in Edge /\ a \in DOMAIN s.node /\ b \in DOMAIN s.node
      /\ a \in Nat /\ b \in Nat /\ h \in [Nat -> Nat] /\ n \in DOMAIN s.node \ {0}
      /\ Stage(s, Nodes(s), h) /\ Kids(s.node, n) = {a, b}
  BY EdgeFacts DEF Exchangeable, Stage, Linked, Nodes, Kids
<1>2. /\ s.node[a].v # v /\ s.node[b].v # v
      /\ tn => a \in S /\ \A c \in Kids(s.node, a) : s.node[c].v # w
      /\ en => b \in S /\ \A c \in Kids(s.node, b) : s.node[c].v # w
  <2>1. s.node[a].v # v /\ s.node[b].v # v  BY <1>1 DEF Exchangeable, NoReturn
  <2>2. w # TERMID /\ s.node[0].v = TERMID  BY DEF Exchangeable
  <2>3. \A c \in DOMAIN s.node \ {0} : s.node[c].v = w =>
          c \in S /\ \A d \in Kids(s.node, c) : s.node[d].v # w
    BY DEF Exchangeable, NoReturn, Nodes
  <2> QED BY <1>1, <2>1, <2>2, <2>3
<1>3. /\ Stage(f, S, Two(h, a, b)) /\ DOMAIN f.node = DOMAIN s.node
      /\ \A m \in DOMAIN s.node \ {n} : f.node[m] = s.node[m]
  <2>1. Stage(f, S, Two(h, a, b)) /\ FreedStage(s, n, f)  BY <1>1, FreedFacts
  <2> QED BY <2>1 DEF FreedStage
<1>4. a # n /\ b # n  BY <1>2
<1>5. Kids(f.node, a) = Kids(s.node, a) /\ Kids(f.node, b) = Kids(s.node, b)
  BY <1>1, <1>3, <1>4 DEF Kids
<1>6. X = (IF tn THEN {a} ELSE {}) \cup (IF en THEN {b} ELSE {})
  BY <1>1 DEF NextKids
<1>7. W = {a, b} \cup (IF tn THEN Kids(s.node, a) ELSE {}) \cup (IF en THEN Kids(s.node, b) ELSE {})
  BY <1>1, <1>6 DEF Touched
<1> HIDE DEF f, S, X, W, a, b
<1> DEFINE rel == Released(f, F1, F0, tn, en)
<1>8. CASE tn /\ en
  <2>1. rel = GiveBoth(f, F1, F0)  BY <1>8 DEF Released
  <2>2. b \notin Kids(f.node, a)  BY <1>2, <1>5, <1>8
  <2>3. LetGo(f, S, h, {a, b}, {a, b} \cup Kids(f.node, a) \cup Kids(f.node, b),
              GiveBoth(f, F1, F0))
    BY <1>1, <1>2, <1>3, <1>8, <2>2, BothLetGo DEF a, b
  <2>4. X = {a, b} /\ W = {a, b} \cup Kids(f.node, a) \cup Kids(f.node, b)
    BY <1>5, <1>6, <1>7, <1>8
  <2> QED BY <2>1, <2>3, <2>4 DEF f, S, X, W, a, b
<1>9. CASE tn /\ ~en
  <2>1. rel = GiveNext(f, F1, F0)  BY <1>9 DEF Released
  <2>2. a \notin Kids(f.node, a) /\ b # a  BY <1>2, <1>5, <1>9
  <2>3. LetGo(f, S, h, {a}, {a, b} \cup Kids(f.node, a), GiveNext(f, F1, F0))
    BY <1>1, <1>2, <1>3, <1>9, <2>2, NextLetGo DEF a, b
  <2>4. X = {a} /\ W = {a, b} \cup Kids(f.node, a)
    BY <1>5, <1>6, <1>7, <1>9
  <2> QED BY <2>1, <2>3, <2>4 DEF f, S, X, W, a, b
<1>10. CASE ~tn /\ en
  <2>1. rel = GiveNext(f, F0, F1)  BY <1>10 DEF Released
  <2>2. b \notin Kids(f.node, b) /\ a # b  BY <1>2, <1>5, <1>10
  <2>3. Stage(f, S, Two(h, b, a))
    <3>1. Two(h, a, b) = Two(h, b, a)  BY <1>1, PlusSwap
    <3> QED BY <1>3, <3>1
  <2>4. LetGo(f, S, h, {b}, {b, a} \cup Kids(f.node, b), GiveNext(f, F0, F1))
    BY <1>1, <1>2, <1>3, <1>10, <2>2, <2>3, NextLetGo DEF a, b
  <2>5. X = {b} /\ W = {b, a} \cup Kids(f.node, b)
    BY <1>5, <1>6, <1>7, <1>10
  <2> QED BY <2>1, <2>4, <2>5 DEF f, S, X, W, a, b
<1>11. tn \/ en  BY <1>6 DEF X
<1> QED BY <1>8, <1>9, <1>10, <1>11 DEF f, S, X, W, a, b

(* q is s with node n unlinked and its children of w released; the nodes of *)
(* Q are still there.  C has the addresses its new children are made from.  *)
Opened(s, h, n, v, w, C, q, Q) ==
  /\ Stage(q, Q, h) /\ SameOrder(s, q)
  /\ Q \subseteq Nodes(s) \ {n} /\ Nodes(s) \ {n} \subseteq Q \cup NextKids(s.node, n, w)
  /\ DOMAIN q.node = Q \cup {0, n}
  /\ \A m \in Q \cup {0} : SameLink(q.node[m], s.node[m])
  /\ q.node[n].v = VOID /\ q.node[n].ref > 0
  /\ C \subseteq Q \cup {0} /\ \A m \in Q \ C : q.node[m].ref > 0

(* c1, c2 are the halves of the first child of n, and d1, d2 of the        *)
(* second.                                                                 *)
HalvesOf(s, n, w, c1, c2, d1, d2) ==
  LET F1 == s.node[n].t
      F0 == s.node[n].e
      c == Halved(s, F1, s.node[Ptr(F1)].v = w)
      d == Halved(s, F0, s.node[Ptr(F0)].v = w)
  IN c1 = c[1] /\ c2 = c[2] /\ d1 = d[1] /\ d2 = d[2]

(* Both children of n have halves.                                         *)
LEMMA HalvesBoth ==
  ASSUME NEW s, NEW h, NEW v, NEW w, Exchangeable(s, h, v, w),
         NEW n \in Nodes(s), s.node[n].v = v,
         NEW c1, NEW c2, NEW d1, NEW d2, HalvesOf(s, n, w, c1, c2, d1, d2)
  PROVE  /\ s.node[n].t \in Edge /\ Ptr(s.node[n].t) \in DOMAIN s.node
         /\ s.node[n].e \in Edge /\ Ptr(s.node[n].e) \in DOMAIN s.node
         /\ IsHalved(s, v, w, s.node[n].t, c1, c2) /\ IsHalved(s, v, w, s.node[n].e, d1, d2)
<1> DEFINE F1 == s.node[n].t
           F0 == s.node[n].e
<1>1. F1 \in {s.node[n].t, s.node[n].e} /\ F0 \in {s.node[n].t, s.node[n].e}  OBVIOUS
<1>2. /\ c1 = HalfT(s, F1, w) /\ c2 = HalfE(s, F1, w)
      /\ d1 = HalfT(s, F0, w) /\ d2 = HalfE(s, F0, w)
  BY DEF HalvesOf, HalfT, HalfE
<1> HIDE DEF F1, F0
<1>3. F1 \in Edge /\ Ptr(F1) \in DOMAIN s.node /\ IsHalved(s, v, w, F1, c1, c2)
  BY <1>1, <1>2, Halves
<1>4. F0 \in Edge /\ Ptr(F0) \in DOMAIN s.node /\ IsHalved(s, v, w, F0, d1, d2)
  BY <1>1, <1>2, Halves
<1> QED BY <1>3, <1>4 DEF F1, F0

(* With n unlinked and its children released, the halves are still there.  *)
LEMMA NodeOpened ==
  ASSUME NEW s, NEW h, NEW v, NEW w, Exchangeable(s, h, v, w),
         NEW n \in Nodes(s), s.node[n].v = v, NextKids(s.node, n, w) # {},
         NEW c1, NEW c2, NEW d1, NEW d2, HalvesOf(s, n, w, c1, c2, d1, d2)
  PROVE  LET F1 == s.node[n].t
             F0 == s.node[n].e
             q == Released(Freed(s, n), F1, F0, s.node[Ptr(F1)].v = w, s.node[Ptr(F0)].v = w)
         IN \E Q : Opened(s, h, n, v, w, Four(c1, d1, c2, d2), q, Q)
<1> DEFINE F1 == s.node[n].t
           F0 == s.node[n].e
           a == Ptr(F1)
           b == Ptr(F0)
           tn == s.node[a].v = w
           en == s.node[b].v = w
           f == Freed(s, n)
           S == Nodes(s) \ {n}
           X == NextKids(s.node, n, w)
           W == Touched(s.node, n, w)
           C == Four(c1, d1, c2, d2)
           q == Released(f, F1, F0, tn, en)
<1>1. LetGo(f, S, h, X, W, q)  BY ChildrenLetGo
<1>2. /\ F1 \in Edge /\ a \in DOMAIN s.node /\ IsHalved(s, v, w, F1, c1, c2)
      /\ F0 \in Edge /\ b \in DOMAIN s.node /\ IsHalved(s, v, w, F0, d1, d2)  BY HalvesBoth
<1>3. /\ SameOrder(s, f) /\ DOMAIN f.node = DOMAIN s.node
      /\ \A m \in DOMAIN s.node \ {n} : f.node[m] = s.node[m]
      /\ f.node[n].v = VOID /\ f.node[n].ref = s.node[n].ref
  <2>1. Stage(s, Nodes(s), h)  BY DEF Exchangeable
  <2>2. FreedStage(s, n, f)  BY <2>1, FreedFacts
  <2> QED BY <2>2 DEF FreedStage
<1>4. n \in DOMAIN s.node /\ n # 0 /\ 0 \in DOMAIN s.node
  BY DEF Nodes, Exchangeable, Stage, IsStore
<1>5. C = {Ptr(c1), Ptr(c2)} \cup {Ptr(d1), Ptr(d2)}  BY DEF Four
<1>6. Kids(s.node, n) = {a, b} /\ X = {c \in {a, b} : s.node[c].v = w}
  BY DEF NextKids, Kids
<1>7. \A c \in C : c \in DOMAIN s.node /\ s.node[c].v \notin {v, w}
  BY <1>2, <1>5 DEF IsHalved
<1>8. W \subseteq C \cup X
  <2>1. {a, b} \subseteq C \cup X  BY <1>2, <1>5, <1>6 DEF IsHalved
  <2>2. \A c \in X : Kids(s.node, c) \subseteq C  BY <1>2, <1>5, <1>6 DEF IsHalved
  <2> QED BY <1>6, <2>1, <2>2 DEF Touched
<1>9. n \notin C \cup X  BY <1>7, <1>6 DEF Exchangeable
<1> HIDE DEF X, W, C, f, q
<1>10. PICK Q : /\ Gives(f, S, q, Q, h, W) /\ S \ Q \subseteq X
                /\ \A m \in X \cap Q : q.node[m].ref > 0
  BY <1>1 DEF LetGo
<1>11. /\ Stage(q, Q, h) /\ SameOrder(f, q) /\ Q \subseteq S
       /\ DOMAIN q.node = DOMAIN f.node \ (S \ Q)
       /\ \A m \in DOMAIN q.node : /\ SameLink(q.node[m], f.node[m])
                                   /\ m \notin W => q.node[m].ref = f.node[m].ref
  BY <1>10 DEF Gives
<1>12. DOMAIN q.node = Q \cup {0, n}  BY <1>3, <1>4, <1>11 DEF Nodes
<1>13. SameOrder(s, q)  BY <1>3, <1>11 DEF SameOrder
<1>14. \A m \in Q \cup {0} : SameLink(q.node[m], s.node[m])
  BY <1>3, <1>4, <1>11, <1>12 DEF Nodes
<1>15. q.node[n].v = VOID /\ q.node[n].ref > 0
  <2>1. q.node[n].ref = s.node[n].ref  BY <1>3, <1>8, <1>9, <1>11, <1>12
  <2>2. s.node[n].ref > 0  BY DEF Exchangeable
  <2> QED BY <1>3, <1>11, <1>12, <2>1, <2>2 DEF SameLink
<1>16. C \subseteq Q \cup {0}
  <2> SUFFICES ASSUME NEW c \in C, c # 0 PROVE c \in Q  OBVIOUS
  <2>1. c \in S /\ c \notin X  BY <1>6, <1>7, <1>9 DEF Nodes, X
  <2> QED BY <1>10, <2>1
<1>17. \A m \in Q \ C : q.node[m].ref > 0
  <2> SUFFICES ASSUME NEW m \in Q \ C PROVE q.node[m].ref > 0  OBVIOUS
  <2>1. CASE m \in X  BY <1>10, <2>1
  <2>2. CASE m \notin X
    <3>1. m \in S /\ m \notin W /\ m \in DOMAIN q.node  BY <1>8, <1>11, <1>12, <2>2
    <3>2. q.node[m].ref = s.node[m].ref  BY <1>3, <1>11, <3>1 DEF Nodes
    <3> QED BY <3>1, <3>2 DEF Exchangeable
  <2> QED BY <2>1, <2>2
<1>18. Opened(s, h, n, v, w, C, q, Q)
  BY <1>10, <1>11, <1>12, <1>13, <1>14, <1>15, <1>16, <1>17 DEF Opened, X
<1> QED BY <1>18 DEF C, q, f

(* The two branches may be made in either order.                           *)
LEMMA MadeSwap ==
  ASSUME NEW q, NEW Q, NEW h \in [Nat -> Nat], NEW v, NEW T1, NEW E1, NEW T2, NEW E2,
         NEW r1, NEW r2, NEW b,
         TwoMade(q, Q, h, v, T1, E1, T2, E2, r1, r2, b),
         TwoRead(q, Q, v, T1, E1, T2, E2, r1, r2, b)
  PROVE  /\ TwoMade(q, Q, h, v, T2, E2, T1, E1, r2, r1, b)
         /\ TwoRead(q, Q, v, T2, E2, T1, E1, r2, r1, b)
<1>1. Ptr(r1) \in Nat /\ Ptr(r2) \in Nat  BY EdgeFacts DEF TwoMade, IsMade
<1>2. Two(h, Ptr(r1), Ptr(r2)) = Two(h, Ptr(r2), Ptr(r1))  BY <1>1, PlusSwap
<1>3. Four(T1, E1, T2, E2) = Four(T2, E2, T1, E1)  BY DEF Four
<1>4. TwoMade(q, Q, h, v, T2, E2, T1, E1, r2, r1, b)  BY <1>2, <1>3 DEF TwoMade
<1>5. TwoRead(q, Q, v, T2, E2, T1, E1, r2, r1, b)
  <2> SUFFICES ASSUME NEW x, NEW I, Reads(q.node, Q, x, I)
               PROVE  \E J : /\ Reads(b.node, Q \cup Fresh(q, b), x, J)
                             /\ Agree(DOMAIN q.node, I, J)
                             /\ Holds(J, r2) <=> IF v \in x THEN Holds(I, T2) ELSE Holds(I, E2)
                             /\ Holds(J, r1) <=> IF v \in x THEN Holds(I, T1) ELSE Holds(I, E1)
    BY DEF TwoRead
  <2>1. PICK J : /\ Reads(b.node, Q \cup Fresh(q, b), x, J)
                 /\ Agree(DOMAIN q.node, I, J)
                 /\ Holds(J, r1) <=> IF v \in x THEN Holds(I, T1) ELSE Holds(I, E1)
                 /\ Holds(J, r2) <=> IF v \in x THEN Holds(I, T2) ELSE Holds(I, E2)
    BY DEF TwoRead
  <2> QED BY <2>1
<1> QED BY <1>4, <1>5

(* q is s with n opened, and b is q with the branches T and E made.        *)
Branched(s, h, n, v, w, c1, c2, d1, d2, q, Q, T, E, b) ==
  /\ Opened(s, h, n, v, w, Four(c1, d1, c2, d2), q, Q)
  /\ TwoMade(q, Q, h, v, c1, d1, c2, d2, T, E, b)
  /\ TwoRead(q, Q, v, c1, d1, c2, d2, T, E, b)

(* bdd_process_node on node n, when v is exchanged with w.                 *)
ProcessedAt(s, n, v, w) ==
  LET F1 == s.node[n].t
      F0 == s.node[n].e
  IN Processed(s, n, v, w, F1, F0, s.node[Ptr(F1)].v = w, s.node[Ptr(F0)].v = w)

(* What bdd_process_level does to n, in the order of its child of the next *)
(* rank, is to open it, to make its branches and to link it to them.       *)
LEMMA NodeBranched ==
  ASSUME NEW s, NEW h, NEW v, NEW w, Exchangeable(s, h, v, w),
         NEW n \in Nodes(s), s.node[n].v = v, NextKids(s.node, n, w) # {},
         NEW c1, NEW c2, NEW d1, NEW d2, HalvesOf(s, n, w, c1, c2, d1, d2)
  PROVE  \E q, Q, T, E, b :
           /\ Branched(s, h, n, v, w, c1, c2, d1, d2, q, Q, T, E, b)
           /\ ProcessedAt(s, n, v, w) = Relink(b, n, w, T, E)
<1> DEFINE F1 == s.node[n].t
           F0 == s.node[n].e
           tn == s.node[Ptr(F1)].v = w
           en == s.node[Ptr(F0)].v = w
           q == Released(Freed(s, n), F1, F0, tn, en)
           C == Four(c1, d1, c2, d2)
           f == Processed(s, n, v, w, F1, F0, tn, en)
<1>1. PICK Q : Opened(s, h, n, v, w, C, q, Q)  BY NodeOpened
<1>2. /\ c1 = Halved(s, F1, tn)[1] /\ c2 = Halved(s, F1, tn)[2]
      /\ d1 = Halved(s, F0, en)[1] /\ d2 = Halved(s, F0, en)[2]
  BY DEF HalvesOf
<1>3. c1 \in Edge /\ c2 \in Edge /\ d1 \in Edge /\ d2 \in Edge  BY HalvesBoth DEF IsHalved
<1>4. tn \/ en  BY DEF NextKids, Kids
<1>5. f = Exchanged(q, n, v, w, Halved(s, F1, tn), Halved(s, F0, en), tn)
  BY <1>4 DEF Processed, Freed
<1>9. f = ProcessedAt(s, n, v, w)  BY DEF ProcessedAt
<1> HIDE DEF q, f, F1, F0, tn, en
<1>6. /\ Stage(q, Q, h) /\ C \subseteq DOMAIN q.node /\ v \in Int /\ h \in [Nat -> Nat]
      /\ \A m \in DOMAIN q.node : q.node[m].v = v => m \in Q
  <2>1. /\ Stage(q, Q, h) /\ DOMAIN q.node = Q \cup {0, n} /\ C \subseteq Q \cup {0}
        /\ q.node[n].v = VOID /\ q.node[0].v = s.node[0].v
    BY <1>1 DEF Opened, SameLink
  <2> QED BY <2>1 DEF Exchangeable, Stage
<1>7. CASE tn
  <2> DEFINE A == CreateNode1(q, v, c1, d1)
             B == CreateNode1(A.s, v, c2, d2)
  <2>1. f = Relink(B.s, n, w, A.r, B.r)
    BY <1>2, <1>5, <1>7 DEF Exchanged, FirstMade, SecondMade
  <2>2. /\ TwoMade(q, Q, h, v, c1, d1, c2, d2, A.r, B.r, B.s)
        /\ TwoRead(q, Q, v, c1, d1, c2, d2, A.r, B.r, B.s)
    BY <1>3, <1>6, BothMade
  <2> HIDE DEF A, B
  <2>3. Branched(s, h, n, v, w, c1, c2, d1, d2, q, Q, A.r, B.r, B.s)
    BY <1>1, <2>2 DEF Branched
  <2> QED BY <1>9, <2>1, <2>3
<1>8. CASE ~tn
  <2> DEFINE A == CreateNode1(q, v, c2, d2)
             B == CreateNode1(A.s, v, c1, d1)
  <2>1. f = Relink(B.s, n, w, B.r, A.r)
    BY <1>2, <1>5, <1>8 DEF Exchanged, FirstMade, SecondMade
  <2>2. /\ TwoMade(q, Q, h, v, c2, d2, c1, d1, A.r, B.r, B.s)
        /\ TwoRead(q, Q, v, c2, d2, c1, d1, A.r, B.r, B.s)
    <3>1. Four(c2, d2, c1, d1) \subseteq DOMAIN q.node  BY <1>6 DEF Four
    <3> QED BY <1>3, <1>6, <3>1, BothMade
  <2> HIDE DEF A, B
  <2>3. /\ TwoMade(q, Q, h, v, c1, d1, c2, d2, B.r, A.r, B.s)
        /\ TwoRead(q, Q, v, c1, d1, c2, d2, B.r, A.r, B.s)
    BY <1>6, <2>2, MadeSwap
  <2>4. Branched(s, h, n, v, w, c1, c2, d1, d2, q, Q, B.r, A.r, B.s)
    BY <1>1, <2>3 DEF Branched
  <2> QED BY <1>9, <2>1, <2>4
<1> QED BY <1>7, <1>8

(* f is s after the exchange at n: the nodes of Q as they were, n with its   *)
(* new variable and branches, and the branches that had to be made.          *)
Reformed(s, h, n, v, w, c1, c2, d1, d2, Q, T, E, f) ==
  /\ Stage(f, Nodes(f), h) /\ SameOrder(s, f)
  /\ Q \subseteq Nodes(s) \ {n} /\ Nodes(s) \ {n} \subseteq Q \cup NextKids(s.node, n, w)
  /\ Q \cup {n} \subseteq Nodes(f)
  /\ \A m \in Q \cup {0} : SameLink(f.node[m], s.node[m])
  /\ \A k \in Q : Kids(s.node, k) \subseteq Q \cup {0, n}
  /\ \A m \in Nat \ (Q \cup {0, n}) : h[m] = 0
  /\ f.node[n].v = w /\ f.node[n].t = T /\ f.node[n].e = E
  /\ IsMade(f.node, T, v, c1, d1) /\ IsMade(f.node, E, v, c2, d2)
  /\ Four(c1, d1, c2, d2) \subseteq Q \cup {0}
  /\ \A m \in Nodes(f) \ (Q \cup {n}) :
       /\ \/ IsBranch(f.node, m, v, c1, d1) /\ c1 # d1
          \/ IsBranch(f.node, m, v, c2, d2) /\ c2 # d2
       /\ \A k \in Nodes(f) \ {n} : SameLink(f.node[k], f.node[m]) => k = m
  /\ \A m \in Nodes(f) : f.node[m].ref > 0

(* Every reading of s has one of f that agrees with it on D.               *)
SameReading(s, D, f) ==
  \A x, I : Reads(s.node, Nodes(s), x, I) =>
    \E J : Reads(f.node, Nodes(f), x, J) /\ Agree(D, I, J)

(* The result of it: the counts are right, and every edge that is not to a *)
(* node that was unlinked keeps its function. Node n is IF w THEN (IF v    *)
(* THEN c1 ELSE d1) ELSE (IF v THEN c2 ELSE d2).                           *)
LEMMA NodeReformed ==
  ASSUME NEW s, NEW h, NEW v, NEW w, Exchangeable(s, h, v, w),
         NEW n \in Nodes(s), s.node[n].v = v, NextKids(s.node, n, w) # {},
         NEW c1, NEW c2, NEW d1, NEW d2, HalvesOf(s, n, w, c1, c2, d1, d2),
         NEW q, NEW Q, NEW T, NEW E, NEW b,
         Branched(s, h, n, v, w, c1, c2, d1, d2, q, Q, T, E, b)
  PROVE  /\ Reformed(s, h, n, v, w, c1, c2, d1, d2, Q, T, E, Relink(b, n, w, T, E))
         /\ SameReading(s, Q \cup {0, n}, Relink(b, n, w, T, E))
<1> DEFINE f == Relink(b, n, w, T, E)
           N == Fresh(q, b)
           C == Four(c1, d1, c2, d2)
<1>1. /\ Stage(q, Q, h) /\ SameOrder(s, q)
      /\ Q \subseteq Nodes(s) \ {n} /\ Nodes(s) \ {n} \subseteq Q \cup NextKids(s.node, n, w)
      /\ DOMAIN q.node = Q \cup {0, n}
      /\ \A m \in Q \cup {0} : SameLink(q.node[m], s.node[m])
      /\ q.node[n].v = VOID /\ q.node[n].ref > 0
      /\ C \subseteq Q \cup {0} /\ \A m \in Q \ C : q.node[m].ref > 0
  BY DEF Branched, Opened
<1>2. /\ Stage(b, Q \cup N, Two(h, Ptr(T), Ptr(E))) /\ Keeps(q, b)
      /\ \A m \in N : /\ \/ IsBranch(b.node, m, v, c1, d1) /\ c1 # d1
                         \/ IsBranch(b.node, m, v, c2, d2) /\ c2 # d2
                      /\ b.node[m].ref > 0 /\ Alone(b.node, m)
      /\ \A m \in C : b.node[m].ref > 0
      /\ IsMade(b.node, T, v, c1, d1) /\ IsMade(b.node, E, v, c2, d2)
  BY DEF Branched, TwoMade
<1>3. /\ Stage(s, Nodes(s), h) /\ h \in [Nat -> Nat] /\ v # VOID /\ w \in Int /\ v # w
      /\ n \in DOMAIN s.node \ {0}
  BY DEF Exchangeable, Stage, Nodes
<1>4. /\ DOMAIN b.node = Q \cup {0, n} \cup N /\ N \cap (Q \cup {0, n}) = {}
      /\ n \notin Q /\ 0 \notin Q
  BY <1>1, <1>2 DEF Fresh, Keeps, Nodes
<1>5. \A m \in Q \cup {0, n} : /\ SameLink(b.node[m], q.node[m])
                               /\ q.node[m].ref > 0 => b.node[m].ref > 0
  <2>1. \A m \in DOMAIN q.node : q.node[m].ref \in Int /\ b.node[m].ref \in Int
    BY <1>1, <1>2, <1>4, StageFacts
  <2> QED BY <1>1, <1>2, <2>1 DEF Keeps
<1> HIDE DEF N, C
<1>6. T \in Edge /\ Ptr(T) \in DOMAIN b.node /\ E \in Edge /\ Ptr(E) \in DOMAIN b.node
  BY <1>2 DEF IsMade
<1>7. Stage(f, Q \cup N \cup {n}, h) /\ RelinkStage(b, n, w, T, E, f)
  <2> DEFINE S == Q \cup N
  <2>1. n \in DOMAIN b.node \ {0} /\ n \notin S /\ Stage(b, S, Two(h, Ptr(T), Ptr(E)))
    BY <1>2, <1>3, <1>4
  <2> HIDE DEF S
  <2>2. Stage(f, S \cup {n}, h) /\ RelinkStage(b, n, w, T, E, f)
    BY <1>3, <1>6, <2>1, Relinked
  <2> QED BY <2>2 DEF S
<1> HIDE DEF f
<1>8. /\ SameOrder(b, f) /\ DOMAIN f.node = DOMAIN b.node
      /\ \A m \in DOMAIN b.node \ {n} : f.node[m] = b.node[m]
      /\ f.node[n].v = w /\ f.node[n].t = T /\ f.node[n].e = E
      /\ f.node[n].ref = b.node[n].ref
  BY <1>7 DEF RelinkStage
<1>9. Nodes(f) = Q \cup N \cup {n}  BY <1>3, <1>4, <1>8 DEF Nodes
<1>10. SameOrder(s, f)  BY <1>1, <1>2, <1>8 DEF SameOrder, Keeps
<1>11. \A m \in Q \cup {0} : SameLink(f.node[m], s.node[m])
  BY <1>1, <1>3, <1>4, <1>5, <1>8 DEF SameLink
<1>12. IsMade(f.node, T, v, c1, d1) /\ IsMade(f.node, E, v, c2, d2)
  <2>1. b.node[n].v # v  BY <1>1, <1>3, <1>5 DEF SameLink
  <2>2. \A m \in DOMAIN b.node : b.node[m].v = v => f.node[m] = b.node[m]
    BY <1>8, <2>1
  <2> QED BY <1>2, <1>8, <2>2 DEF IsMade, IsBranch
<1>13. ASSUME NEW m \in Nodes(f) \ (Q \cup {n})
       PROVE  /\ \/ IsBranch(f.node, m, v, c1, d1) /\ c1 # d1
                 \/ IsBranch(f.node, m, v, c2, d2) /\ c2 # d2
              /\ \A k \in Nodes(f) \ {n} : SameLink(f.node[k], f.node[m]) => k = m
  <2>1. m \in N /\ m # n  BY <1>9
  <2>2. f.node[m] = b.node[m]  BY <1>4, <1>8, <2>1
  <2>3. \A k \in Nodes(f) \ {n} : f.node[k] = b.node[k] /\ k \in DOMAIN b.node \ {0}
    BY <1>8 DEF Nodes
  <2> QED BY <1>2, <2>1, <2>2, <2>3 DEF IsBranch, Alone
<1>14. ASSUME NEW m \in Nodes(f) PROVE f.node[m].ref > 0
  <2>1. f.node[m].ref = b.node[m].ref  BY <1>8 DEF Nodes
  <2>2. b.node[m].ref > 0  BY <1>1, <1>2, <1>5, <1>9
  <2> QED BY <2>1, <2>2
<1>15. Reformed(s, h, n, v, w, c1, c2, d1, d2, Q, T, E, f)
  <2>1. Stage(f, Nodes(f), h)  BY <1>7, <1>9
  <2>2. Q \cup {n} \subseteq Nodes(f)  BY <1>9
  <2>3. \A k \in Q : Kids(s.node, k) \subseteq Q \cup {0, n}
    <3>1. \A k \in Q : Kids(q.node, k) \subseteq DOMAIN q.node
      BY <1>1 DEF Stage, Linked, Kids
    <3>2. \A k \in Q : Kids(s.node, k) = Kids(q.node, k)  BY <1>1 DEF Kids, SameLink
    <3> QED BY <1>1, <3>1, <3>2
  <2>4. \A m \in Nat \ (Q \cup {0, n}) : h[m] = 0  BY <1>1 DEF Stage
  <2> QED BY <1>1, <1>8, <1>10, <1>11, <1>12, <1>13, <1>14, <2>1, <2>2, <2>3, <2>4
          DEF Reformed, C
<1>16. SameReading(s, Q \cup {0, n}, f)
  <2> SUFFICES ASSUME NEW x, NEW I, Reads(s.node, Nodes(s), x, I)
               PROVE  \E J : Reads(f.node, Nodes(f), x, J) /\ Agree(Q \cup {0, n}, I, J)
    BY DEF SameReading
  <2>1. Reads(q.node, Q, x, I)
    <3> DEFINE D == DOMAIN s.node
    <3>1. /\ Linked(s.node, Nodes(s)) /\ Nodes(s) \subseteq DOMAIN s.node
          /\ Agree(D, I, I) /\ 0 \in D /\ Q \subseteq Nodes(s) /\ Q \subseteq D
          /\ \A k \in Q : Ptr(s.node[k].t) \in D /\ Ptr(s.node[k].e) \in D
          /\ \A k \in Q : SameLink(q.node[k], s.node[k])
      <4>1. Linked(s.node, Nodes(s)) /\ 0 \in D  BY <1>3 DEF Stage, IsStore
      <4>2. Q \subseteq Nodes(s) /\ Nodes(s) \subseteq D  BY <1>1 DEF Nodes
      <4>3. \A k \in Q : Ptr(s.node[k].t) \in D /\ Ptr(s.node[k].e) \in D
        BY <4>1, <4>2 DEF Linked
      <4>4. \A k \in Q : SameLink(q.node[k], s.node[k])  BY <1>1
      <4> QED BY <4>1, <4>2, <4>3, <4>4 DEF Agree
    <3> HIDE DEF D
    <3> QED BY <3>1, ReadsKept
  <2>2. PICK J : /\ Reads(b.node, Q \cup N, x, J) /\ Agree(DOMAIN q.node, I, J)
                 /\ Holds(J, T) <=> IF v \in x THEN Holds(I, c1) ELSE Holds(I, d1)
                 /\ Holds(J, E) <=> IF v \in x THEN Holds(I, c2) ELSE Holds(I, d2)
    BY <2>1 DEF Branched, TwoRead, N
  <2> DEFINE F1 == s.node[n].t  F0 == s.node[n].e
  <2>3. /\ Holds(I, F1) <=> IF w \in x THEN Holds(I, c1) ELSE Holds(I, c2)
        /\ Holds(I, F0) <=> IF w \in x THEN Holds(I, d1) ELSE Holds(I, d2)
    <3>1. IsHalved(s, v, w, F1, c1, c2) /\ IsHalved(s, v, w, F0, d1, d2)  BY HalvesBoth
    <3> HIDE DEF F1, F0
    <3> QED BY <3>1 DEF IsHalved
  <2>4. n \in J <=> Holds(J, Chosen(f.node, n, x))
    <3>1. n \in J <=> n \in I  BY <1>1, <2>2 DEF Agree
    <3>2. n \in I <=> Holds(I, Chosen(s.node, n, x))  BY DEF Reads
    <3>3. Chosen(s.node, n, x) = IF v \in x THEN F1 ELSE F0  BY DEF Chosen
    <3>4. Chosen(f.node, n, x) = IF w \in x THEN T ELSE E  BY <1>8 DEF Chosen
    <3> HIDE DEF F1, F0
    <3>5. n \in I <=> IF v \in x THEN Holds(I, F1) ELSE Holds(I, F0)  BY <3>2, <3>3
    <3>6. Holds(J, Chosen(f.node, n, x)) <=> IF w \in x THEN Holds(J, T) ELSE Holds(J, E)
      BY <3>4
    <3> QED BY <2>2, <2>3, <3>1, <3>5, <3>6
  <2>5. \A k \in Q \cup N : Chosen(f.node, k, x) = Chosen(b.node, k, x)
    BY <1>4, <1>8 DEF Chosen
  <2>6. Reads(f.node, Nodes(f), x, J)
    BY <1>9, <2>2, <2>4, <2>5 DEF Reads
  <2> QED BY <1>1, <2>2, <2>6 DEF Agree
<1> QED BY <1>15, <1>16 DEF f
------------------------------------------------------------------------------
(* One node: the store stays what an exchange needs.                       *)

(* The nodes that the exchange has still to rewrite.                       *)
Unprocessed(nd, v, w) == {k \in DOMAIN nd \ {0} : nd[k].v = v /\ NextKids(nd, k, w) # {}}

(* A node of a reduced diagram with complemented edges.                    *)
Normal(nd, m) == ~Neg(nd[m].t) /\ nd[m].t # nd[m].e

(* A branch made by bdd_create_node_1 is in normal form.                   *)
LEMMA BranchNormal ==
  ASSUME NEW nd, NEW m, NEW v, NEW T \in Edge, NEW E \in Edge, IsBranch(nd, m, v, T, E)
  PROVE  /\ nd[m].v = v /\ Kids(nd, m) = {Ptr(T), Ptr(E)}
         /\ T # E => Normal(nd, m)
<1> DEFINE P == Pos(T)  M == SetNeg(E, Neg(T))
<1>1. nd[m].v = v /\ nd[m].t = P /\ nd[m].e = M  BY DEF IsBranch
<1>2. /\ Neg(T) \in BOOLEAN /\ Neg(E) \in BOOLEAN /\ P \in Edge /\ Ptr(P) = Ptr(T) /\ ~Neg(P)
  BY EdgeFacts
<1>3. /\ M \in Edge /\ Ptr(M) = Ptr(E)
      /\ Neg(M) <=> (Neg(E) <=> ~Neg(T))
  BY <1>2, SetNegFacts
<1> HIDE DEF P, M
<1>4. ASSUME P = M PROVE T = E
  <2>1. Ptr(T) = Ptr(E) /\ (Neg(T) <=> Neg(E))  BY <1>2, <1>3, <1>4
  <2> QED BY <2>1, EdgeFacts
<1> QED BY <1>1, <1>2, <1>3, <1>4 DEF Kids, Normal

(* Both branches have variable v and children among the four halves.       *)
BranchesOn(nd, v, T1, E1, T2, E2) ==
  \A m : \/ IsBranch(nd, m, v, T1, E1)
         \/ IsBranch(nd, m, v, T2, E2)
      => nd[m].v = v /\ Kids(nd, m) \subseteq Four(T1, E1, T2, E2)

(* Both branches are in normal form.                                       *)
NormalBranches(nd, v, T1, E1, T2, E2) ==
  \A m : \/ IsBranch(nd, m, v, T1, E1) /\ T1 # E1
         \/ IsBranch(nd, m, v, T2, E2) /\ T2 # E2
      => Normal(nd, m)

(* So are the branches that an exchange makes.                             *)
LEMMA TwoShapes ==
  ASSUME NEW nd, NEW v, NEW T1 \in Edge, NEW E1 \in Edge, NEW T2 \in Edge, NEW E2 \in Edge
  PROVE  /\ BranchesOn(nd, v, T1, E1, T2, E2)
         /\ NormalBranches(nd, v, T1, E1, T2, E2)
<1>1. ASSUME NEW m, NEW T \in Edge, NEW E \in Edge, IsBranch(nd, m, v, T, E)
      PROVE  /\ nd[m].v = v /\ Kids(nd, m) = {Ptr(T), Ptr(E)}
             /\ T # E => Normal(nd, m)
  BY <1>1, BranchNormal
<1>2. BranchesOn(nd, v, T1, E1, T2, E2)
  <2> SUFFICES ASSUME NEW m,
                      IsBranch(nd, m, v, T1, E1) \/ IsBranch(nd, m, v, T2, E2)
               PROVE  nd[m].v = v /\ Kids(nd, m) \subseteq Four(T1, E1, T2, E2)
    BY DEF BranchesOn
  <2>1. CASE IsBranch(nd, m, v, T1, E1)
    <3>1. nd[m].v = v /\ Kids(nd, m) = {Ptr(T1), Ptr(E1)}  BY <1>1, <2>1
    <3>2. {Ptr(T1), Ptr(E1)} \subseteq Four(T1, E1, T2, E2)  BY DEF Four
    <3> QED BY <3>1, <3>2
  <2>2. CASE IsBranch(nd, m, v, T2, E2)
    <3>1. nd[m].v = v /\ Kids(nd, m) = {Ptr(T2), Ptr(E2)}  BY <1>1, <2>2
    <3>2. {Ptr(T2), Ptr(E2)} \subseteq Four(T1, E1, T2, E2)  BY DEF Four
    <3> QED BY <3>1, <3>2
  <2> QED BY <2>1, <2>2
<1>3. NormalBranches(nd, v, T1, E1, T2, E2)  BY <1>1 DEF NormalBranches
<1> QED BY <1>2, <1>3

(* Branches made from different halves differ: the node n that gets them   *)
(* is in normal form.                                                      *)
LEMMA MadeDiffer ==
  ASSUME NEW nd, NEW v, NEW C, \A c \in C : nd[c].v # v,
         NEW T1 \in Edge, NEW E1 \in Edge, NEW T2 \in Edge, NEW E2 \in Edge,
         Four(T1, E1, T2, E2) \subseteq C, T1 # T2 \/ E1 # E2,
         NEW r1, NEW r2, IsMade(nd, r1, v, T1, E1), IsMade(nd, r2, v, T2, E2)
  PROVE  r1 # r2
<1>1. SUFFICES ASSUME r1 = r2 PROVE FALSE  OBVIOUS
<1>2. Ptr(T1) \in C /\ Ptr(E1) \in C /\ Ptr(T2) \in C /\ Ptr(E2) \in C  BY DEF Four
<1>3. CASE T1 = E1 /\ T2 = E2  BY <1>1, <1>3 DEF IsMade
<1>4. CASE T1 = E1 /\ T2 # E2  BY <1>1, <1>2, <1>4 DEF IsMade, IsBranch
<1>5. CASE T1 # E1 /\ T2 = E2  BY <1>1, <1>2, <1>5 DEF IsMade, IsBranch
<1>6. CASE T1 # E1 /\ T2 # E2
  <2>1. /\ Pos(T1) = Pos(T2) /\ SetNeg(E1, Neg(T1)) = SetNeg(E2, Neg(T2))
        /\ Neg(T1) <=> Neg(T2)
    BY <1>1, <1>6 DEF IsMade, IsBranch
  <2>2. Neg(T1) \in BOOLEAN /\ Neg(T2) \in BOOLEAN  BY EdgeFacts
  <2>3. Ptr(Pos(T1)) = Ptr(T1) /\ Ptr(Pos(T2)) = Ptr(T2)  BY EdgeFacts
  <2>4. T1 = T2  BY <2>1, <2>3, EdgeFacts
  <2>5. /\ Ptr(SetNeg(E1, Neg(T1))) = Ptr(E1)
        /\ Neg(SetNeg(E1, Neg(T1))) <=> (Neg(E1) <=> ~Neg(T1))
    BY <2>2, SetNegFacts
  <2>6. /\ Ptr(SetNeg(E2, Neg(T2))) = Ptr(E2)
        /\ Neg(SetNeg(E2, Neg(T2))) <=> (Neg(E2) <=> ~Neg(T2))
    BY <2>2, SetNegFacts
  <2>7. Ptr(E1) = Ptr(E2) /\ (Neg(E1) <=> Neg(E2))  BY <2>1, <2>2, <2>5, <2>6, EdgeFacts
  <2>8. E1 = E2  BY <2>7, EdgeFacts
  <2> QED BY <2>4, <2>8
<1> QED BY <1>3, <1>4, <1>5, <1>6

(* After n is rewritten the store is exchangeable, and n is done.          *)
LEMMA StillExchangeable ==
  ASSUME NEW s, NEW h, NEW v, NEW w, Exchangeable(s, h, v, w),
         NEW n \in Nodes(s), s.node[n].v = v, NextKids(s.node, n, w) # {},
         NEW c1, NEW c2, NEW d1, NEW d2, HalvesOf(s, n, w, c1, c2, d1, d2),
         NEW Q, NEW T, NEW E, NEW f, Reformed(s, h, n, v, w, c1, c2, d1, d2, Q, T, E, f)
  PROVE  /\ Exchangeable(f, h, v, w)
         /\ Unprocessed(f.node, v, w) = Unprocessed(s.node, v, w) \ {n}
<1> DEFINE C == Four(c1, d1, c2, d2)
<1>1. /\ Stage(f, Nodes(f), h) /\ SameOrder(s, f)
      /\ Q \subseteq Nodes(s) \ {n} /\ Nodes(s) \ {n} \subseteq Q \cup NextKids(s.node, n, w)
      /\ Q \cup {n} \subseteq Nodes(f)
      /\ \A m \in Q \cup {0} : SameLink(f.node[m], s.node[m])
      /\ \A k \in Q : Kids(s.node, k) \subseteq Q \cup {0, n}
      /\ f.node[n].v = w /\ f.node[n].t = T /\ f.node[n].e = E
      /\ IsMade(f.node, T, v, c1, d1) /\ IsMade(f.node, E, v, c2, d2)
      /\ C \subseteq Q \cup {0}
      /\ \A m \in Nodes(f) \ (Q \cup {n}) :
            \/ IsBranch(f.node, m, v, c1, d1) /\ c1 # d1
            \/ IsBranch(f.node, m, v, c2, d2) /\ c2 # d2
      /\ \A m \in Nodes(f) : f.node[m].ref > 0
  BY DEF Reformed
<1>2. /\ v \in Int \ {VOID, TERMID} /\ w \in Int \ {VOID, TERMID} /\ v # w
      /\ s.node[0].v = TERMID
      /\ \A k \in Nodes(s) : ~Neg(s.node[k].t) /\ s.node[k].t # s.node[k].e
      /\ NoReturn(s.node, v, w) /\ NoReturn(s.node, w, v)
  BY DEF Exchangeable
<1>3. /\ IsHalved(s, v, w, s.node[n].t, c1, c2) /\ IsHalved(s, v, w, s.node[n].e, d1, d2)
  BY HalvesBoth
<1>4. c1 \in Edge /\ c2 \in Edge /\ d1 \in Edge /\ d2 \in Edge  BY <1>3 DEF IsHalved
<1>5. \A c \in C : s.node[c].v \notin {v, w} /\ f.node[c].v \notin {v, w}
  <2>1. \A c \in C : s.node[c].v \notin {v, w}  BY <1>3 DEF IsHalved, Four
  <2> QED BY <1>1, <2>1 DEF SameLink
<1>20. BranchesOn(f.node, v, c1, d1, c2, d2) /\ NormalBranches(f.node, v, c1, d1, c2, d2)
  BY <1>4, TwoShapes
<1>6. /\ \A m : \/ IsBranch(f.node, m, v, c1, d1)
              \/ IsBranch(f.node, m, v, c2, d2)
          => f.node[m].v = v /\ Kids(f.node, m) \subseteq C
      /\ Ptr(c1) \in C /\ Ptr(c2) \in C
  BY <1>20 DEF BranchesOn, Four
<1> HIDE DEF C
<1>7. \A k \in Q : f.node[k].v = s.node[k].v /\ Kids(f.node, k) = Kids(s.node, k)
  BY <1>1 DEF SameLink, Kids
<1>8. f.node[0].v = TERMID  BY <1>1, <1>2 DEF SameLink
<1>9. \A m \in Nodes(f) \ (Q \cup {n}) : f.node[m].v = v /\ Kids(f.node, m) \subseteq C
  BY <1>1, <1>6
<1>10. \A c \in Kids(f.node, n) :
         c \in C \/ (f.node[c].v = v /\ Kids(f.node, c) \subseteq C)
  <2>1. Kids(f.node, n) = {Ptr(T), Ptr(E)}  BY <1>1 DEF Kids
  <2>2. Ptr(T) \in C \/ (f.node[Ptr(T)].v = v /\ Kids(f.node, Ptr(T)) \subseteq C)
    <3>1. CASE c1 = d1  BY <1>1, <1>6, <3>1 DEF IsMade
    <3>2. CASE c1 # d1
      <4>1. IsBranch(f.node, Ptr(T), v, c1, d1)  BY <1>1, <3>2 DEF IsMade
      <4> QED BY <1>6, <4>1
    <3> QED BY <3>1, <3>2
  <2>3. Ptr(E) \in C \/ (f.node[Ptr(E)].v = v /\ Kids(f.node, Ptr(E)) \subseteq C)
    <3>1. CASE c2 = d2  BY <1>1, <1>6, <3>1 DEF IsMade
    <3>2. CASE c2 # d2
      <4>1. IsBranch(f.node, Ptr(E), v, c2, d2)  BY <1>1, <3>2 DEF IsMade
      <4> QED BY <1>6, <4>1
    <3> QED BY <3>1, <3>2
  <2> QED BY <2>1, <2>2, <2>3
<1>11. \E c \in Kids(s.node, n) : s.node[c].v = w  BY DEF NextKids
<1>12. n \in DOMAIN s.node \ {0} /\ Q \subseteq DOMAIN s.node \ {0, n}
  BY <1>1 DEF Nodes
<1>13. \A k \in Q : s.node[k].v = v => n \notin Kids(s.node, k)
  BY <1>2, <1>12 DEF NoReturn
<1>14. \A k \in Q : s.node[k].v = w => n \notin Kids(s.node, k)
  BY <1>2, <1>11, <1>12 DEF NoReturn
<1>15. NoReturn(f.node, v, w)
  <2> SUFFICES ASSUME NEW k \in Nodes(f), f.node[k].v = v, NEW c \in Kids(f.node, k)
               PROVE  /\ f.node[c].v # v
                      /\ f.node[c].v = w => \A d \in Kids(f.node, c) : f.node[d].v # v
    BY DEF NoReturn, Nodes
  <2>1. CASE k \in Q
    <3>1. s.node[k].v = v /\ c \in Kids(s.node, k) /\ c \in Q \cup {0}
      BY <1>1, <1>7, <1>13, <2>1
    <3>2. f.node[c].v = s.node[c].v  BY <1>1, <3>1 DEF SameLink
    <3>3. /\ s.node[c].v # v
          /\ s.node[c].v = w => \A d \in Kids(s.node, c) : s.node[d].v # v
      BY <1>2, <1>12, <2>1, <3>1 DEF NoReturn
    <3>4. ASSUME f.node[c].v = w, NEW d \in Kids(f.node, c) PROVE f.node[d].v # v
      <4>1. c \in Q  BY <1>2, <1>8, <3>1, <3>4
      <4>2. d \in Kids(s.node, c) /\ s.node[d].v # v  BY <1>7, <3>2, <3>3, <3>4, <4>1
      <4>3. d \in Q \cup {0}  BY <1>1, <4>1, <4>2
      <4> QED BY <1>1, <4>2, <4>3 DEF SameLink
    <3> QED BY <3>2, <3>3, <3>4
  <2>2. CASE k = n  BY <1>1, <1>2, <2>2
  <2>3. CASE k \notin Q \cup {n}  BY <1>5, <1>9, <2>3
  <2> QED BY <2>1, <2>2, <2>3
<1>16. NoReturn(f.node, w, v)
  <2> SUFFICES ASSUME NEW k \in Nodes(f), f.node[k].v = w, NEW c \in Kids(f.node, k)
               PROVE  /\ f.node[c].v # w
                      /\ f.node[c].v = v => \A d \in Kids(f.node, c) : f.node[d].v # w
    BY DEF NoReturn, Nodes
  <2>1. CASE k \in Q
    <3>1. s.node[k].v = w /\ c \in Kids(s.node, k) /\ c \in Q \cup {0}
      BY <1>1, <1>7, <1>14, <2>1
    <3>2. f.node[c].v = s.node[c].v  BY <1>1, <3>1 DEF SameLink
    <3>3. /\ s.node[c].v # w
          /\ s.node[c].v = v => \A d \in Kids(s.node, c) : s.node[d].v # w
      BY <1>2, <1>12, <2>1, <3>1 DEF NoReturn
    <3>4. ASSUME f.node[c].v = v, NEW d \in Kids(f.node, c) PROVE f.node[d].v # w
      <4>1. c \in Q  BY <1>2, <1>8, <3>1, <3>4
      <4>2. d \in Kids(s.node, c) /\ s.node[d].v # w  BY <1>7, <3>2, <3>3, <3>4, <4>1
      <4>3. d \in Q \cup {0}  BY <1>1, <1>13, <3>2, <3>4, <4>1, <4>2
      <4> QED BY <1>1, <4>2, <4>3 DEF SameLink
    <3> QED BY <3>2, <3>3, <3>4
  <2>2. CASE k = n  BY <1>2, <1>5, <1>10, <2>2
  <2>3. CASE k \notin Q \cup {n}  BY <1>2, <1>9, <2>3
  <2> QED BY <2>1, <2>2, <2>3
<1>17. \A k \in Nodes(f) : ~Neg(f.node[k].t) /\ f.node[k].t # f.node[k].e
  <2> SUFFICES ASSUME NEW k \in Nodes(f)
               PROVE  ~Neg(f.node[k].t) /\ f.node[k].t # f.node[k].e
    OBVIOUS
  <2>1. CASE k \in Q  BY <1>1, <1>2, <2>1 DEF SameLink
  <2>2. CASE k = n
    <3>1. ~Neg(c1)  BY <1>2, <1>3 DEF IsHalved
    <3>2. ~Neg(T)
      <4>1. CASE c1 = d1  BY <1>1, <3>1, <4>1 DEF IsMade
      <4>2. CASE c1 # d1  BY <1>1, <3>1, <4>2 DEF IsMade
      <4> QED BY <4>1, <4>2
    <3>3. c1 # c2 \/ d1 # d2
      <4>1. s.node[Ptr(s.node[n].t)].v = w \/ s.node[Ptr(s.node[n].e)].v = w
        BY <1>11 DEF Kids
      <4> QED BY <1>3, <4>1 DEF IsHalved
    <3>4. T # E
      <4>1. Four(c1, d1, c2, d2) \subseteq C  BY DEF C
      <4>2. \A c \in C : f.node[c].v # v  BY <1>5
      <4> QED BY <1>1, <1>4, <3>3, <4>1, <4>2, MadeDiffer
    <3> QED BY <1>1, <2>2, <3>2, <3>4
  <2>3. CASE k \notin Q \cup {n}
    <3>1. Normal(f.node, k)  BY <1>1, <1>20, <2>3 DEF NormalBranches
    <3> QED BY <3>1 DEF Normal
  <2> QED BY <2>1, <2>2, <2>3
<1>18. Exchangeable(f, h, v, w)
  BY <1>1, <1>2, <1>8, <1>15, <1>16, <1>17 DEF Exchangeable
<1>19. Unprocessed(f.node, v, w) = Unprocessed(s.node, v, w) \ {n}
  <2>1. ASSUME NEW k \in Q, s.node[k].v = v
        PROVE  NextKids(f.node, k, w) = NextKids(s.node, k, w)
    <3>1. Kids(s.node, k) \subseteq Q \cup {0}  BY <1>1, <1>13, <2>1
    <3> QED BY <1>1, <1>7, <3>1 DEF NextKids, SameLink
  <2>2. ASSUME NEW k \in Nodes(f), f.node[k].v = v, NextKids(f.node, k, w) # {}
        PROVE  k \in Q
    <3>1. k # n  BY <1>1, <1>2, <2>2
    <3>2. CASE k \notin Q \cup {n}  BY <1>5, <1>9, <2>2, <3>2 DEF NextKids
    <3> QED BY <3>1, <3>2
  <2>3. ASSUME NEW k \in Nodes(s) \ {n}, s.node[k].v = v PROVE k \in Q
    BY <1>1, <1>2, <2>3 DEF NextKids
  <2>4. \A k \in Q : k \in Nodes(s) /\ k \in Nodes(f) /\ k # n  BY <1>1
  <2> QED BY <1>7, <2>1, <2>2, <2>3, <2>4 DEF Unprocessed, Nodes
<1> QED BY <1>18, <1>19
------------------------------------------------------------------------------
(* Uniqueness: no rewritten node comes to look like another one.           *)

\* The cofactors of an edge by variable u, which is not above its node.
CornerT(nd, F, u) == IF nd[Ptr(F)].v = u THEN SetNeg(nd[Ptr(F)].t, Neg(F)) ELSE F
CornerE(nd, F, u) == IF nd[Ptr(F)].v = u THEN SetNeg(nd[Ptr(F)].e, Neg(F)) ELSE F

(* No two nodes have the same variable and children.                       *)
Distinct(nd) == \A k, m \in DOMAIN nd \ {0} : SameLink(nd[k], nd[m]) => k = m

\* Node k of v and node m of w have the same cofactors by v and w.
SameCorners(nd, k, m, v, w) ==
  /\ CornerT(nd, nd[k].t, w) = CornerT(nd, nd[m].t, v)
  /\ CornerE(nd, nd[k].t, w) = CornerT(nd, nd[m].e, v)
  /\ CornerT(nd, nd[k].e, w) = CornerE(nd, nd[m].t, v)
  /\ CornerE(nd, nd[k].e, w) = CornerE(nd, nd[m].e, v)

(* The invariant that keeps nodes different: no node of v, rewritten or    *)
(* yet to be, has the function of a node of w, as told from the corners    *)
(* two links below.                                                        *)
Apart(nd, v, w) ==
  \A k, m \in DOMAIN nd \ {0} :
    nd[k].v = v /\ nd[m].v = w => ~SameCorners(nd, k, m, v, w)

(* Signs cancel.                                                           *)
LEMMA SetNegTwice ==
  ASSUME NEW e \in Edge, NEW f \in Edge, NEW b \in BOOLEAN, NEW c \in BOOLEAN
  PROVE  /\ SetNeg(SetNeg(e, b), b) = e
         /\ SetNeg(e, b) = SetNeg(f, b) => e = f
         /\ ~Neg(e) /\ ~Neg(f) /\ SetNeg(e, b) = SetNeg(f, c) => b = c /\ e = f
         /\ SetNeg(Pos(e), Neg(e)) = e
<1>1. /\ SetNeg(e, b) \in Edge /\ Ptr(SetNeg(e, b)) = Ptr(e)
      /\ Neg(SetNeg(e, b)) <=> (Neg(e) <=> ~b)
  BY SetNegFacts
<1>2. /\ SetNeg(f, b) \in Edge /\ Ptr(SetNeg(f, b)) = Ptr(f)
      /\ Neg(SetNeg(f, b)) <=> (Neg(f) <=> ~b)
  BY SetNegFacts
<1>3. /\ SetNeg(f, c) \in Edge /\ Ptr(SetNeg(f, c)) = Ptr(f)
      /\ Neg(SetNeg(f, c)) <=> (Neg(f) <=> ~c)
  BY SetNegFacts
<1>4. SetNeg(SetNeg(e, b), b) = e  BY EdgeFacts DEF SetNeg
<1>5. SetNeg(e, b) = SetNeg(f, b) => e = f
  <2>1. SetNeg(e, b) = SetNeg(f, b) => Ptr(e) = Ptr(f) /\ (Neg(e) <=> Neg(f))  BY <1>1, <1>2
  <2> QED BY <2>1, EdgeFacts
<1>6. ~Neg(e) /\ ~Neg(f) /\ SetNeg(e, b) = SetNeg(f, c) => b = c /\ e = f
  <2> SUFFICES ASSUME ~Neg(e), ~Neg(f), SetNeg(e, b) = SetNeg(f, c)
               PROVE  b = c /\ e = f
    OBVIOUS
  <2> DEFINE x == SetNeg(e, b)
  <2>1. Neg(x) <=> b  BY <1>1
  <2>2. Neg(x) <=> c  BY <1>3
  <2>3. b = c  BY <2>1, <2>2
  <2>4. Ptr(e) = Ptr(f)  BY <1>1, <1>3
  <2> QED BY <2>3, <2>4, EdgeFacts
<1>7. SetNeg(Pos(e), Neg(e)) = e  BY EdgeFacts DEF SetNeg
<1> QED BY <1>4, <1>5, <1>6, <1>7

(* The nodes of u: no two alike, none with two equal children.              *)
Tame(nd, u) ==
  /\ nd[0].v # u /\ Distinct(nd)
  /\ \A k \in DOMAIN nd \ {0} : nd[k].v = u =>
       nd[k].t \in Edge /\ nd[k].e \in Edge /\ Normal(nd, k)

(* An edge is determined by its cofactors.                                 *)
LEMMA CornersTell ==
  ASSUME NEW nd, NEW u, Tame(nd, u),
         NEW F \in Edge, Ptr(F) \in DOMAIN nd, NEW G \in Edge, Ptr(G) \in DOMAIN nd,
         CornerT(nd, F, u) = CornerT(nd, G, u), CornerE(nd, F, u) = CornerE(nd, G, u)
  PROVE  F = G
<1>0. Neg(F) \in BOOLEAN /\ Neg(G) \in BOOLEAN  BY EdgeFacts
<1>1. ASSUME NEW e \in Edge, Ptr(e) \in DOMAIN nd, nd[Ptr(e)].v = u
      PROVE  /\ Ptr(e) \in DOMAIN nd \ {0}
             /\ nd[Ptr(e)].t \in Edge /\ nd[Ptr(e)].e \in Edge
             /\ ~Neg(nd[Ptr(e)].t) /\ nd[Ptr(e)].t # nd[Ptr(e)].e
             /\ CornerT(nd, e, u) = SetNeg(nd[Ptr(e)].t, Neg(e))
             /\ CornerE(nd, e, u) = SetNeg(nd[Ptr(e)].e, Neg(e))
             /\ CornerT(nd, e, u) # CornerE(nd, e, u)
  <2>1. Ptr(e) \in DOMAIN nd \ {0}  BY <1>1 DEF Tame
  <2>2. /\ nd[Ptr(e)].t \in Edge /\ nd[Ptr(e)].e \in Edge
        /\ ~Neg(nd[Ptr(e)].t) /\ nd[Ptr(e)].t # nd[Ptr(e)].e
    BY <1>1, <2>1 DEF Tame, Normal
  <2>3. /\ CornerT(nd, e, u) = SetNeg(nd[Ptr(e)].t, Neg(e))
        /\ CornerE(nd, e, u) = SetNeg(nd[Ptr(e)].e, Neg(e))
    BY <1>1 DEF CornerT, CornerE
  <2>4. Neg(e) \in BOOLEAN  BY <1>1, EdgeFacts
  <2>5. SetNeg(nd[Ptr(e)].t, Neg(e)) # SetNeg(nd[Ptr(e)].e, Neg(e))
    BY <2>2, <2>4, SetNegTwice
  <2> QED BY <2>1, <2>2, <2>3, <2>5
<1>2. ASSUME NEW e, nd[Ptr(e)].v # u
      PROVE  CornerT(nd, e, u) = e /\ CornerE(nd, e, u) = e
  BY <1>2 DEF CornerT, CornerE
<1>3. CASE nd[Ptr(F)].v = u /\ nd[Ptr(G)].v = u
  <2> DEFINE a == nd[Ptr(F)].t  b == nd[Ptr(F)].e  c == nd[Ptr(G)].t  d == nd[Ptr(G)].e
  <2>1. /\ a \in Edge /\ b \in Edge /\ c \in Edge /\ d \in Edge /\ ~Neg(a) /\ ~Neg(c)
        /\ Ptr(F) \in DOMAIN nd \ {0} /\ Ptr(G) \in DOMAIN nd \ {0}
        /\ SetNeg(a, Neg(F)) = SetNeg(c, Neg(G))
        /\ SetNeg(b, Neg(F)) = SetNeg(d, Neg(G))
    BY <1>1, <1>3
  <2> HIDE DEF a, b, c, d
  <2>2. Neg(F) = Neg(G) /\ a = c  BY <1>0, <2>1, SetNegTwice
  <2>3. b = d  BY <1>0, <2>1, <2>2, SetNegTwice
  <2>4. Ptr(F) = Ptr(G)
    BY <1>3, <2>1, <2>2, <2>3 DEF Tame, Distinct, SameLink, a, b, c, d
  <2> QED BY <2>2, <2>4, EdgeFacts
<1>4. CASE nd[Ptr(F)].v = u /\ nd[Ptr(G)].v # u  BY <1>1, <1>2, <1>4
<1>5. CASE nd[Ptr(F)].v # u /\ nd[Ptr(G)].v = u  BY <1>1, <1>2, <1>5
<1>6. CASE nd[Ptr(F)].v # u /\ nd[Ptr(G)].v # u  BY <1>2, <1>6
<1> QED BY <1>3, <1>4, <1>5, <1>6

(* The cofactors by v of an edge made for <v, T, E> are T and E.           *)
LEMMA MadeCorners ==
  ASSUME NEW nd, NEW e, NEW v, NEW T \in Edge, NEW E \in Edge, IsMade(nd, e, v, T, E),
         nd[Ptr(T)].v # v
  PROVE  CornerT(nd, e, v) = T /\ CornerE(nd, e, v) = E
<1>1. CASE T = E  BY <1>1 DEF IsMade, CornerT, CornerE
<1>2. CASE T # E
  <2>1. /\ nd[Ptr(e)].v = v /\ nd[Ptr(e)].t = Pos(T) /\ nd[Ptr(e)].e = SetNeg(E, Neg(T))
        /\ (Neg(e) <=> Neg(T)) /\ e \in Edge
    BY <1>2 DEF IsMade, IsBranch
  <2>2. Neg(e) \in BOOLEAN /\ Neg(T) \in BOOLEAN  BY <2>1, EdgeFacts
  <2>3. Neg(e) = Neg(T)  BY <2>1, <2>2
  <2>4. SetNeg(Pos(T), Neg(T)) = T /\ SetNeg(SetNeg(E, Neg(T)), Neg(T)) = E
    BY <2>2, SetNegTwice
  <2> QED BY <2>1, <2>3, <2>4 DEF CornerT, CornerE
<1> QED BY <1>1, <1>2

(* The halves that bdd_process_level takes are the cofactors by w.         *)
LEMMA HalvesAreCorners ==
  ASSUME NEW s, NEW h, NEW v, NEW w, Exchangeable(s, h, v, w),
         NEW n \in Nodes(s), s.node[n].v = v,
         NEW c1, NEW c2, NEW d1, NEW d2, HalvesOf(s, n, w, c1, c2, d1, d2)
  PROVE  /\ c1 = CornerT(s.node, s.node[n].t, w) /\ c2 = CornerE(s.node, s.node[n].t, w)
         /\ d1 = CornerT(s.node, s.node[n].e, w) /\ d2 = CornerE(s.node, s.node[n].e, w)
<1>1. ASSUME NEW F \in Edge
      PROVE  /\ Halved(s, F, s.node[Ptr(F)].v = w)[1] = CornerT(s.node, F, w)
             /\ Halved(s, F, s.node[Ptr(F)].v = w)[2] = CornerE(s.node, F, w)
  <2>1. CASE s.node[Ptr(F)].v = w
    <3>1. Ptr(F) # 0  BY <2>1 DEF Exchangeable
    <3>2. ~(F = VOID \/ Term(F))  BY <3>1, EdgeFacts
    <3> QED BY <2>1, <3>2 DEF Halved, CofactorPos, CofactorNeg, At, CornerT, CornerE
  <2>2. CASE s.node[Ptr(F)].v # w  BY <2>2 DEF Halved, CornerT, CornerE
  <2> QED BY <2>1, <2>2
<1>2. s.node[n].t \in Edge /\ s.node[n].e \in Edge  BY HalvesBoth
<1> QED BY <1>1, <1>2 DEF HalvesOf

(* The nodes of both variables are such.                                   *)
LEMMA TameStore ==
  ASSUME NEW s, NEW h, NEW v, NEW w, Exchangeable(s, h, v, w), Distinct(s.node)
  PROVE  Tame(s.node, v) /\ Tame(s.node, w)
BY DEF Tame, Exchangeable, Stage, Linked, Normal, Nodes

(* After n is rewritten no two nodes are alike, though n was not looked up *)
(* in the table of w: BDD_SWAP_RANKS need not search it.                   *)
LEMMA StillApart ==
  ASSUME NEW s, NEW h, NEW v, NEW w, Exchangeable(s, h, v, w),
         Distinct(s.node), Apart(s.node, v, w),
         NEW n \in Nodes(s), s.node[n].v = v, NextKids(s.node, n, w) # {},
         NEW c1, NEW c2, NEW d1, NEW d2, HalvesOf(s, n, w, c1, c2, d1, d2),
         NEW Q, NEW T, NEW E, NEW f, Reformed(s, h, n, v, w, c1, c2, d1, d2, Q, T, E, f)
  PROVE  Distinct(f.node) /\ Apart(f.node, v, w)
<1> DEFINE C == Four(c1, d1, c2, d2)
           a == s.node
           b == f.node
<1>1. /\ Q \subseteq Nodes(s) \ {n} /\ Q \cup {n} \subseteq Nodes(f)
      /\ \A m \in Q \cup {0} : SameLink(b[m], a[m])
      /\ \A k \in Q : Kids(a, k) \subseteq Q \cup {0, n}
      /\ b[n].v = w /\ b[n].t = T /\ b[n].e = E
      /\ IsMade(b, T, v, c1, d1) /\ IsMade(b, E, v, c2, d2)
      /\ C \subseteq Q \cup {0}
      /\ \A m \in Nodes(f) \ (Q \cup {n}) :
            /\ \/ IsBranch(b, m, v, c1, d1) /\ c1 # d1
               \/ IsBranch(b, m, v, c2, d2) /\ c2 # d2
            /\ \A k \in Nodes(f) \ {n} : SameLink(b[k], b[m]) => k = m
  BY DEF Reformed
<1>2. /\ Exchangeable(f, h, v, w)  BY StillExchangeable
<1>3. IsHalved(s, v, w, a[n].t, c1, c2) /\ IsHalved(s, v, w, a[n].e, d1, d2)  BY HalvesBoth
<1>4. c1 \in Edge /\ c2 \in Edge /\ d1 \in Edge /\ d2 \in Edge  BY <1>3 DEF IsHalved
<1>5. \A c \in C : a[c].v \notin {v, w} /\ b[c].v \notin {v, w}
  <2>1. \A c \in C : a[c].v \notin {v, w}  BY <1>3 DEF IsHalved, Four
  <2> QED BY <1>1, <2>1 DEF SameLink
<1>6. Ptr(c1) \in C /\ Ptr(c2) \in C  BY DEF Four
<1>7. /\ c1 = CornerT(a, a[n].t, w) /\ c2 = CornerE(a, a[n].t, w)
      /\ d1 = CornerT(a, a[n].e, w) /\ d2 = CornerE(a, a[n].e, w)
  BY HalvesAreCorners
<1>8. /\ CornerT(b, T, v) = c1 /\ CornerE(b, T, v) = d1
      /\ CornerT(b, E, v) = c2 /\ CornerE(b, E, v) = d2
  <2>1. IsMade(b, T, v, c1, d1) /\ IsMade(b, E, v, c2, d2)  BY <1>1
  <2>2. b[Ptr(c1)].v # v /\ b[Ptr(c2)].v # v  BY <1>5, <1>6
  <2>3. CornerT(b, T, v) = c1 /\ CornerE(b, T, v) = d1  BY <1>4, <2>1, <2>2, MadeCorners
  <2>4. CornerT(b, E, v) = c2 /\ CornerE(b, E, v) = d2  BY <1>4, <2>1, <2>2, MadeCorners
  <2> QED BY <2>3, <2>4
<1>9. BranchesOn(b, v, c1, d1, c2, d2)  BY <1>4, TwoShapes
<1>10. ASSUME NEW m \in Nodes(f) \ (Q \cup {n})
       PROVE  /\ b[m].v = v /\ Kids(b, m) \subseteq C
              /\ \A k \in Nodes(f) \ {n} : SameLink(b[k], b[m]) => k = m
  BY <1>1, <1>9, <1>10 DEF BranchesOn
<1> HIDE DEF C, a, b
<1>11. v # w /\ n \notin Q /\ 0 \notin Q /\ Nodes(f) = DOMAIN b \ {0} /\ Nodes(s) = DOMAIN a \ {0}
       /\ a[n].v = v /\ n \in Nodes(s)
  BY <1>1 DEF Exchangeable, Nodes, a, b
<1>12. NoReturn(a, v, w) /\ NoReturn(a, w, v)  BY DEF Exchangeable, a
<1>13. \A k \in Q : b[k].v = a[k].v /\ b[k].t = a[k].t /\ b[k].e = a[k].e
  BY <1>1 DEF SameLink
<1>14. ASSUME NEW k \in Q, a[k].v \in {v, w}
       PROVE  Ptr(a[k].t) \in Q \cup {0} /\ Ptr(a[k].e) \in Q \cup {0}
  <2>1. n \notin Kids(a, k)
    <3>1. CASE a[k].v = v
      BY <1>1, <1>11, <1>12, <3>1 DEF NoReturn
    <3>2. CASE a[k].v = w
      <4>1. \E d \in Kids(a, n) : a[d].v = w  BY DEF NextKids, a
      <4> QED BY <1>1, <1>11, <1>12, <3>2, <4>1 DEF NoReturn
    <3> QED BY <1>14, <3>1, <3>2
  <2> QED BY <1>1, <2>1 DEF Kids
<1>15. ASSUME NEW F, Ptr(F) \in Q \cup {0}, NEW u
       PROVE  CornerT(b, F, u) = CornerT(a, F, u) /\ CornerE(b, F, u) = CornerE(a, F, u)
  BY <1>1, <1>15 DEF CornerT, CornerE, SameLink
<1>16. ASSUME NEW k \in Q, a[k].v \in {v, w}, NEW u
       PROVE  /\ CornerT(b, b[k].t, u) = CornerT(a, a[k].t, u)
              /\ CornerE(b, b[k].t, u) = CornerE(a, a[k].t, u)
              /\ CornerT(b, b[k].e, u) = CornerT(a, a[k].e, u)
              /\ CornerE(b, b[k].e, u) = CornerE(a, a[k].e, u)
  BY <1>13, <1>14, <1>15, <1>16
<1>17. ASSUME NEW m \in Q, a[m].v = w, SameLink(b[n], b[m]) PROVE FALSE
  <2>1. T = b[m].t /\ E = b[m].e  BY <1>1, <1>17 DEF SameLink
  <2>2. /\ CornerT(b, T, v) = CornerT(a, a[m].t, v) /\ CornerE(b, T, v) = CornerE(a, a[m].t, v)
        /\ CornerT(b, E, v) = CornerT(a, a[m].e, v) /\ CornerE(b, E, v) = CornerE(a, a[m].e, v)
    BY <1>16, <1>17, <2>1
  <2>3. SameCorners(a, n, m, v, w)  BY <1>7, <1>8, <2>2 DEF SameCorners
  <2>4. Apart(a, v, w)  BY DEF a
  <2> QED BY <1>1, <1>11, <1>17, <2>3, <2>4 DEF Apart
<1>18. Distinct(b)
  <2> SUFFICES ASSUME NEW k \in Nodes(f), NEW m \in Nodes(f), SameLink(b[k], b[m])
               PROVE  k = m
    BY <1>11 DEF Distinct
  <2>1. b[k].v = b[m].v /\ SameLink(b[m], b[k])  BY DEF SameLink
  <2>2. CASE k \in Q /\ m \in Q
    <3>1. Distinct(a)  BY DEF a
    <3>2. SameLink(a[k], a[m])  BY <1>13, <2>2 DEF SameLink
    <3> QED BY <1>1, <1>11, <2>2, <3>1, <3>2 DEF Distinct
  <2>3. CASE k = n
    <3>1. b[m].v = w  BY <1>1, <2>1, <2>3
    <3>2. m \in Q \cup {n}  BY <1>10, <1>11, <3>1
    <3> QED BY <1>13, <1>17, <2>3, <3>1, <3>2
  <2>4. CASE m = n
    <3>1. b[k].v = w  BY <1>1, <2>1, <2>4
    <3>2. k \in Q \cup {n}  BY <1>10, <1>11, <3>1
    <3> QED BY <1>13, <1>17, <2>1, <2>4, <3>1, <3>2
  <2>5. CASE k # n /\ m \notin Q \cup {n}  BY <1>10, <2>5
  <2>6. CASE m # n /\ k \notin Q \cup {n}  BY <1>10, <2>1, <2>6
  <2> QED BY <2>2, <2>3, <2>4, <2>5, <2>6
<1>19. Tame(a, w) /\ Tame(b, v)
  BY <1>2, <1>18, TameStore DEF a, b
<1>20. ASSUME NEW k \in Nodes(s)
       PROVE  /\ a[k].t \in Edge /\ Ptr(a[k].t) \in DOMAIN a
              /\ a[k].e \in Edge /\ Ptr(a[k].e) \in DOMAIN a
  BY DEF Exchangeable, Stage, Linked, a
<1>21. ASSUME NEW k \in Nodes(f)
       PROVE  /\ b[k].t \in Edge /\ Ptr(b[k].t) \in DOMAIN b
              /\ b[k].e \in Edge /\ Ptr(b[k].e) \in DOMAIN b
              /\ b[k].t # b[k].e
  BY <1>2 DEF Exchangeable, Stage, Linked, b
<1>22. Apart(b, v, w)
  <2> SUFFICES ASSUME NEW k \in Nodes(f), NEW m \in Nodes(f), b[k].v = v, b[m].v = w,
                      SameCorners(b, k, m, v, w)
               PROVE  FALSE
    BY <1>11 DEF Apart
  <2>1. /\ CornerT(b, b[k].t, w) = CornerT(b, b[m].t, v)
        /\ CornerE(b, b[k].t, w) = CornerT(b, b[m].e, v)
        /\ CornerT(b, b[k].e, w) = CornerE(b, b[m].t, v)
        /\ CornerE(b, b[k].e, w) = CornerE(b, b[m].e, v)
    BY DEF SameCorners
  <2>2. m \in Q \cup {n}  BY <1>10, <1>11
  <2>3. k # n  BY <1>1, <1>11
  <2>4. CASE k \in Q /\ m \in Q
    <3>1. a[k].v = v /\ a[m].v = w  BY <1>13, <2>4
    <3>2. SameCorners(a, k, m, v, w)
      BY <1>16, <2>1, <2>4, <3>1 DEF SameCorners
    <3>3. Apart(a, v, w)  BY DEF a
    <3> QED BY <1>1, <1>11, <2>4, <3>1, <3>2, <3>3 DEF Apart
  <2>5. CASE k \in Q /\ m = n
    <3>1. a[k].v = v /\ k \in Nodes(s)  BY <1>1, <1>13, <2>5
    <3>2. /\ CornerT(a, a[k].t, w) = c1 /\ CornerE(a, a[k].t, w) = c2
          /\ CornerT(a, a[k].e, w) = d1 /\ CornerE(a, a[k].e, w) = d2
      BY <1>1, <1>8, <1>16, <2>1, <2>5, <3>1
    <3>3. a[k].t = a[n].t  BY <1>7, <1>11, <1>19, <1>20, <3>1, <3>2, CornersTell
    <3>4. a[k].e = a[n].e  BY <1>7, <1>11, <1>19, <1>20, <3>1, <3>2, CornersTell
    <3>5. SameLink(a[k], a[n])  BY <1>11, <3>1, <3>3, <3>4 DEF SameLink
    <3>6. Distinct(a)  BY DEF a
    <3> QED BY <1>11, <2>3, <3>1, <3>5, <3>6 DEF Distinct
  <2>6. CASE k \notin Q
    <3>1. Kids(b, k) \subseteq C  BY <1>10, <2>3, <2>6
    <3>2. b[Ptr(b[k].t)].v # w /\ b[Ptr(b[k].e)].v # w  BY <1>5, <3>1 DEF Kids
    <3>3. /\ CornerT(b, b[k].t, w) = CornerE(b, b[k].t, w)
          /\ CornerT(b, b[k].e, w) = CornerE(b, b[k].e, w)
      BY <3>2 DEF CornerT, CornerE
    <3>4. b[m].t = b[m].e  BY <1>19, <1>21, <2>1, <3>3, CornersTell
    <3> QED BY <1>21, <3>4
  <2> QED BY <2>2, <2>4, <2>5, <2>6
<1> QED BY <1>18, <1>22 DEF a, b
------------------------------------------------------------------------------
(* The ranks.                                                              *)

\* Each variable has one rank, and each rank one variable.
Ranking(s) ==
  /\ DOMAIN s.space \subseteq 0 .. TERMID - 1 /\ DOMAIN s.rank \subseteq 0 .. TERMID - 1
  /\ \A x \in DOMAIN s.rank : s.rank[x] \in DOMAIN s.space /\ s.space[s.rank[x]] = x
  /\ \A i \in DOMAIN s.space : s.space[i] \in DOMAIN s.rank /\ s.rank[s.space[i]] = i

(* The rank of the node at an address.                                     *)
NodeRank(s, k) == VarRank(s, s.node[k].v)

(* The ranks rise from a node to its children, except from a node of w to   *)
(* one of v that an exchange has put below it.                              *)
Rising(s, v, w) ==
  \A k \in Nodes(s) :
    /\ s.node[k].v \in DOMAIN s.rank
    /\ \A c \in Kids(s.node, k) :
         \/ NodeRank(s, k) < NodeRank(s, c)
         \/ s.node[k].v = w /\ s.node[c].v = v

(* The invariant of bdd_process_level.                                     *)
Midway(s, h, r) ==
  /\ Exchangeable(s, h, s.space[r], s.space[r + 1])
  /\ Ranking(s) /\ r \in DOMAIN s.space /\ r + 1 \in DOMAIN s.space
  /\ Rising(s, s.space[r], s.space[r + 1])
  /\ Distinct(s.node) /\ Apart(s.node, s.space[r], s.space[r + 1])

(* The ranks r and r + 1 are those of two variables, and of no other.      *)
LEMMA TwoRanks ==
  ASSUME NEW s, NEW r, Ranking(s), r \in DOMAIN s.space, r + 1 \in DOMAIN s.space
  PROVE  /\ r \in Nat /\ r + 1 < TERMID
         /\ s.space[r] \in DOMAIN s.rank /\ s.space[r + 1] \in DOMAIN s.rank
         /\ VarRank(s, s.space[r]) = r /\ VarRank(s, s.space[r + 1]) = r + 1
         /\ \A x \in DOMAIN s.rank \cup {TERMID} :
              /\ VarRank(s, x) \in Nat
              /\ VarRank(s, x) = r <=> x = s.space[r]
              /\ VarRank(s, x) = r + 1 <=> x = s.space[r + 1]
<1> DEFINE v == s.space[r]
           w == s.space[r + 1]
<1>1. TERMID \in Nat  BY DEF TERMID
<1>2. r \in 0 .. TERMID - 1 /\ r + 1 \in 0 .. TERMID - 1  BY DEF Ranking
<1>3. /\ v \in DOMAIN s.rank /\ w \in DOMAIN s.rank /\ s.rank[v] = r /\ s.rank[w] = r + 1
      /\ v # TERMID /\ w # TERMID
  BY <1>1 DEF Ranking
<1>4. ASSUME NEW x \in DOMAIN s.rank \cup {TERMID}
      PROVE  /\ VarRank(s, x) \in Nat
             /\ VarRank(s, x) = r <=> x = v
             /\ VarRank(s, x) = r + 1 <=> x = w
  <2>1. CASE x = TERMID
    <3>1. VarRank(s, x) = TERMID  BY <2>1 DEF VarRank
    <3> HIDE DEF v, w
    <3> QED BY <1>1, <1>2, <1>3, <2>1, <3>1
  <2>2. CASE x # TERMID
    <3>1. VarRank(s, x) = s.rank[x] /\ x \in DOMAIN s.rank  BY <2>2 DEF VarRank
    <3>2. s.rank[x] \in DOMAIN s.space /\ s.space[s.rank[x]] = x /\ s.rank[x] \in Nat
      BY <1>1, <3>1 DEF Ranking
    <3> QED BY <1>3, <3>1, <3>2
  <2> QED BY <2>1, <2>2
<1>5. VarRank(s, v) = r /\ VarRank(s, w) = r + 1  BY <1>3 DEF VarRank
<1> HIDE DEF v, w
<1> QED BY <1>1, <1>2, <1>3, <1>4, <1>5 DEF v, w

(* bdd_process_level tells the children of the lower variable by their     *)
(* rank.                                                                   *)
LEMMA RankTold ==
  ASSUME NEW s, NEW h, NEW r, Midway(s, h, r),
         NEW n \in NodesOf(s, s.space[r])
  PROVE  LET F1 == s.node[n].t
             F0 == s.node[n].e
             w == s.space[r + 1]
         IN ProcessNode(s, n, r) =
              Processed(s, n, s.space[r], w, F1, F0,
                        s.node[Ptr(F1)].v = w, s.node[Ptr(F0)].v = w)
<1> DEFINE F1 == s.node[n].t
           F0 == s.node[n].e
           w == s.space[r + 1]
<1>1. n \in Nodes(s)  BY DEF NodesOf
<1>2. Ptr(F1) \in DOMAIN s.node /\ Ptr(F0) \in DOMAIN s.node
  BY <1>1 DEF Midway, Exchangeable, Stage, Linked
<1>3. \A k \in DOMAIN s.node : s.node[k].v \in DOMAIN s.rank \cup {TERMID}
  BY DEF Midway, Exchangeable, Rising, Nodes
<1>4. \A x \in DOMAIN s.rank \cup {TERMID} : VarRank(s, x) = r + 1 <=> x = w
  BY TwoRanks DEF Midway
<1>5. /\ Rank(s, F1) = VarRank(s, s.node[Ptr(F1)].v)
      /\ Rank(s, F0) = VarRank(s, s.node[Ptr(F0)].v)
  BY DEF Rank, VarId, At
<1> HIDE DEF F1, F0, w
<1>6. (Rank(s, F1) = r + 1) = (s.node[Ptr(F1)].v = w)  BY <1>2, <1>3, <1>4, <1>5
<1>7. (Rank(s, F0) = r + 1) = (s.node[Ptr(F0)].v = w)  BY <1>2, <1>3, <1>4, <1>5
<1> QED BY <1>6, <1>7 DEF ProcessNode, F1, F0, w

(* After n is rewritten the order is kept, but for v below w.              *)
LEMMA StillRising ==
  ASSUME NEW s, NEW h, NEW r, Midway(s, h, r),
         NEW v, v = s.space[r], NEW w, w = s.space[r + 1],
         NEW n \in Nodes(s), s.node[n].v = v, NextKids(s.node, n, w) # {},
         NEW c1, NEW c2, NEW d1, NEW d2, HalvesOf(s, n, w, c1, c2, d1, d2),
         NEW Q, NEW T, NEW E, NEW f, Reformed(s, h, n, v, w, c1, c2, d1, d2, Q, T, E, f)
  PROVE  Rising(f, v, w)
<1> DEFINE C == Four(c1, d1, c2, d2)
<1>1. /\ SameOrder(s, f)
      /\ Q \subseteq Nodes(s) \ {n}
      /\ \A m \in Q \cup {0} : SameLink(f.node[m], s.node[m])
      /\ \A k \in Q : Kids(s.node, k) \subseteq Q \cup {0, n}
      /\ f.node[n].v = w /\ f.node[n].t = T /\ f.node[n].e = E
      /\ IsMade(f.node, T, v, c1, d1) /\ IsMade(f.node, E, v, c2, d2)
      /\ C \subseteq Q \cup {0}
      /\ \A m \in Nodes(f) \ (Q \cup {n}) :
            \/ IsBranch(f.node, m, v, c1, d1) /\ c1 # d1
            \/ IsBranch(f.node, m, v, c2, d2) /\ c2 # d2
  BY DEF Reformed
<1>2. /\ Exchangeable(s, h, v, w) /\ Ranking(s) /\ Rising(s, v, w)
      /\ r \in DOMAIN s.space /\ r + 1 \in DOMAIN s.space
  BY DEF Midway
<1>3. /\ r \in Nat /\ v \in DOMAIN s.rank /\ w \in DOMAIN s.rank
      /\ VarRank(s, v) = r /\ VarRank(s, w) = r + 1
      /\ \A x \in DOMAIN s.rank \cup {TERMID} :
           /\ VarRank(s, x) \in Nat
           /\ VarRank(s, x) = r <=> x = v
           /\ VarRank(s, x) = r + 1 <=> x = w
  BY <1>2, TwoRanks
<1>4. \A k \in DOMAIN s.node : s.node[k].v \in DOMAIN s.rank \cup {TERMID}
  BY <1>2 DEF Exchangeable, Rising, Nodes
<1>5. IsHalved(s, v, w, s.node[n].t, c1, c2) /\ IsHalved(s, v, w, s.node[n].e, d1, d2)
  BY <1>2, HalvesBoth
<1>6. c1 \in Edge /\ c2 \in Edge /\ d1 \in Edge /\ d2 \in Edge  BY <1>5 DEF IsHalved
<1>7. BranchesOn(f.node, v, c1, d1, c2, d2)  BY <1>6, TwoShapes
<1>8. \A x : VarRank(f, x) = VarRank(s, x)  BY <1>1 DEF VarRank, SameOrder
<1>9. \A c \in C : /\ c \in DOMAIN s.node /\ s.node[c].v \notin {v, w}
                   /\ \/ c \in Kids(s.node, n)
                      \/ \E k \in Kids(s.node, n) :
                           /\ s.node[k].v = w /\ k \in DOMAIN s.node
                           /\ c \in Kids(s.node, k)
  <2>1. /\ Ptr(s.node[n].t) \in DOMAIN s.node /\ Ptr(s.node[n].e) \in DOMAIN s.node
    BY <1>2, HalvesBoth
  <2> QED BY <1>5, <2>1 DEF IsHalved, Four, Kids
<1>10. \A c \in C : NodeRank(s, c) > r + 1
  <2> SUFFICES ASSUME NEW c \in C PROVE NodeRank(s, c) > r + 1
    OBVIOUS
  <2>1. NodeRank(s, c) \in Nat \ {r, r + 1}  BY <1>3, <1>4, <1>9 DEF NodeRank
  <2>2. CASE c \in Kids(s.node, n)
    <3>1. NodeRank(s, n) = r  BY <1>3 DEF NodeRank
    <3>2. v # w  BY <1>2 DEF Exchangeable
    <3>3. NodeRank(s, n) < NodeRank(s, c)  BY <1>2, <2>2, <3>2 DEF Rising
    <3> QED BY <1>3, <2>1, <3>1, <3>3
  <2>3. ASSUME NEW k \in Kids(s.node, n), s.node[k].v = w, k \in DOMAIN s.node,
               c \in Kids(s.node, k)
        PROVE  NodeRank(s, c) > r + 1
    <3>1. NodeRank(s, k) = r + 1  BY <1>3, <2>3 DEF NodeRank
    <3>2. k \in Nodes(s)  BY <1>2, <2>3 DEF Exchangeable, Nodes
    <3>3. NodeRank(s, k) < NodeRank(s, c)  BY <1>2, <1>9, <2>3, <3>2 DEF Rising
    <3> QED BY <1>3, <2>1, <3>1, <3>3
  <2> QED BY <1>9, <2>2, <2>3
<1>11. \A c \in C : NodeRank(f, c) > r + 1
  <2>1. \A c \in C : f.node[c].v = s.node[c].v  BY <1>1 DEF SameLink
  <2> QED BY <1>8, <1>10, <2>1 DEF NodeRank
<1>12. ASSUME NEW m, IsBranch(f.node, m, v, c1, d1) \/ IsBranch(f.node, m, v, c2, d2)
       PROVE  f.node[m].v = v /\ Kids(f.node, m) \subseteq C
  BY <1>7, <1>12 DEF BranchesOn
<1>13. Ptr(c1) \in C /\ Ptr(c2) \in C  BY DEF Four
<1> HIDE DEF C
<1> SUFFICES ASSUME NEW k \in Nodes(f)
             PROVE  /\ f.node[k].v \in DOMAIN f.rank
                    /\ \A c \in Kids(f.node, k) :
                         \/ NodeRank(f, k) < NodeRank(f, c)
                         \/ f.node[k].v = w /\ f.node[c].v = v
  BY DEF Rising
<1>14. f.rank = s.rank  BY <1>1 DEF SameOrder
<1>15. CASE k \in Q
  <2>1. k \in Nodes(s) /\ k \in DOMAIN s.node /\ f.node[k].v = s.node[k].v /\ Kids(f.node, k) = Kids(s.node, k)
    BY <1>1, <1>15 DEF SameLink, Kids, Nodes
  <2>2. f.node[k].v \in DOMAIN f.rank  BY <1>2, <1>14, <2>1 DEF Rising
  <2>3. NodeRank(f, k) = NodeRank(s, k)  BY <1>8, <2>1 DEF NodeRank
  <2>4. ASSUME NEW c \in Kids(s.node, k)
        PROVE  NodeRank(f, k) < NodeRank(f, c) \/ (f.node[k].v = w /\ f.node[c].v = v)
    <3>1. NodeRank(s, k) < NodeRank(s, c) \/ (s.node[k].v = w /\ s.node[c].v = v)
      BY <1>2, <2>1, <2>4 DEF Rising
    <3>2. CASE c \in Q \cup {0}
      <4>1. f.node[c].v = s.node[c].v  BY <1>1, <3>2 DEF SameLink
      <4>2. NodeRank(f, c) = NodeRank(s, c)  BY <1>8, <4>1 DEF NodeRank
      <4> QED BY <2>1, <2>3, <3>1, <4>1, <4>2
    <3>3. CASE c = n
      <4>1. \E d \in Kids(s.node, n) : s.node[d].v = w  BY DEF NextKids
      <4>2. s.node[k].v # w
        <5>1. NoReturn(s.node, w, v)  BY <1>2 DEF Exchangeable
        <5>2. k \in DOMAIN s.node \ {0}  BY <2>1 DEF Nodes
        <5> QED BY <2>4, <3>3, <4>1, <5>1, <5>2 DEF NoReturn
      <4>3. NodeRank(s, k) < r  BY <1>3, <3>1, <3>3, <4>2 DEF NodeRank
      <4>4. NodeRank(f, c) = r + 1  BY <1>1, <1>3, <1>8, <3>3 DEF NodeRank
      <4>5. NodeRank(s, k) \in Nat  BY <1>3, <1>4, <2>1 DEF NodeRank
      <4> QED BY <1>3, <2>3, <4>3, <4>4, <4>5
    <3> QED BY <1>1, <1>15, <2>4, <3>2, <3>3
  <2> QED BY <2>1, <2>2, <2>4
<1>16. CASE k = n
  <2>1. f.node[k].v \in DOMAIN f.rank /\ NodeRank(f, k) = r + 1
    BY <1>1, <1>3, <1>8, <1>14, <1>16 DEF NodeRank
  <2>2. Kids(f.node, n) = {Ptr(T), Ptr(E)}  BY <1>1 DEF Kids
  <2>3. Ptr(T) \in C \/ f.node[Ptr(T)].v = v
    <3>1. CASE c1 = d1  BY <1>1, <1>13, <3>1 DEF IsMade
    <3>2. CASE c1 # d1  BY <1>1, <3>2 DEF IsMade, IsBranch
    <3> QED BY <3>1, <3>2
  <2>4. Ptr(E) \in C \/ f.node[Ptr(E)].v = v
    <3>1. CASE c2 = d2  BY <1>1, <1>13, <3>1 DEF IsMade
    <3>2. CASE c2 # d2  BY <1>1, <3>2 DEF IsMade, IsBranch
    <3> QED BY <3>1, <3>2
  <2> QED BY <1>1, <1>11, <1>16, <2>1, <2>2, <2>3, <2>4
<1>17. CASE k \notin Q \cup {n}
  <2>1. f.node[k].v = v /\ Kids(f.node, k) \subseteq C  BY <1>1, <1>12, <1>17
  <2>2. f.node[k].v \in DOMAIN f.rank /\ NodeRank(f, k) = r
    BY <1>3, <1>8, <1>14, <2>1 DEF NodeRank
  <2>3. \A c \in C : NodeRank(f, c) \in Nat
    <3>1. \A c \in C : f.node[c].v = s.node[c].v  BY <1>1 DEF SameLink
    <3> QED BY <1>3, <1>4, <1>8, <1>9, <3>1 DEF NodeRank
  <2> QED BY <1>3, <1>11, <2>1, <2>2, <2>3
<1> QED BY <1>15, <1>16, <1>17
------------------------------------------------------------------------------
(* All nodes of the upper rank.                                            *)

(* The addresses that somebody outside holds.                              *)
Held(h) == {m \in Nat : h[m] > 0}

(* The nodes of rank r that have still to be rewritten.                    *)
ToDo(s, r) == Unprocessed(s.node, s.space[r], s.space[r + 1])

(* f is s after node n: the invariant, one node less to do, and the same   *)
(* functions on every edge held.                                           *)
StepKept(s, h, r, n, f) ==
  /\ Midway(f, h, r) /\ SameOrder(s, f)
  /\ ToDo(f, r) = ToDo(s, r) \ {n}
  /\ NodesOf(s, s.space[r]) \ {n} \subseteq NodesOf(f, s.space[r])
  /\ Held(h) \subseteq DOMAIN f.node /\ SameReading(s, Held(h) \cup {0}, f)

(* A node without a child of the lower rank is left alone.                 *)
LEMMA NodeLeft ==
  ASSUME NEW s, NEW h, NEW r, Midway(s, h, r),
         NEW n \in NodesOf(s, s.space[r]),
         NextKids(s.node, n, s.space[r + 1]) = {}
  PROVE  StepKept(s, h, r, n, ProcessNode(s, n, r))
<1> DEFINE f == ProcessNode(s, n, r)
           F1 == s.node[n].t
           F0 == s.node[n].e
           w == s.space[r + 1]
<1>1. ~(s.node[Ptr(F1)].v = w) /\ ~(s.node[Ptr(F0)].v = w)  BY DEF NextKids, Kids
<1>2. f = s
  <2>1. f = Processed(s, n, s.space[r], w, F1, F0,
                      s.node[Ptr(F1)].v = w, s.node[Ptr(F0)].v = w)
    BY RankTold
  <2> QED BY <1>1, <2>1 DEF Processed
<1>3. ToDo(s, r) = ToDo(s, r) \ {n}  BY DEF ToDo, Unprocessed
<1>4. Held(h) \subseteq DOMAIN s.node
  <2>1. \A m \in Nat \ DOMAIN s.node : h[m] = 0  BY DEF Midway, Exchangeable, Stage
  <2> QED BY <2>1 DEF Held
<1>5. SameReading(s, Held(h) \cup {0}, s)  BY DEF SameReading, Agree
<1>6. SameOrder(s, s)  BY DEF SameOrder
<1> HIDE DEF f
<1> QED BY <1>2, <1>3, <1>4, <1>5, <1>6 DEF StepKept, f

(* A node with one is rewritten.                                           *)
LEMMA NodeChanged ==
  ASSUME NEW s, NEW h, NEW r, Midway(s, h, r),
         NEW n \in NodesOf(s, s.space[r]),
         NextKids(s.node, n, s.space[r + 1]) # {}
  PROVE  StepKept(s, h, r, n, ProcessNode(s, n, r))
<1> DEFINE f == ProcessNode(s, n, r)
           F1 == s.node[n].t
           F0 == s.node[n].e
           v == s.space[r]
           w == s.space[r + 1]
           c == Halved(s, F1, s.node[Ptr(F1)].v = w)
           d == Halved(s, F0, s.node[Ptr(F0)].v = w)
<1>1. /\ n \in Nodes(s) /\ s.node[n].v = v /\ Exchangeable(s, h, v, w)
      /\ HalvesOf(s, n, w, c[1], c[2], d[1], d[2])
      /\ NextKids(s.node, n, w) # {}
  BY DEF NodesOf, Midway, HalvesOf
<1>2. f = ProcessedAt(s, n, v, w)  BY RankTold DEF ProcessedAt
<1> DEFINE x == c[1]  y == c[2]  z == d[1]  u == d[2]
<1>3. HalvesOf(s, n, w, x, y, z, u)  BY <1>1
<1> HIDE DEF f, x, y, z, u, c, d, v, w
<1>4. PICK q, Q, T, E, b : Branched(s, h, n, v, w, x, y, z, u, q, Q, T, E, b) /\ f = Relink(b, n, w, T, E)
  BY <1>1, <1>2, <1>3, NodeBranched
<1>5. /\ Reformed(s, h, n, v, w, x, y, z, u, Q, T, E, f)
      /\ SameReading(s, Q \cup {0, n}, f)
  BY <1>1, <1>3, <1>4, NodeReformed
<1>6. /\ Exchangeable(f, h, v, w)
      /\ Unprocessed(f.node, v, w) = Unprocessed(s.node, v, w) \ {n}
  BY <1>1, <1>3, <1>5, StillExchangeable
<1>7. Rising(f, v, w)
  BY <1>1, <1>3, <1>5, StillRising DEF v, w
<1>16. Distinct(f.node) /\ Apart(f.node, v, w)
  <2>1. Distinct(s.node) /\ Apart(s.node, v, w)  BY DEF Midway, v, w
  <2> QED BY <1>1, <1>3, <1>5, <2>1, StillApart
<1>8. /\ SameOrder(s, f)
      /\ Nodes(s) \ {n} \subseteq Q \cup NextKids(s.node, n, w)
      /\ Q \cup {n} \subseteq Nodes(f)
      /\ \A m \in Q \cup {0} : SameLink(f.node[m], s.node[m])
      /\ \A m \in Nat \ (Q \cup {0, n}) : h[m] = 0
  BY <1>5 DEF Reformed
<1>9. f.space = s.space /\ f.rank = s.rank  BY <1>8 DEF SameOrder
<1>10. Midway(f, h, r)
  <2>1. Exchangeable(f, h, f.space[r], f.space[r + 1]) /\ Rising(f, f.space[r], f.space[r + 1])
    BY <1>6, <1>7, <1>9 DEF v, w
  <2>2. Ranking(f) /\ r \in DOMAIN f.space /\ r + 1 \in DOMAIN f.space
    BY <1>9 DEF Midway, Ranking
  <2>3. Distinct(f.node) /\ Apart(f.node, f.space[r], f.space[r + 1])
    BY <1>9, <1>16 DEF v, w
  <2> QED BY <2>1, <2>2, <2>3 DEF Midway
<1>11. ToDo(f, r) = ToDo(s, r) \ {n}  BY <1>6, <1>9 DEF ToDo, v, w
<1>12. NodesOf(s, v) \ {n} \subseteq NodesOf(f, v)
  <2> SUFFICES ASSUME NEW k \in NodesOf(s, v) \ {n} PROVE k \in NodesOf(f, v)
    OBVIOUS
  <2>1. k \in Nodes(s) \ {n} /\ s.node[k].v = v /\ v # w
    BY <1>1 DEF NodesOf, Exchangeable
  <2>2. k \in Q  BY <1>8, <2>1 DEF NextKids
  <2> QED BY <1>8, <2>1, <2>2 DEF NodesOf, SameLink
<1>13. Held(h) \subseteq Q \cup {0, n}  BY <1>8 DEF Held
<1>14. Q \cup {0, n} \subseteq DOMAIN f.node
  <2>1. 0 \in DOMAIN f.node  BY <1>6 DEF Exchangeable, Stage, IsStore
  <2> QED BY <1>8, <2>1 DEF Nodes
<1>15. SameReading(s, Held(h) \cup {0}, f)
  <2> SUFFICES ASSUME NEW g, NEW I, Reads(s.node, Nodes(s), g, I)
               PROVE  \E J : Reads(f.node, Nodes(f), g, J) /\ Agree(Held(h) \cup {0}, I, J)
    BY DEF SameReading
  <2>1. PICK J : Reads(f.node, Nodes(f), g, J) /\ Agree(Q \cup {0, n}, I, J)
    BY <1>5 DEF SameReading
  <2>2. Agree(Held(h) \cup {0}, I, J)  BY <1>13, <2>1 DEF Agree
  <2> QED BY <2>1, <2>2
<1> QED BY <1>8, <1>10, <1>11, <1>12, <1>13, <1>14, <1>15 DEF StepKept, f, v

(* One step of bdd_process_level, for every store in the middle of an      *)
(* exchange: the counts stay right, a node that dies is unlinked, no node  *)
(* is doubled, the order holds but for the pair being exchanged, and every *)
(* edge held outside keeps its function.                                   *)
THEOREM NodeExchanged ==
  ASSUME NEW s, NEW h, NEW r, Midway(s, h, r), NEW n \in NodesOf(s, s.space[r])
  PROVE  StepKept(s, h, r, n, ProcessNode(s, n, r))
BY NodeLeft, NodeChanged

(* Two steps that keep functions are one.                                  *)
LEMMA ReadingChain ==
  ASSUME NEW s, NEW D, NEW f, SameReading(s, D, f), NEW g, SameReading(f, D, g)
  PROVE  SameReading(s, D, g)
<1> SUFFICES ASSUME NEW x, NEW I, Reads(s.node, Nodes(s), x, I)
             PROVE  \E K : Reads(g.node, Nodes(g), x, K) /\ Agree(D, I, K)
  BY DEF SameReading
<1>1. PICK J : Reads(f.node, Nodes(f), x, J) /\ Agree(D, I, J)  BY DEF SameReading
<1>2. PICK K : Reads(g.node, Nodes(g), x, K) /\ Agree(D, J, K)  BY <1>1 DEF SameReading
<1>3. Agree(D, I, K)  BY <1>1, <1>2 DEF Agree
<1> QED BY <1>2, <1>3

(* t is the run of bdd_process_level: the stores after each node of q.       *)
LevelRun(s, r, q, t) ==
  /\ q \in Seq(NodesOf(s, s.space[r]))
  /\ \A n \in NodesOf(s, s.space[r]) : \E i \in 1 .. Len(q) : q[i] = n
  /\ \A i, j \in 1 .. Len(q) : q[i] = q[j] => i = j
  /\ t[0] = s /\ \A i \in 1 .. Len(q) : t[i] = ProcessNode(t[i - 1], q[i], r)

(* What is true after i nodes of q.                                        *)
LevelKept(s, h, r, q, i, f) ==
  /\ Midway(f, h, r) /\ SameOrder(s, f)
  /\ \A n \in ToDo(f, r) : \E j \in i + 1 .. Len(q) : q[j] = n
  /\ \A j \in i + 1 .. Len(q) : q[j] \in NodesOf(f, s.space[r])
  /\ SameReading(s, Held(h) \cup {0}, f)

(* One more node.                                                          *)
LEMMA LevelStep ==
  ASSUME NEW s, NEW h, NEW r, NEW q, NEW t, LevelRun(s, r, q, t),
         NEW i \in 1 .. Len(q), LevelKept(s, h, r, q, i - 1, t[i - 1])
  PROVE  LevelKept(s, h, r, q, i, t[i])
<1> DEFINE a == t[i - 1]
           b == t[i]
           n == q[i]
<1>0. Len(q) \in Nat  BY DEF LevelRun
<1>1. /\ Midway(a, h, r) /\ SameOrder(s, a) /\ (i - 1) + 1 = i
      /\ \A m \in ToDo(a, r) : \E j \in i .. Len(q) : q[j] = m
      /\ \A j \in i .. Len(q) : q[j] \in NodesOf(a, s.space[r])
      /\ SameReading(s, Held(h) \cup {0}, a)
  BY <1>0 DEF LevelKept
<1>2. b = ProcessNode(a, n, r) /\ \A j, k \in 1 .. Len(q) : q[j] = q[k] => j = k
  BY DEF LevelRun
<1> HIDE DEF a, b, n
<1>3. a.space = s.space /\ n \in NodesOf(a, a.space[r])
  BY <1>0, <1>1 DEF SameOrder, n
<1>4. StepKept(a, h, r, n, b)  BY <1>1, <1>2, <1>3, NodeExchanged
<1>5. /\ Midway(b, h, r) /\ SameOrder(a, b)
      /\ ToDo(b, r) = ToDo(a, r) \ {n}
      /\ NodesOf(a, a.space[r]) \ {n} \subseteq NodesOf(b, a.space[r])
      /\ SameReading(a, Held(h) \cup {0}, b)
  BY <1>4 DEF StepKept
<1>6. SameOrder(s, b)  BY <1>1, <1>5 DEF SameOrder
<1>7. SameReading(s, Held(h) \cup {0}, b)  BY <1>1, <1>5, ReadingChain
<1>8. ASSUME NEW m \in ToDo(b, r) PROVE \E j \in i + 1 .. Len(q) : q[j] = m
  <2>1. PICK j \in i .. Len(q) : q[j] = m  BY <1>1, <1>5
  <2>2. j # i  BY <1>5, <2>1 DEF n
  <2> QED BY <1>0, <2>1, <2>2
<1>9. ASSUME NEW j \in i + 1 .. Len(q) PROVE q[j] \in NodesOf(b, s.space[r])
  <2>1. j \in i .. Len(q) /\ j # i /\ j \in 1 .. Len(q)  BY <1>0
  <2>2. q[j] \in NodesOf(a, a.space[r]) /\ q[j] # n  BY <1>1, <1>2, <1>3, <2>1 DEF n
  <2> QED BY <1>3, <1>5, <2>2
<1> QED BY <1>5, <1>6, <1>7, <1>8, <1>9 DEF LevelKept, b

(* bdd_process_level: taking the nodes of the upper rank one by one, in    *)
(* any order, keeps all this, and leaves none that has a child of the      *)
(* lower rank; the nodes that steps before have unlinked or made are not   *)
(* among those still to come.                                              *)
THEOREM LevelExchanged ==
  ASSUME NEW s, NEW h, NEW r, Midway(s, h, r), NEW q, NEW t, LevelRun(s, r, q, t)
  PROVE  LET f == t[Len(q)] IN
         /\ Midway(f, h, r) /\ SameOrder(s, f) /\ ToDo(f, r) = {}
         /\ SameReading(s, Held(h) \cup {0}, f)
<1> DEFINE Bad == {i \in 1 .. Len(q) : ~LevelKept(s, h, r, q, i, t[i])}
<1>0. Len(q) \in Nat  BY DEF LevelRun
<1>1. LevelKept(s, h, r, q, 0, t[0])
  <2>1. t[0] = s /\ q \in Seq(NodesOf(s, s.space[r]))
        /\ \A n \in NodesOf(s, s.space[r]) : \E i \in 1 .. Len(q) : q[i] = n
    BY DEF LevelRun
  <2>2. \A j \in 0 + 1 .. Len(q) : q[j] \in NodesOf(s, s.space[r])  BY <2>1
  <2>3. ToDo(s, r) \subseteq NodesOf(s, s.space[r])
    BY DEF ToDo, Unprocessed, NodesOf, Nodes
  <2>4. SameReading(s, Held(h) \cup {0}, s) /\ SameOrder(s, s)
    BY DEF SameReading, Agree, SameOrder
  <2> QED BY <2>1, <2>2, <2>3, <2>4 DEF LevelKept
<1>2. Bad = {}
  <2> SUFFICES ASSUME Bad # {} PROVE FALSE  OBVIOUS
  <2>1. PICK i \in Bad : \A j \in Bad : i <= j
    <3>1. Bad \in SUBSET (1 .. Len(q))  OBVIOUS
    <3> HIDE DEF Bad
    <3> QED BY <1>0, <3>1, LeastElement
  <2>2. i \in 1 .. Len(q) /\ ~LevelKept(s, h, r, q, i, t[i])  BY <2>1
  <2>3. LevelKept(s, h, r, q, i - 1, t[i - 1])
    <3>1. CASE i = 1
      <4>1. i - 1 = 0  BY <3>1
      <4> QED BY <1>1, <4>1
    <3>2. CASE i # 1
      <4>1. i - 1 \in 1 .. Len(q) /\ ~(i <= i - 1)  BY <1>0, <2>2, <3>2
      <4> QED BY <2>1, <4>1
    <3> QED BY <3>1, <3>2
  <2> QED BY <2>2, <2>3, LevelStep
<1>3. LevelKept(s, h, r, q, Len(q), t[Len(q)])
  <2>1. CASE Len(q) = 0  BY <1>1, <2>1
  <2>2. CASE Len(q) # 0  BY <1>0, <1>2, <2>2
  <2> QED BY <2>1, <2>2
<1>4. Len(q) + 1 .. Len(q) = {}  BY <1>0
<1> QED BY <1>3, <1>4 DEF LevelKept
------------------------------------------------------------------------------
(* The store before and after an exchange.                                 *)

(* A reduced, ordered, shared diagram: then-links are not complemented, no *)
(* node is redundant, none is like another, ranks rise along links.        *)
Diagram(s) ==
  /\ IsStore(s) /\ Linked(s.node, Nodes(s)) /\ s.node[0].v = TERMID
  /\ \A k \in Nodes(s) : ~Neg(s.node[k].t) /\ s.node[k].t # s.node[k].e
  /\ Distinct(s.node) /\ Ranking(s)
  /\ \A k \in Nodes(s) :
       /\ s.node[k].v \in DOMAIN s.rank
       /\ \A c \in Kids(s.node, k) : NodeRank(s, k) < NodeRank(s, c)

(* What is true before and after an exchange: a diagram with exact counts, *)
(* in which nothing is dead.                                               *)
WellKept(s, h) ==
  /\ Stage(s, Nodes(s), h) /\ (\A k \in Nodes(s) : s.node[k].ref > 0)
  /\ Diagram(s)

(* Ranks are numbers, and that of the constant is the largest.             *)
LEMMA RankNat ==
  ASSUME NEW s, Ranking(s), s.node[0].v = TERMID,
         \A k \in Nodes(s) : s.node[k].v \in DOMAIN s.rank
  PROVE  /\ \A k \in Nodes(s) : NodeRank(s, k) \in 0 .. TERMID - 1
         /\ \A k \in DOMAIN s.node : NodeRank(s, k) \in 0 .. TERMID
<1>1. TERMID \in Nat  BY DEF TERMID
<1>2. ASSUME NEW k \in Nodes(s) PROVE NodeRank(s, k) \in 0 .. TERMID - 1
  <2>1. s.node[k].v # TERMID  BY <1>1 DEF Ranking
  <2>2. NodeRank(s, k) = s.rank[s.node[k].v]  BY <2>1 DEF NodeRank, VarRank
  <2> QED BY <2>2 DEF Ranking
<1>3. NodeRank(s, 0) = TERMID  BY DEF NodeRank, VarRank
<1> QED BY <1>1, <1>2, <1>3 DEF Nodes

(* The children of a node are in the store.                                *)
LEMMA KidsInside ==
  ASSUME NEW s, Linked(s.node, Nodes(s)), NEW k \in Nodes(s)
  PROVE  Kids(s.node, k) \subseteq DOMAIN s.node
BY DEF Linked, Kids

(* A well-kept store is one in the middle of an exchange that has not      *)
(* begun.                                                                  *)
LEMMA ExchangeBegins ==
  ASSUME NEW s, NEW h, WellKept(s, h), NEW r \in DOMAIN s.space, r + 1 \in DOMAIN s.space
  PROVE  Midway(s, h, r)
<1> DEFINE v == s.space[r]
           w == s.space[r + 1]
<1>1. /\ Stage(s, Nodes(s), h) /\ s.node[0].v = TERMID /\ Ranking(s) /\ Distinct(s.node)
      /\ \A k \in Nodes(s) : s.node[k].ref > 0
      /\ \A k \in Nodes(s) : ~Neg(s.node[k].t) /\ s.node[k].t # s.node[k].e
      /\ \A k \in Nodes(s) : s.node[k].v \in DOMAIN s.rank
      /\ \A k \in Nodes(s) : \A c \in Kids(s.node, k) : NodeRank(s, k) < NodeRank(s, c)
  BY DEF WellKept, Diagram
<1>2. /\ r \in Nat /\ v \in DOMAIN s.rank /\ w \in DOMAIN s.rank
      /\ VarRank(s, v) = r /\ VarRank(s, w) = r + 1
  BY <1>1, TwoRanks
<1>3. v \in Int \ {VOID, TERMID} /\ w \in Int \ {VOID, TERMID} /\ v # w
  <2>1. DOMAIN s.rank \subseteq 0 .. TERMID - 1  BY <1>1 DEF Ranking
  <2>2. v \in 0 .. TERMID - 1 /\ w \in 0 .. TERMID - 1  BY <1>2, <2>1
  <2>3. v # w  BY <1>2
  <2>4. \A x \in 0 .. TERMID - 1 : x \in Int \ {VOID, TERMID}
    <3>1. TERMID \in Nat  BY DEF TERMID
    <3>2. VOID < 0  BY DEF VOID
    <3>3. \A x \in 0 .. TERMID - 1 : x \in Int /\ x # TERMID  BY <3>1
    <3>4. \A x \in 0 .. TERMID - 1 : x # VOID  BY <3>1, <3>2
    <3> QED BY <3>3, <3>4
  <2> HIDE DEF v, w
  <2> QED BY <2>2, <2>3, <2>4
<1>4. \A k \in DOMAIN s.node : NodeRank(s, k) \in Nat  BY <1>1, RankNat
<1> HIDE DEF v, w
<1>5. \A k \in DOMAIN s.node : /\ s.node[k].v = v => NodeRank(s, k) = r
                               /\ s.node[k].v = w => NodeRank(s, k) = r + 1
  BY <1>2 DEF NodeRank
<1>6. ASSUME NEW k \in DOMAIN s.node \ {0}, NEW c \in Kids(s.node, k)
      PROVE  /\ k \in Nodes(s) /\ c \in DOMAIN s.node
             /\ NodeRank(s, k) < NodeRank(s, c)
             /\ c # 0 => \A d \in Kids(s.node, c) :
                           d \in DOMAIN s.node /\ NodeRank(s, c) < NodeRank(s, d)
  <2>1. Linked(s.node, Nodes(s))  BY <1>1 DEF Stage
  <2>2. \A m \in Nodes(s) : Kids(s.node, m) \subseteq DOMAIN s.node  BY <2>1, KidsInside
  <2> QED BY <1>1, <1>6, <2>2 DEF Nodes
<1>7. NoReturn(s.node, v, w)
  <2> SUFFICES ASSUME NEW k \in DOMAIN s.node \ {0}, s.node[k].v = v,
                      NEW c \in Kids(s.node, k)
               PROVE  /\ s.node[c].v # v
                      /\ s.node[c].v = w => \A d \in Kids(s.node, c) : s.node[d].v # v
    BY DEF NoReturn
  <2>1. s.node[c].v # v  BY <1>2, <1>4, <1>5, <1>6
  <2>2. ASSUME s.node[c].v = w, NEW d \in Kids(s.node, c) PROVE s.node[d].v # v
    <3>1. c # 0  BY <1>1, <1>3, <2>2
    <3> QED BY <1>2, <1>4, <1>5, <1>6, <2>2, <3>1
  <2> QED BY <2>1, <2>2
<1>8. NoReturn(s.node, w, v)
  <2> SUFFICES ASSUME NEW k \in DOMAIN s.node \ {0}, s.node[k].v = w,
                      NEW c \in Kids(s.node, k)
               PROVE  s.node[c].v # w /\ s.node[c].v # v
    BY DEF NoReturn
  <2> QED BY <1>2, <1>4, <1>5, <1>6
<1>9. Exchangeable(s, h, v, w)  BY <1>1, <1>3, <1>7, <1>8 DEF Exchangeable
<1>10. Rising(s, v, w)  BY <1>1 DEF Rising
<1>11. Apart(s.node, v, w)
  <2> SUFFICES ASSUME NEW k \in DOMAIN s.node \ {0}, NEW m \in DOMAIN s.node \ {0},
                      s.node[k].v = v, s.node[m].v = w, SameCorners(s.node, k, m, v, w)
               PROVE  FALSE
    BY DEF Apart
  <2>1. s.node[Ptr(s.node[m].t)].v # v /\ s.node[Ptr(s.node[m].e)].v # v
    BY <1>2, <1>4, <1>5, <1>6 DEF Kids
  <2>2. /\ CornerT(s.node, s.node[k].t, w) = CornerT(s.node, s.node[k].e, w)
        /\ CornerE(s.node, s.node[k].t, w) = CornerE(s.node, s.node[k].e, w)
    BY <2>1 DEF SameCorners, CornerT, CornerE
  <2>3. Tame(s.node, w)  BY <1>1, <1>9, TameStore
  <2>4. /\ s.node[k].t \in Edge /\ Ptr(s.node[k].t) \in DOMAIN s.node
        /\ s.node[k].e \in Edge /\ Ptr(s.node[k].e) \in DOMAIN s.node
        /\ s.node[k].t # s.node[k].e
    BY <1>1 DEF Stage, Linked, Nodes
  <2> QED BY <2>2, <2>3, <2>4, CornersTell
<1> QED BY <1>1, <1>9, <1>10, <1>11 DEF Midway, v, w

(* g is s with the variables v and w of ranks r and r + 1 exchanged.       *)
IsSwapped(s, g, r, v, w) ==
  /\ g.node = s.node /\ g.dead = s.dead /\ g.frozen = s.frozen /\ DOMAIN g = DOMAIN s
  /\ DOMAIN g.rank = DOMAIN s.rank /\ DOMAIN g.space = DOMAIN s.space
  /\ v # w /\ v \in DOMAIN s.rank /\ w \in DOMAIN s.rank
  /\ g.rank[v] = r + 1 /\ g.rank[w] = r
  /\ \A x \in DOMAIN s.rank \ {v, w} : g.rank[x] = s.rank[x]
  /\ g.space[r] = w /\ g.space[r + 1] = v
  /\ \A i \in DOMAIN s.space \ {r, r + 1} : g.space[i] = s.space[i]

(* What BDD_SWAP_RANKS does to the ranks, after the nodes.                 *)
LEMMA SwappedFields ==
  ASSUME NEW s, IsStore(s), Ranking(s), NEW r \in DOMAIN s.space, r + 1 \in DOMAIN s.space
  PROVE  IsSwapped(s, RanksSwapped(s, r, s.space[r], s.space[r + 1]), r,
                   s.space[r], s.space[r + 1])
<1> DEFINE v == s.space[r]
           w == s.space[r + 1]
           g == RanksSwapped(s, r, v, w)
<1>1. /\ r \in Nat /\ v \in DOMAIN s.rank /\ w \in DOMAIN s.rank
      /\ s.rank[v] = r /\ s.rank[w] = r + 1 /\ r # r + 1 /\ v # w
  BY DEF Ranking
<1> HIDE DEF v, w
<1>2. /\ g.node = s.node /\ g.dead = s.dead /\ g.frozen = s.frozen /\ DOMAIN g = DOMAIN s
  BY DEF IsStore, RanksSwapped
<1>3. g.rank = [s.rank EXCEPT ![v] = r + 1, ![w] = r]  BY DEF IsStore, RanksSwapped
<1>4. g.space = [s.space EXCEPT ![r] = w, ![r + 1] = v]  BY DEF IsStore, RanksSwapped
<1> HIDE DEF g
<1>5. /\ DOMAIN g.rank = DOMAIN s.rank /\ g.rank[v] = r + 1 /\ g.rank[w] = r
      /\ \A x \in DOMAIN s.rank \ {v, w} : g.rank[x] = s.rank[x]
  BY <1>1, <1>3
<1>6. /\ DOMAIN g.space = DOMAIN s.space /\ g.space[r] = w /\ g.space[r + 1] = v
      /\ \A i \in DOMAIN s.space \ {r, r + 1} : g.space[i] = s.space[i]
  BY <1>1, <1>4
<1>7. IsSwapped(s, g, r, v, w)  BY <1>1, <1>2, <1>5, <1>6 DEF IsSwapped
<1> QED BY <1>7 DEF g, v, w

(* When no node is left to do and the ranks are exchanged, the store is    *)
(* well kept.                                                              *)
LEMMA ExchangeEnds ==
  ASSUME NEW s, NEW h, NEW r, Midway(s, h, r), ToDo(s, r) = {}
  PROVE  WellKept(RanksSwapped(s, r, s.space[r], s.space[r + 1]), h)
<1> DEFINE v == s.space[r]
           w == s.space[r + 1]
           g == RanksSwapped(s, r, v, w)
<1>1. /\ Exchangeable(s, h, v, w) /\ Ranking(s) /\ r \in DOMAIN s.space
      /\ r + 1 \in DOMAIN s.space /\ Rising(s, v, w) /\ Distinct(s.node)
  BY DEF Midway
<1>2. Stage(s, Nodes(s), h) /\ IsStore(s) /\ s.node[0].v = TERMID
  BY <1>1 DEF Exchangeable, Stage
<1>3. /\ g.node = s.node /\ g.dead = s.dead /\ g.frozen = s.frozen /\ DOMAIN g = DOMAIN s
      /\ DOMAIN g.rank = DOMAIN s.rank /\ DOMAIN g.space = DOMAIN s.space
      /\ v # w /\ v \in DOMAIN s.rank /\ w \in DOMAIN s.rank
      /\ g.rank[v] = r + 1 /\ g.rank[w] = r
      /\ \A x \in DOMAIN s.rank \ {v, w} : g.rank[x] = s.rank[x]
      /\ g.space[r] = w /\ g.space[r + 1] = v
      /\ \A i \in DOMAIN s.space \ {r, r + 1} : g.space[i] = s.space[i]
  <2>1. IsSwapped(s, g, r, v, w)  BY <1>1, <1>2, SwappedFields
  <2> HIDE DEF g, v, w
  <2> QED BY <2>1 DEF IsSwapped
<1>4. /\ r \in Nat /\ r + 1 < TERMID
      /\ \A x \in DOMAIN s.rank \cup {TERMID} :
           /\ VarRank(s, x) \in Nat
           /\ VarRank(s, x) = r <=> x = v
           /\ VarRank(s, x) = r + 1 <=> x = w
  BY <1>1, TwoRanks
<1>5. s.rank[v] = r /\ s.rank[w] = r + 1 /\ v # TERMID /\ w # TERMID
  BY <1>1 DEF Ranking, Exchangeable
<1> HIDE DEF v, w, g
<1>6. Ranking(g)
  <2>1. ASSUME NEW x \in DOMAIN g.rank
        PROVE  g.rank[x] \in DOMAIN g.space /\ g.space[g.rank[x]] = x
    <3>1. CASE x \in {v, w}  BY <1>1, <1>3, <3>1
    <3>2. CASE x \notin {v, w}
      <4>1. g.rank[x] = s.rank[x] /\ s.rank[x] \in DOMAIN s.space /\ s.space[s.rank[x]] = x
        BY <1>1, <1>3, <2>1, <3>2 DEF Ranking
      <4>2. s.rank[x] \notin {r, r + 1}  BY <3>2, <4>1 DEF v, w
      <4> QED BY <1>3, <4>1, <4>2
    <3> QED BY <3>1, <3>2
  <2>2. ASSUME NEW i \in DOMAIN g.space
        PROVE  g.space[i] \in DOMAIN g.rank /\ g.rank[g.space[i]] = i
    <3>1. CASE i \in {r, r + 1}  BY <1>3, <3>1
    <3>2. CASE i \notin {r, r + 1}
      <4>1. g.space[i] = s.space[i] /\ s.space[i] \in DOMAIN s.rank /\ s.rank[s.space[i]] = i
        BY <1>1, <1>3, <2>2, <3>2 DEF Ranking
      <4>2. s.space[i] \notin {v, w}  BY <1>5, <3>2, <4>1
      <4> QED BY <1>3, <4>1, <4>2
    <3> QED BY <3>1, <3>2
  <2> QED BY <1>1, <1>3, <2>1, <2>2 DEF Ranking
<1>7. Stage(g, Nodes(g), h)
  <2>1. Nodes(g) = Nodes(s)  BY <1>3 DEF Nodes
  <2>2. IsStore(g) /\ Counted(g)  BY <1>2, <1>3 DEF IsStore, Counted, Stage
  <2> QED BY <1>2, <1>3, <2>1, <2>2 DEF Stage
<1>8. \A x \in (DOMAIN s.rank \cup {TERMID}) \ {v, w} :
        VarRank(g, x) = VarRank(s, x) /\ VarRank(s, x) \notin {r, r + 1}
  BY <1>3, <1>4 DEF VarRank
<1>9. VarRank(g, v) = r + 1 /\ VarRank(g, w) = r /\ VarRank(s, v) = r /\ VarRank(s, w) = r + 1
  BY <1>3, <1>5 DEF VarRank
<1>10. ASSUME NEW k \in Nodes(g)
       PROVE  /\ g.node[k].v \in DOMAIN g.rank
              /\ \A c \in Kids(g.node, k) : NodeRank(g, k) < NodeRank(g, c)
  <2>1. k \in Nodes(s) /\ g.node[k].v \in DOMAIN g.rank /\ k \in DOMAIN s.node \ {0}
    BY <1>1, <1>3 DEF Nodes, Rising
  <2> SUFFICES ASSUME NEW c \in Kids(s.node, k) PROVE NodeRank(g, k) < NodeRank(g, c)
    BY <1>3, <2>1
  <2> DEFINE x == s.node[k].v  y == s.node[c].v
  <2>2. c \in DOMAIN s.node
    <3>1. Linked(s.node, Nodes(s))  BY <1>2 DEF Stage
    <3> QED BY <2>1, <3>1, KidsInside
  <2>3. x \in DOMAIN s.rank /\ y \in DOMAIN s.rank \cup {TERMID}
    BY <1>1, <1>2, <1>3, <2>1, <2>2 DEF Rising, Nodes
  <2>4. VarRank(s, x) < VarRank(s, y) \/ (x = w /\ y = v)
    BY <1>1, <2>1 DEF Rising, NodeRank
  <2>5. x = v => y # v /\ y # w
    <3>1. ASSUME x = v PROVE y # v
      BY <1>1, <2>1, <3>1 DEF Exchangeable, NoReturn
    <3>2. ASSUME x = v PROVE y # w
      <4>1. ToDo(s, r) = Unprocessed(s.node, v, w)  BY DEF ToDo, v, w
      <4> QED BY <2>1, <3>2, <4>1 DEF Unprocessed, NextKids
    <3> QED BY <3>1, <3>2
  <2>6. NodeRank(g, k) = VarRank(g, x) /\ NodeRank(g, c) = VarRank(g, y)
    BY <1>3 DEF NodeRank
  <2> HIDE DEF x, y
  <2>7. VarRank(s, x) \in Nat /\ VarRank(s, y) \in Nat  BY <1>4, <2>3
  <2>8. VarRank(g, x) < VarRank(g, y)
    <3>1. CASE x = v
      <4>1. VarRank(g, y) = VarRank(s, y) /\ VarRank(s, y) \notin {r, r + 1}
        BY <1>8, <2>3, <2>5, <3>1
      <4>2. r < VarRank(s, y)  BY <1>3, <1>9, <2>4, <3>1
      <4> QED BY <1>4, <1>9, <2>7, <3>1, <4>1, <4>2
    <3>2. CASE x = w
      <4>1. CASE y = v  BY <1>4, <1>9, <3>2, <4>1
      <4>2. CASE y # v
        <5>1. r + 1 < VarRank(s, y)  BY <1>9, <2>4, <3>2, <4>2
        <5>2. y # w  BY <1>4, <1>9, <2>7, <5>1
        <5>3. VarRank(g, y) = VarRank(s, y)  BY <1>8, <2>3, <4>2, <5>2
        <5> QED BY <1>4, <1>9, <2>7, <3>2, <5>1, <5>3
      <4> QED BY <4>1, <4>2
    <3>3. CASE x \notin {v, w}
      <4>1. VarRank(g, x) = VarRank(s, x) /\ VarRank(s, x) \notin {r, r + 1}
        BY <1>8, <2>3, <3>3
      <4>2. VarRank(s, x) < VarRank(s, y)  BY <2>4, <3>3
      <4>3. CASE y \in {v, w}  BY <1>4, <1>9, <2>7, <4>1, <4>2, <4>3
      <4>4. CASE y \notin {v, w}
        <5>1. VarRank(g, y) = VarRank(s, y)  BY <1>8, <2>3, <4>4
        <5> QED BY <4>1, <4>2, <5>1
      <4> QED BY <4>3, <4>4
    <3> QED BY <3>1, <3>2, <3>3
  <2> QED BY <2>6, <2>8
<1>11. Nodes(g) = Nodes(s)  BY <1>3 DEF Nodes
<1>12. WellKept(g, h)
  <2>1. Stage(g, Nodes(g), h)  BY <1>7, <1>11 DEF Nodes
  <2> QED BY <1>1, <1>2, <1>3, <1>6, <1>7, <1>10, <1>11, <2>1
          DEF WellKept, Diagram, Exchangeable, Stage
<1> QED BY <1>12 DEF g, v, w
------------------------------------------------------------------------------
(* The functions that a store defines.                                     *)

(* The ranks rise along every link.                                        *)
LEMMA RankFalls ==
  ASSUME NEW s, Diagram(s)
  PROVE  /\ \A k \in Nodes(s) : NodeRank(s, k) \in 0 .. TERMID - 1
         /\ \A k \in DOMAIN s.node : NodeRank(s, k) \in 0 .. TERMID
         /\ \A k \in Nodes(s) : \A x :
              /\ Ptr(Chosen(s.node, k, x)) \in DOMAIN s.node
              /\ NodeRank(s, k) < NodeRank(s, Ptr(Chosen(s.node, k, x)))
<1>1. /\ Linked(s.node, Nodes(s)) /\ s.node[0].v = TERMID /\ Ranking(s)
      /\ \A k \in Nodes(s) : s.node[k].v \in DOMAIN s.rank
      /\ \A k \in Nodes(s) : \A c \in Kids(s.node, k) : NodeRank(s, k) < NodeRank(s, c)
  BY DEF Diagram
<1>2. \A k : \A x : Ptr(Chosen(s.node, k, x)) \in Kids(s.node, k)  BY DEF Chosen, Kids
<1>3. \A k \in Nodes(s) : Kids(s.node, k) \subseteq DOMAIN s.node  BY <1>1, KidsInside
<1>4. /\ \A k \in Nodes(s) : NodeRank(s, k) \in 0 .. TERMID - 1
      /\ \A k \in DOMAIN s.node : NodeRank(s, k) \in 0 .. TERMID
  BY <1>1, RankNat
<1> QED BY <1>1, <1>2, <1>3, <1>4

(* A diagram has no two readings of the same assignment.           *)
LEMMA ReadingUnique ==
  ASSUME NEW s, Diagram(s), NEW x, NEW I, NEW J,
         Reads(s.node, Nodes(s), x, I), Reads(s.node, Nodes(s), x, J)
  PROVE  Agree(DOMAIN s.node, I, J)
<1> DEFINE Bad == {k \in Nodes(s) : ~(k \in J <=> k \in I)}
           B == {TERMID - NodeRank(s, k) : k \in Bad}
<1>1. TERMID \in Nat  BY DEF TERMID
<1>2. \A k \in Nodes(s) : NodeRank(s, k) \in 0 .. TERMID - 1  BY RankFalls
<1>3. Bad = {}
  <2> SUFFICES ASSUME Bad # {} PROVE FALSE  OBVIOUS
  <2>1. B \in SUBSET (1 .. TERMID) /\ B # {}  BY <1>1, <1>2
  <2>2. PICK b \in B : \A c \in B : b <= c
    <3> HIDE DEF B
    <3> QED BY <1>1, <2>1, LeastElement
  <2>3. PICK k \in Bad : b = TERMID - NodeRank(s, k)  BY <2>2
  <2> DEFINE e == Chosen(s.node, k, x)
             c == Ptr(e)
  <2>4. k \in Nodes(s) /\ c \in DOMAIN s.node /\ NodeRank(s, k) < NodeRank(s, c)
    BY RankFalls
  <2>5. (k \in I <=> Holds(I, e)) /\ (k \in J <=> Holds(J, e)) /\ 0 \in I /\ 0 \in J
    BY <2>4 DEF Reads
  <2> HIDE DEF e
  <2>6. c \in J <=> c \in I
    <3>1. CASE c = 0  BY <2>5, <3>1
    <3>2. CASE c # 0
      <4>1. c \in Nodes(s)  BY <2>4, <3>2 DEF Nodes
      <4>2. ASSUME c \in Bad PROVE FALSE
        <5>1. b <= TERMID - NodeRank(s, c)  BY <2>2, <4>2
        <5> QED BY <1>1, <1>2, <2>3, <2>4, <4>1, <5>1
      <4> QED BY <4>1, <4>2
    <3> QED BY <3>1, <3>2
  <2>7. Holds(I, e) <=> Holds(J, e)  BY <2>6 DEF Holds
  <2> QED BY <2>3, <2>5, <2>7
<1>4. 0 \in I /\ 0 \in J  BY DEF Reads
<1> QED BY <1>3, <1>4 DEF Agree, Nodes

(* The nodes of the lowest ranks.                                          *)
Below(s, i) == {k \in Nodes(s) : NodeRank(s, k) >= TERMID - i}

(* A reading of the nodes of some rank on extends to the rank above.       *)
LEMMA ReadingGrows ==
  ASSUME NEW s, Diagram(s), NEW x, NEW i \in Nat, i < TERMID,
         \E I : Reads(s.node, Below(s, i), x, I)
  PROVE  \E J : Reads(s.node, Below(s, i + 1), x, J)
<1>1. TERMID \in Nat  BY DEF TERMID
<1>2. PICK I : Reads(s.node, Below(s, i), x, I)  OBVIOUS
<1> DEFINE L == {k \in Nodes(s) : NodeRank(s, k) = TERMID - (i + 1)}
           J == (I \ L) \cup {k \in L : Holds(I, Chosen(s.node, k, x))}
<1>3. /\ \A k \in Nodes(s) : NodeRank(s, k) \in 0 .. TERMID - 1
      /\ \A k \in DOMAIN s.node : NodeRank(s, k) \in 0 .. TERMID
  BY RankFalls
<1>4. ASSUME NEW k \in Below(s, i + 1)
      PROVE  /\ k \in Nodes(s) /\ (k \in L \/ k \in Below(s, i))
             /\ k \in Below(s, i) => k \notin L
  BY <1>1, <1>3, <1>4 DEF Below
<1>5. ASSUME NEW k \in Below(s, i + 1) PROVE Ptr(Chosen(s.node, k, x)) \notin L
  <2> DEFINE c == Ptr(Chosen(s.node, k, x))
  <2>1. k \in Nodes(s) /\ NodeRank(s, k) >= TERMID - (i + 1)  BY DEF Below
  <2>2. c \in DOMAIN s.node /\ NodeRank(s, k) < NodeRank(s, c)  BY <2>1, RankFalls
  <2> HIDE DEF c
  <2>3. NodeRank(s, c) # TERMID - (i + 1)  BY <1>1, <1>3, <2>1, <2>2
  <2> QED BY <2>3 DEF c
<1>6. 0 \in J
  <2>1. 0 \in I /\ 0 \notin Nodes(s)  BY <1>2 DEF Reads, Nodes
  <2> QED BY <2>1
<1>7. ASSUME NEW k \in Below(s, i + 1)
      PROVE  k \in J <=> Holds(J, Chosen(s.node, k, x))
  <2> DEFINE e == Chosen(s.node, k, x)
  <2>1. Ptr(e) \in J <=> Ptr(e) \in I
    <3>1. Ptr(e) \notin L  BY <1>5
    <3> HIDE DEF e, L
    <3> QED BY <3>1
  <2>2. Holds(J, e) <=> Holds(I, e)
    <3> HIDE DEF e, J
    <3> QED BY <2>1 DEF Holds
  <2>3. CASE k \in L  BY <2>2, <2>3
  <2>4. CASE k \in Below(s, i)
    <3>1. k \in I <=> Holds(I, e)  BY <1>2, <2>4 DEF Reads
    <3>2. k \in J <=> k \in I  BY <1>4, <2>4
    <3> QED BY <2>2, <3>1, <3>2
  <2> QED BY <1>4, <2>3, <2>4
<1> HIDE DEF J
<1> QED BY <1>6, <1>7 DEF Reads

LEMMA ReadingExists ==
  ASSUME NEW s, Diagram(s), NEW x
  PROVE  \E I : Reads(s.node, Nodes(s), x, I)
<1> DEFINE Bad == {i \in 1 .. TERMID : ~\E I : Reads(s.node, Below(s, i), x, I)}
<1>1. TERMID \in Nat /\ TERMID > 0  BY DEF TERMID
<1>2. \A k \in Nodes(s) : NodeRank(s, k) \in 0 .. TERMID - 1  BY RankFalls
<1>3. \E I : Reads(s.node, Below(s, 0), x, I)
  <2>1. Below(s, 0) = {}  BY <1>1, <1>2 DEF Below
  <2>2. Reads(s.node, Below(s, 0), x, {0})  BY <2>1 DEF Reads
  <2> QED BY <2>2
<1>4. Bad = {}
  <2> SUFFICES ASSUME Bad # {} PROVE FALSE  OBVIOUS
  <2>1. PICK i \in Bad : \A j \in Bad : i <= j
    <3>1. Bad \in SUBSET (1 .. TERMID)  OBVIOUS
    <3> HIDE DEF Bad
    <3> QED BY <1>1, <3>1, LeastElement
  <2>2. i \in 1 .. TERMID /\ ~\E I : Reads(s.node, Below(s, i), x, I)  BY <2>1
  <2>3. i - 1 \in Nat /\ i - 1 < TERMID /\ (i - 1) + 1 = i  BY <1>1, <2>2
  <2>4. \E I : Reads(s.node, Below(s, i - 1), x, I)
    <3>1. CASE i = 1
      <4>1. i - 1 = 0  BY <3>1
      <4> QED BY <1>3, <4>1
    <3>2. CASE i # 1
      <4>1. i - 1 \in 1 .. TERMID /\ ~(i <= i - 1)  BY <1>1, <2>2, <3>2
      <4> QED BY <2>1, <4>1
    <3> QED BY <3>1, <3>2
  <2>5. \E I : Reads(s.node, Below(s, (i - 1) + 1), x, I)  BY <2>3, <2>4, ReadingGrows
  <2> QED BY <2>2, <2>3, <2>5
<1>5. \E I : Reads(s.node, Below(s, TERMID), x, I)
  <2>1. TERMID \in 1 .. TERMID  BY <1>1
  <2> HIDE DEF Below
  <2> QED BY <1>4, <2>1
<1>6. Below(s, TERMID) = Nodes(s)  BY <1>1, <1>2 DEF Below
<1> QED BY <1>5, <1>6

(* Every diagram defines one function for each edge: for every             *)
(* assignment x of the variables there is a reading, and all readings      *)
(* agree.                                                                  *)
THEOREM OneReading ==
  ASSUME NEW s, Diagram(s), NEW x
  PROVE  \E I : /\ Reads(s.node, Nodes(s), x, I)
               /\ \A J : Reads(s.node, Nodes(s), x, J) => Agree(DOMAIN s.node, I, J)
BY ReadingExists, ReadingUnique

(* What BDD_SWAP_RANKS promises: g is well kept, with the same references  *)
(* from outside and the two variables exchanged, and every edge held has   *)
(* the function it had.                                                    *)
Exchanges(s, h, r, g) ==
  /\ WellKept(g, h) /\ g.space[r] = s.space[r + 1] /\ g.space[r + 1] = s.space[r]
  /\ \A x, I, J : /\ Reads(s.node, Nodes(s), x, I)
                  /\ Reads(g.node, Nodes(g), x, J)
                  => Agree(Held(h) \cup {0}, I, J)

(* Exchanging two ranks is right when the nodes are taken in any order.    *)
THEOREM RanksExchanged ==
  ASSUME NEW s, NEW h, WellKept(s, h), NEW r \in DOMAIN s.space, r + 1 \in DOMAIN s.space,
         NEW q, NEW t, LevelRun(s, r, q, t)
  PROVE  Exchanges(s, h, r, RanksSwapped(t[Len(q)], r, s.space[r], s.space[r + 1]))
<1> DEFINE f == t[Len(q)]
           g == RanksSwapped(f, r, s.space[r], s.space[r + 1])
<1>1. Midway(s, h, r)  BY ExchangeBegins
<1>2. /\ Midway(f, h, r) /\ SameOrder(s, f) /\ ToDo(f, r) = {}
      /\ SameReading(s, Held(h) \cup {0}, f)
  BY <1>1, LevelExchanged
<1> HIDE DEF f
<1>3. f.space = s.space  BY <1>2 DEF SameOrder
<1>4. WellKept(g, h)  BY <1>2, <1>3, ExchangeEnds
<1>5. /\ IsStore(f) /\ Ranking(f) /\ r \in DOMAIN f.space /\ r + 1 \in DOMAIN f.space
      /\ Held(h) \cup {0} \subseteq DOMAIN f.node
  BY <1>2 DEF Midway, Exchangeable, Stage, IsStore, Held
<1>6. g.node = f.node /\ g.space[r] = s.space[r + 1] /\ g.space[r + 1] = s.space[r]
  <2>1. IsSwapped(f, g, r, f.space[r], f.space[r + 1])  BY <1>3, <1>5, SwappedFields
  <2> HIDE DEF g
  <2> QED BY <1>3, <2>1 DEF IsSwapped
<1> HIDE DEF g
<1>7. ASSUME NEW x, NEW I, NEW J, Reads(s.node, Nodes(s), x, I), Reads(g.node, Nodes(g), x, J)
      PROVE  Agree(Held(h) \cup {0}, I, J)
  <2>1. PICK K : Reads(f.node, Nodes(f), x, K) /\ Agree(Held(h) \cup {0}, I, K)
    BY <1>2, <1>7 DEF SameReading
  <2>2. Reads(g.node, Nodes(g), x, K)  BY <1>6, <2>1 DEF Nodes
  <2>3. Agree(DOMAIN g.node, K, J)
    <3>1. Diagram(g)  BY <1>4 DEF WellKept
    <3> QED BY <1>7, <2>2, <3>1, ReadingUnique
  <2> QED BY <1>5, <1>6, <2>1, <2>3 DEF Agree
<1> QED BY <1>4, <1>6, <1>7 DEF Exchanges, g, f
------------------------------------------------------------------------------
(* The run of bdd_process_level.                                           *)

(* Ascending lists the elements of a set, each once.                       *)
LEMMA AscendingLists ==
  ASSUME NEW S, S \subseteq Nat, IsFiniteSet(S)
  PROVE  /\ Ascending(S) \in Seq(S)
         /\ \A n \in S : \E i \in 1 .. Len(Ascending(S)) : Ascending(S)[i] = n
         /\ \A i, j \in 1 .. Len(Ascending(S)) : Ascending(S)[i] = Ascending(S)[j] => i = j
<1> DEFINE N == Cardinality(S)
           Low(n) == {m \in S : m < n}
           F == [n \in S |-> Cardinality(Low(n)) + 1]
           q == Ascending(S)
<1>1. N \in Nat  BY FS_CardinalityType
<1>2. ASSUME NEW n \in S
      PROVE  IsFiniteSet(Low(n)) /\ Cardinality(Low(n)) \in 0 .. N - 1
  <2>1. Low(n) \in SUBSET S /\ n \notin Low(n)  OBVIOUS
  <2> HIDE DEF Low
  <2>2. /\ IsFiniteSet(Low(n)) /\ Cardinality(Low(n)) <= N
        /\ N = Cardinality(Low(n)) => S = Low(n)
    BY <2>1, FS_Subset
  <2>3. Cardinality(Low(n)) \in Nat  BY <2>2, FS_CardinalityType
  <2> QED BY <1>1, <2>1, <2>2, <2>3
<1>3. ASSUME NEW n \in S, NEW k \in S, n < k
      PROVE  Cardinality(Low(n)) < Cardinality(Low(k))
  <2>0. n \in Nat /\ k \in Nat  OBVIOUS
  <2>1. Low(n) \in SUBSET Low(k) /\ n \in Low(k) /\ n \notin Low(n)
    <3>1. ASSUME NEW m \in Low(n) PROVE m \in Low(k)
      <4>1. m \in S /\ m \in Nat /\ m < n  OBVIOUS
      <4> QED BY <1>3, <2>0, <4>1
    <3>2. n \in Low(k) /\ n \notin Low(n)  BY <1>3, <2>0
    <3> QED BY <3>1, <3>2
  <2>2. IsFiniteSet(Low(k))  BY <1>2
  <2>3. Cardinality(Low(n)) \in Int /\ Cardinality(Low(k)) \in Int  BY <1>2
  <2> HIDE DEF Low
  <2>4. /\ Cardinality(Low(n)) <= Cardinality(Low(k))
        /\ Cardinality(Low(k)) = Cardinality(Low(n)) => Low(k) = Low(n)
    BY <2>1, <2>2, FS_Subset
  <2> QED BY <2>1, <2>3, <2>4
<1> HIDE DEF Low
<1>4. F \in Injection(S, 1 .. N)
  <2>1. F \in [S -> 1 .. N]  BY <1>1, <1>2
  <2>2. ASSUME NEW n \in S, NEW k \in S, F[n] = F[k] PROVE n = k
    <3>1. Cardinality(Low(n)) = Cardinality(Low(k))  BY <1>2, <2>2
    <3>2. ~(n < k) /\ ~(k < n)  BY <1>2, <1>3, <3>1
    <3> QED BY <3>2
  <2> HIDE DEF F
  <2>3. DOMAIN F = S  BY <2>1
  <2> QED BY <2>1, <2>2, <2>3 DEF Injection, IsInjective
<1>5. F \in Surjection(S, 1 .. N)
  <2>1. IsFiniteSet(1 .. N) /\ Cardinality(1 .. N) = N  BY <1>1, FS_Interval
  <2> HIDE DEF F
  <2> QED BY <1>4, <2>1, FS_Injection
<1>6. \A n \in S : F[n] = Cardinality(Low(n)) + 1  OBVIOUS
<1> HIDE DEF F, N
<1>7. q = [i \in 1 .. N |-> CHOOSE n \in S : Cardinality(Low(n)) = i - 1]
  BY DEF Ascending, Low, N
<1> HIDE DEF q
<1>8. ASSUME NEW i \in 1 .. N PROVE q[i] \in S /\ F[q[i]] = i
  <2>1. PICK n \in S : F[n] = i  BY <1>5 DEF Surjection
  <2>2. Cardinality(Low(n)) = i - 1  BY <1>2, <1>6, <2>1
  <2>3. q[i] = CHOOSE m \in S : Cardinality(Low(m)) = i - 1  BY <1>7
  <2>4. q[i] \in S /\ Cardinality(Low(q[i])) = i - 1  BY <2>2, <2>3
  <2>5. F[q[i]] = (i - 1) + 1  BY <1>6, <2>4
  <2>6. (i - 1) + 1 = i  BY <1>1
  <2> QED BY <2>4, <2>5, <2>6
<1>9. q \in Seq(S) /\ Len(q) = N
  <2>1. q \in [1 .. N -> S]  BY <1>7, <1>8
  <2> QED BY <1>1, <2>1
<1>10. ASSUME NEW n \in S PROVE \E i \in 1 .. N : q[i] = n
  <2>1. F[n] \in 1 .. N  BY <1>4 DEF Injection
  <2>2. F[q[F[n]]] = F[n] /\ q[F[n]] \in S  BY <1>8, <2>1
  <2>3. q[F[n]] = n  BY <1>4, <2>2 DEF Injection, IsInjective
  <2> QED BY <2>1, <2>3
<1>11. ASSUME NEW i \in 1 .. N, NEW j \in 1 .. N, q[i] = q[j] PROVE i = j
  BY <1>8, <1>11
<1> QED BY <1>9, <1>10, <1>11 DEF q

(* t has the stores of a run of bdd_process_level over the first n nodes   *)
(* of q.                                                                   *)
Steps(s, r, q, n, t) ==
  t = [i \in 0 .. n |-> IF i = 0 THEN s ELSE ProcessNode(t[i - 1], q[i], r)]

(* There is such a run.                                                    *)
LEMMA StepsExist ==
  ASSUME NEW s, NEW r, NEW q, NEW n \in Nat
  PROVE  \E t : Steps(s, r, q, n, t)
<1> DEFINE Bad == {k \in 1 .. n : ~\E t : Steps(s, r, q, k, t)}
<1>1. \E t : Steps(s, r, q, 0, t)
  <2> DEFINE t == [i \in 0 .. 0 |-> s]
  <2>1. t = [i \in 0 .. 0 |-> IF i = 0 THEN s ELSE ProcessNode(t[i - 1], q[i], r)]
    OBVIOUS
  <2> HIDE DEF t
  <2> QED BY <2>1 DEF Steps
<1>2. ASSUME NEW k \in Nat, NEW u, Steps(s, r, q, k, u)
      PROVE  \E t : Steps(s, r, q, k + 1, t)
  <2> DEFINE t == [i \in 0 .. k + 1 |-> IF i = k + 1 THEN ProcessNode(u[k], q[i], r) ELSE u[i]]
  <2>1. /\ u = [i \in 0 .. k |-> u[i]]
        /\ \A i \in 0 .. k : u[i] = IF i = 0 THEN s ELSE ProcessNode(u[i - 1], q[i], r)
    BY <1>2 DEF Steps
  <2>2. \A i \in 0 .. k : t[i] = u[i]  OBVIOUS
  <2>3. t[k + 1] = ProcessNode(t[k], q[k + 1], r)  BY <2>2
  <2>4. \A i \in 0 .. k + 1 : t[i] = IF i = 0 THEN s ELSE ProcessNode(t[i - 1], q[i], r)
    <3> SUFFICES ASSUME NEW i \in 0 .. k + 1
                 PROVE  t[i] = IF i = 0 THEN s ELSE ProcessNode(t[i - 1], q[i], r)
      OBVIOUS
    <3> HIDE DEF t
    <3>1. CASE i = k + 1
      <4>1. i # 0 /\ i - 1 = k  BY <3>1
      <4> QED BY <2>3, <3>1, <4>1
    <3>2. CASE i = 0
      <4>1. 0 \in 0 .. k  OBVIOUS
      <4>2. u[0] = s /\ t[0] = u[0]  BY <2>1, <2>2, <4>1
      <4> QED BY <3>2, <4>2
    <3>3. CASE i # 0 /\ i # k + 1
      <4>1. i \in 0 .. k /\ i - 1 \in 0 .. k  BY <3>3
      <4> QED BY <2>1, <2>2, <3>3, <4>1
    <3> QED BY <3>1, <3>2, <3>3
  <2>5. t = [i \in 0 .. k + 1 |-> t[i]]  OBVIOUS
  <2> HIDE DEF t
  <2>6. Steps(s, r, q, k + 1, t)  BY <2>4, <2>5 DEF Steps
  <2> QED BY <2>6
<1>3. Bad = {}
  <2> SUFFICES ASSUME Bad # {} PROVE FALSE  OBVIOUS
  <2>1. PICK i \in Bad : \A j \in Bad : i <= j
    <3>1. Bad \in SUBSET (1 .. n)  OBVIOUS
    <3> HIDE DEF Bad
    <3> QED BY <3>1, LeastElement
  <2>2. i \in 1 .. n /\ ~\E t : Steps(s, r, q, i, t)  BY <2>1
  <2>3. i - 1 \in Nat /\ (i - 1) + 1 = i  BY <2>2
  <2>4. \E t : Steps(s, r, q, i - 1, t)
    <3>1. CASE i = 1
      <4>1. i - 1 = 0  BY <3>1
      <4> QED BY <1>1, <4>1
    <3>2. CASE i # 1
      <4>1. i - 1 \in 1 .. n /\ ~(i <= i - 1)  BY <2>2, <3>2
      <4> QED BY <2>1, <4>1
    <3> QED BY <3>1, <3>2
  <2>5. \E t : Steps(s, r, q, (i - 1) + 1, t)  BY <1>2, <2>3, <2>4
  <2> QED BY <2>2, <2>3, <2>5
<1> QED
  <2>1. CASE n = 0  BY <1>1, <2>1
  <2>2. CASE n # 0
    <3>1. n \in 1 .. n  BY <2>2
    <3> QED BY <1>3, <3>1
  <2> QED BY <2>1, <2>2

(* ProcessNodes is the end of it.                                          *)
LEMMA ProcessNodesSteps ==
  ASSUME NEW s, NEW r, NEW q, Len(q) \in Nat
  PROVE  \E t : Steps(s, r, q, Len(q), t) /\ ProcessNodes(s, r, q) = t[Len(q)]
<1> DEFINE P(t) == t = [i \in 0 .. Len(q) |->
             IF i = 0 THEN s ELSE Strictly(LAMBDA y : ProcessNode(y, q[i], r), t[i - 1])]
           c == CHOOSE t : P(t)
<1>1. ProcessNodes(s, r, q) = c[Len(q)]  BY DEF ProcessNodes
<1>2. \A y, n : Strictly(LAMBDA z : ProcessNode(z, n, r), y) = ProcessNode(y, n, r)
  BY DEF Strictly
<1>3. \A t : P(t) <=> Steps(s, r, q, Len(q), t)
  <2> SUFFICES ASSUME NEW t PROVE P(t) <=> Steps(s, r, q, Len(q), t)
    OBVIOUS
  <2> DEFINE A(i) == IF i = 0 THEN s
                     ELSE Strictly(LAMBDA y : ProcessNode(y, q[i], r), t[i - 1])
             B(i) == IF i = 0 THEN s ELSE ProcessNode(t[i - 1], q[i], r)
  <2>1. \A i \in 0 .. Len(q) : A(i) = B(i)  BY <1>2
  <2>2. P(t) <=> t = [i \in 0 .. Len(q) |-> A(i)]  OBVIOUS
  <2>3. Steps(s, r, q, Len(q), t) <=> t = [i \in 0 .. Len(q) |-> B(i)]  BY DEF Steps
  <2> HIDE DEF A, B, P
  <2> QED BY <2>1, <2>2, <2>3
<1>4. \E t : P(t)  BY <1>3, StepsExist
<1> HIDE DEF P
<1>5. P(c)  BY <1>4
<1> QED BY <1>1, <1>3, <1>5

(* ProcessLevel is the end of a run over the nodes of rank r.              *)
LEMMA LevelRuns ==
  ASSUME NEW s, NEW h, NEW r, Midway(s, h, r)
  PROVE  \E q, t : LevelRun(s, r, q, t) /\ ProcessLevel(s, r) = t[Len(q)]
<1> DEFINE S == NodesOf(s, s.space[r])
           q == Ascending(S)
<1>1. S \subseteq Nat /\ IsFiniteSet(S)
  <2>1. Stage(s, Nodes(s), h)  BY DEF Midway, Exchangeable
  <2>2. IsFiniteSet(Nodes(s)) /\ DOMAIN s.node \subseteq Nat  BY <2>1, StageFacts
  <2>3. S \in SUBSET Nodes(s) /\ Nodes(s) \subseteq DOMAIN s.node  BY DEF NodesOf, Nodes
  <2> QED BY <2>2, <2>3, FS_Subset
<1>2. /\ q \in Seq(S)
      /\ \A n \in S : \E i \in 1 .. Len(q) : q[i] = n
      /\ \A i, j \in 1 .. Len(q) : q[i] = q[j] => i = j
  <2> HIDE DEF S
  <2> QED BY <1>1, AscendingLists
<1>3. ProcessLevel(s, r) = ProcessNodes(s, r, q)  BY DEF ProcessLevel
<1> HIDE DEF q, S
<1>4. Len(q) \in Nat  BY <1>2
<1>5. PICK t : Steps(s, r, q, Len(q), t) /\ ProcessNodes(s, r, q) = t[Len(q)]
  BY <1>4, ProcessNodesSteps
<1>6. t[0] = s /\ \A i \in 1 .. Len(q) : t[i] = ProcessNode(t[i - 1], q[i], r)
  BY <1>4, <1>5 DEF Steps
<1>7. LevelRun(s, r, q, t)  BY <1>2, <1>6 DEF LevelRun, S
<1> QED BY <1>3, <1>5, <1>7

(* BDD_SWAP_RANKS: in every well-kept store, of any size, exchanging any   *)
(* two adjacent ranks leaves a well-kept store, with exact counts, no node *)
(* dead, no two nodes alike and ordered by the new ranks, in which every   *)
(* edge that somebody holds has the function it had.                       *)
THEOREM SwapRanksSound ==
  ASSUME NEW s, NEW h, WellKept(s, h), NEW r \in DOMAIN s.space, r + 1 \in DOMAIN s.space
  PROVE  Exchanges(s, h, r, SwapRanks(s, r))
<1>1. Midway(s, h, r)  BY ExchangeBegins
<1>2. PICK q, t : LevelRun(s, r, q, t) /\ ProcessLevel(s, r) = t[Len(q)]
  BY <1>1, LevelRuns
<1>3. SwapRanks(s, r) = RanksSwapped(t[Len(q)], r, s.space[r], s.space[r + 1])
  BY <1>2 DEF SwapRanks
<1>4. Exchanges(s, h, r, RanksSwapped(t[Len(q)], r, s.space[r], s.space[r + 1]))
  BY <1>2, RanksExchanged
<1> QED BY <1>3, <1>4
------------------------------------------------------------------------------
(* Equal functions have equal edges.                                       *)

(* What is used of the ranks of a diagram.                         *)
LEMMA Ranked ==
  ASSUME NEW s, Diagram(s)
  PROVE  /\ TERMID \in Nat /\ TERMID > 0 /\ s.node[0].v = TERMID
         /\ DOMAIN s.rank \subseteq 0 .. TERMID - 1
         /\ \A v \in DOMAIN s.rank :
              v # TERMID /\ s.rank[v] \in 0 .. TERMID - 1 /\ s.space[s.rank[v]] = v
<1>1. TERMID \in Nat /\ TERMID > 0  BY DEF TERMID
<1>2. Ranking(s) /\ s.node[0].v = TERMID  BY DEF Diagram
<1>3. DOMAIN s.rank \subseteq 0 .. TERMID - 1 /\ DOMAIN s.space \subseteq 0 .. TERMID - 1
  BY <1>2 DEF Ranking
<1>4. \A v \in DOMAIN s.rank : s.rank[v] \in DOMAIN s.space /\ s.space[s.rank[v]] = v
  BY <1>2 DEF Ranking
<1> QED BY <1>1, <1>2, <1>3, <1>4

(* A node is independent of the variables above it.                        *)
LEMMA Independent ==
  ASSUME NEW s, Diagram(s), NEW v \in DOMAIN s.rank, NEW x, NEW y,
         \A u \in DOMAIN s.rank \ {v} : u \in x <=> u \in y,
         NEW I, Reads(s.node, Nodes(s), x, I), NEW J, Reads(s.node, Nodes(s), y, J)
  PROVE  \A k \in DOMAIN s.node : NodeRank(s, k) > s.rank[v] => (k \in J <=> k \in I)
<1> DEFINE Bad == {k \in Nodes(s) : NodeRank(s, k) > s.rank[v] /\ ~(k \in J <=> k \in I)}
           B == {TERMID - NodeRank(s, k) : k \in Bad}
<1>1. TERMID \in Nat  BY DEF TERMID
<1>2. /\ \A k \in Nodes(s) : NodeRank(s, k) \in 0 .. TERMID - 1
      /\ \A k \in DOMAIN s.node : NodeRank(s, k) \in 0 .. TERMID
  BY RankFalls
<1>3. s.rank[v] \in Nat  BY Ranked
<1>4. 0 \in I /\ 0 \in J  BY DEF Reads
<1>5. Bad = {}
  <2> SUFFICES ASSUME Bad # {} PROVE FALSE  OBVIOUS
  <2>1. B \in SUBSET (1 .. TERMID) /\ B # {}  BY <1>1, <1>2
  <2>2. PICK b \in B : \A c \in B : b <= c
    <3> HIDE DEF B
    <3> QED BY <1>1, <2>1, LeastElement
  <2>3. PICK k \in Bad : b = TERMID - NodeRank(s, k)  BY <2>2
  <2> DEFINE e == Chosen(s.node, k, x)
             c == Ptr(e)
  <2>4. k \in Nodes(s) /\ c \in DOMAIN s.node /\ NodeRank(s, k) < NodeRank(s, c)
    BY RankFalls
  <2>5. Chosen(s.node, k, y) = e
    <3>1. s.node[k].v \in DOMAIN s.rank /\ s.node[k].v # TERMID
      <4>1. s.node[k].v \in DOMAIN s.rank  BY <2>4 DEF Diagram
      <4> QED BY <4>1, Ranked
    <3>2. NodeRank(s, k) = s.rank[s.node[k].v]  BY <3>1 DEF NodeRank, VarRank
    <3>3. s.node[k].v # v  BY <1>3, <2>3, <3>2
    <3> QED BY <3>1, <3>3 DEF Chosen
  <2>6. (k \in I <=> Holds(I, e)) /\ (k \in J <=> Holds(J, e))
    BY <2>4, <2>5 DEF Reads
  <2> HIDE DEF e
  <2>7. c \in J <=> c \in I
    <3>1. CASE c = 0  BY <1>4, <3>1
    <3>2. CASE c # 0
      <4>1. c \in Nodes(s)  BY <2>4, <3>2 DEF Nodes
      <4>2. NodeRank(s, c) > s.rank[v]  BY <1>2, <1>3, <2>3, <2>4
      <4>3. ASSUME c \in Bad PROVE FALSE
        <5>1. b <= TERMID - NodeRank(s, c)  BY <2>2, <4>3
        <5> QED BY <1>1, <1>2, <2>3, <2>4, <4>1, <5>1
      <4> QED BY <4>1, <4>2, <4>3
    <3> QED BY <3>1, <3>2
  <2>8. Holds(I, e) <=> Holds(J, e)  BY <2>7 DEF Holds
  <2> QED BY <2>3, <2>6, <2>8
<1> QED BY <1>4, <1>5 DEF Nodes

(* Edges e and f have the same function.                                   *)
SameFunction(s, e, f) ==
  \A x, I : Reads(s.node, Nodes(s), x, I) => (Holds(I, e) <=> Holds(I, f))

(* The cofactors of an edge by a variable that is not below it have its    *)
(* function, where the variable is true and where it is not.               *)
LEMMA CornerReads ==
  ASSUME NEW s, Diagram(s), NEW v \in DOMAIN s.rank,
         NEW e \in Edge, Ptr(e) \in DOMAIN s.node,
         NEW x, NEW I, Reads(s.node, Nodes(s), x, I)
  PROVE  /\ v \in x => (Holds(I, e) <=> Holds(I, CornerT(s.node, e, v)))
         /\ v \notin x => (Holds(I, e) <=> Holds(I, CornerE(s.node, e, v)))
<1> DEFINE k == Ptr(e)
<1>1. CASE s.node[k].v # v  BY <1>1 DEF CornerT, CornerE
<1>2. CASE s.node[k].v = v
  <2>1. v # TERMID /\ s.node[0].v = TERMID  BY Ranked
  <2>2. k \in Nodes(s)  BY <1>2, <2>1 DEF Nodes
  <2>3. s.node[k].t \in Edge /\ s.node[k].e \in Edge /\ 0 \in I /\ Neg(e) \in BOOLEAN
    BY <2>2, EdgeFacts DEF Diagram, Linked, Reads
  <2>4. k \in I <=> Holds(I, Chosen(s.node, k, x))  BY <2>2 DEF Reads
  <2>5. Holds(I, e) <=> (Holds(I, Chosen(s.node, k, x)) <=> ~Neg(e))
    <3>1. Holds(I, e) <=> (k \in I <=> ~Neg(e))  BY DEF Holds
    <3> QED BY <2>4, <3>1
  <2>6. /\ Holds(I, SetNeg(s.node[k].t, Neg(e))) <=> (Holds(I, s.node[k].t) <=> ~Neg(e))
        /\ Holds(I, SetNeg(s.node[k].e, Neg(e))) <=> (Holds(I, s.node[k].e) <=> ~Neg(e))
    BY <2>3, HoldsFacts
  <2>7. /\ CornerT(s.node, e, v) = SetNeg(s.node[k].t, Neg(e))
        /\ CornerE(s.node, e, v) = SetNeg(s.node[k].e, Neg(e))
    BY <1>2 DEF CornerT, CornerE
  <2>8. Chosen(s.node, k, x) = IF v \in x THEN s.node[k].t ELSE s.node[k].e
    BY <1>2 DEF Chosen
  <2> HIDE DEF k
  <2> QED BY <2>5, <2>6, <2>7, <2>8
<1> QED BY <1>1, <1>2

(* Edge g is below the rank of v.                                          *)
Deeper(s, g, v) == g \in Edge /\ Ptr(g) \in DOMAIN s.node /\ NodeRank(s, Ptr(g)) > s.rank[v]

(* So are the cofactors by v.                                              *)
LEMMA CornersDeeper ==
  ASSUME NEW s, Diagram(s), NEW v \in DOMAIN s.rank,
         NEW e \in Edge, Ptr(e) \in DOMAIN s.node, NodeRank(s, Ptr(e)) >= s.rank[v]
  PROVE  Deeper(s, CornerT(s.node, e, v), v) /\ Deeper(s, CornerE(s.node, e, v), v)
<1> DEFINE k == Ptr(e)
<1>1. TERMID \in Nat /\ DOMAIN s.rank \subseteq 0 .. TERMID - 1 /\ s.rank[v] \in Nat
      /\ s.rank[v] < TERMID /\ s.node[0].v = TERMID
  BY Ranked
<1>2. \A m \in DOMAIN s.node : NodeRank(s, m) \in 0 .. TERMID  BY RankFalls
<1>3. CASE s.node[k].v # v
  <2>1. NodeRank(s, k) # s.rank[v]
    <3>1. CASE k = 0  BY <1>1, <3>1 DEF NodeRank, VarRank
    <3>2. CASE k # 0
      <4>1. s.node[k].v \in DOMAIN s.rank  BY <3>2 DEF Diagram, Nodes
      <4>2. NodeRank(s, k) = s.rank[s.node[k].v]  BY <1>1, <4>1 DEF NodeRank, VarRank
      <4>3. \A u \in DOMAIN s.rank : s.space[s.rank[u]] = u  BY Ranked
      <4> QED BY <1>3, <4>1, <4>2, <4>3
    <3> QED BY <3>1, <3>2
  <2>2. NodeRank(s, k) > s.rank[v]  BY <1>1, <1>2, <2>1
  <2> QED BY <1>3, <2>2 DEF CornerT, CornerE, Deeper
<1>4. CASE s.node[k].v = v
  <2>1. k \in Nodes(s)  BY <1>1, <1>4 DEF Nodes
  <2>2. NodeRank(s, k) = s.rank[v]  BY <1>1, <1>4 DEF NodeRank, VarRank
  <2>3. /\ s.node[k].t \in Edge /\ Ptr(s.node[k].t) \in DOMAIN s.node
        /\ s.node[k].e \in Edge /\ Ptr(s.node[k].e) \in DOMAIN s.node
        /\ \A c \in Kids(s.node, k) : NodeRank(s, k) < NodeRank(s, c)
    BY <2>1 DEF Diagram, Linked
  <2>4. /\ NodeRank(s, Ptr(s.node[k].t)) > s.rank[v]
        /\ NodeRank(s, Ptr(s.node[k].e)) > s.rank[v]
    BY <1>1, <1>2, <2>2, <2>3 DEF Kids
  <2>5. Neg(e) \in BOOLEAN  BY EdgeFacts
  <2>6. /\ CornerT(s.node, e, v) = SetNeg(s.node[k].t, Neg(e))
        /\ CornerE(s.node, e, v) = SetNeg(s.node[k].e, Neg(e))
    BY <1>4 DEF CornerT, CornerE
  <2>7. /\ SetNeg(s.node[k].t, Neg(e)) \in Edge
        /\ Ptr(SetNeg(s.node[k].t, Neg(e))) = Ptr(s.node[k].t)
        /\ SetNeg(s.node[k].e, Neg(e)) \in Edge
        /\ Ptr(SetNeg(s.node[k].e, Neg(e))) = Ptr(s.node[k].e)
    BY <2>3, <2>5, SetNegFacts
  <2> QED BY <2>3, <2>4, <2>6, <2>7 DEF Deeper
<1> QED BY <1>3, <1>4

(* Equal functions have equal cofactors.                                   *)
LEMMA CornersSame ==
  ASSUME NEW s, Diagram(s), NEW v \in DOMAIN s.rank,
         NEW e \in Edge, Ptr(e) \in DOMAIN s.node, NodeRank(s, Ptr(e)) >= s.rank[v],
         NEW f \in Edge, Ptr(f) \in DOMAIN s.node, NodeRank(s, Ptr(f)) >= s.rank[v],
         SameFunction(s, e, f)
  PROVE  /\ SameFunction(s, CornerT(s.node, e, v), CornerT(s.node, f, v))
         /\ SameFunction(s, CornerE(s.node, e, v), CornerE(s.node, f, v))
<1> DEFINE a == CornerT(s.node, e, v)  b == CornerE(s.node, e, v)
           c == CornerT(s.node, f, v)  d == CornerE(s.node, f, v)
<1>1. Deeper(s, a, v) /\ Deeper(s, b, v)  BY CornersDeeper
<1>2. Deeper(s, c, v) /\ Deeper(s, d, v)  BY CornersDeeper
<1>3. ASSUME NEW x, NEW I, Reads(s.node, Nodes(s), x, I)
      PROVE  (Holds(I, a) <=> Holds(I, c)) /\ (Holds(I, b) <=> Holds(I, d))
  <2> DEFINE y == x \cup {v}
             z == x \ {v}
  <2>1. PICK J : Reads(s.node, Nodes(s), y, J)  BY ReadingExists
  <2>2. PICK K : Reads(s.node, Nodes(s), z, K)  BY ReadingExists
  <2>3. (Holds(J, e) <=> Holds(J, f)) /\ (Holds(K, e) <=> Holds(K, f))
    BY <2>1, <2>2 DEF SameFunction
  <2>4. Holds(J, e) <=> Holds(J, a)  BY <2>1, CornerReads
  <2>5. Holds(J, f) <=> Holds(J, c)  BY <2>1, CornerReads
  <2>6. Holds(K, e) <=> Holds(K, b)  BY <2>2, CornerReads
  <2>7. Holds(K, f) <=> Holds(K, d)  BY <2>2, CornerReads
  <2>8. \A k \in DOMAIN s.node : NodeRank(s, k) > s.rank[v] => (k \in J <=> k \in I)
    <3>1. \A u \in DOMAIN s.rank \ {v} : u \in x <=> u \in y  OBVIOUS
    <3> HIDE DEF y
    <3> QED BY <1>3, <2>1, <3>1, Independent
  <2>9. \A k \in DOMAIN s.node : NodeRank(s, k) > s.rank[v] => (k \in K <=> k \in I)
    <3>1. \A u \in DOMAIN s.rank \ {v} : u \in x <=> u \in z  OBVIOUS
    <3> HIDE DEF z
    <3> QED BY <1>3, <2>2, <3>1, Independent
  <2> HIDE DEF a, b, c, d
  <2>10. (Holds(J, a) <=> Holds(I, a)) /\ (Holds(J, c) <=> Holds(I, c))
    BY <1>1, <1>2, <2>8 DEF Deeper, Holds
  <2>11. (Holds(K, b) <=> Holds(I, b)) /\ (Holds(K, d) <=> Holds(I, d))
    BY <1>1, <1>2, <2>9 DEF Deeper, Holds
  <2> QED BY <2>3, <2>4, <2>5, <2>6, <2>7, <2>10, <2>11
<1> HIDE DEF a, b, c, d
<1>4. SameFunction(s, a, c) /\ SameFunction(s, b, d)  BY <1>3 DEF SameFunction
<1> QED BY <1>4 DEF a, b, c, d

(* Edges of rank TERMID - i and below that have the same function are      *)
(* equal.                                                                  *)
Told(s, i) ==
  \A e, f \in Edge :
    /\ Ptr(e) \in DOMAIN s.node /\ NodeRank(s, Ptr(e)) >= TERMID - i
    /\ Ptr(f) \in DOMAIN s.node /\ NodeRank(s, Ptr(f)) >= TERMID - i
    /\ SameFunction(s, e, f)
    => e = f

(* The constants differ in their sign.                                     *)
LEMMA ToldConstants ==
  ASSUME NEW s, Diagram(s)
  PROVE  Told(s, 0)
<1>1. TERMID \in Nat /\ \A k \in Nodes(s) : NodeRank(s, k) \in 0 .. TERMID - 1
  BY Ranked, RankFalls
<1>2. PICK I : Reads(s.node, Nodes(s), {}, I)  BY ReadingExists
<1>3. ASSUME NEW e \in Edge, NEW f \in Edge,
             Ptr(e) \in DOMAIN s.node, NodeRank(s, Ptr(e)) >= TERMID - 0,
             Ptr(f) \in DOMAIN s.node, NodeRank(s, Ptr(f)) >= TERMID - 0,
             SameFunction(s, e, f)
      PROVE  e = f
  <2>1. Ptr(e) = 0 /\ Ptr(f) = 0  BY <1>1, <1>3 DEF Nodes
  <2>2. 0 \in I /\ (Holds(I, e) <=> Holds(I, f))  BY <1>2, <1>3 DEF SameFunction, Reads
  <2>3. Neg(e) <=> Neg(f)  BY <2>1, <2>2 DEF Holds
  <2> QED BY <2>1, <2>3, EdgeFacts
<1> QED BY <1>3 DEF Told

(* One rank more.                                                          *)
LEMMA ToldMore ==
  ASSUME NEW s, Diagram(s), NEW i \in Nat, i < TERMID, Told(s, i)
  PROVE  Told(s, i + 1)
<1> DEFINE r == TERMID - (i + 1)
<1>1. /\ TERMID \in Nat /\ r \in Nat /\ DOMAIN s.rank \subseteq 0 .. TERMID - 1
      /\ s.node[0].v = TERMID
  BY Ranked
<1>2. \A k \in DOMAIN s.node : NodeRank(s, k) \in 0 .. TERMID  BY RankFalls
<1>3. ASSUME NEW e \in Edge, NEW f \in Edge,
             Ptr(e) \in DOMAIN s.node, NodeRank(s, Ptr(e)) >= r,
             Ptr(f) \in DOMAIN s.node, NodeRank(s, Ptr(f)) >= r,
             SameFunction(s, e, f)
      PROVE  e = f
  <2>1. CASE NodeRank(s, Ptr(e)) # r /\ NodeRank(s, Ptr(f)) # r
    <3>1. NodeRank(s, Ptr(e)) >= TERMID - i /\ NodeRank(s, Ptr(f)) >= TERMID - i
      BY <1>1, <1>2, <1>3, <2>1
    <3> QED BY <1>3, <3>1 DEF Told
  <2>2. ASSUME NEW k \in DOMAIN s.node, NodeRank(s, k) = r PROVE e = f
    <3> DEFINE v == s.node[k].v
    <3>1. k \in Nodes(s)  BY <1>1, <2>2 DEF NodeRank, VarRank, Nodes
    <3>2. v \in DOMAIN s.rank  BY <3>1 DEF Diagram
    <3>3. v # TERMID  BY <1>1, <3>2
    <3>4. s.rank[v] = r  BY <2>2, <3>3 DEF NodeRank, VarRank
    <3> HIDE DEF v, r
    <3> DEFINE a == CornerT(s.node, e, v)  b == CornerE(s.node, e, v)
               c == CornerT(s.node, f, v)  d == CornerE(s.node, f, v)
    <3>5. Deeper(s, a, v) /\ Deeper(s, b, v)  BY <1>3, <3>2, <3>4, CornersDeeper
    <3>6. Deeper(s, c, v) /\ Deeper(s, d, v)  BY <1>3, <3>2, <3>4, CornersDeeper
    <3>7. SameFunction(s, a, c) /\ SameFunction(s, b, d)
      BY <1>3, <3>2, <3>4, CornersSame
    <3> HIDE DEF a, b, c, d
    <3>8. ASSUME NEW g, Deeper(s, g, v)
          PROVE  g \in Edge /\ Ptr(g) \in DOMAIN s.node /\ NodeRank(s, Ptr(g)) >= TERMID - i
      <4>1. g \in Edge /\ Ptr(g) \in DOMAIN s.node /\ NodeRank(s, Ptr(g)) > r
        BY <3>4, <3>8 DEF Deeper
      <4> QED BY <1>1, <1>2, <4>1 DEF r
    <3>9. a = c  BY <3>5, <3>6, <3>7, <3>8 DEF Told
    <3>10. b = d  BY <3>5, <3>6, <3>7, <3>8 DEF Told
    <3>11. Tame(s.node, v)
      BY <1>1, <3>3 DEF Tame, Diagram, Linked, Normal, Nodes
    <3> QED BY <1>3, <3>9, <3>10, <3>11, CornersTell DEF a, b, c, d
  <2> QED BY <1>3, <2>1, <2>2
<1> QED BY <1>3 DEF Told

(* The diagram is canonical: in a diagram two edges have the same          *)
(* function if and only if they are equal, whatever the order of the       *)
(* variables; comparing two pointers is how the package, the model checker *)
(* and bddsimp decide whether two formulas are equivalent.                 *)
THEOREM EqualFunctions ==
  ASSUME NEW s, Diagram(s),
         NEW e \in Edge, Ptr(e) \in DOMAIN s.node,
         NEW f \in Edge, Ptr(f) \in DOMAIN s.node
  PROVE  SameFunction(s, e, f) <=> e = f
<1> DEFINE Bad == {i \in 1 .. TERMID : ~Told(s, i)}
<1>1. TERMID \in Nat /\ TERMID > 0  BY DEF TERMID
<1>2. \A k \in DOMAIN s.node : NodeRank(s, k) \in 0 .. TERMID  BY RankFalls
<1>3. Bad = {}
  <2> SUFFICES ASSUME Bad # {} PROVE FALSE  OBVIOUS
  <2>1. PICK i \in Bad : \A j \in Bad : i <= j
    <3>1. Bad \in SUBSET (1 .. TERMID)  OBVIOUS
    <3> HIDE DEF Bad
    <3> QED BY <1>1, <3>1, LeastElement
  <2>2. i \in 1 .. TERMID /\ ~Told(s, i)  BY <2>1
  <2>3. i - 1 \in Nat /\ i - 1 < TERMID /\ (i - 1) + 1 = i  BY <1>1, <2>2
  <2>4. Told(s, i - 1)
    <3>1. CASE i = 1
      <4>1. i - 1 = 0  BY <3>1
      <4> QED BY <4>1, ToldConstants
    <3>2. CASE i # 1
      <4>1. i - 1 \in 1 .. TERMID /\ ~(i <= i - 1)  BY <1>1, <2>2, <3>2
      <4> QED BY <2>1, <4>1
    <3> QED BY <3>1, <3>2
  <2>5. Told(s, (i - 1) + 1)  BY <2>3, <2>4, ToldMore
  <2> QED BY <2>2, <2>3, <2>5
<1>4. Told(s, TERMID)
  <2>1. TERMID \in 1 .. TERMID  BY <1>1
  <2> QED BY <1>3, <2>1
<1>5. SameFunction(s, e, f) => e = f
  <2>1. NodeRank(s, Ptr(e)) >= TERMID - TERMID /\ NodeRank(s, Ptr(f)) >= TERMID - TERMID
    BY <1>1, <1>2
  <2> QED BY <1>4, <2>1 DEF Told
<1> QED BY <1>5 DEF SameFunction
------------------------------------------------------------------------------
(* Collection: bdd_gc_aux.                                                 *)

(* The nodes that are in use. A dead one stays in its table until it is    *)
(* collected; its children were given up when it died.                     *)
Live(s) == {k \in Nodes(s) : s.node[k].ref > 0}

(* The store between two calls of the package: a diagram, some of whose    *)
(* nodes may be dead, with exact counts, to which a dead node contributes  *)
(* nothing. BddPackage checks it of the stores a client reaches.           *)
Kept(s, h) == Stage(s, Live(s), h) /\ Diagram(s)

(* What a collection changes of a store.                                   *)
SweepFields(s, q) ==
  /\ SameOrder(s, q) /\ q.node = [k \in Live(s) \cup {0} |-> s.node[k]]
  /\ q.dead = s.dead - Cardinality({n \in Nodes(s) : s.node[n].ref = 0})
  /\ q.frozen = s.frozen

(* That is what Sweep does.                                                *)
LEMMA Swept ==
  ASSUME NEW s, NEW h, Stage(s, Live(s), h)
  PROVE  SweepFields(s, Sweep(s))
<1> DEFINE gone == {n \in Nodes(s) : s.node[n].ref = 0}
           nd == [n \in DOMAIN s.node \ gone |-> s.node[n]]
           q == [s EXCEPT !.node = Table([n \in DOMAIN @ \ gone |-> @[n]]),
                          !.dead = @ - Cardinality(gone)]
           g == Sweep(s)
<1>1. {"node", "dead", "frozen", "log", "space", "rank"} \subseteq DOMAIN s
  BY DEF Stage, IsStore
<1>2. DOMAIN s.node \ gone = Live(s) \cup {0}
  <2>1. 0 \in DOMAIN s.node  BY DEF Stage, IsStore
  <2>2. \A m \in DOMAIN s.node : s.node[m].ref \in 0 .. MaxRef  BY StageFacts
  <2>3. MaxRef \in Nat  BY StoreConstants DEF StoreConstants
  <2>4. \A m \in DOMAIN s.node : s.node[m].ref > 0 <=> s.node[m].ref # 0  BY <2>2, <2>3
  <2> QED BY <2>1, <2>4 DEF Live, Nodes
<1>3. Table(nd) = nd  BY TableSame
<1>4. q.node = nd
  <2>1. q.node = Table(nd)  BY <1>1
  <2> QED BY <1>3, <2>1
<1>5. q.dead = s.dead - Cardinality(gone) /\ q.frozen = s.frozen /\ SameOrder(s, q)
  BY <1>1 DEF SameOrder
<1> HIDE DEF q
<1>6. g.node = q.node /\ g.dead = q.dead /\ g.frozen = q.frozen /\ SameOrder(q, g)
  <2> DEFINE l == Table([v \in DOMAIN q.log |->
                     IF Underloaded(q, v) THEN ShrunkLog(q.log[v]) ELSE q.log[v]])
  <2>1. g = [q EXCEPT !.log = l]  BY DEF Sweep, q
  <2>2. "log" \in DOMAIN q /\ "node" \in DOMAIN q /\ "dead" \in DOMAIN q /\ "frozen" \in DOMAIN q
        /\ "rank" \in DOMAIN q /\ "space" \in DOMAIN q
    BY <1>1, <1>5 DEF SameOrder
  <2> HIDE DEF l, g
  <2> QED BY <2>1, <2>2 DEF SameOrder
<1> HIDE DEF g
<1>7. SameOrder(s, g)  BY <1>5, <1>6 DEF SameOrder
<1>8. g.node = [k \in Live(s) \cup {0} |-> s.node[k]]
  BY <1>2, <1>4, <1>6
<1> QED BY <1>5, <1>6, <1>7, <1>8 DEF SweepFields, g

(* What a collection promises: g is well kept, all that is held is still   *)
(* there, and the functions are the same.                                  *)
Collects(s, h, g) ==
  /\ WellKept(g, h) /\ SameOrder(s, g) /\ Held(h) \cup {0} \subseteq DOMAIN g.node
  /\ \A x, I : Reads(s.node, Live(s), x, I) <=> Reads(g.node, Nodes(g), x, I)

(* bdd_gc_aux, after the cache of cubes is empty: in every store that is   *)
(* kept, collecting the nodes with count 0 leaves a well-kept store, where *)
(* an exchange may begin, and neither moves nor changes a node that        *)
(* somebody holds.                                                         *)
THEOREM SweepKeeps ==
  ASSUME NEW s, NEW h, Kept(s, h)
  PROVE  Collects(s, h, Sweep(s))
<1> DEFINE g == Sweep(s)
           L == Live(s)
           gone == {n \in Nodes(s) : s.node[n].ref = 0}
<1>1. Stage(s, L, h)  BY DEF Kept
<1>2. SweepFields(s, g)  BY <1>1, Swept
<1>3. /\ SameOrder(s, g) /\ g.node = [k \in L \cup {0} |-> s.node[k]]
      /\ DOMAIN g.node = L \cup {0} /\ \A k \in L \cup {0} : g.node[k] = s.node[k]
      /\ g.dead = s.dead - Cardinality(gone) /\ g.frozen = s.frozen
  BY <1>2 DEF SweepFields
<1> HIDE DEF g
<1>4. /\ L \subseteq DOMAIN s.node \ {0} /\ 0 \in DOMAIN s.node /\ DOMAIN s.node \subseteq Nat
      /\ IsFiniteSet(DOMAIN s.node) /\ IsFiniteSet(L)
      /\ s.node \in [DOMAIN s.node -> Node] /\ s.dead \in Int /\ s.frozen \in Int
      /\ h \in [Nat -> Nat]
  BY <1>1, FS_Subset DEF Stage, IsStore
<1>5. Nodes(g) = L  BY <1>3, <1>4 DEF Nodes
<1>6. MaxRef \in Nat \ {0, 1}  BY StoreConstants DEF StoreConstants
<1>7. /\ \A m \in Nat : h[m] \in Nat /\ Uses(s.node, L, m) \in Nat
      /\ \A m \in DOMAIN s.node :
           /\ s.node[m].ref \in 0 .. MaxRef
           /\ s.node[m].ref = MaxRef \/ s.node[m].ref = h[m] + Uses(s.node, L, m)
      /\ \A k \in L : /\ s.node[Ptr(s.node[k].t)].ref > 0
                      /\ s.node[Ptr(s.node[k].e)].ref > 0
  BY <1>1, StageFacts
<1>8. ASSUME NEW m \in Nat, m \notin L \cup {0} PROVE h[m] = 0
  <2>1. CASE m \notin DOMAIN s.node  BY <1>1, <2>1 DEF Stage
  <2>2. CASE m \in DOMAIN s.node
    <3>1. ~(s.node[m].ref > 0)  BY <1>8, <2>2 DEF Live, Nodes
    <3>2. s.node[m].ref = 0  BY <1>6, <1>7, <2>2, <3>1
    <3>3. h[m] + Uses(s.node, L, m) = 0  BY <1>6, <1>7, <2>2, <3>2
    <3> HIDE DEF L
    <3> QED BY <1>7, <3>3
  <2> QED BY <2>1, <2>2
<1>9. ASSUME NEW k \in L
      PROVE  /\ s.node[k].t \in Edge /\ Ptr(s.node[k].t) \in L \cup {0}
             /\ s.node[k].e \in Edge /\ Ptr(s.node[k].e) \in L \cup {0}
  <2>1. /\ s.node[k].t \in Edge /\ Ptr(s.node[k].t) \in DOMAIN s.node
        /\ s.node[k].e \in Edge /\ Ptr(s.node[k].e) \in DOMAIN s.node
    BY <1>1 DEF Stage, Linked
  <2> QED BY <1>7, <2>1 DEF Live, Nodes
<1>10. IsStore(g)
  <2>1. g.node \in [DOMAIN g.node -> Node]
    <3>1. \A k \in L \cup {0} : s.node[k] \in Node  BY <1>4
    <3> HIDE DEF L
    <3> QED BY <1>3, <3>1
  <2>2. g.dead \in Int /\ g.frozen \in Int
    <3>1. Cardinality(gone) \in Nat
      <4>1. gone \subseteq DOMAIN s.node  BY DEF Nodes
      <4>2. IsFiniteSet(gone)  BY <1>4, <4>1, FS_Subset
      <4> QED BY <4>2, FS_CardinalityType
    <3> HIDE DEF gone
    <3> QED BY <1>3, <1>4, <3>1
  <2>3. IsFiniteSet(L \cup {0})  BY <1>4, FS_AddElement
  <2>4. {"node", "dead", "frozen", "log", "space", "rank"} \subseteq DOMAIN g
    BY <1>1, <1>3 DEF Stage, IsStore, SameOrder
  <2> QED BY <1>3, <1>4, <2>1, <2>2, <2>3, <2>4 DEF IsStore
<1>11. Linked(g.node, L)
  <2>1. \A k \in L : g.node[k] = s.node[k]  BY <1>3
  <2> QED BY <1>3, <1>9, <2>1 DEF Linked
<1>12. Backed(g.node, L, h)
  <2>1. \A k \in L : g.node[k].t = s.node[k].t /\ g.node[k].e = s.node[k].e  BY <1>3
  <2>2. \A m : Uses(g.node, L, m) = Uses(s.node, L, m)  BY <2>1, UsesSame
  <2>3. \A m \in L \cup {0} : /\ m \in DOMAIN s.node /\ g.node[m].ref = s.node[m].ref
    BY <1>3, <1>4
  <2> HIDE DEF L
  <2> QED BY <1>3, <1>7, <2>2, <2>3 DEF Backed
<1>13. Counted(g)
  <2> DEFINE A == WithCount(s.node, 0)
             B == WithCount(g.node, 0)
  <2>1. A = B \cup gone /\ B \cap gone = {}
    <3>1. \A m \in L : s.node[m].ref # 0  BY <1>4, <1>6, <1>7 DEF Live
    <3>2. B = {m \in L \cup {0} : s.node[m].ref = 0}  BY <1>3 DEF WithCount
    <3>3. B = {m \in {0} : s.node[m].ref = 0}  BY <3>1, <3>2
    <3>4. A = {m \in DOMAIN s.node : s.node[m].ref = 0}  BY DEF WithCount
    <3> QED BY <1>4, <3>3, <3>4 DEF Nodes
  <2>2. IsFiniteSet(A) /\ IsFiniteSet(B) /\ IsFiniteSet(gone)
    <3>1. A \subseteq DOMAIN s.node /\ B \subseteq A /\ gone \subseteq A
      BY <2>1 DEF WithCount
    <3> QED BY <1>4, <3>1, FS_Subset
  <2> HIDE DEF A, B, gone
  <2>3. Cardinality(A) = Cardinality(B) + Cardinality(gone)
    <3>1. Cardinality(B \cup gone) = Cardinality(B) + Cardinality(gone) - Cardinality(B \cap gone)
      BY <2>2, FS_Union
    <3>2. Cardinality(B \cap gone) = 0  BY <2>1, FS_EmptySet
    <3>3. Cardinality(B) \in Nat /\ Cardinality(gone) \in Nat  BY <2>2, FS_CardinalityType
    <3> QED BY <2>1, <3>1, <3>2, <3>3
  <2>4. Cardinality(B) \in Nat /\ Cardinality(gone) \in Nat  BY <2>2, FS_CardinalityType
  <2>5. s.dead = 1 + Cardinality(A) /\ s.frozen = Cardinality(WithCount(s.node, MaxRef))
    BY <1>1 DEF Stage, Counted, A
  <2>6. g.dead = 1 + Cardinality(B)  BY <1>3, <2>3, <2>4, <2>5
  <2>7. WithCount(g.node, MaxRef) = WithCount(s.node, MaxRef)
    <3>1. \A m \in DOMAIN s.node : s.node[m].ref = MaxRef => m \in L \cup {0}
      BY <1>6 DEF Live, Nodes
    <3> HIDE DEF L
    <3> QED BY <1>3, <1>4, <3>1 DEF WithCount
  <2> QED BY <1>3, <2>5, <2>6, <2>7 DEF Counted, B
<1>14. Stage(g, Nodes(g), h)
  <2>1. \A m \in Nat \ DOMAIN g.node : h[m] = 0  BY <1>3, <1>8
  <2>2. L \subseteq DOMAIN g.node \ {0}  BY <1>3, <1>4
  <2> HIDE DEF L
  <2> QED BY <1>4, <1>5, <1>10, <1>11, <1>12, <1>13, <2>1, <2>2 DEF Stage
<1>15. /\ g.space = s.space /\ g.rank = s.rank
       /\ \A k \in L \cup {0} : NodeRank(g, k) = NodeRank(s, k)
  BY <1>3 DEF SameOrder, NodeRank, VarRank
<1>16. WellKept(g, h)
  <2>1. \A k \in L : g.node[k] = s.node[k] /\ g.node[0] = s.node[0]  BY <1>3
  <2>2. g.node[0].v = TERMID  BY <1>3 DEF Kept, Diagram
  <2>3. \A k \in L : g.node[k].ref > 0  BY <2>1 DEF Live
  <2>4. \A k \in L : ~Neg(g.node[k].t) /\ g.node[k].t # g.node[k].e
    BY <1>4, <2>1 DEF Kept, Diagram, Nodes
  <2>5. Distinct(g.node)
    <3>1. \A k, m \in L : SameLink(s.node[k], s.node[m]) => k = m
      BY <1>4 DEF Kept, Diagram, Distinct
    <3>2. DOMAIN g.node \ {0} = L  BY <1>3, <1>4
    <3> HIDE DEF L
    <3> QED BY <2>1, <3>1, <3>2 DEF Distinct
  <2>6. Ranking(g)
    <3>1. Ranking(s)  BY DEF Kept, Diagram
    <3> QED BY <1>15, <3>1 DEF Ranking
  <2>7. ASSUME NEW k \in L
        PROVE  /\ g.node[k].v \in DOMAIN g.rank
               /\ \A c \in Kids(g.node, k) : NodeRank(g, k) < NodeRank(g, c)
    <3>1. /\ s.node[k].v \in DOMAIN s.rank
          /\ \A c \in Kids(s.node, k) : NodeRank(s, k) < NodeRank(s, c)
      BY <1>4 DEF Kept, Diagram, Nodes
    <3>2. Kids(g.node, k) = Kids(s.node, k) /\ Kids(s.node, k) \subseteq L \cup {0}
      BY <1>9, <2>1 DEF Kids
    <3> HIDE DEF L
    <3> QED BY <1>15, <2>1, <3>1, <3>2
  <2> QED BY <1>5, <1>10, <1>11, <1>14, <2>2, <2>3, <2>4, <2>5, <2>6, <2>7
          DEF WellKept, Diagram
<1>17. Held(h) \cup {0} \subseteq DOMAIN g.node
  <2>1. \A m \in Held(h) : m \in Nat /\ h[m] # 0  BY <1>4 DEF Held
  <2> HIDE DEF L
  <2> QED BY <1>3, <1>8, <2>1
<1>18. ASSUME NEW x, NEW I
       PROVE  Reads(s.node, L, x, I) <=> Reads(g.node, Nodes(g), x, I)
  <2>1. \A k \in L : Chosen(g.node, k, x) = Chosen(s.node, k, x)  BY <1>3 DEF Chosen
  <2> HIDE DEF L
  <2> QED BY <1>5, <2>1 DEF Reads
<1> QED BY <1>3, <1>16, <1>17, <1>18 DEF Collects, g
------------------------------------------------------------------------------
(* Making and giving up nodes between reorderings.                         *)

(* A diagram stays one when only counts change.                            *)
LEMMA DiagramSame ==
  ASSUME NEW s, NEW q, Diagram(s), IsStore(q), SameLinks(s, q)
  PROVE  /\ Diagram(q) /\ Nodes(q) = Nodes(s)
         /\ \A x, I : Reads(q.node, Nodes(q), x, I) <=> Reads(s.node, Nodes(s), x, I)
<1>1. /\ Nodes(q) = Nodes(s) /\ q.space = s.space /\ q.rank = s.rank
      /\ \A k \in DOMAIN s.node : SameLink(q.node[k], s.node[k])
      /\ DOMAIN q.node = DOMAIN s.node /\ 0 \in DOMAIN s.node
      /\ Nodes(s) \subseteq DOMAIN s.node
  BY DEF SameLinks, SameOrder, Nodes, Diagram, IsStore
<1>2. \A k \in DOMAIN s.node : NodeRank(q, k) = NodeRank(s, k)
  BY <1>1 DEF NodeRank, VarRank, SameLink
<1>3. \A k \in Nodes(s) : /\ q.node[k].v = s.node[k].v
                          /\ q.node[k].t = s.node[k].t /\ q.node[k].e = s.node[k].e
                          /\ Kids(q.node, k) = Kids(s.node, k)
                          /\ Kids(s.node, k) \subseteq DOMAIN s.node
  BY <1>1, KidsInside DEF SameLink, Kids, Diagram
<1>4. q.node[0].v = TERMID  BY <1>1 DEF Diagram, SameLink
<1>5. Linked(q.node, Nodes(q))  BY <1>1, <1>3 DEF Diagram, Linked
<1>6. Distinct(q.node)  BY <1>1, <1>3 DEF Diagram, Distinct, SameLink, Nodes
<1>7. Ranking(q)  BY <1>1 DEF Diagram, Ranking
<1>8. ASSUME NEW k \in Nodes(q)
      PROVE  /\ ~Neg(q.node[k].t) /\ q.node[k].t # q.node[k].e
             /\ q.node[k].v \in DOMAIN q.rank
             /\ \A c \in Kids(q.node, k) : NodeRank(q, k) < NodeRank(q, c)
  <2>1. /\ ~Neg(s.node[k].t) /\ s.node[k].t # s.node[k].e
        /\ s.node[k].v \in DOMAIN s.rank
        /\ \A c \in Kids(s.node, k) : NodeRank(s, k) < NodeRank(s, c)
    BY <1>1, <1>8 DEF Diagram
  <2>2. k \in Nodes(s) /\ k \in DOMAIN s.node  BY <1>1, <1>8
  <2> QED BY <1>1, <1>2, <1>3, <2>1, <2>2
<1>9. Diagram(q)  BY <1>4, <1>5, <1>6, <1>7, <1>8 DEF Diagram
<1>10. ASSUME NEW x, NEW I
       PROVE  Reads(q.node, Nodes(q), x, I) <=> Reads(s.node, Nodes(s), x, I)
  <2>1. \A k \in Nodes(s) : Chosen(q.node, k, x) = Chosen(s.node, k, x)
    BY <1>3 DEF Chosen
  <2> QED BY <1>1, <2>1 DEF Reads
<1> QED BY <1>1, <1>9, <1>10

(* What is held is in use.                                                 *)
LEMMA HeldInUse ==
  ASSUME NEW s, NEW h, Kept(s, h), NEW m \in Nat, h[m] > 0
  PROVE  m \in DOMAIN s.node /\ s.node[m].ref > 0
<1>1. Stage(s, Live(s), h) /\ MaxRef \in Nat \ {0, 1}
  BY StoreConstants DEF Kept, StoreConstants
<1>2. m \in DOMAIN s.node  BY <1>1 DEF Stage
<1>3. /\ h[m] \in Nat /\ Uses(s.node, Live(s), m) \in Nat
      /\ s.node[m].ref = MaxRef \/ s.node[m].ref = h[m] + Uses(s.node, Live(s), m)
  BY <1>1, <1>2, StageFacts
<1> QED BY <1>1, <1>2, <1>3

(* q is s, with other counts.                                              *)
Recounts(s, q, g) ==
  /\ Kept(q, g) /\ SameLinks(s, q)
  /\ \A x, I : Reads(q.node, Nodes(q), x, I) <=> Reads(s.node, Nodes(s), x, I)

(* One step of bdd_free: a reference is given up; if it was the last one,  *)
(* those of the node's children are next to be given up, and no other      *)
(* count is wrong meanwhile.                                               *)
THEOREM ReferenceReleased ==
  ASSUME NEW s, NEW h, Kept(s, h), NEW e \in Edge, h[Ptr(e)] > 0
  PROVE  LET q == DecrRef(s, e)
             k == Ptr(e)
             g == Less(h, k)
         IN IF k # 0 /\ Dead(q, e)
            THEN Recounts(s, q, Two(g, Ptr(s.node[k].t), Ptr(s.node[k].e)))
            ELSE Recounts(s, q, g)
<1> DEFINE q == DecrRef(s, e)
           k == Ptr(e)
           g == Less(h, k)
           L == Live(s)
<1>1. Stage(s, L, h) /\ Diagram(s)  BY DEF Kept
<1>2. k \in Nat /\ k \in DOMAIN s.node /\ s.node[k].ref > 0  BY EdgeFacts, HeldInUse
<1>3. /\ Stage(q, L, g) /\ SameLinks(s, q)
      /\ \A m \in DOMAIN s.node \ {k} : q.node[m].ref = s.node[m].ref
  BY <1>1, <1>2, DecrStage
<1> HIDE DEF q, g
<1>4. IsStore(q) /\ DOMAIN q.node = DOMAIN s.node  BY <1>3 DEF Stage, SameLinks
<1>5. /\ Diagram(q)
      /\ \A x, I : Reads(q.node, Nodes(q), x, I) <=> Reads(s.node, Nodes(s), x, I)
  BY <1>1, <1>3, <1>4, DiagramSame
<1>6. Dead(q, e) <=> q.node[k].ref = 0  BY DEF Dead, Ref, At
<1>7. q.node[k].ref = 0 \/ q.node[k].ref > 0
  <2>1. q.node[k].ref \in 0 .. MaxRef  BY <1>2, <1>3, <1>4, StageFacts
  <2>2. MaxRef \in Nat  BY StoreConstants DEF StoreConstants
  <2> QED BY <2>1, <2>2
<1>8. CASE k # 0 /\ q.node[k].ref = 0
  <2>1. k \in L  BY <1>2, <1>8 DEF Live, Nodes
  <2>2. Stage(q, L \ {k}, Two(g, Ptr(q.node[k].t), Ptr(q.node[k].e)))
    BY <1>3, <2>1, DetachStage
  <2>3. q.node[k].t = s.node[k].t /\ q.node[k].e = s.node[k].e
    BY <1>2, <1>3 DEF SameLinks, SameLink
  <2>4. Live(q) = L \ {k}
    <3>1. ~(q.node[k].ref > 0)  BY <1>8
    <3> QED BY <1>3, <1>4, <3>1 DEF Live, Nodes
  <2>5. Kept(q, Two(g, Ptr(s.node[k].t), Ptr(s.node[k].e)))
    BY <1>5, <2>2, <2>3, <2>4 DEF Kept
  <2> QED BY <1>3, <1>5, <1>6, <1>8, <2>5 DEF Recounts, q, g
<1>9. CASE ~(k # 0 /\ q.node[k].ref = 0)
  <2>1. Live(q) = L
    <3>1. k # 0 => q.node[k].ref > 0 /\ s.node[k].ref > 0  BY <1>2, <1>7, <1>9
    <3> QED BY <1>3, <1>4, <3>1 DEF Live, Nodes
  <2>2. Kept(q, g)  BY <1>3, <1>5, <2>1 DEF Kept
  <2> QED BY <1>3, <1>5, <1>6, <1>9, <2>2 DEF Recounts, q, g
<1> QED BY <1>8, <1>9
------------------------------------------------------------------------------
(* Making a node: bdd_create_node.                                          *)

(* The address of an edge is of a node in use, or of the constant.         *)
InUse(s, e) == e \in Edge /\ Ptr(e) \in Live(s) \cup {0}

(* J reads q as I reads s, where q has the nodes of s and others.          *)
LEMMA ReadOn ==
  ASSUME NEW s, NEW q, Diagram(s), Diagram(q), DOMAIN s.node \subseteq DOMAIN q.node,
         \A m \in DOMAIN s.node : SameLink(q.node[m], s.node[m]),
         NEW x, NEW I, NEW J, Reads(s.node, Nodes(s), x, I), Reads(q.node, Nodes(q), x, J)
  PROVE  Agree(DOMAIN s.node, I, J)
<1>1. Nodes(s) \subseteq Nodes(q) /\ Nodes(s) \subseteq DOMAIN s.node  BY DEF Nodes
<1>2. \A k \in Nodes(s) : Chosen(q.node, k, x) = Chosen(s.node, k, x)
  BY <1>1 DEF Chosen, SameLink
<1>3. Reads(s.node, Nodes(s), x, J)  BY <1>1, <1>2 DEF Reads
<1> QED BY <1>3, ReadingUnique

(* What bdd_create_node promises of its result q: the caller owns one more *)
(* reference, the store is still kept, all that was in it has the function *)
(* it had, and the edge, to a node of v, is IF v THEN T ELSE E.            *)
Constructs(s, h, v, T, E, q) ==
  /\ q.r \in Edge /\ Ptr(q.r) \in DOMAIN q.s.node
  /\ Kept(q.s, Plus(h, Ptr(q.r))) /\ Keeps(s, q.s)
  /\ SameLink(q.s.node[Ptr(q.r)], [v |-> v, t |-> Pos(T), e |-> SetNeg(E, Neg(T))])
  /\ \A x, I, J : /\ Reads(s.node, Nodes(s), x, I)
                  /\ Reads(q.s.node, Nodes(q.s), x, J)
                  => /\ Agree(DOMAIN s.node, I, J)
                     /\ Holds(J, q.r) <=> IF v \in x THEN Holds(I, T) ELSE Holds(I, E)

(* The result is a node of v, T and E.                                     *)
LEMMA NodeMeans ==
  ASSUME NEW s, NEW q, Diagram(s), Diagram(q), DOMAIN s.node \subseteq DOMAIN q.node,
         \A m \in DOMAIN s.node : SameLink(q.node[m], s.node[m]),
         NEW n \in Nodes(q), Kids(q.node, n) \subseteq DOMAIN s.node,
         NEW x, NEW I, NEW J, Reads(s.node, Nodes(s), x, I), Reads(q.node, Nodes(q), x, J)
  PROVE  n \in J <=> Holds(I, Chosen(q.node, n, x))
<1>1. Agree(DOMAIN s.node, I, J)  BY ReadOn
<1>2. /\ Chosen(q.node, n, x) \in Edge
      /\ Ptr(Chosen(q.node, n, x)) \in Kids(q.node, n)
  BY DEF Chosen, Kids, Diagram, Linked
<1>3. Holds(J, Chosen(q.node, n, x)) <=> Holds(I, Chosen(q.node, n, x))
  BY <1>1, <1>2, HoldsSame
<1>4. n \in J <=> Holds(J, Chosen(q.node, n, x))  BY DEF Reads
<1> QED BY <1>3, <1>4

(* Three references may be taken in any order.                             *)
LEMMA PlusLast ==
  ASSUME NEW h \in [Nat -> Nat], NEW a \in Nat, NEW b \in Nat, NEW n \in Nat
  PROVE  Plus(Two(h, a, b), n) = Two(Plus(h, n), a, b)
<1>1. Plus(Two(h, a, b), n) = Two(Plus(h, a), b, n)  BY DEF Two
<1>2. Plus(h, a) \in [Nat -> Nat]  BY PlusFacts
<1>3. Two(Plus(h, a), b, n) = Two(Plus(h, a), n, b)  BY <1>2, PlusSwap
<1>4. Plus(Plus(h, a), n) = Plus(Plus(h, n), a)
  BY PlusSwap DEF Two
<1> QED BY <1>1, <1>3, <1>4 DEF Two

(* A node that is in the table is found; if it is dead it takes its        *)
(* children's references again.                                            *)
LEMMA FoundKept ==
  ASSUME NEW s, NEW h, Kept(s, h), NEW n \in Nodes(s),
         InUse(s, s.node[n].t), InUse(s, s.node[n].e)
  PROVE  LET p == FoundNode(s, n)
         IN p.r = 2 * n /\ Kept(p.s, Plus(h, n)) /\ Keeps(s, p.s)
<1> DEFINE T == s.node[n].t  E == s.node[n].e
           a == Ptr(T)  b == Ptr(E)
           s1 == IncrRef(s, T)
           s2 == IncrRef(s1, E)
           L == Live(s)
<1>1. /\ Stage(s, L, h) /\ Diagram(s) /\ IsStore(s) /\ h \in [Nat -> Nat]
      /\ n \in DOMAIN s.node \ {0} /\ n \in Nat
  BY DEF Kept, Nodes, Stage, IsStore
<1>2. /\ T \in Edge /\ a \in DOMAIN s.node /\ a \in Nat
      /\ E \in Edge /\ b \in DOMAIN s.node /\ b \in Nat
      /\ a \in L \cup {0} /\ b \in L \cup {0}
  BY <1>1 DEF Diagram, Linked, InUse, IsStore
<1>3. 2 * n \in Edge /\ Ptr(2 * n) = n  BY <1>1, EdgeFacts
<1>4. Dead(s, 2 * n) <=> s.node[n].ref = 0  BY <1>3 DEF Dead, Ref, At
<1>5. s.node[n].ref = 0 \/ n \in L
  <2>1. s.node[n].ref \in 0 .. MaxRef  BY <1>1, StageFacts
  <2>2. MaxRef \in Nat  BY StoreConstants DEF StoreConstants
  <2>3. s.node[n].ref = 0 \/ s.node[n].ref > 0  BY <2>1, <2>2
  <2> QED BY <2>3 DEF Live
<1>6. CASE s.node[n].ref # 0
  <2> DEFINE q == IncrRef(s, 2 * n)
  <2>1. FoundNode(s, n).s = q /\ FoundNode(s, n).r = 2 * n
    BY <1>4, <1>6 DEF FoundNode, Assign, Pair
  <2>2. /\ Stage(q, L, Plus(h, n)) /\ SameLinks(s, q)
        /\ \A m \in DOMAIN s.node : q.node[m].ref >= s.node[m].ref
        /\ \A m \in DOMAIN s.node \ {n} : q.node[m].ref = s.node[m].ref
        /\ q.node[n].ref > 0
    BY <1>1, <1>3, IncrStage
  <2> HIDE DEF q
  <2>3. IsStore(q) /\ DOMAIN q.node = DOMAIN s.node  BY <2>2 DEF Stage, SameLinks
  <2>4. Diagram(q)  BY <1>1, <2>2, <2>3, DiagramSame
  <2>5. Live(q) = L
    <3>1. s.node[n].ref > 0  BY <1>5, <1>6 DEF Live
    <3> QED BY <2>2, <2>3, <3>1 DEF Live, Nodes
  <2>6. Keeps(s, q)  BY <2>2, <2>3 DEF Keeps, SameLinks
  <2> QED BY <2>1, <2>2, <2>4, <2>5, <2>6 DEF Kept
<1>7. CASE s.node[n].ref = 0
  <2> DEFINE q == IncrRef(s2, 2 * n)
  <2>1. FoundNode(s, n).s = q /\ FoundNode(s, n).r = 2 * n
    BY <1>4, <1>7 DEF FoundNode, Assign, Pair
  <2>0. n # a /\ n # b /\ n \notin L
    <3>1. ~(s.node[n].ref > 0)  BY <1>7
    <3> QED BY <1>1, <1>2, <3>1 DEF Live
  <2>2. /\ Stage(s1, L, Plus(h, a)) /\ SameLinks(s, s1)
        /\ \A m \in DOMAIN s.node : s1.node[m].ref >= s.node[m].ref
        /\ \A m \in DOMAIN s.node \ {a} : s1.node[m].ref = s.node[m].ref
    BY <1>1, <1>2, IncrStage
  <2>3. DOMAIN s1.node = DOMAIN s.node  BY <2>2 DEF SameLinks
  <2> HIDE DEF s1
  <2>4. /\ Stage(s2, L, Two(h, a, b)) /\ SameLinks(s1, s2)
        /\ \A m \in DOMAIN s.node : s2.node[m].ref >= s1.node[m].ref
        /\ \A m \in DOMAIN s.node \ {b} : s2.node[m].ref = s1.node[m].ref
    <3>1. b \in DOMAIN s1.node  BY <1>2, <2>3
    <3> QED BY <1>2, <2>2, <2>3, <3>1, IncrStage DEF Two
  <2>5. DOMAIN s2.node = DOMAIN s.node  BY <2>3, <2>4 DEF SameLinks
  <2> HIDE DEF s2
  <2>6. /\ Stage(q, L, Plus(Two(h, a, b), n)) /\ SameLinks(s2, q)
        /\ \A m \in DOMAIN s.node : q.node[m].ref >= s2.node[m].ref
        /\ \A m \in DOMAIN s.node \ {n} : q.node[m].ref = s2.node[m].ref
        /\ q.node[n].ref > 0
    <3>1. Ptr(2 * n) \in DOMAIN s2.node  BY <1>1, <1>3, <2>5
    <3> QED BY <1>3, <2>4, <2>5, <3>1, IncrStage
  <2> HIDE DEF q
  <2>7. DOMAIN q.node = DOMAIN s.node /\ IsStore(q)  BY <2>5, <2>6 DEF SameLinks, Stage
  <2>8. SameLinks(s, q)
    BY <2>2, <2>3, <2>4, <2>5, <2>6, <2>7 DEF SameLinks, SameLink, SameOrder
  <2>9. Diagram(q)  BY <1>1, <2>7, <2>8, DiagramSame
  <2>10. Plus(Two(h, a, b), n) = Two(Plus(h, n), a, b)
    BY <1>1, <1>2, PlusLast
  <2>11. q.node[n].t = T /\ q.node[n].e = E  BY <1>1, <2>8 DEF SameLinks, SameLink
  <2>12. Stage(q, L \cup {n}, Plus(h, n))
    <3>1. Plus(h, n) \in [Nat -> Nat]  BY <1>1, PlusFacts
    <3>2. n \in DOMAIN q.node \ {0}  BY <1>1, <2>7
    <3>3. Stage(q, L, Two(Plus(h, n), Ptr(q.node[n].t), Ptr(q.node[n].e)))
      BY <2>6, <2>10, <2>11
    <3> HIDE DEF T, E, L
    <3> QED BY <1>2, <2>0, <2>7, <2>11, <3>1, <3>2, <3>3, AttachStage
  <2>13. \A m \in DOMAIN s.node : /\ q.node[m].ref \in Int /\ s2.node[m].ref \in Int
                                   /\ s1.node[m].ref \in Int /\ s.node[m].ref \in Int
    <3>1. IsStore(s) /\ IsStore(s1) /\ IsStore(s2) /\ IsStore(q)
      BY <1>1, <2>2, <2>4, <2>6 DEF Stage
    <3>2. MaxRef \in Nat  BY StoreConstants DEF StoreConstants
    <3> HIDE DEF T, E, a, b, L
    <3>3. \A m \in DOMAIN s.node : s1.node[m] \in Node  BY <2>3, <3>1 DEF IsStore
    <3>4. \A m \in DOMAIN s.node : s2.node[m] \in Node  BY <2>5, <3>1 DEF IsStore
    <3>5. \A m \in DOMAIN s.node : q.node[m] \in Node  BY <2>7, <3>1 DEF IsStore
    <3>6. \A m \in DOMAIN s.node : s.node[m] \in Node  BY <3>1 DEF IsStore
    <3> QED BY <3>2, <3>3, <3>4, <3>5, <3>6 DEF Node
  <2>14. Live(q) = L \cup {n}
    <3>1. ASSUME NEW m \in DOMAIN s.node \ {n}
          PROVE  m # 0 => (q.node[m].ref > 0 <=> s.node[m].ref > 0)
      <4>1. q.node[m].ref = s2.node[m].ref  BY <2>6
      <4>2. CASE m \notin {a, b}  BY <2>2, <2>4, <4>1, <4>2
      <4>3. CASE m \in {a, b} /\ m # 0
        <5>1. s.node[m].ref > 0  BY <1>2, <4>3 DEF Live
        <5>2. q.node[m].ref \in Int /\ s2.node[m].ref \in Int /\ s1.node[m].ref \in Int
              /\ s.node[m].ref \in Int
          BY <2>13
        <5>3. s2.node[m].ref >= s1.node[m].ref /\ s1.node[m].ref >= s.node[m].ref
          BY <2>2, <2>4
        <5> QED BY <4>1, <5>1, <5>2, <5>3
      <4> QED BY <4>2, <4>3
    <3> QED BY <1>1, <2>6, <2>7, <3>1 DEF Live, Nodes
  <2>15. Keeps(s, q)
    <3>1. ASSUME NEW m \in DOMAIN s.node PROVE q.node[m].ref >= s.node[m].ref
      <4>1. q.node[m].ref \in Int /\ s2.node[m].ref \in Int /\ s1.node[m].ref \in Int
            /\ s.node[m].ref \in Int
        BY <2>13
      <4>2. /\ q.node[m].ref >= s2.node[m].ref
            /\ s2.node[m].ref >= s1.node[m].ref /\ s1.node[m].ref >= s.node[m].ref
        BY <2>2, <2>4, <2>6
      <4> QED BY <4>1, <4>2
    <3> QED BY <2>7, <2>8, <3>1 DEF Keeps, SameLinks
  <2> QED BY <2>1, <2>9, <2>12, <2>14, <2>15 DEF Kept
<1> QED BY <1>6, <1>7

(* An edge of s to a node below the rank of v, or to the constant, that is *)
(* in use.                                                                 *)
Branchable(s, v, e) == InUse(s, e) /\ Deeper(s, e, v)

(* A node that is added, unlike any other and with its children below it,  *)
(* leaves a diagram.                                                       *)
LEMMA AddedKept ==
  ASSUME NEW s, NEW h, Kept(s, h), NEW v \in DOMAIN s.rank,
         NEW T, Branchable(s, v, T), NEW E, Branchable(s, v, E), ~Neg(T), T # E,
         SameNode(s, v, T, E) = {}
  PROVE  LET p == AllocNode(s, v, T, E)
             n == FreshAddress(s)
         IN /\ p.r = 2 * n /\ Kept(p.s, Plus(h, n)) /\ Keeps(s, p.s)
            /\ n \in Nodes(p.s) /\ SameLink(p.s.node[n], [v |-> v, t |-> T, e |-> E])
<1> DEFINE p == AllocNode(s, v, T, E)
           n == FreshAddress(s)
           q == p.s
           L == Live(s)
           a == Ptr(T)
           b == Ptr(E)
<1>1. Stage(s, L, h) /\ Diagram(s) /\ IsStore(s)  BY DEF Kept, Stage
<1>2. /\ T \in Edge /\ a \in DOMAIN s.node /\ NodeRank(s, a) > s.rank[v] /\ a \in L \cup {0}
      /\ E \in Edge /\ b \in DOMAIN s.node /\ NodeRank(s, b) > s.rank[v] /\ b \in L \cup {0}
  BY DEF Branchable, InUse, Deeper
<1>3. v \in Int /\ v # TERMID /\ TERMID \in Nat /\ s.rank[v] \in Int
  BY <1>1, Ranked
<1>4. Allocates(s, L, h, v, T, E, n, p)  BY <1>1, <1>2, <1>3, AllocStage
<1> HIDE DEF n, p, L, a, b
<1>5. /\ n \in Nat \ {0} /\ n \notin DOMAIN s.node /\ p.r = 2 * n
      /\ Stage(q, L \cup {n}, Plus(h, n)) /\ IsStore(q) /\ Keeps(s, q)
      /\ DOMAIN q.node = DOMAIN s.node \cup {n}
      /\ q.node[n].v = v /\ q.node[n].t = T /\ q.node[n].e = E /\ q.node[n].ref > 0
      /\ q.node[a].ref > 0 /\ q.node[b].ref > 0
      /\ \A m \in DOMAIN s.node \ {a, b} : q.node[m].ref = s.node[m].ref
  BY <1>4 DEF Allocates, Stage, a, b
<1> HIDE DEF q
<1>6. /\ q.space = s.space /\ q.rank = s.rank
      /\ \A m \in DOMAIN s.node : /\ q.node[m].v = s.node[m].v
                                  /\ q.node[m].t = s.node[m].t /\ q.node[m].e = s.node[m].e
  BY <1>5 DEF Keeps, SameOrder, SameLink
<1>7. 0 \in DOMAIN s.node /\ Nodes(q) = Nodes(s) \cup {n} /\ Nodes(s) \subseteq DOMAIN s.node
  BY <1>1, <1>5 DEF Nodes, IsStore
<1>8. Live(q) = L \cup {n}
  <2>1. ASSUME NEW m \in Nodes(s) PROVE q.node[m].ref > 0 <=> s.node[m].ref > 0
    <3>1. CASE m \notin {a, b}  BY <1>5, <1>7, <3>1
    <3>2. CASE m \in {a, b}
      <4>1. m \in L  BY <1>2, <2>1, <3>2 DEF Nodes
      <4> QED BY <1>5, <3>2, <4>1 DEF L, Live
    <3> QED BY <3>1, <3>2
  <2> QED BY <1>5, <1>7, <2>1 DEF Live, L
<1>9. q.node[0].v = TERMID  BY <1>1, <1>6, <1>7 DEF Diagram
<1>10. Linked(q.node, Nodes(q))
  BY <1>1, <1>2, <1>5, <1>6, <1>7 DEF Diagram, Linked, a, b
<1>11. \A k \in Nodes(q) : ~Neg(q.node[k].t) /\ q.node[k].t # q.node[k].e
  BY <1>1, <1>5, <1>6, <1>7 DEF Diagram
<1>12. Distinct(q.node)
  <2> SUFFICES ASSUME NEW k \in Nodes(q), NEW m \in Nodes(q), SameLink(q.node[k], q.node[m])
               PROVE  k = m
    BY DEF Distinct, Nodes
  <2>1. ASSUME NEW i \in Nodes(s) PROVE ~SameLink(q.node[i], q.node[n])
    <3>1. ~(s.node[i].v = v /\ s.node[i].t = T /\ s.node[i].e = E)  BY DEF SameNode
    <3> QED BY <1>5, <1>6, <1>7, <3>1 DEF SameLink
  <2>2. CASE k \in Nodes(s) /\ m \in Nodes(s)
    <3>1. SameLink(s.node[k], s.node[m])  BY <1>6, <1>7, <2>2 DEF SameLink
    <3> QED BY <1>1, <2>2, <3>1 DEF Diagram, Distinct, Nodes
  <2>3. CASE k = n \/ m = n
    <3>1. SameLink(q.node[m], q.node[k])  BY DEF SameLink
    <3> QED BY <1>7, <2>1, <2>3, <3>1
  <2> QED BY <1>7, <2>2, <2>3
<1>13. Ranking(q)  BY <1>1, <1>6 DEF Diagram, Ranking
<1>14. /\ \A m \in DOMAIN s.node : NodeRank(q, m) = NodeRank(s, m)
       /\ NodeRank(q, n) = s.rank[v]
  BY <1>3, <1>5, <1>6 DEF NodeRank, VarRank
<1>15. ASSUME NEW k \in Nodes(q)
       PROVE  /\ q.node[k].v \in DOMAIN q.rank
              /\ \A c \in Kids(q.node, k) : NodeRank(q, k) < NodeRank(q, c)
  <2>1. CASE k = n
    <3>1. Kids(q.node, k) = {a, b}  BY <1>5, <2>1 DEF Kids, a, b
    <3>2. NodeRank(s, a) \in Int /\ NodeRank(s, b) \in Int  BY <1>1, <1>2, RankFalls
    <3> QED BY <1>2, <1>3, <1>5, <1>6, <1>14, <2>1, <3>1, <3>2
  <2>2. CASE k \in Nodes(s)
    <3>1. Kids(q.node, k) = Kids(s.node, k)  BY <1>6, <1>7, <2>2 DEF Kids
    <3>2. Kids(s.node, k) \subseteq DOMAIN s.node  BY <1>1, <2>2, KidsInside DEF Diagram
    <3>3. /\ s.node[k].v \in DOMAIN s.rank
          /\ \A c \in Kids(s.node, k) : NodeRank(s, k) < NodeRank(s, c)
      BY <1>1, <2>2 DEF Diagram
    <3> QED BY <1>6, <1>7, <1>14, <2>2, <3>1, <3>2, <3>3
  <2> QED BY <1>7, <2>1, <2>2
<1>16. Diagram(q)
  BY <1>5, <1>9, <1>10, <1>11, <1>12, <1>13, <1>15 DEF Diagram
<1>17. Kept(q, Plus(h, n))  BY <1>5, <1>8, <1>16 DEF Kept
<1>18. SameLink(q.node[n], [v |-> v, t |-> T, e |-> E])  BY <1>5 DEF SameLink
<1>19. /\ p.r = 2 * n /\ Kept(p.s, Plus(h, n)) /\ Keeps(s, p.s)
       /\ n \in Nodes(p.s) /\ SameLink(p.s.node[n], [v |-> v, t |-> T, e |-> E])
  BY <1>5, <1>7, <1>17, <1>18 DEF q
<1> QED BY <1>19 DEF p, n

(* That is a node of v, T and E, in either case.                           *)
LEMMA PickedNode ==
  ASSUME NEW s, NEW h, Kept(s, h), NEW v \in DOMAIN s.rank,
         NEW T, Branchable(s, v, T), NEW E, Branchable(s, v, E), ~Neg(T), T # E,
         NEW p \in Picked(s, v, T, E)
  PROVE  \E n \in Nodes(p.s) :
           /\ p.r = 2 * n /\ Kept(p.s, Plus(h, n)) /\ Keeps(s, p.s)
           /\ SameLink(p.s.node[n], [v |-> v, t |-> T, e |-> E])
<1>1. CASE SameNode(s, v, T, E) = {}
  <2>1. p = AllocNode(s, v, T, E)  BY <1>1 DEF Picked
  <2> QED BY <1>1, <2>1, AddedKept
<1>2. CASE SameNode(s, v, T, E) # {}
  <2>1. PICK n \in SameNode(s, v, T, E) : p = FoundNode(s, n)  BY <1>2 DEF Picked
  <2>2. n \in Nodes(s) /\ s.node[n].v = v /\ s.node[n].t = T /\ s.node[n].e = E
    BY <2>1 DEF SameNode
  <2>3. InUse(s, s.node[n].t) /\ InUse(s, s.node[n].e)  BY <2>2 DEF Branchable
  <2>4. p.r = 2 * n /\ Kept(p.s, Plus(h, n)) /\ Keeps(s, p.s)
    BY <2>1, <2>2, <2>3, FoundKept
  <2>5. n \in Nodes(p.s) /\ SameLink(p.s.node[n], s.node[n])
    BY <2>2, <2>4 DEF Keeps, Nodes
  <2>6. SameLink(p.s.node[n], [v |-> v, t |-> T, e |-> E])  BY <2>2, <2>5 DEF SameLink
  <2> QED BY <2>4, <2>5, <2>6
<1> QED BY <1>1, <1>2

(* bdd_create_node, from any store that is kept and any two branches that  *)
(* are in use and below the rank of v: whether the node is alive in its    *)
(* table, dead in its table, or not there, and whatever sign is moved from *)
(* the then-link to the result, the result is the function IF v THEN T     *)
(* ELSE E, owned once; every count is right, the diagram is still reduced  *)
(* and ordered, and no other function has changed.                         *)
THEOREM NodeMade ==
  ASSUME NEW s, NEW h, Kept(s, h), NEW v \in DOMAIN s.rank,
         NEW T, Branchable(s, v, T), NEW E, Branchable(s, v, E), T # E,
         NEW p \in Picked(s, v, Pos(T), SetNeg(E, Neg(T)))
  PROVE  Constructs(s, h, v, T, E, Negate(p, Neg(T)))
<1> DEFINE b == Neg(T)
           T1 == Pos(T)
           E1 == SetNeg(E, b)
<1>1. T \in Edge /\ E \in Edge /\ Ptr(T) \in DOMAIN s.node /\ Ptr(E) \in DOMAIN s.node
  BY DEF Branchable, Deeper
<1>2. b \in BOOLEAN  BY <1>1, EdgeFacts
<1>3. /\ T1 \in Edge /\ Ptr(T1) = Ptr(T) /\ ~Neg(T1) /\ SetNeg(T1, b) = T
      /\ E1 \in Edge /\ Ptr(E1) = Ptr(E)
  BY <1>1, <1>2, EdgeFacts, SetNegFacts, SetNegTwice
<1>4. T1 # E1
  <2> SUFFICES ASSUME T1 = E1 PROVE FALSE  OBVIOUS
  <2>1. SetNeg(E1, b) = E  BY <1>1, <1>2, SetNegTwice
  <2> QED BY <1>3, <2>1
<1> HIDE DEF T1, E1
<1>5. Branchable(s, v, T1) /\ Branchable(s, v, E1)
  BY <1>3 DEF Branchable, InUse, Deeper
<1>6. p \in Picked(s, v, T1, E1)  BY DEF T1, E1
<1>7. PICK n \in Nodes(p.s) :
           /\ p.r = 2 * n /\ Kept(p.s, Plus(h, n)) /\ Keeps(s, p.s)
           /\ SameLink(p.s.node[n], [v |-> v, t |-> T1, e |-> E1])
  BY <1>3, <1>4, <1>5, <1>6, PickedNode
<1> DEFINE q == Negate(p, b)
           o == p.s
<1>8. q.s = o /\ q.r = SetNeg(2 * n, b)  BY <1>7 DEF Negate, Pair
<1> HIDE DEF q, b
<1>9. /\ Diagram(o) /\ IsStore(o) /\ n \in DOMAIN o.node /\ n \in Nat
      /\ o.node[n].v = v /\ o.node[n].t = T1 /\ o.node[n].e = E1
  BY <1>7 DEF Kept, Diagram, IsStore, Nodes, SameLink
<1>10. 2 * n \in Edge /\ Ptr(2 * n) = n /\ ~Neg(2 * n)  BY <1>9, EdgeFacts
<1>11. q.r \in Edge /\ Ptr(q.r) = n  BY <1>2, <1>8, <1>10, SetNegFacts
<1>12. ASSUME NEW x, NEW I, NEW J, Reads(s.node, Nodes(s), x, I),
              Reads(o.node, Nodes(o), x, J)
       PROVE  /\ Agree(DOMAIN s.node, I, J)
              /\ Holds(J, q.r) <=> IF v \in x THEN Holds(I, T) ELSE Holds(I, E)
  <2>1. /\ Diagram(s) /\ DOMAIN s.node \subseteq DOMAIN o.node
        /\ \A m \in DOMAIN s.node : SameLink(o.node[m], s.node[m])
    BY <1>7 DEF Kept, Keeps
  <2> HIDE DEF o
  <2>2. Agree(DOMAIN s.node, I, J)  BY <1>9, <1>12, <2>1, ReadOn
  <2>3. n \in J <=> IF v \in x THEN Holds(I, T1) ELSE Holds(I, E1)
    <3>1. Kids(o.node, n) = {Ptr(T1), Ptr(E1)}  BY <1>9 DEF Kids
    <3>2. Kids(o.node, n) \subseteq DOMAIN s.node  BY <1>1, <1>3, <3>1
    <3>3. n \in Nodes(o)  BY <1>7 DEF o
    <3>4. n \in J <=> Holds(I, Chosen(o.node, n, x))
      BY <1>9, <1>12, <2>1, <3>2, <3>3, NodeMeans
    <3> QED BY <1>9, <3>4 DEF Chosen
  <2>4. 0 \in I /\ 0 \in J  BY <1>12 DEF Reads
  <2>5. Holds(J, q.r) <=> (n \in J <=> ~b)
    <3>1. Holds(J, SetNeg(2 * n, b)) <=> (Holds(J, 2 * n) <=> ~b)
      BY <1>2, <1>10, <2>4, HoldsFacts
    <3>2. Holds(J, 2 * n) <=> n \in J  BY <1>10 DEF Holds
    <3> QED BY <1>8, <3>1, <3>2
  <2>6. Holds(I, E1) <=> (Holds(I, E) <=> ~b)
    BY <1>1, <1>2, <2>4, HoldsFacts DEF E1
  <2>7. Holds(I, T) <=> (Holds(I, T1) <=> ~b)
    <3>1. Holds(I, SetNeg(T1, b)) <=> (Holds(I, T1) <=> ~b)
      BY <1>2, <1>3, <2>4, HoldsFacts
    <3> QED BY <1>3, <3>1
  <2> QED BY <2>2, <2>3, <2>5, <2>6, <2>7
<1>13. Kept(q.s, Plus(h, Ptr(q.r))) /\ Keeps(s, q.s)  BY <1>7, <1>8, <1>11
<1>14. SameLink(q.s.node[Ptr(q.r)], [v |-> v, t |-> T1, e |-> E1])
  BY <1>7, <1>8, <1>11
<1>15. Constructs(s, h, v, T, E, q)
  BY <1>8, <1>9, <1>11, <1>12, <1>13, <1>14 DEF Constructs, T1, E1, b
<1> QED BY <1>15 DEF q, b
------------------------------------------------------------------------------
(* The cofactors of a triple: where bdd_ite_aux recurs.                     *)

(* EXP_POS2_F and EXP_NEG2_F give the cofactors by the variable of rank r, *)
(* of an edge that is not above it.                                        *)
LEMMA Expanded ==
  ASSUME NEW s, Diagram(s), NEW v \in DOMAIN s.rank,
         NEW e \in Edge, Ptr(e) \in DOMAIN s.node, s.rank[v] <= Rank(s, e)
  PROVE  /\ ExpPos(s, e, s.rank[v]) = CornerT(s.node, e, v)
         /\ ExpNeg(s, e, s.rank[v]) = CornerE(s.node, e, v)
<1> DEFINE k == Ptr(e)
           r == s.rank[v]
<1>1. /\ TERMID \in Nat /\ s.node[0].v = TERMID /\ v # TERMID /\ r \in Int /\ r < TERMID
  BY Ranked
<1>2. Rank(s, e) = NodeRank(s, k) /\ NodeRank(s, k) \in Int
  BY RankFalls DEF Rank, NodeRank, VarId, At
<1>3. e # VOID  BY EdgeFacts DEF VOID
<1>4. CASE k = 0
  <2>1. s.node[k].v # v  BY <1>1, <1>4
  <2>2. ExpPos(s, e, r) = e /\ ExpNeg(s, e, r) = e
    BY <1>3, <1>4 DEF ExpPos, ExpNeg, CofactorPos, CofactorNeg, Term
  <2> QED BY <2>1, <2>2 DEF CornerT, CornerE
<1>5. CASE k # 0
  <2>1. s.node[k].v \in DOMAIN s.rank  BY <1>5 DEF Diagram, Nodes
  <2>2. s.node[k].v # TERMID  BY <2>1, Ranked
  <2>3. NodeRank(s, k) = s.rank[s.node[k].v]  BY <2>2 DEF NodeRank, VarRank
  <2>4. r < Rank(s, e) <=> s.node[k].v # v
    <3>1. \A u \in DOMAIN s.rank : s.space[s.rank[u]] = u  BY Ranked
    <3>2. Rank(s, e) = r <=> s.node[k].v = v  BY <1>2, <2>1, <2>3, <3>1
    <3> QED BY <1>1, <1>2, <3>2
  <2>5. /\ CofactorPos(s, e) = SetNeg(s.node[k].t, Neg(e))
        /\ CofactorNeg(s, e) = SetNeg(s.node[k].e, Neg(e))
    BY <1>3, <1>5 DEF CofactorPos, CofactorNeg, Term, At
  <2> QED BY <2>4, <2>5 DEF ExpPos, ExpNeg, CornerT, CornerE
<1> QED BY <1>4, <1>5

(* The cofactors of an edge that is in use are.                            *)
LEMMA CornersInUse ==
  ASSUME NEW s, NEW h, Kept(s, h), NEW v \in DOMAIN s.rank, NEW e, InUse(s, e)
  PROVE  InUse(s, CornerT(s.node, e, v)) /\ InUse(s, CornerE(s.node, e, v))
<1> DEFINE k == Ptr(e)
<1>1. Diagram(s) /\ Stage(s, Live(s), h) /\ e \in Edge /\ k \in Live(s) \cup {0}
  BY DEF Kept, InUse
<1>2. CASE s.node[k].v # v  BY <1>2 DEF CornerT, CornerE
<1>3. CASE s.node[k].v = v
  <2> DEFINE t == s.node[k].t  u == s.node[k].e
  <2>1. v # TERMID /\ s.node[0].v = TERMID  BY <1>1, Ranked
  <2>2. k \in Live(s)  BY <1>1, <1>3, <2>1
  <2>3. /\ t \in Edge /\ Ptr(t) \in DOMAIN s.node /\ u \in Edge /\ Ptr(u) \in DOMAIN s.node
    BY <1>1, <2>2 DEF Stage, Linked
  <2>4. s.node[Ptr(t)].ref > 0 /\ s.node[Ptr(u)].ref > 0
    BY <1>1, <2>2, StageFacts
  <2>5. CornerT(s.node, e, v) = SetNeg(t, Neg(e)) /\ CornerE(s.node, e, v) = SetNeg(u, Neg(e))
    BY <1>3 DEF CornerT, CornerE
  <2> HIDE DEF t, u
  <2>6. Neg(e) \in BOOLEAN  BY <1>1, EdgeFacts
  <2>7. /\ SetNeg(t, Neg(e)) \in Edge /\ Ptr(SetNeg(t, Neg(e))) = Ptr(t)
        /\ SetNeg(u, Neg(e)) \in Edge /\ Ptr(SetNeg(u, Neg(e))) = Ptr(u)
    BY <2>3, <2>6, SetNegFacts
  <2> QED BY <2>3, <2>4, <2>5, <2>7 DEF InUse, Live, Nodes
<1> QED BY <1>2, <1>3

(* The topmost of three ranks is one of them, and none is above it.        *)
LEMMA TopOfThree ==
  ASSUME NEW s, NEW a, NEW b, NEW c,
         Rank(s, a) \in Int, Rank(s, b) \in Int, Rank(s, c) \in Int
  PROVE  LET r == TopRank(s, {a, b, c})
         IN /\ r \in {Rank(s, a), Rank(s, b), Rank(s, c)}
            /\ r <= Rank(s, a) /\ r <= Rank(s, b) /\ r <= Rank(s, c)
<1> DEFINE ranks == {Rank(s, e) : e \in {a, b, c}}
           Least(r) == r \in ranks /\ \A q \in ranks : r <= q
<1>1. ranks = {Rank(s, a), Rank(s, b), Rank(s, c)}  OBVIOUS
<1>2. TopRank(s, {a, b, c}) = CHOOSE r \in ranks : \A q \in ranks : r <= q
  BY DEF TopRank
<1>3. \E r \in ranks : \A q \in ranks : r <= q
  <2> HIDE DEF ranks
  <2>1. CASE Rank(s, a) <= Rank(s, b) /\ Rank(s, a) <= Rank(s, c)
    <3>1. \A q \in ranks : Rank(s, a) <= q  BY <1>1, <2>1
    <3> QED BY <1>1, <3>1
  <2>2. CASE Rank(s, b) <= Rank(s, a) /\ Rank(s, b) <= Rank(s, c)
    <3>1. \A q \in ranks : Rank(s, b) <= q  BY <1>1, <2>2
    <3> QED BY <1>1, <3>1
  <2>3. CASE Rank(s, c) <= Rank(s, a) /\ Rank(s, c) <= Rank(s, b)
    <3>1. \A q \in ranks : Rank(s, c) <= q  BY <1>1, <2>3
    <3> QED BY <1>1, <3>1
  <2> QED BY <2>1, <2>2, <2>3
<1> HIDE DEF ranks
<1> DEFINE r == TopRank(s, {a, b, c})
<1>4. r \in ranks /\ \A q \in ranks : r <= q  BY <1>2, <1>3
<1> HIDE DEF r
<1>5. /\ r \in {Rank(s, a), Rank(s, b), Rank(s, c)}
      /\ r <= Rank(s, a) /\ r <= Rank(s, b) /\ r <= Rank(s, c)
  BY <1>1, <1>4
<1> QED BY <1>5 DEF r

(* The three edges of a triple are in use.                                 *)
TripleInUse(s, y) == InUse(s, y.f) /\ InUse(s, y.g) /\ InUse(s, y.h)

(* All three edges are below the rank of v and in use.                     *)
TripleBelow(s, v, y) == Branchable(s, v, y.f) /\ Branchable(s, v, y.g) /\ Branchable(s, v, y.h)

(* What the two recursive calls get, and what is to be made of their       *)
(* results.                                                                *)
SplitAt(s, y, r, v) ==
  /\ v \in DOMAIN s.rank /\ s.rank[v] = r
  /\ TripleBelow(s, v, PosTriple(s, y, r)) /\ TripleBelow(s, v, NegTriple(s, y, r))
  /\ \A x, I : Reads(s.node, Nodes(s), x, I) =>
       (Means(I, y) <=> IF v \in x THEN Means(I, PosTriple(s, y, r))
                                   ELSE Means(I, NegTriple(s, y, r)))

(* One edge of the triple.                                                 *)
LEMMA EdgeSplit ==
  ASSUME NEW s, NEW h, Kept(s, h), NEW v \in DOMAIN s.rank, NEW e, InUse(s, e),
         s.rank[v] <= Rank(s, e)
  PROVE  /\ Branchable(s, v, ExpPos(s, e, s.rank[v]))
         /\ Branchable(s, v, ExpNeg(s, e, s.rank[v]))
         /\ \A x, I : Reads(s.node, Nodes(s), x, I) =>
              /\ v \in x => (Holds(I, e) <=> Holds(I, ExpPos(s, e, s.rank[v])))
              /\ v \notin x => (Holds(I, e) <=> Holds(I, ExpNeg(s, e, s.rank[v])))
<1>1. Diagram(s) /\ e \in Edge /\ Ptr(e) \in DOMAIN s.node
  BY DEF Kept, InUse, Live, Nodes, Diagram, IsStore
<1>2. /\ ExpPos(s, e, s.rank[v]) = CornerT(s.node, e, v)
      /\ ExpNeg(s, e, s.rank[v]) = CornerE(s.node, e, v)
  BY <1>1, Expanded
<1>3. NodeRank(s, Ptr(e)) >= s.rank[v]
  <2>1. Rank(s, e) = NodeRank(s, Ptr(e))  BY DEF Rank, NodeRank, VarId, At
  <2>2. NodeRank(s, Ptr(e)) \in Int /\ s.rank[v] \in Int
    <3>1. TERMID \in Nat  BY DEF TERMID
    <3> QED BY <1>1, <3>1, RankFalls, Ranked
  <2> QED BY <2>1, <2>2
<1>4. Deeper(s, CornerT(s.node, e, v), v) /\ Deeper(s, CornerE(s.node, e, v), v)
  BY <1>1, <1>3, CornersDeeper
<1>5. InUse(s, CornerT(s.node, e, v)) /\ InUse(s, CornerE(s.node, e, v))
  BY CornersInUse
<1>6. ASSUME NEW x, NEW I, Reads(s.node, Nodes(s), x, I)
      PROVE  /\ v \in x => (Holds(I, e) <=> Holds(I, CornerT(s.node, e, v)))
             /\ v \notin x => (Holds(I, e) <=> Holds(I, CornerE(s.node, e, v)))
  BY <1>1, <1>6, CornerReads
<1> QED BY <1>2, <1>4, <1>5, <1>6 DEF Branchable

(* bdd_ite_aux, past its trivial cases: the topmost rank of the three      *)
(* arguments is that of a variable; the arguments of the two recursive     *)
(* calls are in use and below that rank, as bdd_create_node asks of what   *)
(* they return, and the two functions are the cofactors of the one asked   *)
(* for.                                                                    *)
THEOREM IteSplits ==
  ASSUME NEW s, NEW h, Kept(s, h), NEW y, IsTriple(y), TripleInUse(s, y), ~Term(y.f)
  PROVE  LET r == TopRank(s, {y.f, y.g, y.h})
         IN SplitAt(s, y, r, s.space[r])
<1> DEFINE r == TopRank(s, {y.f, y.g, y.h})
           v == s.space[r]
           P == PosTriple(s, y, r)
           N == NegTriple(s, y, r)
<1>1. /\ Diagram(s) /\ Ranking(s) /\ y.f \in Edge /\ y.g \in Edge /\ y.h \in Edge
      /\ Ptr(y.f) \in Nodes(s) /\ Ptr(y.g) \in DOMAIN s.node /\ Ptr(y.h) \in DOMAIN s.node
  BY DEF Kept, TripleInUse, InUse, Live, Nodes, Diagram, IsStore, Term
<1>2. TERMID \in Nat  BY DEF TERMID
<1>3. \A e \in Edge : Rank(s, e) = NodeRank(s, Ptr(e))
  BY DEF Rank, NodeRank, VarId, At
<1>4. /\ Rank(s, y.f) \in 0 .. TERMID - 1
      /\ Rank(s, y.g) \in 0 .. TERMID /\ Rank(s, y.h) \in 0 .. TERMID
  BY <1>1, <1>3, RankFalls
<1>5. /\ r \in {Rank(s, y.f), Rank(s, y.g), Rank(s, y.h)}
      /\ r <= Rank(s, y.f) /\ r <= Rank(s, y.g) /\ r <= Rank(s, y.h)
  BY <1>2, <1>4, TopOfThree
<1> HIDE DEF r
<1>6. ASSUME NEW e \in {y.f, y.g, y.h}, Rank(s, e) = r
      PROVE  r \in DOMAIN s.space
  <2>1. Ptr(e) # 0
    <3>1. NodeRank(s, 0) = TERMID  BY <1>1 DEF Diagram, NodeRank, VarRank
    <3> QED BY <1>1, <1>2, <1>3, <1>4, <1>5, <1>6, <3>1
  <2>2. s.node[Ptr(e)].v \in DOMAIN s.rank  BY <1>1, <1>6, <2>1 DEF Diagram, Nodes
  <2>3. s.node[Ptr(e)].v # TERMID  BY <1>1, <2>2, Ranked
  <2>4. NodeRank(s, Ptr(e)) = s.rank[s.node[Ptr(e)].v]  BY <2>3 DEF NodeRank, VarRank
  <2> QED BY <1>1, <1>3, <1>6, <2>2, <2>4 DEF Ranking
<1>7. r \in DOMAIN s.space  BY <1>5, <1>6
<1>8. v \in DOMAIN s.rank /\ s.rank[v] = r  BY <1>1, <1>7 DEF Ranking
<1> HIDE DEF v
<1>9. ASSUME NEW e \in {y.f, y.g, y.h}
      PROVE  /\ Branchable(s, v, ExpPos(s, e, r)) /\ Branchable(s, v, ExpNeg(s, e, r))
             /\ \A x, I : Reads(s.node, Nodes(s), x, I) =>
                  /\ v \in x => (Holds(I, e) <=> Holds(I, ExpPos(s, e, r)))
                  /\ v \notin x => (Holds(I, e) <=> Holds(I, ExpNeg(s, e, r)))
  <2>1. InUse(s, e) /\ r <= Rank(s, e)  BY <1>5 DEF TripleInUse
  <2> QED BY <1>8, <2>1, EdgeSplit
<1>10. /\ P.f = ExpPos(s, y.f, r) /\ P.g = ExpPos(s, y.g, r) /\ P.h = ExpPos(s, y.h, r)
       /\ N.f = ExpNeg(s, y.f, r) /\ N.g = ExpNeg(s, y.g, r) /\ N.h = ExpNeg(s, y.h, r)
  BY DEF PosTriple, NegTriple, Triple
<1> HIDE DEF P, N
<1>11. TripleBelow(s, v, P) /\ TripleBelow(s, v, N)  BY <1>9, <1>10 DEF TripleBelow
<1>12. ASSUME NEW x, NEW I, Reads(s.node, Nodes(s), x, I)
       PROVE  Means(I, y) <=> IF v \in x THEN Means(I, P) ELSE Means(I, N)
  <2>1. CASE v \in x
    <3>1. /\ Holds(I, y.f) <=> Holds(I, P.f)
          /\ Holds(I, y.g) <=> Holds(I, P.g)
          /\ Holds(I, y.h) <=> Holds(I, P.h)
      BY <1>9, <1>10, <1>12, <2>1
    <3> QED BY <2>1, <3>1 DEF Means
  <2>2. CASE v \notin x
    <3>1. /\ Holds(I, y.f) <=> Holds(I, N.f)
          /\ Holds(I, y.g) <=> Holds(I, N.g)
          /\ Holds(I, y.h) <=> Holds(I, N.h)
      BY <1>9, <1>10, <1>12, <2>2
    <3> QED BY <2>2, <3>1 DEF Means
  <2> QED BY <2>1, <2>2
<1>13. SplitAt(s, y, r, v)  BY <1>8, <1>11, <1>12 DEF SplitAt, P, N
<1> QED BY <1>13 DEF v, r

(* Its shortcut: when the first argument is a variable above the two       *)
(* others, no recursion is needed, the node of the two is the result.      *)
THEOREM ProjectionSplits ==
  ASSUME NEW s, NEW h, Kept(s, h), NEW y, IsTriple(y), TripleInUse(s, y), ~Term(y.f),
         ~Neg(y.f), ProjectionOf(s, y)
  PROVE  LET v == s.space[TopRank(s, {y.f, y.g, y.h})]
         IN /\ v \in DOMAIN s.rank /\ Branchable(s, v, y.g) /\ Branchable(s, v, y.h)
            /\ \A x, I : Reads(s.node, Nodes(s), x, I) =>
                 (Means(I, y) <=> IF v \in x THEN Holds(I, y.g) ELSE Holds(I, y.h))
<1> DEFINE r == TopRank(s, {y.f, y.g, y.h})
           v == s.space[r]
           k == Ptr(y.f)
<1>1. /\ Diagram(s) /\ y.f \in Edge /\ y.g \in Edge /\ y.h \in Edge
      /\ k \in Nodes(s) /\ Ptr(y.g) \in DOMAIN s.node /\ Ptr(y.h) \in DOMAIN s.node
  BY DEF Kept, TripleInUse, InUse, Live, Nodes, Diagram, IsStore, Term
<1>2. TERMID \in Nat  BY DEF TERMID
<1>3. \A e \in Edge : Rank(s, e) = NodeRank(s, Ptr(e))
  BY DEF Rank, NodeRank, VarId, At
<1>4. /\ Rank(s, y.f) \in 0 .. TERMID - 1
      /\ Rank(s, y.g) \in 0 .. TERMID /\ Rank(s, y.h) \in 0 .. TERMID
  BY <1>1, <1>3, RankFalls
<1>5. /\ s.node[k].t = BDD_1 /\ s.node[k].e = BDD_0
      /\ Rank(s, y.f) < Rank(s, y.g) /\ Rank(s, y.f) < Rank(s, y.h)
  BY DEF ProjectionOf, At
<1>6. r = Rank(s, y.f)
  <2>1. /\ r \in {Rank(s, y.f), Rank(s, y.g), Rank(s, y.h)} /\ r <= Rank(s, y.f)
    BY <1>2, <1>4, TopOfThree
  <2> HIDE DEF r
  <2> QED BY <1>2, <1>4, <1>5, <2>1
<1>7. s.node[k].v \in DOMAIN s.rank  BY <1>1 DEF Diagram
<1>8. r = s.rank[s.node[k].v]
  <2>1. s.node[k].v # TERMID  BY <1>1, <1>7, Ranked
  <2> QED BY <1>1, <1>3, <1>6, <2>1 DEF NodeRank, VarRank
<1>9. v = s.node[k].v
  <2>1. s.space[s.rank[s.node[k].v]] = s.node[k].v  BY <1>1, <1>7, Ranked
  <2> QED BY <1>8, <2>1
<1> HIDE DEF v, r
<1>10. v \in DOMAIN s.rank /\ s.rank[v] = r  BY <1>7, <1>8, <1>9
<1>11. Branchable(s, v, y.g) /\ Branchable(s, v, y.h)
  <2>1. NodeRank(s, Ptr(y.g)) > s.rank[v] /\ NodeRank(s, Ptr(y.h)) > s.rank[v]
    BY <1>1, <1>2, <1>3, <1>4, <1>5, <1>6, <1>10
  <2> QED BY <1>1, <2>1 DEF Branchable, Deeper, TripleInUse
<1>12. ASSUME NEW x, NEW I, Reads(s.node, Nodes(s), x, I)
       PROVE  Means(I, y) <=> IF v \in x THEN Holds(I, y.g) ELSE Holds(I, y.h)
  <2>1. 0 \in I /\ (k \in I <=> Holds(I, Chosen(s.node, k, x)))
    BY <1>1, <1>12 DEF Reads
  <2>2. Holds(I, BDD_1) /\ ~Holds(I, BDD_0)  BY <2>1, HoldsFacts
  <2>3. k \in I <=> v \in x  BY <1>5, <1>9, <2>1, <2>2 DEF Chosen
  <2>4. Holds(I, y.f) <=> k \in I  BY <1>1, <2>1, HoldsFacts
  <2> QED BY <2>3, <2>4 DEF Means
<1> QED BY <1>10, <1>11, <1>12 DEF v, r
------------------------------------------------------------------------------
(* A call of bdd_ite_aux, given what its recursive calls return.            *)

(* All that is in use in s is in use in q, where it was.                   *)
Follows(s, q) ==
  /\ SameOrder(s, q) /\ Live(s) \subseteq Live(q)
  /\ \A m \in Live(s) : SameLink(q.node[m], s.node[m])

LEMMA FollowsChain ==
  ASSUME NEW s, NEW q, NEW p, Follows(s, q), Follows(q, p)
  PROVE  Follows(s, p)
BY DEF Follows, SameOrder, SameLink

(* So what is kept is kept in use.                                         *)
LEMMA KeepsFollows ==
  ASSUME NEW s, IsStore(s), NEW q, IsStore(q), Keeps(s, q)
  PROVE  Follows(s, q)
<1>1. /\ \A m \in DOMAIN s.node : s.node[m].ref \in Int
      /\ \A m \in DOMAIN q.node : q.node[m].ref \in Int
  <2>1. MaxRef \in Nat  BY StoreConstants DEF StoreConstants
  <2> QED BY <2>1 DEF IsStore, Node
<1>2. \A m \in Live(s) : m \in DOMAIN s.node /\ m # 0 /\ s.node[m].ref > 0
  BY DEF Live, Nodes
<1>3. Live(s) \subseteq Live(q)  BY <1>1, <1>2 DEF Keeps, Live, Nodes
<1> QED BY <1>2, <1>3 DEF Keeps, Follows

(* An edge in use stays in use, with its rank.                             *)
LEMMA FollowsBelow ==
  ASSUME NEW s, NEW h, Kept(s, h), NEW q, NEW g, Kept(q, g), Follows(s, q),
         NEW e, InUse(s, e)
  PROVE  /\ InUse(q, e) /\ Ptr(e) \in DOMAIN q.node
         /\ \A v : Branchable(s, v, e) => Branchable(q, v, e)
<1> DEFINE k == Ptr(e)
<1>1. InUse(q, e) /\ k \in Live(s) \cup {0}  BY DEF InUse, Follows
<1>2. /\ 0 \in DOMAIN q.node /\ s.node[0].v = TERMID /\ q.node[0].v = TERMID
      /\ q.rank = s.rank
  BY DEF Kept, Diagram, IsStore, Follows, SameOrder
<1>3. k \in DOMAIN q.node  BY <1>1, <1>2 DEF InUse, Live, Nodes
<1>4. q.node[k].v = s.node[k].v  BY <1>1, <1>2 DEF Follows, SameLink
<1>5. NodeRank(q, k) = NodeRank(s, k)  BY <1>2, <1>4 DEF NodeRank, VarRank
<1> QED BY <1>1, <1>2, <1>3, <1>5 DEF Branchable, Deeper

(* What is in use reads the same.                                          *)
LEMMA FollowsReads ==
  ASSUME NEW s, NEW h, Kept(s, h), NEW q, NEW g, Kept(q, g), Follows(s, q),
         NEW x, NEW I, NEW J, Reads(s.node, Nodes(s), x, I), Reads(q.node, Nodes(q), x, J)
  PROVE  \A e : InUse(s, e) => (Holds(J, e) <=> Holds(I, e))
<1> DEFINE c == Sweep(s)
<1>1. Collects(s, h, c) /\ SweepFields(s, c)  BY SweepKeeps, Swept DEF Kept
<1> HIDE DEF c
<1>2. Diagram(c) /\ DOMAIN c.node = Live(s) \cup {0}
  BY <1>1 DEF Collects, WellKept, SweepFields
<1>3. Live(s) \subseteq Nodes(s) /\ Live(s) \subseteq Nodes(q)
  BY DEF Live, Follows
<1>4. Reads(s.node, Live(s), x, I)  BY <1>3 DEF Reads
<1>5. \A k \in Live(s) : Chosen(q.node, k, x) = Chosen(s.node, k, x)
  BY DEF Follows, SameLink, Chosen
<1>6. Reads(s.node, Live(s), x, J)  BY <1>3, <1>5 DEF Reads
<1>7. Reads(c.node, Nodes(c), x, I) /\ Reads(c.node, Nodes(c), x, J)
  BY <1>1, <1>4, <1>6 DEF Collects
<1>8. Agree(DOMAIN c.node, I, J)  BY <1>2, <1>7, ReadingUnique
<1> QED BY <1>2, <1>8, HoldsSame DEF InUse

(* What bdd_create_node may do once it has the node, while the cache of    *)
(* cubes is empty: collect the dead, and make tables larger.               *)
Tidied(s, q) == SameStore(s, q) \/ SameStore(Sweep(s), q)

LEMMA SameStoreKept ==
  ASSUME NEW s, NEW h, Kept(s, h), NEW q, SameStore(s, q)
  PROVE  Kept(q, h) /\ Live(q) = Live(s)
<1>1. Stage(s, Live(s), h) /\ Diagram(s) /\ IsStore(s)  BY DEF Kept, Stage
<1>2. /\ q.node = s.node /\ q.dead = s.dead /\ q.frozen = s.frozen
      /\ DOMAIN q = DOMAIN s /\ q.space = s.space /\ q.rank = s.rank
  BY DEF SameStore, SameOrder
<1>3. IsStore(q)  BY <1>1, <1>2 DEF IsStore
<1>4. Nodes(q) = Nodes(s) /\ Live(q) = Live(s)  BY <1>2 DEF Nodes, Live
<1>5. Stage(q, Live(q), h)  BY <1>1, <1>2, <1>3, <1>4 DEF Stage, Counted
<1>6. SameLinks(s, q)  BY <1>2 DEF SameLinks, SameOrder, SameLink
<1>7. Diagram(q)  BY <1>1, <1>3, <1>6, DiagramSame
<1> QED BY <1>4, <1>5, <1>7 DEF Kept

LEMMA TidiedKept ==
  ASSUME NEW s, NEW h, Kept(s, h), NEW q, Tidied(s, q)
  PROVE  Kept(q, h) /\ Follows(s, q)
<1>1. CASE SameStore(s, q)
  <2>1. Kept(q, h) /\ Live(q) = Live(s)  BY <1>1, SameStoreKept
  <2> QED BY <1>1, <2>1 DEF Follows, SameStore, SameLink
<1>2. CASE SameStore(Sweep(s), q)
  <2> DEFINE c == Sweep(s)
             L == Live(s)
  <2>1. Collects(s, h, c) /\ SweepFields(s, c)  BY SweepKeeps, Swept DEF Kept
  <2>2. SameStore(c, q)  BY <1>2
  <2> HIDE DEF c
  <2>3. c.node = [k \in L \cup {0} |-> s.node[k]]  BY <2>1 DEF SweepFields
  <2>4. /\ DOMAIN c.node = L \cup {0} /\ \A k \in L : c.node[k] = s.node[k]
        /\ 0 \notin L /\ \A k \in L : s.node[k].ref > 0
    BY <2>3 DEF Live, Nodes
  <2>5. Live(c) = L /\ Nodes(c) = L
    <3> HIDE DEF L
    <3> QED BY <2>4 DEF Live, Nodes
  <2>6. Kept(c, h)  BY <2>1, <2>5 DEF Collects, WellKept, Kept
  <2>7. Kept(q, h) /\ Live(q) = Live(c)  BY <2>2, <2>6, SameStoreKept
  <2>8. SameOrder(s, q)  BY <2>1, <2>2 DEF Collects, SameStore, SameOrder
  <2>9. \A k \in L : q.node[k] = s.node[k]  BY <2>2, <2>4 DEF SameStore
  <2> QED BY <2>5, <2>7, <2>8, <2>9 DEF Follows, SameLink
<1> QED BY <1>1, <1>2 DEF Tidied

(* A reference that is not the last to its node is given up: bdd_free goes *)
(* no further.                                                             *)
LEMMA Release ==
  ASSUME NEW s, NEW h, Kept(s, h), NEW e \in Edge, h[Ptr(e)] > 0,
         Less(h, Ptr(e))[Ptr(e)] > 0 \/ \E n \in Live(s) : Ptr(e) \in Kids(s.node, n)
  PROVE  /\ Kept(DecrRef(s, e), Less(h, Ptr(e))) /\ Follows(s, DecrRef(s, e))
         /\ ~Dead(DecrRef(s, e), e)
<1> DEFINE q == DecrRef(s, e)
           k == Ptr(e)
           g == Less(h, k)
           L == Live(s)
<1>1. Stage(s, L, h) /\ Diagram(s)  BY DEF Kept
<1>2. k \in Nat /\ k \in DOMAIN s.node /\ s.node[k].ref > 0  BY EdgeFacts, HeldInUse
<1>3. /\ Stage(q, L, g) /\ SameLinks(s, q)
      /\ \A m \in DOMAIN s.node \ {k} : q.node[m].ref = s.node[m].ref
  BY <1>1, <1>2, DecrStage
<1>4. g[k] > 0 \/ \E n \in L : k \in Kids(s.node, n)  OBVIOUS
<1> HIDE DEF q, g, L
<1>5. IsStore(q) /\ DOMAIN q.node = DOMAIN s.node  BY <1>3 DEF Stage, SameLinks
<1>6. Diagram(q)  BY <1>1, <1>3, <1>5, DiagramSame
<1>7. q.node[k].ref > 0
  <2>1. CASE g[k] > 0
    <3>1. /\ g[k] \in Nat /\ Uses(q.node, L, k) \in Nat
          /\ q.node[k].ref = MaxRef \/ q.node[k].ref = g[k] + Uses(q.node, L, k)
      BY <1>2, <1>3, <1>5, StageFacts
    <3>2. MaxRef \in Nat \ {0, 1}  BY StoreConstants DEF StoreConstants
    <3> QED BY <2>1, <3>1, <3>2
  <2>2. CASE \E n \in L : k \in Kids(s.node, n)
    <3>1. PICK n \in L : k \in Kids(s.node, n)  BY <2>2
    <3>2. n \in DOMAIN s.node  BY DEF L, Live, Nodes
    <3>3. q.node[n].t = s.node[n].t /\ q.node[n].e = s.node[n].e
      BY <1>3, <3>2 DEF SameLinks, SameLink
    <3>4. q.node[Ptr(q.node[n].t)].ref > 0 /\ q.node[Ptr(q.node[n].e)].ref > 0
      BY <1>3, StageFacts
    <3> QED BY <3>1, <3>3, <3>4 DEF Kids
  <2> QED BY <1>4, <2>1, <2>2
<1>8. Live(q) = L  BY <1>2, <1>3, <1>5, <1>7 DEF L, Live, Nodes
<1>9. Kept(q, g)  BY <1>3, <1>6, <1>8 DEF Kept
<1>10. Follows(s, q)
  <2>1. L \subseteq DOMAIN s.node  BY DEF L, Live, Nodes
  <2> QED BY <1>3, <1>8, <2>1 DEF Follows, SameLinks, L
<1>11. ~Dead(q, e)  BY <1>7 DEF Dead, Ref, At
<1> QED BY <1>9, <1>10, <1>11 DEF q, g

(* One more reference to an edge in use.                                   *)
LEMMA AssignKept ==
  ASSUME NEW s, NEW h, Kept(s, h), NEW e, InUse(s, e)
  PROVE  /\ Assign(s, e).r = e /\ Kept(Assign(s, e).s, Plus(h, Ptr(e)))
         /\ Follows(s, Assign(s, e).s)
<1> DEFINE q == IncrRef(s, e)
           k == Ptr(e)
           L == Live(s)
<1>1. Stage(s, L, h) /\ Diagram(s) /\ IsStore(s)  BY DEF Kept, Stage
<1>2. e \in Edge /\ k \in L \cup {0} /\ k \in DOMAIN s.node
  BY <1>1 DEF InUse, Live, Nodes, IsStore
<1>3. /\ Stage(q, L, Plus(h, k)) /\ SameLinks(s, q)
      /\ \A m \in DOMAIN s.node : q.node[m].ref >= s.node[m].ref
      /\ \A m \in DOMAIN s.node \ {k} : q.node[m].ref = s.node[m].ref
      /\ q.node[k].ref > 0
  BY <1>1, <1>2, IncrStage
<1>4. Assign(s, e).r = e /\ Assign(s, e).s = q  BY DEF Assign, Pair
<1> HIDE DEF q, L
<1>5. IsStore(q) /\ DOMAIN q.node = DOMAIN s.node  BY <1>3 DEF Stage, SameLinks
<1>6. Diagram(q)  BY <1>1, <1>3, <1>5, DiagramSame
<1>7. Live(q) = L  BY <1>2, <1>3, <1>5 DEF L, Live, Nodes
<1>8. Kept(q, Plus(h, k))  BY <1>3, <1>6, <1>7 DEF Kept
<1>9. Follows(s, q)
  <2>1. L \subseteq DOMAIN s.node  BY DEF L, Live, Nodes
  <2> QED BY <1>3, <1>7, <2>1 DEF Follows, SameLinks, L
<1> QED BY <1>4, <1>8, <1>9

(* What the client of a store with references h gets: an edge of its own,  *)
(* in a store that is kept, with all that was in use where it was.         *)
Owned(s, h, o) ==
  o.r \in Edge /\ Kept(o.s, Plus(h, Ptr(o.r))) /\ Follows(s, o.s)

(* It is in use.                                                           *)
LEMMA OwnedInUse ==
  ASSUME NEW s, NEW h, Kept(s, h), NEW o, Owned(s, h, o)
  PROVE  InUse(o.s, o.r) /\ Ptr(o.r) \in DOMAIN o.s.node
<1>1. o.r \in Edge /\ Ptr(o.r) \in Nat /\ Kept(o.s, Plus(h, Ptr(o.r)))
  BY EdgeFacts DEF Owned
<1>2. h \in [Nat -> Nat]  BY DEF Kept, Stage
<1>3. Plus(h, Ptr(o.r))[Ptr(o.r)] = h[Ptr(o.r)] + 1  BY <1>1, <1>2, PlusFacts
<1>4. Plus(h, Ptr(o.r))[Ptr(o.r)] > 0  BY <1>1, <1>2, <1>3
<1>5. Ptr(o.r) \in DOMAIN o.s.node /\ o.s.node[Ptr(o.r)].ref > 0
  BY <1>1, <1>4, HeldInUse
<1> QED BY <1>1, <1>5 DEF InUse, Live, Nodes

(* What bdd_create_node returns: one of two equal edges, or the node of    *)
(* two different ones, after which it may tidy up.                         *)
NodeFor(s, v, T, E, o) ==
  IF T = E THEN o = Assign(s, T)
  ELSE \E p \in Picked(s, v, Pos(T), SetNeg(E, Neg(T))) :
         o.r = SetNeg(p.r, Neg(T)) /\ Tidied(p.s, o.s)

(* It owns the branch on v; the edge is T, or to a node that uses both.    *)
Joins(s, h, v, T, E, o) ==
  /\ Owned(s, h, o)
  /\ (o.r = T /\ T = E)
     \/ (Ptr(o.r) \in Live(o.s) /\ o.s.node[Ptr(o.r)].v = v
         /\ {Ptr(T), Ptr(E)} \subseteq Kids(o.s.node, Ptr(o.r)))
  /\ \A x, I, J : Reads(s.node, Nodes(s), x, I) /\ Reads(o.s.node, Nodes(o.s), x, J) =>
       (Holds(J, o.r) <=> IF v \in x THEN Holds(I, T) ELSE Holds(I, E))

LEMMA NodeJoins ==
  ASSUME NEW s, NEW h, Kept(s, h), NEW v \in DOMAIN s.rank,
         NEW T, Branchable(s, v, T), NEW E, Branchable(s, v, E),
         NEW o, NodeFor(s, v, T, E, o)
  PROVE  Joins(s, h, v, T, E, o)
<1>1. T \in Edge /\ E \in Edge /\ Ptr(T) \in DOMAIN s.node /\ Ptr(E) \in DOMAIN s.node
      /\ InUse(s, T) /\ InUse(s, E)
  BY DEF Branchable, Deeper
<1>2. Diagram(s) /\ IsStore(s)  BY DEF Kept, Stage
<1>3. CASE T = E
  <2>1. o = Assign(s, T)  BY <1>3 DEF NodeFor
  <2>2. o.r = T /\ Kept(o.s, Plus(h, Ptr(T))) /\ Follows(s, o.s)
    BY <1>1, <2>1, AssignKept
  <2>3. Owned(s, h, o)  BY <1>1, <2>2 DEF Owned
  <2>4. ASSUME NEW x, NEW I, NEW J, Reads(s.node, Nodes(s), x, I),
               Reads(o.s.node, Nodes(o.s), x, J)
        PROVE  Holds(J, T) <=> Holds(I, T)
    BY <1>1, <2>2, <2>4, FollowsReads
  <2> QED BY <1>3, <2>2, <2>3, <2>4 DEF Joins
<1>4. CASE T # E
  <2>1. PICK p \in Picked(s, v, Pos(T), SetNeg(E, Neg(T))) :
               o.r = SetNeg(p.r, Neg(T)) /\ Tidied(p.s, o.s)
    BY <1>4 DEF NodeFor
  <2> DEFINE q == Negate(p, Neg(T))
             n == Ptr(q.r)
  <2>2. Constructs(s, h, v, T, E, q)  BY <1>4, NodeMade
  <2>3. q.s = p.s /\ q.r = o.r  BY <2>1 DEF Negate, Pair
  <2> HIDE DEF q
  <2>4. /\ q.r \in Edge /\ n \in DOMAIN q.s.node /\ Kept(q.s, Plus(h, n)) /\ Keeps(s, q.s)
        /\ SameLink(q.s.node[n], [v |-> v, t |-> Pos(T), e |-> SetNeg(E, Neg(T))])
    BY <2>2 DEF Constructs
  <2>5. IsStore(q.s) /\ Diagram(q.s)  BY <2>4 DEF Kept, Stage
  <2>6. Follows(s, q.s)  BY <1>2, <2>4, <2>5, KeepsFollows
  <2>7. Kept(o.s, Plus(h, n)) /\ Follows(q.s, o.s)  BY <2>1, <2>3, <2>4, TidiedKept
  <2>8. Owned(s, h, q)  BY <2>4, <2>6 DEF Owned
  <2>9. InUse(q.s, q.r)  BY <2>8, OwnedInUse
  <2>10. Owned(s, h, o)
    <3>1. Follows(s, o.s)  BY <2>6, <2>7, FollowsChain
    <3> QED BY <2>3, <2>4, <2>7, <3>1 DEF Owned
  <2>11. n \in Live(q.s)
    <3>1. v # TERMID /\ q.s.node[0].v = TERMID  BY <1>2, <2>5, Ranked
    <3>2. q.s.node[n].v = v  BY <2>4 DEF SameLink
    <3>3. n # 0  BY <3>1, <3>2
    <3> QED BY <2>9, <3>3 DEF InUse
  <2>12. /\ n \in Live(o.s) /\ o.s.node[n].v = v
         /\ o.s.node[n].t = Pos(T) /\ o.s.node[n].e = SetNeg(E, Neg(T))
    BY <2>4, <2>7, <2>11 DEF Follows, SameLink
  <2>13. Ptr(Pos(T)) = Ptr(T) /\ Ptr(SetNeg(E, Neg(T))) = Ptr(E)
    <3>1. Neg(T) \in BOOLEAN  BY <1>1, EdgeFacts
    <3> QED BY <1>1, <3>1, EdgeFacts, SetNegFacts
  <2>14. {Ptr(T), Ptr(E)} \subseteq Kids(o.s.node, n)  BY <2>12, <2>13 DEF Kids
  <2>15. ASSUME NEW x, NEW I, NEW J, Reads(s.node, Nodes(s), x, I),
                Reads(o.s.node, Nodes(o.s), x, J)
         PROVE  Holds(J, o.r) <=> IF v \in x THEN Holds(I, T) ELSE Holds(I, E)
    <3>1. PICK K : Reads(q.s.node, Nodes(q.s), x, K)  BY <2>5, ReadingExists
    <3>2. Holds(K, q.r) <=> IF v \in x THEN Holds(I, T) ELSE Holds(I, E)
      BY <2>2, <2>15, <3>1 DEF Constructs
    <3>3. Holds(J, q.r) <=> Holds(K, q.r)
      BY <2>4, <2>7, <2>9, <2>15, <3>1, FollowsReads
    <3> QED BY <2>3, <3>2, <3>3
  <2> QED BY <2>3, <2>10, <2>12, <2>14, <2>15 DEF Joins
<1> QED BY <1>3, <1>4

(* What a call of bdd_ite_aux promises for the triple y: its caller owns   *)
(* an edge of the function asked for, below every variable that the three  *)
(* arguments are below.                                                    *)
Delivers(s, h, y, p) ==
  /\ Owned(s, h, p)
  /\ \A w \in DOMAIN s.rank : TripleBelow(s, w, y) => Deeper(p.s, p.r, w)
  /\ \A x, I, J : Reads(s.node, Nodes(s), x, I) /\ Reads(p.s.node, Nodes(p.s), x, J) =>
       (Holds(J, p.r) <=> Means(I, y))

(* The references to T and E are given up: neither is the last.            *)
LEMMA BranchesReleased ==
  ASSUME NEW h \in [Nat -> Nat], NEW s, NEW T \in Edge, NEW E \in Edge, NEW n \in Nat,
         Kept(s, Plus(Two(h, Ptr(T), Ptr(E)), n)),
         (n = Ptr(T) /\ n = Ptr(E))
         \/ (n \in Live(s) /\ {Ptr(T), Ptr(E)} \subseteq Kids(s.node, n))
  PROVE  LET q == DecrRef(s, T)
             p == DecrRef(q, E)
         IN /\ ~Dead(q, T) /\ ~Dead(p, E) /\ Follows(s, p) /\ Kept(p, Plus(h, n))
<1> DEFINE a == Ptr(T)
           b == Ptr(E)
           q == DecrRef(s, T)
           p == DecrRef(q, E)
           f == Plus(h, n)
           g == Plus(f, b)
<1>1. a \in Nat /\ b \in Nat /\ f \in [Nat -> Nat] /\ g \in [Nat -> Nat]
  BY EdgeFacts, PlusFacts
<1>2. Plus(Two(h, a, b), n) = Two(f, a, b)
  <2> HIDE DEF a, b
  <2>1. Plus(Two(h, a, b), n) = Two(Plus(h, n), a, b)  BY <1>1, PlusLast, ZenonT(30)
  <2> QED BY <2>1
<1>3. /\ Two(f, a, b)[a] > 0 /\ Less(Two(f, a, b), a) = g
      /\ g[b] > 0 /\ Less(g, b) = f
  BY <1>1, TwoDown
<1>4. f[n] > 0 /\ (n = b => g[n] > 0)
  <2>1. f[n] = h[n] + 1  BY PlusFacts
  <2> QED BY <1>3, <2>1
<1>5. (n = a /\ n = b) \/ (n \in Live(s) /\ a \in Kids(s.node, n) /\ b \in Kids(s.node, n))
  OBVIOUS
<1>6. Kept(s, Two(f, a, b))  BY <1>2
<1> HIDE DEF f, g, a, b
<1>7. Kept(q, g) /\ Follows(s, q) /\ ~Dead(q, T)
  <2>1. Less(Two(f, a, b), a)[a] > 0 \/ \E m \in Live(s) : a \in Kids(s.node, m)
    BY <1>3, <1>4, <1>5
  <2>2. Kept(q, Less(Two(f, a, b), a)) /\ Follows(s, q) /\ ~Dead(q, T)
    BY <1>3, <1>6, <2>1, Release DEF a
  <2> QED BY <1>3, <2>2
<1> HIDE DEF q
<1>8. Kept(p, f) /\ Follows(q, p) /\ ~Dead(p, E)
  <2>1. Less(g, b)[b] > 0 \/ \E m \in Live(q) : b \in Kids(q.node, m)
    <3>1. CASE n = a /\ n = b  BY <1>3, <1>4, <3>1
    <3>2. CASE n \in Live(s) /\ a \in Kids(s.node, n) /\ b \in Kids(s.node, n)
      <4>1. n \in Live(q) /\ Kids(q.node, n) = Kids(s.node, n)
        BY <1>7, <3>2 DEF Follows, SameLink, Kids
      <4> QED BY <3>2, <4>1
    <3> QED BY <1>5, <3>1, <3>2
  <2>2. Kept(p, Less(g, b)) /\ Follows(q, p) /\ ~Dead(p, E)
    BY <1>3, <1>7, <2>1, Release DEF b
  <2> QED BY <1>3, <2>2
<1>9. Follows(s, p)  BY <1>7, <1>8, FollowsChain
<1> QED BY <1>7, <1>8, <1>9 DEF f, q

(* A triple in use stays so, below what it is below, and means the same.   *)
LEMMA TripleFollows ==
  ASSUME NEW s, NEW h, Kept(s, h), NEW q, NEW g, Kept(q, g), Follows(s, q),
         NEW v, NEW y, TripleBelow(s, v, y)
  PROVE  /\ TripleBelow(q, v, y)
         /\ \A x, I, J : Reads(s.node, Nodes(s), x, I) /\ Reads(q.node, Nodes(q), x, J) =>
              (Means(J, y) <=> Means(I, y))
<1>1. InUse(s, y.f) /\ InUse(s, y.g) /\ InUse(s, y.h)  BY DEF TripleBelow, Branchable
<1>2. Branchable(q, v, y.f) /\ Branchable(q, v, y.g) /\ Branchable(q, v, y.h)
  <2>1. Branchable(q, v, y.f)  BY <1>1, FollowsBelow DEF TripleBelow
  <2>2. Branchable(q, v, y.g)  BY <1>1, FollowsBelow DEF TripleBelow
  <2>3. Branchable(q, v, y.h)  BY <1>1, FollowsBelow DEF TripleBelow
  <2> QED BY <2>1, <2>2, <2>3
<1>3. ASSUME NEW x, NEW I, NEW J,
             Reads(s.node, Nodes(s), x, I), Reads(q.node, Nodes(q), x, J)
      PROVE  Means(J, y) <=> Means(I, y)
  <2>1. \A e : InUse(s, e) => (Holds(J, e) <=> Holds(I, e))
    BY <1>3, FollowsReads
  <2> QED BY <1>1, <2>1 DEF Means
<1> QED BY <1>2, <1>3 DEF TripleBelow

(* The topmost rank of a triple is below what all of the triple is below.  *)
LEMMA TopBelow ==
  ASSUME NEW s, NEW h, Kept(s, h), NEW y, IsTriple(y), TripleInUse(s, y),
         NEW w, TripleBelow(s, w, y)
  PROVE  Top(s, y) > s.rank[w]
<1>1. /\ Diagram(s) /\ y.f \in Edge /\ y.g \in Edge /\ y.h \in Edge
      /\ Ptr(y.f) \in DOMAIN s.node /\ Ptr(y.g) \in DOMAIN s.node
      /\ Ptr(y.h) \in DOMAIN s.node
  BY DEF Kept, TripleBelow, Branchable, Deeper
<1>2. \A e \in Edge : Rank(s, e) = NodeRank(s, Ptr(e))
  BY DEF Rank, NodeRank, VarId, At
<1>3. TERMID \in Nat  BY DEF TERMID
<1>4. Rank(s, y.f) \in Int /\ Rank(s, y.g) \in Int /\ Rank(s, y.h) \in Int
  BY <1>1, <1>2, <1>3, RankFalls
<1>5. Top(s, y) \in {Rank(s, y.f), Rank(s, y.g), Rank(s, y.h)}
  BY <1>4, TopOfThree DEF Top
<1>6. /\ Rank(s, y.f) > s.rank[w] /\ Rank(s, y.g) > s.rank[w] /\ Rank(s, y.h) > s.rank[w]
  BY <1>1, <1>2 DEF TripleBelow, Branchable, Deeper
<1> QED BY <1>5, <1>6

(* bdd_ite_aux is right at a triple if its two recursive calls are right   *)
(* at the cofactors. Whatever the calls did to the store, the arguments of *)
(* the second are still in use when it begins, its node is the function    *)
(* asked for, in a kept store, and the references to the two branches that *)
(* are then given up are not the last: bdd_free does not go on.            *)
THEOREM IteStep ==
  ASSUME NEW s, NEW h, Kept(s, h), NEW y, IsTriple(y), TripleInUse(s, y), ~Term(y.f),
         NEW p1, Delivers(s, h, PosTriple(s, y, Top(s, y)), p1),
         NEW p2, Delivers(p1.s, Plus(h, Ptr(p1.r)), NegTriple(s, y, Top(s, y)), p2),
         NEW o, NodeFor(p2.s, s.space[Top(s, y)], p1.r, p2.r, o)
  PROVE  LET q == DecrRef(o.s, p1.r)
             p == DecrRef(q, p2.r)
         IN /\ TripleInUse(p1.s, NegTriple(s, y, Top(s, y)))
            /\ ~Dead(q, p1.r) /\ ~Dead(p, p2.r)
            /\ Delivers(s, h, y, Pair(p, o.r))
<1> DEFINE r == Top(s, y)
           v == s.space[r]
           P == PosTriple(s, y, r)
           N == NegTriple(s, y, r)
           T == p1.r
           E == p2.r
           a == Ptr(T)
           b == Ptr(E)
           n == Ptr(o.r)
           q == DecrRef(o.s, T)
           p == DecrRef(q, E)
<1>1. SplitAt(s, y, r, v)  BY IteSplits DEF Top
<1>2. Delivers(s, h, P, p1) /\ Delivers(p1.s, Plus(h, a), N, p2) /\ NodeFor(p2.s, v, T, E, o)
  OBVIOUS
<1> HIDE DEF P, N, v, r
<1>4. /\ v \in DOMAIN s.rank /\ s.rank[v] = r /\ TripleBelow(s, v, P) /\ TripleBelow(s, v, N)
      /\ \A x, I : Reads(s.node, Nodes(s), x, I) =>
           (Means(I, y) <=> IF v \in x THEN Means(I, P) ELSE Means(I, N))
  BY <1>1 DEF SplitAt, P, N
<1>5. /\ Owned(s, h, p1) /\ Owned(p1.s, Plus(h, a), p2)
      /\ T \in Edge /\ Kept(p1.s, Plus(h, a)) /\ Follows(s, p1.s)
      /\ E \in Edge /\ Kept(p2.s, Two(h, a, b)) /\ Follows(p1.s, p2.s)
  BY <1>2 DEF Delivers, Owned, Two
<1>6. /\ InUse(p1.s, T) /\ InUse(p2.s, E)  BY <1>5, OwnedInUse
<1>7. p1.s.rank = s.rank /\ p2.s.rank = s.rank  BY <1>5 DEF Follows, SameOrder
<1>8. TripleBelow(p1.s, v, N)  BY <1>4, <1>5, TripleFollows
<1>9. Branchable(p2.s, v, T)
  <2>1. Branchable(p1.s, v, T)  BY <1>2, <1>4, <1>6 DEF Delivers, Branchable
  <2> QED BY <1>5, <1>6, <2>1, FollowsBelow
<1>10. Branchable(p2.s, v, E)
  <2>1. Deeper(p2.s, E, v)  BY <1>2, <1>4, <1>7, <1>8 DEF Delivers
  <2> QED BY <1>6, <2>1 DEF Branchable
<1>11. Joins(p2.s, Two(h, a, b), v, T, E, o)
  BY <1>2, <1>4, <1>5, <1>7, <1>9, <1>10, NodeJoins
<1>12. /\ o.r \in Edge /\ Kept(o.s, Plus(Two(h, a, b), n)) /\ Follows(p2.s, o.s)
       /\ Owned(p2.s, Two(h, a, b), o)
  BY <1>11 DEF Joins, Owned
<1>13. InUse(o.s, o.r)  BY <1>5, <1>12, OwnedInUse
<1>14. h \in [Nat -> Nat] /\ n \in Nat  BY <1>12, EdgeFacts DEF Kept, Stage
<1>15. (n = a /\ n = b) \/ (n \in Live(o.s) /\ {a, b} \subseteq Kids(o.s.node, n))
  BY <1>11 DEF Joins
<1>16. /\ ~Dead(q, T) /\ ~Dead(p, E) /\ Follows(o.s, p) /\ Kept(p, Plus(h, n))
  BY <1>5, <1>12, <1>14, <1>15, BranchesReleased
<1> HIDE DEF q, p
<1>17. Follows(s, p)
  <2>1. Follows(s, p2.s)  BY <1>5, FollowsChain
  <2>2. Follows(s, o.s)  BY <1>12, <2>1, FollowsChain
  <2> QED BY <1>16, <2>2, FollowsChain
<1> DEFINE g == Pair(p, o.r)
<1>18. g.s = p /\ g.r = o.r  BY DEF Pair
<1> HIDE DEF g
<1>19. Owned(s, h, g)  BY <1>12, <1>16, <1>17, <1>18 DEF Owned
<1>20. InUse(p, o.r) /\ n \in DOMAIN p.node  BY <1>12, <1>13, <1>16, FollowsBelow
<1>21. NodeRank(p, n) >= s.rank[v]
  <2>1. p.rank = s.rank /\ o.s.rank = s.rank  BY <1>7, <1>12, <1>17 DEF Follows, SameOrder
  <2>2. s.rank[v] \in Int /\ NodeRank(p, n) \in Int /\ v # TERMID
    <3>1. Diagram(p) /\ Diagram(s) /\ TERMID \in Nat  BY <1>16 DEF Kept, TERMID
    <3> QED BY <1>4, <1>20, <3>1, Ranked, RankFalls
  <2>3. CASE o.r = T
    <3>1. Follows(p2.s, p)  BY <1>12, <1>16, FollowsChain
    <3>2. Branchable(p, v, T)  BY <1>5, <1>9, <1>16, <3>1, FollowsBelow DEF Branchable
    <3> QED BY <2>1, <2>2, <2>3, <3>2 DEF Branchable, Deeper
  <2>4. CASE n \in Live(o.s) /\ o.s.node[n].v = v
    <3>1. p.node[n].v = v  BY <1>16, <2>4 DEF Follows, SameLink
    <3>2. NodeRank(p, n) = s.rank[v]  BY <2>1, <2>2, <3>1 DEF NodeRank, VarRank
    <3> QED BY <2>2, <3>2
  <2> QED BY <1>11, <2>3, <2>4 DEF Joins
<1>22. ASSUME NEW w \in DOMAIN s.rank, TripleBelow(s, w, y)
       PROVE  Deeper(p, o.r, w)
  <2>1. r > s.rank[w]  BY <1>22, TopBelow DEF r
  <2>2. p.rank = s.rank  BY <1>17 DEF Follows, SameOrder
  <2>3. s.rank[w] \in Int /\ s.rank[v] \in Int /\ NodeRank(p, n) \in Int
    <3>1. Diagram(p) /\ Diagram(s) /\ TERMID \in Nat  BY <1>16 DEF Kept, TERMID
    <3> QED BY <1>4, <1>20, <3>1, Ranked, RankFalls
  <2> QED BY <1>4, <1>12, <1>20, <1>21, <2>1, <2>2, <2>3 DEF Deeper
<1>23. ASSUME NEW x, NEW I, NEW J,
              Reads(s.node, Nodes(s), x, I), Reads(p.node, Nodes(p), x, J)
       PROVE  Holds(J, o.r) <=> Means(I, y)
  <2>1. Diagram(p1.s) /\ Diagram(p2.s) /\ Diagram(o.s)  BY <1>5, <1>12 DEF Kept
  <2>2. PICK I1 : Reads(p1.s.node, Nodes(p1.s), x, I1)  BY <2>1, ReadingExists
  <2>3. PICK I2 : Reads(p2.s.node, Nodes(p2.s), x, I2)  BY <2>1, ReadingExists
  <2>4. PICK K : Reads(o.s.node, Nodes(o.s), x, K)  BY <2>1, ReadingExists
  <2>5. Holds(I1, T) <=> Means(I, P)  BY <1>2, <1>23, <2>2 DEF Delivers
  <2>6. Holds(I2, T) <=> Holds(I1, T)  BY <1>5, <1>6, <2>2, <2>3, FollowsReads
  <2>7. Holds(I2, E) <=> Means(I1, N)  BY <1>2, <2>2, <2>3 DEF Delivers
  <2>8. Means(I1, N) <=> Means(I, N)  BY <1>4, <1>5, <1>23, <2>2, TripleFollows
  <2>9. Holds(K, o.r) <=> IF v \in x THEN Holds(I2, T) ELSE Holds(I2, E)
    BY <1>11, <2>3, <2>4 DEF Joins
  <2>10. Holds(J, o.r) <=> Holds(K, o.r)
    BY <1>12, <1>13, <1>16, <1>23, <2>4, FollowsReads
  <2>11. Means(I, y) <=> IF v \in x THEN Means(I, P) ELSE Means(I, N)  BY <1>4, <1>23
  <2> HIDE DEF T, E, a, b, n
  <2> QED BY <2>5, <2>6, <2>7, <2>8, <2>9, <2>10, <2>11
<1>24. Delivers(s, h, y, g)  BY <1>18, <1>19, <1>22, <1>23 DEF Delivers
<1>25. TripleInUse(p1.s, N)  BY <1>8 DEF TripleBelow, Branchable, TripleInUse
<1> QED BY <1>16, <1>24, <1>25 DEF g, p, q, N, r
------------------------------------------------------------------------------
(* The calls of bdd_ite_aux that do not recur, and the standard triple.     *)

(* A set of edges with the constants and with the complement of each.      *)
Closed(D) == D \subseteq Edge /\ {BDD_1, BDD_0} \subseteq D /\ \A e \in D : Compl(e) \in D
Triples(D) == [f : D, g : D, h : D]

(* The standard triple is made of the edges there were, their complements  *)
(* and constants; its first argument is not below that of the triple.      *)
LEMMA StandardInside ==
  ASSUME NEW s, NEW D, Closed(D), \A e \in D : Rank(s, e) \in Int,
         NEW x \in Triples(D)
  PROVE  /\ StandardTriple(s, x).x \in Triples(D)
         /\ Rank(s, StandardTriple(s, x).x.f) <= Rank(s, x.f)
<1> DEFINE Good(y, z) == z \in Triples(D) /\ Rank(s, z.f) <= Rank(s, y.f)
<1>0. /\ D \subseteq Edge /\ BDD_1 \in D /\ BDD_0 \in D /\ \A e \in D : Compl(e) \in D
      /\ \A e \in D : Rank(s, Compl(e)) = Rank(s, e)
      /\ \A e \in D : Pos(e) \in D /\ Rank(s, Pos(e)) = Rank(s, e)
  <2>1. D \subseteq Edge /\ BDD_1 \in D /\ BDD_0 \in D /\ \A e \in D : Compl(e) \in D
    BY DEF Closed
  <2>2. ASSUME NEW e \in D PROVE Rank(s, Compl(e)) = Rank(s, e)
    <3>1. Ptr(Compl(e)) = Ptr(e)  BY <2>1, EdgeFacts
    <3> QED BY <3>1 DEF Rank, VarId, At
  <2>3. \A e \in D : Pos(e) = e \/ Pos(e) = Compl(e)  BY <2>1, EdgeFacts
  <2> QED BY <2>1, <2>2, <2>3
<1>1. \A F, G, H \in D : /\ Triple(F, G, H) \in Triples(D)
                         /\ Triple(F, G, H).f = F /\ Triple(F, G, H).g = G
                         /\ Triple(F, G, H).h = H
  BY DEF Triples, Triple
<1>2. ASSUME NEW y \in Triples(D)
      PROVE  /\ y.f \in D /\ y.g \in D /\ y.h \in D /\ Rank(s, y.f) \in Int
             /\ Rank(s, y.g) \in Int /\ Rank(s, y.h) \in Int
  BY DEF Triples
<1>3. \A e, f \in D : Smaller(s, e, f) => Rank(s, e) <= Rank(s, f)
  BY DEF Smaller, Before
<1>21. ASSUME NEW y \in Triples(D), NEW F \in D, NEW G \in D, NEW H \in D, NEW z,
              z = y \/ (z = Triple(F, G, H) /\ Rank(s, F) <= Rank(s, y.f))
       PROVE  Good(y, z)
  BY <1>1, <1>2, <1>21
<1>4. ASSUME NEW y \in Triples(D) PROVE Good(y, OrOrder(s, y))
  <2>1. OrOrder(s, y) = y \/ (OrOrder(s, y) = Triple(y.h, y.g, y.f)
                    /\ Rank(s, y.h) <= Rank(s, y.f))
    <3>1. Rank(s, y.h) = Rank(s, y.h)  BY <1>0, <1>2
    <3> QED BY <1>2, <1>3, <3>1 DEF OrOrder
  <2>2. y.h \in D /\ y.g \in D /\ y.f \in D  BY <1>0, <1>2
  <2> HIDE DEF Good
  <2> QED BY <1>21, <2>1, <2>2
<1>5. ASSUME NEW y \in Triples(D) PROVE Good(y, AndOrder(s, y))
  <2>1. AndOrder(s, y) = y \/ (AndOrder(s, y) = Triple(y.g, y.f, y.h)
                    /\ Rank(s, y.g) <= Rank(s, y.f))
    <3>1. Rank(s, y.g) = Rank(s, y.g)  BY <1>0, <1>2
    <3> QED BY <1>2, <1>3, <3>1 DEF AndOrder
  <2>2. y.g \in D /\ y.f \in D /\ y.h \in D  BY <1>0, <1>2
  <2> HIDE DEF Good
  <2> QED BY <1>21, <2>1, <2>2
<1>6. ASSUME NEW y \in Triples(D) PROVE Good(y, ImpliesOrder(s, y))
  <2>1. ImpliesOrder(s, y) = y \/ (ImpliesOrder(s, y) = Triple(Compl(y.g), Compl(y.f), y.h)
                    /\ Rank(s, Compl(y.g)) <= Rank(s, y.f))
    <3>1. Rank(s, Compl(y.g)) = Rank(s, y.g)  BY <1>0, <1>2
    <3> QED BY <1>2, <1>3, <3>1 DEF ImpliesOrder
  <2>2. Compl(y.g) \in D /\ Compl(y.f) \in D /\ y.h \in D  BY <1>0, <1>2
  <2> HIDE DEF Good
  <2> QED BY <1>21, <2>1, <2>2
<1>7. ASSUME NEW y \in Triples(D) PROVE Good(y, LessOrder(s, y))
  <2>1. LessOrder(s, y) = y \/ (LessOrder(s, y) = Triple(Compl(y.h), y.g, Compl(y.f))
                    /\ Rank(s, Compl(y.h)) <= Rank(s, y.f))
    <3>1. Rank(s, Compl(y.h)) = Rank(s, y.h)  BY <1>0, <1>2
    <3> QED BY <1>2, <1>3, <3>1 DEF LessOrder
  <2>2. Compl(y.h) \in D /\ y.g \in D /\ Compl(y.f) \in D  BY <1>0, <1>2
  <2> HIDE DEF Good
  <2> QED BY <1>21, <2>1, <2>2
<1>8. ASSUME NEW y \in Triples(D) PROVE Good(y, EquivOrder(s, y))
  <2>1. EquivOrder(s, y) = y \/ (EquivOrder(s, y) = Triple(y.g, y.f, Compl(y.f))
                    /\ Rank(s, y.g) <= Rank(s, y.f))
    <3>1. Rank(s, y.g) = Rank(s, y.g)  BY <1>0, <1>2
    <3> QED BY <1>2, <1>3, <3>1 DEF EquivOrder
  <2>2. y.g \in D /\ y.f \in D /\ Compl(y.f) \in D  BY <1>0, <1>2
  <2> HIDE DEF Good
  <2> QED BY <1>21, <2>1, <2>2
<1>9. ASSUME NEW y \in Triples(D) PROVE Good(y, FirstPositive(y))
  <2>1. FirstPositive(y) = y \/ (FirstPositive(y) = Triple(Pos(y.f), y.h, y.g)
                    /\ Rank(s, Pos(y.f)) <= Rank(s, y.f))
    <3>1. Rank(s, Pos(y.f)) = Rank(s, y.f)  BY <1>0, <1>2
    <3> QED BY <1>2, <1>3, <3>1 DEF FirstPositive
  <2>2. Pos(y.f) \in D /\ y.h \in D /\ y.g \in D  BY <1>0, <1>2
  <2> HIDE DEF Good
  <2> QED BY <1>21, <2>1, <2>2
<1>10. ASSUME NEW y \in Triples(D) PROVE Good(y, SecondPositive(y).x)
  <2>1. SecondPositive(y).x = y \/ (SecondPositive(y).x = Triple(y.f, Pos(y.g), Compl(y.h))
                    /\ Rank(s, y.f) <= Rank(s, y.f))
    <3>1. Rank(s, y.f) = Rank(s, y.f)  BY <1>0, <1>2
    <3> QED BY <1>2, <1>3, <3>1 DEF SecondPositive
  <2>2. y.f \in D /\ Pos(y.g) \in D /\ Compl(y.h) \in D  BY <1>0, <1>2
  <2> HIDE DEF Good
  <2> QED BY <1>21, <2>1, <2>2
<1>11. ASSUME NEW a, NEW b, NEW c, a \in Triples(D), Good(a, b), Good(b, c)
       PROVE  Good(a, c)
  BY <1>2, <1>11
<1> HIDE DEF Good
<1> DEFINE a == OrOrder(s, x)
           b == AndOrder(s, a)
           c == ImpliesOrder(s, b)
           d == LessOrder(s, c)
           e == EquivOrder(s, d)
           f == FirstPositive(e)
           g == SecondPositive(f).x
<1>12. \A y, z : Good(y, z) => z \in Triples(D)  BY DEF Good
<1>13. Good(x, a) /\ a \in Triples(D)  BY <1>4, <1>12
<1> HIDE DEF a
<1>14. Good(x, b) /\ b \in Triples(D)  BY <1>5, <1>11, <1>12, <1>13
<1> HIDE DEF b
<1>15. Good(x, c) /\ c \in Triples(D)  BY <1>6, <1>11, <1>12, <1>14
<1> HIDE DEF c
<1>16. Good(x, d) /\ d \in Triples(D)  BY <1>7, <1>11, <1>12, <1>15
<1> HIDE DEF d
<1>17. Good(x, e) /\ e \in Triples(D)  BY <1>8, <1>11, <1>12, <1>16
<1> HIDE DEF e
<1>18. Good(x, f) /\ f \in Triples(D)  BY <1>9, <1>11, <1>12, <1>17
<1> HIDE DEF f
<1>19. Good(x, g)  BY <1>10, <1>11, <1>12, <1>18
<1>20. StandardTriple(s, x).x = g
  BY DEF StandardTriple, OrderTriple, g, f, e, d, c, b, a
<1> QED BY <1>19, <1>20 DEF Good

(* Introducing constants does not leave such a set either.                 *)
LEMMA IntroducedInside ==
  ASSUME NEW D, Closed(D), NEW F \in D, NEW G \in D, NEW H \in D
  PROVE  IntroduceConstants(F, G, H) \in Triples(D) /\ IntroduceConstants(F, G, H).f = F
BY DEF Closed, Triples, IntroduceConstants, Triple

(* The edges in use are such a set, and so are those below a variable.     *)
LEMMA ClosedSets ==
  ASSUME NEW s, NEW h, Kept(s, h)
  PROVE  /\ Closed({e \in Edge : InUse(s, e)})
         /\ \A v \in DOMAIN s.rank : Closed({e \in Edge : Branchable(s, v, e)})
<1>1. Diagram(s) /\ 0 \in DOMAIN s.node  BY DEF Kept, Diagram, IsStore
<1>2. \A e \in Edge : Compl(e) \in Edge /\ Ptr(Compl(e)) = Ptr(e)  BY EdgeFacts
<1>3. BDD_1 \in Edge /\ BDD_0 \in Edge /\ Ptr(BDD_1) = 0 /\ Ptr(BDD_0) = 0
  BY EdgeFacts
<1>4. ASSUME NEW v \in DOMAIN s.rank PROVE NodeRank(s, 0) > s.rank[v]
  <2>1. NodeRank(s, 0) = TERMID  BY <1>1 DEF Diagram, NodeRank, VarRank
  <2>2. TERMID \in Nat  BY DEF TERMID
  <2>3. s.rank[v] \in 0 .. TERMID - 1  BY <1>1, Ranked
  <2> QED BY <2>1, <2>2, <2>3
<1>5. Closed({e \in Edge : InUse(s, e)})  BY <1>2, <1>3 DEF Closed, InUse
<1>6. ASSUME NEW v \in DOMAIN s.rank PROVE Closed({e \in Edge : Branchable(s, v, e)})
  BY <1>1, <1>2, <1>3, <1>4 DEF Closed, Branchable, Deeper, InUse
<1> QED BY <1>5, <1>6

(* The answer of a trivial case is one of the arguments, or its complement.*)
LEMMA TrivialInside ==
  ASSUME NEW D, Closed(D), NEW x \in Triples(D), Trivial(x) # VOID
  PROVE  Trivial(x) \in D
<1>1. x.f \in D /\ x.g \in D /\ x.h \in D /\ Compl(x.f) \in D  BY DEF Triples, Closed
<1> QED BY <1>1 DEF Trivial

(* Three edges of such a set.                                              *)
LEMMA ThreeInside ==
  ASSUME NEW D, NEW F, NEW G, NEW H
  PROVE  /\ Triple(F, G, H).f = F /\ Triple(F, G, H).g = G /\ Triple(F, G, H).h = H
         /\ F \in D /\ G \in D /\ H \in D <=> Triple(F, G, H) \in Triples(D)
BY DEF Triple, Triples

(* bdd_ite_aux, a trivial case: the answer is right, and one reference to  *)
(* it is taken.                                                            *)
THEOREM IteEnds ==
  ASSUME NEW s, NEW h, Kept(s, h), NEW F, InUse(s, F), NEW G, InUse(s, G),
         NEW H, InUse(s, H), Trivial(IntroduceConstants(F, G, H)) # VOID
  PROVE  Delivers(s, h, Triple(F, G, H), Assign(s, Trivial(IntroduceConstants(F, G, H))))
<1> DEFINE x == IntroduceConstants(F, G, H)
           e == Trivial(x)
           o == Assign(s, e)
           y == Triple(F, G, H)
           D == {f \in Edge : InUse(s, f)}
<1>1. F \in Edge /\ G \in Edge /\ H \in Edge  BY DEF InUse
<1>2. Closed(D)  BY ClosedSets
<1>3. F \in D /\ G \in D /\ H \in D  BY <1>1
<1> HIDE DEF D
<1>4. x \in Triples(D)  BY <1>2, <1>3, IntroducedInside
<1>5. e # VOID  OBVIOUS
<1> HIDE DEF x
<1>6. e \in D  BY <1>2, <1>4, <1>5, TrivialInside
<1>7. e \in Edge /\ InUse(s, e)  BY <1>6 DEF D
<1> HIDE DEF e
<1>8. o.r = e /\ Kept(o.s, Plus(h, Ptr(e))) /\ Follows(s, o.s)  BY <1>7, AssignKept
<1> HIDE DEF o
<1>9. Owned(s, h, o)  BY <1>7, <1>8 DEF Owned
<1>10. ASSUME NEW w \in DOMAIN s.rank, TripleBelow(s, w, y)
       PROVE  Deeper(o.s, o.r, w)
  <2> DEFINE W == {f \in Edge : Branchable(s, w, f)}
  <2>1. Closed(W)  BY ClosedSets
  <2>2. F \in W /\ G \in W /\ H \in W  BY <1>1, <1>10, ThreeInside DEF TripleBelow
  <2> HIDE DEF W
  <2>3. x \in Triples(W)  BY <2>1, <2>2, IntroducedInside DEF x
  <2>4. e \in W  BY <1>5, <2>1, <2>3, TrivialInside DEF e
  <2>5. Branchable(s, w, e)  BY <2>4 DEF W
  <2>6. Branchable(o.s, w, e)  BY <1>7, <1>8, <2>5, FollowsBelow
  <2> QED BY <1>8, <2>6 DEF Branchable
<1>11. ASSUME NEW z, NEW I, NEW J,
              Reads(s.node, Nodes(s), z, I), Reads(o.s.node, Nodes(o.s), z, J)
       PROVE  Holds(J, o.r) <=> Means(I, y)
  <2>1. Holds(J, e) <=> Holds(I, e)  BY <1>7, <1>8, <1>11, FollowsReads
  <2>2. 0 \in I  BY <1>11 DEF Reads
  <2>3. IsTriple(x) /\ (Means(I, x) <=> Means(I, y))
    BY <1>1, <2>2, ConstantsIntroduced DEF x
  <2>4. Holds(I, e) <=> Means(I, x)  BY <1>5, <2>2, <2>3, TrivialCase DEF e
  <2> QED BY <1>8, <2>1, <2>3, <2>4
<1>12. Delivers(s, h, y, o)  BY <1>9, <1>10, <1>11 DEF Delivers
<1> QED BY <1>12 DEF o, e, x

(* Past the trivial cases, it goes on with a triple whose edges are in     *)
(* use, whose first is neither complemented nor a constant; and an answer  *)
(* for that triple, with the sign the triple says, is one for the          *)
(* arguments.                                                              *)
THEOREM IteStandard ==
  ASSUME NEW s, NEW h, Kept(s, h), NEW F, InUse(s, F), NEW G, InUse(s, G),
         NEW H, InUse(s, H), Trivial(IntroduceConstants(F, G, H)) = VOID
  PROVE  LET std == StandardTriple(s, IntroduceConstants(F, G, H))
         IN /\ IsTriple(std.x) /\ TripleInUse(s, std.x) /\ ~Term(std.x.f) /\ ~Neg(std.x.f)
            /\ \A p : Delivers(s, h, std.x, p) =>
                        Delivers(s, h, Triple(F, G, H), Negate(p, std.negate))
<1> DEFINE x == IntroduceConstants(F, G, H)
           std == StandardTriple(s, x)
           y == Triple(F, G, H)
           u == std.x
           D == {f \in Edge : InUse(s, f)}
<1>1. F \in Edge /\ G \in Edge /\ H \in Edge  BY DEF InUse
<1>2. Diagram(s) /\ TERMID \in Nat  BY DEF Kept, TERMID
<1>3. Closed(D)  BY ClosedSets
<1>4. ASSUME NEW e \in Edge, InUse(s, e)
      PROVE  Rank(s, e) \in Int /\ (Ptr(e) # 0 => Rank(s, e) < TERMID)
             /\ (Ptr(e) = 0 => Rank(s, e) = TERMID)
  <2>1. Rank(s, e) = NodeRank(s, Ptr(e))  BY DEF Rank, NodeRank, VarId, At
  <2>2. Ptr(e) \in DOMAIN s.node /\ (Ptr(e) # 0 => Ptr(e) \in Nodes(s))
    BY <1>2, <1>4 DEF InUse, Live, Nodes, Diagram, IsStore
  <2>3. NodeRank(s, 0) = TERMID  BY <1>2 DEF Diagram, NodeRank, VarRank
  <2> QED BY <1>2, <2>1, <2>2, <2>3, RankFalls
<1>5. F \in D /\ G \in D /\ H \in D /\ \A e \in D : Rank(s, e) \in Int  BY <1>1, <1>4
<1> HIDE DEF D
<1>6. x \in Triples(D) /\ x.f = F  BY <1>3, <1>5, IntroducedInside
<1>7. Trivial(x) = VOID  OBVIOUS
<1>8. \A z, I : Reads(s.node, Nodes(s), z, I) =>
        ((Means(I, u) <=> ~std.negate) <=> Means(I, y))
  <2> SUFFICES ASSUME NEW z, NEW I, Reads(s.node, Nodes(s), z, I)
               PROVE  (Means(I, u) <=> ~std.negate) <=> Means(I, y)
    OBVIOUS
  <2>1. 0 \in I  BY DEF Reads
  <2>2. (Means(I, u) <=> ~std.negate) <=> IF Holds(I, F) THEN Holds(I, G) ELSE Holds(I, H)
    BY <1>1, <2>1, StandardTripleMeans, ZenonT(60)
  <2>3. y.f = F /\ y.g = G /\ y.h = H  BY ThreeInside
  <2> HIDE DEF u, std, y
  <2> QED BY <2>2, <2>3 DEF Means
<1>9. ~Neg(u.f)
  <2>1. 0 \in {0}  OBVIOUS
  <2> QED BY <1>1, <2>1, StandardTripleMeans
<1>10. std.negate \in BOOLEAN
  <2>1. PICK b : std = SecondPositive(b)  BY DEF StandardTriple
  <2> QED BY <2>1 DEF SecondPositive, Neg
<1> HIDE DEF x
<1>11. u \in Triples(D) /\ Rank(s, u.f) <= Rank(s, x.f)
  BY <1>3, <1>5, <1>6, StandardInside
<1> HIDE DEF std
<1>12. /\ u.f \in D /\ u.g \in D /\ u.h \in D /\ u \in [f : D, g : D, h : D]
  BY <1>11 DEF Triples
<1>13. IsTriple(u) /\ TripleInUse(s, u)  BY <1>12 DEF IsTriple, TripleInUse, D
<1>14. Ptr(F) # 0
  <2> SUFFICES ASSUME Ptr(F) = 0 PROVE FALSE  OBVIOUS
  <2>1. F = BDD_1 \/ F = BDD_0  BY <1>1, EdgeFacts
  <2>2. x.g # VOID /\ x.h # VOID
    <3>1. D \subseteq Edge  BY DEF D
    <3>2. x.g \in Edge /\ x.h \in Edge  BY <1>6, <3>1 DEF Triples
    <3> QED BY <3>2, EdgeFacts
  <2> QED BY <1>6, <1>7, <2>1, <2>2 DEF Trivial
<1>15. ~Term(u.f)
  <2>1. InUse(s, F) /\ InUse(s, u.f) /\ u.f \in Edge  BY <1>12 DEF D
  <2>2. Rank(s, F) < TERMID /\ Rank(s, F) \in Int  BY <1>1, <1>4, <1>14
  <2>3. Rank(s, u.f) \in Int /\ Rank(s, u.f) <= Rank(s, F)  BY <1>4, <1>6, <1>11, <2>1
  <2>4. Rank(s, u.f) # TERMID  BY <1>2, <2>2, <2>3
  <2> QED BY <1>4, <2>1, <2>4 DEF Term
<1>16. ASSUME NEW p, Delivers(s, h, u, p)
       PROVE  Delivers(s, h, y, Negate(p, std.negate))
  <2> DEFINE o == Negate(p, std.negate)
             b == std.negate
  <2>1. Owned(s, h, p) /\ p.r \in Edge  BY <1>16 DEF Delivers, Owned
  <2>2. o.s = p.s /\ o.r = SetNeg(p.r, b)  BY DEF Negate, Pair
  <2> HIDE DEF o
  <2>3. o.r \in Edge /\ Ptr(o.r) = Ptr(p.r)  BY <1>10, <2>1, <2>2, SetNegFacts
  <2>4. Owned(s, h, o)  BY <2>1, <2>2, <2>3 DEF Owned
  <2>5. ASSUME NEW w \in DOMAIN s.rank, TripleBelow(s, w, y)
        PROVE  Deeper(o.s, o.r, w)
    <3> DEFINE W == {f \in Edge : Branchable(s, w, f)}
    <3>1. Closed(W)  BY ClosedSets
    <3>2. F \in W /\ G \in W /\ H \in W  BY <1>1, <2>5, ThreeInside DEF TripleBelow
    <3>3. \A e \in W : Rank(s, e) \in Int  BY <1>4 DEF Branchable
    <3> HIDE DEF W
    <3>4. x \in Triples(W)  BY <3>1, <3>2, IntroducedInside DEF x
    <3>5. u \in Triples(W)  BY <3>1, <3>3, <3>4, StandardInside DEF u, std
    <3>6. u.f \in W /\ u.g \in W /\ u.h \in W  BY <3>5 DEF Triples
    <3>7. TripleBelow(s, w, u)  BY <3>6 DEF TripleBelow, W
    <3>8. Deeper(p.s, p.r, w)  BY <1>16, <3>7 DEF Delivers
    <3> QED BY <2>2, <2>3, <3>8 DEF Deeper
  <2>6. ASSUME NEW z, NEW I, NEW J,
               Reads(s.node, Nodes(s), z, I), Reads(o.s.node, Nodes(o.s), z, J)
        PROVE  Holds(J, o.r) <=> Means(I, y)
    <3>1. Holds(J, p.r) <=> Means(I, u)  BY <1>16, <2>2, <2>6 DEF Delivers
    <3>2. 0 \in J  BY <2>6 DEF Reads
    <3>3. Holds(J, SetNeg(p.r, b)) <=> (Holds(J, p.r) <=> ~b)
      BY <1>10, <2>1, <3>2, HoldsFacts
    <3>4. (Means(I, u) <=> ~b) <=> Means(I, y)  BY <1>8, <2>6
    <3> HIDE DEF b, u, y
    <3> QED BY <2>2, <3>1, <3>3, <3>4
  <2> QED BY <2>4, <2>5, <2>6 DEF Delivers, o
<1> QED BY <1>9, <1>13, <1>15, <1>16 DEF std, x

(* When the first argument is a variable above the others, the node of     *)
(* these is the answer.                                                    *)
THEOREM IteProjects ==
  ASSUME NEW s, NEW h, Kept(s, h), NEW y, IsTriple(y), TripleInUse(s, y), ~Term(y.f),
         ~Neg(y.f), ProjectionOf(s, y), NEW o, NodeFor(s, s.space[Top(s, y)], y.g, y.h, o)
  PROVE  Delivers(s, h, y, o)
<1> DEFINE v == s.space[Top(s, y)]
           T == y.g
           E == y.h
           n == Ptr(o.r)
<1>1. /\ v \in DOMAIN s.rank /\ Branchable(s, v, T) /\ Branchable(s, v, E)
      /\ \A x, I : Reads(s.node, Nodes(s), x, I) =>
           (Means(I, y) <=> IF v \in x THEN Holds(I, T) ELSE Holds(I, E))
  BY ProjectionSplits DEF Top
<1>2. SplitAt(s, y, Top(s, y), v)  BY IteSplits DEF Top
<1>3. s.rank[v] = Top(s, y)  BY <1>2 DEF SplitAt
<1>4. NodeFor(s, v, T, E, o)  OBVIOUS
<1> HIDE DEF v
<1>5. Joins(s, h, v, T, E, o)  BY <1>1, <1>4, NodeJoins
<1>6. Owned(s, h, o) /\ Kept(o.s, Plus(h, n)) /\ Follows(s, o.s) /\ o.r \in Edge
  BY <1>5 DEF Joins, Owned
<1>7. InUse(o.s, o.r) /\ n \in DOMAIN o.s.node  BY <1>6, OwnedInUse
<1>8. ASSUME NEW w \in DOMAIN s.rank, TripleBelow(s, w, y)
      PROVE  Deeper(o.s, o.r, w)
  <2>1. CASE o.r = T
    <3>1. Branchable(s, w, T) /\ InUse(s, T)  BY <1>1, <1>8 DEF TripleBelow, Branchable
    <3>2. Branchable(o.s, w, T)  BY <1>6, <3>1, FollowsBelow
    <3> QED BY <2>1, <3>2 DEF Branchable
  <2>2. CASE n \in Live(o.s) /\ o.s.node[n].v = v
    <3>1. o.s.rank = s.rank  BY <1>6 DEF Follows, SameOrder
    <3>2. v # TERMID  BY <1>1, Ranked DEF Kept
    <3>3. NodeRank(o.s, n) = s.rank[v]  BY <2>2, <3>1, <3>2 DEF NodeRank, VarRank
    <3>4. Top(s, y) > s.rank[w]  BY <1>8, TopBelow
    <3> QED BY <1>3, <1>6, <1>7, <3>1, <3>3, <3>4 DEF Deeper
  <2> QED BY <1>5, <2>1, <2>2 DEF Joins
<1>9. ASSUME NEW x, NEW I, NEW J,
             Reads(s.node, Nodes(s), x, I), Reads(o.s.node, Nodes(o.s), x, J)
      PROVE  Holds(J, o.r) <=> Means(I, y)
  <2>1. Holds(J, o.r) <=> IF v \in x THEN Holds(I, T) ELSE Holds(I, E)
    BY <1>5, <1>9 DEF Joins
  <2>2. Means(I, y) <=> IF v \in x THEN Holds(I, T) ELSE Holds(I, E)  BY <1>1, <1>9
  <2> QED BY <2>1, <2>2
<1> QED BY <1>6, <1>8, <1>9 DEF Delivers
------------------------------------------------------------------------------
(* The computed table.                                                      *)

(* The edges of an entry; F may be the code of another function.           *)
EntryEdges(z) == {z.G, z.H, z.R} \cup (IF FuncP(z.F) THEN {} ELSE {z.F})

(* An entry names only what is in the store; and that of an if-then-else   *)
(* has its function. The slots are numbered from 0.                        *)
EntryRight(s, z) ==
  z.R # VOID =>
    /\ \A e \in EntryEdges(z) : e \in Edge /\ Ptr(e) \in DOMAIN s.node
    /\ FuncP(z.F) \/ \A x, I : Reads(s.node, Nodes(s), x, I) =>
                       (Holds(I, z.R) <=> Means(I, Triple(z.F, z.G, z.H)))
CacheRight(s) ==
  /\ "cache" \in DOMAIN s /\ s.cache \in [DOMAIN s.cache -> Entry]
  /\ CacheSize(s) \in Nat \ {0} /\ DOMAIN s.cache = 0 .. CacheSize(s) - 1
  /\ \A i \in DOMAIN s.cache : EntryRight(s, s.cache[i])

(* The nodes of an entry may be dead; in a store that agrees with s on     *)
(* those that this entry names, it is as right as it was.                  *)
LEMMA EntryStays ==
  ASSUME NEW s, Diagram(s), NEW q, Diagram(q), NEW z, EntryRight(s, z),
         \A e \in EntryEdges(z) : Ptr(e) \in DOMAIN q.node,
         \A x, I, J : Reads(s.node, Nodes(s), x, I) /\ Reads(q.node, Nodes(q), x, J) =>
           \A e \in EntryEdges(z) : Holds(J, e) <=> Holds(I, e)
  PROVE  EntryRight(q, z)
<1> SUFFICES ASSUME z.R # VOID
             PROVE  /\ \A e \in EntryEdges(z) : e \in Edge /\ Ptr(e) \in DOMAIN q.node
                    /\ FuncP(z.F) \/ \A x, J : Reads(q.node, Nodes(q), x, J) =>
                         (Holds(J, z.R) <=> Means(J, Triple(z.F, z.G, z.H)))
  BY DEF EntryRight
<1>1. \A e \in EntryEdges(z) : e \in Edge /\ Ptr(e) \in DOMAIN q.node  BY DEF EntryRight
<1>2. ASSUME ~FuncP(z.F), NEW x, NEW J, Reads(q.node, Nodes(q), x, J)
      PROVE  Holds(J, z.R) <=> Means(J, Triple(z.F, z.G, z.H))
  <2> DEFINE y == Triple(z.F, z.G, z.H)
  <2>1. PICK I : Reads(s.node, Nodes(s), x, I)  BY ReadingExists
  <2>2. Holds(I, z.R) <=> Means(I, y)  BY <1>2, <2>1 DEF EntryRight
  <2>3. {z.F, z.G, z.H, z.R} \subseteq EntryEdges(z)  BY <1>2 DEF EntryEdges
  <2>4. /\ Holds(J, z.R) <=> Holds(I, z.R)
        /\ Holds(J, z.F) <=> Holds(I, z.F)
        /\ Holds(J, z.G) <=> Holds(I, z.G)
        /\ Holds(J, z.H) <=> Holds(I, z.H)
    BY <1>2, <2>1, <2>3
  <2>5. y.f = z.F /\ y.g = z.G /\ y.h = z.H  BY ThreeInside
  <2> HIDE DEF y
  <2>6. Means(J, y) <=> Means(I, y)  BY <2>4, <2>5 DEF Means
  <2> QED BY <2>2, <2>4, <2>6 DEF y
<1> QED BY <1>1, <1>2

(* bdd_gc, while the cache of cubes is empty: the computed table first     *)
(* forgets the entries that name a dead node; what it still holds after    *)
(* the collection names only nodes that are there, and is right.           *)
THEOREM CollectionKeepsCache ==
  ASSUME NEW s, NEW h, Kept(s, h), CacheRight(s)
  PROVE  LET g == Sweep(FlushComputedTable(s)) IN Kept(g, h) /\ CacheRight(g)
<1> DEFINE c == [i \in DOMAIN s.cache |->
                   IF LiveEntry(s, s.cache[i]) THEN s.cache[i]
                   ELSE [s.cache[i] EXCEPT !.R = VOID]]
           f == FlushComputedTable(s)
           g == Sweep(f)
<1>1. Diagram(s) /\ IsStore(s) /\ "cache" \in DOMAIN s
  BY DEF Kept, Diagram, CacheRight
<1>2. f = [s EXCEPT !.cache = Table(c)] /\ Table(c) = c
  <2>1. f = [s EXCEPT !.cache = Table(c)]  BY DEF FlushComputedTable
  <2>2. Table(c) = c  BY TableSame
  <2> QED BY <2>1, <2>2
<1>3. f.cache = c /\ SameStore(s, f)
  <2> HIDE DEF c
  <2> QED BY <1>1, <1>2 DEF SameStore, SameOrder, IsStore
<1> HIDE DEF f
<1>4. Kept(f, h) /\ Live(f) = Live(s)  BY <1>3, SameStoreKept
<1>5. Kept(g, h) /\ Follows(f, g)
  <2>1. SameStore(g, g)  BY DEF SameStore, SameOrder
  <2>2. Tidied(f, g)  BY <2>1 DEF Tidied
  <2> QED BY <1>4, <2>2, TidiedKept
<1>6. "cache" \in DOMAIN g /\ g.cache = f.cache
  <2> DEFINE gone == {n \in Nodes(f) : f.node[n].ref = 0}
             a == Table([n \in DOMAIN f.node \ gone |-> f.node[n]])
             w == [f EXCEPT !.node = a, !.dead = f.dead - Cardinality(gone)]
             l == Table([v \in DOMAIN w.log |->
                     IF Underloaded(w, v) THEN ShrunkLog(w.log[v]) ELSE w.log[v]])
  <2>1. "cache" \in DOMAIN f  BY <1>1, <1>3 DEF SameStore, SameOrder
  <2>2. g = [w EXCEPT !.log = l]  BY DEF Sweep
  <2>3. "cache" \in DOMAIN w /\ w.cache = f.cache
    <3> HIDE DEF a, gone
    <3> QED BY <2>1
  <2> HIDE DEF w, l, g
  <2> QED BY <2>2, <2>3
<1> HIDE DEF g
<1>7. ASSUME NEW i \in DOMAIN s.cache
      PROVE  c[i] \in Entry /\ EntryRight(g, c[i])
  <2> DEFINE z == s.cache[i]
  <2>1. z \in Entry /\ EntryRight(s, z)  BY DEF CacheRight
  <2>2. CASE ~LiveEntry(s, z) \/ z.R = VOID
    <3>1. c[i] = z \/ c[i] = [z EXCEPT !.R = VOID]  OBVIOUS
    <3>2. LiveEntry(s, z) => z.R # VOID  BY DEF LiveEntry
    <3>3. c[i] = [z EXCEPT !.R = VOID]  BY <2>2, <3>2
    <3> HIDE DEF z, c
    <3>4. c[i] \in Entry /\ c[i].R = VOID  BY <2>1, <3>3 DEF Entry, VOID
    <3> QED BY <3>4 DEF EntryRight
  <2>3. CASE LiveEntry(s, z) /\ z.R # VOID
    <3>1. c[i] = z  BY <2>3
    <3> HIDE DEF z, c
    <3>2. \A e \in EntryEdges(z) : e \in Edge /\ Ptr(e) \in DOMAIN s.node /\ ~Dead(s, e)
      BY <2>1, <2>3 DEF EntryRight, EntryEdges, LiveEntry
    <3>3. \A e \in EntryEdges(z) : InUse(f, e)
      <4>1. \A m \in DOMAIN s.node : s.node[m].ref # 0 => s.node[m].ref > 0
        <5>1. MaxRef \in Nat  BY StoreConstants DEF StoreConstants
        <5>2. \A m \in DOMAIN s.node : s.node[m] \in Node  BY <1>1 DEF IsStore
        <5> QED BY <5>1, <5>2 DEF Node
      <4>2. \A e \in EntryEdges(z) : Ptr(e) \in Live(s) \cup {0}
        BY <3>2, <4>1 DEF Dead, Ref, At, Live, Nodes
      <4> QED BY <1>4, <3>2, <4>2 DEF InUse
    <3>4. \A e \in EntryEdges(z) : Ptr(e) \in DOMAIN g.node
      BY <1>4, <1>5, <3>3, FollowsBelow
    <3>5. EntryRight(f, z)
      <4>1. f.node = s.node /\ Nodes(f) = Nodes(s)  BY <1>3 DEF SameStore, Nodes
      <4> QED BY <2>1, <4>1 DEF EntryRight
    <3>6. ASSUME NEW x, NEW I, NEW J,
                 Reads(f.node, Nodes(f), x, I), Reads(g.node, Nodes(g), x, J)
          PROVE  \A e \in EntryEdges(z) : Holds(J, e) <=> Holds(I, e)
      BY <1>4, <1>5, <3>3, <3>6, FollowsReads
    <3>7. Diagram(f) /\ Diagram(g)  BY <1>4, <1>5 DEF Kept
    <3>8. EntryRight(g, z)  BY <3>4, <3>5, <3>6, <3>7, EntryStays
    <3> QED BY <2>1, <3>1, <3>8
  <2> QED BY <2>2, <2>3
<1>8. CacheRight(g)
  <2>1. DOMAIN c = DOMAIN s.cache /\ \A i \in DOMAIN s.cache : c[i] \in Entry
    BY <1>7
  <2>2. g.cache = c  BY <1>3, <1>6
  <2>3. c \in [DOMAIN c -> Entry]  BY <2>1
  <2> HIDE DEF c
  <2>4. CacheSize(g) = CacheSize(s)  BY <2>1, <2>2 DEF CacheSize
  <2>5. CacheSize(s) \in Nat \ {0} /\ DOMAIN s.cache = 0 .. CacheSize(s) - 1
    BY DEF CacheRight
  <2> QED BY <1>6, <1>7, <2>1, <2>2, <2>3, <2>4, <2>5 DEF CacheRight
<1> QED BY <1>5, <1>8 DEF g, f

(* bdd_insert_computed_table, after a call of bdd_ite_aux: the entry for   *)
(* the triple is right, whatever the slot held.                            *)
THEOREM ResultCached ==
  ASSUME NEW s, NEW h, Kept(s, h), NEW y, IsTriple(y), TripleInUse(s, y),
         NEW p, Delivers(s, h, y, p), CacheRight(p.s)
  PROVE  CacheRight(Insert(p.s, y.f, y.g, y.h, p.r))
<1> DEFINE q == p.s
           z == [F |-> y.f, G |-> y.g, H |-> y.h, R |-> p.r]
           k == Slot(CacheSize(q), y.f, y.g, y.h)
           g == Insert(q, y.f, y.g, y.h, p.r)
<1>1. y.f \in Edge /\ y.g \in Edge /\ y.h \in Edge /\ p.r \in Edge
  BY DEF IsTriple, Delivers, Owned
<1>2. /\ "cache" \in DOMAIN q /\ q.cache \in [DOMAIN q.cache -> Entry]
      /\ \A i \in DOMAIN q.cache : EntryRight(q, q.cache[i])
  BY DEF CacheRight
<1>3. Kept(q, Plus(h, Ptr(p.r))) /\ Follows(s, q) /\ Owned(s, h, p)
  BY DEF Delivers, Owned
<1>4. g = [q EXCEPT !.cache[k] = z]  BY DEF Insert
<1>5. z \in Entry  BY <1>1 DEF Entry, Edge
<1>6. EntryRight(q, z)
  <2>1. ~FuncP(z.F)  BY <1>1 DEF FuncP, Edge
  <2>2. EntryEdges(z) = {y.f, y.g, y.h, p.r}  BY <2>1 DEF EntryEdges
  <2>3. \A e \in EntryEdges(z) : e \in Edge /\ Ptr(e) \in DOMAIN q.node
    <3>1. /\ Ptr(y.f) \in DOMAIN q.node /\ Ptr(y.g) \in DOMAIN q.node
          /\ Ptr(y.h) \in DOMAIN q.node
      <4>1. Ptr(y.f) \in DOMAIN q.node  BY <1>3, FollowsBelow DEF TripleInUse
      <4>2. Ptr(y.g) \in DOMAIN q.node  BY <1>3, FollowsBelow DEF TripleInUse
      <4>3. Ptr(y.h) \in DOMAIN q.node  BY <1>3, FollowsBelow DEF TripleInUse
      <4> QED BY <4>1, <4>2, <4>3
    <3>2. Ptr(p.r) \in DOMAIN q.node  BY <1>3, OwnedInUse
    <3> HIDE DEF q
    <3> QED BY <1>1, <2>2, <3>1, <3>2
  <2>4. ASSUME NEW x, NEW J, Reads(q.node, Nodes(q), x, J)
        PROVE  Holds(J, z.R) <=> Means(J, Triple(z.F, z.G, z.H))
    <3> DEFINE u == Triple(z.F, z.G, z.H)
    <3>0. Diagram(s)  BY DEF Kept
    <3>1. PICK I : Reads(s.node, Nodes(s), x, I)  BY <3>0, ReadingExists
    <3>2. Holds(J, p.r) <=> Means(I, y)  BY <2>4, <3>1 DEF Delivers
    <3>3. \A e : InUse(s, e) => (Holds(J, e) <=> Holds(I, e))
      BY <1>3, <2>4, <3>1, FollowsReads
    <3>4. Means(I, y) <=> Means(J, y)  BY <3>3 DEF TripleInUse, Means
    <3>5. u.f = y.f /\ u.g = y.g /\ u.h = y.h  BY ThreeInside
    <3> HIDE DEF u
    <3>6. Means(J, u) <=> Means(J, y)  BY <3>5 DEF Means
    <3> QED BY <3>2, <3>4, <3>6 DEF u
  <2> QED BY <2>3, <2>4 DEF EntryRight
<1> HIDE DEF q, z, k, g
<1>7. /\ g.node = q.node /\ DOMAIN g = DOMAIN q
      /\ g.cache = [q.cache EXCEPT ![k] = z]
  <2>1. "node" \in DOMAIN q  BY <1>3 DEF Kept, Diagram, IsStore
  <2> QED BY <1>2, <1>4, <2>1
<1>8. \A e : EntryRight(q, e) => EntryRight(g, e)
  BY <1>7 DEF EntryRight, Nodes
<1>9. /\ g.cache \in [DOMAIN g.cache -> Entry]
      /\ \A i \in DOMAIN g.cache : g.cache[i] = q.cache[i] \/ g.cache[i] = z
      /\ DOMAIN g.cache = DOMAIN q.cache
  BY <1>2, <1>5, <1>7
<1>10. CacheRight(g)
  <2>1. ASSUME NEW i \in DOMAIN g.cache PROVE EntryRight(g, g.cache[i])
    <3>1. EntryRight(q, g.cache[i])  BY <1>2, <1>6, <1>9
    <3> QED BY <1>8, <3>1
  <2>2. CacheSize(g) = CacheSize(q)  BY <1>9 DEF CacheSize
  <2>3. CacheSize(q) \in Nat \ {0} /\ DOMAIN q.cache = 0 .. CacheSize(q) - 1
    BY DEF CacheRight, q
  <2> QED BY <1>2, <1>7, <1>9, <2>1, <2>2, <2>3 DEF CacheRight
<1> QED BY <1>10 DEF g, q

------------------------------------------------------------------------------
(* The functions that follow links: whole runs.                            *)

(* Before such a call, the links of the nodes of S are counted; S need not *)
(* hold all nodes in use, as those above e are not done with.              *)
Reclaimable(s, S, h, e) ==
  /\ Stage(s, S, h) /\ Diagram(s) /\ S \subseteq Live(s)
  /\ e \in Edge /\ Ptr(e) \in DOMAIN s.node

(* The computed table is what it was.                                      *)
SameCache(s, q) == "cache" \in DOMAIN s => q.cache = s.cache

(* After it those of Q are; all that came back is in Q, not above e, and   *)
(* there is a reference to e.                                              *)
BroughtBack(s, S, h, e, q, Q) ==
  /\ S \subseteq Q /\ Stage(q, Q, Plus(h, Ptr(e))) /\ SameLinks(s, q) /\ SameCache(s, q)
  /\ Q \subseteq Live(q) /\ Live(s) \subseteq Live(q) /\ Live(q) \subseteq Live(s) \cup Q
  /\ \A k \in Q \ S : k \notin Live(s) /\ NodeRank(s, k) >= NodeRank(s, Ptr(e))
  /\ q.node[Ptr(e)].ref > 0
BringsBack(s, S, h, e, q) == \E Q : BroughtBack(s, S, h, e, q, Q)

(* Counting references changes neither the table nor what else there is.   *)
LEMMA CountsKeepCache ==
  ASSUME NEW s, NEW e
  PROVE  /\ SameCache(s, IncrRef(s, e)) /\ DOMAIN IncrRef(s, e) = DOMAIN s
         /\ SameCache(s, DecrRef(s, e)) /\ DOMAIN DecrRef(s, e) = DOMAIN s
<1>1. ASSUME NEW c, NEW d, NEW f
      PROVE  SameCache(s, WithRef(s, e, c, d, f)) /\ DOMAIN WithRef(s, e, c, d, f) = DOMAIN s
  <2> DEFINE a == [s.node EXCEPT ![Ptr(e)].ref = c]
             p == s.dead + d
             r == s.frozen + f
             q == [s EXCEPT !.node = a, !.dead = p, !.frozen = r]
  <2>1. WithRef(s, e, c, d, f) = q  BY DEF WithRef
  <2>2. SameCache(s, q) /\ DOMAIN q = DOMAIN s
    <3> HIDE DEF a, p, r
    <3> QED BY DEF SameCache
  <2> QED BY <2>1, <2>2
<1>2. SameCache(s, s)  BY DEF SameCache
<1>3. SameCache(s, IncrRef(s, e)) /\ DOMAIN IncrRef(s, e) = DOMAIN s
  BY <1>1, <1>2 DEF IncrRef, IncrFrom
<1>4. SameCache(s, DecrRef(s, e)) /\ DOMAIN DecrRef(s, e) = DOMAIN s
  BY <1>1, <1>2 DEF DecrRef, DecrFrom
<1> QED BY <1>3, <1>4

(* The links of a node lead to nodes, of higher ranks.                     *)
LEMMA BranchesBelow ==
  ASSUME NEW s, Diagram(s), NEW k \in Nodes(s)
  PROVE  /\ s.node[k].t \in Edge /\ Ptr(s.node[k].t) \in DOMAIN s.node
         /\ s.node[k].e \in Edge /\ Ptr(s.node[k].e) \in DOMAIN s.node
         /\ NodeRank(s, Ptr(s.node[k].t)) > NodeRank(s, k)
         /\ NodeRank(s, Ptr(s.node[k].e)) > NodeRank(s, k)
         /\ NodeRank(s, k) \in Int
         /\ \A m \in DOMAIN s.node : NodeRank(s, m) \in Int /\ NodeRank(s, m) <= TERMID
                                     /\ NodeRank(s, m) >= 0
<1>1. /\ s.node[k].t \in Edge /\ Ptr(s.node[k].t) \in DOMAIN s.node
      /\ s.node[k].e \in Edge /\ Ptr(s.node[k].e) \in DOMAIN s.node
  BY DEF Diagram, Linked
<1>2. TERMID \in Nat /\ \A m \in DOMAIN s.node : NodeRank(s, m) \in 0 .. TERMID
  BY RankFalls, Ranked
<1>3. k \in DOMAIN s.node  BY DEF Nodes
<1>4. \A c \in Kids(s.node, k) : NodeRank(s, k) < NodeRank(s, c)  BY DEF Diagram
<1>5. /\ NodeRank(s, k) < NodeRank(s, Ptr(s.node[k].t))
      /\ NodeRank(s, k) < NodeRank(s, Ptr(s.node[k].e))
  BY <1>4 DEF Kids
<1>6. \A m \in DOMAIN s.node : NodeRank(s, m) \in Int /\ NodeRank(s, m) <= TERMID
                               /\ NodeRank(s, m) >= 0
  BY <1>2
<1> QED BY <1>1, <1>3, <1>5, <1>6

(* SameLinks keeps ranks.                                                  *)
LEMMA SameRanks ==
  ASSUME NEW s, NEW q, SameLinks(s, q), NEW k \in DOMAIN s.node
  PROVE  NodeRank(q, k) = NodeRank(s, k)
BY DEF SameLinks, SameOrder, SameLink, NodeRank, VarRank

LEMMA SameLinksChain ==
  ASSUME NEW s, NEW q, SameLinks(s, q), NEW p, SameLinks(q, p)
  PROVE  SameLinks(s, p)
BY DEF SameLinks, SameOrder, SameLink

LEMMA SameCacheChain ==
  ASSUME NEW s, NEW q, SameLinks(s, q), SameCache(s, q), NEW p, SameCache(q, p)
  PROVE  SameCache(s, p)
BY DEF SameLinks, SameOrder, SameCache

(* A call of reclaim_aux does so if the two calls it may make do.          *)
LEMMA BringsBackStep ==
  ASSUME NEW s, NEW S, NEW h, NEW e, Reclaimable(s, S, h, e),
         NEW C, NEW q, Reclaiming(C, s, e, q),
         \A a, A, g, f, b : /\ Visit(a, f, b) \in C /\ Reclaimable(a, A, g, f)
                            /\ NodeRank(a, Ptr(f)) > NodeRank(s, Ptr(e))
                            => BringsBack(a, A, g, f, b)
  PROVE  BringsBack(s, S, h, e, q)
<1> DEFINE k == Ptr(e)
           z == IncrRef(s, e)
           g == Plus(h, k)
           t == s.node[k].t
           d == s.node[k].e
<1>1. /\ Stage(s, S, h) /\ Diagram(s) /\ IsStore(s) /\ S \subseteq Live(s)
      /\ e \in Edge /\ k \in DOMAIN s.node /\ k \in Nat
  BY EdgeFacts DEF Reclaimable, Stage
<1>2. /\ Stage(z, S, g) /\ SameLinks(s, z) /\ SameCache(s, z)
      /\ \A m \in DOMAIN s.node : z.node[m].ref >= s.node[m].ref
      /\ \A m \in DOMAIN s.node \ {k} : z.node[m].ref = s.node[m].ref
      /\ z.node[k].ref > 0
  BY <1>1, IncrStage, CountsKeepCache
<1> HIDE DEF z, g
<1>3. DOMAIN z.node = DOMAIN s.node /\ IsStore(z)  BY <1>2 DEF SameLinks, Stage
<1>4. Diagram(z)  BY <1>1, <1>2, <1>3, DiagramSame
<1>5. Live(z) = Live(s) \cup (IF k = 0 THEN {} ELSE {k})
  <2>1. k \in DOMAIN s.node /\ 0 \notin Nodes(s) /\ Nodes(z) = Nodes(s)
    BY <1>1, <1>3 DEF Nodes
  <2> QED BY <1>2, <1>3, <2>1 DEF Live, Nodes
<1>6. CASE q = z /\ ~(Dead(s, e) /\ ~Term(e))
  <2>1. k = 0 \/ k \in Live(s)
    <3>1. Term(e) <=> k = 0  BY <1>1, EdgeFacts
    <3>2. Dead(s, e) <=> s.node[k].ref = 0  BY DEF Dead, Ref, At
    <3>3. s.node[k].ref # 0 => s.node[k].ref > 0
      <4>1. s.node[k].ref \in 0 .. MaxRef  BY <1>1, StageFacts
      <4>2. MaxRef \in Nat  BY StoreConstants DEF StoreConstants
      <4> QED BY <4>1, <4>2
    <3> QED BY <1>1, <1>6, <3>1, <3>2, <3>3 DEF Live, Nodes
  <2>2. Live(q) = Live(s)  BY <1>5, <1>6, <2>1
  <2>3. BroughtBack(s, S, h, e, q, S)
    BY <1>1, <1>2, <1>6, <2>2 DEF BroughtBack, g
  <2> QED BY <2>3 DEF BringsBack
<1>7. CASE Frozen(s, e)
  <2>1. q = s  BY <1>7 DEF Reclaiming
  <2>2. z = s  BY <1>1, <1>7, EdgeFacts DEF z, IncrRef, IncrFrom, Frozen
  <2>3. ~Dead(s, e)
    <3>1. MaxRef # 0  BY StoreConstants DEF StoreConstants
    <3> QED BY <1>7, <3>1 DEF Dead, Frozen
  <2> QED BY <1>6, <2>1, <2>2, <2>3
<1>8. CASE ~Frozen(s, e) /\ ~(Dead(s, e) /\ ~Term(e))
  <2>1. q = z  BY <1>8 DEF Reclaiming, z
  <2> QED BY <1>6, <1>8, <2>1
<1>9. CASE ~Frozen(s, e) /\ Dead(s, e) /\ ~Term(e)
  <2>1. PICK m : Visit(z, t, m) \in C /\ Visit(m, d, q) \in C
    BY <1>9 DEF Reclaiming, At, z
  <2>2. k \in Nodes(s) /\ k \notin Live(s) /\ k # 0 /\ ~(s.node[k].ref > 0)
    <3>1. k # 0  BY <1>1, <1>9, EdgeFacts
    <3>2. s.node[k].ref = 0  BY <1>9 DEF Dead, Ref, At
    <3>3. ~(s.node[k].ref > 0)  BY <3>2
    <3> QED BY <1>1, <3>1, <3>3 DEF Live, Nodes
  <2>3. /\ t \in Edge /\ Ptr(t) \in DOMAIN s.node /\ d \in Edge /\ Ptr(d) \in DOMAIN s.node
        /\ NodeRank(s, Ptr(t)) > NodeRank(s, k) /\ NodeRank(s, Ptr(d)) > NodeRank(s, k)
        /\ NodeRank(s, k) \in Int
        /\ \A j \in DOMAIN s.node : NodeRank(s, j) \in Int
    BY <1>1, <2>2, BranchesBelow
  <2> HIDE DEF t, d, k
  <2>4. BringsBack(z, S, g, t, m)
    <3>1. S \subseteq Live(z)  BY <1>1, <1>5
    <3>2. Reclaimable(z, S, g, t)  BY <1>2, <1>3, <1>4, <2>3, <3>1 DEF Reclaimable
    <3>3. NodeRank(z, Ptr(t)) > NodeRank(s, k)  BY <1>2, <2>3, SameRanks
    <3> QED BY <2>1, <3>2, <3>3 DEF k
  <2>5. PICK Q1 : BroughtBack(z, S, g, t, m, Q1)  BY <2>4 DEF BringsBack
  <2>6. /\ S \subseteq Q1 /\ Stage(m, Q1, Plus(g, Ptr(t))) /\ SameLinks(z, m) /\ SameCache(z, m)
        /\ Q1 \subseteq Live(m) /\ Live(z) \subseteq Live(m) /\ Live(m) \subseteq Live(z) \cup Q1
        /\ \A j \in Q1 \ S : j \notin Live(z) /\ NodeRank(z, j) >= NodeRank(z, Ptr(t))
    BY <2>5 DEF BroughtBack
  <2>7. DOMAIN m.node = DOMAIN s.node /\ IsStore(m) /\ SameLinks(s, m) /\ SameCache(s, m)
    BY <1>2, <1>3, <2>6, SameLinksChain, SameCacheChain DEF SameLinks, Stage
  <2>8. Diagram(m)  BY <1>1, <2>7, DiagramSame
  <2>9. BringsBack(m, Q1, Plus(g, Ptr(t)), d, q)
    <3>1. Reclaimable(m, Q1, Plus(g, Ptr(t)), d)  BY <2>3, <2>6, <2>7, <2>8 DEF Reclaimable
    <3>2. NodeRank(m, Ptr(d)) > NodeRank(s, k)  BY <2>3, <2>7, SameRanks
    <3> QED BY <2>1, <3>1, <3>2 DEF k
  <2>10. PICK Q2 : BroughtBack(m, Q1, Plus(g, Ptr(t)), d, q, Q2)  BY <2>9 DEF BringsBack
  <2>11. /\ Q1 \subseteq Q2 /\ Stage(q, Q2, Two(g, Ptr(t), Ptr(d)))
         /\ SameLinks(m, q) /\ SameCache(m, q)
         /\ Q2 \subseteq Live(q) /\ Live(m) \subseteq Live(q) /\ Live(q) \subseteq Live(m) \cup Q2
         /\ \A j \in Q2 \ Q1 : j \notin Live(m) /\ NodeRank(m, j) >= NodeRank(m, Ptr(d))
    BY <2>10 DEF BroughtBack, Two
  <2>12. DOMAIN q.node = DOMAIN s.node /\ SameLinks(s, q) /\ SameCache(s, q)
    BY <2>7, <2>11, SameLinksChain, SameCacheChain DEF SameLinks
  <2>13. k \in Live(z) /\ k \in Live(m) /\ k \in Live(q)  BY <1>5, <2>2, <2>6, <2>11
  <2>14. k \notin Q2
    <3>1. k \notin S  BY <1>1, <2>2
    <3> QED BY <2>6, <2>11, <2>13, <3>1
  <2> DEFINE Q == Q2 \cup {k}
  <2>15. Stage(q, Q, g)
    <3>1. q.node[k].t = t /\ q.node[k].e = d  BY <2>2, <2>12 DEF SameLinks, SameLink, Nodes, t, d
    <3>2. g \in [Nat -> Nat]  BY <1>2 DEF Stage
    <3>3. k \in DOMAIN q.node \ {0}  BY <2>2, <2>12 DEF Nodes
    <3> QED BY <2>3, <2>11, <2>12, <2>14, <3>1, <3>2, <3>3, AttachStage
  <2>16. ASSUME NEW j \in Q \ S
         PROVE  j \notin Live(s) /\ NodeRank(s, j) >= NodeRank(s, k)
    <3>1. CASE j = k  BY <2>2, <2>3, <3>1 DEF Nodes
    <3>2. Live(s) \subseteq Live(z) /\ Live(z) \subseteq Live(m)  BY <1>5, <2>6
    <3>3. j \in DOMAIN s.node
      <4>1. Q \subseteq DOMAIN q.node  BY <2>15 DEF Stage
      <4> QED BY <2>12, <4>1
    <3>4. NodeRank(z, j) = NodeRank(s, j) /\ NodeRank(m, j) = NodeRank(s, j)
      BY <1>2, <2>7, <3>3, SameRanks
    <3>5. NodeRank(z, Ptr(t)) = NodeRank(s, Ptr(t)) /\ NodeRank(m, Ptr(d)) = NodeRank(s, Ptr(d))
      BY <1>2, <2>3, <2>7, SameRanks
    <3>6. CASE j \in Q1 \ S
      <4>1. j \notin Live(z) /\ NodeRank(s, j) >= NodeRank(s, Ptr(t))  BY <2>6, <3>4, <3>5, <3>6
      <4> QED BY <2>3, <3>2, <3>3, <4>1
    <3>7. CASE j \in Q2 \ Q1
      <4>1. j \notin Live(m) /\ NodeRank(s, j) >= NodeRank(s, Ptr(d))  BY <2>11, <3>4, <3>5, <3>7
      <4> QED BY <2>3, <3>2, <3>3, <4>1
    <3> QED BY <3>1, <3>6, <3>7
  <2>17. /\ S \subseteq Q /\ Q \subseteq Live(q) /\ Live(s) \subseteq Live(q)
         /\ Live(q) \subseteq Live(s) \cup Q
    BY <1>5, <2>2, <2>6, <2>11, <2>13
  <2>18. q.node[k].ref > 0  BY <2>13 DEF Live
  <2> HIDE DEF Q
  <2>19. BroughtBack(s, S, h, e, q, Q)
    BY <2>12, <2>15, <2>16, <2>17, <2>18 DEF BroughtBack, g, k
  <2> QED BY <2>19 DEF BringsBack
<1> QED BY <1>7, <1>8, <1>9

(* So every call of a run does, by the absence of a lowest one that does   *)
(* not.                                                                    *)
LEMMA RunBringsBack ==
  ASSUME NEW C, ReclaimRun(C), NEW s, NEW S, NEW h, NEW e, NEW q,
         Visit(s, e, q) \in C, Reclaimable(s, S, h, e)
  PROVE  BringsBack(s, S, h, e, q)
<1> DEFINE Fails(a, A, g, f, b) ==
             Visit(a, f, b) \in C /\ Reclaimable(a, A, g, f) /\ ~BringsBack(a, A, g, f, b)
           Bad == {i \in 1 .. TERMID + 1 :
                     \E a, A, g, f, b : Fails(a, A, g, f, b)
                                        /\ NodeRank(a, Ptr(f)) = TERMID + 1 - i}
<1>1. TERMID \in Nat  BY DEF TERMID
<1>2. ASSUME NEW a, NEW A, NEW g, NEW f, NEW b, Fails(a, A, g, f, b)
      PROVE  /\ NodeRank(a, Ptr(f)) \in 0 .. TERMID
             /\ TERMID + 1 - NodeRank(a, Ptr(f)) \in Bad
  <2>1. NodeRank(a, Ptr(f)) \in 0 .. TERMID  BY <1>2, RankFalls DEF Reclaimable
  <2> DEFINE n == NodeRank(a, Ptr(f))
             i == TERMID + 1 - n
  <2> HIDE DEF n
  <2>2. i \in 1 .. TERMID + 1 /\ n = TERMID + 1 - i  BY <1>1, <2>1 DEF n
  <2>3. i \in Bad  BY <1>2, <2>2 DEF n
  <2> QED BY <2>1, <2>3 DEF n
<1>3. Bad = {}
  <2> SUFFICES ASSUME Bad # {} PROVE FALSE  OBVIOUS
  <2>1. PICK i \in Bad : \A j \in Bad : i <= j
    <3>1. Bad \in SUBSET (1 .. TERMID + 1)  OBVIOUS
    <3>2. TERMID + 1 \in Nat  BY <1>1
    <3> HIDE DEF Bad
    <3> QED BY <3>1, <3>2, LeastElement
  <2>2. PICK a, A, g, f, b : Fails(a, A, g, f, b) /\ NodeRank(a, Ptr(f)) = TERMID + 1 - i
    BY <2>1
  <2>3. i \in 1 .. TERMID + 1  BY <2>1
  <2> HIDE DEF Bad, Fails
  <2>4. ASSUME NEW a1, NEW A1, NEW g1, NEW f1, NEW b1, Fails(a1, A1, g1, f1, b1),
               NodeRank(a1, Ptr(f1)) > NodeRank(a, Ptr(f))
        PROVE  FALSE
    <3>1. NodeRank(a1, Ptr(f1)) \in 0 .. TERMID
          /\ i <= TERMID + 1 - NodeRank(a1, Ptr(f1))
      BY <1>2, <2>1, <2>4
    <3> QED BY <1>1, <2>2, <2>3, <2>4, <3>1
  <2>5. /\ Reclaimable(a, A, g, f) /\ ~BringsBack(a, A, g, f, b) /\ Reclaiming(C, a, f, b)
    BY <2>2 DEF Fails, ReclaimRun
  <2>6. \A a1, A1, g1, f1, b1 :
          /\ Visit(a1, f1, b1) \in C /\ Reclaimable(a1, A1, g1, f1)
          /\ NodeRank(a1, Ptr(f1)) > NodeRank(a, Ptr(f))
          => BringsBack(a1, A1, g1, f1, b1)
    BY <2>4 DEF Fails
  <2> QED BY <2>5, <2>6, BringsBackStep
<1> QED BY <1>2, <1>3

(* A result from the computed table, alive or dead, to which a reference   *)
(* is taken: every count is right again, also below a node that was dead,  *)
(* and nothing else has changed.                                           *)
THEOREM ResultRevived ==
  ASSUME NEW s, NEW h, Kept(s, h), NEW R \in Edge, Ptr(R) \in DOMAIN s.node,
         NEW q, Revives(s, R, q)
  PROVE  LET o == Assign(q, R)
         IN o.r = R /\ Owned(s, h, o) /\ Recounts(s, o.s, Plus(h, Ptr(R))) /\ SameCache(s, o.s)
<1> DEFINE o == Assign(q, R)
           z == IncrRef(q, R)
           k == Ptr(R)
           t == s.node[k].t
           d == s.node[k].e
           L == Live(s)
<1>1. Stage(s, L, h) /\ Diagram(s) /\ IsStore(s) /\ k \in Nat /\ L \subseteq DOMAIN s.node
  BY EdgeFacts DEF Kept, Stage, Live, Nodes
<1>2. o.r = R /\ o.s = z  BY DEF Assign, Pair
<1> HIDE DEF o, z
<1>3. s.node[k].ref # 0 => s.node[k].ref > 0
  <2>1. s.node[k].ref \in 0 .. MaxRef  BY <1>1, StageFacts
  <2>2. MaxRef \in Nat  BY StoreConstants DEF StoreConstants
  <2> QED BY <2>1, <2>2
<1>4. (Dead(s, R) <=> s.node[k].ref = 0) /\ (Term(R) <=> k = 0)
  BY EdgeFacts DEF Dead, Ref, At
<1>5. SUFFICES \E Q : /\ L \subseteq Q /\ Stage(z, Q, Plus(h, k)) /\ SameLinks(s, z)
                      /\ SameCache(s, z) /\ Live(z) = Q
  <2>1. PICK Q : /\ L \subseteq Q /\ Stage(z, Q, Plus(h, k)) /\ SameLinks(s, z)
                 /\ SameCache(s, z) /\ Live(z) = Q
    BY <1>5
  <2>2. IsStore(z)  BY <2>1 DEF Stage
  <2>3. /\ Diagram(z)
        /\ \A x, I : Reads(z.node, Nodes(z), x, I) <=> Reads(s.node, Nodes(s), x, I)
    BY <1>1, <2>1, <2>2, DiagramSame
  <2>4. Kept(z, Plus(h, k))  BY <2>1, <2>3 DEF Kept
  <2>5. Recounts(s, z, Plus(h, k))  BY <2>1, <2>3, <2>4 DEF Recounts
  <2>6. Follows(s, z)  BY <1>1, <2>1 DEF Follows, SameLinks, L
  <2>7. Owned(s, h, o)  BY <1>2, <2>4, <2>6 DEF Owned
  <2> QED BY <1>2, <2>1, <2>5, <2>7 DEF o
<1>6. CASE ~(Dead(s, R) /\ ~Term(R))
  <2>1. q = s  BY <1>6 DEF Revives
  <2>2. /\ Stage(z, L, Plus(h, k)) /\ SameLinks(s, z) /\ SameCache(s, z)
        /\ \A m \in DOMAIN s.node : z.node[m].ref >= s.node[m].ref
        /\ \A m \in DOMAIN s.node \ {k} : z.node[m].ref = s.node[m].ref
        /\ z.node[k].ref > 0
    BY <1>1, <2>1, IncrStage, CountsKeepCache DEF z
  <2>3. k = 0 \/ k \in L  BY <1>3, <1>4, <1>6 DEF L, Live, Nodes
  <2>4. Live(z) = L
    <3>1. DOMAIN z.node = DOMAIN s.node  BY <2>2 DEF SameLinks
    <3> QED BY <2>2, <2>3, <3>1 DEF L, Live, Nodes
  <2> QED BY <2>2, <2>4
<1>7. CASE Dead(s, R) /\ ~Term(R)
  <2>1. PICK C, m : ReclaimRun(C) /\ Visit(s, t, m) \in C /\ Visit(m, d, q) \in C
    BY <1>7 DEF Revives, At
  <2>2. k # 0 /\ k \in Nodes(s) /\ k \notin L
    <3>1. ~(s.node[k].ref > 0)  BY <1>4, <1>7
    <3> QED BY <1>4, <1>7, <3>1 DEF L, Live, Nodes
  <2>3. /\ t \in Edge /\ Ptr(t) \in DOMAIN s.node /\ d \in Edge /\ Ptr(d) \in DOMAIN s.node
        /\ NodeRank(s, Ptr(t)) > NodeRank(s, k) /\ NodeRank(s, Ptr(d)) > NodeRank(s, k)
        /\ NodeRank(s, k) \in Int
        /\ \A j \in DOMAIN s.node : NodeRank(s, j) \in Int
    BY <1>1, <2>2, BranchesBelow
  <2> HIDE DEF t, d, k, L
  <2>4. Reclaimable(s, L, h, t)  BY <1>1, <2>3 DEF Reclaimable, L
  <2>5. PICK Q1 : BroughtBack(s, L, h, t, m, Q1)
    BY <2>1, <2>4, RunBringsBack DEF BringsBack
  <2>6. /\ L \subseteq Q1 /\ Stage(m, Q1, Plus(h, Ptr(t))) /\ SameLinks(s, m) /\ SameCache(s, m)
        /\ Q1 \subseteq Live(m) /\ Live(s) \subseteq Live(m) /\ Live(m) \subseteq Live(s) \cup Q1
        /\ \A j \in Q1 \ L : j \notin Live(s) /\ NodeRank(s, j) >= NodeRank(s, Ptr(t))
    BY <2>5 DEF BroughtBack
  <2>7. DOMAIN m.node = DOMAIN s.node /\ IsStore(m)  BY <2>6 DEF SameLinks, Stage
  <2>8. Diagram(m)  BY <1>1, <2>6, <2>7, DiagramSame
  <2>9. Reclaimable(m, Q1, Plus(h, Ptr(t)), d)  BY <2>3, <2>6, <2>7, <2>8 DEF Reclaimable
  <2>10. PICK Q2 : BroughtBack(m, Q1, Plus(h, Ptr(t)), d, q, Q2)
    BY <2>1, <2>9, RunBringsBack DEF BringsBack
  <2>11. /\ Q1 \subseteq Q2 /\ Stage(q, Q2, Two(h, Ptr(t), Ptr(d)))
         /\ SameLinks(m, q) /\ SameCache(m, q)
         /\ Q2 \subseteq Live(q) /\ Live(m) \subseteq Live(q) /\ Live(q) \subseteq Live(m) \cup Q2
         /\ \A j \in Q2 \ Q1 : j \notin Live(m) /\ NodeRank(m, j) >= NodeRank(m, Ptr(d))
    BY <2>10 DEF BroughtBack, Two
  <2>12. /\ DOMAIN q.node = DOMAIN s.node /\ SameLinks(s, q) /\ SameCache(s, q)
         /\ IsStore(q)
    BY <2>6, <2>7, <2>11, SameLinksChain, SameCacheChain DEF SameLinks, Stage
  <2>13. k \notin Q2
    <3>1. \A j \in DOMAIN s.node : NodeRank(m, j) = NodeRank(s, j)  BY <2>6, SameRanks
    <3>2. k \in DOMAIN s.node  BY <2>2 DEF Nodes
    <3>3. k \notin Q1 \ L
      <4> SUFFICES ASSUME k \in Q1 \ L PROVE FALSE  OBVIOUS
      <4>1. NodeRank(s, k) >= NodeRank(s, Ptr(t))  BY <2>6
      <4> QED BY <2>3, <3>2, <4>1
    <3>4. k \notin Q2 \ Q1
      <4> SUFFICES ASSUME k \in Q2 \ Q1 PROVE FALSE  OBVIOUS
      <4>1. NodeRank(s, k) >= NodeRank(s, Ptr(d))  BY <2>3, <2>11, <3>1, <3>2
      <4> QED BY <2>3, <3>2, <4>1
    <3> QED BY <2>2, <3>3, <3>4
  <2> DEFINE g == Two(h, Ptr(t), Ptr(d))
             Q == Q2 \cup {k}
  <2>14. Stage(q, Q2, g) /\ k \in DOMAIN q.node  BY <2>2, <2>11, <2>12 DEF Nodes
  <2> HIDE DEF g
  <2>15. /\ Stage(z, Q2, Plus(g, k)) /\ SameLinks(q, z) /\ SameCache(q, z)
         /\ \A j \in DOMAIN q.node : z.node[j].ref >= q.node[j].ref
         /\ \A j \in DOMAIN q.node \ {k} : z.node[j].ref = q.node[j].ref
         /\ z.node[k].ref > 0
    BY <2>12, <2>14, IncrStage, CountsKeepCache DEF z, k
  <2>16. /\ SameLinks(s, z) /\ SameCache(s, z) /\ DOMAIN z.node = DOMAIN s.node
    BY <2>12, <2>15, SameLinksChain, SameCacheChain DEF SameLinks
  <2>17. Stage(z, Q, Plus(h, k))
    <3>1. z.node[k].t = t /\ z.node[k].e = d
      BY <2>2, <2>16 DEF SameLinks, SameLink, Nodes, t, d
    <3>2. h \in [Nat -> Nat] /\ Ptr(t) \in Nat /\ Ptr(d) \in Nat
      BY <1>1, <2>3, EdgeFacts DEF Stage
    <3>3. Plus(h, k) \in [Nat -> Nat]  BY <1>1, <3>2, PlusFacts
    <3>4. Plus(g, k) = Two(Plus(h, k), Ptr(t), Ptr(d))  BY <1>1, <3>2, PlusLast DEF g
    <3>5. k \in DOMAIN z.node \ {0}  BY <2>2, <2>16 DEF Nodes
    <3> QED BY <2>3, <2>13, <2>15, <2>16, <3>1, <3>3, <3>4, <3>5, AttachStage
  <2>18. Live(z) = Q
    <3>1. Live(q) = Q2
      <4>1. Live(m) = Q1  BY <2>6 DEF L
      <4> QED BY <2>11, <4>1
    <3>2. Nodes(z) = Nodes(q) /\ k \in Nodes(q)  BY <2>2, <2>12, <2>16 DEF Nodes
    <3> QED BY <2>12, <2>15, <2>16, <3>1, <3>2 DEF Live, Nodes
  <2>19. L \subseteq Q  BY <2>6, <2>11
  <2> HIDE DEF Q
  <2> QED BY <2>16, <2>17, <2>18, <2>19 DEF k
<1> QED BY <1>6, <1>7

(* What a call promises whose caller has the reference.                    *)
Releasable(s, h, e) == Kept(s, h) /\ e \in Edge /\ h[Ptr(e)] > 0
Releases(s, h, e, q) == Recounts(s, q, Less(h, Ptr(e))) /\ SameCache(s, q)

LEMMA ReleasesStep ==
  ASSUME NEW s, NEW h, NEW e, Releasable(s, h, e),
         NEW C, NEW q, Freeing(C, s, e, q),
         \A a, g, f, b : /\ Visit(a, f, b) \in C /\ Releasable(a, g, f)
                         /\ NodeRank(a, Ptr(f)) > NodeRank(s, Ptr(e))
                         => Releases(a, g, f, b)
  PROVE  Releases(s, h, e, q)
<1> DEFINE k == Ptr(e)
           z == DecrRef(s, e)
           g == Less(h, k)
           t == s.node[k].t
           d == s.node[k].e
<1>1. /\ Kept(s, h) /\ Diagram(s) /\ IsStore(s) /\ e \in Edge /\ h[k] > 0
      /\ h \in [Nat -> Nat] /\ k \in Nat
  BY EdgeFacts DEF Releasable, Kept, Stage
<1>2. k \in DOMAIN s.node /\ s.node[k].ref > 0  BY <1>1, HeldInUse
<1>3. ~Dead(s, e)  BY <1>2 DEF Dead, Ref, At
<1>4. Term(e) <=> k = 0  BY <1>1, EdgeFacts
<1>5. SameCache(s, z)  BY <1>1, CountsKeepCache
<1>6. /\ k # 0 /\ Dead(z, e) => Recounts(s, z, Two(g, Ptr(t), Ptr(d)))
      /\ ~(k # 0 /\ Dead(z, e)) => Recounts(s, z, g)
  BY <1>1, ReferenceReleased
<1>7. Frozen(s, e) => z = s  BY DEF DecrRef, DecrFrom, Frozen
<1>8. CASE ~(k # 0 /\ Dead(z, e))
  <2>1. q = z  BY <1>3, <1>4, <1>7, <1>8 DEF Freeing
  <2> QED BY <1>5, <1>6, <1>8, <2>1 DEF Releases
<1>9. CASE k # 0 /\ Dead(z, e)
  <2>1. ~Frozen(s, e)  BY <1>3, <1>7, <1>9
  <2>2. PICK m : Visit(z, t, m) \in C /\ Visit(m, d, q) \in C
    BY <1>3, <1>4, <1>9, <2>1 DEF Freeing, At
  <2>3. k \in Nodes(s)  BY <1>2, <1>9 DEF Nodes
  <2>4. /\ t \in Edge /\ Ptr(t) \in DOMAIN s.node /\ d \in Edge /\ Ptr(d) \in DOMAIN s.node
        /\ NodeRank(s, Ptr(t)) > NodeRank(s, k) /\ NodeRank(s, Ptr(d)) > NodeRank(s, k)
        /\ Ptr(t) \in Nat /\ Ptr(d) \in Nat
    BY <1>1, <2>3, BranchesBelow, EdgeFacts
  <2> DEFINE f == Two(g, Ptr(t), Ptr(d))
  <2> HIDE DEF t, d, k, z
  <2>5. Recounts(s, z, f)  BY <1>6, <1>9
  <2>6. Kept(z, f) /\ SameLinks(s, z)  BY <2>5 DEF Recounts
  <2>7. g \in [Nat -> Nat]
    <3>1. \A n \in Nat : g[n] = IF n = k THEN h[k] - 1 ELSE h[n]  BY <1>1 DEF Less
    <3>2. DOMAIN g = Nat  BY <1>1 DEF Less
    <3>3. \A n \in Nat : g[n] \in Nat  BY <1>1, <3>1
    <3>4. g = [n \in Nat |-> g[n]]  BY <1>1, <3>2 DEF Less
    <3> HIDE DEF g
    <3> QED BY <3>3, <3>4
  <2> HIDE DEF g
  <2>8. /\ f[Ptr(t)] > 0 /\ Less(f, Ptr(t)) = Plus(g, Ptr(d))
        /\ Plus(g, Ptr(d))[Ptr(d)] > 0 /\ Less(Plus(g, Ptr(d)), Ptr(d)) = g
    BY <2>4, <2>7, TwoDown
  <2> HIDE DEF f
  <2>9. Releases(z, f, t, m)
    <3>1. NodeRank(z, Ptr(t)) > NodeRank(s, k)  BY <2>4, <2>6, SameRanks
    <3>2. Releasable(z, f, t)  BY <2>4, <2>6, <2>8 DEF Releasable
    <3> QED BY <2>2, <3>1, <3>2 DEF k
  <2>10. /\ Recounts(z, m, Plus(g, Ptr(d))) /\ SameCache(z, m)
         /\ Kept(m, Plus(g, Ptr(d))) /\ SameLinks(z, m)
    BY <2>8, <2>9 DEF Releases, Recounts
  <2>11. SameLinks(s, m) /\ SameCache(s, m)
    BY <1>5, <2>6, <2>10, SameLinksChain, SameCacheChain
  <2>12. Releases(m, Plus(g, Ptr(d)), d, q)
    <3>1. NodeRank(m, Ptr(d)) > NodeRank(s, k)  BY <2>4, <2>11, SameRanks
    <3>2. Releasable(m, Plus(g, Ptr(d)), d)  BY <2>4, <2>8, <2>10 DEF Releasable
    <3> QED BY <2>2, <3>1, <3>2 DEF k
  <2>13. Recounts(m, q, g) /\ SameCache(m, q) /\ SameLinks(m, q)
    BY <2>8, <2>12 DEF Releases, Recounts
  <2>14. SameLinks(s, q) /\ SameCache(s, q)
    BY <2>11, <2>13, SameLinksChain, SameCacheChain
  <2>15. Recounts(s, q, g)  BY <2>5, <2>10, <2>13, <2>14 DEF Recounts
  <2> QED BY <2>14, <2>15 DEF Releases, g, k
<1> QED BY <1>8, <1>9

(* bdd_free, with all that it goes on to: in the end every count is right, *)
(* and only the reference that was to be given up is gone.                 *)
THEOREM FreeReleases ==
  ASSUME NEW C, FreeRun(C), NEW s, NEW e, NEW q, Visit(s, e, q) \in C,
         NEW h, Kept(s, h), e \in Edge, h[Ptr(e)] > 0
  PROVE  Recounts(s, q, Less(h, Ptr(e))) /\ SameCache(s, q)
<1> DEFINE Fails(a, g, f, b) ==
             Visit(a, f, b) \in C /\ Releasable(a, g, f) /\ ~Releases(a, g, f, b)
           Bad == {i \in 1 .. TERMID + 1 :
                     \E a, g, f, b : Fails(a, g, f, b)
                                     /\ NodeRank(a, Ptr(f)) = TERMID + 1 - i}
<1>1. TERMID \in Nat  BY DEF TERMID
<1>2. ASSUME NEW a, NEW g, NEW f, NEW b, Fails(a, g, f, b)
      PROVE  /\ NodeRank(a, Ptr(f)) \in 0 .. TERMID
             /\ TERMID + 1 - NodeRank(a, Ptr(f)) \in Bad
  <2>1. Kept(a, g) /\ f \in Edge /\ g[Ptr(f)] > 0 /\ Ptr(f) \in Nat
    BY <1>2, EdgeFacts DEF Releasable
  <2>2. Ptr(f) \in DOMAIN a.node /\ Diagram(a)  BY <2>1, HeldInUse DEF Kept
  <2>3. NodeRank(a, Ptr(f)) \in 0 .. TERMID  BY <2>2, RankFalls
  <2> DEFINE n == NodeRank(a, Ptr(f))
             i == TERMID + 1 - n
  <2> HIDE DEF n
  <2>4. i \in 1 .. TERMID + 1 /\ n = TERMID + 1 - i  BY <1>1, <2>3 DEF n
  <2>5. i \in Bad  BY <1>2, <2>4 DEF n
  <2> QED BY <2>3, <2>5 DEF n
<1>3. Bad = {}
  <2> SUFFICES ASSUME Bad # {} PROVE FALSE  OBVIOUS
  <2>1. PICK i \in Bad : \A j \in Bad : i <= j
    <3>1. Bad \in SUBSET (1 .. TERMID + 1)  OBVIOUS
    <3>2. TERMID + 1 \in Nat  BY <1>1
    <3> HIDE DEF Bad
    <3> QED BY <3>1, <3>2, LeastElement
  <2>2. PICK a, g, f, b : Fails(a, g, f, b) /\ NodeRank(a, Ptr(f)) = TERMID + 1 - i
    BY <2>1
  <2>3. i \in 1 .. TERMID + 1  BY <2>1
  <2> HIDE DEF Bad, Fails
  <2>4. ASSUME NEW a1, NEW g1, NEW f1, NEW b1, Fails(a1, g1, f1, b1),
               NodeRank(a1, Ptr(f1)) > NodeRank(a, Ptr(f))
        PROVE  FALSE
    <3>1. NodeRank(a1, Ptr(f1)) \in 0 .. TERMID
          /\ i <= TERMID + 1 - NodeRank(a1, Ptr(f1))
      BY <1>2, <2>1, <2>4
    <3> QED BY <1>1, <2>2, <2>3, <2>4, <3>1
  <2>5. Releasable(a, g, f) /\ ~Releases(a, g, f, b) /\ Freeing(C, a, f, b)
    BY <2>2 DEF Fails, FreeRun
  <2>6. \A a1, g1, f1, b1 :
          /\ Visit(a1, f1, b1) \in C /\ Releasable(a1, g1, f1)
          /\ NodeRank(a1, Ptr(f1)) > NodeRank(a, Ptr(f))
          => Releases(a1, g1, f1, b1)
    BY <2>4 DEF Fails
  <2> QED BY <2>5, <2>6, ReleasesStep
<1>4. Releasable(s, h, e)  BY DEF Releasable
<1>5. Releases(s, h, e, q)  BY <1>2, <1>3, <1>4
<1> QED BY <1>5 DEF Releases

(* A reduced diagram shows no variable that its function does not depend   *)
(* on: the edge of the function IF f THEN g ELSE h is below each variable  *)
(* that f, g and h are below.                                              *)
LEMMA ResultBelow ==
  ASSUME NEW s, Diagram(s), NEW w \in DOMAIN s.rank, NEW y,
         Deeper(s, y.f, w), Deeper(s, y.g, w), Deeper(s, y.h, w),
         NEW R \in Edge, Ptr(R) \in DOMAIN s.node,
         \A x, I : Reads(s.node, Nodes(s), x, I) => (Holds(I, R) <=> Means(I, y))
  PROVE  Deeper(s, R, w)
<1> DEFINE k == Ptr(R)
           v == s.node[k].v
           t == s.node[k].t
           d == s.node[k].e
<1>1. /\ TERMID \in Nat /\ s.node[0].v = TERMID
      /\ \A u \in DOMAIN s.rank : u # TERMID /\ s.rank[u] \in 0 .. TERMID - 1
      /\ \A m \in DOMAIN s.node : NodeRank(s, m) \in 0 .. TERMID
  BY Ranked, RankFalls
<1>2. SUFFICES ASSUME NodeRank(s, k) <= s.rank[w] PROVE FALSE
  BY <1>1 DEF Deeper
<1>3. k # 0
  <2>1. NodeRank(s, 0) = TERMID  BY <1>1 DEF NodeRank, VarRank
  <2> QED BY <1>1, <1>2, <2>1
<1>4. k \in Nodes(s)  BY <1>3 DEF Nodes
<1>5. v \in DOMAIN s.rank /\ t # d  BY <1>4 DEF Diagram
<1>6. /\ t \in Edge /\ Ptr(t) \in DOMAIN s.node /\ d \in Edge /\ Ptr(d) \in DOMAIN s.node
      /\ NodeRank(s, Ptr(t)) > NodeRank(s, k) /\ NodeRank(s, Ptr(d)) > NodeRank(s, k)
  BY <1>4, BranchesBelow
<1>7. NodeRank(s, k) = s.rank[v]  BY <1>1, <1>5 DEF NodeRank, VarRank
<1> HIDE DEF k, v, t, d
<1>8. PICK x, I : Reads(s.node, Nodes(s), x, I) /\ ~(Holds(I, t) <=> Holds(I, d))
  BY <1>5, <1>6, EqualFunctions DEF SameFunction
<1> DEFINE a == x \cup {v}
           b == x \ {v}
<1>9. PICK A : Reads(s.node, Nodes(s), a, A)  BY ReadingExists
<1>10. PICK B : Reads(s.node, Nodes(s), b, B)  BY ReadingExists
<1>11. \A u \in DOMAIN s.rank \ {v} : u \in x <=> u \in a  OBVIOUS
<1>12. \A u \in DOMAIN s.rank \ {v} : u \in x <=> u \in b  OBVIOUS
<1>13. v \in a /\ v \notin b  OBVIOUS
<1> HIDE DEF a, b
<1>14. \A m \in DOMAIN s.node : NodeRank(s, m) > s.rank[v] => (m \in A <=> m \in I)
  BY <1>5, <1>8, <1>9, <1>11, Independent
<1>15. \A m \in DOMAIN s.node : NodeRank(s, m) > s.rank[v] => (m \in B <=> m \in I)
  BY <1>5, <1>8, <1>10, <1>12, Independent
<1>16. (Holds(A, t) <=> Holds(I, t)) /\ (Holds(B, d) <=> Holds(I, d))
  BY <1>6, <1>7, <1>14, <1>15 DEF Holds
<1>17. k \in A <=> Holds(A, t)
  BY <1>4, <1>9, <1>13 DEF Reads, Chosen, v, t
<1>18. k \in B <=> Holds(B, d)
  BY <1>4, <1>10, <1>13 DEF Reads, Chosen, v, d
<1>19. Holds(A, R) <=> ~Holds(B, R)  BY <1>8, <1>16, <1>17, <1>18 DEF Holds, k
<1>20. ASSUME NEW g, Deeper(s, g, w) PROVE Holds(A, g) <=> Holds(B, g)
  <2>1. Ptr(g) \in DOMAIN s.node /\ NodeRank(s, Ptr(g)) > s.rank[w]  BY <1>20 DEF Deeper
  <2>2. NodeRank(s, Ptr(g)) > s.rank[v]  BY <1>1, <1>2, <1>5, <1>7, <2>1
  <2> QED BY <1>14, <1>15, <2>1, <2>2 DEF Holds
<1>21. Means(A, y) <=> Means(B, y)  BY <1>20 DEF Means
<1> QED BY <1>9, <1>10, <1>19, <1>21

------------------------------------------------------------------------------
(* The computed table, through one call.                                    *)

(* A table stays right when nodes are added.                               *)
LEMMA CacheKeeps ==
  ASSUME NEW s, Diagram(s), CacheRight(s), NEW q, Diagram(q),
         DOMAIN s.node \subseteq DOMAIN q.node,
         \A m \in DOMAIN s.node : SameLink(q.node[m], s.node[m]),
         "cache" \in DOMAIN q, SameCache(s, q)
  PROVE  CacheRight(q)
<1>1. /\ "cache" \in DOMAIN s /\ s.cache \in [DOMAIN s.cache -> Entry]
      /\ CacheSize(s) \in Nat \ {0} /\ DOMAIN s.cache = 0 .. CacheSize(s) - 1
      /\ \A i \in DOMAIN s.cache : EntryRight(s, s.cache[i])
  BY DEF CacheRight
<1>2. q.cache = s.cache  BY <1>1 DEF SameCache
<1>3. CacheSize(q) = CacheSize(s)  BY <1>2 DEF CacheSize
<1>4. ASSUME NEW i \in DOMAIN s.cache PROVE EntryRight(q, s.cache[i])
  <2> DEFINE z == s.cache[i]
  <2>1. EntryRight(s, z)  BY <1>1
  <2> HIDE DEF z
  <2>2. CASE z.R = VOID  BY <2>2 DEF EntryRight, z
  <2>3. CASE z.R # VOID
    <3>1. \A e \in EntryEdges(z) : Ptr(e) \in DOMAIN s.node  BY <2>1, <2>3 DEF EntryRight
    <3>2. \A e \in EntryEdges(z) : Ptr(e) \in DOMAIN q.node  BY <3>1
    <3>3. ASSUME NEW x, NEW I, NEW J, Reads(s.node, Nodes(s), x, I), Reads(q.node, Nodes(q), x, J)
          PROVE  \A e \in EntryEdges(z) : Holds(J, e) <=> Holds(I, e)
      <4>1. Agree(DOMAIN s.node, I, J)  BY <3>3, ReadOn
      <4> QED BY <3>1, <4>1, HoldsSame
    <3>4. EntryRight(q, z)  BY <2>1, <3>2, <3>3, EntryStays
    <3> QED BY <3>4 DEF z
  <2> QED BY <2>2, <2>3
<1> QED BY <1>1, <1>2, <1>3, <1>4 DEF CacheRight

(* Another reference does not change it.                                   *)
LEMMA AssignCache ==
  ASSUME NEW s, NEW h, Kept(s, h), NEW e, InUse(s, e), CacheRight(s)
  PROVE  CacheRight(Assign(s, e).s)
<1> DEFINE q == IncrRef(s, e)
<1>1. Stage(s, Live(s), h) /\ Diagram(s)  BY DEF Kept
<1>2. e \in Edge /\ Ptr(e) \in DOMAIN s.node
  BY <1>1 DEF InUse, Live, Nodes, Stage, IsStore
<1>3. Stage(q, Live(s), Plus(h, Ptr(e))) /\ SameLinks(s, q)  BY <1>1, <1>2, IncrStage
<1>4. SameCache(s, q)  BY CountsKeepCache
<1> HIDE DEF q
<1>5. IsStore(q) /\ DOMAIN q = DOMAIN s /\ DOMAIN q.node = DOMAIN s.node
  BY <1>3 DEF Stage, SameLinks, SameOrder
<1>6. Diagram(q)  BY <1>1, <1>3, <1>5, DiagramSame
<1>7. "cache" \in DOMAIN q  BY <1>5 DEF CacheRight
<1>8. CacheRight(q)  BY <1>1, <1>3, <1>4, <1>5, <1>6, <1>7, CacheKeeps DEF SameLinks
<1> QED BY <1>8 DEF Assign, Pair, q

LEMMA RemembersRight ==
  ASSUME NEW s, CacheRight(s), NEW q, Remembers(s, q)
  PROVE  CacheRight(q)
<1>1. "cache" \in DOMAIN q  BY DEF CacheRight, Remembers, SameStore, SameOrder
<1>2. \A z : EntryRight(s, z) => EntryRight(q, z)
  BY DEF EntryRight, Nodes, Remembers, SameStore
<1>3. ASSUME NEW i \in DOMAIN q.cache PROVE EntryRight(q, q.cache[i])
  <2>1. CASE q.cache[i].R = VOID  BY <2>1 DEF EntryRight
  <2>2. CASE \E j \in DOMAIN s.cache : q.cache[i] = s.cache[j]
    BY <1>2, <2>2 DEF CacheRight
  <2> QED BY <2>1, <2>2 DEF Remembers
<1> QED BY <1>1, <1>3 DEF CacheRight, Remembers

(* What is entered in the table does not matter to the nodes.              *)
LEMMA CacheFields ==
  ASSUME NEW s, IsStore(s), NEW c
  PROVE  SameStore(s, [s EXCEPT !.cache = c])
BY DEF SameStore, SameOrder, IsStore

LEMMA FlushFields ==
  ASSUME NEW s, IsStore(s)
  PROVE  SameStore(s, FlushComputedTable(s))
<1>1. \E c : FlushComputedTable(s) = [s EXCEPT !.cache = c]  BY DEF FlushComputedTable
<1> QED BY <1>1, CacheFields

(* A sweep does not look at it.                                            *)
LEMMA SweepAlike ==
  ASSUME NEW s, NEW h, Kept(s, h)
  PROVE  SameStore(Sweep(s), Sweep(FlushComputedTable(s)))
<1> DEFINE f == FlushComputedTable(s)
<1>1. Stage(s, Live(s), h) /\ IsStore(s)  BY DEF Kept, Stage
<1>2. SameStore(s, f)  BY <1>1, FlushFields
<1> HIDE DEF f
<1>3. Kept(f, h) /\ Live(f) = Live(s)  BY <1>2, SameStoreKept
<1>4. SweepFields(s, Sweep(s)) /\ SweepFields(f, Sweep(f))
  BY <1>1, <1>3, Swept DEF Kept
<1> DEFINE a == Sweep(s)
           b == Sweep(f)
<1> HIDE DEF a, b
<1>5. f.node = s.node /\ f.dead = s.dead /\ f.frozen = s.frozen /\ Nodes(f) = Nodes(s)
      /\ DOMAIN f = DOMAIN s /\ f.space = s.space /\ f.rank = s.rank
  BY <1>2 DEF SameStore, SameOrder, Nodes
<1>6. SameStore(a, b)
  BY <1>3, <1>4, <1>5 DEF SweepFields, SameStore, SameOrder, a, b
<1> QED BY <1>6 DEF a, b, f

(* A node found or added leaves the table as it is.                        *)
LEMMA PickedCache ==
  ASSUME NEW s, NEW v, NEW T, NEW E, NEW p \in Picked(s, v, T, E)
  PROVE  SameCache(s, p.s) /\ DOMAIN p.s = DOMAIN s
<1>1. ASSUME NEW a, NEW b PROVE SameCache(s, Assign(a, b).s) /\ DOMAIN Assign(a, b).s = DOMAIN s
                                <=> SameCache(s, IncrRef(a, b)) /\ DOMAIN IncrRef(a, b) = DOMAIN s
  BY DEF Assign, Pair
<1>2. ASSUME NEW a, SameCache(s, a), DOMAIN a = DOMAIN s, NEW b
      PROVE  SameCache(s, IncrRef(a, b)) /\ DOMAIN IncrRef(a, b) = DOMAIN s
  BY <1>2, CountsKeepCache DEF SameCache
<1>3. SameCache(s, s)  BY DEF SameCache
<1>4. ASSUME NEW n PROVE SameCache(s, FoundNode(s, n).s) /\ DOMAIN FoundNode(s, n).s = DOMAIN s
  <2> DEFINE a == IncrRef(s, s.node[n].t)
             b == IncrRef(a, s.node[n].e)
             c == IF Dead(s, 2 * n) THEN b ELSE s
  <2>1. SameCache(s, a) /\ DOMAIN a = DOMAIN s  BY <1>2, <1>3
  <2> HIDE DEF a
  <2>2. SameCache(s, b) /\ DOMAIN b = DOMAIN s  BY <1>2, <2>1
  <2> HIDE DEF b
  <2>3. SameCache(s, c) /\ DOMAIN c = DOMAIN s  BY <1>3, <2>2
  <2>4. FoundNode(s, n) = Assign(c, 2 * n)  BY DEF FoundNode, c, b, a
  <2> HIDE DEF c
  <2> QED BY <1>1, <1>2, <2>3, <2>4
<1>5. SameCache(s, AllocNode(s, v, T, E).s) /\ DOMAIN AllocNode(s, v, T, E).s = DOMAIN s
  <2> DEFINE n == FreshAddress(s)
             new == [v |-> v, t |-> T, e |-> E, ref |-> 1]
             nd == Table(WithNode(s.node, n, new))
             a == [s EXCEPT !.node = nd]
             b == IncrRef(a, new.t)
             c == IncrRef(b, new.e)
  <2>1. AllocNode(s, v, T, E).s = c  BY DEF AllocNode, LinkNode, Pair
  <2> HIDE DEF nd, new
  <2>2. SameCache(s, a) /\ DOMAIN a = DOMAIN s  BY DEF SameCache
  <2> HIDE DEF a
  <2>3. SameCache(s, b) /\ DOMAIN b = DOMAIN s  BY <1>2, <2>2
  <2> HIDE DEF b
  <2>4. SameCache(s, c) /\ DOMAIN c = DOMAIN s  BY <1>2, <2>3
  <2> QED BY <2>1, <2>4
<1> QED BY <1>4, <1>5 DEF Picked

(* So bdd_create_node keeps the table right.                               *)
LEMMA NodeInFor ==
  ASSUME NEW s, NEW h, Kept(s, h), CacheRight(s), NEW v \in DOMAIN s.rank,
         NEW T, Branchable(s, v, T), NEW E, Branchable(s, v, E),
         NEW o, NodeIn(s, v, T, E, o)
  PROVE  NodeFor(s, v, T, E, o) /\ CacheRight(o.s)
<1>1. Diagram(s) /\ InUse(s, T)  BY DEF Kept, Branchable
<1>2. CASE T = E
  <2>1. o = Assign(s, T)  BY <1>2 DEF NodeIn
  <2> QED BY <1>1, <1>2, <2>1, AssignCache DEF NodeFor
<1>3. CASE T # E
  <2>1. PICK p \in Picked(s, v, Pos(T), SetNeg(E, Neg(T))) :
          /\ o.r = SetNeg(p.r, Neg(T))
          /\ \E t \in {p.s, Sweep(FlushComputedTable(p.s))} : Remembers(t, o.s)
    BY <1>3 DEF NodeIn
  <2>2. PICK t \in {p.s, Sweep(FlushComputedTable(p.s))} : Remembers(t, o.s)  BY <2>1
  <2> DEFINE q == Negate(p, Neg(T))
             n == Ptr(q.r)
  <2>3. Constructs(s, h, v, T, E, q)  BY <1>3, NodeMade
  <2>4. q.s = p.s  BY DEF Negate, Pair
  <2> HIDE DEF q
  <2>5. Kept(p.s, Plus(h, n)) /\ Keeps(s, p.s)  BY <2>3, <2>4 DEF Constructs
  <2>6. SameCache(s, p.s) /\ DOMAIN p.s = DOMAIN s  BY PickedCache
  <2>7. CacheRight(p.s)
    <3>1. "cache" \in DOMAIN p.s  BY <2>6 DEF CacheRight
    <3>2. Diagram(p.s)  BY <2>5 DEF Kept
    <3> QED BY <1>1, <2>5, <2>6, <3>1, <3>2, CacheKeeps DEF Keeps
  <2>8. CacheRight(t)
    <3>1. CacheRight(Sweep(FlushComputedTable(p.s)))  BY <2>5, <2>7, CollectionKeepsCache
    <3> QED BY <2>2, <2>7, <3>1
  <2>9. CacheRight(o.s)  BY <2>2, <2>8, RemembersRight
  <2>10. Tidied(p.s, o.s)
    <3>1. SameStore(t, o.s)  BY <2>2 DEF Remembers
    <3>2. CASE t = p.s  BY <3>1, <3>2 DEF Tidied
    <3>3. CASE t = Sweep(FlushComputedTable(p.s))
      <4>1. SameStore(Sweep(p.s), t)  BY <2>5, <3>3, SweepAlike
      <4>2. SameStore(Sweep(p.s), o.s)  BY <3>1, <4>1 DEF SameStore, SameOrder
      <4> QED BY <4>2 DEF Tidied
    <3> QED BY <2>2, <3>2, <3>3
  <2>11. NodeFor(s, v, T, E, o)  BY <1>3, <2>1, <2>10 DEF NodeFor
  <2> QED BY <2>9, <2>11
<1> QED BY <1>2, <1>3

(* What a call of bdd_ite_aux is to do in full, the computed table too.    *)
Completes(s, h, y, p) == Delivers(s, h, y, p) /\ CacheRight(p.s)

(* Such a call may enter its result in the table.                          *)
LEMMA InsertCompletes ==
  ASSUME NEW s, NEW h, Kept(s, h), NEW y, IsTriple(y), TripleInUse(s, y),
         NEW p, Completes(s, h, y, p)
  PROVE  Completes(s, h, y, Pair(Insert(p.s, y.f, y.g, y.h, p.r), p.r))
<1> DEFINE q == Insert(p.s, y.f, y.g, y.h, p.r)
           o == Pair(q, p.r)
<1>1. Delivers(s, h, y, p) /\ CacheRight(p.s)  BY DEF Completes
<1>2. CacheRight(q)  BY <1>1, ResultCached
<1>3. /\ p.r \in Edge /\ Kept(p.s, Plus(h, Ptr(p.r))) /\ Follows(s, p.s)
  BY <1>1 DEF Delivers, Owned
<1>4. SameStore(p.s, q)
  <2> DEFINE k == Slot(CacheSize(p.s), y.f, y.g, y.h)
             z == [F |-> y.f, G |-> y.g, H |-> y.h, R |-> p.r]
             a == p.s
             c == [a.cache EXCEPT ![k] = z]
  <2>1. q = [a EXCEPT !.cache[k] = z]  BY DEF Insert
  <2>2. q = [a EXCEPT !.cache = c]
    <3> HIDE DEF k, z, a
    <3> QED BY <2>1
  <2>3. IsStore(a)  BY <1>3 DEF Kept, Stage
  <2> HIDE DEF c, a
  <2>4. SameStore(a, q)  BY <2>2, <2>3, CacheFields
  <2> QED BY <2>4 DEF a
<1> HIDE DEF q
<1>5. o.s = q /\ o.r = p.r  BY DEF Pair
<1> HIDE DEF o
<1>6. Kept(q, Plus(h, Ptr(p.r))) /\ Live(q) = Live(p.s)  BY <1>3, <1>4, SameStoreKept
<1>7. q.node = p.s.node /\ SameOrder(p.s, q) /\ Nodes(q) = Nodes(p.s)
  BY <1>4 DEF SameStore, Nodes
<1>8. Follows(s, q)  BY <1>3, <1>6, <1>7 DEF Follows, SameOrder
<1>9. Owned(s, h, o)  BY <1>3, <1>5, <1>6, <1>8 DEF Owned
<1>10. \A w : Deeper(p.s, p.r, w) => Deeper(o.s, o.r, w)
  BY <1>5, <1>7 DEF Deeper, NodeRank, VarRank, SameOrder
<1>11. Delivers(s, h, y, o)  BY <1>1, <1>5, <1>7, <1>9, <1>10 DEF Delivers
<1> QED BY <1>2, <1>5, <1>11 DEF Completes, o, q

(* What is found there is a node in the store, of the function asked for.  *)
LEMMA FoundRight ==
  ASSUME NEW s, CacheRight(s), NEW y, IsTriple(y), LookupNoReclaim(s, y.f, y.g, y.h) # VOID
  PROVE  LET R == LookupNoReclaim(s, y.f, y.g, y.h)
         IN /\ R \in Edge /\ Ptr(R) \in DOMAIN s.node
            /\ \A x, I : Reads(s.node, Nodes(s), x, I) => (Holds(I, R) <=> Means(I, y))
<1> DEFINE R == LookupNoReclaim(s, y.f, y.g, y.h)
           k == Slot(CacheSize(s), y.f, y.g, y.h)
           z == s.cache[k]
<1>1. y.f \in Edge /\ y.g \in Edge /\ y.h \in Edge  BY DEF IsTriple
<1>2. k \in DOMAIN s.cache
  <2> DEFINE m == CacheSize(s)
  <2>1. m \in Nat \ {0} /\ DOMAIN s.cache = 0 .. m - 1  BY DEF CacheRight
  <2>2. y.f + 3 * y.g + 5 * y.h \in Nat  BY <1>1 DEF Edge
  <2>3. k = (y.f + 3 * y.g + 5 * y.h) % m  BY DEF Slot
  <2> HIDE DEF m, k
  <2> QED BY <2>1, <2>2, <2>3
<1>3. EntryRight(s, z)  BY <1>2 DEF CacheRight
<1> HIDE DEF k
<1>4. z.R = R /\ R # VOID /\ z.F = y.f /\ z.G = y.g /\ z.H = y.h
  <2>1. R = IF z.R # VOID /\ z.F = y.f /\ z.G = y.g /\ z.H = y.h THEN z.R ELSE VOID
    BY DEF LookupNoReclaim, k
  <2> HIDE DEF R, z
  <2>2. R # VOID  BY DEF R
  <2> QED BY <2>1, <2>2
<1> HIDE DEF R, z
<1>5. ~FuncP(z.F)  BY <1>1, <1>4 DEF FuncP, Edge
<1>6. R \in Edge /\ Ptr(R) \in DOMAIN s.node
  BY <1>3, <1>4 DEF EntryRight, EntryEdges
<1>7. \A x, I : Reads(s.node, Nodes(s), x, I) => (Holds(I, R) <=> Means(I, y))
  <2>1. \A x, I : Reads(s.node, Nodes(s), x, I) =>
          (Holds(I, z.R) <=> Means(I, Triple(z.F, z.G, z.H)))
    BY <1>3, <1>4, <1>5 DEF EntryRight
  <2> DEFINE u == Triple(z.F, z.G, z.H)
  <2>2. u.f = z.F /\ u.g = z.G /\ u.h = z.H  BY ThreeInside
  <2> HIDE DEF u
  <2>3. \A I : Means(I, u) <=> Means(I, y)  BY <1>4, <2>2 DEF Means
  <2> QED BY <1>4, <2>1, <2>3 DEF u
<1> QED BY <1>6, <1>7 DEF R

(* A call that finds its result there, dead or alive.                      *)
LEMMA HitCompletes ==
  ASSUME NEW s, NEW h, Kept(s, h), CacheRight(s), NEW y, IsTriple(y), TripleInUse(s, y),
         LookupNoReclaim(s, y.f, y.g, y.h) # VOID,
         NEW q, Revives(s, LookupNoReclaim(s, y.f, y.g, y.h), q)
  PROVE  Completes(s, h, y, Assign(q, LookupNoReclaim(s, y.f, y.g, y.h)))
<1> DEFINE R == LookupNoReclaim(s, y.f, y.g, y.h)
           o == Assign(q, R)
<1>1. y.f \in Edge /\ y.g \in Edge /\ y.h \in Edge /\ Diagram(s) /\ IsStore(s)
  BY DEF IsTriple, Kept, Stage
<1>2. /\ R \in Edge /\ Ptr(R) \in DOMAIN s.node /\ Revives(s, R, q)
      /\ \A x, I : Reads(s.node, Nodes(s), x, I) => (Holds(I, R) <=> Means(I, y))
  BY FoundRight
<1> HIDE DEF R
<1>3. o.r = R /\ Owned(s, h, o) /\ Recounts(s, o.s, Plus(h, Ptr(R))) /\ SameCache(s, o.s)
  BY <1>2, ResultRevived
<1> HIDE DEF o
<1>4. /\ Kept(o.s, Plus(h, Ptr(R))) /\ SameLinks(s, o.s) /\ Diagram(o.s) /\ Follows(s, o.s)
      /\ \A x, I : Reads(o.s.node, Nodes(o.s), x, I) <=> Reads(s.node, Nodes(s), x, I)
  BY <1>3 DEF Recounts, Kept, Owned
<1>5. CacheRight(o.s)
  <2>1. "cache" \in DOMAIN o.s  BY <1>4 DEF CacheRight, SameLinks, SameOrder
  <2> QED BY <1>1, <1>3, <1>4, <2>1, CacheKeeps DEF SameLinks
<1>6. ASSUME NEW w \in DOMAIN s.rank, TripleBelow(s, w, y)
      PROVE  Deeper(o.s, R, w)
  <2>1. Deeper(s, y.f, w) /\ Deeper(s, y.g, w) /\ Deeper(s, y.h, w)
    BY <1>6 DEF TripleBelow, Branchable
  <2>2. Deeper(s, R, w)  BY <1>1, <1>2, <2>1, ResultBelow
  <2>3. NodeRank(o.s, Ptr(R)) = NodeRank(s, Ptr(R))  BY <1>2, <1>4, SameRanks
  <2> QED BY <1>4, <2>2, <2>3 DEF Deeper, SameLinks, SameOrder
<1>7. ASSUME NEW x, NEW I, NEW J,
             Reads(s.node, Nodes(s), x, I), Reads(o.s.node, Nodes(o.s), x, J)
      PROVE  Holds(J, R) <=> Means(I, y)
  <2>1. Holds(J, R) <=> Means(J, y)  BY <1>2, <1>4, <1>7
  <2>2. \A e : InUse(s, e) => (Holds(J, e) <=> Holds(I, e))
    BY <1>4, <1>7, FollowsReads
  <2> QED BY <2>1, <2>2 DEF TripleInUse, Means
<1>8. Delivers(s, h, y, o)  BY <1>3, <1>6, <1>7 DEF Delivers
<1> QED BY <1>5, <1>8 DEF Completes, o, R

------------------------------------------------------------------------------
(* Whole runs of bdd_ite_aux.                                              *)

(* bdd_free, of a reference that is not the last, is BDD_DECR_REF.         *)
LEMMA FreeNoFurther ==
  ASSUME NEW F, FreeRun(F), NEW s, NEW e \in Edge, NEW q, Visit(s, e, q) \in F,
         NEW h, Kept(s, h), h[Ptr(e)] > 0, ~Dead(DecrRef(s, e), e)
  PROVE  q = DecrRef(s, e)
<1>1. Freeing(F, s, e, q)  BY DEF FreeRun
<1>2. ~Dead(s, e)
  <2>1. Ptr(e) \in Nat  BY EdgeFacts
  <2>2. s.node[Ptr(e)].ref > 0  BY <2>1, HeldInUse
  <2> QED BY <2>2 DEF Dead, Ref, At
<1>3. Frozen(s, e) => DecrRef(s, e) = s  BY DEF DecrRef, DecrFrom, Frozen
<1> QED BY <1>1, <1>2, <1>3 DEF Freeing

(* Three references, given up in turn.                                     *)
LEMMA ThreeHeld ==
  ASSUME NEW h \in [Nat -> Nat], NEW a \in Nat, NEW b \in Nat, NEW n \in Nat
  PROVE  LET f == Plus(Two(h, a, b), n)
         IN f[a] > 0 /\ Less(f, a) = Plus(Plus(h, n), b) /\ Less(f, a)[b] > 0
<1> DEFINE g == Plus(h, n)
<1>1. g \in [Nat -> Nat]  BY PlusFacts
<1>2. Plus(Two(h, a, b), n) = Two(g, a, b)  BY PlusLast
<1> HIDE DEF g
<1>3. /\ Two(g, a, b)[a] > 0 /\ Less(Two(g, a, b), a) = Plus(g, b) /\ Plus(g, b)[b] > 0
  BY <1>1, TwoDown
<1> QED BY <1>2, <1>3 DEF g

(* The results of the two recursive calls, as bdd_create_node gets them.   *)
LEMMA BranchesReady ==
  ASSUME NEW s, NEW h, Kept(s, h), NEW y, IsTriple(y), TripleInUse(s, y), ~Term(y.f),
         NEW p1, Completes(s, h, PosTriple(s, y, Top(s, y)), p1),
         NEW p2, Completes(p1.s, Plus(h, Ptr(p1.r)), NegTriple(s, y, Top(s, y)), p2)
  PROVE  LET v == s.space[Top(s, y)]
         IN /\ Kept(p2.s, Two(h, Ptr(p1.r), Ptr(p2.r))) /\ CacheRight(p2.s)
            /\ p1.r \in Edge /\ p2.r \in Edge /\ v \in DOMAIN p2.s.rank
            /\ Branchable(p2.s, v, p1.r) /\ Branchable(p2.s, v, p2.r)
<1> DEFINE r == Top(s, y)
           v == s.space[r]
           P == PosTriple(s, y, r)
           N == NegTriple(s, y, r)
           T == p1.r
           E == p2.r
           a == Ptr(T)
           b == Ptr(E)
<1>1. SplitAt(s, y, r, v)  BY IteSplits DEF Top
<1>2. /\ Delivers(s, h, P, p1) /\ CacheRight(p1.s)
      /\ Delivers(p1.s, Plus(h, a), N, p2) /\ CacheRight(p2.s)
  BY DEF Completes
<1> HIDE DEF P, N, v, r
<1>3. v \in DOMAIN s.rank /\ TripleBelow(s, v, P) /\ TripleBelow(s, v, N)
  BY <1>1 DEF SplitAt, P, N
<1>4. /\ Owned(s, h, p1) /\ Owned(p1.s, Plus(h, a), p2)
      /\ T \in Edge /\ Kept(p1.s, Plus(h, a)) /\ Follows(s, p1.s)
      /\ E \in Edge /\ Kept(p2.s, Two(h, a, b)) /\ Follows(p1.s, p2.s)
  BY <1>2 DEF Delivers, Owned, Two
<1>5. InUse(p1.s, T) /\ InUse(p2.s, E)  BY <1>4, OwnedInUse
<1>6. p1.s.rank = s.rank /\ p2.s.rank = s.rank  BY <1>4 DEF Follows, SameOrder
<1>7. TripleBelow(p1.s, v, N)  BY <1>3, <1>4, TripleFollows
<1>8. Branchable(p2.s, v, T)
  <2>1. Branchable(p1.s, v, T)  BY <1>2, <1>3, <1>5 DEF Delivers, Branchable
  <2> QED BY <1>4, <1>5, <2>1, FollowsBelow
<1>9. Branchable(p2.s, v, E)
  <2>1. Deeper(p2.s, E, v)  BY <1>2, <1>3, <1>6, <1>7 DEF Delivers
  <2> QED BY <1>5, <2>1 DEF Branchable
<1> QED BY <1>2, <1>3, <1>4, <1>6, <1>8, <1>9 DEF v, r

(* The references that are held once the node is made.                     *)
LEMMA BranchesHeld ==
  ASSUME NEW s, NEW h, NEW T \in Edge, NEW E \in Edge, Kept(s, Two(h, Ptr(T), Ptr(E))),
         CacheRight(s), h \in [Nat -> Nat],
         NEW v \in DOMAIN s.rank, Branchable(s, v, T), Branchable(s, v, E),
         NEW o, NodeIn(s, v, T, E, o)
  PROVE  LET f == Plus(Two(h, Ptr(T), Ptr(E)), Ptr(o.r))
         IN /\ NodeFor(s, v, T, E, o) /\ CacheRight(o.s)
            /\ Kept(o.s, f) /\ f[Ptr(T)] > 0 /\ Less(f, Ptr(T))[Ptr(E)] > 0
<1> DEFINE a == Ptr(T)
           b == Ptr(E)
           n == Ptr(o.r)
<1>1. NodeFor(s, v, T, E, o) /\ CacheRight(o.s)  BY NodeInFor
<1>2. Owned(s, Two(h, a, b), o)  BY <1>1, NodeJoins DEF Joins
<1>3. a \in Nat /\ b \in Nat /\ n \in Nat  BY <1>2, EdgeFacts DEF Owned
<1> HIDE DEF a, b, n
<1>4. LET f == Plus(Two(h, a, b), n) IN f[a] > 0 /\ Less(f, a)[b] > 0
  BY <1>3, ThreeHeld
<1> QED BY <1>1, <1>2, <1>4 DEF Owned, a, b, n

(* The two branches, given that the recursive calls complete.              *)
LEMMA BranchesComplete ==
  ASSUME NEW s, NEW h, Kept(s, h), NEW y, IsTriple(y), TripleInUse(s, y), ~Term(y.f),
         NEW p1, Completes(s, h, PosTriple(s, y, Top(s, y)), p1),
         NEW p2, Completes(p1.s, Plus(h, Ptr(p1.r)), NegTriple(s, y, Top(s, y)), p2),
         NEW o, NodeIn(p2.s, s.space[Top(s, y)], p1.r, p2.r, o),
         NEW F, FreeRun(F), NEW q, Visit(o.s, p1.r, q) \in F,
         NEW z, Visit(q, p2.r, z) \in F
  PROVE  Completes(s, h, y, Pair(z, o.r))
<1> DEFINE r == Top(s, y)
           v == s.space[r]
           T == p1.r
           E == p2.r
           a == Ptr(T)
           b == Ptr(E)
           d == DecrRef(o.s, T)
           f == Plus(Two(h, a, b), Ptr(o.r))
<1>1. /\ Kept(p2.s, Two(h, a, b)) /\ CacheRight(p2.s) /\ T \in Edge /\ E \in Edge
      /\ v \in DOMAIN p2.s.rank /\ Branchable(p2.s, v, T) /\ Branchable(p2.s, v, E)
  BY BranchesReady
<1>2. h \in [Nat -> Nat] /\ NodeIn(p2.s, v, T, E, o)  BY DEF Kept, Stage
<1>3. /\ NodeFor(p2.s, v, T, E, o) /\ CacheRight(o.s)
      /\ Kept(o.s, f) /\ f[a] > 0 /\ Less(f, a)[b] > 0
  BY <1>1, <1>2, BranchesHeld
<1>4. ~Dead(d, T) /\ ~Dead(DecrRef(d, E), E) /\ Delivers(s, h, y, Pair(DecrRef(d, E), o.r))
  BY <1>3, IteStep DEF Completes
<1> HIDE DEF f
<1>5. q = d  BY <1>1, <1>3, <1>4, FreeNoFurther
<1> HIDE DEF d
<1>6. Recounts(o.s, q, Less(f, a)) /\ SameCache(o.s, q)  BY <1>1, <1>3, FreeReleases
<1>7. Kept(q, Less(f, a)) /\ SameLinks(o.s, q)  BY <1>6 DEF Recounts
<1>8. z = DecrRef(q, E)  BY <1>1, <1>3, <1>4, <1>5, <1>7, FreeNoFurther
<1>9. Recounts(q, z, Less(Less(f, a), b)) /\ SameCache(q, z)
  BY <1>1, <1>3, <1>7, FreeReleases
<1>10. SameLinks(o.s, z) /\ SameCache(o.s, z) /\ Diagram(z) /\ Diagram(o.s)
  BY <1>3, <1>6, <1>7, <1>9, SameLinksChain, SameCacheChain DEF Recounts, Kept
<1>11. CacheRight(z)
  <2>1. "cache" \in DOMAIN z  BY <1>3, <1>10 DEF CacheRight, SameLinks, SameOrder
  <2> QED BY <1>3, <1>10, <2>1, CacheKeeps DEF SameLinks
<1>12. Delivers(s, h, y, Pair(z, o.r)) /\ Pair(z, o.r).s = z
  BY <1>4, <1>5, <1>8 DEF Pair
<1> QED BY <1>11, <1>12 DEF Completes

(* The ranks of edges in use.                                              *)
LEMMA InUseRank ==
  ASSUME NEW s, NEW h, Kept(s, h), NEW e, InUse(s, e)
  PROVE  /\ Rank(s, e) = NodeRank(s, Ptr(e)) /\ Rank(s, e) \in 0 .. TERMID
         /\ InUse(s, Compl(e)) /\ Rank(s, Compl(e)) = Rank(s, e)
<1>1. Diagram(s) /\ e \in Edge /\ Ptr(e) \in DOMAIN s.node
  BY DEF Kept, InUse, Live, Nodes, Diagram, IsStore
<1>2. NodeRank(s, Ptr(e)) \in 0 .. TERMID  BY <1>1, RankFalls
<1>3. Rank(s, e) = NodeRank(s, Ptr(e))  BY DEF Rank, NodeRank, VarId, At
<1>4. Compl(e) \in Edge /\ Ptr(Compl(e)) = Ptr(e)  BY <1>1, EdgeFacts
<1>5. InUse(s, Compl(e)) /\ Rank(s, Compl(e)) = Rank(s, e)
  BY <1>4 DEF InUse, Rank, VarId, At
<1> QED BY <1>2, <1>3, <1>5

LEMMA TopInUse ==
  ASSUME NEW s, NEW h, Kept(s, h), NEW y, IsTriple(y), TripleInUse(s, y)
  PROVE  /\ Top(s, y) \in 0 .. TERMID /\ TERMID \in Nat
         /\ Top(s, y) \in {Rank(s, y.f), Rank(s, y.g), Rank(s, y.h)}
         /\ Top(s, y) <= Rank(s, y.f) /\ Top(s, y) <= Rank(s, y.g) /\ Top(s, y) <= Rank(s, y.h)
<1>1. TERMID \in Nat  BY Ranked DEF Kept
<1>2. Rank(s, y.f) \in 0 .. TERMID /\ Rank(s, y.g) \in 0 .. TERMID /\ Rank(s, y.h) \in 0 .. TERMID
  BY InUseRank DEF TripleInUse
<1>3. Rank(s, y.f) \in Int /\ Rank(s, y.g) \in Int /\ Rank(s, y.h) \in Int
  BY <1>1, <1>2
<1>4. /\ Top(s, y) \in {Rank(s, y.f), Rank(s, y.g), Rank(s, y.h)}
      /\ Top(s, y) <= Rank(s, y.f) /\ Top(s, y) <= Rank(s, y.g) /\ Top(s, y) <= Rank(s, y.h)
  BY <1>3, TopOfThree DEF Top
<1> QED BY <1>1, <1>2, <1>4

(* The standard triple has no higher variable than the arguments.          *)
LEMMA StandardTop ==
  ASSUME NEW s, NEW h, Kept(s, h), NEW y, IsTriple(y), TripleInUse(s, y),
         Trivial(IntroduceConstants(y.f, y.g, y.h)) = VOID
  PROVE  Top(s, StandardTriple(s, IntroduceConstants(y.f, y.g, y.h)).x) >= Top(s, y)
<1> DEFINE x == IntroduceConstants(y.f, y.g, y.h)
           u == StandardTriple(s, x).x
           t == Top(s, y)
           D == {e \in Edge : InUse(s, e) /\ Rank(s, e) >= t}
<1>1. t \in 0 .. TERMID /\ TERMID \in Nat
      /\ t <= Rank(s, y.f) /\ t <= Rank(s, y.g) /\ t <= Rank(s, y.h)
  BY TopInUse
<1>2. y.f \in Edge /\ y.g \in Edge /\ y.h \in Edge
      /\ InUse(s, y.f) /\ InUse(s, y.g) /\ InUse(s, y.h)
  BY DEF IsTriple, TripleInUse
<1>3. IsTriple(u) /\ TripleInUse(s, u)  BY <1>2, IteStandard
<1>4. \A e \in Edge : InUse(s, e) => Rank(s, e) \in 0 .. TERMID /\ InUse(s, Compl(e))
                                     /\ Rank(s, Compl(e)) = Rank(s, e)
  BY InUseRank
<1> HIDE DEF t
<1>5. ASSUME NEW e \in {BDD_1, BDD_0} PROVE e \in D
  <2>1. e \in Edge /\ Ptr(e) = 0  BY EdgeFacts
  <2>2. InUse(s, e)  BY <2>1 DEF InUse
  <2>3. NodeRank(s, 0) = TERMID  BY DEF Kept, Diagram, NodeRank, VarRank
  <2>4. Rank(s, e) = TERMID  BY <2>1, <2>2, <2>3, InUseRank
  <2> QED BY <1>1, <2>1, <2>2, <2>4
<1>6. Closed(D)
  <2>1. D \subseteq Edge  OBVIOUS
  <2>2. ASSUME NEW e \in D PROVE Compl(e) \in D
    <3>1. e \in Edge /\ InUse(s, e) /\ Rank(s, e) >= t  OBVIOUS
    <3>2. Compl(e) \in Edge  BY <3>1, EdgeFacts
    <3> QED BY <1>4, <3>1, <3>2
  <2> HIDE DEF D
  <2> QED BY <1>5, <2>1, <2>2 DEF Closed
<1>7. y.f \in D /\ y.g \in D /\ y.h \in D
  <2>1. Rank(s, y.f) >= t /\ Rank(s, y.g) >= t /\ Rank(s, y.h) >= t  BY <1>1, <1>2, <1>4
  <2> QED BY <1>2, <2>1
<1>8. \A e \in D : Rank(s, e) \in Int  BY <1>1, <1>4
<1>9. \A e \in D : Rank(s, e) >= t  OBVIOUS
<1> HIDE DEF D, u
<1>10. u \in Triples(D)
  <2>1. x \in Triples(D)  BY <1>6, <1>7, IntroducedInside
  <2> HIDE DEF x
  <2> QED BY <1>6, <1>8, <2>1, StandardInside DEF u
<1>11. Rank(s, u.f) >= t /\ Rank(s, u.g) >= t /\ Rank(s, u.h) >= t
  BY <1>9, <1>10 DEF Triples
<1>12. Top(s, u) \in {Rank(s, u.f), Rank(s, u.g), Rank(s, u.h)}  BY <1>3, TopInUse
<1> QED BY <1>11, <1>12 DEF t, u

(* What a caller of bdd_ite_aux sees to.                                   *)
Askable(s, h, y) == Kept(s, h) /\ CacheRight(s) /\ IsTriple(y) /\ TripleInUse(s, y)

LEMMA BelowAskable ==
  ASSUME NEW s, NEW h, Kept(s, h), CacheRight(s), NEW v \in DOMAIN s.rank,
         NEW e, NEW f, NEW g, TripleBelow(s, v, Triple(e, f, g))
  PROVE  /\ Askable(s, h, Triple(e, f, g)) /\ Top(s, Triple(e, f, g)) > s.rank[v]
         /\ Top(s, Triple(e, f, g)) \in Int /\ s.rank[v] \in Int
<1> DEFINE y == Triple(e, f, g)
<1>1. IsTriple(y) /\ TripleInUse(s, y)
  BY DEF TripleBelow, TripleInUse, IsTriple, Triple, Branchable, InUse
<1> HIDE DEF y
<1>2. TripleBelow(s, v, y)  BY DEF y
<1>3. Top(s, y) > s.rank[v]  BY <1>1, <1>2, TopBelow
<1>4. Top(s, y) \in 0 .. TERMID /\ TERMID \in Nat  BY <1>1, TopInUse
<1>5. s.rank[v] \in 0 .. TERMID - 1  BY Ranked DEF Kept
<1>6. Top(s, y) \in Int /\ s.rank[v] \in Int  BY <1>4, <1>5
<1> QED BY <1>1, <1>3, <1>6 DEF Askable, y

(* The two recursive calls.                                                *)
LEMMA PosBelow ==
  ASSUME NEW s, NEW h, NEW y, Askable(s, h, y), ~Term(y.f)
  PROVE  LET P == PosTriple(s, y, Top(s, y)) IN Askable(s, h, P) /\ Top(s, P) > Top(s, y)
<1> DEFINE r == Top(s, y)
           v == s.space[r]
<1>1. SplitAt(s, y, r, v) /\ Kept(s, h) /\ CacheRight(s)  BY IteSplits DEF Top, Askable
<1> HIDE DEF v
<1>2. v \in DOMAIN s.rank /\ s.rank[v] = r /\ TripleBelow(s, v, PosTriple(s, y, r))
  BY <1>1 DEF SplitAt
<1> HIDE DEF r
<1>3. Askable(s, h, PosTriple(s, y, r)) /\ Top(s, PosTriple(s, y, r)) > r
  BY <1>1, <1>2, BelowAskable DEF PosTriple
<1> QED BY <1>3 DEF r

LEMMA NegBelow ==
  ASSUME NEW s, NEW h, NEW y, Askable(s, h, y), ~Term(y.f),
         NEW p, Completes(s, h, PosTriple(s, y, Top(s, y)), p)
  PROVE  LET N == NegTriple(s, y, Top(s, y))
         IN Askable(p.s, Plus(h, Ptr(p.r)), N) /\ Top(p.s, N) > Top(s, y)
<1> DEFINE r == Top(s, y)
           v == s.space[r]
           g == Plus(h, Ptr(p.r))
<1>1. SplitAt(s, y, r, v) /\ Kept(s, h)  BY IteSplits DEF Top, Askable
<1> HIDE DEF v
<1>2. v \in DOMAIN s.rank /\ s.rank[v] = r /\ TripleBelow(s, v, NegTriple(s, y, r))
  BY <1>1 DEF SplitAt
<1>3. Kept(p.s, g) /\ CacheRight(p.s) /\ Follows(s, p.s) /\ p.s.rank = s.rank
  BY DEF Completes, Delivers, Owned, Follows, SameOrder
<1> HIDE DEF r, g
<1>4. TripleBelow(p.s, v, NegTriple(s, y, r))  BY <1>1, <1>2, <1>3, TripleFollows
<1>5. Askable(p.s, g, NegTriple(s, y, r)) /\ Top(p.s, NegTriple(s, y, r)) > r
  BY <1>2, <1>3, <1>4, BelowAskable DEF NegTriple
<1> QED BY <1>5 DEF r, g

LEMMA AskableTop ==
  ASSUME NEW s, NEW h, NEW y, Askable(s, h, y)
  PROVE  Top(s, y) \in Int /\ Top(s, y) \in 0 .. TERMID
<1>1. Top(s, y) \in 0 .. TERMID /\ TERMID \in Nat  BY TopInUse DEF Askable
<1> QED BY <1>1

(* One call, given that those it makes complete: their variables are all   *)
(* below its own.                                                          *)
LEMMA IterateStep ==
  ASSUME NEW s, NEW h, NEW y, Askable(s, h, y),
         NEW C, NEW p, Iterates(C, s, y, p),
         \A a, g, u, b : /\ IteCall(a, u, b) \in C /\ Askable(a, g, u) /\ Top(a, u) > Top(s, y)
                         => Completes(a, g, u, b)
  PROVE  Completes(s, h, y, p)
<1> DEFINE x == IntroduceConstants(y.f, y.g, y.h)
           std == StandardTriple(s, x)
           u == std.x
           r == Top(s, u)
           v == s.space[r]
           R == LookupNoReclaim(s, u.f, u.g, u.h)
<1>1. /\ Kept(s, h) /\ CacheRight(s) /\ IsTriple(y) /\ TripleInUse(s, y)
      /\ InUse(s, y.f) /\ InUse(s, y.g) /\ InUse(s, y.h)
  BY DEF Askable, TripleInUse
<1>2. Triple(y.f, y.g, y.h) = y  BY <1>1 DEF Triple, IsTriple
<1>3. CASE Trivial(x) # VOID
  <2>1. p = Assign(s, Trivial(x))  BY <1>3 DEF Iterates
  <2>2. Delivers(s, h, y, p)  BY <1>1, <1>2, <1>3, <2>1, IteEnds
  <2>3. CacheRight(p.s)
    <3>1. CacheRight(Assign(s, Trivial(x)).s)
      <4> DEFINE D == {e \in Edge : InUse(s, e)}
      <4>1. Closed(D)  BY <1>1, ClosedSets
      <4>2. y.f \in D /\ y.g \in D /\ y.h \in D  BY <1>1 DEF IsTriple
      <4> HIDE DEF D
      <4>3. x \in Triples(D)  BY <4>1, <4>2, IntroducedInside
      <4> HIDE DEF x
      <4>4. Trivial(x) \in D  BY <1>3, <4>1, <4>3, TrivialInside
      <4>5. InUse(s, Trivial(x))  BY <4>4 DEF D
      <4> QED BY <1>1, <4>5, AssignCache
    <3> QED BY <2>1, <3>1
  <2> QED BY <2>2, <2>3 DEF Completes
<1>4. CASE Trivial(x) = VOID
  <2>1. PICK o : Answers(C, s, u, o) /\ p = Negate(o, std.negate)
    BY <1>4 DEF Iterates
  <2>2. /\ IsTriple(u) /\ TripleInUse(s, u) /\ ~Term(u.f) /\ ~Neg(u.f)
        /\ \A b : Delivers(s, h, u, b) => Delivers(s, h, y, Negate(b, std.negate))
    BY <1>1, <1>2, <1>4, IteStandard
  <2>3. r >= Top(s, y) /\ r \in Int /\ Top(s, y) \in Int
    <3>1. r >= Top(s, y)  BY <1>1, <1>4, StandardTop
    <3>2. r \in 0 .. TERMID /\ Top(s, y) \in 0 .. TERMID /\ TERMID \in Nat
      BY <1>1, <2>2, TopInUse
    <3> QED BY <3>1, <3>2
  <2>4. SUFFICES Completes(s, h, u, o)
    <3>1. Delivers(s, h, y, p)  BY <2>1, <2>2, <2>4 DEF Completes
    <3>2. p.s = o.s  BY <2>1 DEF Negate, Pair
    <3> QED BY <2>4, <3>1, <3>2 DEF Completes
  <2>5. CASE R # VOID
    <3>1. PICK q : Revives(s, R, q) /\ o = Assign(q, R)  BY <2>1, <2>5 DEF Answers
    <3> HIDE DEF u
    <3> QED BY <1>1, <2>2, <2>5, <3>1, HitCompletes
  <2>6. CASE R = VOID
    <3>1. PICK b : /\ Computes(C, s, u, b)
                   /\ o = Pair(Insert(b.s, u.f, u.g, u.h, b.r), b.r)
      BY <2>1, <2>6 DEF Answers
    <3> HIDE DEF u, std, x
    <3>2. SUFFICES Completes(s, h, u, b)  BY <1>1, <2>2, <3>1, <3>2, InsertCompletes
    <3>3. CASE ProjectionOf(s, u)
      <4>1. NodeIn(s, v, u.g, u.h, b)  BY <3>1, <3>3 DEF Computes
      <4>2. v \in DOMAIN s.rank /\ Branchable(s, v, u.g) /\ Branchable(s, v, u.h)
        BY <1>1, <2>2, <3>3, ProjectionSplits DEF Top
      <4>3. NodeFor(s, v, u.g, u.h, b) /\ CacheRight(b.s)
        BY <1>1, <4>1, <4>2, NodeInFor
      <4>4. Delivers(s, h, u, b)  BY <1>1, <2>2, <3>3, <4>3, IteProjects
      <4> QED BY <4>3, <4>4 DEF Completes
    <3>4. CASE ~ProjectionOf(s, u)
      <4> DEFINE P == PosTriple(s, u, r)
                 N == NegTriple(s, u, r)
      <4>1. PICK p1, p2, t, F, q, z :
              /\ IteCall(s, P, p1) \in C /\ IteCall(p1.s, N, p2) \in C
              /\ NodeIn(p2.s, v, p1.r, p2.r, t)
              /\ FreeRun(F) /\ Visit(t.s, p1.r, q) \in F /\ Visit(q, p2.r, z) \in F
              /\ b = Pair(z, t.r)
        BY <3>1, <3>4 DEF Computes
      <4>2. Askable(s, h, u)  BY <1>1, <2>2 DEF Askable
      <4>3. Askable(s, h, P) /\ Top(s, P) > r  BY <2>2, <4>2, PosBelow
      <4>4. Completes(s, h, P, p1)
        <5>1. Top(s, P) \in Int  BY <4>3, AskableTop
        <5> HIDE DEF r, P
        <5>2. Top(s, P) > Top(s, y)  BY <2>3, <4>3, <5>1
        <5> QED BY <4>1, <4>3, <5>2
      <4>5. Askable(p1.s, Plus(h, Ptr(p1.r)), N) /\ Top(p1.s, N) > r
        BY <2>2, <4>2, <4>4, NegBelow
      <4>6. Completes(p1.s, Plus(h, Ptr(p1.r)), N, p2)
        <5>1. Top(p1.s, N) \in Int  BY <4>5, AskableTop
        <5> HIDE DEF r, N
        <5>2. Top(p1.s, N) > Top(s, y)  BY <2>3, <4>5, <5>1
        <5> QED BY <4>1, <4>5, <5>2
      <4> QED BY <1>1, <2>2, <4>1, <4>4, <4>6, BranchesComplete
    <3> QED BY <3>3, <3>4
  <2> QED BY <2>5, <2>6
<1> QED BY <1>3, <1>4

(* bdd_ite_aux, with all its recursive calls, through the computed table,  *)
(* whatever nodes it revives, whatever collections it makes: the edge it   *)
(* returns is that of IF f THEN g ELSE h, owned by its caller, in a store  *)
(* whose counts are exact and whose computed table is right; all that was  *)
(* in use is where it was.                                                 *)
THEOREM IteRight ==
  ASSUME NEW C, IteRun(C), NEW s, NEW y, NEW p, IteCall(s, y, p) \in C,
         NEW h, Kept(s, h), CacheRight(s), IsTriple(y), TripleInUse(s, y)
  PROVE  Delivers(s, h, y, p) /\ CacheRight(p.s)
<1> DEFINE Fails(a, g, u, b) ==
             IteCall(a, u, b) \in C /\ Askable(a, g, u) /\ ~Completes(a, g, u, b)
           Bad == {i \in 1 .. TERMID + 1 :
                     \E a, g, u, b : Fails(a, g, u, b) /\ Top(a, u) = TERMID + 1 - i}
<1>1. TERMID \in Nat  BY DEF TERMID
<1>2. ASSUME NEW a, NEW g, NEW u, NEW b, Fails(a, g, u, b)
      PROVE  Top(a, u) \in 0 .. TERMID /\ TERMID + 1 - Top(a, u) \in Bad
  <2>1. Top(a, u) \in 0 .. TERMID  BY <1>2, TopInUse DEF Askable
  <2> DEFINE n == Top(a, u)
             i == TERMID + 1 - n
  <2> HIDE DEF n
  <2>2. i \in 1 .. TERMID + 1 /\ n = TERMID + 1 - i  BY <1>1, <2>1 DEF n
  <2>3. i \in Bad  BY <1>2, <2>2 DEF n
  <2> QED BY <2>1, <2>3 DEF n
<1>3. Bad = {}
  <2> SUFFICES ASSUME Bad # {} PROVE FALSE  OBVIOUS
  <2>1. PICK i \in Bad : \A j \in Bad : i <= j
    <3>1. Bad \in SUBSET (1 .. TERMID + 1)  OBVIOUS
    <3>2. TERMID + 1 \in Nat  BY <1>1
    <3> HIDE DEF Bad
    <3> QED BY <3>1, <3>2, LeastElement
  <2>2. PICK a, g, u, b : Fails(a, g, u, b) /\ Top(a, u) = TERMID + 1 - i
    BY <2>1
  <2>3. i \in 1 .. TERMID + 1  BY <2>1
  <2> HIDE DEF Bad, Fails
  <2>4. ASSUME NEW a1, NEW g1, NEW u1, NEW b1, Fails(a1, g1, u1, b1),
               Top(a1, u1) > Top(a, u)
        PROVE  FALSE
    <3>1. Top(a1, u1) \in 0 .. TERMID /\ i <= TERMID + 1 - Top(a1, u1)
      BY <1>2, <2>1, <2>4
    <3> QED BY <1>1, <2>2, <2>3, <2>4, <3>1
  <2>5. Askable(a, g, u) /\ ~Completes(a, g, u, b) /\ Iterates(C, a, u, b)
    BY <2>2 DEF Fails, IteRun
  <2>6. \A a1, g1, u1, b1 :
          /\ IteCall(a1, u1, b1) \in C /\ Askable(a1, g1, u1) /\ Top(a1, u1) > Top(a, u)
          => Completes(a1, g1, u1, b1)
    BY <2>4 DEF Fails
  <2> QED BY <2>5, <2>6, IterateStep
<1>4. Askable(s, h, y)  BY DEF Askable
<1>5. Completes(s, h, y, p)  BY <1>2, <1>3, <1>4
<1> QED BY <1>5 DEF Completes

------------------------------------------------------------------------------
(* There are such runs: the recursions end.                                 *)

LEMMA VisitIs ==
  ASSUME NEW s, NEW e, NEW q, NEW a, NEW f, NEW b, Visit(s, e, q) = Visit(a, f, b)
  PROVE  s = a /\ e = f /\ q = b
<1>1. /\ Visit(s, e, q).s = s /\ Visit(s, e, q).e = e /\ Visit(s, e, q).q = q
      /\ Visit(a, f, b).s = a /\ Visit(a, f, b).e = f /\ Visit(a, f, b).q = b
  BY DEF Visit
<1> QED BY <1>1

(* Two runs of reclaim_aux are one, to which a call may be added.          *)
LEMMA ReclaimAdds ==
  ASSUME NEW A, ReclaimRun(A), NEW B, ReclaimRun(B), NEW s, NEW e, NEW q,
         Reclaiming(A \cup B, s, e, q)
  PROVE  ReclaimRun(A \cup B \cup {Visit(s, e, q)})
<1> DEFINE C == A \cup B \cup {Visit(s, e, q)}
<1>1. \A D, a, f, b : Reclaiming(D, a, f, b) /\ D \subseteq C => Reclaiming(C, a, f, b)
  <2> HIDE DEF C
  <2> QED BY DEF Reclaiming
<1>2. A \subseteq C /\ B \subseteq C /\ A \cup B \subseteq C  OBVIOUS
<1>3. ASSUME NEW a, NEW f, NEW b, Visit(a, f, b) \in C PROVE Reclaiming(C, a, f, b)
  <2>1. CASE Visit(a, f, b) \in A
    <3>1. Reclaiming(A, a, f, b)  BY <2>1 DEF ReclaimRun
    <3> QED BY <1>1, <1>2, <3>1
  <2>2. CASE Visit(a, f, b) \in B
    <3>1. Reclaiming(B, a, f, b)  BY <2>2 DEF ReclaimRun
    <3> QED BY <1>1, <1>2, <3>1
  <2>3. CASE Visit(a, f, b) = Visit(s, e, q)
    <3>1. a = s /\ f = e /\ b = q  BY <2>3, VisitIs
    <3>2. Reclaiming(C, s, e, q)  BY <1>1, <1>2
    <3> QED BY <3>1, <3>2
  <2> QED BY <1>3, <2>1, <2>2, <2>3
<1> HIDE DEF C
<1>4. ReclaimRun(C)  BY <1>3 DEF ReclaimRun
<1> QED BY <1>4 DEF C

(* Likewise of bdd_free.                                                   *)
LEMMA FreeAdds ==
  ASSUME NEW A, FreeRun(A), NEW B, FreeRun(B), NEW s, NEW e, NEW q,
         Freeing(A \cup B, s, e, q)
  PROVE  FreeRun(A \cup B \cup {Visit(s, e, q)})
<1> DEFINE C == A \cup B \cup {Visit(s, e, q)}
<1>1. \A D, a, f, b : Freeing(D, a, f, b) /\ D \subseteq C => Freeing(C, a, f, b)
  <2> HIDE DEF C
  <2> QED BY DEF Freeing
<1>2. A \subseteq C /\ B \subseteq C /\ A \cup B \subseteq C  OBVIOUS
<1>3. ASSUME NEW a, NEW f, NEW b, Visit(a, f, b) \in C PROVE Freeing(C, a, f, b)
  <2>1. CASE Visit(a, f, b) \in A
    <3>1. Freeing(A, a, f, b)  BY <2>1 DEF FreeRun
    <3> QED BY <1>1, <1>2, <3>1
  <2>2. CASE Visit(a, f, b) \in B
    <3>1. Freeing(B, a, f, b)  BY <2>2 DEF FreeRun
    <3> QED BY <1>1, <1>2, <3>1
  <2>3. CASE Visit(a, f, b) = Visit(s, e, q)
    <3>1. a = s /\ f = e /\ b = q  BY <2>3, VisitIs
    <3>2. Freeing(C, s, e, q)  BY <1>1, <1>2
    <3> QED BY <3>1, <3>2
  <2> QED BY <1>3, <2>1, <2>2, <2>3
<1> HIDE DEF C
<1>4. FreeRun(C)  BY <1>3 DEF FreeRun
<1> QED BY <1>4 DEF C

LEMMA EmptyRuns == ReclaimRun({}) /\ FreeRun({})
BY DEF ReclaimRun, FreeRun

Reclaims(s, e) == \E C, q : ReclaimRun(C) /\ Visit(s, e, q) \in C
Frees(s, e) == \E C, q : FreeRun(C) /\ Visit(s, e, q) \in C

(* All calls on nodes below e end.                                         *)
ReclaimsBelow(s, e) ==
  \A a, A, g, f : Reclaimable(a, A, g, f) /\ NodeRank(a, Ptr(f)) > NodeRank(s, Ptr(e))
                  => Reclaims(a, f)

LEMMA ReclaimsStep ==
  ASSUME NEW s, NEW S, NEW h, NEW e, Reclaimable(s, S, h, e), ReclaimsBelow(s, e)
  PROVE  Reclaims(s, e)
<1> DEFINE k == Ptr(e)
           z == IncrRef(s, e)
           g == Plus(h, k)
           t == s.node[k].t
           d == s.node[k].e
<1>1. /\ Stage(s, S, h) /\ Diagram(s) /\ IsStore(s) /\ S \subseteq Live(s)
      /\ e \in Edge /\ k \in DOMAIN s.node /\ k \in Nat
  BY EdgeFacts DEF Reclaimable, Stage
<1>2. CASE Frozen(s, e) \/ ~(Dead(s, e) /\ ~Term(e))
  <2>1. PICK q : Reclaiming({}, s, e, q)
    <3>1. Frozen(s, e) => Reclaiming({}, s, e, s)  BY DEF Reclaiming
    <3>2. ~Frozen(s, e) => Reclaiming({}, s, e, z)  BY <1>2 DEF Reclaiming
    <3> QED BY <3>1, <3>2
  <2>2. ReclaimRun({} \cup {} \cup {Visit(s, e, q)})
    <3>1. Reclaiming({} \cup {}, s, e, q)  BY <2>1
    <3> QED BY <3>1, EmptyRuns, ReclaimAdds
  <2> QED BY <2>2 DEF Reclaims
<1>3. CASE ~Frozen(s, e) /\ Dead(s, e) /\ ~Term(e)
  <2>1. /\ Stage(z, S, g) /\ SameLinks(s, z)
        /\ \A m \in DOMAIN s.node : z.node[m].ref >= s.node[m].ref
        /\ z.node[k].ref > 0
    BY <1>1, IncrStage
  <2> HIDE DEF z, g
  <2>2. DOMAIN z.node = DOMAIN s.node /\ IsStore(z)  BY <2>1 DEF SameLinks, Stage
  <2>3. Diagram(z)  BY <1>1, <2>1, <2>2, DiagramSame
  <2>4. S \subseteq Live(z)
    <3>1. ASSUME NEW m \in S PROVE z.node[m].ref > 0
      <4>1. m \in DOMAIN s.node /\ s.node[m].ref > 0  BY <1>1 DEF Live, Nodes
      <4>2. z.node[m].ref >= s.node[m].ref  BY <2>1, <4>1
      <4>3. z.node[m].ref \in 0 .. MaxRef /\ s.node[m].ref \in 0 .. MaxRef
        BY <1>1, <2>1, <2>2, <4>1, StageFacts
      <4>4. MaxRef \in Nat  BY StoreConstants DEF StoreConstants
      <4> QED BY <4>1, <4>2, <4>3, <4>4
    <3> QED BY <1>1, <2>2, <3>1 DEF Live, Nodes
  <2>5. k \in Nodes(s)
    <3>1. k # 0  BY <1>1, <1>3, EdgeFacts
    <3> QED BY <1>1, <3>1 DEF Nodes
  <2>6. /\ t \in Edge /\ Ptr(t) \in DOMAIN s.node /\ d \in Edge /\ Ptr(d) \in DOMAIN s.node
        /\ NodeRank(s, Ptr(t)) > NodeRank(s, k) /\ NodeRank(s, Ptr(d)) > NodeRank(s, k)
    BY <1>1, <2>5, BranchesBelow
  <2> HIDE DEF t, d, k
  <2>7. Reclaimable(z, S, g, t)  BY <2>1, <2>2, <2>3, <2>4, <2>6 DEF Reclaimable
  <2>8. PICK C1, m : ReclaimRun(C1) /\ Visit(z, t, m) \in C1
    <3>1. NodeRank(z, Ptr(t)) > NodeRank(s, k)  BY <2>1, <2>6, SameRanks
    <3> QED BY <2>7, <3>1 DEF Reclaims, ReclaimsBelow, k
  <2>9. PICK Q1 : BroughtBack(z, S, g, t, m, Q1)
    BY <2>7, <2>8, RunBringsBack DEF BringsBack
  <2>10. /\ Stage(m, Q1, Plus(g, Ptr(t))) /\ SameLinks(z, m) /\ Q1 \subseteq Live(m)
    BY <2>9 DEF BroughtBack
  <2>11. DOMAIN m.node = DOMAIN s.node /\ IsStore(m) /\ SameLinks(s, m)
    BY <2>1, <2>2, <2>10, SameLinksChain DEF SameLinks, Stage
  <2>12. Diagram(m)  BY <1>1, <2>11, DiagramSame
  <2>13. Reclaimable(m, Q1, Plus(g, Ptr(t)), d)
    BY <2>6, <2>10, <2>11, <2>12 DEF Reclaimable
  <2>14. PICK C2, q : ReclaimRun(C2) /\ Visit(m, d, q) \in C2
    <3>1. NodeRank(m, Ptr(d)) > NodeRank(s, k)  BY <2>6, <2>11, SameRanks
    <3> QED BY <2>13, <3>1 DEF Reclaims, ReclaimsBelow, k
  <2>15. Reclaiming(C1 \cup C2, s, e, q)
    BY <1>3, <2>8, <2>14 DEF Reclaiming, At, t, d, k, z
  <2>16. ReclaimRun(C1 \cup C2 \cup {Visit(s, e, q)})  BY <2>8, <2>14, <2>15, ReclaimAdds
  <2> QED BY <2>16 DEF Reclaims
<1> QED BY <1>2, <1>3

LEMMA FreesStep ==
  ASSUME NEW s, NEW h, NEW e, Releasable(s, h, e),
         \A a, g, f : Releasable(a, g, f) /\ NodeRank(a, Ptr(f)) > NodeRank(s, Ptr(e))
                      => Frees(a, f)
  PROVE  Frees(s, e)
<1> DEFINE k == Ptr(e)
           z == DecrRef(s, e)
           g == Less(h, k)
           t == s.node[k].t
           d == s.node[k].e
<1>1. /\ Kept(s, h) /\ Diagram(s) /\ IsStore(s) /\ e \in Edge /\ h[k] > 0
      /\ h \in [Nat -> Nat] /\ k \in Nat
  BY EdgeFacts DEF Releasable, Kept, Stage
<1>2. CASE Dead(s, e) \/ Frozen(s, e) \/ ~(Dead(z, e) /\ ~Term(e))
  <2>1. PICK q : Freeing({}, s, e, q)
    <3>1. Dead(s, e) \/ Frozen(s, e) => Freeing({}, s, e, s)  BY DEF Freeing
    <3>2. ~(Dead(s, e) \/ Frozen(s, e)) => Freeing({}, s, e, z)  BY <1>2 DEF Freeing
    <3> QED BY <3>1, <3>2
  <2>2. FreeRun({} \cup {} \cup {Visit(s, e, q)})
    <3>1. Freeing({} \cup {}, s, e, q)  BY <2>1
    <3> QED BY <3>1, EmptyRuns, FreeAdds
  <2> QED BY <2>2 DEF Frees
<1>3. CASE ~Dead(s, e) /\ ~Frozen(s, e) /\ Dead(z, e) /\ ~Term(e)
  <2>1. k # 0 /\ k \in DOMAIN s.node /\ k \in Nodes(s)
    <3>1. k # 0  BY <1>1, <1>3, EdgeFacts
    <3>2. k \in DOMAIN s.node  BY <1>1, HeldInUse
    <3> QED BY <3>1, <3>2 DEF Nodes
  <2>2. /\ t \in Edge /\ Ptr(t) \in DOMAIN s.node /\ d \in Edge /\ Ptr(d) \in DOMAIN s.node
        /\ NodeRank(s, Ptr(t)) > NodeRank(s, k) /\ NodeRank(s, Ptr(d)) > NodeRank(s, k)
        /\ Ptr(t) \in Nat /\ Ptr(d) \in Nat
    BY <1>1, <2>1, BranchesBelow, EdgeFacts
  <2> DEFINE f == Two(g, Ptr(t), Ptr(d))
  <2>3. Recounts(s, z, f)  BY <1>1, <1>3, <2>1, ReferenceReleased
  <2> HIDE DEF t, d, k, z
  <2>4. Kept(z, f) /\ SameLinks(s, z)  BY <2>3 DEF Recounts
  <2>5. g \in [Nat -> Nat]
    <3>1. \A n \in Nat : g[n] = IF n = k THEN h[k] - 1 ELSE h[n]  BY <1>1 DEF Less
    <3>2. DOMAIN g = Nat  BY <1>1 DEF Less
    <3>3. \A n \in Nat : g[n] \in Nat  BY <1>1, <3>1
    <3>4. g = [n \in Nat |-> g[n]]  BY <1>1, <3>2 DEF Less
    <3> HIDE DEF g
    <3> QED BY <3>3, <3>4
  <2> HIDE DEF g
  <2>6. /\ f[Ptr(t)] > 0 /\ Less(f, Ptr(t)) = Plus(g, Ptr(d)) /\ Plus(g, Ptr(d))[Ptr(d)] > 0
    BY <2>2, <2>5, TwoDown
  <2> HIDE DEF f
  <2>7. PICK C1, m : FreeRun(C1) /\ Visit(z, t, m) \in C1
    <3>1. NodeRank(z, Ptr(t)) > NodeRank(s, k)  BY <2>2, <2>4, SameRanks
    <3>2. Releasable(z, f, t)  BY <2>2, <2>4, <2>6 DEF Releasable
    <3> QED BY <3>1, <3>2 DEF Frees, k
  <2>8. Recounts(z, m, Plus(g, Ptr(d)))  BY <2>2, <2>4, <2>6, <2>7, FreeReleases
  <2>9. Kept(m, Plus(g, Ptr(d))) /\ SameLinks(z, m) /\ SameLinks(s, m)
    BY <2>4, <2>8, SameLinksChain DEF Recounts
  <2>10. PICK C2, q : FreeRun(C2) /\ Visit(m, d, q) \in C2
    <3>1. NodeRank(m, Ptr(d)) > NodeRank(s, k)  BY <2>2, <2>9, SameRanks
    <3>2. Releasable(m, Plus(g, Ptr(d)), d)  BY <2>2, <2>6, <2>9 DEF Releasable
    <3> QED BY <3>1, <3>2 DEF Frees, k
  <2>11. Freeing(C1 \cup C2, s, e, q)  BY <1>3, <2>7, <2>10 DEF Freeing, At, t, d, k, z
  <2>12. FreeRun(C1 \cup C2 \cup {Visit(s, e, q)})  BY <2>7, <2>10, <2>11, FreeAdds
  <2> QED BY <2>12 DEF Frees
<1> QED BY <1>2, <1>3

(* bdd_reclaim ends, whatever dead nodes there are below.                  *)
LEMMA ReclaimEnds ==
  ASSUME NEW s, NEW S, NEW h, NEW e, Reclaimable(s, S, h, e)
  PROVE  Reclaims(s, e)
<1> DEFINE Fails(a, A, g, f) == Reclaimable(a, A, g, f) /\ ~Reclaims(a, f)
           Bad == {i \in 1 .. TERMID + 1 :
                     \E a, A, g, f : Fails(a, A, g, f) /\ NodeRank(a, Ptr(f)) = TERMID + 1 - i}
<1>1. TERMID \in Nat  BY DEF TERMID
<1>2. ASSUME NEW a, NEW A, NEW g, NEW f, Fails(a, A, g, f)
      PROVE  /\ NodeRank(a, Ptr(f)) \in 0 .. TERMID
             /\ TERMID + 1 - NodeRank(a, Ptr(f)) \in Bad
  <2>1. NodeRank(a, Ptr(f)) \in 0 .. TERMID  BY <1>2, RankFalls DEF Reclaimable
  <2> DEFINE n == NodeRank(a, Ptr(f))
             i == TERMID + 1 - n
  <2> HIDE DEF n
  <2>2. i \in 1 .. TERMID + 1 /\ n = TERMID + 1 - i  BY <1>1, <2>1 DEF n
  <2>3. i \in Bad  BY <1>2, <2>2 DEF n
  <2> QED BY <2>1, <2>3 DEF n
<1>3. Bad = {}
  <2> SUFFICES ASSUME Bad # {} PROVE FALSE  OBVIOUS
  <2>1. PICK i \in Bad : \A j \in Bad : i <= j
    <3>1. Bad \in SUBSET (1 .. TERMID + 1)  OBVIOUS
    <3>2. TERMID + 1 \in Nat  BY <1>1
    <3> HIDE DEF Bad
    <3> QED BY <3>1, <3>2, LeastElement
  <2>2. PICK a, A, g, f : Fails(a, A, g, f) /\ NodeRank(a, Ptr(f)) = TERMID + 1 - i
    BY <2>1
  <2>3. i \in 1 .. TERMID + 1  BY <2>1
  <2> HIDE DEF Bad, Fails
  <2>4. ASSUME NEW a1, NEW A1, NEW g1, NEW f1, Fails(a1, A1, g1, f1),
               NodeRank(a1, Ptr(f1)) > NodeRank(a, Ptr(f))
        PROVE  FALSE
    <3>1. NodeRank(a1, Ptr(f1)) \in 0 .. TERMID
          /\ i <= TERMID + 1 - NodeRank(a1, Ptr(f1))
      BY <1>2, <2>1, <2>4
    <3> QED BY <1>1, <2>2, <2>3, <2>4, <3>1
  <2>5. Reclaimable(a, A, g, f) /\ ~Reclaims(a, f)  BY <2>2 DEF Fails
  <2>6. ReclaimsBelow(a, f)  BY <2>4 DEF Fails, ReclaimsBelow
  <2> QED BY <2>5, <2>6, ReclaimsStep
<1>4. ~Fails(s, S, h, e)
  <2> HIDE DEF Bad, Fails
  <2> QED BY <1>2, <1>3
<1> QED BY <1>4

(* bdd_free ends, whatever hangs on the reference that is given up.       *)
THEOREM FreeEnds ==
  ASSUME NEW s, NEW h, NEW e, Releasable(s, h, e)
  PROVE  Frees(s, e)
<1> DEFINE Fails(a, g, f) == Releasable(a, g, f) /\ ~Frees(a, f)
           Bad == {i \in 1 .. TERMID + 1 :
                     \E a, g, f : Fails(a, g, f) /\ NodeRank(a, Ptr(f)) = TERMID + 1 - i}
<1>1. TERMID \in Nat  BY DEF TERMID
<1>2. ASSUME NEW a, NEW g, NEW f, Fails(a, g, f)
      PROVE  /\ NodeRank(a, Ptr(f)) \in 0 .. TERMID
             /\ TERMID + 1 - NodeRank(a, Ptr(f)) \in Bad
  <2>1. NodeRank(a, Ptr(f)) \in 0 .. TERMID
    <3>1. Kept(a, g) /\ f \in Edge /\ g[Ptr(f)] > 0 /\ Ptr(f) \in Nat
      BY <1>2, EdgeFacts DEF Releasable
    <3>2. Ptr(f) \in DOMAIN a.node /\ Diagram(a)  BY <3>1, HeldInUse DEF Kept
    <3> QED BY <3>2, RankFalls
  <2> DEFINE n == NodeRank(a, Ptr(f))
             i == TERMID + 1 - n
  <2> HIDE DEF n
  <2>2. i \in 1 .. TERMID + 1 /\ n = TERMID + 1 - i  BY <1>1, <2>1 DEF n
  <2>3. i \in Bad  BY <1>2, <2>2 DEF n
  <2> QED BY <2>1, <2>3 DEF n
<1>3. Bad = {}
  <2> SUFFICES ASSUME Bad # {} PROVE FALSE  OBVIOUS
  <2>1. PICK i \in Bad : \A j \in Bad : i <= j
    <3>1. Bad \in SUBSET (1 .. TERMID + 1)  OBVIOUS
    <3>2. TERMID + 1 \in Nat  BY <1>1
    <3> HIDE DEF Bad
    <3> QED BY <3>1, <3>2, LeastElement
  <2>2. PICK a, g, f : Fails(a, g, f) /\ NodeRank(a, Ptr(f)) = TERMID + 1 - i  BY <2>1
  <2>3. i \in 1 .. TERMID + 1  BY <2>1
  <2> HIDE DEF Bad, Fails
  <2>4. ASSUME NEW a1, NEW g1, NEW f1, Fails(a1, g1, f1),
               NodeRank(a1, Ptr(f1)) > NodeRank(a, Ptr(f))
        PROVE  FALSE
    <3>1. NodeRank(a1, Ptr(f1)) \in 0 .. TERMID
          /\ i <= TERMID + 1 - NodeRank(a1, Ptr(f1))
      BY <1>2, <2>1, <2>4
    <3> QED BY <1>1, <2>2, <2>3, <2>4, <3>1
  <2>5. Releasable(a, g, f) /\ ~Frees(a, f)  BY <2>2 DEF Fails
  <2>6. \A a1, g1, f1 :
          Releasable(a1, g1, f1) /\ NodeRank(a1, Ptr(f1)) > NodeRank(a, Ptr(f))
          => Frees(a1, f1)
    BY <2>4 DEF Fails
  <2> QED BY <2>5, <2>6, FreesStep
<1>4. ~Fails(s, h, e)
  <2> HIDE DEF Bad, Fails
  <2> QED BY <1>2, <1>3
<1> QED BY <1>4

(* A result of the computed table can be brought back.                     *)
THEOREM ReviveEnds ==
  ASSUME NEW s, NEW h, Kept(s, h), NEW R \in Edge, Ptr(R) \in DOMAIN s.node
  PROVE  \E q : Revives(s, R, q)
<1> DEFINE k == Ptr(R)
           t == s.node[k].t
           d == s.node[k].e
           L == Live(s)
<1>1. Stage(s, L, h) /\ Diagram(s) /\ IsStore(s)  BY DEF Kept, Stage
<1>2. CASE ~(Dead(s, R) /\ ~Term(R))  BY <1>2 DEF Revives
<1>3. CASE Dead(s, R) /\ ~Term(R)
  <2>1. k \in Nodes(s)
    <3>1. k # 0  BY <1>3, EdgeFacts
    <3> QED BY <3>1 DEF Nodes
  <2>2. /\ t \in Edge /\ Ptr(t) \in DOMAIN s.node /\ d \in Edge /\ Ptr(d) \in DOMAIN s.node
    BY <1>1, <2>1, BranchesBelow
  <2> HIDE DEF t, d, k, L
  <2>3. Reclaimable(s, L, h, t)  BY <1>1, <2>2 DEF Reclaimable, L
  <2>4. PICK A, m : ReclaimRun(A) /\ Visit(s, t, m) \in A  BY <2>3, ReclaimEnds DEF Reclaims
  <2>5. PICK Q : BroughtBack(s, L, h, t, m, Q)
    BY <2>3, <2>4, RunBringsBack DEF BringsBack
  <2>6. Stage(m, Q, Plus(h, Ptr(t))) /\ SameLinks(s, m) /\ Q \subseteq Live(m)
    BY <2>5 DEF BroughtBack
  <2>7. DOMAIN m.node = DOMAIN s.node /\ IsStore(m)  BY <2>6 DEF SameLinks, Stage
  <2>8. Diagram(m)  BY <1>1, <2>6, <2>7, DiagramSame
  <2>9. Reclaimable(m, Q, Plus(h, Ptr(t)), d)  BY <2>2, <2>6, <2>7, <2>8 DEF Reclaimable
  <2>10. PICK B, q : ReclaimRun(B) /\ Visit(m, d, q) \in B  BY <2>9, ReclaimEnds DEF Reclaims
  <2> DEFINE C == A \cup B \cup {Visit(m, d, q)}
  <2>11. ReclaimRun(C)
    <3>1. Reclaiming(B, m, d, q)  BY <2>10 DEF ReclaimRun
    <3>2. Reclaiming(A \cup B, m, d, q)  BY <3>1 DEF Reclaiming
    <3> QED BY <2>4, <2>10, <3>2, ReclaimAdds
  <2>12. Visit(s, t, m) \in C /\ Visit(m, d, q) \in C  BY <2>4
  <2> HIDE DEF C
  <2>13. Revives(s, R, q)  BY <1>3, <2>11, <2>12 DEF Revives, At, t, d, k
  <2> QED BY <2>13
<1> QED BY <1>2, <1>3

LEMMA IteCallIs ==
  ASSUME NEW s, NEW y, NEW p, NEW a, NEW u, NEW b, IteCall(s, y, p) = IteCall(a, u, b)
  PROVE  s = a /\ y = u /\ p = b
<1>1. /\ IteCall(s, y, p).s = s /\ IteCall(s, y, p).y = y /\ IteCall(s, y, p).p = p
      /\ IteCall(a, u, b).s = a /\ IteCall(a, u, b).y = u /\ IteCall(a, u, b).p = b
  BY DEF IteCall
<1> QED BY <1>1

(* What a call does it does in a larger set too.                           *)
LEMMA IteratesMore ==
  ASSUME NEW A, NEW C, A \subseteq C
  PROVE  /\ \A s, y, o : Answers(A, s, y, o) => Answers(C, s, y, o)
         /\ \A s, y, p : Iterates(A, s, y, p) => Iterates(C, s, y, p)
<1>1. ASSUME NEW s, NEW y, NEW b, Computes(A, s, y, b) PROVE Computes(C, s, y, b)
  <2>1. CASE ProjectionOf(s, y)  BY <1>1, <2>1 DEF Computes
  <2>2. CASE ~ProjectionOf(s, y)
    <3> DEFINE r == Top(s, y)
    <3>1. PICK p1, p2, o, F, q, z :
            /\ IteCall(s, PosTriple(s, y, r), p1) \in A
            /\ IteCall(p1.s, NegTriple(s, y, r), p2) \in A
            /\ NodeIn(p2.s, s.space[r], p1.r, p2.r, o)
            /\ FreeRun(F) /\ Visit(o.s, p1.r, q) \in F /\ Visit(q, p2.r, z) \in F
            /\ b = Pair(z, o.r)
      BY <1>1, <2>2 DEF Computes
    <3>2. /\ IteCall(s, PosTriple(s, y, r), p1) \in C
          /\ IteCall(p1.s, NegTriple(s, y, r), p2) \in C
      BY <3>1
    <3> HIDE DEF r
    <3> QED BY <2>2, <3>1, <3>2 DEF Computes, r
  <2> QED BY <2>1, <2>2
<1>2. ASSUME NEW s, NEW y, NEW o, Answers(A, s, y, o) PROVE Answers(C, s, y, o)
  BY <1>1, <1>2 DEF Answers
<1>3. ASSUME NEW s, NEW y, NEW p, Iterates(A, s, y, p) PROVE Iterates(C, s, y, p)
  BY <1>2, <1>3 DEF Iterates
<1> QED BY <1>2, <1>3

LEMMA IteAdds ==
  ASSUME NEW A, IteRun(A), NEW B, IteRun(B), NEW s, NEW y, NEW p,
         Iterates(A \cup B, s, y, p)
  PROVE  IteRun(A \cup B \cup {IteCall(s, y, p)})
<1> DEFINE C == A \cup B \cup {IteCall(s, y, p)}
<1>1. A \subseteq C /\ B \subseteq C /\ A \cup B \subseteq C  OBVIOUS
<1>2. \A D, a, u, b : Iterates(D, a, u, b) /\ D \subseteq C => Iterates(C, a, u, b)
  BY IteratesMore
<1>3. ASSUME NEW a, NEW u, NEW b, IteCall(a, u, b) \in C PROVE Iterates(C, a, u, b)
  <2>1. CASE IteCall(a, u, b) \in A
    <3>1. Iterates(A, a, u, b)  BY <2>1 DEF IteRun
    <3> QED BY <1>1, <1>2, <3>1
  <2>2. CASE IteCall(a, u, b) \in B
    <3>1. Iterates(B, a, u, b)  BY <2>2 DEF IteRun
    <3> QED BY <1>1, <1>2, <3>1
  <2>3. CASE IteCall(a, u, b) = IteCall(s, y, p)
    <3>1. a = s /\ u = y /\ b = p  BY <2>3, IteCallIs
    <3>2. Iterates(C, s, y, p)  BY <1>1, <1>2
    <3> QED BY <3>1, <3>2
  <2> QED BY <1>3, <2>1, <2>2, <2>3
<1> HIDE DEF C
<1>4. IteRun(C)  BY <1>3 DEF IteRun
<1> QED BY <1>4 DEF C

(* bdd_create_node returns.                                                *)
LEMMA NodeEnds ==
  ASSUME NEW s, NEW h, Kept(s, h), CacheRight(s), NEW v, NEW T, NEW E
  PROVE  \E o : NodeIn(s, v, T, E, o)
<1>1. CASE T = E  BY <1>1 DEF NodeIn
<1>2. CASE T # E
  <2> DEFINE P == Picked(s, v, Pos(T), SetNeg(E, Neg(T)))
  <2>1. PICK p : p \in P  BY DEF Picked
  <2> DEFINE o == Pair(p.s, SetNeg(p.r, Neg(T)))
  <2>2. o.s = p.s /\ o.r = SetNeg(p.r, Neg(T))  BY DEF Pair
  <2> HIDE DEF o
  <2>3. SameCache(s, p.s) /\ DOMAIN p.s = DOMAIN s  BY <2>1, PickedCache
  <2>4. p.s.cache = s.cache  BY <2>3 DEF SameCache, CacheRight
  <2>5. Remembers(p.s, p.s)
    BY <2>4 DEF Remembers, SameStore, SameOrder, CacheRight, CacheSize
  <2>6. NodeIn(s, v, T, E, o)
    <3> HIDE DEF P
    <3>1. p.s \in {p.s, Sweep(FlushComputedTable(p.s))} /\ Remembers(p.s, o.s)
      BY <2>2, <2>5
    <3> QED BY <1>2, <2>1, <2>2, <3>1 DEF NodeIn, P
  <2> QED BY <2>6
<1> QED BY <1>1, <1>2

(* Two references are given up, one after the other.                       *)
LEMMA BothFreed ==
  ASSUME NEW s, NEW h, NEW T \in Edge, NEW E \in Edge, Kept(s, h),
         h[Ptr(T)] > 0, Less(h, Ptr(T))[Ptr(E)] > 0
  PROVE  \E F, q, z : FreeRun(F) /\ Visit(s, T, q) \in F /\ Visit(q, E, z) \in F
<1>1. PICK A, q : FreeRun(A) /\ Visit(s, T, q) \in A  BY FreeEnds DEF Releasable, Frees
<1>2. Kept(q, Less(h, Ptr(T)))  BY <1>1, FreeReleases DEF Recounts
<1>3. PICK B, z : FreeRun(B) /\ Visit(q, E, z) \in B
  BY <1>2, FreeEnds DEF Releasable, Frees
<1> DEFINE F == A \cup B \cup {Visit(q, E, z)}
<1>4. FreeRun(F)
  <2>1. Freeing(B, q, E, z)  BY <1>3 DEF FreeRun
  <2>2. Freeing(A \cup B, q, E, z)  BY <2>1 DEF Freeing
  <2> QED BY <1>1, <1>3, <2>2, FreeAdds
<1>5. Visit(s, T, q) \in F /\ Visit(q, E, z) \in F  BY <1>1
<1> HIDE DEF F
<1> QED BY <1>4, <1>5

Returns(s, y) == \E C, p : IteRun(C) /\ IteCall(s, y, p) \in C
ReturnsBelow(t) == \A a, g, u : Askable(a, g, u) /\ Top(a, u) > t => Returns(a, u)

(* One call past the trivial cases.                                        *)
LEMMA AnswersEnd ==
  ASSUME NEW s, NEW h, NEW y, Askable(s, h, y), ~Term(y.f), ~Neg(y.f),
         ReturnsBelow(Top(s, y))
  PROVE  \E A, B, o : IteRun(A) /\ IteRun(B) /\ Answers(A \cup B, s, y, o)
<1> DEFINE r == Top(s, y)
           v == s.space[r]
           R == LookupNoReclaim(s, y.f, y.g, y.h)
           P == PosTriple(s, y, r)
           N == NegTriple(s, y, r)
<1>1. Kept(s, h) /\ CacheRight(s) /\ IsTriple(y) /\ TripleInUse(s, y)  BY DEF Askable
<1>2. IteRun({})  BY DEF IteRun
<1>3. CASE R # VOID
  <2>1. R \in Edge /\ Ptr(R) \in DOMAIN s.node  BY <1>1, <1>3, FoundRight
  <2>2. PICK q : Revives(s, R, q)  BY <1>1, <2>1, ReviveEnds
  <2>3. Answers({} \cup {}, s, y, Assign(q, R))  BY <1>3, <2>2 DEF Answers
  <2> QED BY <1>2, <2>3
<1>4. CASE R = VOID
  <2>1. ASSUME NEW A, NEW B, NEW b, Computes(A \cup B, s, y, b)
        PROVE  \E o : Answers(A \cup B, s, y, o)
    BY <1>4, <2>1 DEF Answers
  <2>2. CASE ProjectionOf(s, y)
    <3>1. PICK b : NodeIn(s, v, y.g, y.h, b)  BY <1>1, NodeEnds
    <3>2. Computes({} \cup {}, s, y, b)  BY <2>2, <3>1 DEF Computes
    <3> QED BY <1>2, <2>1, <3>2
  <2>3. CASE ~ProjectionOf(s, y)
    <3>1. Askable(s, h, P) /\ Top(s, P) > r  BY PosBelow
    <3>2. PICK A, p1 : IteRun(A) /\ IteCall(s, P, p1) \in A
      BY <3>1 DEF ReturnsBelow, Returns
    <3>3. Completes(s, h, P, p1)  BY <3>1, <3>2, IteRight DEF Askable, Completes
    <3> DEFINE T == p1.r
               g == Plus(h, Ptr(T))
    <3>4. Askable(p1.s, g, N) /\ Top(p1.s, N) > r  BY <3>3, NegBelow
    <3>5. PICK B, p2 : IteRun(B) /\ IteCall(p1.s, N, p2) \in B
      BY <3>4 DEF ReturnsBelow, Returns
    <3>6. Completes(p1.s, g, N, p2)  BY <3>4, <3>5, IteRight DEF Askable, Completes
    <3> DEFINE E == p2.r
               f == Two(h, Ptr(T), Ptr(E))
    <3>7. /\ Kept(p2.s, f) /\ CacheRight(p2.s) /\ T \in Edge /\ E \in Edge
          /\ v \in DOMAIN p2.s.rank /\ Branchable(p2.s, v, T) /\ Branchable(p2.s, v, E)
      BY <1>1, <3>3, <3>6, BranchesReady
    <3>8. PICK o : NodeIn(p2.s, v, T, E, o)  BY <3>7, NodeEnds
    <3> DEFINE e == Plus(f, Ptr(o.r))
    <3>9. Kept(o.s, e) /\ e[Ptr(T)] > 0 /\ Less(e, Ptr(T))[Ptr(E)] > 0
      <4>1. h \in [Nat -> Nat]  BY <1>1 DEF Kept, Stage
      <4> QED BY <3>7, <3>8, <4>1, BranchesHeld
    <3> HIDE DEF e
    <3>10. PICK F, q, z : FreeRun(F) /\ Visit(o.s, T, q) \in F /\ Visit(q, E, z) \in F
      BY <3>7, <3>9, BothFreed
    <3>11. IteCall(s, P, p1) \in A \cup B /\ IteCall(p1.s, N, p2) \in A \cup B
      BY <3>2, <3>5
    <3> DEFINE C == A \cup B
    <3> HIDE DEF C
    <3>12. Computes(C, s, y, Pair(z, o.r))
      BY <2>3, <3>8, <3>10, <3>11 DEF Computes, C
    <3> QED BY <2>1, <3>2, <3>5, <3>12 DEF C
  <2> QED BY <2>2, <2>3
<1> QED BY <1>3, <1>4

LEMMA ReturnsStep ==
  ASSUME NEW s, NEW h, NEW y, Askable(s, h, y), ReturnsBelow(Top(s, y))
  PROVE  Returns(s, y)
<1> DEFINE x == IntroduceConstants(y.f, y.g, y.h)
           std == StandardTriple(s, x)
           u == std.x
<1>1. /\ Kept(s, h) /\ CacheRight(s) /\ IsTriple(y) /\ TripleInUse(s, y)
      /\ InUse(s, y.f) /\ InUse(s, y.g) /\ InUse(s, y.h)
  BY DEF Askable, TripleInUse
<1>2. SUFFICES \E A, B, p : IteRun(A) /\ IteRun(B) /\ Iterates(A \cup B, s, y, p)
  <2>1. PICK A, B, p : IteRun(A) /\ IteRun(B) /\ Iterates(A \cup B, s, y, p)  BY <1>2
  <2>2. IteRun(A \cup B \cup {IteCall(s, y, p)})  BY <2>1, IteAdds
  <2> QED BY <2>2 DEF Returns
<1>3. CASE Trivial(x) # VOID
  <2>1. Iterates({} \cup {}, s, y, Assign(s, Trivial(x)))  BY <1>3 DEF Iterates
  <2>2. IteRun({})  BY DEF IteRun
  <2> QED BY <2>1, <2>2
<1>4. CASE Trivial(x) = VOID
  <2>1. IsTriple(u) /\ TripleInUse(s, u) /\ ~Term(u.f) /\ ~Neg(u.f)
    BY <1>1, <1>4, IteStandard
  <2>2. Askable(s, h, u)  BY <1>1, <2>1 DEF Askable
  <2>3. ReturnsBelow(Top(s, u))
    <3>1. Top(s, u) >= Top(s, y)  BY <1>1, <1>4, StandardTop
    <3>2. Top(s, u) \in Int /\ Top(s, y) \in Int  BY <2>2, AskableTop
    <3> HIDE DEF u
    <3>3. ASSUME NEW a, NEW g, NEW t, Askable(a, g, t), Top(a, t) > Top(s, u)
          PROVE  Returns(a, t)
      <4>1. Top(a, t) \in Int  BY <3>3, AskableTop
      <4>2. Top(a, t) > Top(s, y)  BY <3>1, <3>2, <3>3, <4>1
      <4> QED BY <3>3, <4>2 DEF ReturnsBelow
    <3> QED BY <3>3 DEF ReturnsBelow
  <2> HIDE DEF u
  <2>4. PICK A, B, o : IteRun(A) /\ IteRun(B) /\ Answers(A \cup B, s, u, o)
    BY <2>1, <2>2, <2>3, AnswersEnd
  <2>5. Iterates(A \cup B, s, y, Negate(o, std.negate))
    BY <1>4, <2>4 DEF Iterates, u
  <2> QED BY <2>4, <2>5
<1> QED BY <1>3, <1>4

(* bdd_ite_aux ends: for any three edges in use there is a run, to which   *)
(* IteRight applies. Each call that it makes is about variables below      *)
(* those of its own.                                                       *)
THEOREM IteReturns ==
  ASSUME NEW s, NEW h, Kept(s, h), CacheRight(s), NEW y, IsTriple(y), TripleInUse(s, y)
  PROVE  \E C, p : IteRun(C) /\ IteCall(s, y, p) \in C
<1> DEFINE Fails(a, g, u) == Askable(a, g, u) /\ ~Returns(a, u)
           Bad == {i \in 1 .. TERMID + 1 :
                     \E a, g, u : Fails(a, g, u) /\ Top(a, u) = TERMID + 1 - i}
<1>1. TERMID \in Nat  BY DEF TERMID
<1>2. ASSUME NEW a, NEW g, NEW u, Fails(a, g, u)
      PROVE  Top(a, u) \in 0 .. TERMID /\ TERMID + 1 - Top(a, u) \in Bad
  <2>1. Top(a, u) \in 0 .. TERMID  BY <1>2, AskableTop
  <2> DEFINE n == Top(a, u)
             i == TERMID + 1 - n
  <2> HIDE DEF n
  <2>2. i \in 1 .. TERMID + 1 /\ n = TERMID + 1 - i  BY <1>1, <2>1 DEF n
  <2>3. i \in Bad  BY <1>2, <2>2 DEF n
  <2> QED BY <2>1, <2>3 DEF n
<1>3. Bad = {}
  <2> SUFFICES ASSUME Bad # {} PROVE FALSE  OBVIOUS
  <2>1. PICK i \in Bad : \A j \in Bad : i <= j
    <3>1. Bad \in SUBSET (1 .. TERMID + 1)  OBVIOUS
    <3>2. TERMID + 1 \in Nat  BY <1>1
    <3> HIDE DEF Bad
    <3> QED BY <3>1, <3>2, LeastElement
  <2>2. PICK a, g, u : Fails(a, g, u) /\ Top(a, u) = TERMID + 1 - i  BY <2>1
  <2>3. i \in 1 .. TERMID + 1  BY <2>1
  <2> HIDE DEF Bad, Fails
  <2>4. ASSUME NEW a1, NEW g1, NEW u1, Fails(a1, g1, u1), Top(a1, u1) > Top(a, u)
        PROVE  FALSE
    <3>1. Top(a1, u1) \in 0 .. TERMID /\ i <= TERMID + 1 - Top(a1, u1)
      BY <1>2, <2>1, <2>4
    <3> QED BY <1>1, <2>2, <2>3, <2>4, <3>1
  <2>5. Askable(a, g, u) /\ ~Returns(a, u)  BY <2>2 DEF Fails
  <2>6. ReturnsBelow(Top(a, u))  BY <2>4 DEF Fails, ReturnsBelow
  <2> QED BY <2>5, <2>6, ReturnsStep
<1>4. Askable(s, h, y)  BY DEF Askable
<1>5. Returns(s, y)  BY <1>2, <1>3, <1>4
<1> QED BY <1>5 DEF Returns
=============================================================================
