------------------------------- MODULE BddRuns -------------------------------
(***************************************************************************)
(* The functions of the BDD package that call themselves, for proofs about *)
(* stores of any size (src/src/BDD/bdd/src/bdd.c): reclaim_aux, bdd_free   *)
(* and bdd_ite_aux.                                                        *)
(*                                                                         *)
(* BddNodes and BddIte compute what such a function does by recursion.     *)
(* Here a call is a record of its arguments and its outcome, and what one  *)
(* call does is a relation to the calls that it makes: Reclaiming, Freeing *)
(* and Iterates say it for one call, given the set C of all calls of the   *)
(* run.  C is a run (ReclaimRun, FreeRun, IteRun) if this is so of each of *)
(* its calls.  Ranks rise from a call to those it makes, so that also in   *)
(* an infinite run no chain of calls is.                                   *)
(*                                                                         *)
(* Left open are whether there are dead nodes enough for a collection and  *)
(* tables full enough to be doubled after a node was made (NodeIn), and    *)
(* which node of a hash chain is met first if there were two with the same *)
(* contents (Picked).  The cache of cubes is empty, as it is unless a      *)
(* client asks for cubes: a collection then flushes the computed table and *)
(* sweeps.                                                                 *)
(***************************************************************************)
EXTENDS BddExchange, BddTriples

------------------------------------------------------------------------------
(* Nodes: what bdd_create_node and the collection after it do.             *)

(* The variables have the ranks they had.                                  *)
SameOrder(s, q) == DOMAIN q = DOMAIN s /\ q.space = s.space /\ q.rank = s.rank

(* q is s, with other tables.                                              *)
SameStore(s, q) ==
  SameOrder(s, q) /\ q.node = s.node /\ q.dead = s.dead /\ q.frozen = s.frozen

(* What bdd_create_node does with its arguments: it looks the node up, and *)
(* adds it if it is not there.                                             *)
Picked(s, v, T, E) ==
  {FoundNode(s, n) : n \in SameNode(s, v, T, E)} \cup
  {p \in {AllocNode(s, v, T, E)} : SameNode(s, v, T, E) = {}}

(* An entry of the computed table; the result VOID marks a free slot.      *)
Entry == [F : Int, G : Int, H : Int, R : Int]

(* q is s with larger tables: an entry of its computed table is free, or   *)
(* was in that of s.                                                       *)
Remembers(s, q) ==
  /\ SameStore(s, q) /\ q.cache \in [DOMAIN q.cache -> Entry]
  /\ CacheSize(q) \in Nat \ {0} /\ DOMAIN q.cache = 0 .. CacheSize(q) - 1
  /\ \A i \in DOMAIN q.cache :
       q.cache[i].R = VOID \/ \E j \in DOMAIN s.cache : q.cache[i] = s.cache[j]

(* bdd_create_node, with the computed table: it may be collected, and      *)
(* tables may grow, after the node was made.                               *)
NodeIn(s, v, T, E, o) ==
  IF T = E THEN o = Assign(s, T)
  ELSE \E p \in Picked(s, v, Pos(T), SetNeg(E, Neg(T))) :
         /\ o.r = SetNeg(p.r, Neg(T))
         /\ \E t \in {p.s, Sweep(FlushComputedTable(p.s))} : Remembers(t, o.s)

------------------------------------------------------------------------------
(* References: the functions that follow the links below an edge.          *)

(* A call with e in the store s that leaves the store q.                   *)
Visit(s, e, q) == [s |-> s, e |-> e, q |-> q]

(* reclaim_aux takes a reference to e; a dead node takes those of its      *)
(* branches again.                                                         *)
Reclaiming(C, s, e, q) ==
  IF Frozen(s, e) THEN q = s
  ELSE IF Dead(s, e) /\ ~Term(e)
  THEN \E m : /\ Visit(IncrRef(s, e), At(s, e).t, m) \in C
              /\ Visit(m, At(s, e).e, q) \in C
  ELSE q = IncrRef(s, e)
ReclaimRun(C) == \A s, e, q : Visit(s, e, q) \in C => Reclaiming(C, s, e, q)

(* bdd_lookup_computed_table brings a dead result back: its branches' get  *)
(* their references, its own is left to the caller.                        *)
Revives(s, R, q) ==
  IF Dead(s, R) /\ ~Term(R)
  THEN \E C, m : /\ ReclaimRun(C)
                 /\ Visit(s, At(s, R).t, m) \in C /\ Visit(m, At(s, R).e, q) \in C
  ELSE q = s

(* bdd_free gives up a reference to e; if it was the last one, it gives up *)
(* those of the branches.                                                  *)
Freeing(C, s, e, q) ==
  IF Dead(s, e) \/ Frozen(s, e) THEN q = s
  ELSE IF Dead(DecrRef(s, e), e) /\ ~Term(e)
  THEN \E m : /\ Visit(DecrRef(s, e), At(s, e).t, m) \in C
              /\ Visit(m, At(s, e).e, q) \in C
  ELSE q = DecrRef(s, e)
FreeRun(C) == \A s, e, q : Visit(s, e, q) \in C => Freeing(C, s, e, q)

------------------------------------------------------------------------------
(* If-then-else.                                                           *)

(* The topmost rank of a triple.                                           *)
Top(s, y) == TopRank(s, {y.f, y.g, y.h})

(* The cofactors of a triple by the variable of rank r: the arguments of   *)
(* the two recursive calls.                                                *)
PosTriple(s, y, r) == Triple(ExpPos(s, y.f, r), ExpPos(s, y.g, r), ExpPos(s, y.h, r))
NegTriple(s, y, r) == Triple(ExpNeg(s, y.f, r), ExpNeg(s, y.g, r), ExpNeg(s, y.h, r))

(* A call with the triple y in the store s that returns p.                 *)
IteCall(s, y, p) == [s |-> s, y |-> y, p |-> p]

(* No entry for y: the node of a projection, or that of the results of the *)
(* two recursive calls, whose references bdd_free then gives up.           *)
Computes(C, s, y, b) ==
  LET r == Top(s, y)
  IN IF ProjectionOf(s, y) THEN NodeIn(s, s.space[r], y.g, y.h, b)
     ELSE \E p1, p2, o, F, q, z :
            /\ IteCall(s, PosTriple(s, y, r), p1) \in C
            /\ IteCall(p1.s, NegTriple(s, y, r), p2) \in C
            /\ NodeIn(p2.s, s.space[r], p1.r, p2.r, o)
            /\ FreeRun(F) /\ Visit(o.s, p1.r, q) \in F /\ Visit(q, p2.r, z) \in F
            /\ b = Pair(z, o.r)

(* A standard triple: from the computed table, or computed and entered.    *)
Answers(C, s, y, o) ==
  LET R == LookupNoReclaim(s, y.f, y.g, y.h)
  IN IF R # VOID
     THEN \E q : Revives(s, R, q) /\ o = Assign(q, R)
     ELSE \E b : Computes(C, s, y, b) /\ o = Pair(Insert(b.s, y.f, y.g, y.h, b.r), b.r)

(* The whole of a call.                                                    *)
Iterates(C, s, y, p) ==
  LET x == IntroduceConstants(y.f, y.g, y.h)
      std == StandardTriple(s, x)
  IN IF Trivial(x) # VOID THEN p = Assign(s, Trivial(x))
     ELSE \E o : Answers(C, s, std.x, o) /\ p = Negate(o, std.negate)
IteRun(C) == \A s, y, p : IteCall(s, y, p) \in C => Iterates(C, s, y, p)
==============================================================================
