------------------------- MODULE ProofTree_soundness -------------------------
(***************************************************************************)
(* Proof that Q.E.D. closes every goal and that closed goals stay closed,  *)
(* in every attempt in which (undo undo) is not given: that command        *)
(* restores the state of a goal but not of the goals below it, and a run   *)
(* shows that neither property survives it.                                *)
(***************************************************************************)
EXTENDS ProofTree_proofs, FiniteSetTheorems, WellFoundedInduction

(* The inductive invariant.  The stepper only ever changes proofstates on  *)
(* the path from the root to the current one, which are not closed, and    *)
(* the subgoals that wait for a strategy.                                  *)
Active == {"fresh", "?", "*"}
Waiting(p) == Elems(p.pending) \cup Elems(p.remaining)
(* The subgoal that was current has been dealt with.                       *)
Settled(p) == p.flag \in Active => p.current \in p.done \cup {NoNode}

(* The parent links form a tree rooted at Root.                            *)
Links(P) ==
  \A n \in DOMAIN P :
    /\ P[n].parent < n /\ (P[n].parent = NoNode <=> n = Root)
    /\ P[n].above = IF n = Root THEN {} ELSE P[P[n].parent].above \cup {P[n].parent}
    /\ \A a \in P[n].above : a < n /\ P[a].above \subseteq P[n].above
    /\ P[n].goal \in P[n].above \cup {n}

(* What the state p of the proofstate n says of its subgoals is so.        *)
Lists(p) ==
  /\ NoDuplicates(p.pending) /\ NoDuplicates(p.remaining)
  /\ Elems(p.pending) \cap Elems(p.remaining) = {}
  /\ p.current \notin Waiting(p)
  /\ p.flag \in Active => p.kids \subseteq p.done \cup Waiting(p) \cup {p.current}
Children(P, n, p) ==
  /\ \A k \in p.kids \cup p.done \cup Waiting(p) : P[k].parent = n
  /\ p.current # NoNode => P[p.current].parent = n
Subgoals(P, p) ==
  /\ p.flag = "!" => \A k \in p.kids : P[k].flag = "!"
  /\ \A d \in p.done : P[d].flag = "!"
  /\ \A i \in Elems(p.pending) : P[i].flag = "*"
  /\ \A i \in Waiting(p) : Settled(P[i])
Local(P, n, p) == Lists(p) /\ Children(P, n, p) /\ Subgoals(P, p)

(* The proofstates above c wait for the branch that leads to it.           *)
PathTo(P, c) ==
  /\ \A a \in P[c].above : P[a].flag = "?"
  /\ \A a \in P[c].above \cup {c} : a # Root =>
       P[P[a].parent].flag = "?" /\ P[P[a].parent].current = a

TreeInv(P) == Tree1(P) /\ Links(P) /\ \A n \in DOMAIN P : Local(P, n, P[n])
IInv ==
  /\ TypeOK
  /\ TreeInv(ps)
  /\ outcome = "running" => PathTo(ps, cur) /\ Settled(ps[cur])
  /\ outcome = "qed" => ps[Root].flag = "!"
  /\ outcome = "subgoals" => ps[Root].flag = "*" /\ Settled(ps[Root])

(* No closed proofstate of P is open in Q.                                 *)
Keeps(P, Q) == \A n \in DOMAIN P : P[n].flag = "!" => Q[n].flag = "!"

-----------------------------------------------------------------------------
(* Invariants of the tree.                                                 *)

LEMMA LeastElement ==
  ASSUME NEW k \in Nat, NEW S \in SUBSET (1..k), S # {}
  PROVE  \E x \in S : \A y \in S : x <= y
<1> DEFINE R == StrictSubsetOrdering(1..k)
           T == {S \cap (1..m) : m \in S}
<1>1. IsFiniteSet(1..k)  BY FS_Interval
<1>2. FiniteSubsetsOf(1..k) = SUBSET (1..k)  BY <1>1, FS_FiniteSubsetsOfFinite
<1>3. IsWellFoundedOn(R, SUBSET (1..k))
  BY <1>2, FS_StrictSubsetOrderingWellFounded
<1>4. T \subseteq SUBSET (1..k) /\ T # {}  OBVIOUS
<1>5. PICK t \in T : \A u \in T : ~ (<<u, t>> \in R)
  <2> HIDE DEF R, T
  <2> QED BY <1>3, <1>4, WFMin
<1>6. PICK m \in S : t = S \cap (1..m)  BY <1>5
<1>7. ASSUME NEW y \in S PROVE m <= y
  <2>1. SUFFICES ASSUME y < m PROVE FALSE  OBVIOUS
  <2> DEFINE u == S \cap (1..y)
  <2>2. u \in T /\ u \subseteq t /\ m \in t /\ m \notin u
    BY <1>6, <2>1
  <2>3. <<u, t>> \in R
    BY <1>4, <1>5, <2>2 DEF StrictSubsetOrdering
  <2> QED BY <1>5, <2>2, <2>3
<1> QED BY <1>7

LEMMA NodeFacts ==
  ASSUME NEW P, Tree1(P)
  PROVE  /\ DOMAIN P = 1..Len(P) /\ Len(P) \in Nat /\ Root \in DOMAIN P
         /\ NoNode \notin DOMAIN P
         /\ \A n \in DOMAIN P : P[n] \in Proofstate(DOMAIN P)
  BY DEF Tree1, Root, NoNode

LEMMA TreeTypes ==
  ASSUME NEW P, Tree1(P), NEW n \in DOMAIN P
  PROVE  /\ n \in Nat /\ P[n].parent \in DOMAIN P \cup {NoNode}
         /\ P[n].goal \in DOMAIN P
         /\ P[n].above \subseteq DOMAIN P /\ P[n].done \subseteq DOMAIN P
         /\ P[n].kids \subseteq DOMAIN P /\ Waiting(P[n]) \subseteq DOMAIN P
         /\ P[n].pending \in Seq(DOMAIN P) /\ P[n].remaining \in Seq(DOMAIN P)
         /\ P[n].current \in DOMAIN P \cup {NoNode}
<1>1. P[n] \in Proofstate(DOMAIN P) /\ n \in Nat  BY NodeFacts
<1> HIDE DEF Tree1
<1>2. P[n].pending \in Seq(DOMAIN P) /\ P[n].remaining \in Seq(DOMAIN P)
  BY <1>1, Fields
<1>3. Waiting(P[n]) \subseteq DOMAIN P  BY <1>2 DEF Waiting, Elems
<1> QED BY <1>1, <1>2, <1>3, Fields

LEMMA LinkFacts ==
  ASSUME NEW P, TreeInv(P), NEW n \in DOMAIN P
  PROVE  /\ P[n].above \subseteq DOMAIN P /\ n \notin P[n].above
         /\ n # Root => /\ P[n].parent \in DOMAIN P /\ P[n].parent \in P[n].above
                        /\ P[n].above = P[P[n].parent].above \cup {P[n].parent}
         /\ n = Root => P[n].parent = NoNode /\ P[n].above = {}
         /\ P[n].parent < n /\ P[n].parent # n
         /\ \A a \in P[n].above : a < n /\ P[a].above \subseteq P[n].above
         /\ P[n].goal \in P[n].above \cup {n}
<1>1. /\ P[n].parent < n /\ (P[n].parent = NoNode <=> n = Root)
      /\ P[n].above = IF n = Root THEN {} ELSE P[P[n].parent].above \cup {P[n].parent}
      /\ \A a \in P[n].above : a < n /\ P[a].above \subseteq P[n].above
      /\ P[n].goal \in P[n].above \cup {n}
  BY DEF TreeInv, Links
<1>2. P[n].above \subseteq DOMAIN P /\ P[n].parent \in DOMAIN P \cup {NoNode}
      /\ n \in Nat
  BY TreeTypes DEF TreeInv
<1>3. n \notin P[n].above  BY <1>1, <1>2
<1>4. P[n].parent # n  BY <1>1, <1>2
<1> QED BY <1>1, <1>2, <1>3, <1>4

LEMMA RootAbove ==
  ASSUME NEW P, TreeInv(P), NEW n \in DOMAIN P, n # Root
  PROVE  Root \in P[n].above
<1>1. P[n].above \subseteq DOMAIN P /\ DOMAIN P = 1..Len(P) /\ Len(P) \in Nat
  BY LinkFacts, NodeFacts DEF TreeInv
<1>2. P[n].above # {}  BY LinkFacts
<1>3. PICK a \in P[n].above : \A b \in P[n].above : a <= b
  BY <1>1, <1>2, LeastElement
<1>4. ASSUME a # Root PROVE FALSE
  <2>1. a \in DOMAIN P  BY <1>1
  <2>2. P[a].parent \in P[a].above /\ P[a].parent < a /\ P[a].parent \in DOMAIN P
    BY <1>4, <2>1, LinkFacts
  <2>3. P[a].parent \in P[n].above  BY <2>2, LinkFacts
  <2>4. ~ (a <= P[a].parent)  BY <1>1, <2>1, <2>2
  <2> QED BY <1>3, <2>3, <2>4
<1> QED BY <1>4

SameLinks(v, p) == v.parent = p.parent /\ v.above = p.above /\ v.goal = p.goal

(* One proofstate that is not closed, and whose parent is working on it,   *)
(* may change.                                                             *)
LEMMA OneNode ==
  ASSUME NEW P, TreeInv(P), NEW m \in DOMAIN P, NEW v \in Proofstate(DOMAIN P),
         SameLinks(v, P[m]), Local(P, m, v), P[m].flag # "!",
         m = Root \/ (P[P[m].parent].flag = "?" /\ P[P[m].parent].current = m)
  PROVE  /\ TreeInv([P EXCEPT ![m] = v])
         /\ Keeps(P, [P EXCEPT ![m] = v])
         /\ DOMAIN [P EXCEPT ![m] = v] = DOMAIN P
<1> DEFINE Q == [P EXCEPT ![m] = v]
<1>1. Q \in Seq(Proofstate(DOMAIN P)) /\ DOMAIN Q = DOMAIN P /\ Len(Q) = Len(P)
  BY UpdateSeq DEF TreeInv, Tree1
<1>2. Tree1(Q)  BY <1>1 DEF TreeInv, Tree1
<1>3. Q[m] = v /\ \A n \in DOMAIN P \ {m} : Q[n] = P[n]  OBVIOUS
<1>4. \A n \in DOMAIN P : SameLinks(Q[n], P[n])  BY <1>3 DEF SameLinks
<1> HIDE DEF Q
<1>5. Links(Q)
  <2>1. \A n \in DOMAIN P : P[n].above \subseteq DOMAIN P
                            /\ P[n].parent \in DOMAIN P \cup {NoNode}
    BY TreeTypes DEF TreeInv
  <2>2. \A n \in DOMAIN P : Q[n].parent = P[n].parent /\ Q[n].above = P[n].above
                            /\ Q[n].goal = P[n].goal
    BY <1>4 DEF SameLinks
  <2>3. Links(P)  BY DEF TreeInv
  <2>4. Root \in DOMAIN P /\ NoNode \notin DOMAIN P  BY NodeFacts DEF TreeInv
  <2>5. ASSUME NEW n \in DOMAIN P
        PROVE  /\ Q[n].parent < n /\ (Q[n].parent = NoNode <=> n = Root)
               /\ Q[n].above = IF n = Root THEN {}
                               ELSE Q[Q[n].parent].above \cup {Q[n].parent}
               /\ \A a \in Q[n].above : a < n /\ Q[a].above \subseteq Q[n].above
               /\ Q[n].goal \in Q[n].above \cup {n}
    <3>1. /\ P[n].parent < n /\ (P[n].parent = NoNode <=> n = Root)
          /\ P[n].above = IF n = Root THEN {}
                          ELSE P[P[n].parent].above \cup {P[n].parent}
          /\ \A a \in P[n].above : a < n /\ P[a].above \subseteq P[n].above
          /\ P[n].goal \in P[n].above \cup {n}
      BY <2>3 DEF Links
    <3>2. n # Root => P[n].parent \in DOMAIN P  BY <2>1, <3>1
    <3>3. n # Root => Q[P[n].parent].above = P[P[n].parent].above
      BY <2>2, <3>2
    <3> QED BY <2>1, <2>2, <3>1, <3>3
  <2> QED BY <1>1, <2>5 DEF Links
<1>6. ASSUME NEW n \in DOMAIN P PROVE Local(Q, n, Q[n])
  <2>0. n \in Nat /\ P[n].parent < n /\ P[m].parent < m /\ m \in Nat
    BY TreeTypes DEF TreeInv, Links
  <2>1. CASE n = m
    <3>1. \A k \in DOMAIN P : P[k].parent = m => Q[k] = P[k]
      BY <2>0, <2>1, <1>3
    <3>2. v.kids \subseteq DOMAIN P /\ v.done \subseteq DOMAIN P /\ Waiting(v) \subseteq DOMAIN P
          /\ v.current \in DOMAIN P \cup {NoNode} /\ Elems(v.pending) \subseteq Waiting(v)
      BY Fields DEF Waiting, Elems
    <3>3. Lists(v)  BY DEF Local
    <3>4. Children(Q, m, v)
      <4>1. \A k \in DOMAIN P : Q[k].parent = P[k].parent  BY <1>4 DEF SameLinks
      <4> QED BY <3>2, <4>1 DEF Local, Children
    <3>5. \A k \in v.kids \cup v.done \cup Waiting(v) : k \in DOMAIN P /\ Q[k] = P[k]
      BY <3>1, <3>2 DEF Local, Children
    <3>6. Subgoals(Q, v)
      BY <3>2, <3>5 DEF Local, Subgoals
    <3> QED BY <1>3, <2>1, <3>3, <3>4, <3>6 DEF Local
  <2>2. CASE n # m
    <3>1. Local(P, n, P[n]) /\ Q[n] = P[n]  BY <1>3, <2>2 DEF TreeInv
    <3>0. P[n].kids \cup P[n].done \cup Waiting(P[n]) \subseteq DOMAIN P
          /\ P[n].current \in DOMAIN P \cup {NoNode}
      BY TreeTypes DEF TreeInv
    <3>2. Children(Q, n, P[n])
      <4>1. \A k \in DOMAIN P : Q[k].parent = P[k].parent  BY <1>4 DEF SameLinks
      <4> QED BY <3>0, <3>1, <4>1 DEF Local, Children
    <3>3. CASE P[m].parent # n
      <4>1. \A k \in P[n].kids \cup P[n].done \cup Waiting(P[n]) : Q[k] = P[k]
        BY <1>3, <3>0, <3>1, <3>3 DEF Local, Children
      <4>2. Elems(P[n].pending) \subseteq Waiting(P[n])  BY DEF Waiting
      <4>3. Subgoals(Q, P[n])
        BY <3>1, <4>1, <4>2 DEF Local, Subgoals
      <4> QED BY <3>1, <3>2, <4>3 DEF Local
    <3>4. CASE P[m].parent = n
      <4>1. m # Root
        <5>1. Root \in DOMAIN P /\ NoNode \notin DOMAIN P  BY NodeFacts DEF TreeInv
        <5>2. P[Root].parent = NoNode  BY <5>1 DEF TreeInv, Links
        <5> QED BY <3>4, <5>1, <5>2
      <4>2. P[n].flag = "?" /\ P[n].current = m  BY <3>4, <4>1
      <4>3. m \notin Waiting(P[n]) /\ m \notin P[n].done
        BY <3>1, <4>2 DEF Local, Lists, Subgoals
      <4>4. Elems(P[n].pending) \subseteq Waiting(P[n])  BY DEF Waiting
      <4>5. \A k \in P[n].done \cup Waiting(P[n]) : Q[k] = P[k]
        BY <1>3, <3>0, <4>3
      <4>6. Subgoals(Q, P[n])
        BY <3>1, <4>2, <4>4, <4>5 DEF Local, Subgoals
      <4> QED BY <3>1, <3>2, <4>6 DEF Local
    <3> QED BY <3>3, <3>4
  <2> QED BY <2>1, <2>2
<1>7. Keeps(P, Q)  BY <1>3 DEF Keeps
<1> QED BY <1>1, <1>2, <1>5, <1>6, <1>7 DEF TreeInv, Q

(* The root is marked as postponed when the rule apply returns.            *)
LEMMA ReturnInv ==
  ASSUME TypeOK', NEW P, TreeInv(P), NEW next \in DOMAIN P, Return(P, next),
         PathTo(P, next), Settled(P[next]),
         Nodes \subseteq DOMAIN P, Keeps(ps, P)
  PROVE  IInv' /\ Keeps(ps, ps')
<1> DEFINE v == [P[Root] EXCEPT !.flag = "*"]
           Q == [P EXCEPT ![Root] = v]
<1>0. Root \in DOMAIN P /\ P[Root] \in Proofstate(DOMAIN P)
  BY NodeFacts DEF TreeInv
<1>1. CASE outcome' = "subgoals"
  <2>1. ps' = Q  BY <1>1 DEF Return
  <2>2. P[Root].flag \in {"fresh", "*"}
    BY <1>1 DEF Return, Ending
  <2>3. /\ v \in Proofstate(DOMAIN P) /\ SameLinks(v, P[Root])
        /\ v.flag = "*" /\ v.kids = P[Root].kids /\ v.done = P[Root].done
        /\ v.pending = P[Root].pending /\ v.remaining = P[Root].remaining
        /\ v.current = P[Root].current
    BY <1>0 DEF Proofstate, Flag, SameLinks
  <2>4. Local(P, Root, P[Root])  BY <1>0 DEF TreeInv
  <2> HIDE DEF v
  <2>5. Local(P, Root, v)
    BY <2>2, <2>3, <2>4 DEF Local, Lists, Children, Subgoals, Waiting, Active
  <2>6. TreeInv(Q) /\ Keeps(P, Q) /\ DOMAIN Q = DOMAIN P
    BY <1>0, <2>2, <2>3, <2>5, OneNode
  <2>8. Q[Root] = v  BY <1>0
  <2> HIDE DEF Q
  <2>7. Keeps(ps, Q)  BY <2>6 DEF Keeps, Nodes
  <2>9. next = Root  BY <2>2, RootAbove DEF PathTo
  <2>10. Settled(v)  BY <2>2, <2>3, <2>9 DEF Settled, Active
  <2> QED BY <1>1, <2>1, <2>3, <2>6, <2>7, <2>8, <2>10 DEF IInv
<1>2. CASE outcome' # "subgoals"
  <2>1. ps' = P  BY <1>2 DEF Return
  <2>2. outcome' = "running" => cur' = next  BY DEF Return
  <2>3. outcome' = "qed" => P[Root].flag = "!"  BY DEF Return, Ending
  <2> QED BY <1>2, <2>1, <2>2, <2>3 DEF IInv
<1> QED BY <1>1, <1>2

(* The path to c leads to the proofstates on it.                           *)
LEMMA PathPart ==
  ASSUME NEW P, TreeInv(P), NEW c \in DOMAIN P, PathTo(P, c),
         NEW t \in P[c].above \cup {c},
         NEW Q, \A n \in DOMAIN P : SameLinks(Q[n], P[n]),
         \A n \in P[t].above : Q[n] = P[n]
  PROVE  PathTo(Q, t) /\ t \in DOMAIN P
<1>1. P[c].above \subseteq DOMAIN P  BY TreeTypes DEF TreeInv
<1>2. t \in DOMAIN P  BY <1>1
<1>3. Q[t].above = P[t].above  BY <1>2 DEF SameLinks
<1>4. P[t].above \subseteq P[c].above
  <2>1. \A a \in P[c].above : P[a].above \subseteq P[c].above
    BY DEF TreeInv, Links
  <2> QED BY <2>1
<1>5. ASSUME NEW a \in P[t].above \cup {t}, a # Root
      PROVE  /\ Q[a].parent = P[a].parent
             /\ P[a].parent \in P[t].above
  <2>1. a \in DOMAIN P  BY <1>1, <1>2, <1>4
  <2>2. P[a].parent \in P[a].above  BY <1>5, <2>1, LinkFacts
  <2>3. P[a].above \subseteq P[t].above  BY <1>2 DEF TreeInv, Links
  <2> QED BY <2>1, <2>2, <2>3 DEF SameLinks
<1> QED BY <1>2, <1>3, <1>4, <1>5 DEF PathTo

(* Every proofstate on the path may change: it is not closed.              *)
LEMMA OnPath ==
  ASSUME NEW P, TreeInv(P), NEW c \in DOMAIN P, PathTo(P, c),
         NEW m \in P[c].above \cup {c}, m # c \/ P[c].flag # "!"
  PROVE  /\ m \in DOMAIN P
         /\ P[m].flag # "!"
         /\ m = Root \/ (P[P[m].parent].flag = "?" /\ P[P[m].parent].current = m)
<1>1. P[c].above \subseteq DOMAIN P  BY TreeTypes DEF TreeInv
<1> QED BY <1>1 DEF PathTo

(* A change that leaves the lists of subgoals alone.                       *)
SameLists(v, p) ==
  /\ v.done = p.done /\ v.pending = p.pending /\ v.remaining = p.remaining
  /\ v.current = p.current /\ v.kids \in {p.kids, {}}
  /\ v.flag = "!" => v.kids = {}
  /\ v.flag \in Active => p.flag \in Active
Empty(v) ==
  /\ v.done = {} /\ v.pending = <<>> /\ v.remaining = <<>>
  /\ v.current = NoNode /\ v.kids = {}

LEMMA SameLocal ==
  ASSUME NEW P, TreeInv(P), NEW m \in DOMAIN P, NEW v, SameLists(v, P[m])
  PROVE  Local(P, m, v) /\ (Settled(P[m]) => Settled(v))
<1>1. Local(P, m, P[m])  BY DEF TreeInv
<1>2. Waiting(v) = Waiting(P[m])  BY DEF SameLists, Waiting
<1>3. Lists(v)  BY <1>1, <1>2 DEF SameLists, Local, Lists
<1>4. Children(P, m, v)  BY <1>1, <1>2 DEF SameLists, Local, Children
<1>5. Subgoals(P, v)  BY <1>1, <1>2 DEF SameLists, Local, Subgoals
<1> QED BY <1>3, <1>4, <1>5 DEF Local, SameLists, Settled

LEMMA EmptyLocal ==
  ASSUME NEW P, Tree1(P), NEW m \in DOMAIN P, NEW v, Empty(v)
  PROVE  Local(P, m, v) /\ Settled(v)
<1>1. Waiting(v) = {} /\ Elems(v.pending) = {} /\ Elems(v.remaining) = {}
  BY DEF Empty, Waiting, Elems
<1>2. NoDuplicates(v.pending) /\ NoDuplicates(v.remaining)
  BY DEF Empty, NoDuplicates
<1> QED BY <1>1, <1>2 DEF Empty, Local, Lists, Children, Subgoals, Settled

(* A step that changes one proofstate m of the path and goes on with it;   *)
(* P is the tree before that change.                                       *)
LEMMA MoveStep ==
  ASSUME TypeOK', NEW P, TreeInv(P), DOMAIN P = Nodes, cur \in Nodes,
         PathTo(P, cur), Keeps(ps, P),
         NEW m \in P[cur].above \cup {cur}, m # cur \/ P[cur].flag # "!",
         NEW v \in Proofstate(Nodes),
         SameLinks(v, P[m]), Local(P, m, v), Settled(v),
         Return([P EXCEPT ![m] = v], m)
  PROVE  IInv' /\ Keeps(ps, ps')
<1> DEFINE Q == [P EXCEPT ![m] = v]
<1>1. /\ m \in Nodes /\ P[m].flag # "!"
      /\ m = Root \/ (P[P[m].parent].flag = "?" /\ P[P[m].parent].current = m)
  BY OnPath
<1>2. TreeInv(Q) /\ Keeps(P, Q) /\ DOMAIN Q = Nodes
  BY <1>1, OneNode
<1>3. Q[m] = v /\ \A n \in Nodes \ {m} : Q[n] = P[n]  BY <1>1
<1>4. Return(Q, m)  OBVIOUS
<1> HIDE DEF Q
<1>5. \A n \in Nodes : SameLinks(Q[n], P[n])  BY <1>3 DEF SameLinks
<1>6. \A n \in P[m].above : Q[n] = P[n]
  <2>1. m \notin P[m].above /\ P[m].above \subseteq Nodes
    BY <1>1, LinkFacts
  <2> QED BY <1>3, <2>1
<1>7. PathTo(Q, m)  BY <1>5, <1>6, PathPart
<1>8. Keeps(ps, Q)  BY <1>2 DEF Keeps, Nodes
<1> QED BY <1>1, <1>2, <1>3, <1>4, <1>7, <1>8, ReturnInv

LEMMA PathStep ==
  ASSUME IInv, outcome = "running", ps[cur].flag # "!", TypeOK',
         NEW m \in Ancestors(cur), NEW v \in Proofstate(Nodes),
         SameLinks(v, ps[m]), Local(ps, m, v), Settled(v),
         Return([ps EXCEPT ![m] = v], m)
  PROVE  IInv' /\ Keeps(ps, ps')
<1>1. cur \in Nodes /\ DOMAIN ps = Nodes /\ TreeInv(ps) /\ PathTo(ps, cur)
  BY DEF IInv, TypeOK, Nodes
<1>2. Keeps(ps, ps)  BY DEF Keeps
<1> QED BY <1>1, <1>2, MoveStep DEF Ancestors

-----------------------------------------------------------------------------
(* The invariant is kept by the steps of a fresh goal.                     *)

AtGoal == IInv /\ outcome = "running" /\ ps[cur].flag = "fresh"
Kept == IInv' /\ Keeps(ps, ps')

LEMMA LeafStep ==
  ASSUME AtGoal, TypeOK', NEW v \in Proofstate(Nodes),
         SameLinks(v, ps[cur]), SameLists(v, ps[cur]),
         Return([ps EXCEPT ![cur] = v], cur)
  PROVE  Kept
<1>1. TreeInv(ps) /\ cur \in DOMAIN ps /\ Settled(ps[cur]) /\ cur \in Ancestors(cur)
  BY DEF AtGoal, IInv, TypeOK, Nodes, Ancestors
<1>2. Local(ps, cur, v) /\ Settled(v)  BY <1>1, SameLocal
<1> QED BY <1>1, <1>2, PathStep DEF AtGoal, Kept

LEMMA LeafLists ==
  ASSUME NEW N, NEW p \in Proofstate(N), p.flag = "fresh",
         NEW f, NEW sl, NEW d, NEW r, NEW u
  PROVE  /\ LET v == [p EXCEPT !.flag = "!", !.rule = r, !.kids = {}]
            IN  SameLinks(v, p) /\ SameLists(v, p)
         /\ LET v == [p EXCEPT !.strategy = sl, !.flag = "!", !.rule = r,
                               !.deps = d, !.kids = {}, !.uses = u]
            IN  SameLinks(v, p) /\ SameLists(v, p)
         /\ LET v == [p EXCEPT !.strategy = sl, !.deps = d]
            IN  SameLinks(v, p) /\ SameLists(v, p)
         /\ f # "!" =>
              LET v == [p EXCEPT !.strategy = sl, !.flag = f]
              IN  SameLinks(v, p) /\ SameLists(v, p)
         /\ LET v == [p EXCEPT !.strategy = sl]
            IN  SameLinks(v, p) /\ SameLists(v, p)
  BY DEF Proofstate, SameLinks, SameLists, Active

LEMMA PropaxKept ==
  ASSUME IInv, TypeOK', Propax
  PROVE  Kept
<1>1. AtGoal /\ TypeOK  BY DEF AtGoal, Propax, IInv
<1>2. ps[cur] \in Proofstate(Nodes)  BY <1>1, CurType
<1>3. [ps[cur] EXCEPT !.flag = "!", !.rule = "propax", !.kids = {}] \in Proofstate(Nodes)
  BY <1>2 DEF Proofstate, Flag
<1> QED BY <1>1, <1>2, <1>3, LeafLists, LeafStep DEF Propax, AtGoal

LEMMA LeafStepsKept ==
  ASSUME AtGoal, TypeOK', NEW s \in Steps
  PROVE  /\ \A o \in OutcomesOf(s) :
              (RuleProves(s, o) => Kept) /\ (RuleNoChange(s, o) => Kept)
         /\ Skip(s) => Kept
         /\ RuleFails(s) => Kept
         /\ RulePostpones(s) => Kept
         /\ UndoRefused(s) => Kept
<1>1. ps[cur] \in Proofstate(Nodes) /\ ps[cur].flag = "fresh" /\ TypeOK
  BY CurType DEF AtGoal, IInv
<1>2. ps[cur].deps \subseteq Decl /\ ps[cur].rule \in Rule \cup {NoRule, "propax"}
  BY <1>1, Fields
<1>3. ASSUME NEW o \in OutcomesOf(s), RuleProves(s, o) PROVE Kept
  <2>1. RuleOf(s) \in Rule /\ Object(s) \in Slot /\ o.refs \subseteq Decl
    BY <1>3, StepFields, OutcomeFields DEF OutcomesOf
  <2> DEFINE v == [ps[cur] EXCEPT !.strategy = Object(s), !.flag = "!",
                     !.rule = RuleOf(s), !.deps = ps[cur].deps \cup o.refs,
                     !.kids = {}, !.uses = o.refs]
  <2>2. v \in Proofstate(Nodes)  BY <1>1, <1>2, <2>1 DEF Proofstate, Flag
  <2>3. SameLinks(v, ps[cur]) /\ SameLists(v, ps[cur])  BY <1>1, LeafLists
  <2>4. Return([ps EXCEPT ![cur] = v], cur)  BY <1>3 DEF RuleProves
  <2> HIDE DEF v
  <2> QED BY <2>2, <2>3, <2>4, LeafStep
<1>4. ASSUME NEW refs \in SUBSET Decl, NoChange(s, refs) PROVE Kept
  <2> DEFINE v == [ps[cur] EXCEPT !.strategy = Expr(s.else),
                                  !.deps = ps[cur].deps \cup refs]
  <2>1. v \in Proofstate(Nodes)  BY <1>1, <1>2, StepFields DEF Proofstate
  <2>2. SameLinks(v, ps[cur]) /\ SameLists(v, ps[cur])  BY <1>1, LeafLists
  <2>3. Return([ps EXCEPT ![cur] = v], cur)  BY <1>4 DEF NoChange
  <2> HIDE DEF v
  <2> QED BY <2>1, <2>2, <2>3, LeafStep
<1>5. ASSUME NEW o \in OutcomesOf(s), RuleNoChange(s, o) PROVE Kept
  BY <1>4, <1>5, StepFields, OutcomeFields DEF RuleNoChange
<1>6. Skip(s) => Kept  BY <1>4 DEF Skip
<1>7. ASSUME NEW f \in Flag, NEW sl \in Slot, f # "!",
             Return([ps EXCEPT ![cur] = [ps[cur] EXCEPT !.strategy = sl, !.flag = f]], cur)
      PROVE  Kept
  <2> DEFINE v == [ps[cur] EXCEPT !.strategy = sl, !.flag = f]
  <2>1. v \in Proofstate(Nodes)  BY <1>1 DEF Proofstate
  <2>2. SameLinks(v, ps[cur]) /\ SameLists(v, ps[cur])  BY <1>1, <1>7, LeafLists
  <2>3. Return([ps EXCEPT ![cur] = v], cur)  BY <1>7
  <2> HIDE DEF v
  <2> QED BY <2>1, <2>2, <2>3, LeafStep
<1>8. RuleFails(s) => Kept  BY <1>7, StepFields DEF RuleFails, Flag
<1>9. RulePostpones(s) => Kept  BY <1>7, StepFields DEF RulePostpones, Flag
<1>10. ASSUME UndoRefused(s) PROVE Kept
  <2> DEFINE v == [ps[cur] EXCEPT !.strategy = Expr(QueryStep)]
  <2>1. v \in Proofstate(Nodes)  BY <1>1, SlotValues DEF Proofstate
  <2>2. SameLinks(v, ps[cur]) /\ SameLists(v, ps[cur])  BY <1>1, LeafLists
  <2>3. Return([ps EXCEPT ![cur] = v], cur)  BY <1>10 DEF UndoRefused, AskAgain
  <2> HIDE DEF v
  <2> QED BY <2>1, <2>2, <2>3, LeafStep
<1> QED BY <1>3, <1>5, <1>6, <1>8, <1>9, <1>10

LEMMA QuitKept ==
  ASSUME AtGoal, TypeOK', NEW s \in Steps, Quit(s)
  PROVE  Kept
<1> DEFINE v == [ps[cur] EXCEPT !.strategy = Object(s)]
<1>1. ps[cur] \in Proofstate(Nodes) /\ ps[cur].flag = "fresh"
  BY CurType DEF AtGoal, IInv
<1>2. v \in Proofstate(Nodes)  BY <1>1, StepFields DEF Proofstate
<1>3. SameLinks(v, ps[cur]) /\ SameLists(v, ps[cur])  BY <1>1, LeafLists
<1>4. ps' = [ps EXCEPT ![cur] = v] /\ outcome' = "quit"  BY DEF Quit
<1> HIDE DEF v
<1>5. TreeInv(ps) /\ cur \in DOMAIN ps /\ PathTo(ps, cur)
  BY DEF AtGoal, IInv, TypeOK, Nodes
<1>6. Local(ps, cur, v)  BY <1>3, <1>5, SameLocal
<1>7. TreeInv(ps') /\ Keeps(ps, ps')
  <2>1. /\ ps[cur].flag # "!"
        /\ cur = Root \/ (ps[ps[cur].parent].flag = "?" /\ ps[ps[cur].parent].current = cur)
    BY <1>1, <1>5, OnPath
  <2>2. v \in Proofstate(DOMAIN ps)  BY <1>2 DEF Nodes
  <2> QED BY <1>3, <1>4, <1>5, <1>6, <2>1, <2>2, OneNode
<1> QED BY <1>4, <1>7 DEF Kept, IInv

LEMMA ClearedFields ==
  ASSUME NEW N, NEW p \in Proofstate(N), NEW sl
  PROVE  /\ LET v == [Cleared(p) EXCEPT !.strategy = sl]
            IN  SameLinks(v, p) /\ Empty(v)
         /\ SameLinks(Undone(p), p) /\ Empty(Undone(p))
<1> DEFINE c == Cleared(p)
<1>1. SameLinks(c, p) /\ Empty(c)
  BY DEF Cleared, Proofstate, SameLinks, Empty
<1>2. c \in Proofstate(N)
  <2>1. <<>> \in Seq(N) /\ "fresh" \in Flag  BY DEF Flag
  <2> QED BY <2>1 DEF Cleared, Proofstate
<1>3. Undone(p) = [c EXCEPT !.rule = NoRule, !.deps = {}, !.strategy = Expr(QueryStep)]
  BY DEF Undone
<1> HIDE DEF c
<1>4. LET v == [c EXCEPT !.strategy = sl]
      IN  SameLinks(v, p) /\ Empty(v)
  BY <1>1, <1>2 DEF Proofstate, SameLinks, Empty
<1>5. LET v == [c EXCEPT !.rule = NoRule, !.deps = {}, !.strategy = Expr(QueryStep)]
      IN  SameLinks(v, p) /\ Empty(v)
  BY <1>1, <1>2 DEF Proofstate, SameLinks, Empty
<1> QED BY <1>3, <1>4, <1>5 DEF c

LEMMA AbortKept ==
  ASSUME AtGoal, TypeOK', Abort
  PROVE  Kept
<1> DEFINE g == NonStratParent(cur)
           v == [Cleared(ps[g]) EXCEPT !.strategy = Expr(QueryStep)]
<1>0. TreeInv(ps) /\ cur \in DOMAIN ps /\ PathTo(ps, cur) /\ TypeOK
  BY DEF AtGoal, IInv, TypeOK, Nodes
<1>1. g \in Ancestors(cur) /\ g \in Nodes
  <2>1. g \in ps[cur].above \cup {cur}
    BY <1>0, LinkFacts DEF NonStratParent
  <2>2. ps[cur].above \subseteq Nodes /\ cur \in Nodes
    BY <1>0, LinkFacts DEF Nodes
  <2> QED BY <2>1, <2>2 DEF Ancestors
<1>2. ps[g] \in Proofstate(Nodes)  BY <1>0, <1>1 DEF TypeOK, Nodes
<1>3. v \in Proofstate(Nodes)  BY <1>2, ClearedType, SlotValues
<1>4. SameLinks(v, ps[g]) /\ Empty(v)  BY <1>2, ClearedFields
<1>5. Return([ps EXCEPT ![g] = v], g)  BY DEF Abort
<1> HIDE DEF v, g
<1>6. Local(ps, g, v) /\ Settled(v)
  BY <1>0, <1>1, <1>4, EmptyLocal DEF TreeInv, Nodes
<1> QED BY <1>1, <1>3, <1>4, <1>5, <1>6, PathStep DEF AtGoal, Kept

LEMMA UndoToKept ==
  ASSUME AtGoal, TypeOK', NEW s \in Steps, UndoTo(s)
  PROVE  Kept
<1> DEFINE u == [ps[cur] EXCEPT !.strategy = Object(s)]
           left == [ps EXCEPT ![cur] = u]
<1>0. TreeInv(ps) /\ cur \in DOMAIN ps /\ PathTo(ps, cur) /\ ps[cur].flag = "fresh"
      /\ DOMAIN ps = Nodes
  BY DEF AtGoal, IInv, TypeOK, Nodes
<1>1. PICK t \in Ancestors(cur) \ {cur} :
        Return([left EXCEPT ![t] = Undone(left[t])], t)
  BY DEF UndoTo
<1>2. ps[cur] \in Proofstate(Nodes)  BY CurType DEF AtGoal, IInv
<1>3. u \in Proofstate(Nodes)  BY <1>2, StepFields DEF Proofstate
<1>4. SameLinks(u, ps[cur]) /\ SameLists(u, ps[cur]) /\ u.flag = "fresh"
  BY ZenonT(60), <1>0, <1>2, LeafLists DEF Proofstate
<1> HIDE DEF u
<1>5. Local(ps, cur, u)  BY <1>0, <1>4, SameLocal
<1>6. cur = Root \/ (ps[ps[cur].parent].flag = "?" /\ ps[ps[cur].parent].current = cur)
  BY <1>0, OnPath
<1>7. TreeInv(left) /\ Keeps(ps, left) /\ DOMAIN left = Nodes
  BY <1>0, <1>3, <1>4, <1>5, <1>6, OneNode
<1>8. left[cur] = u /\ \A n \in Nodes \ {cur} : left[n] = ps[n]  BY <1>0
<1> HIDE DEF left
<1>9. \A n \in Nodes : SameLinks(left[n], ps[n])  BY <1>4, <1>8 DEF SameLinks
<1>10. PathTo(left, cur)
  <2>1. \A n \in ps[cur].above : left[n] = ps[n]  BY <1>0, <1>8, LinkFacts
  <2> QED BY <1>0, <1>9, <2>1, PathPart
<1>11. t \in left[cur].above \cup {cur}
  BY <1>0, <1>1, <1>9 DEF SameLinks, Ancestors
<1>12. /\ t \in Nodes /\ left[t].flag # "!"
       /\ t = Root \/ (left[left[t].parent].flag = "?" /\ left[left[t].parent].current = t)
  BY <1>0, <1>4, <1>7, <1>8, <1>10, <1>11, OnPath
<1> DEFINE v == Undone(left[t])
           P == [left EXCEPT ![t] = v]
<1>13. left[t] \in Proofstate(Nodes)
  BY <1>7, <1>12, NodeFacts DEF TreeInv
<1>14. v \in Proofstate(Nodes)  BY <1>13, ClearedType, SlotValues
<1>15. SameLinks(v, left[t]) /\ Empty(v)  BY <1>13, ClearedFields
<1> HIDE DEF v
<1>16. Local(left, t, v) /\ Settled(v)
  BY <1>7, <1>12, <1>15, EmptyLocal DEF TreeInv
<1>17. TreeInv(P) /\ Keeps(left, P) /\ DOMAIN P = Nodes
  BY <1>7, <1>12, <1>14, <1>15, <1>16, OneNode
<1>18. P[t] = v /\ \A n \in Nodes \ {t} : P[n] = left[n]  BY <1>7, <1>12
<1>19. Return(P, t)  BY <1>1 DEF v
<1> HIDE DEF P
<1>20. PathTo(P, t)
  <2>1. \A n \in left[t].above : P[n] = left[n]  BY <1>7, <1>12, <1>18, LinkFacts
  <2>2. \A n \in Nodes : SameLinks(P[n], left[n])  BY <1>15, <1>18 DEF SameLinks
  <2> QED BY <1>0, <1>7, <1>10, <1>11, <2>1, <2>2, PathPart
<1>21. Keeps(ps, P)  BY <1>0, <1>7, <1>17 DEF Keeps
<1> QED BY <1>12, <1>16, <1>17, <1>18, <1>19, <1>20, <1>21, ReturnInv DEF Kept

(* The subgoals k are added at the end, as the subgoals of the current     *)
(* proofstate.                                                             *)
Adds(goal, kids, n, k) ==
  /\ SameLinks(goal, ps[cur]) /\ goal.flag = "?"
  /\ goal.done = ps[cur].done /\ goal.pending = ps[cur].pending
  /\ goal.current = ps[cur].current
  /\ goal.remaining = [i \in 1..k |-> n + i]
  /\ goal.kids = (n + 1)..(n + k)
  /\ \A i \in 1..k :
       /\ kids[i].parent = cur /\ kids[i].above = ps[cur].above \cup {cur}
       /\ kids[i].goal \in {ps[cur].goal, n + i}
       /\ kids[i].flag = "fresh" /\ Empty(kids[i])

LEMMA AddLinks ==
  ASSUME TreeInv(ps), cur \in DOMAIN ps, NEW k \in Nat, NEW goal, NEW kids,
         NEW P, Tree1(P), DOMAIN P = 1..(Len(ps) + k),
         P[cur] = goal, \A m \in DOMAIN ps \ {cur} : P[m] = ps[m],
         \A i \in 1..k : P[Len(ps) + i] = kids[i],
         Adds(goal, kids, Len(ps), k)
  PROVE  Links(P)
<1>0. DOMAIN ps = 1..Len(ps) /\ Len(ps) \in Nat /\ Root \in DOMAIN ps
      /\ NoNode \notin DOMAIN ps
  BY NodeFacts DEF TreeInv
<1>1. \A m \in DOMAIN ps : SameLinks(P[m], ps[m])  BY DEF Adds, SameLinks
<1>2. ASSUME NEW m \in DOMAIN P
      PROVE  /\ P[m].parent < m /\ (P[m].parent = NoNode <=> m = Root)
             /\ P[m].above = IF m = Root THEN {}
                             ELSE P[P[m].parent].above \cup {P[m].parent}
             /\ \A a \in P[m].above : a < m /\ P[a].above \subseteq P[m].above
             /\ P[m].goal \in P[m].above \cup {m}
  <2>1. CASE m \in DOMAIN ps
    <3>1. P[m].parent = ps[m].parent /\ P[m].above = ps[m].above /\ P[m].goal = ps[m].goal
      BY <1>1, <2>1 DEF SameLinks
    <3>2. ps[m].above \subseteq DOMAIN ps
      BY <2>1, LinkFacts
    <3>3. \A a \in ps[m].above : P[a].above = ps[a].above
      BY <1>1, <3>2 DEF SameLinks
    <3>4. m # Root => P[ps[m].parent].above = ps[ps[m].parent].above
      BY <2>1, <3>3, LinkFacts
    <3>5. ps[m].parent = NoNode <=> m = Root  BY <1>0, <2>1, LinkFacts
    <3>6. /\ ps[m].parent < m /\ ps[m].goal \in ps[m].above \cup {m}
          /\ ps[m].above = IF m = Root THEN {}
                           ELSE ps[ps[m].parent].above \cup {ps[m].parent}
          /\ \A a \in ps[m].above : a < m /\ ps[a].above \subseteq ps[m].above
      BY <2>1 DEF TreeInv, Links
    <3> QED BY <3>1, <3>3, <3>4, <3>5, <3>6
  <2>2. CASE m \notin DOMAIN ps
    <3>1. m - Len(ps) \in 1..k /\ Len(ps) + (m - Len(ps)) = m
      BY <1>0, <2>2
    <3>2. P[m] = kids[m - Len(ps)]  BY <3>1
    <3>3. /\ P[m].parent = cur /\ P[m].above = ps[cur].above \cup {cur}
          /\ P[m].goal \in {ps[cur].goal, m}
      BY <3>1, <3>2 DEF Adds
    <3>4. ps[cur].above \subseteq DOMAIN ps /\ ps[cur].goal \in ps[cur].above \cup {cur}
          /\ \A a \in ps[cur].above : ps[a].above \subseteq ps[cur].above
      BY LinkFacts
    <3>5. \A a \in ps[cur].above \cup {cur} : a < m /\ P[a].above = ps[a].above
      BY <1>0, <1>1, <2>2, <3>4 DEF SameLinks
    <3>6. m # Root /\ cur # NoNode  BY <1>0, <2>2
    <3>7. P[m].parent < m /\ P[m].parent # NoNode  BY <3>3, <3>5, <3>6
    <3>8. P[m].above = P[P[m].parent].above \cup {P[m].parent}
      BY <3>3, <3>5
    <3>9. \A a \in P[m].above : a < m /\ P[a].above \subseteq P[m].above
      BY <3>3, <3>4, <3>5
    <3>10. P[m].goal \in P[m].above \cup {m}  BY <3>3, <3>4
    <3> QED BY <3>6, <3>7, <3>8, <3>9, <3>10
  <2> QED BY <2>1, <2>2
<1> QED BY <1>2 DEF Links

LEMMA AddLocal ==
  ASSUME TreeInv(ps), cur \in DOMAIN ps, ps[cur].flag = "fresh",
         PathTo(ps, cur), Settled(ps[cur]),
         NEW k \in Nat, NEW goal, NEW kids,
         NEW P, Tree1(P), DOMAIN P = 1..(Len(ps) + k),
         P[cur] = goal, \A m \in DOMAIN ps \ {cur} : P[m] = ps[m],
         \A i \in 1..k : P[Len(ps) + i] = kids[i],
         Adds(goal, kids, Len(ps), k),
         NEW m \in DOMAIN P
  PROVE  Local(P, m, P[m]) /\ Settled(P[cur])
<1> DEFINE n == Len(ps)
           new == (n + 1)..(n + k)
<1>0. DOMAIN ps = 1..n /\ n \in Nat /\ new \cap DOMAIN ps = {}
  BY NodeFacts DEF TreeInv
<1>1. \A j \in DOMAIN ps : P[j].parent = ps[j].parent
  BY DEF Adds, SameLinks
<1>2. \A j \in new : /\ P[j].parent = cur /\ P[j].flag = "fresh"
                     /\ P[j].current = NoNode /\ Empty(P[j])
  <2>1. ASSUME NEW j \in new
        PROVE  /\ P[j].parent = cur /\ P[j].flag = "fresh"
               /\ P[j].current = NoNode /\ Empty(P[j])
    <3>1. PICK i \in 1..k : j = n + i
      <4>1. j - n \in 1..k /\ n + (j - n) = j  BY <1>0
      <4> QED BY <4>1
    <3>2. P[j] = kids[i]  BY <3>1
    <3>3. /\ kids[i].parent = cur /\ kids[i].flag = "fresh" /\ Empty(kids[i])
      BY DEF Adds
    <3> QED BY <3>2, <3>3 DEF Empty
  <2> QED BY <2>1
<1>3. \A j \in new : Settled(P[j])  BY <1>2 DEF Settled
<1>4. Local(ps, cur, ps[cur])  BY DEF TreeInv
<1>5. ps[cur].current \in ps[cur].done \cup {NoNode}
  BY DEF Settled, Active
<1>6. Settled(P[cur])  BY <1>5 DEF Adds, Settled
<1>7. /\ ps[cur].kids \cup ps[cur].done \cup Waiting(ps[cur]) \subseteq DOMAIN ps
      /\ Elems(ps[cur].pending) \subseteq Waiting(ps[cur])
      /\ NoNode \notin DOMAIN P
  <2>1. Elems(ps[cur].pending) \subseteq Waiting(ps[cur])  BY DEF Waiting
  <2> QED BY <2>1, TreeTypes, NodeFacts DEF TreeInv
<1>8. CASE m = cur
  <2>1. Elems(goal.remaining) = new
    <3>1. \A i \in 1..k : n + i \in new  BY <1>0
    <3>2. \A j \in new : j - n \in 1..k /\ n + (j - n) = j  BY <1>0
    <3>3. Len(goal.remaining) = k /\ \A i \in 1..k : goal.remaining[i] = n + i
      BY DEF Adds
    <3> HIDE DEF new, n
    <3> QED BY SMTT(30), <3>1, <3>2, <3>3 DEF Elems
  <2>2. NoDuplicates(goal.remaining)
    <3>1. Len(goal.remaining) = k /\ \A i \in 1..k : goal.remaining[i] = n + i
      BY DEF Adds
    <3> QED BY <1>0, <3>1 DEF NoDuplicates
  <2>3. /\ goal.done = ps[cur].done /\ goal.pending = ps[cur].pending
        /\ goal.current = ps[cur].current /\ goal.flag = "?" /\ goal.kids = new
    BY DEF Adds
  <2>4. Waiting(goal) = Elems(ps[cur].pending) \cup new
    BY <2>1, <2>3 DEF Waiting
  <2>5. \A j \in ps[cur].done \cup Elems(ps[cur].pending) : P[j] = ps[j] /\ P[j].parent = cur
    <3>1. \A j \in ps[cur].done \cup Elems(ps[cur].pending) :
            j \in DOMAIN ps /\ ps[j].parent = cur
      BY <1>4, <1>7 DEF Local, Children
    <3>2. ps[cur].parent # cur  BY LinkFacts
    <3> QED BY <3>1, <3>2
  <2>6. Lists(goal)
    <3>1. NoDuplicates(ps[cur].pending) /\ ps[cur].current \notin Waiting(ps[cur])
      BY <1>4 DEF Local, Lists
    <3>2. ps[cur].current \notin new  BY <1>0, <1>5, <1>7
    <3>3. Elems(ps[cur].pending) \cap new = {}  BY <1>0, <1>7
    <3>4. goal.current \notin Waiting(goal)  BY <1>7, <2>3, <2>4, <3>1, <3>2
    <3> QED BY <2>1, <2>2, <2>3, <2>4, <3>1, <3>3, <3>4 DEF Lists
  <2>7. Children(P, cur, goal)
    <3>1. goal.current # NoNode => P[goal.current].parent = cur
      BY <1>5, <2>3, <2>5
    <3>2. \A j \in goal.kids \cup goal.done \cup Waiting(goal) : P[j].parent = cur
      BY <1>2, <2>3, <2>4, <2>5
    <3> QED BY <3>1, <3>2 DEF Children
  <2>8. Subgoals(P, goal)
    <3>1. \A j \in Elems(ps[cur].pending) : Settled(P[j]) /\ P[j].flag = "*"
      BY <1>4, <1>7, <2>5 DEF Local, Subgoals
    <3>2. \A j \in ps[cur].done : P[j].flag = "!"
      BY <1>4, <2>5 DEF Local, Subgoals
    <3> QED BY <1>3, <2>3, <2>4, <3>1, <3>2 DEF Subgoals
  <2> QED BY <1>6, <1>8, <2>6, <2>7, <2>8 DEF Local
<1>9. CASE m \in DOMAIN ps \ {cur}
  <2>0. Local(ps, m, ps[m]) /\ P[m] = ps[m]  BY <1>9 DEF TreeInv
  <2>1. /\ ps[m].kids \cup ps[m].done \cup Waiting(ps[m]) \subseteq DOMAIN ps
        /\ ps[m].current \in DOMAIN ps \cup {NoNode}
        /\ Elems(ps[m].pending) \subseteq Waiting(ps[m])
    <3>1. Elems(ps[m].pending) \subseteq Waiting(ps[m])  BY DEF Waiting
    <3> QED BY <1>9, <3>1, TreeTypes DEF TreeInv
  <2>2. Children(P, m, ps[m])
    BY <1>1, <2>0, <2>1 DEF Local, Children
  <2>3. ps[m].flag = "!" => cur \notin ps[m].kids
    <3>1. ASSUME cur \in ps[m].kids PROVE ps[m].flag = "?"
      <4>1. ps[cur].parent = m  BY <2>0, <3>1 DEF Local, Children
      <4>2. cur # Root
        <5>1. m # NoNode  BY <1>9, NodeFacts DEF TreeInv
        <5>2. cur = Root => ps[cur].parent = NoNode  BY LinkFacts
        <5> QED BY <4>1, <5>1, <5>2
      <4> QED BY <4>1, <4>2 DEF PathTo
    <3> QED BY <3>1
  <2>4. cur \notin ps[m].done  BY <2>0 DEF Local, Subgoals
  <2>5. cur \notin Waiting(ps[m])
    <3>1. ASSUME cur \in Waiting(ps[m]) PROVE FALSE
      <4>1. ps[cur].parent = m  BY <2>0, <3>1 DEF Local, Children
      <4>2. cur # Root
        <5>1. m # NoNode  BY <1>9, NodeFacts DEF TreeInv
        <5>2. cur = Root => ps[cur].parent = NoNode  BY LinkFacts
        <5> QED BY <4>1, <5>1, <5>2
      <4>3. ps[m].current = cur  BY <4>1, <4>2 DEF PathTo
      <4> QED BY <2>0, <3>1, <4>3 DEF Local, Lists
    <3> QED BY <3>1
  <2>6. \A j \in ps[m].done \cup Waiting(ps[m]) : P[j] = ps[j]
    BY <2>1, <2>4, <2>5
  <2>7. ps[m].flag = "!" => \A j \in ps[m].kids : P[j] = ps[j]
    BY <2>1, <2>3
  <2>8. Subgoals(P, ps[m])
    BY <2>0, <2>1, <2>6, <2>7 DEF Local, Subgoals
  <2> QED BY <1>6, <2>0, <2>2, <2>8 DEF Local
<1>10. CASE m \in new
  BY <1>2, <1>6, <1>10, EmptyLocal
<1> QED BY <1>0, <1>8, <1>9, <1>10

LEMMA AddShape ==
  ASSUME TypeOK, NEW k \in Nat, NEW goal, NEW T, NEW kids \in Seq(T), Len(kids) = k
  PROVE  LET P == [ps EXCEPT ![cur] = goal] \o kids
         IN  /\ DOMAIN P = 1..(Len(ps) + k)
             /\ P[cur] = goal
             /\ \A m \in DOMAIN ps \ {cur} : P[m] = ps[m]
             /\ \A i \in 1..k : P[Len(ps) + i] = kids[i]
<1> DEFINE S == Proofstate(Nodes) \cup {goal}
           Q == [ps EXCEPT ![cur] = goal]
<1>1. ps \in Seq(Proofstate(Nodes)) /\ cur \in DOMAIN ps  BY DEF TypeOK, Nodes
<1>2. ps \in Seq(S)
  <2> HIDE DEF Nodes
  <2>1. \A i \in 1..Len(ps) : ps[i] \in S  BY <1>1
  <2> HIDE DEF S
  <2> QED BY <1>1, <2>1
<1>3. goal \in S  OBVIOUS
<1> HIDE DEF S
<1>4. Q \in Seq(S) /\ DOMAIN Q = DOMAIN ps /\ Len(Q) = Len(ps)
  BY <1>1, <1>2, <1>3, UpdateSeq
<1>5. Q[cur] = goal /\ \A m \in DOMAIN ps \ {cur} : Q[m] = ps[m]  BY <1>1
<1> HIDE DEF Q
<1> DEFINE P == Q \o kids
<1>6. /\ DOMAIN P = 1..(Len(ps) + k)
      /\ \A m \in 1..Len(ps) : P[m] = Q[m]
      /\ \A i \in 1..k : P[Len(ps) + i] = kids[i]
  BY <1>4
<1>7. DOMAIN ps = 1..Len(ps)  BY <1>1
<1> HIDE DEF P
<1>8. P[cur] = goal /\ \A m \in DOMAIN ps \ {cur} : P[m] = ps[m]
  BY <1>1, <1>5, <1>6, <1>7
<1> QED BY <1>6, <1>8 DEF P, Q

LEMMA AddStep ==
  ASSUME AtGoal, TypeOK', NEW k \in Nat, NEW goal, NEW T, NEW kids \in Seq(T),
         Len(kids) = k, Adds(goal, kids, Len(ps), k),
         Return([ps EXCEPT ![cur] = goal] \o kids, cur)
  PROVE  Kept
<1> DEFINE P == [ps EXCEPT ![cur] = goal] \o kids
<1>0. /\ TreeInv(ps) /\ cur \in DOMAIN ps /\ PathTo(ps, cur) /\ Settled(ps[cur])
      /\ ps[cur].flag = "fresh" /\ DOMAIN ps = Nodes /\ TypeOK
  BY DEF AtGoal, IInv, TypeOK, Nodes
<1>1. /\ DOMAIN P = 1..(Len(ps) + k)
      /\ P[cur] = goal
      /\ \A m \in DOMAIN ps \ {cur} : P[m] = ps[m]
      /\ \A i \in 1..k : P[Len(ps) + i] = kids[i]
  BY <1>0, AddShape
<1>2. Return(P, cur)  OBVIOUS
<1> HIDE DEF P
<1>3. ps' = P
  <2>1. outcome' = "running"  BY <1>1, <1>2 DEF Return, Ending, Adds
  <2> QED BY <1>2, <2>1 DEF Return
<1>4. Tree1(P)  BY <1>3 DEF TypeOK, Tree1, Nodes
<1>5. Links(P)  BY <1>0, <1>1, <1>4, AddLinks
<1>6. \A m \in DOMAIN P : Local(P, m, P[m]) /\ Settled(P[cur])
  BY <1>0, <1>1, <1>4, AddLocal
<1>7. cur \in DOMAIN P /\ Nodes \subseteq DOMAIN P
  <2>1. DOMAIN ps = 1..Len(ps) /\ Len(ps) \in Nat  BY <1>0, NodeFacts DEF TreeInv
  <2> QED BY <1>0, <1>1, <2>1
<1>8. PathTo(P, cur)
  <2>1. \A m \in DOMAIN ps : SameLinks(P[m], ps[m])
    BY <1>1 DEF Adds, SameLinks
  <2>2. \A m \in ps[cur].above : P[m] = ps[m]  BY <1>0, <1>1, LinkFacts
  <2> QED BY <1>0, <2>1, <2>2, PathPart
<1>9. Keeps(ps, P)  BY <1>0, <1>1 DEF Keeps
<1> QED BY <1>2, <1>4, <1>5, <1>6, <1>7, <1>8, <1>9, ReturnInv DEF TreeInv, Kept

LEMMA SubgoalsKept ==
  ASSUME AtGoal, TypeOK', NEW s \in Steps, NEW o \in OutcomesOf(s), RuleSubgoals(s, o)
  PROVE  Kept
<1> DEFINE n == Len(ps)
           k == Len(o.axioms)
           refs == ps[cur].deps \cup o.refs
           rem == [i \in 1..k |-> n + i]
           new == (n + 1)..(n + k)
           goal == [ps[cur] EXCEPT !.strategy = AfterRule(s), !.flag = "?",
                                   !.rule = RuleOf(s), !.deps = refs \cup o.tccs,
                                   !.remaining = rem, !.kids = new,
                                   !.uses = o.refs \cup o.tccs]
           new1(i) == NewProofstate(n + i, cur, goal, FALSE,
                        IF k = 1 THEN 1 ELSE i, o.axioms[i], Expr(s.then))
           kid(i) == [new1(i) EXCEPT !.deps = refs]
           kids == [i \in 1..k |-> kid(i)]
<1>1. ps[cur] \in Proofstate(Nodes) /\ cur \in Nodes /\ NoNode \notin Nodes
  <2>1. TypeOK /\ Tree1(ps) BY DEF AtGoal, IInv, TreeInv
  <2> QED BY <2>1, CurType, NodeFacts DEF TypeOK, Nodes
<1>2. k \in Nat
  <2>1. o.axioms \in Seq(BOOLEAN)  BY StepFields, OutcomeFields DEF RuleSubgoals
  <2> QED BY <2>1
<1>3. Return([ps EXCEPT ![cur] = goal] \o kids, cur)  BY DEF RuleSubgoals
<1>4. /\ SameLinks(goal, ps[cur]) /\ goal.flag = "?"
      /\ goal.done = ps[cur].done /\ goal.pending = ps[cur].pending
      /\ goal.current = ps[cur].current
      /\ goal.remaining = rem /\ goal.kids = new
  BY <1>1 DEF Proofstate, SameLinks
<1>5. ASSUME NEW i \in 1..k
      PROVE  /\ kid(i).parent = cur /\ kid(i).above = ps[cur].above \cup {cur}
             /\ kid(i).goal \in {ps[cur].goal, n + i}
             /\ kid(i).flag = "fresh" /\ Empty(kid(i))
  BY <1>1, <1>4 DEF NewProofstate, SameLinks, Empty
<1> HIDE DEF goal, kid
<1>6. kids \in Seq({kid(i) : i \in 1..k}) /\ Len(kids) = k
      /\ \A i \in 1..k : kids[i] = kid(i)
  BY <1>2
<1> HIDE DEF kids
<1>7. Adds(goal, kids, n, k)  BY <1>4, <1>5, <1>6 DEF Adds
<1> HIDE DEF k
<1> QED BY <1>2, <1>3, <1>6, <1>7, AddStep

LEMMA StrategyStepKept ==
  ASSUME AtGoal, TypeOK', NEW s \in Steps, StrategyStep(s)
  PROVE  Kept
<1> DEFINE n == Len(ps)
           rem == <<n + 1>>
           goal == [ps[cur] EXCEPT !.strategy = Object(s), !.flag = "?",
                                   !.remaining = rem, !.kids = {n + 1}]
           copy == NewProofstate(n + 1, cur, goal, TRUE, 1, FALSE, Expr(s.top))
           kids == <<copy>>
<1>0. /\ TypeOK /\ Tree1(ps)  BY DEF AtGoal, IInv, TreeInv
<1>1. ps[cur] \in Proofstate(Nodes) /\ cur \in Nodes /\ NoNode \notin Nodes /\ n \in Nat
  BY <1>0, CurType, NodeFacts DEF TypeOK, Nodes
<1>2. Return([ps EXCEPT ![cur] = goal] \o kids, cur)  BY DEF StrategyStep
<1>3. /\ SameLinks(goal, ps[cur]) /\ goal.flag = "?"
      /\ goal.done = ps[cur].done /\ goal.pending = ps[cur].pending
      /\ goal.current = ps[cur].current
      /\ goal.remaining = rem /\ goal.kids = {n + 1}
  BY <1>1 DEF Proofstate, SameLinks
<1>4. /\ copy.parent = cur /\ copy.above = ps[cur].above \cup {cur}
      /\ copy.goal = ps[cur].goal /\ copy.flag = "fresh" /\ Empty(copy)
  BY <1>1, <1>3 DEF NewProofstate, SameLinks, Empty
<1> HIDE DEF goal, copy
<1>5. kids \in Seq({copy}) /\ Len(kids) = 1 /\ kids[1] = copy  OBVIOUS
<1>6. rem = [i \in 1..1 |-> n + i] /\ {n + 1} = (n + 1)..(n + 1)  BY <1>1
<1> HIDE DEF kids
<1>7. Adds(goal, kids, n, 1)  BY <1>3, <1>4, <1>5, <1>6 DEF Adds
<1> QED BY <1>2, <1>5, <1>7, AddStep

(* (undo undo) is not one of the rules.                                    *)
NoUndoUndo == \A e \in Strategy : Def[e].kind = "rule" => Def[e].rule # "undo undo"

LEMMA StepGoalKept ==
  ASSUME NoUndoUndo, IInv, TypeOK', StepGoal
  PROVE  Kept
<1>0. AtGoal /\ TypeOK  BY DEF AtGoal, IInv, StepGoal, AtFreshGoal
<1>1. CASE Abort  BY <1>0, <1>1, AbortKept
<1>2. CASE ~ Abort
  <2>1. PICK s \in Steps :
             \/ \E o \in OutcomesOf(s) :
                  RuleProves(s, o) \/ RuleSubgoals(s, o) \/ RuleNoChange(s, o)
             \/ Skip(s) \/ RuleFails(s) \/ RulePostpones(s)
             \/ StrategyStep(s) \/ Quit(s)
             \/ UndoTo(s) \/ UndoRefused(s) \/ UndoUndo(s)
    BY <1>0, <1>2, CurType DEF StepGoal
  <2>2. ~ UndoUndo(s)
    BY DEF UndoUndo, NoUndoUndo, IsRule, RuleOf, Steps
  <2> QED BY <1>0, <2>1, <2>2, LeafStepsKept, SubgoalsKept, StrategyStepKept,
             QuitKept, UndoToKept
<1> QED BY <1>1, <1>2

-----------------------------------------------------------------------------
(* The invariant is kept by the other steps.                               *)

LEMMA TakeSubgoalKept ==
  ASSUME IInv, TypeOK', TakeSubgoal
  PROVE  Kept
<1> DEFINE p == ps[cur]
           sub == Head(p.remaining)
           v == [p EXCEPT !.remaining = Tail(p.remaining), !.current = sub]
           Q == [ps EXCEPT ![cur] = v]
<1>0. /\ TreeInv(ps) /\ cur \in DOMAIN ps /\ PathTo(ps, cur) /\ Settled(p)
      /\ p.flag = "?" /\ DOMAIN ps = Nodes /\ TypeOK
      /\ p \in Proofstate(Nodes) /\ p.remaining # <<>>
  BY CurType DEF TakeSubgoal, Working, IInv, TypeOK, Nodes
<1>1. p.remaining \in Seq(Nodes) /\ p.pending \in Seq(Nodes)  BY <1>0, Fields
<1>2. /\ sub \in Nodes /\ Tail(p.remaining) \in Seq(Nodes)
      /\ Len(Tail(p.remaining)) = Len(p.remaining) - 1
      /\ Len(p.remaining) \in Nat /\ Len(p.remaining) >= 1
      /\ \A i \in 1..(Len(p.remaining) - 1) : Tail(p.remaining)[i] = p.remaining[i + 1]
      /\ sub = p.remaining[1]
  BY <1>0, <1>1
<1>3. v \in Proofstate(Nodes)  BY <1>0, <1>2 DEF Proofstate
<1>4. /\ SameLinks(v, p) /\ v.flag = "?" /\ v.kids = p.kids /\ v.done = p.done
      /\ v.pending = p.pending /\ v.remaining = Tail(p.remaining) /\ v.current = sub
  BY <1>0 DEF Proofstate, SameLinks
<1>5. Return(Q, sub)  BY DEF TakeSubgoal
<1>6. Local(ps, cur, p)  BY <1>0 DEF TreeInv
<1>7. Elems(p.remaining) = Elems(Tail(p.remaining)) \cup {sub}
  <2>1. ASSUME NEW x \in Elems(p.remaining) PROVE x \in Elems(Tail(p.remaining)) \cup {sub}
    <3>1. PICK i \in 1..Len(p.remaining) : x = p.remaining[i]  BY DEF Elems
    <3>2. CASE i = 1  BY <1>2, <3>1, <3>2
    <3>3. CASE i # 1
      <4>1. i - 1 \in 1..(Len(p.remaining) - 1) /\ (i - 1) + 1 = i  BY <1>2, <3>3
      <4>2. x = Tail(p.remaining)[i - 1]  BY <1>2, <3>1, <4>1
      <4> QED BY <1>2, <4>1, <4>2 DEF Elems
    <3> QED BY <3>2, <3>3
  <2>2. ASSUME NEW x \in Elems(Tail(p.remaining)) PROVE x \in Elems(p.remaining)
    <3>1. PICK i \in 1..(Len(p.remaining) - 1) : x = p.remaining[i + 1]
      BY <1>2 DEF Elems
    <3>2. i + 1 \in 1..Len(p.remaining)  BY <1>2
    <3> QED BY <3>1, <3>2 DEF Elems
  <2>3. sub \in Elems(p.remaining)
    <3>1. 1 \in 1..Len(p.remaining)  BY <1>2
    <3> QED BY <1>2, <3>1 DEF Elems
  <2> QED BY <2>1, <2>2, <2>3
<1>8. NoDuplicates(p.remaining) /\ Elems(p.pending) \cap Elems(p.remaining) = {}
      /\ NoDuplicates(p.pending)
  BY <1>6 DEF Local, Lists
<1>9. NoDuplicates(Tail(p.remaining)) /\ sub \notin Elems(Tail(p.remaining))
  <2>1. NoDuplicates(Tail(p.remaining))
    <3> SUFFICES ASSUME NEW i \in 1..(Len(p.remaining) - 1), NEW j \in 1..(Len(p.remaining) - 1),
                        p.remaining[i + 1] = p.remaining[j + 1]
                 PROVE  i = j
      BY <1>2 DEF NoDuplicates
    <3>1. i + 1 \in 1..Len(p.remaining) /\ j + 1 \in 1..Len(p.remaining)  BY <1>2
    <3>2. i + 1 = j + 1  BY <1>8, <3>1 DEF NoDuplicates
    <3> QED BY <3>2
  <2>2. ASSUME sub \in Elems(Tail(p.remaining)) PROVE FALSE
    <3>1. PICK i \in 1..(Len(p.remaining) - 1) : sub = p.remaining[i + 1]
      BY <1>2, <2>2 DEF Elems
    <3>2. i + 1 \in 1..Len(p.remaining) /\ 1 \in 1..Len(p.remaining)  BY <1>2
    <3>3. i + 1 = 1  BY <1>2, <1>8, <3>1, <3>2 DEF NoDuplicates
    <3> QED BY <3>3
  <2> QED BY <2>1, <2>2
<1>10. Waiting(p) = Waiting(v) \cup {sub} /\ sub \notin Waiting(v)
  BY <1>4, <1>7, <1>8, <1>9 DEF Waiting
<1>11. p.current \in p.done \cup {NoNode}  BY <1>0 DEF Settled, Active
<1> HIDE DEF v, sub
<1>12. Local(ps, cur, v)
  <2>1. Lists(v)
    <3>1. v.kids \subseteq v.done \cup Waiting(v) \cup {v.current}
      <4>1. NoNode \notin p.kids
        BY <1>0, TreeTypes, NodeFacts DEF TreeInv
      <4>2. p.kids \subseteq p.done \cup Waiting(p) \cup {p.current}
        BY <1>0, <1>6 DEF Local, Lists, Active
      <4> QED BY <1>4, <1>10, <1>11, <4>1, <4>2
    <3> QED BY <1>4, <1>7, <1>8, <1>9, <1>10, <3>1 DEF Lists
  <2>2. Children(ps, cur, v)
    BY <1>4, <1>6, <1>10 DEF Local, Children
  <2>3. Subgoals(ps, v)
    BY <1>4, <1>6, <1>10 DEF Local, Subgoals
  <2> QED BY <2>1, <2>2, <2>3 DEF Local
<1>13. /\ p.flag # "!"
       /\ cur = Root \/ (ps[ps[cur].parent].flag = "?" /\ ps[ps[cur].parent].current = cur)
  BY <1>0, OnPath
<1>14. TreeInv(Q) /\ Keeps(ps, Q) /\ DOMAIN Q = Nodes
  BY <1>0, <1>3, <1>4, <1>12, <1>13, OneNode
<1>15. Q[cur] = v /\ \A n \in Nodes \ {cur} : Q[n] = ps[n]  BY <1>0
<1> HIDE DEF Q
<1>16. ps[sub].parent = cur /\ Settled(ps[sub])
  BY <1>6, <1>10 DEF Local, Children, Subgoals
<1>17. sub # cur /\ Q[sub] = ps[sub]  BY <1>2, <1>0, <1>15, <1>16, LinkFacts
<1>18. PathTo(Q, sub)
  <2>1. sub # Root
    <3>1. NoNode \notin Nodes  BY <1>0, NodeFacts DEF TreeInv
    <3> QED BY <1>0, <1>2, <1>16, <3>1, LinkFacts
  <2>2. ps[sub].above = ps[cur].above \cup {cur}
    BY <1>0, <1>2, <1>16, <2>1, LinkFacts
  <2>3. \A n \in Nodes : SameLinks(Q[n], ps[n])  BY <1>4, <1>15 DEF SameLinks
  <2>4. \A n \in ps[cur].above : Q[n] = ps[n]  BY <1>0, <1>15, LinkFacts
  <2>5. PathTo(Q, cur)  BY <1>0, <2>3, <2>4, PathPart
  <2>6. Q[sub].above = Q[cur].above \cup {cur} /\ Q[sub].parent = cur
    BY <1>0, <1>16, <1>17, <2>2, <2>3 DEF SameLinks
  <2> QED BY <1>4, <1>15, <2>5, <2>6 DEF PathTo
<1> QED BY <1>2, <1>5, <1>14, <1>16, <1>17, <1>18, <1>0, ReturnInv DEF Kept

LEMMA SuccessStepKept ==
  ASSUME IInv, TypeOK', SuccessStep
  PROVE  Kept
<1> DEFINE p == ps[cur]
           d == AllDeps(p)
           v == [p EXCEPT !.flag = "!", !.current = NoNode, !.deps = d]
<1>0. /\ TreeInv(ps) /\ cur \in Nodes /\ DOMAIN ps = Nodes /\ Settled(p)
      /\ p.flag = "?" /\ TypeOK /\ outcome = "running"
      /\ p \in Proofstate(Nodes) /\ p.remaining = <<>> /\ p.pending = <<>>
  BY CurType DEF SuccessStep, Working, AllDone, IInv, TypeOK, Nodes
<1>1. d \subseteq Decl
  <2>1. p.deps \subseteq Decl /\ p.done \subseteq Nodes  BY <1>0, Fields
  <2>2. ASSUME NEW x \in Nodes PROVE ps[x].deps \subseteq Decl
    <3>1. ps[x] \in Proofstate(Nodes)  BY <1>0, NodeFacts DEF TreeInv
    <3> QED BY <3>1, Fields
  <2> QED BY <2>1, <2>2 DEF AllDeps
<1>2. Return([ps EXCEPT ![cur] = v], cur)  BY DEF SuccessStep
<1> HIDE DEF d
<1>3. v \in Proofstate(Nodes)  BY ZenonT(60), <1>0, <1>1 DEF Proofstate, Flag
<1>4. /\ SameLinks(v, p) /\ v.flag = "!" /\ v.kids = p.kids /\ v.done = p.done
      /\ v.pending = <<>> /\ v.remaining = <<>> /\ v.current = NoNode
  BY <1>0 DEF Proofstate, SameLinks
<1> HIDE DEF v
<1>5. Local(ps, cur, p)  BY <1>0 DEF TreeInv
<1>6. Waiting(v) = {} /\ Waiting(p) = {} /\ Elems(v.pending) = {} /\ Elems(v.remaining) = {}
  BY <1>0, <1>4 DEF Waiting, Elems
<1>7. p.kids \subseteq p.done
  <2>1. p.current \in p.done \cup {NoNode} /\ NoNode \notin p.kids
    BY <1>0, TreeTypes, NodeFacts DEF TreeInv, Settled, Active
  <2> QED BY <1>0, <1>5, <1>6, <2>1 DEF Local, Lists, Active
<1>8. Local(ps, cur, v)
  <2>1. Lists(v)
    <3>1. NoDuplicates(v.pending) /\ NoDuplicates(v.remaining)
      BY <1>4 DEF NoDuplicates
    <3> QED BY <1>4, <1>6, <3>1 DEF Lists, Active
  <2>2. Children(ps, cur, v)  BY <1>4, <1>5, <1>6 DEF Local, Children
  <2>3. Subgoals(ps, v)  BY <1>4, <1>5, <1>6, <1>7 DEF Local, Subgoals
  <2> QED BY <2>1, <2>2, <2>3 DEF Local
<1>9. Settled(v)  BY <1>4 DEF Settled, Active
<1> QED BY <1>0, <1>2, <1>3, <1>4, <1>8, <1>9, PathStep DEF Ancestors, Kept

LEMMA PushedElems ==
  ASSUME NEW N, NEW s \in Seq(N), NEW n \in N
  PROVE  /\ Elems(<<n>> \o s) = Elems(s) \cup {n}
         /\ NoDuplicates(s) /\ n \notin Elems(s) => NoDuplicates(<<n>> \o s)
<1> DEFINE t == <<n>> \o s
<1>1. /\ Len(t) = Len(s) + 1 /\ Len(s) \in Nat /\ t[1] = n
      /\ \A i \in 1..Len(s) : t[i + 1] = s[i]
  OBVIOUS
<1> HIDE DEF t
<1>2. ASSUME NEW i \in 1..Len(t), i # 1 PROVE i - 1 \in 1..Len(s) /\ t[i] = s[i - 1]
  <2>1. i - 1 \in 1..Len(s) /\ (i - 1) + 1 = i  BY <1>1, <1>2
  <2> QED BY <1>1, <2>1
<1>3. Elems(t) \subseteq Elems(s) \cup {n}
  BY <1>1, <1>2 DEF Elems
<1>4. Elems(s) \cup {n} \subseteq Elems(t)
  <2>1. 1 \in 1..Len(t) /\ \A i \in 1..Len(s) : i + 1 \in 1..Len(t)  BY <1>1
  <2> QED BY <1>1, <2>1 DEF Elems
<1>5. ASSUME NoDuplicates(s), n \notin Elems(s) PROVE NoDuplicates(t)
  <2> SUFFICES ASSUME NEW i \in 1..Len(t), NEW j \in 1..Len(t), t[i] = t[j] PROVE i = j
    BY DEF NoDuplicates
  <2>1. \A m \in 1..Len(s) : s[m] # n  BY <1>5 DEF Elems
  <2>2. CASE i # 1 /\ j # 1
    <3>1. i - 1 = j - 1  BY <1>2, <1>5, <2>2 DEF NoDuplicates
    <3> QED BY <3>1, <1>1
  <2> QED BY <1>1, <1>2, <2>1, <2>2
<1> QED BY <1>3, <1>4, <1>5 DEF t

LEMMA ReportKept ==
  ASSUME TypeOK, TypeOK', NEW P, TreeInv(P), DOMAIN P = Nodes, PathTo(P, cur),
         Settled(P[cur]), Keeps(ps, P), P[cur].parent = ps[cur].parent,
         P[cur].flag \in {"*", "X", "XX", "!"},
         Return(Report(P, cur), Above(cur))
  PROVE  Kept
<1>0. cur \in Nodes  BY DEF TypeOK
<1>1. CASE P[cur].parent = NoNode
  <2>1. cur = Root /\ Above(cur) = Root
    BY <1>0, <1>1, NodeFacts, LinkFacts DEF Above, TreeInv
  <2>2. CASE P[Root].flag = "*"
    <3> DEFINE sl == Expr(P[Root].strategy.step.then)
               v == [P[Root] EXCEPT !.flag = "fresh", !.strategy = sl]
    <3>1. P[Root] \in Proofstate(Nodes)  BY <1>0, <2>1, NodeFacts DEF TreeInv
    <3>2. sl \in Slot  BY <3>1, Fields
    <3>3. Return([P EXCEPT ![Root] = v], Root)
      BY <1>1, <2>1, <2>2 DEF Report, AtRoot
    <3> HIDE DEF sl
    <3>4. v \in Proofstate(Nodes)  BY ZenonT(60), <3>1, <3>2 DEF Proofstate, Flag
    <3>5. SameLinks(v, P[Root]) /\ SameLists(v, P[Root])
      BY <2>2, <3>1 DEF Proofstate, SameLinks, SameLists, Active
    <3> HIDE DEF v
    <3>6. Local(P, Root, v) /\ Settled(v)  BY <1>0, <2>1, <3>5, SameLocal
    <3> QED BY <1>0, <2>1, <2>2, <3>3, <3>4, <3>5, <3>6, MoveStep DEF Kept
  <2>3. CASE P[Root].flag # "*"
    <3>1. Return(P, Root)  BY <1>1, <2>1, <2>3 DEF Report, AtRoot
    <3> QED BY <1>0, <2>1, <3>1, ReturnInv DEF Kept
  <2> QED BY <2>2, <2>3
<1>2. CASE P[cur].parent # NoNode
  <2> DEFINE par == P[cur].parent
             p == P[par]
  <2>1. cur # Root  BY <1>0, <1>2, LinkFacts
  <2>2. par \in Nodes /\ par \in P[cur].above /\ par # cur /\ Above(cur) = par
    BY <1>0, <1>2, <2>1, LinkFacts DEF Above
  <2>3. /\ p \in Proofstate(Nodes) /\ p.pending \in Seq(Nodes)
        /\ NoNode \notin Waiting(p) /\ NoNode \notin Nodes
    <3>1. p \in Proofstate(Nodes) /\ NoNode \notin Nodes  BY <2>2, NodeFacts DEF TreeInv
    <3>2. p.pending \in Seq(Nodes) /\ p.remaining \in Seq(Nodes)  BY <3>1, Fields
    <3>3. Waiting(p) \subseteq Nodes  BY <3>2 DEF Waiting, Elems
    <3> QED BY <3>1, <3>2, <3>3
  <2>4. p.flag = "?" /\ p.current = cur  BY <2>1 DEF PathTo
  <2>5. Local(P, par, p)  BY <2>2 DEF TreeInv
  <2>6. Else(P, par) \in Slot  BY <2>3, Fields DEF Else
  <2>7. par \in P[cur].above \cup {cur}  BY <2>2
  <2>8. CASE P[cur].flag = "!"
    <3> DEFINE v == [p EXCEPT !.done = p.done \cup {cur}]
    <3>1. v \in Proofstate(Nodes)
      <4> HIDE DEF p, par
      <4> QED BY <1>0, <2>3, ReportedType
    <3>2. /\ SameLinks(v, p) /\ v.flag = p.flag /\ v.done = p.done \cup {cur}
          /\ v.pending = p.pending /\ v.remaining = p.remaining
          /\ v.current = p.current /\ v.kids = p.kids
      <4> HIDE DEF p, par
      <4> QED BY <1>0, <2>3 DEF Proofstate, SameLinks
    <3>3. Report(P, cur) = [P EXCEPT ![par] = v]  BY <1>2, <2>8 DEF Report, Done
    <3> HIDE DEF v
    <3>4. Waiting(v) = Waiting(p)  BY <3>2 DEF Waiting
    <3>5. Lists(v)  BY <2>5, <3>2, <3>4 DEF Local, Lists
    <3>6. Children(P, par, v)  BY <2>5, <3>2, <3>4 DEF Local, Children
    <3>7. Subgoals(P, v)  BY <2>4, <2>5, <2>8, <3>2, <3>4 DEF Local, Subgoals
    <3>8. Settled(v)  BY <2>4, <3>2 DEF Settled
    <3>9. Local(P, par, v)  BY <3>5, <3>6, <3>7 DEF Local
    <3>10. Return([P EXCEPT ![par] = v], par)  BY <2>2, <3>3
    <3> HIDE DEF par
    <3> QED BY <1>0, <2>2, <2>7, <3>1, <3>2, <3>8, <3>9, <3>10, MoveStep DEF Kept
  <2>9. CASE P[cur].flag \in {"X", "XX"}
    <3>1. CASE Else(P, par) = Nil \/ P[cur].flag = "XX"
      <4> DEFINE v == [p EXCEPT !.flag = "X"]
      <4>1. v \in Proofstate(Nodes)
        <5> HIDE DEF p, par
        <5> QED BY <1>0, <2>3, ReportedType
      <4>2. /\ SameLinks(v, p) /\ v.flag = "X" /\ v.done = p.done
            /\ v.pending = p.pending /\ v.remaining = p.remaining
            /\ v.current = p.current /\ v.kids = p.kids
        <5> HIDE DEF p, par
        <5> QED BY <1>0, <2>3 DEF Proofstate, SameLinks
      <4>3. Report(P, cur) = [P EXCEPT ![par] = v]
        BY <1>2, <2>9, <3>1 DEF Report, Failure
      <4> HIDE DEF v
      <4>4. SameLists(v, p)  BY <4>2 DEF SameLists, Active
      <4>5. Local(P, par, v) /\ Settled(v)
        BY <2>2, <4>2, <4>4, SameLocal DEF Settled, Active
      <4>6. Return([P EXCEPT ![par] = v], par)  BY <2>2, <4>3
      <4> HIDE DEF par
      <4> QED BY <1>0, <2>2, <2>7, <4>1, <4>2, <4>5, <4>6, MoveStep DEF Kept
    <3>2. CASE ~ (Else(P, par) = Nil \/ P[cur].flag = "XX")
      <4> DEFINE v == [Cleared(p) EXCEPT !.strategy = Else(P, par)]
      <4>1. v \in Proofstate(Nodes)  BY <2>3, <2>6, ClearedType
      <4>2. SameLinks(v, p) /\ Empty(v)  BY <2>3, ClearedFields
      <4>3. Report(P, cur) = [P EXCEPT ![par] = v]
        BY <1>2, <2>9, <3>2 DEF Report, Failure
      <4> HIDE DEF v
      <4>4. Local(P, par, v) /\ Settled(v)
        BY <2>2, <4>2, EmptyLocal DEF TreeInv
      <4>5. Return([P EXCEPT ![par] = v], par)  BY <2>2, <4>3
      <4> HIDE DEF par
      <4> QED BY <1>0, <2>2, <2>7, <4>1, <4>2, <4>4, <4>5, MoveStep DEF Kept
    <3> QED BY <3>1, <3>2
  <2>10. CASE P[cur].flag = "*" /\ P[cur].strat /\ P[cur].pending = <<>>
    <3> DEFINE v == [p EXCEPT !.flag = "fresh", !.strategy = Else(P, par),
                              !.current = NoNode, !.kids = {}]
    <3>1. v \in Proofstate(Nodes)
      <4> HIDE DEF p, par
      <4> QED BY <1>0, <2>3, <2>6, ReportedType
    <3>2. /\ SameLinks(v, p) /\ v.flag = "fresh" /\ v.done = p.done
          /\ v.pending = p.pending /\ v.remaining = p.remaining
          /\ v.current = NoNode /\ v.kids = {}
      <4> HIDE DEF p, par
      <4> QED BY <1>0, <2>3, <2>6 DEF Proofstate, SameLinks
    <3>3. Report(P, cur) = [P EXCEPT ![par] = v]  BY <1>2, <2>10 DEF Report, Nothing
    <3> HIDE DEF v
    <3>4. Waiting(v) = Waiting(p)  BY <3>2 DEF Waiting
    <3>6. Lists(v)  BY <2>3, <2>5, <3>2, <3>4 DEF Local, Lists
    <3>7. Children(P, par, v)  BY <2>5, <3>2, <3>4 DEF Local, Children
    <3>8. Subgoals(P, v)  BY <2>5, <3>2, <3>4 DEF Local, Subgoals
    <3>9. Settled(v)  BY <3>2 DEF Settled
    <3>10. Local(P, par, v)  BY <3>6, <3>7, <3>8 DEF Local
    <3>11. Return([P EXCEPT ![par] = v], par)  BY <2>2, <3>3
    <3> HIDE DEF par
    <3> QED BY <1>0, <2>2, <2>7, <3>1, <3>2, <3>9, <3>10, <3>11, MoveStep DEF Kept
  <2>11. CASE P[cur].flag = "*" /\ ~ (P[cur].strat /\ P[cur].pending = <<>>)
    <3> DEFINE v == [p EXCEPT !.pending = <<cur>> \o p.pending, !.current = NoNode]
    <3>1. v \in Proofstate(Nodes)
      <4> HIDE DEF p, par
      <4> QED BY <1>0, <2>3, ReportedType
    <3>2. /\ SameLinks(v, p) /\ v.flag = p.flag /\ v.done = p.done
          /\ v.pending = <<cur>> \o p.pending /\ v.remaining = p.remaining
          /\ v.current = NoNode /\ v.kids = p.kids
      <4> HIDE DEF p, par
      <4> QED BY <1>0, <2>3 DEF Proofstate, SameLinks
    <3>3. Report(P, cur) = [P EXCEPT ![par] = v]  BY <1>2, <2>11 DEF Report, Postponed
    <3> HIDE DEF v
    <3>4. cur \notin Waiting(p)  BY <2>4, <2>5 DEF Local, Lists
    <3>5. /\ Elems(v.pending) = Elems(p.pending) \cup {cur}
          /\ Waiting(v) = Waiting(p) \cup {cur}
          /\ NoDuplicates(p.pending) => NoDuplicates(v.pending)
      <4>1. cur \notin Elems(p.pending)  BY <3>4 DEF Waiting
      <4>2. p.pending \in Seq(Nodes)  BY <2>3, Fields
      <4> HIDE DEF p
      <4>3. /\ Elems(v.pending) = Elems(p.pending) \cup {cur}
            /\ NoDuplicates(p.pending) => NoDuplicates(v.pending)
        BY <1>0, <3>2, <4>1, <4>2, PushedElems
      <4>4. Waiting(v) = Waiting(p) \cup {cur}  BY <3>2, <4>3 DEF Waiting
      <4> QED BY <4>3, <4>4
    <3>6. NoNode \notin Waiting(v)
      BY <1>0, <2>3, <3>5
    <3>7. Lists(v)
      <4>1. Elems(v.pending) \cap Elems(v.remaining) = {}
        BY <2>5, <3>2, <3>4, <3>5 DEF Local, Lists, Waiting
      <4> QED BY <2>4, <2>5, <3>2, <3>5, <3>6, <4>1 DEF Local, Lists
    <3>8. Children(P, par, v)  BY <2>5, <3>2, <3>5 DEF Local, Children
    <3>9. Subgoals(P, v)  BY <2>4, <2>5, <2>11, <3>2, <3>5 DEF Local, Subgoals
    <3>10. Settled(v)  BY <3>2 DEF Settled
    <3>11. Local(P, par, v)  BY <3>7, <3>8, <3>9 DEF Local
    <3>12. Return([P EXCEPT ![par] = v], par)  BY <2>2, <3>3
    <3> HIDE DEF par
    <3> QED BY <1>0, <2>2, <2>7, <3>1, <3>2, <3>10, <3>11, <3>12, MoveStep DEF Kept
  <2> QED BY <2>8, <2>9, <2>10, <2>11
<1> QED BY <1>1, <1>2

LEMMA NextProofstateKept ==
  ASSUME IInv, TypeOK', NextProofstate
  PROVE  Kept
<1>1. /\ TypeOK /\ TreeInv(ps) /\ DOMAIN ps = Nodes /\ PathTo(ps, cur)
      /\ Settled(ps[cur]) /\ Keeps(ps, ps)
  BY DEF IInv, NextProofstate, Nodes, Keeps
<1> QED BY <1>1, ReportKept DEF NextProofstate

LEMMA PostponeGoalKept ==
  ASSUME IInv, TypeOK', PostponeGoal
  PROVE  Kept
<1> DEFINE v == [ps[cur] EXCEPT !.flag = "*"]
           P == [ps EXCEPT ![cur] = v]
<1>1. /\ TypeOK /\ TreeInv(ps) /\ DOMAIN ps = Nodes /\ PathTo(ps, cur)
      /\ Settled(ps[cur]) /\ cur \in Nodes /\ ps[cur].flag = "?"
      /\ ps[cur] \in Proofstate(Nodes)
  BY CurType DEF IInv, PostponeGoal, Working, Nodes, TypeOK
<1>2. Return(Report(P, cur), Above(cur))  BY DEF PostponeGoal
<1>3. v \in Proofstate(Nodes)  BY ZenonT(60), <1>1 DEF Proofstate, Flag
<1>4. SameLinks(v, ps[cur]) /\ SameLists(v, ps[cur]) /\ v.flag = "*"
  BY <1>1 DEF Proofstate, SameLinks, SameLists, Active
<1> HIDE DEF v
<1>5. Local(ps, cur, v) /\ Settled(v)  BY <1>1, <1>4, SameLocal
<1>6. cur = Root \/ (ps[ps[cur].parent].flag = "?" /\ ps[ps[cur].parent].current = cur)
  BY <1>1, OnPath
<1>7. TreeInv(P) /\ Keeps(ps, P) /\ DOMAIN P = Nodes
  BY <1>1, <1>3, <1>4, <1>5, <1>6, OneNode
<1>8. P[cur] = v /\ \A n \in Nodes \ {cur} : P[n] = ps[n]  BY <1>1
<1> HIDE DEF P
<1>9. PathTo(P, cur)
  <2>1. \A n \in Nodes : SameLinks(P[n], ps[n])  BY <1>4, <1>8 DEF SameLinks
  <2>2. \A n \in ps[cur].above : P[n] = ps[n]  BY <1>1, <1>8, LinkFacts
  <2> QED BY <1>1, <2>1, <2>2, PathPart
<1>10. P[cur].parent = ps[cur].parent  BY <1>4, <1>8 DEF SameLinks
<1> QED BY <1>1, <1>2, <1>4, <1>5, <1>7, <1>8, <1>9, <1>10, ReportKept

LEMMA ReversedElems ==
  ASSUME NEW N, NEW s \in Seq(N)
  PROVE  LET r == [i \in 1..Len(s) |-> s[Len(s) + 1 - i]]
         IN  /\ Elems(r) = Elems(s)
             /\ NoDuplicates(s) => NoDuplicates(r)
<1> DEFINE r == [i \in 1..Len(s) |-> s[Len(s) + 1 - i]]
<1>1. Len(s) \in Nat /\ Len(r) = Len(s) /\ \A i \in 1..Len(s) : r[i] = s[Len(s) + 1 - i]
  OBVIOUS
<1> HIDE DEF r
<1>2. \A i \in 1..Len(s) : /\ Len(s) + 1 - i \in 1..Len(s)
                          /\ Len(s) + 1 - (Len(s) + 1 - i) = i
  BY <1>1
<1>3. Elems(r) \subseteq Elems(s)  BY <1>1, <1>2 DEF Elems
<1>4. ASSUME NEW x \in Elems(s) PROVE x \in Elems(r)
  <2>1. PICK i \in 1..Len(s) : x = s[i]  BY DEF Elems
  <2>2. Len(s) + 1 - i \in 1..Len(r) /\ x = r[Len(s) + 1 - i]  BY <1>1, <1>2, <2>1
  <2> QED BY <2>2 DEF Elems
<1>5. ASSUME NoDuplicates(s) PROVE NoDuplicates(r)
  <2> SUFFICES ASSUME NEW i \in 1..Len(s), NEW j \in 1..Len(s), r[i] = r[j] PROVE i = j
    BY <1>1 DEF NoDuplicates
  <2>1. Len(s) + 1 - i = Len(s) + 1 - j  BY <1>1, <1>2, <1>5 DEF NoDuplicates
  <2> QED BY <2>1, <1>2
<1> QED BY <1>3, <1>4, <1>5 DEF r

(* The current proofstate and its pending subgoals change together.        *)
LEMMA TransferInv ==
  ASSUME TreeInv(ps), DOMAIN ps = Nodes, cur \in Nodes, PathTo(ps, cur),
         Settled(ps[cur]), ps[cur].flag = "?",
         NEW P, Tree1(P), DOMAIN P = Nodes,
         SameLinks(P[cur], ps[cur]), P[cur].flag = "?",
         P[cur].done = ps[cur].done, P[cur].kids = ps[cur].kids,
         P[cur].current = ps[cur].current, P[cur].pending = <<>>,
         Elems(P[cur].remaining) = Elems(ps[cur].pending) \cup Elems(ps[cur].remaining),
         NoDuplicates(P[cur].remaining),
         \A n \in Elems(ps[cur].pending) :
           SameLinks(P[n], ps[n]) /\ SameLists(P[n], ps[n]) /\ P[n].flag # "!",
         \A n \in Nodes \ {cur} : n \notin Elems(ps[cur].pending) => P[n] = ps[n]
  PROVE  TreeInv(P) /\ PathTo(P, cur) /\ Settled(P[cur]) /\ Keeps(ps, P)
<1> DEFINE moved == Elems(ps[cur].pending)
<1>0. Local(ps, cur, ps[cur])  BY DEF TreeInv
<1>1. moved \subseteq Waiting(ps[cur]) /\ Waiting(ps[cur]) \subseteq Nodes
  <2>1. Waiting(ps[cur]) \subseteq Nodes  BY TreeTypes DEF TreeInv
  <2> QED BY <2>1 DEF Waiting
<1>2. \A n \in moved : /\ n \in Nodes /\ ps[n].parent = cur /\ n # cur
                        /\ ps[n].flag = "*" /\ Settled(ps[n])
  <2>1. \A n \in moved : /\ n \in Nodes /\ ps[n].parent = cur
                          /\ ps[n].flag = "*" /\ Settled(ps[n])
    BY <1>0, <1>1 DEF Local, Children, Subgoals
  <2> QED BY <2>1
<1>3. \A n \in Nodes : SameLinks(P[n], ps[n])
  <2>1. \A n \in Nodes : n = cur \/ n \in moved \/ P[n] = ps[n]  OBVIOUS
  <2> QED BY <2>1 DEF SameLinks
<1>4. \A n \in Nodes : P[n].parent = ps[n].parent  BY <1>3 DEF SameLinks
<1>5. \A n \in moved : Local(ps, n, P[n]) /\ Settled(P[n])
  BY <1>2, SameLocal
<1>6. Waiting(P[cur]) = Waiting(ps[cur])
  <2>1. Elems(P[cur].pending) = {}  BY DEF Elems
  <2> QED BY <2>1 DEF Waiting
<1>7. Links(P)
  <2>1. ASSUME NEW n \in Nodes
        PROVE  /\ P[n].parent < n /\ (P[n].parent = NoNode <=> n = Root)
               /\ P[n].above = IF n = Root THEN {}
                               ELSE P[P[n].parent].above \cup {P[n].parent}
               /\ \A a \in P[n].above : a < n /\ P[a].above \subseteq P[n].above
               /\ P[n].goal \in P[n].above \cup {n}
    <3>1. /\ P[n].parent = ps[n].parent /\ P[n].above = ps[n].above
          /\ P[n].goal = ps[n].goal
      BY <1>3 DEF SameLinks
    <3>2. \A a \in ps[n].above : a \in Nodes /\ P[a].above = ps[a].above
      BY <1>3, LinkFacts DEF SameLinks
    <3>3. n # Root => P[ps[n].parent].above = ps[ps[n].parent].above
      BY <3>2, LinkFacts
    <3>4. /\ ps[n].parent < n /\ (ps[n].parent = NoNode <=> n = Root)
          /\ ps[n].above = IF n = Root THEN {}
                           ELSE ps[ps[n].parent].above \cup {ps[n].parent}
          /\ \A a \in ps[n].above : a < n /\ ps[a].above \subseteq ps[n].above
          /\ ps[n].goal \in ps[n].above \cup {n}
      BY DEF TreeInv, Links
    <3> QED BY <3>1, <3>2, <3>3, <3>4
  <2> QED BY <2>1 DEF Links
<1>8. Settled(P[cur])  BY DEF Settled
<1>9. ASSUME NEW m \in Nodes PROVE Local(P, m, P[m])
  <2>0. ps[cur].parent # cur  BY LinkFacts
  <2>1. CASE m = cur
    <3>1. ps[cur].done \cup ps[cur].kids \subseteq Nodes
          /\ ps[cur].current \in Nodes \cup {NoNode}
      BY TreeTypes DEF TreeInv
    <3>2. Lists(P[cur])
      <4>1. NoDuplicates(P[cur].pending) /\ Elems(P[cur].pending) = {}
        BY DEF NoDuplicates, Elems
      <4> QED BY <1>0, <1>6, <4>1 DEF Local, Lists
    <3>3. Children(P, cur, P[cur])
      BY <1>0, <1>1, <1>4, <1>6, <3>1 DEF Local, Children
    <3>4. \A j \in ps[cur].done : P[j].flag = "!"
      <4>1. \A j \in ps[cur].done : j \in Nodes /\ ps[j].flag = "!"
        BY <1>0, <3>1 DEF Local, Subgoals
      <4> QED BY <1>2, <4>1
    <3>5. \A j \in Waiting(ps[cur]) : Settled(P[j])
      <4>1. \A j \in Waiting(ps[cur]) : Settled(ps[j]) /\ j \in Nodes
        BY <1>0, <1>1 DEF Local, Subgoals
      <4> QED BY <1>5, <1>8, <4>1
    <3>6. Subgoals(P, P[cur])
      <4>1. Elems(P[cur].pending) = {}  BY DEF Elems
      <4> QED BY <1>6, <3>4, <3>5, <4>1 DEF Subgoals
    <3> QED BY <2>1, <3>2, <3>3, <3>6 DEF Local
  <2>2. CASE m # cur
    <3>1. Local(ps, m, P[m]) /\ P[m] \in Proofstate(Nodes)
      BY <1>5, <2>2, NodeFacts DEF TreeInv
    <3>2. /\ P[m].kids \cup P[m].done \cup Waiting(P[m]) \subseteq Nodes
          /\ P[m].current \in Nodes \cup {NoNode}
          /\ Elems(P[m].pending) \subseteq Waiting(P[m])
      <4>1. Elems(P[m].pending) \subseteq Waiting(P[m])  BY DEF Waiting
      <4> QED BY <4>1, TreeTypes
    <3>3. Children(P, m, P[m])  BY <1>4, <3>1, <3>2 DEF Local, Children
    <3>4. \A j \in P[m].kids \cup P[m].done \cup Waiting(P[m]) :
            ps[j].parent = m /\ (j # cur => P[j] = ps[j])
      <4>1. \A j \in P[m].kids \cup P[m].done \cup Waiting(P[m]) : ps[j].parent = m
        BY <3>1 DEF Local, Children
      <4> QED BY <1>2, <2>2, <3>2, <4>1
    <3>5. CASE ps[cur].parent # m
      <4>1. \A j \in P[m].kids \cup P[m].done \cup Waiting(P[m]) : P[j] = ps[j]
        BY <3>4, <3>5
      <4>2. Subgoals(P, P[m])  BY <3>1, <3>2, <4>1 DEF Local, Subgoals
      <4> QED BY <3>1, <3>3, <4>2 DEF Local
    <3>6. CASE ps[cur].parent = m
      <4>1. cur # Root
        <5>1. NoNode \notin Nodes  BY NodeFacts DEF TreeInv
        <5> QED BY <3>6, <5>1, LinkFacts
      <4>2. ps[m].flag = "?" /\ ps[m].current = cur
        BY <3>6, <4>1 DEF PathTo
      <4>3. P[m] = ps[m]  BY <1>2, <2>2, <4>2
      <4>4. cur \notin P[m].done /\ cur \notin Waiting(P[m])
        BY <3>1, <4>2, <4>3 DEF Local, Lists, Subgoals
      <4>5. \A j \in P[m].done \cup Waiting(P[m]) : P[j] = ps[j]
        BY <3>4, <4>4
      <4>6. Subgoals(P, P[m])  BY <3>1, <3>2, <4>2, <4>3, <4>5 DEF Local, Subgoals
      <4> QED BY <3>1, <3>3, <4>6 DEF Local
    <3> QED BY <3>5, <3>6
  <2> QED BY <2>1, <2>2
<1>10. PathTo(P, cur)
  <2>1. ASSUME NEW a \in ps[cur].above PROVE P[a] = ps[a]
    <3>1. a \in Nodes /\ a # cur /\ ps[a].flag = "?"  BY LinkFacts DEF PathTo
    <3> QED BY <1>2, <3>1
  <2> QED BY <1>3, <2>1, PathPart
<1>11. Keeps(ps, P)  BY <1>2 DEF Keeps
<1> QED BY <1>7, <1>8, <1>9, <1>10, <1>11 DEF TreeInv

LEMMA TransferStrategyKept ==
  ASSUME IInv, TypeOK', TransferStrategy
  PROVE  Kept
<1> DEFINE node == ps[cur]
           k == Len(node.pending)
           handed(n) ==
             IF ps[n].pending = <<>>
             THEN [ps[n] EXCEPT !.strategy = Expr(node.strategy.step.then), !.flag = "fresh"]
             ELSE [ps[n] EXCEPT !.strategy = node.strategy, !.flag = "?"]
           rem == [i \in 1..k |-> node.pending[k + 1 - i]]
           moved == [node EXCEPT !.remaining = rem, !.pending = <<>>,
                       !.strategy = IF cur = Root /\ RootKind[script] = "top" THEN @ ELSE Nil]
           P == [n \in Nodes |-> IF n = cur THEN moved
                                 ELSE IF n \in Elems(node.pending) THEN handed(n)
                                 ELSE ps[n]]
<1>0. /\ TreeInv(ps) /\ DOMAIN ps = Nodes /\ cur \in Nodes /\ PathTo(ps, cur)
      /\ Settled(node) /\ node.flag = "?" /\ node \in Proofstate(Nodes)
      /\ node.remaining = <<>> /\ TypeOK
  BY CurType DEF IInv, TransferStrategy, Working, TypeOK, Nodes
<1>1. Return(P, cur)  BY DEF TransferStrategy
<1>2. Local(ps, cur, node)  BY <1>0 DEF TreeInv
<1>3. node.pending \in Seq(Nodes) /\ Elems(node.pending) \subseteq Nodes
      /\ Elems(node.pending) \subseteq Waiting(node)
  <2>1. node.pending \in Seq(Nodes)  BY <1>0, Fields
  <2> QED BY <2>1 DEF Elems, Waiting
<1>4. Elems(rem) = Elems(node.pending) /\ NoDuplicates(rem)
  <2>1. NoDuplicates(node.pending)  BY <1>2 DEF Local, Lists
  <2> HIDE DEF node
  <2> QED BY <1>3, <2>1, ReversedElems
<1> HIDE DEF rem
<1>5. /\ SameLinks(moved, node) /\ moved.flag = "?" /\ moved.done = node.done
      /\ moved.kids = node.kids /\ moved.current = node.current
      /\ moved.pending = <<>> /\ moved.remaining = rem
  <2>1. \E sl : moved = [node EXCEPT !.remaining = rem, !.pending = <<>>, !.strategy = sl]
    OBVIOUS
  <2> HIDE DEF moved, node
  <2> QED BY <1>0, <2>1 DEF Proofstate, SameLinks
<1>6. ASSUME NEW n \in Elems(node.pending)
      PROVE  SameLinks(handed(n), ps[n]) /\ SameLists(handed(n), ps[n]) /\ handed(n).flag # "!"
  <2>1. ps[n] \in Proofstate(Nodes) /\ ps[n].flag = "*"
    BY <1>0, <1>2, <1>3, NodeFacts DEF TreeInv, Local, Subgoals
  <2> QED BY <2>1 DEF Proofstate, SameLinks, SameLists, Active
<1> HIDE DEF moved, handed
<1>7. /\ P[cur] = moved /\ DOMAIN P = Nodes
      /\ \A n \in Elems(node.pending) : P[n] = handed(n)
      /\ \A n \in Nodes \ {cur} : n \notin Elems(node.pending) => P[n] = ps[n]
  <2>1. cur \notin Elems(node.pending)
    BY <1>0, <1>2 DEF Local, Subgoals
  <2> QED BY <1>0, <1>3, <2>1
<1> HIDE DEF P
<1>8. ps' = P
  <2>1. outcome' = "running"  BY <1>1, <1>5, <1>7 DEF Return, Ending
  <2> QED BY <1>1, <2>1 DEF Return
<1>9. Tree1(P)  BY <1>8 DEF TypeOK, Tree1, Nodes
<1>10. Elems(node.remaining) = {}  BY <1>0 DEF Elems
<1>11. TreeInv(P) /\ PathTo(P, cur) /\ Settled(P[cur]) /\ Keeps(ps, P)
  <2>1. \A n \in Elems(ps[cur].pending) :
          SameLinks(P[n], ps[n]) /\ SameLists(P[n], ps[n]) /\ P[n].flag # "!"
    BY <1>6, <1>7
  <2>2. Elems(P[cur].remaining) = Elems(ps[cur].pending) \cup Elems(ps[cur].remaining)
        /\ NoDuplicates(P[cur].remaining)
    BY <1>4, <1>5, <1>7, <1>10
  <2>3. /\ SameLinks(P[cur], ps[cur]) /\ P[cur].flag = "?" /\ P[cur].done = ps[cur].done
        /\ P[cur].kids = ps[cur].kids /\ P[cur].current = ps[cur].current
        /\ P[cur].pending = <<>>
    BY <1>5, <1>7
  <2>4. \A n \in Nodes \ {cur} : n \notin Elems(ps[cur].pending) => P[n] = ps[n]
    BY <1>7
  <2>5. /\ TreeInv(ps) /\ DOMAIN ps = Nodes /\ cur \in Nodes /\ PathTo(ps, cur)
        /\ Settled(ps[cur]) /\ ps[cur].flag = "?" /\ Tree1(P) /\ DOMAIN P = Nodes
    BY <1>0, <1>7, <1>9
  <2> HIDE DEF node
  <2> QED BY <2>1, <2>2, <2>3, <2>4, <2>5, TransferInv
<1> QED BY <1>0, <1>1, <1>7, <1>11, ReturnInv DEF Kept

-----------------------------------------------------------------------------
(* The theorems.                                                           *)

LEMMA InitInv == Init => IInv
<1> SUFFICES ASSUME Init PROVE IInv  OBVIOUS
<1>0. TypeOK  BY InitType
<1> DEFINE p == NewProofstate(Root, NoNode, NoProofstate, FALSE, 1, FALSE, Expr(script))
<1>1. ps = <<p>> /\ cur = Root /\ outcome = "running"  BY DEF Init
<1>2. /\ p.parent = NoNode /\ p.above = {} /\ p.goal = Root /\ p.flag = "fresh" /\ Empty(p)
  BY DEF NewProofstate, NoProofstate, NoNode, Empty
<1> HIDE DEF p
<1>3. DOMAIN ps = {1} /\ ps[1] = p  BY <1>1
<1>4. Tree1(ps)  BY <1>0 DEF TypeOK, Tree1, Nodes
<1>5. Links(ps)  BY <1>2, <1>3 DEF Links, Root, NoNode
<1>6. Local(ps, 1, ps[1]) /\ Settled(ps[1])  BY <1>2, <1>3, <1>4, EmptyLocal
<1>7. PathTo(ps, Root)  BY <1>2, <1>3 DEF PathTo, Root
<1> QED BY <1>0, <1>1, <1>3, <1>4, <1>5, <1>6, <1>7 DEF IInv, TreeInv, Root

LEMMA InvKept ==
  ASSUME NoUndoUndo, IInv, [Next]_vars
  PROVE  Kept
<1>0. TypeOK'  BY TypeKept DEF IInv
<1>1. CASE Propax  BY <1>0, <1>1, PropaxKept
<1>2. CASE StepGoal  BY <1>0, <1>2, StepGoalKept
<1>3. CASE TakeSubgoal  BY <1>0, <1>3, TakeSubgoalKept
<1>4. CASE SuccessStep  BY <1>0, <1>4, SuccessStepKept
<1>5. CASE NextProofstate  BY <1>0, <1>5, NextProofstateKept
<1>6. CASE PostponeGoal  BY <1>0, <1>6, PostponeGoalKept
<1>7. CASE TransferStrategy  BY <1>0, <1>7, TransferStrategyKept
<1>8. CASE Ended \/ UNCHANGED vars
  <2>1. ps' = ps /\ cur' = cur /\ outcome' = outcome  BY <1>8 DEF Ended, vars
  <2>2. Keeps(ps, ps')  BY <2>1 DEF Keeps
  <2> QED BY <1>0, <2>1, <2>2 DEF IInv, Kept
<1> QED BY <1>1, <1>2, <1>3, <1>4, <1>5, <1>6, <1>7, <1>8 DEF Next, Stepper

(* A goal of the tree that is not closed has a highest such goal above it, *)
(* whose parent is closed without it.                                      *)
LEMMA InvClosesEveryGoal == IInv => QedClosesEveryGoal
<1> SUFFICES ASSUME IInv, outcome = "qed", NEW n \in Tree, ps[n].flag # "!"
             PROVE  FALSE
  BY DEF QedClosesEveryGoal
<1>0. /\ TreeInv(ps) /\ DOMAIN ps = Nodes /\ n \in Nodes /\ ps[Root].flag = "!"
      /\ \A a \in Ancestors(n) \ {Root} : a \in ps[ps[a].parent].kids
  BY DEF IInv, Tree, Nodes
<1>1. DOMAIN ps = 1..Len(ps) /\ Len(ps) \in Nat  BY <1>0, NodeFacts DEF TreeInv
<1> DEFINE Open == {a \in Ancestors(n) : ps[a].flag # "!"}
<1>2. Open \in SUBSET (1..Len(ps)) /\ Open # {}
  <2>1. Ancestors(n) \subseteq Nodes /\ n \in Ancestors(n)
    BY <1>0, LinkFacts DEF Ancestors
  <2> QED BY <1>0, <1>1, <2>1
<1>3. PICK a \in Open : \A b \in Open : a <= b  BY <1>1, <1>2, LeastElement
<1>4. a # Root /\ a \in Nodes /\ a \in Nat  BY <1>0, <1>1, <1>2, <1>3
<1>5. /\ ps[a].parent \in Nodes /\ ps[a].parent < a /\ ps[a].parent \in ps[a].above
  BY <1>0, <1>4, LinkFacts
<1>6. ps[a].parent \in Ancestors(n)
  <2>1. a \in ps[n].above \cup {n}  BY <1>3 DEF Ancestors
  <2>2. ps[a].above \subseteq ps[n].above  BY <1>0, <2>1, LinkFacts
  <2> QED BY <1>5, <2>2 DEF Ancestors
<1>7. ps[ps[a].parent].flag = "!"
  <2>1. ~ (a <= ps[a].parent)  BY <1>0, <1>1, <1>4, <1>5
  <2> QED BY <1>3, <1>6, <2>1
<1>8. a \in ps[ps[a].parent].kids  BY <1>0, <1>3, <1>4
<1>9. Local(ps, ps[a].parent, ps[ps[a].parent])  BY <1>0, <1>5 DEF TreeInv
<1>10. ps[a].flag = "!"  BY <1>7, <1>8, <1>9 DEF Local, Subgoals
<1> QED BY <1>3, <1>10

(* Q.E.D. means that the whole tree is closed (QedClosesEveryGoal), for    *)
(* every strategy language without (undo undo), every behaviour of the     *)
(* rules, every use of undo, quit and interrupts and any number of goals.  *)
THEOREM Soundness ==
  ASSUME NoUndoUndo
  PROVE  Spec => []QedClosesEveryGoal
<1>1. IInv /\ [Next]_vars => IInv'  BY InvKept DEF Kept
<1> QED BY <1>1, InitInv, InvClosesEveryGoal, PTL DEF Spec

(* A closed goal is never reopened (ClosedStaysClosed), not even one that  *)
(* an undo above it has cut off from the tree.                             *)
THEOREM NeverReopened ==
  ASSUME NoUndoUndo
  PROVE  Spec => ClosedStaysClosed
<1>1. IInv /\ [Next]_vars => IInv'  BY InvKept DEF Kept
<1>2. IInv /\ [Next]_vars =>
        [\A n \in Tree : ps[n].flag = "!" => ps'[n].flag = "!"]_vars
  BY InvKept DEF Kept, Keeps, Tree, Nodes
<1> QED BY <1>1, <1>2, InitInv, PTL DEF Spec, ClosedStaysClosed
=============================================================================
