------------------------ MODULE ProofTree_refinement ------------------------
(***************************************************************************)
(* Proof that the engine implements ProofSearch, in every attempt in which *)
(* (undo undo) is not given: whatever the strategies do, the tree of the   *)
(* last decompositions only grows at its open leaves, closes a goal by a   *)
(* rule or when its subgoals are closed, and loses what is below a goal    *)
(* that is started over; and Q.E.D. is said when the root is closed.       *)
(***************************************************************************)
EXTENDS ProofTree_goals

(* The root is not closed in a running attempt, and its sequent is not     *)
(* taken for an axiom.                                                     *)
RInv ==
  /\ WInv
  /\ outcome = "running" => ps[Root].flag # "!"
  /\ ~ ps[Root].axiom

(* The tree of P, as ProofSearch sees it.                                  *)
GoalsOf(P) ==
  {n \in DOMAIN P : \A a \in (P[n].above \cup {n}) \ {Root} : a \in P[P[a].parent].kids}
Split(P) == [n \in GoalsOf(P) |-> P[n].kids]
Closed(P) == {n \in GoalsOf(P) : P[n].flag = "!"}

(* What a step may make of the tree: it leaves every goal as it was,       *)
(* closes one, starts one over, or gives one new subgoals.                 *)
Placed(v, p) == SameLinks(v, p) /\ v.axiom = p.axiom
SameGoal(v, p) == Placed(v, p) /\ v.kids = p.kids /\ (v.flag = "!" <=> p.flag = "!")
SameBut(P, Q, m) ==
  /\ m \in DOMAIN P /\ Placed(Q[m], P[m])
  /\ \A n \in DOMAIN P \ {m} : SameGoal(Q[n], P[n])
Alike(P, Q) == DOMAIN Q = DOMAIN P /\ \A n \in DOMAIN P : SameGoal(Q[n], P[n])
Closes(P, Q, m) ==
  /\ DOMAIN Q = DOMAIN P /\ SameBut(P, Q, m)
  /\ P[m].flag # "!" /\ Q[m].flag = "!" /\ Q[m].kids = P[m].kids
  /\ \A k \in P[m].kids : P[k].flag = "!"
Clears(P, Q, m) ==
  /\ DOMAIN Q = DOMAIN P /\ SameBut(P, Q, m)
  /\ P[m].flag # "!" /\ Q[m].flag # "!" /\ Q[m].kids = {}
Grows(P, Q, m, new) ==
  /\ DOMAIN Q = DOMAIN P \cup new /\ new \cap DOMAIN P = {} /\ new # {}
  /\ SameBut(P, Q, m)
  /\ P[m].flag # "!" /\ Q[m].flag # "!" /\ P[m].kids = {} /\ Q[m].kids = new
  /\ \A k \in new : /\ Q[k].parent = m /\ Q[k].above = P[m].above \cup {m}
                    /\ Q[k].kids = {} /\ Q[k].flag # "!"

-----------------------------------------------------------------------------
(* The tree of the last decompositions.                                    *)

(* The proofstates above n lead down to it from the root.                  *)
LEMMA BranchTo ==
  ASSUME NEW P, TreeInv(P), NEW n \in DOMAIN P, NEW m \in P[n].above
  PROVE  \E a \in P[n].above \cup {n} : a # Root /\ P[a].parent = m
<1> DEFINE S == {a \in P[n].above \cup {n} : m \in P[a].above}
<1>1. P[n].above \cup {n} \subseteq DOMAIN P /\ DOMAIN P = 1..Len(P) /\ Len(P) \in Nat
  BY LinkFacts, NodeFacts DEF TreeInv
<1>2. S \in SUBSET (1..Len(P)) /\ n \in S  BY <1>1
<1>3. PICK a \in S : \A b \in S : a <= b  BY <1>1, <1>2, LeastElement
<1>4. a \in DOMAIN P /\ m \in P[a].above /\ a \in P[n].above \cup {n}  BY <1>1, <1>3
<1>5. /\ a # Root /\ P[a].parent \in P[a].above /\ P[a].parent < a
      /\ P[a].above = P[P[a].parent].above \cup {P[a].parent}
      /\ P[a].parent \in DOMAIN P
  BY <1>4, LinkFacts
<1>6. P[a].parent \in P[n].above  BY <1>4, <1>5, LinkFacts
<1>7. P[a].parent \notin S
  <2>1. ~ (a <= P[a].parent)  BY <1>1, <1>4, <1>5
  <2> QED BY <1>3, <2>1
<1>8. m \notin P[P[a].parent].above  BY <1>6, <1>7
<1> QED BY <1>4, <1>5, <1>8

LEMMA GoalFacts ==
  ASSUME NEW P, TreeInv(P), NEW n \in GoalsOf(P)
  PROVE  /\ n \in DOMAIN P /\ P[n].above \subseteq GoalsOf(P)
         /\ P[n].kids \subseteq GoalsOf(P)
         /\ \A k \in P[n].kids : P[k].parent = n /\ k # Root
                                 /\ P[k].above = P[n].above \cup {n}
         /\ n # Root => P[n].parent \in GoalsOf(P) /\ n \in P[P[n].parent].kids
<1>1. n \in DOMAIN P /\ \A a \in (P[n].above \cup {n}) \ {Root} : a \in P[P[a].parent].kids
  BY DEF GoalsOf
<1>2. ASSUME NEW a \in P[n].above PROVE a \in GoalsOf(P)
  <2>1. a \in DOMAIN P /\ P[a].above \subseteq P[n].above  BY <1>1, LinkFacts
  <2> QED BY <1>1, <2>1 DEF GoalsOf
<1>3. ASSUME NEW k \in P[n].kids
      PROVE  P[k].parent = n /\ k # Root /\ P[k].above = P[n].above \cup {n}
             /\ k \in GoalsOf(P)
  <2>0. Tree1(P) /\ P[n].kids \subseteq DOMAIN P  BY <1>1, TreeTypes DEF TreeInv
  <2>1. k \in DOMAIN P /\ n # NoNode
    <3>1. NoNode \notin DOMAIN P  BY <2>0, NodeFacts
    <3> QED BY <1>1, <2>0, <3>1
  <2>2. P[k].parent = n  BY <1>1 DEF TreeInv, Local, Children
  <2>3. k # Root /\ P[k].above = P[n].above \cup {n}  BY <2>1, <2>2, LinkFacts
  <2> QED BY <1>1, <2>1, <2>2, <2>3 DEF GoalsOf
<1>4. ASSUME n # Root PROVE P[n].parent \in GoalsOf(P) /\ n \in P[P[n].parent].kids
  BY <1>1, <1>2, <1>4, LinkFacts
<1> QED BY <1>1, <1>2, <1>3, <1>4

LEMMA PathInTree ==
  ASSUME WInv, outcome = "running"
  PROVE  Ancestors(cur) \subseteq GoalsOf(ps) /\ Root \in GoalsOf(ps)
<1>1. TreeInv(ps) /\ cur \in DOMAIN ps
  BY DEF WInv, IInv, TypeOK, Nodes
<1>2. \A a \in Ancestors(cur) \ {Root} : a \in ps[ps[a].parent].kids
  BY InvPathIntact DEF PathIntact
<1>3. ASSUME NEW t \in Ancestors(cur) PROVE t \in GoalsOf(ps)
  <2>1. t \in DOMAIN ps /\ ps[t].above \cup {t} \subseteq Ancestors(cur)
    BY <1>1, LinkFacts DEF Ancestors
  <2> QED BY <1>2, <2>1 DEF GoalsOf
<1>4. Root \in Ancestors(cur)  BY <1>1, RootAbove DEF Ancestors
<1> QED BY <1>3, <1>4

(* What the steps make of it.                                              *)
LEMMA AlikeTree ==
  ASSUME NEW P, TreeInv(P), NEW Q, Alike(P, Q)
  PROVE  GoalsOf(Q) = GoalsOf(P) /\ Split(Q) = Split(P) /\ Closed(Q) = Closed(P)
<1>1. /\ DOMAIN Q = DOMAIN P
      /\ \A n \in DOMAIN P : /\ Q[n].above = P[n].above /\ Q[n].parent = P[n].parent
                             /\ Q[n].kids = P[n].kids
                             /\ (Q[n].flag = "!" <=> P[n].flag = "!")
  BY DEF Alike, SameGoal, Placed, SameLinks
<1>2. ASSUME NEW n \in DOMAIN P, NEW a \in (P[n].above \cup {n}) \ {Root}
      PROVE  a \in DOMAIN P /\ P[a].parent \in DOMAIN P
  BY LinkFacts
<1>3. GoalsOf(Q) = GoalsOf(P)  BY <1>1, <1>2 DEF GoalsOf
<1>4. GoalsOf(P) \subseteq DOMAIN P  BY DEF GoalsOf
<1> QED BY <1>1, <1>3, <1>4 DEF Split, Closed

LEMMA ClosesTree ==
  ASSUME NEW P, TreeInv(P), NEW Q, NEW m \in GoalsOf(P), Closes(P, Q, m)
  PROVE  GoalsOf(Q) = GoalsOf(P) /\ Split(Q) = Split(P) /\ Closed(Q) = Closed(P) \cup {m}
<1>1. /\ DOMAIN Q = DOMAIN P
      /\ \A n \in DOMAIN P : /\ Q[n].above = P[n].above /\ Q[n].parent = P[n].parent
                             /\ Q[n].kids = P[n].kids
                             /\ Q[n].flag = "!" <=> (P[n].flag = "!" \/ n = m)
  BY DEF Closes, SameBut, SameGoal, Placed, SameLinks
<1>2. ASSUME NEW n \in DOMAIN P, NEW a \in (P[n].above \cup {n}) \ {Root}
      PROVE  a \in DOMAIN P /\ P[a].parent \in DOMAIN P
  BY LinkFacts
<1>3. GoalsOf(Q) = GoalsOf(P)  BY <1>1, <1>2 DEF GoalsOf
<1>4. GoalsOf(P) \subseteq DOMAIN P  BY DEF GoalsOf
<1> QED BY <1>1, <1>3, <1>4 DEF Split, Closed

Beneath(P, m) == {n \in GoalsOf(P) : m \in P[n].above}

LEMMA ClearsTree ==
  ASSUME NEW P, TreeInv(P), NEW Q, NEW m \in GoalsOf(P), Clears(P, Q, m)
  PROVE  /\ GoalsOf(Q) = GoalsOf(P) \ Beneath(P, m)
         /\ Split(Q) = [n \in GoalsOf(Q) |-> IF n = m THEN {} ELSE P[n].kids]
         /\ Closed(Q) = Closed(P) \ Beneath(P, m)
<1>1. /\ DOMAIN Q = DOMAIN P /\ m \in DOMAIN P
      /\ \A n \in DOMAIN P : /\ Q[n].above = P[n].above /\ Q[n].parent = P[n].parent
                             /\ Q[n].kids = IF n = m THEN {} ELSE P[n].kids
                             /\ (Q[n].flag = "!" <=> P[n].flag = "!")
  BY DEF Clears, SameBut, SameGoal, Placed, SameLinks
<1>2. ASSUME NEW n \in DOMAIN P, NEW a \in (P[n].above \cup {n}) \ {Root}
      PROVE  a \in DOMAIN P /\ P[a].parent \in DOMAIN P /\ P[a].parent \in P[n].above
  BY LinkFacts
<1>3. ASSUME NEW n \in GoalsOf(Q) PROVE n \in GoalsOf(P) /\ m \notin P[n].above
  <2>1. n \in DOMAIN P /\ \A a \in (P[n].above \cup {n}) \ {Root} : a \in Q[P[a].parent].kids
    BY <1>1, <1>2 DEF GoalsOf
  <2>2. n \in GoalsOf(P)  BY <1>1, <1>2, <2>1 DEF GoalsOf
  <2>3. ASSUME m \in P[n].above PROVE FALSE
    <3>1. PICK a \in P[n].above \cup {n} : a # Root /\ P[a].parent = m
      BY <2>1, <2>3, BranchTo
    <3> QED BY <1>1, <2>1, <3>1
  <2> QED BY <2>2, <2>3
<1>4. ASSUME NEW n \in GoalsOf(P), m \notin P[n].above PROVE n \in GoalsOf(Q)
  <2>1. n \in DOMAIN P /\ \A a \in (P[n].above \cup {n}) \ {Root} : a \in P[P[a].parent].kids
    BY DEF GoalsOf
  <2> QED BY <1>1, <1>2, <1>4, <2>1 DEF GoalsOf
<1>5. GoalsOf(Q) = GoalsOf(P) \ Beneath(P, m)  BY <1>3, <1>4 DEF Beneath
<1>6. GoalsOf(Q) \subseteq DOMAIN P  BY <1>1 DEF GoalsOf
<1>7. Split(Q) = [n \in GoalsOf(Q) |-> IF n = m THEN {} ELSE P[n].kids]
  BY <1>1, <1>6 DEF Split
<1>8. Closed(Q) = Closed(P) \ Beneath(P, m)  BY <1>1, <1>5, <1>6 DEF Closed
<1> QED BY <1>5, <1>7, <1>8

LEMMA GrowsTree ==
  ASSUME NEW P, TreeInv(P), NEW Q, NEW m \in GoalsOf(P), NEW new, Grows(P, Q, m, new)
  PROVE  /\ GoalsOf(Q) = GoalsOf(P) \cup new
         /\ Split(Q) = [n \in GoalsOf(Q) |->
                          IF n = m THEN new ELSE IF n \in new THEN {} ELSE P[n].kids]
         /\ Closed(Q) = Closed(P)
<1>1. /\ DOMAIN Q = DOMAIN P \cup new /\ m \in DOMAIN P /\ new \cap DOMAIN P = {}
      /\ \A n \in DOMAIN P : /\ Q[n].above = P[n].above /\ Q[n].parent = P[n].parent
                             /\ Q[n].kids = IF n = m THEN new ELSE P[n].kids
                             /\ (Q[n].flag = "!" <=> P[n].flag = "!")
      /\ \A n \in new : /\ Q[n].parent = m /\ Q[n].above = P[m].above \cup {m}
                        /\ Q[n].kids = {} /\ Q[n].flag # "!"
      /\ P[m].kids = {} /\ Q[m].kids = new
  BY DEF Grows, SameBut, SameGoal, Placed, SameLinks
<1>2. ASSUME NEW n \in DOMAIN P, NEW a \in (P[n].above \cup {n}) \ {Root}
      PROVE  a \in DOMAIN P /\ P[a].parent \in DOMAIN P
  BY LinkFacts
<1>3. ASSUME NEW n \in DOMAIN P PROVE n \in GoalsOf(Q) <=> n \in GoalsOf(P)
  <2>1. ASSUME NEW a \in (P[n].above \cup {n}) \ {Root}
        PROVE  a \in Q[Q[a].parent].kids <=> a \in P[P[a].parent].kids
    <3>1. a \in DOMAIN P /\ P[a].parent \in DOMAIN P /\ Q[a].parent = P[a].parent
      BY <1>1, <1>2
    <3>2. CASE P[a].parent # m  BY <1>1, <3>1, <3>2
    <3>3. CASE P[a].parent = m  BY <1>1, <3>1, <3>3
    <3> QED BY <3>2, <3>3
  <2> QED BY <1>1, <2>1 DEF GoalsOf
<1>4. ASSUME NEW n \in new PROVE n \in GoalsOf(Q)
  <2>1. m \in GoalsOf(Q) /\ Q[m].above = P[m].above  BY <1>1, <1>3
  <2>2. \A a \in (Q[m].above \cup {m}) \ {Root} : a \in Q[Q[a].parent].kids
    BY <2>1 DEF GoalsOf
  <2> QED BY <1>1, <2>1, <2>2 DEF GoalsOf
<1>5. GoalsOf(P) \subseteq DOMAIN P /\ GoalsOf(Q) \subseteq DOMAIN Q  BY DEF GoalsOf
<1>6. GoalsOf(Q) = GoalsOf(P) \cup new  BY <1>1, <1>3, <1>4, <1>5
<1>7. Split(Q) = [n \in GoalsOf(Q) |->
                    IF n = m THEN new ELSE IF n \in new THEN {} ELSE P[n].kids]
  <2>1. ASSUME NEW n \in GoalsOf(Q)
        PROVE  Q[n].kids = IF n = m THEN new ELSE IF n \in new THEN {} ELSE P[n].kids
    <3>1. n \in new \/ n \in DOMAIN P  BY <1>5, <1>6
    <3> QED BY <1>1, <3>1
  <2> QED BY <2>1 DEF Split
<1>8. Closed(Q) = Closed(P)  BY <1>1, <1>5, <1>6 DEF Closed
<1> QED BY <1>6, <1>7, <1>8

-----------------------------------------------------------------------------
(* Steps of ProofSearch.                                                   *)
LEMMA Mapped ==
  /\ Tree = GoalsOf(ps) /\ Tree' = GoalsOf(ps')
  /\ [n \in Tree |-> ps[n].kids] = Split(ps)
  /\ {n \in Tree : ps[n].flag = "!"} = Closed(ps)
<1>1. Tree = GoalsOf(ps)  BY DEF Tree, GoalsOf, Nodes, Ancestors
<1>2. Tree' = GoalsOf(ps')  BY DEF Tree, GoalsOf, Nodes, Ancestors
<1> QED BY <1>1, <1>2 DEF Split, Closed

LEMMA AlikeSearch ==
  ASSUME RInv, outcome = "running", Alike(ps, ps'), outcome' # "qed"
  PROVE  [Goals!Search]_(Goals!avars)
<1>1. /\ GoalsOf(ps') = GoalsOf(ps) /\ Split(ps') = Split(ps)
      /\ Closed(ps') = Closed(ps)
  BY AlikeTree DEF RInv, WInv, IInv
<1>2. Tree = GoalsOf(ps) /\ Tree' = GoalsOf(ps')  BY Mapped
<1>3. [n \in Tree |-> ps[n].kids]' = [n \in Tree |-> ps[n].kids]
  BY <1>1, <1>2 DEF Split
<1>4. {n \in Tree : ps[n].flag = "!"}' = {n \in Tree : ps[n].flag = "!"}
  BY <1>1, <1>2 DEF Closed
<1>5. Root \notin {n \in Tree : ps[n].flag = "!"}  BY DEF RInv
<1>6. CASE outcome' = "running"  BY <1>3, <1>4, <1>6 DEF Goals!avars
<1>7. CASE outcome' # "running"
  <2>1. Goals!GiveUp  BY <1>3, <1>4, <1>5, <1>7 DEF Goals!GiveUp
  <2> QED BY <2>1 DEF Goals!Search
<1> QED BY <1>6, <1>7

LEMMA ClosesSearch ==
  ASSUME RInv, outcome = "running", NEW m, m = cur, Closes(ps, ps', m),
         outcome' = IF m = Root THEN "qed" ELSE "running"
  PROVE  Goals!Search
<1>1. TreeInv(ps) /\ m \in GoalsOf(ps) /\ Root \in GoalsOf(ps)
  BY PathInTree DEF RInv, WInv, IInv, Ancestors
<1>2. /\ GoalsOf(ps') = GoalsOf(ps) /\ Split(ps') = Split(ps)
      /\ Closed(ps') = Closed(ps) \cup {m}
  BY <1>1, ClosesTree
<1>3. Tree = GoalsOf(ps) /\ Tree' = GoalsOf(ps')  BY Mapped
<1>4. [n \in Tree |-> ps[n].kids]' = [n \in Tree |-> ps[n].kids]
  BY <1>2, <1>3 DEF Split
<1>5. {n \in Tree : ps[n].flag = "!"}' = {n \in Tree : ps[n].flag = "!"} \cup {m}
  BY <1>2, <1>3 DEF Closed
<1>6. /\ m \in Tree /\ ps[m].flag # "!" /\ ps[m].kids \subseteq Tree
      /\ \A k \in ps[m].kids : ps[k].flag = "!"
  BY <1>1, <1>3, GoalFacts DEF Closes
<1>7. Root \notin {n \in Tree : ps[n].flag = "!"}  BY DEF RInv
<1>8. Goals!Judge  BY <1>5, <1>7 DEF Goals!Judge
<1>11. m \in Goals!Tree  BY <1>6 DEF Goals!Tree
<1>9. CASE ps[m].kids = {}
  <2>1. Goals!Discharge(m)
    BY <1>4, <1>5, <1>6, <1>8, <1>9 DEF Goals!Discharge, Goals!Leaf, Goals!Tree
  <2>2. \E g \in Goals!Tree : Goals!Discharge(g) \/ Goals!Combine(g) \/ Goals!Drop(g)
    BY <1>11, <2>1, Zenon
  <2> QED BY <2>2 DEF Goals!Search
<1>10. CASE ps[m].kids # {}
  <2>1. Goals!Combine(m)
    BY <1>4, <1>5, <1>6, <1>8, <1>10 DEF Goals!Combine, Goals!Tree
  <2>2. \E g \in Goals!Tree : Goals!Discharge(g) \/ Goals!Combine(g) \/ Goals!Drop(g)
    BY <1>11, <2>1, Zenon
  <2> QED BY <2>2 DEF Goals!Search
<1> QED BY <1>9, <1>10

LEMMA ClearsSearch ==
  ASSUME RInv, outcome = "running", outcome' = "running",
         NEW m \in Ancestors(cur), Clears(ps, ps', m)
  PROVE  Goals!Search
<1> DEFINE below == Beneath(ps, m)
           sub == [n \in Tree |-> ps[n].kids]
<1>1. TreeInv(ps) /\ m \in GoalsOf(ps)
  BY PathInTree DEF RInv, WInv, IInv
<1>2. /\ GoalsOf(ps') = GoalsOf(ps) \ below
      /\ Split(ps') = [n \in GoalsOf(ps') |-> IF n = m THEN {} ELSE ps[n].kids]
      /\ Closed(ps') = Closed(ps) \ below
  BY <1>1, ClearsTree
<1>3. Tree = GoalsOf(ps) /\ Tree' = GoalsOf(ps')  BY Mapped
<1>4. sub' = [n \in Tree \ below |-> IF n = m THEN {} ELSE sub[n]]
  BY <1>2, <1>3 DEF Split
<1>5. {n \in Tree : ps[n].flag = "!"}' = {n \in Tree : ps[n].flag = "!"} \ below
  BY <1>2, <1>3 DEF Closed
<1>6. below \subseteq Tree \ {m}
  <2>1. m \notin ps[m].above  BY <1>1, GoalFacts, LinkFacts
  <2> QED BY <1>3, <2>1 DEF Beneath
<1>7. sub[m] \subseteq below
  <2>1. \A k \in ps[m].kids : k \in GoalsOf(ps) /\ m \in ps[k].above
    BY <1>1, GoalFacts
  <2> QED BY <1>1, <1>3, <2>1 DEF Beneath
<1>8. ASSUME NEW h \in below
      PROVE  sub[h] \subseteq below /\ \E p \in below \cup {m} : h \in sub[p]
  <2>1. h \in GoalsOf(ps) /\ m \in ps[h].above /\ h \in DOMAIN ps
    BY <1>1, GoalFacts DEF Beneath
  <2>2. h # Root
    <3>1. h = Root => ps[h].above = {}  BY <1>1, <2>1, LinkFacts
    <3> QED BY <2>1, <3>1
  <2>3. \A k \in ps[h].kids : k \in GoalsOf(ps) /\ ps[k].above = ps[h].above \cup {h}
    BY <1>1, <2>1, GoalFacts
  <2>4. sub[h] \subseteq below  BY <1>3, <2>1, <2>3 DEF Beneath
  <2> DEFINE p == ps[h].parent
  <2>5. p \in GoalsOf(ps) /\ h \in ps[p].kids  BY <1>1, <2>1, <2>2, GoalFacts
  <2>6. ps[h].above = ps[p].above \cup {p}  BY <1>1, <2>1, <2>2, LinkFacts
  <2>7. p \in below \cup {m}  BY <2>1, <2>5, <2>6 DEF Beneath
  <2>8. h \in sub[p]  BY <1>3, <2>5
  <2> QED BY <2>4, <2>7, <2>8
<1>9. m \in Tree /\ ps[m].flag # "!"  BY <1>1, <1>3 DEF Clears
<1> HIDE DEF below
<1>10. DOMAIN sub = Tree  OBVIOUS
<1>11. Goals!Under(m, below)  BY <1>7, <1>8 DEF Goals!Under
<1>12. Goals!Drop(m)
  BY <1>4, <1>5, <1>6, <1>9, <1>10, <1>11 DEF Goals!Drop, Goals!Tree
<1> QED BY <1>9, <1>12 DEF Goals!Search, Goals!Tree

LEMMA GrowsSearch ==
  ASSUME RInv, outcome = "running", outcome' = "running",
         NEW new \in SUBSET (1..MaxNodes), Grows(ps, ps', cur, new)
  PROVE  Goals!Search
<1> DEFINE sub == [n \in Tree |-> ps[n].kids]
<1>1. TreeInv(ps) /\ cur \in GoalsOf(ps) /\ GoalsOf(ps) \subseteq DOMAIN ps
  BY PathInTree DEF RInv, WInv, IInv, Ancestors, GoalsOf
<1>2. /\ GoalsOf(ps') = GoalsOf(ps) \cup new
      /\ Split(ps') = [n \in GoalsOf(ps') |->
                         IF n = cur THEN new ELSE IF n \in new THEN {} ELSE ps[n].kids]
      /\ Closed(ps') = Closed(ps)
  BY <1>1, GrowsTree
<1>3. Tree = GoalsOf(ps) /\ Tree' = GoalsOf(ps')  BY Mapped
<1>4. sub' = [n \in Tree \cup new |->
                IF n = cur THEN new ELSE IF n \in new THEN {} ELSE sub[n]]
  BY <1>2, <1>3 DEF Split
<1>5. {n \in Tree : ps[n].flag = "!"}' = {n \in Tree : ps[n].flag = "!"}
  BY <1>2, <1>3 DEF Closed
<1>6. /\ cur \in Tree /\ ps[cur].flag # "!" /\ ps[cur].kids = {}
      /\ new # {} /\ new \cap Tree = {}
  BY <1>1, <1>3 DEF Grows
<1>7. Goals!Decompose(cur, new)
  BY <1>4, <1>5, <1>6 DEF Goals!Decompose, Goals!Leaf, Goals!Tree
<1> QED BY <1>6, <1>7 DEF Goals!Search, Goals!Tree

-----------------------------------------------------------------------------
(* What an iteration of prove*-int does to the tree.                       *)
Shaped ==
  \/ Alike(ps, ps') /\ outcome' # "qed"
  \/ Closes(ps, ps', cur) /\ outcome' = IF cur = Root THEN "qed" ELSE "running"
  \/ (\E m \in Ancestors(cur) : Clears(ps, ps', m)) /\ outcome' = "running"
  \/ (\E new \in SUBSET (1..MaxNodes) : Grows(ps, ps', cur, new)) /\ outcome' = "running"

AtStep == RInv /\ outcome = "running"

LEMMA StepFacts ==
  ASSUME AtStep
  PROVE  /\ TypeOK /\ TreeInv(ps) /\ Whole(ps) /\ PathTo(ps, cur) /\ DOMAIN ps = Nodes
         /\ cur \in Nodes /\ Root \in Nodes /\ NoNode \notin Nodes
         /\ ps[cur] \in Proofstate(Nodes)
         /\ cur \in Ancestors(cur) /\ Ancestors(cur) \subseteq Nodes
         /\ cur = Root => Ancestors(cur) = {Root}
         /\ ps[Root].flag # "!"
<1>1. /\ TypeOK /\ TreeInv(ps) /\ Whole(ps) /\ PathTo(ps, cur) /\ DOMAIN ps = Nodes
      /\ cur \in Nodes /\ ps[Root].flag # "!"
  BY DEF AtStep, RInv, WInv, IInv, TypeOK, Nodes
<1>2. Root \in Nodes /\ NoNode \notin Nodes  BY <1>1, NodeFacts DEF TreeInv
<1>3. ps[cur] \in Proofstate(Nodes)  BY <1>1, CurType
<1>4. /\ cur \in Ancestors(cur) /\ Ancestors(cur) \subseteq Nodes
      /\ cur = Root => Ancestors(cur) = {Root}
  BY <1>1, LinkFacts DEF Ancestors
<1> QED BY <1>1, <1>2, <1>3, <1>4

LEMMA ReturnAlike ==
  ASSUME NEW P, NEW next, Return(P, next), NEW N, Root \in DOMAIN P,
         cur = Root => P[Root] \in Proofstate(N)
  PROVE  /\ Alike(P, ps')
         /\ outcome' = IF cur = Root THEN Ending(P[Root]) ELSE "running"
<1>0. outcome' = IF cur = Root THEN Ending(P[Root]) ELSE "running"
  BY DEF Return
<1>1. CASE outcome' # "subgoals"
  <2>1. ps' = P  BY <1>1 DEF Return
  <2> QED BY <1>0, <2>1 DEF Alike, SameGoal, Placed, SameLinks
<1>2. CASE outcome' = "subgoals"
  <2> DEFINE v == [P[Root] EXCEPT !.flag = "*"]
  <2>1. ps' = [P EXCEPT ![Root] = v]  BY <1>2 DEF Return
  <2>2. P[Root].flag \in {"fresh", "*"} /\ cur = Root  BY <1>2 DEF Return, Ending
  <2>3. SameLinks(v, P[Root]) /\ v.axiom = P[Root].axiom /\ v.kids = P[Root].kids
        /\ v.flag = "*"
    BY <2>2 DEF Proofstate, SameLinks
  <2> HIDE DEF v
  <2>4. SameGoal(v, P[Root])  BY <2>2, <2>3 DEF SameGoal, Placed
  <2>5. \A n \in DOMAIN P \ {Root} : ps'[n] = P[n]  BY <2>1
  <2>6. \A n \in DOMAIN P : SameGoal(P[n], P[n])  BY DEF SameGoal, Placed, SameLinks
  <2>7. Alike(P, ps')  BY <2>1, <2>4, <2>5, <2>6 DEF Alike
  <2> QED BY <1>0, <2>7
<1> QED BY <1>1, <1>2

(* Changes that follow a change which leaves the goals as they were, and   *)
(* changes that such a one follows.                                        *)
LEMMA Through ==
  ASSUME NEW P, NEW Q, NEW R, NEW m, TreeInv(P)
  PROVE  /\ Alike(P, Q) /\ Alike(Q, R) => Alike(P, R)
         /\ Closes(P, Q, m) /\ Alike(Q, R) => Closes(P, R, m)
         /\ Clears(P, Q, m) /\ Alike(Q, R) => Clears(P, R, m)
         /\ Alike(P, Q) /\ Clears(Q, R, m) => Clears(P, R, m)
<1>1. Alike(P, Q) /\ Alike(Q, R) => Alike(P, R)
  BY DEF Alike, SameGoal, Placed, SameLinks
<1>2. Closes(P, Q, m) /\ Alike(Q, R) => Closes(P, R, m)
  BY DEF Closes, SameBut, Alike, SameGoal, Placed, SameLinks
<1>3. Clears(P, Q, m) /\ Alike(Q, R) => Clears(P, R, m)
  BY DEF Clears, SameBut, Alike, SameGoal, Placed, SameLinks
<1>4. Alike(P, Q) /\ Clears(Q, R, m) => Clears(P, R, m)
  BY DEF Clears, SameBut, Alike, SameGoal, Placed, SameLinks
<1> QED BY <1>1, <1>2, <1>3, <1>4

LEMMA OneAlike ==
  ASSUME NEW P, NEW m \in DOMAIN P, NEW v, SameGoal(v, P[m])
  PROVE  Alike(P, [P EXCEPT ![m] = v])
  BY DEF Alike, SameGoal, Placed, SameLinks

LEMMA OneCloses ==
  ASSUME NEW P, NEW m \in DOMAIN P, NEW v, Placed(v, P[m]), v.kids = P[m].kids,
         v.flag = "!", P[m].flag # "!", \A k \in P[m].kids : P[k].flag = "!"
  PROVE  Closes(P, [P EXCEPT ![m] = v], m)
  BY DEF Closes, SameBut, SameGoal, Placed, SameLinks

LEMMA OneClears ==
  ASSUME NEW P, NEW m \in DOMAIN P, NEW v, Placed(v, P[m]), v.kids = {},
         v.flag # "!", P[m].flag # "!"
  PROVE  Clears(P, [P EXCEPT ![m] = v], m)
  BY DEF Clears, SameBut, SameGoal, Placed, SameLinks

(* The step changes the proofstate m of P, a tree with the goals of ps.    *)
LEMMA OneShaped ==
  ASSUME AtStep, NEW P, Alike(ps, P), NEW m \in Ancestors(cur),
         NEW v, cur = Root => {P[Root], v} \subseteq Proofstate(Nodes), NEW next,
         Return([P EXCEPT ![m] = v], next), Placed(v, P[m]),
         \/ SameGoal(v, P[m])
         \/ /\ m = cur /\ P = ps /\ v.flag = "!" /\ ps[m].flag # "!"
            /\ v.kids = ps[m].kids /\ \A k \in ps[m].kids : ps[k].flag = "!"
         \/ /\ v.flag # "!" /\ P[m].flag # "!" /\ v.kids = {}
            /\ cur = Root => Ending(v) = "running"
  PROVE  Shaped
<1> DEFINE Q == [P EXCEPT ![m] = v]
<1>1. /\ TreeInv(ps) /\ DOMAIN P = Nodes /\ m \in Nodes /\ Root \in Nodes
      /\ P[Root].flag # "!" /\ (cur = Root => m = Root)
  BY StepFacts DEF Alike, SameGoal
<1>2. Q[m] = v /\ DOMAIN Q = Nodes /\ (m # Root => Q[Root] = P[Root])
      /\ (cur = Root => Q[Root] \in Proofstate(Nodes))
  BY <1>1
<1>3. Return(Q, next)  OBVIOUS
<1>4. CASE SameGoal(v, P[m])
  <2>1. Alike(P, Q)  BY <1>1, <1>4, OneAlike
  <2>2. Q[Root].flag # "!"  BY <1>1, <2>1 DEF Alike, SameGoal
  <2> HIDE DEF Q
  <2>3. Alike(Q, ps') /\ outcome' = IF cur = Root THEN Ending(Q[Root]) ELSE "running"
    BY <1>1, <1>2, <1>3, ReturnAlike
  <2>4. outcome' # "qed"  BY <2>2, <2>3 DEF Ending
  <2>5. Alike(ps, ps')
    <3>1. Alike(ps, Q)  BY <1>1, <2>1, Through
    <3> QED BY <1>1, <2>3, <3>1, Through
  <2> QED BY <2>4, <2>5 DEF Shaped
<1>5. CASE /\ m = cur /\ P = ps /\ v.flag = "!" /\ ps[m].flag # "!"
           /\ v.kids = ps[m].kids /\ \A k \in ps[m].kids : ps[k].flag = "!"
  <2>1. Closes(ps, Q, m)  BY <1>1, <1>5, OneCloses
  <2> HIDE DEF Q
  <2>2. Alike(Q, ps') /\ outcome' = IF cur = Root THEN Ending(Q[Root]) ELSE "running"
    BY <1>1, <1>2, <1>3, ReturnAlike
  <2>3. Closes(ps, ps', m)  BY <1>1, <2>1, <2>2, Through
  <2>4. outcome' = IF cur = Root THEN "qed" ELSE "running"
    BY <1>2, <1>5, <2>2 DEF Ending
  <2> QED BY <1>5, <2>3, <2>4 DEF Shaped
<1>6. CASE /\ v.flag # "!" /\ P[m].flag # "!" /\ v.kids = {}
           /\ cur = Root => Ending(v) = "running"
  <2>1. Clears(P, Q, m)  BY <1>1, <1>6, OneClears
  <2> HIDE DEF Q
  <2>2. Alike(Q, ps') /\ outcome' = IF cur = Root THEN Ending(Q[Root]) ELSE "running"
    BY <1>1, <1>2, <1>3, ReturnAlike
  <2>3. Clears(ps, ps', m)
    <3>1. Clears(ps, Q, m)  BY <1>1, <2>1, Through
    <3> QED BY <1>1, <2>2, <3>1, Through
  <2>4. outcome' = "running"  BY <1>1, <1>2, <1>6, <2>2
  <2> QED BY <2>3, <2>4 DEF Shaped
<1> QED BY <1>4, <1>5, <1>6

LEMMA ClearedAxiom ==
  ASSUME NEW N, NEW p \in Proofstate(N), NEW sl
  PROVE  /\ [Cleared(p) EXCEPT !.strategy = sl].axiom = p.axiom
         /\ Undone(p).axiom = p.axiom
<1> DEFINE c == Cleared(p)
<1>1. c.axiom = p.axiom  BY DEF Cleared, Proofstate
<1>2. c \in Proofstate(N)
  <2>1. <<>> \in Seq(N) /\ "fresh" \in Flag  BY DEF Flag
  <2> QED BY <2>1 DEF Cleared, Proofstate
<1>3. Undone(p) = [c EXCEPT !.rule = NoRule, !.deps = {}, !.strategy = Expr(QueryStep)]
  BY DEF Undone
<1> HIDE DEF c
<1>4. [c EXCEPT !.strategy = sl].axiom = p.axiom  BY <1>1, <1>2 DEF Proofstate
<1>5. [c EXCEPT !.rule = NoRule, !.deps = {}, !.strategy = Expr(QueryStep)].axiom = p.axiom
  BY <1>1, <1>2 DEF Proofstate
<1> QED BY <1>3, <1>4, <1>5 DEF c

LEMMA SelfAlike ==
  ASSUME NEW P
  PROVE  Alike(P, P)
  BY DEF Alike, SameGoal, Placed, SameLinks

-----------------------------------------------------------------------------
(* The steps of a fresh goal.                                              *)
AtRefine == AtStep /\ AtWhole

LEMMA LeafShaped ==
  ASSUME AtRefine, NEW v \in Proofstate(Nodes), Placed(v, ps[cur]),
         v.kids = ps[cur].kids, v.flag = "!" => ps[cur].kids = {},
         Return([ps EXCEPT ![cur] = v], cur)
  PROVE  Shaped
<1>1. /\ cur \in Ancestors(cur) /\ ps[cur].flag = "fresh" /\ Root \in Nodes
      /\ ps[Root] \in Proofstate(Nodes)
  BY StepFacts, NodeFacts DEF AtRefine, AtWhole, AtGoal, TreeInv
<1>2. Alike(ps, ps)  BY SelfAlike
<1>3. v.flag # "!" => SameGoal(v, ps[cur])  BY <1>1 DEF SameGoal
<1> QED BY <1>1, <1>2, <1>3, OneShaped DEF AtRefine

LEMMA PropaxShaped ==
  ASSUME RInv, Propax
  PROVE  Shaped
<1> DEFINE v == [ps[cur] EXCEPT !.flag = "!", !.rule = "propax", !.kids = {}]
<1>1. AtRefine
  BY DEF AtRefine, AtStep, RInv, AtWhole, AtGoal, Propax, WInv
<1>2. ps[cur] \in Proofstate(Nodes) /\ cur \in Nodes /\ DOMAIN ps = Nodes /\ Whole(ps)
  BY <1>1, StepFacts DEF AtRefine
<1>3. v \in Proofstate(Nodes)  BY <1>2, ZenonT(60) DEF Proofstate, Flag
<1>4. Placed(v, ps[cur]) /\ v.kids = {} /\ v.flag = "!"
  BY <1>2 DEF Proofstate, Placed, SameLinks
<1>5. ps[cur].kids = {}
  <2>1. cur # Root /\ ps[cur].flag = "fresh"  BY DEF RInv, Propax
  <2>2. Own(cur, ps[cur])  BY <1>2 DEF Whole
  <2> QED BY <2>1, <2>2 DEF Own, Untraced, Empty
<1>6. Return([ps EXCEPT ![cur] = v], cur)  BY DEF Propax
<1> HIDE DEF v
<1> QED BY <1>1, <1>3, <1>4, <1>5, <1>6, LeafShaped

LEMMA LeafStepsShaped ==
  ASSUME AtRefine, NEW s \in NextSteps
  PROVE  /\ \A o \in OutcomesOf(s) :
              (RuleProves(s, o) => Shaped) /\ (RuleNoChange(s, o) => Shaped)
         /\ Skip(s) => Shaped
         /\ RuleFails(s) => Shaped
         /\ RulePostpones(s) => Shaped
         /\ UndoRefused(s) => Shaped
<1>1. ps[cur] \in Proofstate(Nodes) /\ ps[cur].flag = "fresh" /\ s \in Steps
  BY CurType DEF AtRefine, AtWhole, AtGoal, IInv, TypeOK, Nodes
<1>2. ps[cur].deps \subseteq Decl /\ ps[cur].rule \in Rule \cup {NoRule, "propax"}
  BY <1>1, Fields
<1>3. ASSUME NEW o \in OutcomesOf(s), RuleProves(s, o) PROVE Shaped
  <2>1. RuleOf(s) \in Rule /\ Object(s) \in Slot /\ o.refs \subseteq Decl
    BY <1>1, <1>3, StepFields, OutcomeFields DEF OutcomesOf
  <2> DEFINE v == [ps[cur] EXCEPT !.strategy = Object(s), !.flag = "!",
                     !.rule = RuleOf(s), !.deps = ps[cur].deps \cup o.refs,
                     !.kids = {}, !.uses = o.refs]
  <2>2. v \in Proofstate(Nodes)  BY <1>1, <1>2, <2>1 DEF Proofstate, Flag
  <2>3. Placed(v, ps[cur]) /\ v.kids = {}  BY <1>1 DEF Proofstate, Placed, SameLinks
  <2>4. ps[cur].kids = {}
    <3>1. Empty(ps[cur])  BY EmptyOrStuck DEF AtRefine
    <3> QED BY <3>1 DEF Empty
  <2>5. Return([ps EXCEPT ![cur] = v], cur)  BY <1>3 DEF RuleProves
  <2> HIDE DEF v
  <2> QED BY <2>2, <2>3, <2>4, <2>5, LeafShaped
<1>4. ASSUME NEW refs \in SUBSET Decl, NoChange(s, refs) PROVE Shaped
  <2> DEFINE v == [ps[cur] EXCEPT !.strategy = Expr(s.else),
                                  !.deps = ps[cur].deps \cup refs]
  <2>1. v \in Proofstate(Nodes)  BY <1>1, <1>2, StepFields DEF Proofstate
  <2>2. Placed(v, ps[cur]) /\ v.kids = ps[cur].kids /\ v.flag = "fresh"
    BY <1>1 DEF Proofstate, Placed, SameLinks
  <2>3. Return([ps EXCEPT ![cur] = v], cur)  BY <1>4 DEF NoChange
  <2> HIDE DEF v
  <2> QED BY <2>1, <2>2, <2>3, LeafShaped
<1>5. ASSUME NEW o \in OutcomesOf(s), RuleNoChange(s, o) PROVE Shaped
  <2>1. o.refs \in SUBSET Decl  BY <1>1, StepFields, OutcomeFields
  <2> QED BY <1>4, <1>5, <2>1 DEF RuleNoChange
<1>6. Skip(s) => Shaped  BY <1>4 DEF Skip
<1>7. ASSUME NEW f \in {"XX", "*"}, NEW sl \in Slot,
             Return([ps EXCEPT ![cur] = [@ EXCEPT !.strategy = sl, !.flag = f]], cur)
      PROVE  Shaped
  <2> DEFINE v == [ps[cur] EXCEPT !.strategy = sl, !.flag = f]
  <2>1. v \in Proofstate(Nodes)  BY <1>1 DEF Proofstate, Flag
  <2>2. Placed(v, ps[cur]) /\ v.kids = ps[cur].kids /\ v.flag = f
    BY <1>1 DEF Proofstate, Placed, SameLinks
  <2>3. Return([ps EXCEPT ![cur] = v], cur)  BY <1>7
  <2> HIDE DEF v
  <2> QED BY <2>1, <2>2, <2>3, LeafShaped
<1>8. Object(s) \in Slot  BY <1>1, StepFields
<1>9. RuleFails(s) => Shaped  BY <1>7, <1>8 DEF RuleFails
<1>10. RulePostpones(s) => Shaped  BY <1>7, <1>8 DEF RulePostpones
<1>11. ASSUME UndoRefused(s) PROVE Shaped
  <2> DEFINE v == [ps[cur] EXCEPT !.strategy = Expr(QueryStep)]
  <2>1. v \in Proofstate(Nodes)  BY <1>1, SlotValues DEF Proofstate
  <2>2. Placed(v, ps[cur]) /\ v.kids = ps[cur].kids /\ v.flag = "fresh"
    BY <1>1 DEF Proofstate, Placed, SameLinks
  <2>3. Return([ps EXCEPT ![cur] = v], cur)  BY <1>11 DEF UndoRefused, AskAgain
  <2> HIDE DEF v
  <2> QED BY <2>1, <2>2, <2>3, LeafShaped
<1> QED BY <1>3, <1>5, <1>6, <1>9, <1>10, <1>11

LEMMA QuitShaped ==
  ASSUME AtRefine, NEW s \in NextSteps, Quit(s)
  PROVE  Shaped
<1> DEFINE v == [ps[cur] EXCEPT !.strategy = Object(s)]
<1>1. ps[cur] \in Proofstate(Nodes) /\ cur \in Nodes /\ DOMAIN ps = Nodes
  BY StepFacts DEF AtRefine
<1>2. SameGoal(v, ps[cur])
  BY <1>1 DEF Proofstate, SameGoal, Placed, SameLinks
<1>3. ps' = [ps EXCEPT ![cur] = v] /\ outcome' = "quit"  BY DEF Quit
<1> HIDE DEF v
<1>4. Alike(ps, ps')  BY <1>1, <1>2, <1>3, OneAlike
<1> QED BY <1>3, <1>4 DEF Shaped

LEMMA AbortShaped ==
  ASSUME AtRefine, Abort
  PROVE  Shaped
<1> DEFINE g == NonStratParent(cur)
           v == [Cleared(ps[g]) EXCEPT !.strategy = Expr(QueryStep)]
<1>0. /\ TypeOK /\ TreeInv(ps) /\ PathTo(ps, cur) /\ DOMAIN ps = Nodes
      /\ cur \in Nodes /\ ps[cur].flag = "fresh" /\ Root \in Nodes
  BY StepFacts DEF AtRefine, AtWhole, AtGoal
<1>1. g \in Ancestors(cur) /\ g \in ps[cur].above \cup {cur} /\ g \in Nodes
  BY <1>0, LinkFacts DEF NonStratParent, Ancestors
<1>2. ps[g] \in Proofstate(Nodes) /\ ps[g].flag # "!" /\ ps[Root] \in Proofstate(Nodes)
  BY <1>0, <1>1, OnPath DEF TypeOK, Nodes
<1>3. v \in Proofstate(Nodes)  BY <1>2, ClearedType, SlotValues
<1>4. SameLinks(v, ps[g]) /\ Empty(v)  BY <1>2, ClearedFields
<1>5. v.flag = "fresh"  BY <1>2, ClearedWhole
<1>6. v.axiom = ps[g].axiom  BY <1>2, ClearedAxiom
<1>7. Return([ps EXCEPT ![g] = v], g) /\ RootKind[script] = "top"  BY DEF Abort
<1> HIDE DEF v, g
<1>8. Ending(v) = "running"  BY <1>5, <1>7 DEF Ending
<1>9. Alike(ps, ps)  BY SelfAlike
<1> QED BY <1>1, <1>2, <1>3, <1>4, <1>5, <1>6, <1>7, <1>8, <1>9, OneShaped
        DEF AtRefine, Placed, Empty

LEMMA UndoToShaped ==
  ASSUME AtRefine, NEW s \in NextSteps, UndoTo(s)
  PROVE  Shaped
<1> DEFINE u == [ps[cur] EXCEPT !.strategy = Object(s)]
           left == [ps EXCEPT ![cur] = u]
<1>0. /\ TreeInv(ps) /\ PathTo(ps, cur) /\ DOMAIN ps = Nodes /\ cur \in Nodes
      /\ ps[cur] \in Proofstate(Nodes) /\ Root \in Nodes /\ s \in Steps
      /\ cur = Root => Ancestors(cur) = {Root}
      /\ \A n \in Nodes : ps[n] \in Proofstate(Nodes)
  BY StepFacts, CurType, NodeFacts DEF AtRefine, TreeInv
<1>1. PICK t \in Ancestors(cur) \ {cur} :
        Return([left EXCEPT ![t] = Undone(left[t])], t)
  BY DEF UndoTo
<1>2. u \in Proofstate(Nodes)  BY <1>0, StepFields DEF Proofstate
<1>3. SameGoal(u, ps[cur])
  BY <1>0 DEF Proofstate, SameGoal, Placed, SameLinks
<1>4. cur # Root  BY <1>0, <1>1
<1> HIDE DEF u
<1>5. Alike(ps, left)  BY <1>0, <1>3, OneAlike
<1>6. t \in Nodes /\ t # cur /\ ps[t].flag # "!"
  <2>1. t \in ps[cur].above \cup {cur} /\ t # cur  BY <1>1 DEF Ancestors
  <2> QED BY <1>0, <2>1, OnPath
<1>7. left[t] = ps[t] /\ left[Root] \in Proofstate(Nodes)  BY <1>0, <1>2, <1>4, <1>6
<1> HIDE DEF left
<1> DEFINE v == Undone(left[t])
<1>8. ps[t] \in Proofstate(Nodes)  BY <1>0, <1>6
<1>9. v \in Proofstate(Nodes)  BY <1>7, <1>8, ClearedType, SlotValues
<1>10. SameLinks(v, ps[t]) /\ Empty(v)  BY <1>7, <1>8, ClearedFields
<1>11. v.flag = "fresh"  BY <1>7, <1>8, ClearedWhole
<1>12. v.axiom = ps[t].axiom  BY <1>7, <1>8, ClearedAxiom
<1>13. Return([left EXCEPT ![t] = v], t)  BY <1>1
<1> HIDE DEF v
<1>14. Placed(v, left[t]) /\ v.kids = {} /\ left[t].flag # "!" /\ v.flag # "!"
  BY <1>6, <1>7, <1>10, <1>11, <1>12 DEF Placed, Empty
<1> QED BY <1>1, <1>4, <1>5, <1>7, <1>9, <1>13, <1>14, OneShaped DEF AtRefine

(* New subgoals.                                                           *)
LEMMA AddShaped ==
  ASSUME AtRefine, NEW k \in Nat, Len(ps) + k <= MaxNodes, NEW goal, NEW T,
         NEW kids \in Seq(T), Len(kids) = k, Adds(goal, kids, Len(ps), k),
         goal.axiom = ps[cur].axiom, Empty(ps[cur]),
         Return([ps EXCEPT ![cur] = goal] \o kids, cur)
  PROVE  Shaped
<1> DEFINE P == [ps EXCEPT ![cur] = goal] \o kids
           len == Len(ps)
           new == (len + 1)..(len + k)
<1>0. /\ TreeInv(ps) /\ cur \in DOMAIN ps /\ ps[cur].flag = "fresh" /\ TypeOK
      /\ DOMAIN ps = 1..len /\ len \in Nat /\ ps[Root].flag # "!"
      /\ Root \in DOMAIN ps
  <2>1. TreeInv(ps) /\ TypeOK /\ cur \in DOMAIN ps /\ ps[Root].flag # "!"
        /\ Root \in DOMAIN ps
    BY StepFacts DEF AtRefine
  <2> QED BY <2>1, NodeFacts DEF AtRefine, AtWhole, AtGoal, TreeInv
<1>1. /\ DOMAIN P = 1..(len + k)
      /\ P[cur] = goal
      /\ \A m \in DOMAIN ps \ {cur} : P[m] = ps[m]
      /\ \A i \in 1..k : P[len + i] = kids[i]
  BY <1>0, AddShape
<1>2. Return(P, cur)  OBVIOUS
<1> HIDE DEF P
<1>3. goal.flag = "?" /\ SameLinks(goal, ps[cur]) /\ goal.kids = new
  BY DEF Adds
<1>4. outcome' = "running"  BY <1>1, <1>2, <1>3 DEF Return, Ending
<1>5. ps' = P  BY <1>2, <1>4 DEF Return
<1>6. Placed(P[cur], ps[cur])  BY <1>1, <1>3 DEF Placed
<1>7. \A m \in DOMAIN ps \ {cur} : SameGoal(P[m], ps[m])
  BY <1>1 DEF SameGoal, Placed, SameLinks
<1>8. ps[cur].kids = {}  BY DEF Empty
<1>9. CASE k = 0
  <2>1. new = {} /\ DOMAIN P = DOMAIN ps  BY <1>0, <1>1, <1>9
  <2>2. SameGoal(P[cur], ps[cur])  BY <1>0, <1>1, <1>3, <1>6, <1>8, <2>1 DEF SameGoal
  <2>3. Alike(ps, P)  BY <1>7, <2>1, <2>2 DEF Alike
  <2> QED BY <1>4, <1>5, <2>3 DEF Shaped
<1>10. CASE k # 0
  <2>1. DOMAIN P = DOMAIN ps \cup new /\ new \cap DOMAIN ps = {}
    BY <1>0, <1>1
  <2>2. new # {}
    <3>1. len + 1 \in new  BY <1>0, <1>10
    <3> QED BY <3>1
  <2>3. new \in SUBSET (1..MaxNodes)
    <3>1. MaxNodes \in Nat  BY EngineAssumption DEF EngineAssumption
    <3>2. \A j \in new : j \in 1..MaxNodes  BY <1>0, <3>1
    <3> QED BY <3>2
  <2>4. ASSUME NEW j \in new
        PROVE  /\ P[j].parent = cur /\ P[j].above = ps[cur].above \cup {cur}
               /\ P[j].kids = {} /\ P[j].flag # "!"
    <3>1. j - len \in 1..k /\ len + (j - len) = j  BY <1>0
    <3>2. P[j] = kids[j - len]  BY <1>1, <3>1
    <3>3. /\ kids[j - len].parent = cur /\ kids[j - len].above = ps[cur].above \cup {cur}
          /\ Empty(kids[j - len]) /\ kids[j - len].flag = "fresh"
      BY <3>1 DEF Adds
    <3> QED BY <3>2, <3>3 DEF Empty
  <2>5. Grows(ps, P, cur, new)
    BY <1>0, <1>1, <1>3, <1>6, <1>7, <1>8, <2>1, <2>2, <2>4 DEF Grows, SameBut
  <2> HIDE DEF new
  <2> QED BY <1>4, <1>5, <2>3, <2>5 DEF Shaped
<1> QED BY <1>9, <1>10

LEMMA SubgoalsShaped ==
  ASSUME AtRefine, NEW s \in NextSteps, NEW o \in OutcomesOf(s), RuleSubgoals(s, o)
  PROVE  Shaped
<1> DEFINE n == Len(ps)
           k == Len(o.axioms)
           refs == ps[cur].deps \cup o.refs
           rem == [i \in 1..k |-> n + i]
           new == (n + 1)..(n + k)
           goal == [ps[cur] EXCEPT !.strategy = AfterRule(s), !.flag = "?",
                                   !.rule = RuleOf(s), !.deps = refs \cup o.tccs,
                                   !.remaining = rem, !.kids = new,
                                   !.uses = o.refs \cup o.tccs]
           new1(i) == NewProofstate(n + i, cur, goal, FALSE,
                        IF k = 1 THEN 1 ELSE i, o.axioms[i], Expr(s.then))
           kid(i) == [new1(i) EXCEPT !.deps = refs]
           kids == [i \in 1..k |-> kid(i)]
<1>1. /\ ps[cur] \in Proofstate(Nodes) /\ cur \in Nodes /\ NoNode \notin Nodes
      /\ s \in Steps
  BY StepFacts, CurType DEF AtRefine
<1>2. k \in Nat
  <2>1. o.axioms \in Seq(BOOLEAN)
    BY <1>1, StepFields, OutcomeFields DEF RuleSubgoals
  <2> QED BY <2>1
<1>3. Return([ps EXCEPT ![cur] = goal] \o kids, cur) /\ n + k <= MaxNodes
  BY DEF RuleSubgoals
<1>4. /\ SameLinks(goal, ps[cur]) /\ goal.flag = "?"
      /\ goal.done = ps[cur].done /\ goal.pending = ps[cur].pending
      /\ goal.current = ps[cur].current /\ goal.axiom = ps[cur].axiom
      /\ goal.remaining = rem /\ goal.kids = new
  BY <1>1 DEF Proofstate, SameLinks
<1>5. ASSUME NEW i \in 1..k
      PROVE  /\ kid(i).parent = cur /\ kid(i).above = ps[cur].above \cup {cur}
             /\ kid(i).goal \in {ps[cur].goal, n + i}
             /\ kid(i).flag = "fresh" /\ Empty(kid(i))
  BY <1>1, <1>4 DEF NewProofstate, SameLinks, Empty
<1>6. Empty(ps[cur])  BY EmptyOrStuck DEF AtRefine
<1> HIDE DEF goal, kid
<1>7. kids \in Seq({kid(i) : i \in 1..k}) /\ Len(kids) = k
      /\ \A i \in 1..k : kids[i] = kid(i)
  BY <1>2
<1> HIDE DEF kids
<1>8. Adds(goal, kids, n, k)  BY <1>4, <1>5, <1>7 DEF Adds
<1> HIDE DEF k
<1> QED BY <1>2, <1>3, <1>4, <1>6, <1>7, <1>8, AddShaped

LEMMA StrategyStepShaped ==
  ASSUME AtRefine, NEW s \in NextSteps, StrategyStep(s)
  PROVE  Shaped
<1> DEFINE n == Len(ps)
           rem == <<n + 1>>
           goal == [ps[cur] EXCEPT !.strategy = Object(s), !.flag = "?",
                                   !.remaining = rem, !.kids = {n + 1}]
           copy == NewProofstate(n + 1, cur, goal, TRUE, 1, FALSE, Expr(s.top))
           kids == <<copy>>
<1>1. /\ ps[cur] \in Proofstate(Nodes) /\ cur \in Nodes /\ NoNode \notin Nodes
      /\ n \in Nat
  BY StepFacts, NodeFacts DEF AtRefine, TreeInv
<1>2. Return([ps EXCEPT ![cur] = goal] \o kids, cur) /\ n < MaxNodes
  BY DEF StrategyStep
<1>3. /\ SameLinks(goal, ps[cur]) /\ goal.flag = "?"
      /\ goal.done = ps[cur].done /\ goal.pending = ps[cur].pending
      /\ goal.current = ps[cur].current /\ goal.axiom = ps[cur].axiom
      /\ goal.remaining = rem /\ goal.kids = {n + 1}
  BY <1>1 DEF Proofstate, SameLinks
<1>4. /\ copy.parent = cur /\ copy.above = ps[cur].above \cup {cur}
      /\ copy.goal = ps[cur].goal /\ copy.flag = "fresh" /\ Empty(copy)
  BY <1>1, <1>3 DEF NewProofstate, SameLinks, Empty
<1>5. Empty(ps[cur])  BY EmptyOrStuck DEF StrategyStep, AtRefine
<1> HIDE DEF goal, copy
<1>6. kids \in Seq({copy}) /\ Len(kids) = 1 /\ kids[1] = copy  OBVIOUS
<1>7. rem = [i \in 1..1 |-> n + i] /\ {n + 1} = (n + 1)..(n + 1)  BY <1>1
<1>8. n + 1 <= MaxNodes
  <2>1. MaxNodes \in Nat  BY EngineAssumption DEF EngineAssumption
  <2> QED BY <1>1, <1>2, <2>1
<1> HIDE DEF kids
<1>9. Adds(goal, kids, n, 1)  BY <1>3, <1>4, <1>6, <1>7 DEF Adds
<1> QED BY <1>2, <1>3, <1>5, <1>6, <1>8, <1>9, AddShaped

LEMMA StepGoalShaped ==
  ASSUME NoUndoUndo, RInv, StepGoal
  PROVE  Shaped
<1>0. AtRefine
  BY DEF AtRefine, AtStep, AtWhole, AtGoal, RInv, WInv, StepGoal, AtFreshGoal
<1>1. CASE Abort  BY <1>0, <1>1, AbortShaped
<1>2. CASE ~ Abort
  <2>1. PICK s \in NextSteps :
             \/ \E o \in OutcomesOf(s) :
                  RuleProves(s, o) \/ RuleSubgoals(s, o) \/ RuleNoChange(s, o)
             \/ Skip(s) \/ RuleFails(s) \/ RulePostpones(s)
             \/ StrategyStep(s) \/ Quit(s)
             \/ UndoTo(s) \/ UndoRefused(s) \/ UndoUndo(s)
    BY <1>2 DEF StepGoal
  <2>2. TypeOK  BY <1>0, StepFacts DEF AtRefine
  <2>3. ~ UndoUndo(s)
    BY <2>2, CurType DEF UndoUndo, NoUndoUndo, IsRule, RuleOf, Steps
  <2> QED BY <1>0, <2>1, <2>3, LeafStepsShaped, SubgoalsShaped, StrategyStepShaped,
             QuitShaped, UndoToShaped
<1> QED BY <1>1, <1>2

-----------------------------------------------------------------------------
(* The other steps.                                                        *)

LEMMA TakeSubgoalShaped ==
  ASSUME RInv, TakeSubgoal
  PROVE  Shaped
<1> DEFINE p == ps[cur]
           sub == Head(p.remaining)
           v == [p EXCEPT !.remaining = Tail(p.remaining), !.current = sub]
<1>0. AtStep  BY DEF AtStep, TakeSubgoal, Working
<1>1. /\ p \in Proofstate(Nodes) /\ cur \in Nodes /\ DOMAIN ps = Nodes
      /\ cur \in Ancestors(cur) /\ p.flag = "?"
  BY <1>0, StepFacts DEF TakeSubgoal, Working
<1>2. Return([ps EXCEPT ![cur] = v], sub)  BY DEF TakeSubgoal
<1>3. Placed(v, p) /\ v.kids = p.kids /\ v.flag = "?"
  BY <1>1 DEF Proofstate, Placed, SameLinks
<1> HIDE DEF v, sub
<1>4. ps' = [ps EXCEPT ![cur] = v]  BY <1>1, <1>2, <1>3, PlainReturn
<1>5. SameGoal(v, ps[cur])  BY <1>1, <1>3 DEF SameGoal
<1>6. Alike(ps, ps')  BY <1>1, <1>4, <1>5, OneAlike
<1>7. outcome' # "qed"
  <2>1. [ps EXCEPT ![cur] = v][cur] = v  BY <1>1
  <2> QED BY <1>2, <1>3, <2>1 DEF Return, Ending
<1> QED BY <1>6, <1>7 DEF Shaped

LEMMA SuccessStepShaped ==
  ASSUME RInv, SuccessStep
  PROVE  Shaped
<1> DEFINE p == ps[cur]
           d == AllDeps(p)
           v == [p EXCEPT !.flag = "!", !.current = NoNode, !.deps = d]
<1>0. AtStep /\ Settled(p) /\ p.flag = "?" /\ p.remaining = <<>> /\ p.pending = <<>>
  BY DEF AtStep, SuccessStep, Working, AllDone, RInv, WInv, IInv
<1>1. /\ p \in Proofstate(Nodes) /\ cur \in Nodes /\ DOMAIN ps = Nodes
      /\ TreeInv(ps)
  BY <1>0, StepFacts
<1>2. Return([ps EXCEPT ![cur] = v], cur)  BY DEF SuccessStep
<1> HIDE DEF d
<1>3. Placed(v, p) /\ v.kids = p.kids /\ v.flag = "!"
  BY <1>1 DEF Proofstate, Placed, SameLinks
<1>4. \A k \in p.kids : ps[k].flag = "!"
  <2>1. Local(ps, cur, p)  BY <1>1 DEF TreeInv
  <2>2. Waiting(p) = {}  BY <1>0 DEF Waiting, Elems
  <2>3. p.current \in p.done \cup {NoNode} /\ NoNode \notin p.kids
    BY <1>0, <1>1, TreeTypes, NodeFacts DEF TreeInv, Settled, Active
  <2>4. p.kids \subseteq p.done
    BY <1>0, <2>1, <2>2, <2>3 DEF Local, Lists, Active
  <2> QED BY <2>1, <2>4 DEF Local, Subgoals
<1> HIDE DEF v
<1>5. ps' = [ps EXCEPT ![cur] = v]  BY <1>1, <1>2, <1>3, PlainReturn
<1>6. Closes(ps, ps', cur)  BY <1>0, <1>1, <1>3, <1>4, <1>5, OneCloses
<1>7. outcome' = IF cur = Root THEN "qed" ELSE "running"
  <2>1. [ps EXCEPT ![cur] = v][cur] = v  BY <1>1
  <2> QED BY <1>2, <1>3, <2>1 DEF Return, Ending
<1> QED BY <1>6, <1>7 DEF Shaped

LEMMA ReportShaped ==
  ASSUME AtStep, NEW P, Alike(ps, P), \A n \in Nodes : P[n] \in Proofstate(Nodes),
         P[cur].flag \in {"*", "X", "XX", "!"}, Return(Report(P, cur), Above(cur)),
         cur # Root => P[ps[cur].parent] = ps[ps[cur].parent]
  PROVE  Shaped
<1>0. /\ TreeInv(ps) /\ PathTo(ps, cur) /\ DOMAIN ps = Nodes /\ DOMAIN P = Nodes
      /\ cur \in Nodes /\ Root \in Nodes /\ NoNode \notin Nodes
      /\ cur \in Ancestors(cur) /\ ps[Root].flag # "!"
      /\ P[cur].parent = ps[cur].parent
  BY StepFacts DEF Alike, SameGoal, Placed, SameLinks
<1>1. CASE cur = Root
  <2>1. P[cur].parent = NoNode  BY <1>0, <1>1, LinkFacts
  <2>2. CASE P[Root].flag = "*"
    <3> DEFINE sl == Expr(P[Root].strategy.step.then)
               v == [P[Root] EXCEPT !.flag = "fresh", !.strategy = sl]
    <3>1. P[Root] \in Proofstate(Nodes)  BY <1>0
    <3>2. sl \in Slot  BY <3>1, Fields
    <3>3. Return([P EXCEPT ![Root] = v], Above(cur))
      BY <1>1, <2>1, <2>2 DEF Report, AtRoot
    <3> HIDE DEF sl
    <3>4. v \in Proofstate(Nodes)  BY ZenonT(60), <3>1, <3>2 DEF Proofstate, Flag
    <3>5. SameGoal(v, P[Root]) /\ Placed(v, P[Root])
      BY <2>2, <3>1 DEF Proofstate, SameGoal, Placed, SameLinks
    <3> HIDE DEF v
    <3> QED BY <1>0, <1>1, <3>1, <3>3, <3>4, <3>5, OneShaped
  <2>3. CASE P[Root].flag # "*"
    <3>1. Return(P, Above(cur))  BY <1>1, <2>1, <2>3 DEF Report, AtRoot
    <3>2. Alike(P, ps') /\ outcome' = IF cur = Root THEN Ending(P[Root]) ELSE "running"
      BY <1>0, <3>1, ReturnAlike
    <3>3. P[Root].flag # "!"  BY <1>0 DEF Alike, SameGoal
    <3>4. Alike(ps, ps')  BY <1>0, <3>2, Through
    <3> QED BY <3>2, <3>3, <3>4 DEF Shaped, Ending
  <2> QED BY <2>2, <2>3
<1>2. CASE cur # Root
  <2> DEFINE par == ps[cur].parent
             p == P[par]
  <2>1. /\ par \in Nodes /\ par \in Ancestors(cur) /\ par # NoNode
        /\ p = ps[par] /\ p.flag = "?"
    BY <1>0, <1>2, LinkFacts DEF PathTo, Ancestors
  <2>2. p \in Proofstate(Nodes)  BY <2>1
  <2>3. ASSUME NEW v, Report(P, cur) = [P EXCEPT ![par] = v], Placed(v, p),
               v.flag # "!", v.kids \in {p.kids, {}}
        PROVE  Shaped
    <3>1. SameGoal(v, p) \/ v.kids = {}  BY <2>1, <2>3 DEF SameGoal
    <3> HIDE DEF par
    <3> QED BY <1>2, <2>1, <2>3, <3>1, OneShaped
  <2> DEFINE el == Else(P, par)
  <2> HIDE DEF el
  <2>4. CASE P[cur].flag = "!"
    <3> DEFINE v == [p EXCEPT !.done = p.done \cup {cur}]
    <3>1. Report(P, cur) = [P EXCEPT ![par] = v]
      BY <1>0, <2>1, <2>4 DEF Report, Done
    <3>2. Placed(v, p) /\ v.flag = "?" /\ v.kids = p.kids
      <4> HIDE DEF p
      <4> QED BY <2>1, <2>2 DEF Proofstate, Placed, SameLinks
    <3> HIDE DEF v
    <3> QED BY <2>3, <3>1, <3>2
  <2>5. CASE P[cur].flag \in {"X", "XX"}
    <3>1. Report(P, cur) = Failure(P, par, P[cur].flag)
      BY <1>0, <2>1, <2>5 DEF Report
    <3>2. CASE el = Nil \/ P[cur].flag = "XX"
      <4> DEFINE v == [p EXCEPT !.flag = "X"]
      <4>1. Report(P, cur) = [P EXCEPT ![par] = v]  BY <3>1, <3>2 DEF Failure, el
      <4>2. Placed(v, p) /\ v.flag = "X" /\ v.kids = p.kids
        <5> HIDE DEF p
        <5> QED BY <2>2 DEF Proofstate, Placed, SameLinks
      <4> HIDE DEF v
      <4> QED BY <2>3, <4>1, <4>2
    <3>3. CASE ~ (el = Nil \/ P[cur].flag = "XX")
      <4> DEFINE v == [Cleared(p) EXCEPT !.strategy = el]
      <4>1. Report(P, cur) = [P EXCEPT ![par] = v]  BY <3>1, <3>3 DEF Failure, el
      <4>2. SameLinks(v, p) /\ Empty(v) /\ v.flag = "fresh" /\ v.axiom = p.axiom
        <5> HIDE DEF p
        <5> QED BY <2>2, ClearedFields, ClearedWhole, ClearedAxiom
      <4> HIDE DEF v
      <4>3. Placed(v, p) /\ v.kids = {}  BY <4>2 DEF Placed, Empty
      <4> QED BY <2>3, <4>1, <4>2, <4>3
    <3> QED BY <3>2, <3>3
  <2>6. CASE P[cur].flag = "*" /\ P[cur].strat /\ P[cur].pending = <<>>
    <3> DEFINE v == [p EXCEPT !.flag = "fresh", !.strategy = el,
                              !.current = NoNode, !.kids = {}]
    <3>1. Report(P, cur) = [P EXCEPT ![par] = v]
      BY <1>0, <2>1, <2>6 DEF Report, Nothing, el
    <3>2. Placed(v, p) /\ v.flag = "fresh" /\ v.kids = {}
      <4> HIDE DEF p
      <4> QED BY <2>2 DEF Proofstate, Placed, SameLinks
    <3> HIDE DEF v
    <3> QED BY <2>3, <3>1, <3>2
  <2>7. CASE P[cur].flag = "*" /\ ~ (P[cur].strat /\ P[cur].pending = <<>>)
    <3> DEFINE v == [p EXCEPT !.pending = <<cur>> \o p.pending, !.current = NoNode]
    <3>1. Report(P, cur) = [P EXCEPT ![par] = v]
      BY <1>0, <2>1, <2>7 DEF Report, Postponed
    <3>2. Placed(v, p) /\ v.flag = "?" /\ v.kids = p.kids
      <4> HIDE DEF p
      <4> QED BY <2>1, <2>2 DEF Proofstate, Placed, SameLinks
    <3> HIDE DEF v
    <3> QED BY <2>3, <3>1, <3>2
  <2> QED BY <2>4, <2>5, <2>6, <2>7
<1> QED BY <1>1, <1>2

LEMMA NextProofstateShaped ==
  ASSUME RInv, NextProofstate
  PROVE  Shaped
<1>1. AtStep  BY DEF AtStep, NextProofstate
<1>2. \A n \in Nodes : ps[n] \in Proofstate(Nodes)
  BY <1>1, StepFacts, NodeFacts DEF TreeInv
<1>3. Alike(ps, ps)  BY SelfAlike
<1> QED BY <1>1, <1>2, <1>3, ReportShaped DEF NextProofstate

LEMMA PostponeGoalShaped ==
  ASSUME RInv, PostponeGoal
  PROVE  Shaped
<1> DEFINE p == ps[cur]
           v == [p EXCEPT !.flag = "*"]
           P == [ps EXCEPT ![cur] = v]
<1>0. AtStep  BY DEF AtStep, PostponeGoal, Working
<1>1. /\ TreeInv(ps) /\ DOMAIN ps = Nodes /\ cur \in Nodes /\ p.flag = "?"
      /\ p \in Proofstate(Nodes)
      /\ \A n \in Nodes : ps[n] \in Proofstate(Nodes)
  BY <1>0, StepFacts, NodeFacts DEF PostponeGoal, Working, TreeInv
<1>2. Return(Report(P, cur), Above(cur))  BY DEF PostponeGoal
<1>3. v \in Proofstate(Nodes)
  <2>1. p \in Proofstate(Nodes) /\ "*" \in Flag  BY <1>1 DEF Flag
  <2> HIDE DEF p
  <2> QED BY <2>1 DEF Proofstate
<1>4. SameGoal(v, p) /\ v.flag = "*"
  BY <1>1 DEF Proofstate, SameGoal, Placed, SameLinks
<1> HIDE DEF v
<1>5. Alike(ps, P)  BY <1>1, <1>4, OneAlike
<1>6. cur # Root => ps[cur].parent \in Nodes /\ ps[cur].parent # cur
  BY <1>1, LinkFacts
<1>7. P[cur] = v /\ \A n \in Nodes \ {cur} : P[n] = ps[n]  BY <1>1
<1> HIDE DEF P
<1>8. \A n \in Nodes : P[n] \in Proofstate(Nodes)  BY <1>1, <1>3, <1>7
<1>9. cur # Root => P[ps[cur].parent] = ps[ps[cur].parent]  BY <1>6, <1>7
<1> QED BY <1>0, <1>2, <1>4, <1>5, <1>7, <1>8, <1>9, ReportShaped

LEMMA TransferStrategyShaped ==
  ASSUME RInv, TransferStrategy
  PROVE  Shaped
<1> DEFINE node == ps[cur]
           k == Len(node.pending)
           handed(n) ==
             IF ps[n].pending = <<>>
             THEN [ps[n] EXCEPT !.strategy = Expr(node.strategy.step.then), !.flag = "fresh"]
             ELSE [ps[n] EXCEPT !.strategy = node.strategy, !.flag = "?"]
           rem == [i \in 1..k |-> node.pending[k + 1 - i]]
           moved == [node EXCEPT !.remaining = rem, !.pending = <<>>,
                       !.strategy = IF cur = Root /\ RootKind[script] = "top" THEN @ ELSE Nil]
           P == [n \in Nodes |-> IF n = cur THEN moved
                                 ELSE IF n \in Elems(node.pending) THEN handed(n)
                                 ELSE ps[n]]
<1>0. AtStep  BY DEF AtStep, TransferStrategy, Working
<1>1. /\ TreeInv(ps) /\ DOMAIN ps = Nodes /\ cur \in Nodes /\ node.flag = "?"
      /\ node \in Proofstate(Nodes)
      /\ \A n \in Nodes : ps[n] \in Proofstate(Nodes)
  BY <1>0, StepFacts, NodeFacts DEF TransferStrategy, Working, TreeInv
<1>2. Return(P, cur)  BY DEF TransferStrategy
<1>3. Placed(moved, node) /\ moved.kids = node.kids /\ moved.flag = "?"
  <2>1. \E sl : moved = [node EXCEPT !.remaining = rem, !.pending = <<>>, !.strategy = sl]
    OBVIOUS
  <2>2. node.flag = "?"  BY <1>1
  <2> HIDE DEF moved, node, rem
  <2> QED BY <1>1, <2>1, <2>2 DEF Proofstate, Placed, SameLinks
<1>4. ASSUME NEW n \in Elems(node.pending), n \in Nodes
      PROVE  SameGoal(handed(n), ps[n])
  <2>1. ps[n].flag = "*"
    <3>1. Local(ps, cur, node)  BY <1>1 DEF TreeInv
    <3> QED BY <3>1 DEF Local, Subgoals
  <2>2. \E sl, f : f # "!" /\ handed(n) = [ps[n] EXCEPT !.strategy = sl, !.flag = f]
    <3>1. CASE ps[n].pending = <<>>
      <4>1. handed(n) = [ps[n] EXCEPT !.strategy = Expr(node.strategy.step.then),
                                      !.flag = "fresh"]
        BY <3>1
      <4>2. "fresh" # "!"  OBVIOUS
      <4> HIDE DEF handed
      <4> QED BY <4>1, <4>2
    <3>2. CASE ps[n].pending # <<>>
      <4>1. handed(n) = [ps[n] EXCEPT !.strategy = node.strategy, !.flag = "?"]
        BY <3>2
      <4>2. "?" # "!"  OBVIOUS
      <4> HIDE DEF handed
      <4> QED BY <4>1, <4>2
    <3> QED BY <3>1, <3>2
  <2> HIDE DEF handed
  <2> QED BY <1>1, <1>4, <2>1, <2>2 DEF Proofstate, SameGoal, Placed, SameLinks
<1> HIDE DEF moved, handed
<1>5. /\ P[cur] = moved /\ DOMAIN P = Nodes
      /\ \A n \in Nodes \ {cur} :
           P[n] = IF n \in Elems(node.pending) THEN handed(n) ELSE ps[n]
  BY <1>1
<1> HIDE DEF P
<1>6. \A n \in Nodes : SameGoal(ps[n], ps[n])  BY SelfAlike, <1>1 DEF Alike
<1>7. Alike(ps, P)
  <2>1. SameGoal(P[cur], ps[cur])  BY <1>1, <1>3, <1>5 DEF SameGoal
  <2> QED BY <1>1, <1>4, <1>5, <1>6, <2>1 DEF Alike
<1>8. ps' = P  BY <1>2, <1>3, <1>5, PlainReturn
<1>9. outcome' # "qed"  BY <1>2, <1>3, <1>5 DEF Return, Ending
<1> QED BY <1>7, <1>8, <1>9 DEF Shaped

-----------------------------------------------------------------------------
(* The theorem.                                                            *)

LEMMA NextShaped ==
  ASSUME NoUndoUndo, RInv, Next
  PROVE  Shaped \/ Ended
<1>1. CASE Propax  BY <1>1, PropaxShaped
<1>2. CASE StepGoal  BY <1>2, StepGoalShaped
<1>3. CASE TakeSubgoal  BY <1>3, TakeSubgoalShaped
<1>4. CASE SuccessStep  BY <1>4, SuccessStepShaped
<1>5. CASE NextProofstate  BY <1>5, NextProofstateShaped
<1>6. CASE PostponeGoal  BY <1>6, PostponeGoalShaped
<1>7. CASE TransferStrategy  BY <1>7, TransferStrategyShaped
<1> QED BY <1>1, <1>2, <1>3, <1>4, <1>5, <1>6, <1>7 DEF Next, Stepper

LEMMA StepperRuns ==
  ASSUME Stepper
  PROVE  outcome = "running"
  BY DEF Stepper, Propax, StepGoal, AtFreshGoal, TakeSubgoal, SuccessStep, Working,
         NextProofstate, PostponeGoal, TransferStrategy

LEMMA InitRefines == Init => RInv
<1> SUFFICES ASSUME Init PROVE ~ ps[Root].axiom /\ ps[Root].flag # "!"
  BY InitWhole DEF RInv
<1> DEFINE p == NewProofstate(Root, NoNode, NoProofstate, FALSE, 1, FALSE, Expr(script))
<1>1. ps = <<p>>  BY DEF Init
<1>2. ~ p.axiom /\ p.flag = "fresh"  BY DEF NewProofstate
<1> QED BY <1>1, <1>2 DEF Root

LEMMA RootPlaced ==
  ASSUME RInv, outcome = "running", Shaped
  PROVE  /\ ~ ps'[Root].axiom
         /\ outcome' = "running" => ps'[Root].flag # "!"
<1>1. Root \in Nodes /\ DOMAIN ps = Nodes /\ ps[Root].flag # "!" /\ ~ ps[Root].axiom
  BY StepFacts DEF AtStep, RInv
<1>2. CASE Alike(ps, ps')
  BY <1>1, <1>2 DEF Alike, SameGoal, Placed
<1>3. CASE Closes(ps, ps', cur) /\ outcome' = IF cur = Root THEN "qed" ELSE "running"
  BY <1>1, <1>3 DEF Closes, SameBut, SameGoal, Placed
<1>4. CASE \E m \in Ancestors(cur) : Clears(ps, ps', m)
  BY <1>1, <1>4 DEF Clears, SameBut, SameGoal, Placed
<1>5. CASE \E new \in SUBSET (1..MaxNodes) : Grows(ps, ps', cur, new)
  BY <1>1, <1>5 DEF Grows, SameBut, SameGoal, Placed
<1> QED BY <1>2, <1>3, <1>4, <1>5 DEF Shaped

LEMMA RefineKept ==
  ASSUME NoUndoUndo, RInv, [Next]_vars
  PROVE  RInv' /\ [Goals!Search]_(Goals!avars)
<1>1. WInv'  BY WholeKept DEF RInv
<1>2. CASE Stepper
  <2>1. outcome = "running"  BY <1>2, StepperRuns
  <2>2. Shaped
    <3>1. ~ Ended  BY <2>1 DEF Ended
    <3> QED BY <1>2, <3>1, NextShaped DEF Next
  <2>3. RInv'  BY <1>1, <2>1, <2>2, RootPlaced DEF RInv
  <2>4. CASE Alike(ps, ps') /\ outcome' # "qed"
    BY <2>1, <2>3, <2>4, AlikeSearch
  <2>5. CASE Closes(ps, ps', cur) /\ outcome' = IF cur = Root THEN "qed" ELSE "running"
    <3>1. PICK m : m = cur  OBVIOUS
    <3>2. Closes(ps, ps', m) /\ outcome' = IF m = Root THEN "qed" ELSE "running"
      BY <2>5, <3>1
    <3> QED BY <2>1, <2>3, <3>1, <3>2, ClosesSearch
  <2>6. CASE (\E m \in Ancestors(cur) : Clears(ps, ps', m)) /\ outcome' = "running"
    BY <2>1, <2>3, <2>6, ClearsSearch
  <2>7. CASE /\ \E new \in SUBSET (1..MaxNodes) : Grows(ps, ps', cur, new)
             /\ outcome' = "running"
    BY <2>1, <2>3, <2>7, GrowsSearch
  <2> QED BY <2>2, <2>4, <2>5, <2>6, <2>7 DEF Shaped
<1>3. CASE Ended \/ UNCHANGED vars
  <2>1. UNCHANGED vars  BY <1>3 DEF Ended
  <2>2. ps' = ps /\ outcome' = outcome  BY <2>1 DEF vars
  <2>3. RInv'  BY <1>1, <2>2 DEF RInv
  <2>4. Tree' = Tree  BY <2>2, Mapped DEF GoalsOf
  <2>5. UNCHANGED Goals!avars  BY <2>2, <2>4 DEF Goals!avars
  <2> QED BY <2>3, <2>5
<1> QED BY <1>2, <1>3 DEF Next

LEMMA InitSearch == Init => Goals!Start
<1> SUFFICES ASSUME Init PROVE Goals!Start  OBVIOUS
<1> DEFINE p == NewProofstate(Root, NoNode, NoProofstate, FALSE, 1, FALSE, Expr(script))
<1>1. ps = <<p>> /\ outcome = "running"  BY DEF Init
<1>2. p.above = {} /\ p.kids = {} /\ p.flag = "fresh"
  BY DEF NewProofstate, NoProofstate, NoNode
<1> HIDE DEF p
<1>3. DOMAIN ps = {Root} /\ ps[Root] = p  BY <1>1 DEF Root
<1>4. Tree = {Root}  BY <1>2, <1>3 DEF Tree, Nodes, Ancestors
<1>5. [n \in Tree |-> ps[n].kids] = [g \in {Root} |-> {}]  BY <1>2, <1>3, <1>4
<1>6. {n \in Tree : ps[n].flag = "!"} = {}  BY <1>2, <1>3, <1>4
<1> QED BY <1>1, <1>5, <1>6 DEF Goals!Start

(* The engine implements the abstract search for a proof                   *)
(* (ImplementsProofSearch), for every strategy language without (undo      *)
(* undo), every behaviour of the rules, every use of undo, fail, postpone, *)
(* quit and interrupts.                                                    *)
THEOREM Implements ==
  ASSUME NoUndoUndo
  PROVE  Spec => ImplementsProofSearch
<1>1. RInv /\ [Next]_vars => RInv' /\ [Goals!Search]_(Goals!avars)  BY RefineKept
<1> QED BY <1>1, InitRefines, InitSearch, PTL
        DEF Spec, ImplementsProofSearch, Goals!SearchSpec
=============================================================================
