--------------------------- MODULE ProofTree_goals ---------------------------
(***************************************************************************)
(* Proof that no goal is lost, that the path to the current goal is        *)
(* intact, that Q.E.D. records every declaration used and that the rule    *)
(* apply returns the goals left open, again in every attempt without       *)
(* (undo undo).  The invariant of ProofTree_soundness says that a goal is  *)
(* in one of its parent's lists; this one says that nothing else is, and   *)
(* that a goal to which a step is applied has no traces of earlier work.   *)
(***************************************************************************)
EXTENDS ProofTree_soundness

(* The lists of a proofstate in work name goals of its last decomposition. *)
Listed(p) ==
  /\ p.flag \in Active =>
       p.done \cup Waiting(p) \cup ({p.current} \ {NoNode}) \subseteq p.kids
  /\ p.done \cap Waiting(p) = {}

(* A fresh or postponed proofstate is empty, or was postponed because it   *)
(* has no strategy for its pending subgoals; none are left to be tried.    *)
Untraced(n, p) ==
  /\ p.flag = "fresh" => Empty(p) \/ (n = Root /\ p.strategy = Nil /\ p.pending # <<>>)
  /\ p.flag = "*" => Empty(p) \/ (p.strategy.step.then = None /\ p.pending # <<>>)
  /\ p.flag \in {"fresh", "*"} => p.remaining = <<>>

(* A strat-proofstate is an only child; a closed goal refers to what its   *)
(* subgoals refer to.                                                      *)
Below(P, p) ==
  /\ \A k \in p.kids : P[k].strat => p.kids = {k}
  /\ p.flag = "!" => \A k \in p.kids : P[k].deps \subseteq p.deps

Own(n, p) == Listed(p) /\ Untraced(n, p) /\ p.uses \subseteq p.deps
Whole(P) == \A n \in DOMAIN P : Own(n, P[n]) /\ Below(P, P[n])
WInv == IInv /\ Whole(ps)

-----------------------------------------------------------------------------
(* Changes of the tree.                                                    *)

LEMMA OneWhole ==
  ASSUME NEW P, TreeInv(P), Whole(P), NEW m \in DOMAIN P,
         m = Root \/ P[P[m].parent].flag = "?",
         NEW v, v.strat = P[m].strat, Own(m, v), Below(P, v)
  PROVE  Whole([P EXCEPT ![m] = v])
<1> DEFINE Q == [P EXCEPT ![m] = v]
<1>1. DOMAIN Q = DOMAIN P /\ Q[m] = v /\ \A n \in DOMAIN P \ {m} : Q[n] = P[n]
  OBVIOUS
<1> HIDE DEF Q
<1>2. \A k \in DOMAIN P : Q[k].strat = P[k].strat  BY <1>1
<1>3. ASSUME NEW n \in DOMAIN P, n # m PROVE Own(n, Q[n]) /\ Below(Q, Q[n])
  <2>1. Q[n] = P[n] /\ Own(n, P[n]) /\ Below(P, P[n])  BY <1>1, <1>3 DEF Whole
  <2>2. P[n].kids \subseteq DOMAIN P  BY TreeTypes DEF TreeInv
  <2>3. ASSUME P[n].flag = "!", NEW k \in P[n].kids PROVE Q[k].deps \subseteq P[n].deps
    <3>1. P[k].parent = n  BY DEF TreeInv, Local, Children
    <3>2. n # NoNode  BY NodeFacts DEF TreeInv
    <3>3. k # m  BY <2>3, <3>1, <3>2, LinkFacts
    <3> QED BY <1>1, <2>1, <2>2, <2>3, <3>3 DEF Below
  <2> QED BY <1>2, <2>1, <2>2, <2>3 DEF Below
<1>4. Own(m, Q[m]) /\ Below(Q, Q[m])
  <2>1. \A k : k \in DOMAIN P \/ Q[k] = P[k]  BY <1>1 DEF Q
  <2> QED BY <1>1, <1>2, <2>1 DEF Below
<1> QED BY <1>1, <1>3, <1>4 DEF Whole, Q

(* The root is marked as postponed when the rule apply returns.            *)
LEMMA ReturnWhole ==
  ASSUME NEW P, TreeInv(P), Whole(P), NEW next, Return(P, next)
  PROVE  Whole(ps')
<1> DEFINE v == [P[Root] EXCEPT !.flag = "*"]
<1>1. CASE outcome' # "subgoals"  BY <1>1 DEF Return
<1>2. CASE outcome' = "subgoals"
  <2>1. ps' = [P EXCEPT ![Root] = v]  BY <1>2 DEF Return
  <2>2. P[Root].flag \in {"fresh", "*"} /\ P[Root].strategy.expr = None
    BY <1>2 DEF Return, Ending
  <2>3. Root \in DOMAIN P /\ P[Root] \in Proofstate(DOMAIN P)
    BY NodeFacts DEF TreeInv
  <2>4. Own(Root, P[Root]) /\ Below(P, P[Root])  BY <2>3 DEF Whole
  <2>5. /\ v.flag = "*" /\ v.kids = P[Root].kids /\ v.done = P[Root].done
        /\ v.pending = P[Root].pending /\ v.remaining = P[Root].remaining
        /\ v.current = P[Root].current /\ v.strat = P[Root].strat
        /\ v.strategy = P[Root].strategy /\ v.uses = P[Root].uses
        /\ v.deps = P[Root].deps
    BY <2>3 DEF Proofstate
  <2> HIDE DEF v
  <2>6. Listed(v)  BY <2>2, <2>4, <2>5 DEF Own, Listed, Active, Waiting
  <2>7. Untraced(Root, v)
    <3>1. Nil.step.then = None  BY DEF Nil, Expr, Step
    <3> QED BY <2>2, <2>4, <2>5, <3>1 DEF Own, Untraced, Empty
  <2>8. Own(Root, v) /\ Below(P, v)  BY <2>4, <2>5, <2>6, <2>7 DEF Own, Below
  <2> QED BY <2>1, <2>3, <2>5, <2>8, OneWhole
<1> QED BY <1>1, <1>2

LEMMA StepWhole ==
  ASSUME NEW P, TreeInv(P), Whole(P), NEW c \in DOMAIN P, PathTo(P, c),
         NEW m \in P[c].above \cup {c}, NEW v \in Proofstate(DOMAIN P),
         SameLinks(v, P[m]), Local(P, m, v), m # c \/ P[c].flag # "!",
         v.strat = P[m].strat, Own(m, v), Below(P, v), NEW next,
         Return([P EXCEPT ![m] = v], next)
  PROVE  Whole(ps')
<1>1. /\ m \in DOMAIN P /\ P[m].flag # "!"
      /\ m = Root \/ (P[P[m].parent].flag = "?" /\ P[P[m].parent].current = m)
  BY OnPath
<1>2. TreeInv([P EXCEPT ![m] = v])  BY <1>1, OneNode
<1>3. Whole([P EXCEPT ![m] = v])  BY <1>1, OneWhole
<1> QED BY <1>2, <1>3, ReturnWhole

-----------------------------------------------------------------------------
(* The steps of a fresh goal.                                              *)
AtWhole == AtGoal /\ Whole(ps)

(* A goal without a strategy is postponed.                                 *)
LEMMA EmptyOrStuck ==
  ASSUME AtWhole, NEW s \in NextSteps
  PROVE  \/ Empty(ps[cur])
         \/ /\ s = Step(Call("postpone"), None, None)
            /\ IsRule(s) /\ RuleOf(s) = "postpone" /\ OutcomesOf(s) = {}
            /\ ps[cur].pending # <<>> /\ ps[cur].remaining = <<>>
<1>1. cur \in DOMAIN ps /\ ps[cur].flag = "fresh"
  BY DEF AtWhole, AtGoal, IInv, TypeOK, Nodes
<1>2. Own(cur, ps[cur])  BY <1>1 DEF AtWhole, Whole
<1>3. CASE ps[cur].strategy = Nil /\ ps[cur].pending # <<>>
  <2>1. Nil.expr = None /\ None # Evaluated  BY DEF Nil, Expr, None, Evaluated
  <2>2. s = Step(Call("postpone"), None, None)
    BY <1>3, <2>1 DEF NextSteps, Evaluate
  <2>3. s.top = Call("postpone")  BY <2>2 DEF Step
  <2>4. IsRule(s) /\ RuleOf(s) = "postpone"
    BY <2>3, EngineAssumption DEF EngineAssumption, IsRule, RuleOf
  <2>5. "postpone" \notin LogicRule
    BY EngineAssumption DEF EngineAssumption, ControlRule
  <2>6. ps[cur].remaining = <<>>  BY <1>1, <1>2 DEF Own, Untraced
  <2> QED BY <1>3, <2>2, <2>4, <2>5, <2>6 DEF OutcomesOf
<1> QED BY <1>1, <1>2, <1>3 DEF Own, Untraced

LEMMA LeafWhole ==
  ASSUME AtWhole, NEW v \in Proofstate(Nodes),
         SameLinks(v, ps[cur]), SameLists(v, ps[cur]), v.strat = ps[cur].strat,
         v.flag \in Active => v.kids = ps[cur].kids,
         Untraced(cur, v), v.uses \subseteq v.deps
  PROVE  Own(cur, v) /\ Below(ps, v) /\ Local(ps, cur, v)
<1>1. TreeInv(ps) /\ cur \in DOMAIN ps /\ ps[cur].flag = "fresh"
  BY DEF AtWhole, AtGoal, IInv, TypeOK, Nodes
<1>2. Own(cur, ps[cur]) /\ Below(ps, ps[cur])  BY <1>1 DEF AtWhole, Whole
<1>3. Listed(v)
  BY <1>1, <1>2 DEF Own, Listed, SameLists, Waiting, Active
<1>4. Below(ps, v)
  BY <1>1, <1>2 DEF Below, SameLists
<1>5. Local(ps, cur, v)  BY <1>1, SameLocal
<1> QED BY <1>3, <1>4, <1>5 DEF Own

LEMMA LeafStepWhole ==
  ASSUME AtWhole, NEW v \in Proofstate(Nodes),
         SameLinks(v, ps[cur]), SameLists(v, ps[cur]), v.strat = ps[cur].strat,
         v.flag \in Active => v.kids = ps[cur].kids,
         Untraced(cur, v), v.uses \subseteq v.deps,
         Return([ps EXCEPT ![cur] = v], cur)
  PROVE  Whole(ps')
<1>1. /\ TreeInv(ps) /\ cur \in DOMAIN ps /\ PathTo(ps, cur)
      /\ ps[cur].flag = "fresh" /\ DOMAIN ps = Nodes
  BY DEF AtWhole, AtGoal, IInv, TypeOK, Nodes
<1>2. Own(cur, v) /\ Below(ps, v) /\ Local(ps, cur, v)  BY LeafWhole
<1> QED BY <1>1, <1>2, StepWhole DEF AtWhole

LEMMA LeafStepsWhole ==
  ASSUME AtWhole, NEW s \in NextSteps
  PROVE  /\ \A o \in OutcomesOf(s) :
              (RuleProves(s, o) => Whole(ps')) /\ (RuleNoChange(s, o) => Whole(ps'))
         /\ Skip(s) => Whole(ps')
         /\ RuleFails(s) => Whole(ps')
         /\ RulePostpones(s) => Whole(ps')
         /\ UndoRefused(s) => Whole(ps')
<1>1. ps[cur] \in Proofstate(Nodes) /\ ps[cur].flag = "fresh" /\ s \in Steps
      /\ cur \in DOMAIN ps
  BY CurType DEF AtWhole, AtGoal, IInv, TypeOK, Nodes
<1>2. /\ ps[cur].deps \subseteq Decl /\ ps[cur].rule \in Rule \cup {NoRule, "propax"}
      /\ ps[cur].uses \subseteq ps[cur].deps
  BY <1>1, Fields DEF AtWhole, Whole, Own
<1>3. ASSUME NEW o \in OutcomesOf(s), RuleProves(s, o) PROVE Whole(ps')
  <2>1. RuleOf(s) \in Rule /\ Object(s) \in Slot /\ o.refs \subseteq Decl
    BY <1>1, <1>3, StepFields, OutcomeFields DEF OutcomesOf
  <2> DEFINE v == [ps[cur] EXCEPT !.strategy = Object(s), !.flag = "!",
                     !.rule = RuleOf(s), !.deps = ps[cur].deps \cup o.refs,
                     !.kids = {}, !.uses = o.refs]
  <2>2. v \in Proofstate(Nodes)  BY <1>1, <1>2, <2>1 DEF Proofstate, Flag
  <2>3. SameLinks(v, ps[cur]) /\ SameLists(v, ps[cur])  BY <1>1, LeafLists
  <2>4. /\ v.flag = "!" /\ v.strat = ps[cur].strat /\ v.uses = o.refs
        /\ v.deps = ps[cur].deps \cup o.refs
    BY <1>1 DEF Proofstate
  <2>5. Return([ps EXCEPT ![cur] = v], cur)  BY <1>3 DEF RuleProves
  <2> HIDE DEF v
  <2> QED BY <2>2, <2>3, <2>4, <2>5, LeafStepWhole DEF Active, Untraced
<1>4. ASSUME NEW refs \in SUBSET Decl, NoChange(s, refs), Empty(ps[cur])
      PROVE  Whole(ps')
  <2> DEFINE v == [ps[cur] EXCEPT !.strategy = Expr(s.else),
                                  !.deps = ps[cur].deps \cup refs]
  <2>1. v \in Proofstate(Nodes)  BY <1>1, <1>2, StepFields DEF Proofstate
  <2>2. SameLinks(v, ps[cur]) /\ SameLists(v, ps[cur])  BY <1>1, LeafLists
  <2>3. /\ v.flag = "fresh" /\ v.strat = ps[cur].strat /\ v.uses = ps[cur].uses
        /\ v.deps = ps[cur].deps \cup refs /\ v.kids = ps[cur].kids
    BY <1>1 DEF Proofstate
  <2>4. Return([ps EXCEPT ![cur] = v], cur)  BY <1>4 DEF NoChange
  <2> HIDE DEF v
  <2>5. Untraced(cur, v)  BY <1>4, <2>2, <2>3 DEF Untraced, Empty, SameLists
  <2> QED BY <1>2, <2>1, <2>2, <2>3, <2>4, <2>5, LeafStepWhole
<1>5. ASSUME NEW o \in OutcomesOf(s), RuleNoChange(s, o) PROVE Whole(ps')
  <2>1. o.refs \in SUBSET Decl  BY <1>1, StepFields, OutcomeFields
  <2>2. Empty(ps[cur])  BY EmptyOrStuck
  <2> QED BY <1>4, <1>5, <2>1, <2>2 DEF RuleNoChange
<1>6. Skip(s) => Whole(ps')  BY <1>4, EmptyOrStuck DEF Skip
<1>7. ASSUME NEW f \in {"XX", "*"},
             Return([ps EXCEPT ![cur] = [ps[cur] EXCEPT !.strategy = Object(s), !.flag = f]], cur),
             f = "XX" \/ RuleOf(s) = "postpone"
      PROVE  Whole(ps')
  <2> DEFINE v == [ps[cur] EXCEPT !.strategy = Object(s), !.flag = f]
  <2>1. v \in Proofstate(Nodes)  BY <1>1, StepFields DEF Proofstate, Flag
  <2>2. SameLinks(v, ps[cur]) /\ SameLists(v, ps[cur])  BY <1>1, LeafLists
  <2>3. /\ v.flag = f /\ v.strat = ps[cur].strat /\ v.uses = ps[cur].uses
        /\ v.deps = ps[cur].deps /\ v.kids = ps[cur].kids /\ v.strategy = Object(s)
    BY <1>1 DEF Proofstate
  <2>4. Return([ps EXCEPT ![cur] = v], cur)  BY <1>7
  <2> HIDE DEF v
  <2>5. Untraced(cur, v)
    <3>1. CASE Empty(ps[cur])
      BY <3>1, <2>2, <2>3 DEF Untraced, Empty, SameLists
    <3>2. CASE /\ s = Step(Call("postpone"), None, None)
               /\ ps[cur].pending # <<>> /\ ps[cur].remaining = <<>>
      BY <3>2, <2>2, <2>3 DEF Untraced, SameLists, Object, Step
    <3> QED BY <3>1, <3>2, EmptyOrStuck
  <2> QED BY <1>2, <2>1, <2>2, <2>3, <2>4, <2>5, LeafStepWhole
<1>8. RuleFails(s) => Whole(ps')  BY <1>7 DEF RuleFails
<1>9. RulePostpones(s) => Whole(ps')  BY <1>7 DEF RulePostpones
<1>10. ASSUME UndoRefused(s) PROVE Whole(ps')
  <2> DEFINE v == [ps[cur] EXCEPT !.strategy = Expr(QueryStep)]
  <2>1. v \in Proofstate(Nodes)  BY <1>1, SlotValues DEF Proofstate
  <2>2. SameLinks(v, ps[cur]) /\ SameLists(v, ps[cur])  BY <1>1, LeafLists
  <2>3. /\ v.flag = "fresh" /\ v.strat = ps[cur].strat /\ v.uses = ps[cur].uses
        /\ v.deps = ps[cur].deps /\ v.kids = ps[cur].kids
    BY <1>1 DEF Proofstate
  <2>4. Return([ps EXCEPT ![cur] = v], cur)  BY <1>10 DEF UndoRefused, AskAgain
  <2>5. Empty(ps[cur])  BY <1>10, EmptyOrStuck DEF UndoRefused
  <2> HIDE DEF v
  <2>6. Untraced(cur, v)  BY <2>2, <2>3, <2>5 DEF Untraced, Empty, SameLists
  <2> QED BY <1>2, <2>1, <2>2, <2>3, <2>4, <2>6, LeafStepWhole
<1> QED BY <1>3, <1>5, <1>6, <1>8, <1>9, <1>10

LEMMA PropaxWhole ==
  ASSUME WInv, Propax
  PROVE  Whole(ps')
<1> DEFINE v == [ps[cur] EXCEPT !.flag = "!", !.rule = "propax", !.kids = {}]
<1>1. AtWhole /\ TypeOK /\ cur \in DOMAIN ps
  BY DEF AtWhole, AtGoal, Propax, WInv, IInv, TypeOK, Nodes
<1>2. ps[cur] \in Proofstate(Nodes) /\ ps[cur].flag = "fresh"
  BY <1>1, CurType DEF AtWhole, AtGoal
<1>3. v \in Proofstate(Nodes)  BY <1>2 DEF Proofstate, Flag
<1>4. SameLinks(v, ps[cur]) /\ SameLists(v, ps[cur])  BY <1>2, LeafLists
<1>5. /\ v.flag = "!" /\ v.strat = ps[cur].strat /\ v.uses = ps[cur].uses
      /\ v.deps = ps[cur].deps
  BY <1>2 DEF Proofstate
<1>6. Return([ps EXCEPT ![cur] = v], cur)  BY DEF Propax
<1>7. ps[cur].uses \subseteq ps[cur].deps  BY <1>1 DEF AtWhole, Whole, Own
<1> HIDE DEF v
<1> QED BY <1>1, <1>3, <1>4, <1>5, <1>6, <1>7, LeafStepWhole DEF Active, Untraced

LEMMA QuitWhole ==
  ASSUME AtWhole, NEW s \in NextSteps, Quit(s)
  PROVE  Whole(ps')
<1> DEFINE v == [ps[cur] EXCEPT !.strategy = Object(s)]
<1>1. /\ ps[cur] \in Proofstate(Nodes) /\ ps[cur].flag = "fresh" /\ s \in Steps
      /\ TreeInv(ps) /\ cur \in DOMAIN ps /\ PathTo(ps, cur)
  BY CurType DEF AtWhole, AtGoal, IInv, TypeOK, Nodes
<1>2. v \in Proofstate(Nodes)  BY <1>1, StepFields DEF Proofstate
<1>3. SameLinks(v, ps[cur]) /\ SameLists(v, ps[cur])  BY <1>1, LeafLists
<1>4. /\ v.flag = "fresh" /\ v.strat = ps[cur].strat /\ v.uses = ps[cur].uses
      /\ v.deps = ps[cur].deps /\ v.kids = ps[cur].kids
  BY <1>1 DEF Proofstate
<1>5. ps' = [ps EXCEPT ![cur] = v]  BY DEF Quit
<1>6. Empty(ps[cur])  BY EmptyOrStuck DEF Quit
<1>7. ps[cur].uses \subseteq ps[cur].deps  BY <1>1 DEF AtWhole, Whole, Own
<1> HIDE DEF v
<1>8. Untraced(cur, v)  BY <1>3, <1>4, <1>6 DEF Untraced, Empty, SameLists
<1>9. Own(cur, v) /\ Below(ps, v)
  BY <1>2, <1>3, <1>4, <1>7, <1>8, LeafWhole
<1>10. cur = Root \/ ps[ps[cur].parent].flag = "?"  BY <1>1, OnPath
<1> QED BY <1>1, <1>4, <1>5, <1>9, <1>10, OneWhole DEF AtWhole

(* A proofstate with the traces of its work removed.                       *)
LEMMA ClearedWhole ==
  ASSUME NEW N, NEW p \in Proofstate(N), NEW sl
  PROVE  /\ LET v == [Cleared(p) EXCEPT !.strategy = sl]
            IN  v.uses = {} /\ v.flag = "fresh" /\ v.strat = p.strat
         /\ Undone(p).uses = {} /\ Undone(p).flag = "fresh" /\ Undone(p).strat = p.strat
<1> DEFINE c == Cleared(p)
<1>1. c.uses = {} /\ c.flag = "fresh" /\ c.strat = p.strat
  BY DEF Cleared, Proofstate
<1>2. c \in Proofstate(N)
  <2>1. <<>> \in Seq(N) /\ "fresh" \in Flag  BY DEF Flag
  <2> QED BY <2>1 DEF Cleared, Proofstate
<1>3. Undone(p) = [c EXCEPT !.rule = NoRule, !.deps = {}, !.strategy = Expr(QueryStep)]
  BY DEF Undone
<1> HIDE DEF c
<1>4. LET v == [c EXCEPT !.strategy = sl]
      IN  v.uses = {} /\ v.flag = "fresh" /\ v.strat = p.strat
  BY <1>1, <1>2 DEF Proofstate
<1>5. LET v == [c EXCEPT !.rule = NoRule, !.deps = {}, !.strategy = Expr(QueryStep)]
      IN  v.uses = {} /\ v.flag = "fresh" /\ v.strat = p.strat
  BY <1>1, <1>2 DEF Proofstate
<1> QED BY <1>3, <1>4, <1>5 DEF c

LEMMA EmptyWhole ==
  ASSUME NEW P, NEW n, NEW v, Empty(v), v.flag = "fresh", v.uses = {}
  PROVE  Own(n, v) /\ Below(P, v)
<1>1. Waiting(v) = {}  BY DEF Empty, Waiting, Elems
<1> QED BY <1>1 DEF Own, Listed, Untraced, Below, Empty, Waiting

LEMMA AbortWhole ==
  ASSUME AtWhole, Abort
  PROVE  Whole(ps')
<1> DEFINE g == NonStratParent(cur)
           v == [Cleared(ps[g]) EXCEPT !.strategy = Expr(QueryStep)]
<1>0. /\ TreeInv(ps) /\ cur \in DOMAIN ps /\ PathTo(ps, cur) /\ TypeOK
      /\ ps[cur].flag = "fresh" /\ DOMAIN ps = Nodes
  BY DEF AtWhole, AtGoal, IInv, TypeOK, Nodes
<1>1. g \in ps[cur].above \cup {cur} /\ g \in Nodes
  <2>1. g \in ps[cur].above \cup {cur}
    BY <1>0, LinkFacts DEF NonStratParent
  <2>2. ps[cur].above \subseteq Nodes /\ cur \in Nodes
    BY <1>0, LinkFacts DEF Nodes
  <2> QED BY <2>1, <2>2
<1>2. ps[g] \in Proofstate(Nodes)  BY <1>0, <1>1 DEF TypeOK, Nodes
<1>3. v \in Proofstate(Nodes)  BY <1>2, ClearedType, SlotValues
<1>4. SameLinks(v, ps[g]) /\ Empty(v)  BY <1>2, ClearedFields
<1>5. v.uses = {} /\ v.flag = "fresh" /\ v.strat = ps[g].strat
  BY <1>2, ClearedWhole
<1>6. Return([ps EXCEPT ![g] = v], g)  BY DEF Abort
<1> HIDE DEF v, g
<1>7. Local(ps, g, v)  BY <1>0, <1>1, <1>4, EmptyLocal DEF TreeInv
<1>8. Own(g, v) /\ Below(ps, v)  BY <1>4, <1>5, EmptyWhole
<1> QED BY <1>0, <1>1, <1>3, <1>4, <1>5, <1>6, <1>7, <1>8, StepWhole DEF AtWhole

LEMMA UndoToWhole ==
  ASSUME AtWhole, NEW s \in NextSteps, UndoTo(s)
  PROVE  Whole(ps')
<1> DEFINE u == [ps[cur] EXCEPT !.strategy = Object(s)]
           left == [ps EXCEPT ![cur] = u]
<1>0. TreeInv(ps) /\ cur \in DOMAIN ps /\ PathTo(ps, cur) /\ ps[cur].flag = "fresh"
      /\ DOMAIN ps = Nodes /\ TypeOK
  BY DEF AtWhole, AtGoal, IInv, TypeOK, Nodes
<1>1. PICK t \in Ancestors(cur) \ {cur} :
        Return([left EXCEPT ![t] = Undone(left[t])], t)
  BY DEF UndoTo
<1>2. ps[cur] \in Proofstate(Nodes) /\ s \in Steps  BY <1>0, CurType
<1>3. u \in Proofstate(Nodes)  BY <1>2, StepFields DEF Proofstate
<1>4. SameLinks(u, ps[cur]) /\ SameLists(u, ps[cur])
  BY <1>0, <1>2, LeafLists
<1>5. /\ u.flag = "fresh" /\ u.strat = ps[cur].strat /\ u.uses = ps[cur].uses
      /\ u.deps = ps[cur].deps /\ u.kids = ps[cur].kids
  BY <1>0, <1>2 DEF Proofstate
<1>6. Empty(ps[cur])  BY EmptyOrStuck DEF UndoTo
<1>7. ps[cur].uses \subseteq ps[cur].deps  BY <1>0 DEF AtWhole, Whole, Own
<1> HIDE DEF u
<1>8. Untraced(cur, u)  BY <1>4, <1>5, <1>6 DEF Untraced, Empty, SameLists
<1>9. Own(cur, u) /\ Below(ps, u) /\ Local(ps, cur, u)
  BY <1>3, <1>4, <1>5, <1>7, <1>8, LeafWhole
<1>10. cur = Root \/ (ps[ps[cur].parent].flag = "?" /\ ps[ps[cur].parent].current = cur)
  BY <1>0, OnPath
<1>11. TreeInv(left) /\ DOMAIN left = Nodes
  BY <1>0, <1>3, <1>4, <1>9, <1>10, OneNode
<1>12. Whole(left)  BY <1>0, <1>5, <1>9, <1>10, OneWhole DEF AtWhole
<1>13. left[cur] = u /\ \A n \in Nodes \ {cur} : left[n] = ps[n]  BY <1>0
<1> HIDE DEF left
<1>14. \A n \in Nodes : SameLinks(left[n], ps[n])  BY <1>4, <1>13 DEF SameLinks
<1>15. PathTo(left, cur)
  <2>1. \A n \in ps[cur].above : left[n] = ps[n]  BY <1>0, <1>13, LinkFacts
  <2> QED BY <1>0, <1>14, <2>1, PathPart
<1>16. t \in left[cur].above \cup {cur} /\ t \in Nodes
  <2>1. t \in left[cur].above \cup {cur}
    BY <1>0, <1>1, <1>14 DEF SameLinks, Ancestors
  <2>2. left[cur].above \subseteq DOMAIN left  BY <1>0, <1>11, LinkFacts
  <2> QED BY <1>0, <1>11, <2>1, <2>2
<1>17. left[t] \in Proofstate(Nodes)  BY <1>11, <1>16, NodeFacts DEF TreeInv
<1> DEFINE v == Undone(left[t])
<1>18. v \in Proofstate(Nodes)  BY <1>17, ClearedType, SlotValues
<1>19. SameLinks(v, left[t]) /\ Empty(v)  BY <1>17, ClearedFields
<1>20. v.uses = {} /\ v.flag = "fresh" /\ v.strat = left[t].strat
  BY <1>17, ClearedWhole
<1>21. Return([left EXCEPT ![t] = v], t)  BY <1>1
<1> HIDE DEF v
<1>22. Local(left, t, v)  BY <1>11, <1>16, <1>19, EmptyLocal DEF TreeInv
<1>23. Own(t, v) /\ Below(left, v)  BY <1>19, <1>20, EmptyWhole
<1> QED BY <1>0, <1>1, <1>11, <1>12, <1>15, <1>16, <1>18, <1>19, <1>20, <1>21, <1>22,
           <1>23, StepWhole

(* New subgoals, all of them fresh; a strat-proofstate comes alone.        *)
LEMMA AddWhole ==
  ASSUME AtWhole, TypeOK', NEW k \in Nat, NEW goal, NEW T, NEW kids \in Seq(T),
         Len(kids) = k, Adds(goal, kids, Len(ps), k),
         goal.strat = ps[cur].strat, goal.uses \subseteq goal.deps,
         \A i \in 1..k : kids[i].uses = {} /\ (kids[i].strat => k = 1),
         Empty(ps[cur]), Return([ps EXCEPT ![cur] = goal] \o kids, cur)
  PROVE  Whole(ps')
<1> DEFINE P == [ps EXCEPT ![cur] = goal] \o kids
           len == Len(ps)
<1>0. /\ TreeInv(ps) /\ cur \in DOMAIN ps /\ PathTo(ps, cur)
      /\ ps[cur].flag = "fresh" /\ DOMAIN ps = Nodes /\ TypeOK
      /\ DOMAIN ps = 1..len /\ len \in Nat
  <2>1. TreeInv(ps)  BY DEF AtWhole, AtGoal, IInv
  <2> QED BY <2>1, NodeFacts DEF AtWhole, AtGoal, IInv, TypeOK, Nodes, TreeInv
<1>1. /\ DOMAIN P = 1..(len + k)
      /\ P[cur] = goal
      /\ \A m \in DOMAIN ps \ {cur} : P[m] = ps[m]
      /\ \A i \in 1..k : P[len + i] = kids[i]
  BY <1>0, AddShape
<1>2. Return(P, cur)  OBVIOUS
<1> HIDE DEF P
<1>3. ps' = P
  <2>1. outcome' = "running"  BY <1>1, <1>2 DEF Return, Ending, Adds
  <2> QED BY <1>2, <2>1 DEF Return
<1>4. ASSUME NEW m \in DOMAIN ps, m # cur PROVE Own(m, P[m]) /\ Below(P, P[m])
  <2>1. P[m] = ps[m] /\ Own(m, ps[m]) /\ Below(ps, ps[m])
    BY <1>1, <1>4 DEF AtWhole, Whole
  <2>2. ps[m].kids \subseteq DOMAIN ps  BY <1>0, TreeTypes DEF TreeInv
  <2>3. \A j \in DOMAIN ps : P[j].strat = ps[j].strat  BY <1>1
  <2>4. ASSUME ps[m].flag = "!", NEW j \in ps[m].kids PROVE P[j] = ps[j]
    <3>1. ps[j].parent = m  BY <1>0 DEF TreeInv, Local, Children
    <3>2. m # NoNode  BY <1>0, NodeFacts DEF TreeInv
    <3>3. cur = Root \/ ps[ps[cur].parent].flag = "?"  BY <1>0, OnPath
    <3>4. j # cur  BY <1>0, <2>4, <3>1, <3>2, <3>3, LinkFacts
    <3> QED BY <1>1, <2>2, <2>4, <3>4
  <2> QED BY <2>1, <2>2, <2>3, <2>4 DEF Below
<1>5. Own(cur, P[cur]) /\ Below(P, P[cur])
  <2>1. /\ goal.done = {} /\ goal.pending = <<>> /\ goal.current = NoNode
        /\ goal.remaining = [i \in 1..k |-> len + i] /\ goal.flag = "?"
        /\ goal.kids = (len + 1)..(len + k)
    BY DEF Adds, Empty
  <2>2. Elems(goal.remaining) \subseteq goal.kids /\ Elems(goal.pending) = {}
    BY <1>0, <2>1 DEF Elems
  <2>3. Own(cur, goal)
    BY <2>1, <2>2 DEF Own, Listed, Waiting, Untraced
  <2>4. ASSUME NEW j \in goal.kids, P[j].strat PROVE goal.kids = {j}
    <3>1. j - len \in 1..k /\ len + (j - len) = j  BY <1>0, <2>1
    <3>2. k = 1  BY <1>1, <2>4, <3>1
    <3> QED BY <1>0, <2>1, <3>2
  <2> QED BY <1>1, <2>1, <2>3, <2>4 DEF Below
<1>6. ASSUME NEW i \in 1..k PROVE Own(len + i, P[len + i]) /\ Below(P, P[len + i])
  <2>1. Empty(kids[i]) /\ kids[i].flag = "fresh" /\ kids[i].uses = {}  BY DEF Adds
  <2> QED BY <1>1, <2>1, EmptyWhole
<1>7. \A m \in DOMAIN P : m \in DOMAIN ps \/ (m - len \in 1..k /\ len + (m - len) = m)
  BY <1>0, <1>1
<1>8. ASSUME NEW m \in DOMAIN P PROVE Own(m, P[m]) /\ Below(P, P[m])
  BY <1>4, <1>5, <1>6, <1>7
<1> QED BY <1>3, <1>8 DEF Whole

LEMMA SubgoalsWhole ==
  ASSUME AtWhole, TypeOK', NEW s \in NextSteps, NEW o \in OutcomesOf(s), RuleSubgoals(s, o)
  PROVE  Whole(ps')
<1> DEFINE n == Len(ps)
           k == Len(o.axioms)
           refs == ps[cur].deps \cup o.refs
           rem == [i \in 1..k |-> n + i]
           new == (n + 1)..(n + k)
           goal == [ps[cur] EXCEPT !.strategy = AfterRule(s), !.flag = "?",
                                   !.rule = RuleOf(s), !.deps = refs \cup o.tccs,
                                   !.remaining = rem, !.kids = new,
                                   !.uses = o.refs \cup o.tccs]
           new1(i) == NewProofstate(n + i, cur, goal, FALSE,
                        IF k = 1 THEN 1 ELSE i, o.axioms[i], Expr(s.then))
           kid(i) == [new1(i) EXCEPT !.deps = refs]
           kids == [i \in 1..k |-> kid(i)]
<1>1. ps[cur] \in Proofstate(Nodes) /\ cur \in Nodes /\ NoNode \notin Nodes /\ s \in Steps
  <2>1. TypeOK /\ Tree1(ps) BY DEF AtWhole, AtGoal, IInv, TreeInv
  <2> QED BY <2>1, CurType, NodeFacts DEF TypeOK, Nodes
<1>2. k \in Nat
  <2>1. o.axioms \in Seq(BOOLEAN)
    BY <1>1, StepFields, OutcomeFields DEF RuleSubgoals
  <2> QED BY <2>1
<1>3. Return([ps EXCEPT ![cur] = goal] \o kids, cur)  BY DEF RuleSubgoals
<1>4. /\ SameLinks(goal, ps[cur]) /\ goal.flag = "?"
      /\ goal.done = ps[cur].done /\ goal.pending = ps[cur].pending
      /\ goal.current = ps[cur].current
      /\ goal.remaining = rem /\ goal.kids = new
  BY <1>1 DEF Proofstate, SameLinks
<1>5. /\ goal.strat = ps[cur].strat
      /\ goal.uses = o.refs \cup o.tccs /\ goal.deps = refs \cup o.tccs
  BY <1>1 DEF Proofstate
<1>6. ASSUME NEW i \in 1..k
      PROVE  /\ kid(i).parent = cur /\ kid(i).above = ps[cur].above \cup {cur}
             /\ kid(i).goal \in {ps[cur].goal, n + i}
             /\ kid(i).flag = "fresh" /\ Empty(kid(i))
             /\ kid(i).uses = {} /\ kid(i).strat = FALSE
  BY <1>1, <1>4 DEF NewProofstate, SameLinks, Empty
<1>7. Empty(ps[cur])  BY EmptyOrStuck
<1> HIDE DEF goal, kid
<1>8. kids \in Seq({kid(i) : i \in 1..k}) /\ Len(kids) = k
      /\ \A i \in 1..k : kids[i] = kid(i)
  BY <1>2
<1> HIDE DEF kids
<1>9. Adds(goal, kids, n, k)  BY <1>4, <1>6, <1>8 DEF Adds
<1>10. \A i \in 1..k : kids[i].uses = {} /\ (kids[i].strat => k = 1)
  BY <1>6, <1>8
<1> HIDE DEF k
<1> QED BY <1>2, <1>3, <1>5, <1>7, <1>8, <1>9, <1>10, AddWhole

LEMMA StrategyStepWhole ==
  ASSUME AtWhole, TypeOK', NEW s \in NextSteps, StrategyStep(s)
  PROVE  Whole(ps')
<1> DEFINE n == Len(ps)
           rem == <<n + 1>>
           goal == [ps[cur] EXCEPT !.strategy = Object(s), !.flag = "?",
                                   !.remaining = rem, !.kids = {n + 1}]
           copy == NewProofstate(n + 1, cur, goal, TRUE, 1, FALSE, Expr(s.top))
           kids == <<copy>>
<1>0. TypeOK /\ Tree1(ps) /\ cur \in DOMAIN ps
  BY DEF AtWhole, AtGoal, IInv, TreeInv, TypeOK, Nodes
<1>1. ps[cur] \in Proofstate(Nodes) /\ cur \in Nodes /\ NoNode \notin Nodes /\ n \in Nat
  BY <1>0, CurType, NodeFacts DEF TypeOK, Nodes
<1>2. Return([ps EXCEPT ![cur] = goal] \o kids, cur)  BY DEF StrategyStep
<1>3. /\ SameLinks(goal, ps[cur]) /\ goal.flag = "?"
      /\ goal.done = ps[cur].done /\ goal.pending = ps[cur].pending
      /\ goal.current = ps[cur].current
      /\ goal.remaining = rem /\ goal.kids = {n + 1}
  BY <1>1 DEF Proofstate, SameLinks
<1>4. goal.strat = ps[cur].strat /\ goal.uses = ps[cur].uses /\ goal.deps = ps[cur].deps
  BY <1>1 DEF Proofstate
<1>5. /\ copy.parent = cur /\ copy.above = ps[cur].above \cup {cur}
      /\ copy.goal = ps[cur].goal /\ copy.flag = "fresh" /\ Empty(copy)
      /\ copy.uses = {}
  BY <1>1, <1>3 DEF NewProofstate, SameLinks, Empty
<1>6. Empty(ps[cur])  BY EmptyOrStuck DEF StrategyStep
<1>7. ps[cur].uses \subseteq ps[cur].deps  BY <1>0 DEF AtWhole, Whole, Own
<1> HIDE DEF goal, copy
<1>8. kids \in Seq({copy}) /\ Len(kids) = 1 /\ kids[1] = copy  OBVIOUS
<1>9. rem = [i \in 1..1 |-> n + i] /\ {n + 1} = (n + 1)..(n + 1)  BY <1>1
<1> HIDE DEF kids
<1>10. Adds(goal, kids, n, 1)  BY <1>3, <1>5, <1>8, <1>9 DEF Adds
<1>11. \A i \in 1..1 : kids[i].uses = {} /\ (kids[i].strat => 1 = 1)
  BY <1>5, <1>8
<1> QED BY <1>2, <1>4, <1>6, <1>7, <1>8, <1>10, <1>11, AddWhole

LEMMA StepGoalWhole ==
  ASSUME NoUndoUndo, WInv, TypeOK', StepGoal
  PROVE  Whole(ps')
<1>0. AtWhole /\ TypeOK
  BY DEF AtWhole, AtGoal, WInv, IInv, StepGoal, AtFreshGoal
<1>1. CASE Abort  BY <1>0, <1>1, AbortWhole
<1>2. CASE ~ Abort
  <2>1. PICK s \in NextSteps :
             \/ \E o \in OutcomesOf(s) :
                  RuleProves(s, o) \/ RuleSubgoals(s, o) \/ RuleNoChange(s, o)
             \/ Skip(s) \/ RuleFails(s) \/ RulePostpones(s)
             \/ StrategyStep(s) \/ Quit(s)
             \/ UndoTo(s) \/ UndoRefused(s) \/ UndoUndo(s)
    BY <1>2 DEF StepGoal
  <2>2. ~ UndoUndo(s)
    BY <1>0, CurType DEF UndoUndo, NoUndoUndo, IsRule, RuleOf, Steps
  <2> QED BY <1>0, <2>1, <2>2, LeafStepsWhole, SubgoalsWhole, StrategyStepWhole,
             QuitWhole, UndoToWhole
<1> QED BY <1>1, <1>2

-----------------------------------------------------------------------------
(* The other steps.                                                        *)

LEMMA TailElems ==
  ASSUME NEW N, NEW s \in Seq(N), s # <<>>
  PROVE  Elems(s) = Elems(Tail(s)) \cup {Head(s)}
<1>1. /\ Len(s) \in Nat /\ Len(s) >= 1 /\ Len(Tail(s)) = Len(s) - 1
      /\ Head(s) = s[1] /\ \A i \in 1..(Len(s) - 1) : Tail(s)[i] = s[i + 1]
  OBVIOUS
<1>2. ASSUME NEW x \in Elems(s) PROVE x \in Elems(Tail(s)) \cup {Head(s)}
  <2>1. PICK i \in 1..Len(s) : x = s[i]  BY DEF Elems
  <2>2. CASE i = 1  BY <1>1, <2>1, <2>2
  <2>3. CASE i # 1
    <3>1. i - 1 \in 1..(Len(s) - 1) /\ (i - 1) + 1 = i  BY <1>1, <2>3
    <3>2. x = Tail(s)[i - 1]  BY <1>1, <2>1, <3>1
    <3> QED BY <1>1, <3>1, <3>2 DEF Elems
  <2> QED BY <2>2, <2>3
<1>3. ASSUME NEW x \in Elems(Tail(s)) PROVE x \in Elems(s)
  <2>1. PICK i \in 1..(Len(s) - 1) : x = s[i + 1]  BY <1>1 DEF Elems
  <2>2. i + 1 \in 1..Len(s)  BY <1>1
  <2> QED BY <2>1, <2>2 DEF Elems
<1>4. Head(s) \in Elems(s)
  <2>1. 1 \in 1..Len(s)  BY <1>1
  <2> QED BY <1>1, <2>1 DEF Elems
<1> QED BY <1>2, <1>3, <1>4

LEMMA NoElems ==
  ASSUME NEW N, NEW s \in Seq(N), Elems(s) = {}
  PROVE  s = <<>>
<1>1. Len(s) \in Nat /\ \A i \in 1..Len(s) : s[i] \in Elems(s)  BY DEF Elems
<1>2. Len(s) = 0
  <2>1. Len(s) > 0 => 1 \in 1..Len(s)  BY <1>1
  <2> QED BY <1>1, <2>1
<1> QED BY <1>2

LEMMA PlainReturn ==
  ASSUME NEW P, NEW next, Return(P, next),
         cur = Root => P[Root].flag \notin {"fresh", "*"}
  PROVE  ps' = P
  BY DEF Return, Ending

(* A change that keeps the last decomposition.                             *)
LEMMA SameBelow ==
  ASSUME NEW P, NEW p, NEW v, Below(P, p), v.kids = p.kids, v.flag # "!"
  PROVE  Below(P, v)
  BY DEF Below

LEMMA TakeSubgoalWhole ==
  ASSUME WInv, TakeSubgoal
  PROVE  Whole(ps')
<1> DEFINE p == ps[cur]
           sub == Head(p.remaining)
           v == [p EXCEPT !.remaining = Tail(p.remaining), !.current = sub]
<1>0. /\ TreeInv(ps) /\ cur \in DOMAIN ps /\ PathTo(ps, cur) /\ Settled(p)
      /\ p.flag = "?" /\ DOMAIN ps = Nodes /\ Whole(ps)
      /\ p \in Proofstate(Nodes) /\ p.remaining # <<>>
  BY CurType DEF TakeSubgoal, Working, WInv, IInv, TypeOK, Nodes
<1>1. p.remaining \in Seq(Nodes)  BY <1>0, Fields
<1>2. v.strat = p.strat /\ v.flag = "?" /\ v.kids = p.kids /\ v.done = p.done
      /\ v.pending = p.pending /\ v.remaining = Tail(p.remaining) /\ v.current = sub
      /\ v.uses = p.uses /\ v.deps = p.deps
  BY <1>0 DEF Proofstate
<1>3. Return([ps EXCEPT ![cur] = v], sub)  BY DEF TakeSubgoal
<1>4. Elems(p.remaining) = Elems(Tail(p.remaining)) \cup {sub}
  <2> HIDE DEF p
  <2> QED BY <1>0, <1>1, TailElems
<1> HIDE DEF v, sub
<1>5. Waiting(p) = Waiting(v) \cup {sub}  BY <1>2, <1>4 DEF Waiting
<1>6. Own(cur, p) /\ Below(ps, p)  BY <1>0 DEF Whole
<1>7. Listed(v)  BY <1>0, <1>2, <1>5, <1>6 DEF Own, Listed, Active
<1>8. Own(cur, v) /\ Below(ps, v)
  BY <1>2, <1>6, <1>7, SameBelow DEF Own, Untraced
<1>9. ps' = [ps EXCEPT ![cur] = v]  BY <1>0, <1>2, <1>3, PlainReturn
<1>10. cur = Root \/ ps[ps[cur].parent].flag = "?"  BY <1>0, OnPath
<1>11. Whole([ps EXCEPT ![cur] = v])  BY <1>0, <1>2, <1>8, <1>10, OneWhole
<1> QED BY <1>9, <1>11

LEMMA SuccessStepWhole ==
  ASSUME WInv, SuccessStep
  PROVE  Whole(ps')
<1> DEFINE p == ps[cur]
           d == AllDeps(p)
           v == [p EXCEPT !.flag = "!", !.current = NoNode, !.deps = d]
<1>0. /\ TreeInv(ps) /\ cur \in Nodes /\ DOMAIN ps = Nodes /\ Settled(p)
      /\ p.flag = "?" /\ Whole(ps) /\ PathTo(ps, cur)
      /\ p \in Proofstate(Nodes) /\ p.remaining = <<>> /\ p.pending = <<>>
  BY CurType DEF SuccessStep, Working, AllDone, WInv, IInv, TypeOK, Nodes
<1>1. Return([ps EXCEPT ![cur] = v], cur)  BY DEF SuccessStep
<1>2. p.deps \subseteq d /\ \A k \in p.done : ps[k].deps \subseteq d
  BY DEF AllDeps
<1> HIDE DEF d
<1>3. /\ v.flag = "!" /\ v.kids = p.kids /\ v.done = p.done /\ v.strat = p.strat
      /\ v.pending = <<>> /\ v.remaining = <<>> /\ v.current = NoNode
      /\ v.uses = p.uses /\ v.deps = d
  BY <1>0 DEF Proofstate
<1> HIDE DEF v
<1>4. Local(ps, cur, p) /\ Own(cur, p) /\ Below(ps, p)  BY <1>0 DEF TreeInv, Whole
<1>5. Waiting(v) = {} /\ Waiting(p) = {}  BY <1>0, <1>3 DEF Waiting, Elems
<1>6. p.kids \subseteq p.done
  <2>1. p.current \in p.done \cup {NoNode} /\ NoNode \notin p.kids
    BY <1>0, TreeTypes, NodeFacts DEF TreeInv, Settled, Active
  <2> QED BY <1>0, <1>4, <1>5, <2>1 DEF Local, Lists, Active
<1>7. Own(cur, v)  BY <1>2, <1>3, <1>4, <1>5 DEF Own, Listed, Untraced, Active
<1>8. Below(ps, v)  BY <1>2, <1>3, <1>4, <1>6 DEF Below
<1>9. ps' = [ps EXCEPT ![cur] = v]  BY <1>0, <1>1, <1>3, PlainReturn
<1>10. cur = Root \/ ps[ps[cur].parent].flag = "?"  BY <1>0, OnPath
<1>11. Whole([ps EXCEPT ![cur] = v])  BY <1>0, <1>3, <1>7, <1>8, <1>10, OneWhole
<1> QED BY <1>9, <1>11

LEMMA ReportWhole ==
  ASSUME TypeOK, NEW P, TreeInv(P), Whole(P), DOMAIN P = Nodes, PathTo(P, cur),
         P[cur].parent = ps[cur].parent,
         P[cur].flag \in {"*", "X", "XX", "!"},
         Return(Report(P, cur), Above(cur))
  PROVE  Whole(ps')
<1>0. cur \in Nodes /\ Own(cur, P[cur])  BY DEF TypeOK, Whole
<1>1. CASE P[cur].parent = NoNode
  <2>1. cur = Root  BY <1>0, <1>1, NodeFacts, LinkFacts DEF TreeInv
  <2>2. CASE P[Root].flag = "*"
    <3> DEFINE sl == Expr(P[Root].strategy.step.then)
               v == [P[Root] EXCEPT !.flag = "fresh", !.strategy = sl]
    <3>1. P[Root] \in Proofstate(Nodes)  BY <1>0, <2>1, NodeFacts DEF TreeInv
    <3>2. sl \in Slot  BY <3>1, Fields
    <3>3. Return([P EXCEPT ![Root] = v], Above(cur))
      BY <1>1, <2>1, <2>2 DEF Report, AtRoot
    <3>4. P[Root].strategy.step.then = None => sl = Nil  BY DEF Nil
    <3> HIDE DEF sl
    <3>5. v \in Proofstate(Nodes)  BY ZenonT(60), <3>1, <3>2 DEF Proofstate, Flag
    <3>6. SameLinks(v, P[Root]) /\ SameLists(v, P[Root])
      BY <2>2, <3>1 DEF Proofstate, SameLinks, SameLists, Active
    <3>7. /\ v.flag = "fresh" /\ v.kids = P[Root].kids /\ v.strat = P[Root].strat
          /\ v.uses = P[Root].uses /\ v.deps = P[Root].deps /\ v.strategy = sl
      BY <3>1 DEF Proofstate
    <3> HIDE DEF v
    <3>8. Local(P, Root, v)  BY <1>0, <2>1, <3>6, SameLocal
    <3>9. Untraced(Root, v)
      BY <1>0, <2>1, <2>2, <3>4, <3>6, <3>7 DEF Own, Untraced, Empty, SameLists
    <3>10. Listed(v)
      BY <1>0, <2>1, <2>2, <3>6, <3>7 DEF Own, Listed, Active, SameLists, Waiting
    <3>11. Own(Root, v) /\ Below(P, v)
      BY <1>0, <2>1, <3>7, <3>9, <3>10, SameBelow DEF Own, Whole
    <3> QED BY <1>0, <2>1, <2>2, <3>3, <3>5, <3>6, <3>7, <3>8, <3>11, StepWhole
  <2>3. CASE P[Root].flag # "*"
    <3>1. Return(P, Above(cur))  BY <1>1, <2>1, <2>3 DEF Report, AtRoot
    <3> QED BY <3>1, ReturnWhole
  <2> QED BY <2>2, <2>3
<1>2. CASE P[cur].parent # NoNode
  <2> DEFINE par == P[cur].parent
             p == P[par]
  <2>1. cur # Root  BY <1>0, <1>2, LinkFacts
  <2>2. par \in Nodes /\ par \in P[cur].above /\ par # cur
    BY <1>0, <1>2, <2>1, LinkFacts
  <2>3. p \in Proofstate(Nodes) /\ NoNode \notin Nodes /\ p.pending \in Seq(Nodes)
    BY <2>2, NodeFacts, TreeTypes DEF TreeInv
  <2>4. p.flag = "?" /\ p.current = cur  BY <2>1 DEF PathTo
  <2>5. Local(P, par, p) /\ Own(par, p) /\ Below(P, p)  BY <2>2 DEF TreeInv, Whole
  <2>6. cur \in p.kids /\ cur # NoNode
    BY <1>0, <2>3, <2>4, <2>5 DEF Own, Listed, Active
  <2>7. cur \notin Waiting(p)  BY <2>4, <2>5 DEF Local, Lists
  <2>8. par = Root \/ P[P[par].parent].flag = "?"
    BY <1>0, <2>2, <2>4, OnPath
  <2>9. ASSUME NEW v, v.strat = p.strat, Own(par, v), Below(P, v),
               Report(P, cur) = [P EXCEPT ![par] = v]
        PROVE  Whole(ps')
    <3>1. Whole([P EXCEPT ![par] = v])  BY <2>2, <2>8, <2>9, OneWhole
    <3>2. Return([P EXCEPT ![par] = v], Above(cur))  BY <2>9
    <3>3. ps' = [P EXCEPT ![par] = v]
      BY <2>1, <3>2, PlainReturn
    <3> QED BY <3>1, <3>3
  <2>10. CASE P[cur].flag = "!"
    <3> DEFINE v == [p EXCEPT !.done = p.done \cup {cur}]
    <3>1. /\ v.flag = "?" /\ v.done = p.done \cup {cur} /\ v.strat = p.strat
          /\ v.pending = p.pending /\ v.remaining = p.remaining
          /\ v.current = p.current /\ v.kids = p.kids /\ v.uses = p.uses
          /\ v.deps = p.deps
      <4>1. p.flag = "?"  BY <2>4
      <4> HIDE DEF p, par
      <4> QED BY <2>3, <4>1 DEF Proofstate
    <3>2. Report(P, cur) = [P EXCEPT ![par] = v]  BY <1>2, <2>10 DEF Report, Done
    <3> HIDE DEF v
    <3>3. Listed(v)
      BY <2>4, <2>5, <2>6, <2>7, <3>1 DEF Own, Listed, Active, Waiting
    <3>4. Own(par, v)  BY <2>5, <3>1, <3>3 DEF Own, Untraced
    <3>5. Below(P, v)  BY <2>5, <3>1, SameBelow
    <3> QED BY <2>9, <3>1, <3>2, <3>4, <3>5
  <2>11. CASE P[cur].flag \in {"X", "XX"}
    <3>1. CASE Else(P, par) = Nil \/ P[cur].flag = "XX"
      <4> DEFINE v == [p EXCEPT !.flag = "X"]
      <4>1. /\ v.flag = "X" /\ v.done = p.done /\ v.strat = p.strat
            /\ v.pending = p.pending /\ v.remaining = p.remaining
            /\ v.current = p.current /\ v.kids = p.kids /\ v.uses = p.uses
            /\ v.deps = p.deps
        <5> HIDE DEF p, par
        <5> QED BY <2>3 DEF Proofstate
      <4>2. Report(P, cur) = [P EXCEPT ![par] = v]
        BY <1>2, <2>11, <3>1 DEF Report, Failure
      <4> HIDE DEF v
      <4>3. Own(par, v)
        BY <2>5, <4>1 DEF Own, Untraced, Listed, Active, Waiting
      <4>4. Below(P, v)  BY <2>5, <4>1, SameBelow
      <4> QED BY <2>9, <4>1, <4>2, <4>3, <4>4
    <3>2. CASE ~ (Else(P, par) = Nil \/ P[cur].flag = "XX")
      <4> DEFINE v == [Cleared(p) EXCEPT !.strategy = Else(P, par)]
      <4>1. Empty(v) /\ v.uses = {} /\ v.flag = "fresh" /\ v.strat = p.strat
        BY <2>3, ClearedFields, ClearedWhole
      <4>2. Report(P, cur) = [P EXCEPT ![par] = v]
        BY <1>2, <2>11, <3>2 DEF Report, Failure
      <4> HIDE DEF v
      <4>3. Own(par, v) /\ Below(P, v)  BY <4>1, EmptyWhole
      <4> QED BY <2>9, <4>1, <4>2, <4>3
    <3> QED BY <3>1, <3>2
  <2>12. CASE P[cur].flag = "*" /\ P[cur].strat /\ P[cur].pending = <<>>
    <3> DEFINE v == [p EXCEPT !.flag = "fresh", !.strategy = Else(P, par),
                              !.current = NoNode, !.kids = {}]
    <3>1. /\ v.flag = "fresh" /\ v.done = p.done /\ v.strat = p.strat
          /\ v.pending = p.pending /\ v.remaining = p.remaining
          /\ v.current = NoNode /\ v.kids = {} /\ v.uses = p.uses
          /\ v.deps = p.deps
      <4> HIDE DEF p, par
      <4> QED BY <2>3 DEF Proofstate
    <3>2. Report(P, cur) = [P EXCEPT ![par] = v]  BY <1>2, <2>12 DEF Report, Nothing
    <3> HIDE DEF v
    <3>3. p.kids = {cur}  BY <2>5, <2>6, <2>12 DEF Below
    <3>4. cur \notin p.done  BY <2>5, <2>12 DEF Local, Subgoals
    <3>5. p.done = {} /\ Waiting(p) = {}
      BY <2>4, <2>5, <2>7, <3>3, <3>4 DEF Own, Listed, Active
    <3>6. p.pending = <<>> /\ p.remaining = <<>>
      <4>1. p.remaining \in Seq(Nodes)  BY <2>2, TreeTypes DEF TreeInv
      <4>2. Elems(p.pending) = {} /\ Elems(p.remaining) = {}  BY <3>5 DEF Waiting
      <4> HIDE DEF p
      <4> QED BY <2>3, <4>1, <4>2, NoElems
    <3>7. Empty(v)  BY <3>1, <3>5, <3>6 DEF Empty
    <3>8. Waiting(v) = {}  BY <3>1, <3>5 DEF Waiting
    <3>9. Own(par, v)
      BY <2>5, <3>1, <3>5, <3>7, <3>8 DEF Own, Listed, Untraced, Empty
    <3>10. Below(P, v)  BY <3>1 DEF Below
    <3> QED BY <2>9, <3>1, <3>2, <3>9, <3>10
  <2>13. CASE P[cur].flag = "*" /\ ~ (P[cur].strat /\ P[cur].pending = <<>>)
    <3> DEFINE v == [p EXCEPT !.pending = <<cur>> \o p.pending, !.current = NoNode]
    <3>1. /\ v.flag = "?" /\ v.done = p.done /\ v.strat = p.strat
          /\ v.pending = <<cur>> \o p.pending /\ v.remaining = p.remaining
          /\ v.current = NoNode /\ v.kids = p.kids /\ v.uses = p.uses
          /\ v.deps = p.deps
      <4>1. p.flag = "?"  BY <2>4
      <4> HIDE DEF p, par
      <4> QED BY <2>3, <4>1 DEF Proofstate
    <3>2. Report(P, cur) = [P EXCEPT ![par] = v]  BY <1>2, <2>13 DEF Report, Postponed
    <3> HIDE DEF v
    <3>3. Waiting(v) = Waiting(p) \cup {cur}
      <4>1. Elems(v.pending) = Elems(p.pending) \cup {cur}
        <5> HIDE DEF p
        <5> QED BY <1>0, <2>3, <3>1, PushedElems
      <4> QED BY <3>1, <4>1 DEF Waiting
    <3>4. cur \notin p.done  BY <2>5, <2>13 DEF Local, Subgoals
    <3>5. Listed(v)
      BY <2>4, <2>5, <2>6, <3>1, <3>3, <3>4 DEF Own, Listed, Active
    <3>6. Own(par, v)  BY <2>5, <3>1, <3>5 DEF Own, Untraced
    <3>7. Below(P, v)  BY <2>5, <3>1, SameBelow
    <3> QED BY <2>9, <3>1, <3>2, <3>6, <3>7
  <2> QED BY <2>10, <2>11, <2>12, <2>13
<1> QED BY <1>1, <1>2

LEMMA NextProofstateWhole ==
  ASSUME WInv, NextProofstate
  PROVE  Whole(ps')
<1>1. /\ TypeOK /\ TreeInv(ps) /\ DOMAIN ps = Nodes /\ PathTo(ps, cur) /\ Whole(ps)
  BY DEF WInv, IInv, NextProofstate, Nodes
<1> QED BY <1>1, ReportWhole DEF NextProofstate

LEMMA PostponeGoalWhole ==
  ASSUME WInv, PostponeGoal
  PROVE  Whole(ps')
<1> DEFINE p == ps[cur]
           v == [p EXCEPT !.flag = "*"]
           P == [ps EXCEPT ![cur] = v]
<1>1. /\ TypeOK /\ TreeInv(ps) /\ DOMAIN ps = Nodes /\ PathTo(ps, cur) /\ Whole(ps)
      /\ cur \in Nodes /\ p.flag = "?" /\ p \in Proofstate(Nodes)
      /\ p.remaining = <<>> /\ p.pending # <<>> /\ p.strategy.step.then = None
  BY CurType DEF WInv, IInv, PostponeGoal, Working, Nodes, TypeOK
<1>2. Return(Report(P, cur), Above(cur))  BY DEF PostponeGoal
<1>3. v \in Proofstate(Nodes)  BY ZenonT(60), <1>1 DEF Proofstate, Flag
<1>4. SameLinks(v, p) /\ SameLists(v, p)
  BY <1>1 DEF Proofstate, SameLinks, SameLists, Active
<1>5. /\ v.flag = "*" /\ v.strat = p.strat /\ v.uses = p.uses /\ v.deps = p.deps
      /\ v.kids = p.kids /\ v.strategy = p.strategy
  BY <1>1 DEF Proofstate
<1> HIDE DEF v
<1>6. Local(ps, cur, v)  BY <1>1, <1>4, SameLocal
<1>7. cur = Root \/ (ps[ps[cur].parent].flag = "?" /\ ps[ps[cur].parent].current = cur)
  BY <1>1, OnPath
<1>8. TreeInv(P) /\ DOMAIN P = Nodes
  BY <1>1, <1>3, <1>4, <1>6, <1>7, OneNode
<1>9. Own(cur, p) /\ Below(ps, p)  BY <1>1 DEF Whole
<1>10. Own(cur, v) /\ Below(ps, v)
  <2>1. Listed(v)  BY <1>1, <1>4, <1>5, <1>9 DEF Own, Listed, Active, Waiting, SameLists
  <2>2. Untraced(cur, v)  BY <1>1, <1>4, <1>5 DEF Untraced, SameLists
  <2> QED BY <1>5, <1>9, <2>1, <2>2, SameBelow DEF Own
<1>11. Whole(P)  BY <1>1, <1>5, <1>7, <1>10, OneWhole
<1>12. P[cur] = v /\ \A n \in Nodes \ {cur} : P[n] = ps[n]  BY <1>1
<1> HIDE DEF P
<1>13. PathTo(P, cur)
  <2>1. \A n \in Nodes : SameLinks(P[n], ps[n])  BY <1>4, <1>12 DEF SameLinks
  <2>2. \A n \in ps[cur].above : P[n] = ps[n]  BY <1>1, <1>12, LinkFacts
  <2> QED BY <1>1, <2>1, <2>2, PathPart
<1>14. P[cur].parent = ps[cur].parent  BY <1>4, <1>12 DEF SameLinks
<1> QED BY <1>1, <1>2, <1>5, <1>8, <1>11, <1>12, <1>13, <1>14, ReportWhole

LEMMA TransferStrategyWhole ==
  ASSUME WInv, TransferStrategy
  PROVE  Whole(ps')
<1> DEFINE node == ps[cur]
           k == Len(node.pending)
           handed(n) ==
             IF ps[n].pending = <<>>
             THEN [ps[n] EXCEPT !.strategy = Expr(node.strategy.step.then), !.flag = "fresh"]
             ELSE [ps[n] EXCEPT !.strategy = node.strategy, !.flag = "?"]
           rem == [i \in 1..k |-> node.pending[k + 1 - i]]
           moved == [node EXCEPT !.remaining = rem, !.pending = <<>>,
                       !.strategy = IF cur = Root /\ RootKind[script] = "top" THEN @ ELSE Nil]
           P == [n \in Nodes |-> IF n = cur THEN moved
                                 ELSE IF n \in Elems(node.pending) THEN handed(n)
                                 ELSE ps[n]]
<1>0. /\ TreeInv(ps) /\ DOMAIN ps = Nodes /\ cur \in Nodes /\ Whole(ps)
      /\ node.flag = "?" /\ node \in Proofstate(Nodes) /\ node.remaining = <<>>
  BY CurType DEF WInv, IInv, TransferStrategy, Working, TypeOK, Nodes
<1>1. Return(P, cur)  BY DEF TransferStrategy
<1>2. Local(ps, cur, node) /\ Own(cur, node) /\ Below(ps, node)
  BY <1>0 DEF TreeInv, Whole
<1>3. node.pending \in Seq(Nodes) /\ Elems(node.pending) \subseteq Nodes
      /\ Waiting(node) = Elems(node.pending)
  <2>1. node.pending \in Seq(Nodes)  BY <1>0, Fields
  <2>2. Elems(node.remaining) = {}  BY <1>0 DEF Elems
  <2>3. Waiting(node) = Elems(node.pending)  BY <2>2 DEF Waiting
  <2>4. Elems(node.pending) \subseteq Nodes  BY <2>1 DEF Elems
  <2> QED BY <2>1, <2>3, <2>4
<1>4. Elems(rem) = Elems(node.pending)
  <2> HIDE DEF node
  <2> QED BY <1>3, ReversedElems
<1> HIDE DEF rem
<1>5. /\ moved.flag = "?" /\ moved.done = node.done /\ moved.strat = node.strat
      /\ moved.kids = node.kids /\ moved.current = node.current
      /\ moved.pending = <<>> /\ moved.remaining = rem
      /\ moved.uses = node.uses /\ moved.deps = node.deps
  <2>1. \E sl : moved = [node EXCEPT !.remaining = rem, !.pending = <<>>, !.strategy = sl]
    OBVIOUS
  <2>2. node.flag = "?"  BY <1>0
  <2> HIDE DEF moved, node
  <2> QED BY <1>0, <2>1, <2>2 DEF Proofstate
<1>6. ASSUME NEW n \in Elems(node.pending)
      PROVE  /\ handed(n).flag = IF ps[n].pending = <<>> THEN "fresh" ELSE "?"
             /\ handed(n).kids = ps[n].kids /\ handed(n).done = ps[n].done
             /\ handed(n).pending = ps[n].pending
             /\ handed(n).remaining = ps[n].remaining
             /\ handed(n).current = ps[n].current /\ handed(n).strat = ps[n].strat
             /\ handed(n).uses = ps[n].uses /\ handed(n).deps = ps[n].deps
             /\ ps[n].flag = "*" /\ n # cur
  <2>1. ps[n] \in Proofstate(Nodes) /\ ps[n].flag = "*"
    BY <1>0, <1>2, <1>3, NodeFacts DEF TreeInv, Local, Subgoals
  <2> QED BY <1>0, <2>1 DEF Proofstate
<1> HIDE DEF moved, handed
<1>7. /\ P[cur] = moved /\ DOMAIN P = Nodes
      /\ \A n \in Elems(node.pending) : P[n] = handed(n)
      /\ \A n \in Nodes \ {cur} : n \notin Elems(node.pending) => P[n] = ps[n]
  BY <1>0, <1>3, <1>6
<1> HIDE DEF P
<1>8. ps' = P  BY <1>1, <1>5, <1>7, PlainReturn
<1>9. \A n \in Nodes : /\ P[n].strat = ps[n].strat /\ P[n].deps = ps[n].deps
                       /\ P[n].kids = ps[n].kids /\ P[n].uses = ps[n].uses
                       /\ P[n].flag = "!" => ps[n].flag = "!"
  BY <1>5, <1>6, <1>7
<1>10. ASSUME NEW n \in Nodes PROVE Own(n, P[n]) /\ Below(P, P[n])
  <2>1. Own(n, ps[n]) /\ Below(ps, ps[n]) /\ ps[n].kids \subseteq Nodes
    BY <1>0, TreeTypes DEF Whole, TreeInv
  <2>2. Below(P, P[n])  BY <1>9, <2>1 DEF Below
  <2>3. CASE n = cur
    <3>1. Waiting(moved) = Waiting(node)
      <4>1. Elems(moved.pending) = {}  BY <1>5 DEF Elems
      <4> QED BY <1>3, <1>4, <1>5, <4>1 DEF Waiting
    <3>2. Listed(moved)  BY <1>0, <1>2, <1>5, <3>1 DEF Own, Listed, Active
    <3> QED BY <1>2, <1>5, <1>7, <2>2, <2>3, <3>2 DEF Own, Untraced
  <2>4. CASE n \in Elems(node.pending)
    <3>1. Waiting(handed(n)) = Waiting(ps[n])  BY <1>6, <2>4 DEF Waiting
    <3>2. Listed(handed(n))  BY <1>6, <2>1, <2>4, <3>1 DEF Own, Listed, Active
    <3>3. Untraced(n, handed(n))
      BY <1>6, <2>1, <2>4 DEF Own, Untraced, Empty
    <3> QED BY <1>7, <1>9, <2>1, <2>2, <2>4, <3>2, <3>3 DEF Own
  <2>5. CASE n # cur /\ n \notin Elems(node.pending)
    BY <1>7, <2>1, <2>2, <2>5
  <2> QED BY <2>3, <2>4, <2>5
<1> QED BY <1>7, <1>8, <1>10 DEF Whole

-----------------------------------------------------------------------------
(* The theorems.                                                           *)

LEMMA InitWhole == Init => WInv
<1> SUFFICES ASSUME Init PROVE Whole(ps)  BY InitInv DEF WInv
<1> DEFINE p == NewProofstate(Root, NoNode, NoProofstate, FALSE, 1, FALSE, Expr(script))
<1>1. ps = <<p>>  BY DEF Init
<1>2. p.flag = "fresh" /\ p.uses = {} /\ Empty(p)
  BY DEF NewProofstate, NoProofstate, NoNode, Empty
<1> HIDE DEF p
<1>3. DOMAIN ps = {1} /\ ps[1] = p  BY <1>1
<1>4. Own(1, p) /\ Below(ps, p)  BY <1>2, EmptyWhole
<1> QED BY <1>3, <1>4 DEF Whole

LEMMA WholeKept ==
  ASSUME NoUndoUndo, WInv, [Next]_vars
  PROVE  WInv'
<1>0. IInv' /\ TypeOK'  BY InvKept DEF WInv, Kept, IInv
<1>9. SUFFICES Whole(ps')  BY <1>0 DEF WInv, Whole
<1>1. CASE Propax  BY <1>1, PropaxWhole
<1>2. CASE StepGoal  BY <1>0, <1>2, StepGoalWhole
<1>3. CASE TakeSubgoal  BY <1>3, TakeSubgoalWhole
<1>4. CASE SuccessStep  BY <1>4, SuccessStepWhole
<1>5. CASE NextProofstate  BY <1>5, NextProofstateWhole
<1>6. CASE PostponeGoal  BY <1>6, PostponeGoalWhole
<1>7. CASE TransferStrategy  BY <1>7, TransferStrategyWhole
<1>8. CASE Ended \/ UNCHANGED vars
  <2>1. ps' = ps  BY <1>8 DEF Ended, vars
  <2> QED BY <2>1 DEF WInv, Whole
<1> QED BY <1>1, <1>2, <1>3, <1>4, <1>5, <1>6, <1>7, <1>8 DEF Next, Stepper

LEMMA JoinedLists ==
  ASSUME NEW N, NEW s \in Seq(N), NEW t \in Seq(N)
  PROVE  /\ Elems(s \o t) = Elems(s) \cup Elems(t)
         /\ NoDuplicates(s) /\ NoDuplicates(t) /\ Elems(s) \cap Elems(t) = {}
              => NoDuplicates(s \o t)
<1> DEFINE u == s \o t
<1>1. /\ Len(s) \in Nat /\ Len(t) \in Nat /\ Len(u) = Len(s) + Len(t)
      /\ \A i \in 1..Len(s) : u[i] = s[i]
      /\ \A i \in 1..Len(t) : u[Len(s) + i] = t[i]
  OBVIOUS
<1> HIDE DEF u
<1>2. ASSUME NEW i \in 1..Len(u)
      PROVE  \/ i \in 1..Len(s) /\ u[i] = s[i]
             \/ i - Len(s) \in 1..Len(t) /\ u[i] = t[i - Len(s)]
  <2>1. i \in 1..Len(s) \/ (i - Len(s) \in 1..Len(t) /\ Len(s) + (i - Len(s)) = i)
    BY <1>1
  <2> QED BY <1>1, <2>1
<1>3. Elems(u) \subseteq Elems(s) \cup Elems(t)  BY <1>2 DEF Elems
<1>4. Elems(s) \cup Elems(t) \subseteq Elems(u)
  <2>1. \A i \in 1..Len(s) : i \in 1..Len(u)  BY <1>1
  <2>2. \A i \in 1..Len(t) : Len(s) + i \in 1..Len(u)  BY <1>1
  <2> QED BY <1>1, <2>1, <2>2 DEF Elems
<1>5. ASSUME NoDuplicates(s), NoDuplicates(t), Elems(s) \cap Elems(t) = {}
      PROVE  NoDuplicates(u)
  <2> SUFFICES ASSUME NEW i \in 1..Len(u), NEW j \in 1..Len(u), u[i] = u[j] PROVE i = j
    BY DEF NoDuplicates
  <2>1. CASE i \in 1..Len(s) /\ j \in 1..Len(s)
    BY <1>1, <1>5, <2>1 DEF NoDuplicates
  <2>2. CASE i - Len(s) \in 1..Len(t) /\ j - Len(s) \in 1..Len(t)
    <3>1. u[i] = t[i - Len(s)] /\ u[j] = t[j - Len(s)]  BY <1>1, <1>2, <2>2
    <3>2. i - Len(s) = j - Len(s)  BY <1>5, <2>2, <3>1 DEF NoDuplicates
    <3> QED BY <1>1, <3>2
  <2>3. \A x \in 1..Len(s), y \in 1..Len(t) : s[x] # t[y]  BY <1>5 DEF Elems
  <2> QED BY <1>2, <2>1, <2>2, <2>3
<1> QED BY <1>3, <1>4, <1>5 DEF u

LEMMA InvNoGoalLost == WInv => NoGoalLost
<1> SUFFICES ASSUME WInv, NEW n \in Tree, ps[n].flag \in {"?", "*"}
             PROVE  LET p == ps[n]
                        waiting == p.pending \o p.remaining
                    IN  /\ p.kids = p.done \cup Elems(waiting) \cup ({p.current} \ {NoNode})
                        /\ p.done \cap Elems(waiting) = {}
                        /\ NoDuplicates(waiting)
                        /\ p.current \notin Elems(waiting)
  BY DEF NoGoalLost
<1> DEFINE p == ps[n]
<1>1. n \in DOMAIN ps /\ TreeInv(ps)  BY DEF Tree, Nodes, WInv, IInv
<1>2. Lists(p) /\ Listed(p)  BY <1>1 DEF TreeInv, Local, WInv, Whole, Own
<1>3. p.pending \in Seq(DOMAIN ps) /\ p.remaining \in Seq(DOMAIN ps)
      /\ NoNode \notin p.kids
  BY <1>1, TreeTypes, NodeFacts DEF TreeInv
<1>4. ps[n].flag \in Active  BY DEF Active
<1> HIDE DEF p
<1>5. /\ Elems(p.pending \o p.remaining) = Waiting(p)
      /\ NoDuplicates(p.pending \o p.remaining)
  BY <1>2, <1>3, JoinedLists DEF Lists, Waiting
<1>6. /\ p.kids \subseteq p.done \cup Waiting(p) \cup {p.current}
      /\ p.done \cup Waiting(p) \cup ({p.current} \ {NoNode}) \subseteq p.kids
      /\ p.done \cap Waiting(p) = {} /\ p.current \notin Waiting(p)
  BY <1>2, <1>4 DEF Lists, Listed, p
<1>7. p.kids = p.done \cup Waiting(p) \cup ({p.current} \ {NoNode})  BY <1>3, <1>6
<1> QED BY <1>5, <1>6, <1>7 DEF p

LEMMA InvPathIntact == WInv => PathIntact
<1> SUFFICES ASSUME WInv, outcome = "running" PROVE PathIntact
  BY DEF PathIntact
<1>1. TreeInv(ps) /\ PathTo(ps, cur) /\ cur \in DOMAIN ps /\ NoNode \notin DOMAIN ps
  BY NodeFacts DEF WInv, IInv, TreeInv, TypeOK, Nodes
<1>2. ASSUME NEW a \in Ancestors(cur) \ {Root}
      PROVE  LET up == ps[ps[a].parent]
             IN  up.flag = "?" /\ up.current = a /\ a \in up.kids
  <2>1. a \in DOMAIN ps  BY <1>1, <1>2, LinkFacts DEF Ancestors
  <2>2. ps[a].parent \in DOMAIN ps  BY <1>1, <1>2, <2>1, LinkFacts
  <2>3. ps[ps[a].parent].flag = "?" /\ ps[ps[a].parent].current = a
    BY <1>1, <1>2 DEF PathTo, Ancestors
  <2>4. Listed(ps[ps[a].parent])  BY <2>2 DEF WInv, Whole, Own
  <2> QED BY <1>1, <2>1, <2>3, <2>4 DEF Listed, Active
<1>3. Own(cur, ps[cur])  BY <1>1 DEF WInv, Whole
<1> QED BY <1>2, <1>3 DEF PathIntact, Own, Untraced, Empty

(* A goal of a finished tree whose references are not all recorded has a   *)
(* highest such goal above it, whose parent passes them on.                *)
LEMMA InvRefersToAllUses == WInv => QedRefersToAllUses
<1> SUFFICES ASSUME WInv, outcome = "qed", NEW n \in Tree
             PROVE  ps[n].uses \subseteq ps[Root].deps
  BY DEF QedRefersToAllUses
<1>0. /\ TreeInv(ps) /\ DOMAIN ps = Nodes /\ n \in Nodes
      /\ \A a \in Ancestors(n) \ {Root} : a \in ps[ps[a].parent].kids
  BY DEF WInv, IInv, Tree, Nodes
<1>1. DOMAIN ps = 1..Len(ps) /\ Len(ps) \in Nat  BY <1>0, NodeFacts DEF TreeInv
<1>2. ps[n].uses \subseteq ps[n].deps  BY <1>0 DEF WInv, Whole, Own
<1>3. SUFFICES ASSUME ~ (ps[n].deps \subseteq ps[Root].deps) PROVE FALSE  BY <1>2
<1>4. Ancestors(n) \subseteq Nodes /\ n \in Ancestors(n)
  BY <1>0, LinkFacts DEF Ancestors
<1> DEFINE Unrecorded == {a \in Ancestors(n) : ~ (ps[a].deps \subseteq ps[Root].deps)}
<1>5. Unrecorded \in SUBSET (1..Len(ps)) /\ Unrecorded # {}
  BY <1>0, <1>1, <1>3, <1>4
<1>6. PICK a \in Unrecorded : \A b \in Unrecorded : a <= b
  BY <1>1, <1>5, LeastElement
<1>7. a # Root /\ a \in Nodes /\ a \in Nat  BY <1>0, <1>1, <1>5, <1>6
<1>8. ps[a].parent \in Nodes /\ ps[a].parent < a /\ ps[a].parent \in ps[a].above
  BY <1>0, <1>7, LinkFacts
<1>9. ps[a].above \subseteq ps[n].above
  <2>1. a \in ps[n].above \cup {n}  BY <1>6 DEF Ancestors
  <2> QED BY <1>0, <2>1, LinkFacts
<1>10. ps[a].parent \in Ancestors(n)  BY <1>8, <1>9 DEF Ancestors
<1>11. ps[ps[a].parent].deps \subseteq ps[Root].deps
  <2>1. ~ (a <= ps[a].parent)  BY <1>0, <1>1, <1>7, <1>8
  <2> QED BY <1>6, <1>10, <2>1
<1>12. ps[a].parent \in Tree
  <2>1. Ancestors(ps[a].parent) \subseteq Ancestors(n)
    <3>1. ps[ps[a].parent].above \subseteq ps[n].above
      BY <1>0, <1>4, <1>10, <1>8, LinkFacts DEF Ancestors
    <3> QED BY <1>10, <3>1 DEF Ancestors
  <2> QED BY <1>0, <1>8, <2>1 DEF Tree
<1>13. ps[ps[a].parent].flag = "!"
  BY <1>12, InvClosesEveryGoal DEF WInv, QedClosesEveryGoal
<1>14. a \in ps[ps[a].parent].kids  BY <1>0, <1>6, <1>7
<1>15. Below(ps, ps[ps[a].parent])  BY <1>0, <1>8 DEF WInv, Whole
<1>16. ps[a].deps \subseteq ps[ps[a].parent].deps  BY <1>13, <1>14, <1>15 DEF Below
<1> QED BY <1>6, <1>11, <1>16

(* No goal is ever dropped or counted twice (NoGoalLost), for every        *)
(* strategy language without (undo undo), every behaviour of the rules,    *)
(* every use of undo, fail, postpone, quit and interrupts.                 *)
THEOREM NothingLost ==
  ASSUME NoUndoUndo
  PROVE  Spec => []NoGoalLost
<1>1. WInv /\ [Next]_vars => WInv'  BY WholeKept
<1> QED BY <1>1, InitWhole, InvNoGoalLost, PTL DEF Spec

(* The proofstates above the current one wait for it, and a step is        *)
(* applied to a goal without traces of earlier work (PathIntact).          *)
THEOREM PathHolds ==
  ASSUME NoUndoUndo
  PROVE  Spec => []PathIntact
<1>1. WInv /\ [Next]_vars => WInv'  BY WholeKept
<1> QED BY <1>1, InitWhole, InvPathIntact, PTL DEF Spec

(* What Q.E.D. records for the proof chain covers every declaration that   *)
(* the finished proof refers to (QedRefersToAllUses).                      *)
THEOREM ChainCovered ==
  ASSUME NoUndoUndo
  PROVE  Spec => []QedRefersToAllUses
<1>1. WInv /\ [Next]_vars => WInv'  BY WholeKept
<1> QED BY <1>1, InitWhole, InvRefersToAllUses, PTL DEF Spec

-----------------------------------------------------------------------------
(* What the rule apply returns.  The engine finds the open goals by going  *)
(* down the lists of the postponed goals, the tree has them anywhere.      *)
LeavesOf(f, n) ==
  IF ps[n].flag = "*" /\ ps[n].remaining = <<>>
  THEN IF ps[n].pending = <<>> THEN {n}
       ELSE UNION {f[m] : m \in Elems(ps[n].pending)}
  ELSE UNION {f[m] : m \in Elems(ps[n].remaining)}

LEMMA LeavesChosen ==
  ASSUME NEW f, f = [n \in Nodes |-> LeavesOf(f, n)]
  PROVE  Leaves = [n \in Nodes |-> LeavesOf(Leaves, n)]
  BY DEF Leaves, LeavesOf

(* Leaves is defined: its equation has a least solution, since LeavesOf is *)
(* monotonic.                                                              *)
LEMMA LeavesUnfold ==
  ASSUME TreeInv(ps)
  PROVE  Leaves = [n \in Nodes |-> LeavesOf(Leaves, n)]
<1> DEFINE Sets == [Nodes -> SUBSET Nodes]
           Pre == {f \in Sets : \A n \in Nodes : LeavesOf(f, n) \subseteq f[n]}
           g == [n \in Nodes |-> {x \in Nodes : \A f \in Pre : x \in f[n]}]
           h == [n \in Nodes |-> LeavesOf(g, n)]
<1>1. ASSUME NEW n \in Nodes
      PROVE  Elems(ps[n].pending) \subseteq Nodes /\ Elems(ps[n].remaining) \subseteq Nodes
  BY TreeTypes DEF TreeInv, Nodes, Waiting
<1>2. ASSUME NEW f \in Sets, NEW k \in Sets, \A m \in Nodes : f[m] \subseteq k[m],
             NEW n \in Nodes
      PROVE  LeavesOf(f, n) \subseteq LeavesOf(k, n)
  <2>1. ASSUME NEW S \in SUBSET Nodes
        PROVE  UNION {f[m] : m \in S} \subseteq UNION {k[m] : m \in S}
    BY <1>2
  <2> QED BY <1>1, <2>1 DEF LeavesOf
<1>3. ASSUME NEW f \in Sets, NEW n \in Nodes PROVE LeavesOf(f, n) \subseteq Nodes
  <2>1. ASSUME NEW S \in SUBSET Nodes PROVE UNION {f[m] : m \in S} \subseteq Nodes
    OBVIOUS
  <2> QED BY <1>1, <2>1 DEF LeavesOf
<1>4. g \in Sets /\ \A f \in Pre : \A n \in Nodes : g[n] \subseteq f[n]
  <2> HIDE DEF Pre
  <2> QED OBVIOUS
<1>5. \A f \in Pre : f \in Sets /\ \A n \in Nodes : LeavesOf(f, n) \subseteq f[n]
  OBVIOUS
<1>6. ASSUME NEW n \in Nodes PROVE LeavesOf(g, n) \subseteq g[n]
  <2>1. ASSUME NEW f \in Pre PROVE LeavesOf(g, n) \subseteq f[n]
    <3> HIDE DEF g, Pre, Sets
    <3> QED BY <1>2, <1>4, <1>5
  <2>2. LeavesOf(g, n) \subseteq Nodes
    <3> HIDE DEF g, Sets
    <3> QED BY <1>3, <1>4
  <2>3. g[n] = {x \in Nodes : \A f \in Pre : x \in f[n]}
    <3> HIDE DEF Pre
    <3> QED OBVIOUS
  <2> HIDE DEF g, Pre
  <2> QED BY <2>1, <2>2, <2>3
<1>7. h \in Sets /\ \A n \in Nodes : h[n] = LeavesOf(g, n)
  <2> HIDE DEF g
  <2> QED BY <1>3, <1>4
<1> HIDE DEF g, h
<1>8. h \in Pre
  <2>1. \A n \in Nodes : h[n] \subseteq g[n]  BY <1>6, <1>7
  <2>2. \A n \in Nodes : LeavesOf(h, n) \subseteq LeavesOf(g, n)
    <3> HIDE DEF Sets
    <3> QED BY <1>2, <1>4, <1>7, <2>1
  <2> QED BY <1>7, <2>2
<1>9. \A n \in Nodes : g[n] = LeavesOf(g, n)
  <2> HIDE DEF Pre, Sets
  <2> QED BY <1>4, <1>6, <1>7, <1>8
<1>10. g = [n \in Nodes |-> LeavesOf(g, n)]
  BY <1>4, <1>9
<1> QED BY <1>10, LeavesChosen

(* The path from n down to x starts with a child of n.                     *)
LEMMA PathChild ==
  ASSUME TreeInv(ps), NEW x \in Nodes, NEW n \in ps[x].above
  PROVE  \E a \in Ancestors(x) : a \in Nodes /\ a # Root /\ ps[a].parent = n
<1> DEFINE Under == {a \in Ancestors(x) : n \in ps[a].above}
<1>0. DOMAIN ps = Nodes /\ DOMAIN ps = 1..Len(ps) /\ Len(ps) \in Nat
  BY NodeFacts DEF TreeInv, Nodes
<1>1. Ancestors(x) \subseteq Nodes /\ x \in Ancestors(x)
  BY <1>0, LinkFacts DEF Ancestors
<1>2. Under \in SUBSET (1..Len(ps)) /\ Under # {}  BY <1>0, <1>1
<1>3. PICK a \in Under : \A b \in Under : a <= b  BY <1>0, <1>2, LeastElement
<1>4. a \in Nodes /\ a \in Nat /\ a # Root  BY <1>0, <1>1, <1>3, LinkFacts
<1>5. /\ ps[a].parent \in Nodes /\ ps[a].parent < a /\ ps[a].parent \in ps[a].above
      /\ ps[a].above = ps[ps[a].parent].above \cup {ps[a].parent}
  BY <1>0, <1>4, LinkFacts
<1>6. ps[a].parent \in Ancestors(x)
  <2>1. a \in ps[x].above \cup {x}  BY <1>3 DEF Ancestors
  <2>2. ps[a].above \subseteq ps[x].above  BY <1>0, <2>1, LinkFacts
  <2> QED BY <1>5, <2>2 DEF Ancestors
<1>7. ps[a].parent \notin Under
  <2>1. ~ (a <= ps[a].parent)  BY <1>0, <1>4, <1>5
  <2> QED BY <1>3, <2>1
<1> QED BY <1>3, <1>4, <1>5, <1>6, <1>7

(* Everything below a closed goal of the tree is closed.                   *)
LEMMA ClosedBelow ==
  ASSUME TreeInv(ps), NEW x \in Tree, NEW n \in Ancestors(x), ps[n].flag = "!"
  PROVE  ps[x].flag = "!"
<1> SUFFICES ASSUME ps[x].flag # "!" PROVE FALSE  OBVIOUS
<1> DEFINE Open == {a \in Ancestors(x) : n \in Ancestors(a) /\ ps[a].flag # "!"}
<1>0. /\ DOMAIN ps = Nodes /\ DOMAIN ps = 1..Len(ps) /\ Len(ps) \in Nat /\ x \in Nodes
      /\ \A a \in Ancestors(x) \ {Root} : a \in ps[ps[a].parent].kids
  BY NodeFacts DEF TreeInv, Nodes, Tree
<1>1. Ancestors(x) \subseteq Nodes /\ x \in Ancestors(x)
  BY <1>0, LinkFacts DEF Ancestors
<1>2. Open \in SUBSET (1..Len(ps)) /\ Open # {}  BY <1>0, <1>1
<1>3. PICK a \in Open : \A b \in Open : a <= b  BY <1>0, <1>2, LeastElement
<1>4. a \in Nodes /\ a \in Nat /\ n \in ps[a].above
  BY <1>0, <1>1, <1>3 DEF Ancestors
<1>5. a # Root  BY <1>0, <1>4, LinkFacts
<1>6. /\ ps[a].parent \in Nodes /\ ps[a].parent < a /\ ps[a].parent \in ps[a].above
      /\ ps[a].above = Ancestors(ps[a].parent)
  BY <1>0, <1>4, <1>5, LinkFacts DEF Ancestors
<1>7. ps[a].parent \in Ancestors(x)
  <2>1. a \in ps[x].above \cup {x}  BY <1>3 DEF Ancestors
  <2>2. ps[a].above \subseteq ps[x].above  BY <1>0, <2>1, LinkFacts
  <2> QED BY <1>6, <2>2 DEF Ancestors
<1>8. ps[ps[a].parent].flag = "!"
  <2>1. ~ (a <= ps[a].parent)  BY <1>0, <1>4, <1>6
  <2> QED BY <1>3, <1>4, <1>6, <1>7, <2>1
<1>9. a \in ps[ps[a].parent].kids  BY <1>0, <1>3, <1>5
<1>10. Local(ps, ps[a].parent, ps[ps[a].parent])  BY <1>0, <1>6 DEF TreeInv
<1>11. ps[a].flag = "!"  BY <1>8, <1>9, <1>10 DEF Local, Subgoals
<1> QED BY <1>3, <1>11

(* A goal of the last decomposition of a goal of the tree.                 *)
LEMMA KidInTree ==
  ASSUME TreeInv(ps), NEW n \in Tree, NEW k \in ps[n].kids
  PROVE  k \in Tree /\ k > n /\ n \in ps[k].above
<1>0. /\ DOMAIN ps = Nodes /\ n \in Nodes /\ NoNode \notin Nodes
      /\ \A a \in Ancestors(n) \ {Root} : a \in ps[ps[a].parent].kids
  BY NodeFacts DEF TreeInv, Nodes, Tree
<1>1. k \in Nodes /\ k \in Nat /\ n \in Nat
  <2>1. ps[n].kids \subseteq Nodes  BY <1>0, TreeTypes DEF TreeInv
  <2>2. DOMAIN ps = 1..Len(ps) /\ Len(ps) \in Nat  BY NodeFacts DEF TreeInv
  <2> QED BY <1>0, <2>1, <2>2
<1>2. ps[k].parent = n  BY <1>0 DEF TreeInv, Local, Children
<1>3. k # Root  BY <1>0, <1>1, <1>2, LinkFacts
<1>4. ps[k].above = Ancestors(n) /\ n \in ps[k].above /\ n < k
  BY <1>0, <1>1, <1>2, <1>3, LinkFacts DEF Ancestors
<1>5. \A a \in Ancestors(k) \ {Root} : a \in ps[ps[a].parent].kids
  BY <1>0, <1>2, <1>4 DEF Ancestors
<1> QED BY <1>0, <1>1, <1>4, <1>5 DEF Tree

OpenUnder(n) == {x \in OpenGoals : n \in Ancestors(x)}

(* A postponed goal stands for the open goals below it, the last one first.*)
LEMMA LeavesAreOpen ==
  ASSUME TreeInv(ps), Whole(ps), NEW n \in Tree,
         ps[n].flag = "*", Settled(ps[n]),
         \A m \in Tree : m > n /\ ps[m].flag = "*" /\ Settled(ps[m])
                           => Leaves[m] = OpenUnder(m)
  PROVE  Leaves[n] = OpenUnder(n)
<1> DEFINE p == ps[n]
<1>0. DOMAIN ps = Nodes /\ n \in Nodes /\ NoNode \notin Nodes
  BY NodeFacts DEF TreeInv, Nodes, Tree
<1>1. Local(ps, n, p) /\ Own(n, p)  BY <1>0 DEF TreeInv, Whole
<1>2. p.remaining = <<>> /\ (Empty(p) \/ p.pending # <<>>)
  BY <1>1 DEF Own, Untraced
<1>3. Leaves[n] = IF p.pending = <<>> THEN {n}
                  ELSE UNION {Leaves[m] : m \in Elems(p.pending)}
  BY <1>0, <1>2, LeavesUnfold DEF LeavesOf
<1>4. n \in Ancestors(n)  BY DEF Ancestors
<1>5. ASSUME NEW x \in Tree, n \in Ancestors(x), x # n
      PROVE  \E a \in Ancestors(x) : a \in Nodes /\ a \in p.kids
  <2>1. n \in ps[x].above /\ x \in Nodes  BY <1>5 DEF Ancestors, Tree
  <2>2. PICK a \in Ancestors(x) : a \in Nodes /\ a # Root /\ ps[a].parent = n
    BY <2>1, PathChild
  <2>3. a \in ps[ps[a].parent].kids  BY <1>5, <2>2 DEF Tree
  <2> QED BY <2>2, <2>3
<1>6. CASE p.pending = <<>>
  <2>1. Empty(p) /\ p.kids = {}  BY <1>2, <1>6 DEF Empty
  <2>2. n \in OpenUnder(n)  BY <1>4, <2>1 DEF OpenUnder, OpenGoals
  <2>3. ASSUME NEW x \in OpenUnder(n) PROVE x = n
    <3>1. x \in Tree /\ n \in Ancestors(x)  BY DEF OpenUnder, OpenGoals
    <3> QED BY <1>5, <2>1, <3>1
  <2> QED BY <1>3, <1>6, <2>2, <2>3
<1>7. CASE p.pending # <<>>
  <2>0. p.pending \in Seq(Nodes)  BY <1>0, TreeTypes DEF TreeInv
  <2>1. ASSUME NEW m \in Elems(p.pending)
        PROVE  /\ m \in p.kids /\ m \in Tree /\ n \in ps[m].above
               /\ Leaves[m] = OpenUnder(m)
    <3>1. m \in p.kids  BY <1>1 DEF Own, Listed, Active, Waiting
    <3>2. m \in Tree /\ m > n /\ n \in ps[m].above  BY <3>1, KidInTree
    <3>3. ps[m].flag = "*" /\ Settled(ps[m])  BY <1>1 DEF Local, Subgoals, Waiting
    <3> QED BY <3>1, <3>2, <3>3
  <2>2. ASSUME NEW m \in Elems(p.pending) PROVE OpenUnder(m) \subseteq OpenUnder(n)
    <3>1. ASSUME NEW x \in OpenUnder(m) PROVE n \in Ancestors(x) /\ x \in OpenGoals
      <4>1. x \in OpenGoals /\ x \in Nodes /\ m \in ps[x].above \cup {x}
        BY DEF OpenUnder, OpenGoals, Tree, Ancestors
      <4>2. ps[m].above \subseteq ps[x].above  BY <1>0, <4>1, LinkFacts
      <4> QED BY <2>1, <4>1, <4>2 DEF Ancestors
    <3> QED BY <3>1 DEF OpenUnder
  <2>3. ASSUME NEW x \in OpenUnder(n)
        PROVE  \E m \in Elems(p.pending) : x \in OpenUnder(m)
    <3>1. /\ x \in OpenGoals /\ x \in Tree /\ ps[x].kids = {} /\ ps[x].flag # "!"
          /\ n \in Ancestors(x)
      BY DEF OpenUnder, OpenGoals
    <3>2. x # n
      <4>1. 1 \in 1..Len(p.pending)  BY <1>7, <2>0
      <4>2. p.pending[1] \in Elems(p.pending)  BY <4>1 DEF Elems
      <4> QED BY <2>1, <3>1, <4>2
    <3>3. PICK a \in Ancestors(x) : a \in Nodes /\ a \in p.kids
      BY <1>5, <3>1, <3>2
    <3>4. ps[a].flag # "!"  BY <3>1, ClosedBelow
    <3>5. a \notin p.done  BY <1>1, <3>4 DEF Local, Subgoals
    <3>6. a # p.current  BY <1>0, <3>3, <3>5 DEF Settled, Active
    <3>7. a \in Waiting(p)  BY <1>1, <3>3, <3>5, <3>6 DEF Local, Lists, Active
    <3>8. Elems(p.remaining) = {}  BY <1>2 DEF Elems
    <3>9. a \in Elems(p.pending)  BY <3>7, <3>8 DEF Waiting
    <3> QED BY <3>1, <3>3, <3>9 DEF OpenUnder
  <2>4. Leaves[n] = UNION {Leaves[m] : m \in Elems(p.pending)}  BY <1>3, <1>7
  <2> HIDE DEF p
  <2> QED BY <2>1, <2>2, <2>3, <2>4
<1> QED BY <1>6, <1>7

LEMMA InvReturnsOpenGoals == WInv => ApplyReturnsOpenGoals
<1> SUFFICES ASSUME WInv, outcome = "subgoals" PROVE CollectSubgoals = OpenGoals
  BY DEF ApplyReturnsOpenGoals
<1>0. /\ TreeInv(ps) /\ Whole(ps) /\ DOMAIN ps = Nodes /\ Root \in Nodes
      /\ DOMAIN ps = 1..Len(ps) /\ Len(ps) \in Nat
      /\ ps[Root].flag = "*" /\ Settled(ps[Root])
  BY NodeFacts DEF WInv, IInv, TreeInv, Nodes
<1> DEFINE Good(n) == ps[n].flag = "*" /\ Settled(ps[n]) => Leaves[n] = OpenUnder(n)
           Up == {i \in 1..Len(ps) : Len(ps) + 1 - i \in Tree /\ ~ Good(Len(ps) + 1 - i)}
<1>1. Tree \subseteq 1..Len(ps)  BY <1>0 DEF Tree
<1>2. \A n \in Tree : Good(n)
  <2>1. ASSUME NEW n \in Tree, ~ Good(n) PROVE FALSE
    <3>1. n \in 1..Len(ps)  BY <1>1
    <3>2. Len(ps) + 1 - n \in 1..Len(ps) /\ Len(ps) + 1 - (Len(ps) + 1 - n) = n
      BY <1>0, <3>1
    <3>3. Len(ps) + 1 - n \in Up
      <4> HIDE DEF Good
      <4> QED BY <2>1, <3>2
    <3> HIDE DEF Good
    <3>4. PICK i \in Up : \A j \in Up : i <= j  BY <1>0, <3>3, LeastElement
    <3>5. PICK m \in Tree : m = Len(ps) + 1 - i /\ ~ Good(m)  BY <3>4
    <3>6. ASSUME NEW k \in Tree, k > m PROVE Good(k)
      <4>1. k \in 1..Len(ps) /\ m \in 1..Len(ps) /\ i \in 1..Len(ps)
        BY <1>1, <3>4, <3>5
      <4>2. /\ Len(ps) + 1 - k \in 1..Len(ps) /\ Len(ps) + 1 - (Len(ps) + 1 - k) = k
            /\ ~ (i <= Len(ps) + 1 - k)
        BY <1>0, <3>5, <3>6, <4>1
      <4>3. Len(ps) + 1 - k \notin Up  BY <3>4, <4>2
      <4> QED BY <4>2, <4>3
    <3>7. Good(m)  BY <1>0, <3>6, LeavesAreOpen DEF Good
    <3> QED BY <3>5, <3>7
  <2> QED BY <2>1
<1>3. Root \in Tree
  <2>1. Ancestors(Root) = {Root}  BY <1>0, LinkFacts DEF Ancestors
  <2> QED BY <1>0, <2>1 DEF Tree
<1>4. Leaves[Root] = OpenUnder(Root)  BY <1>0, <1>2, <1>3
<1>5. OpenUnder(Root) = OpenGoals
  <2>1. ASSUME NEW x \in OpenGoals PROVE Root \in Ancestors(x)
    <3>1. x \in DOMAIN ps  BY <1>0 DEF OpenGoals, Tree
    <3> QED BY <1>0, <3>1, RootAbove DEF Ancestors
  <2> QED BY <2>1 DEF OpenUnder
<1> QED BY <1>4, <1>5 DEF CollectSubgoals

(* The rule apply returns exactly the goals that its proof left open       *)
(* (ApplyReturnsOpenGoals), however the lists of its postponed goals were  *)
(* built up by strategies, failures and the handing down of strategies.    *)
THEOREM SubgoalsReturned ==
  ASSUME NoUndoUndo
  PROVE  Spec => []ApplyReturnsOpenGoals
<1>1. WInv /\ [Next]_vars => WInv'  BY WholeKept
<1> QED BY <1>1, InitWhole, InvReturnsOpenGoals, PTL DEF Spec
=============================================================================
