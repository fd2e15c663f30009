--------------------------- MODULE ProofTree_proofs ---------------------------
(***************************************************************************)
(* Proofs about ProofTree, for every strategy language, every behaviour of *)
(* the rules and every bound: its types, and the end of attempts without a *)
(* user.                                                                   *)
(***************************************************************************)
EXTENDS ProofTree, SequenceTheorems, TLAPS

-----------------------------------------------------------------------------
(* Types.                                                                  *)

LEMMA DefFields ==
  ASSUME NEW e \in Strategy
  PROVE  /\ Def[e].kind = "rule" => Def[e].rule \in Rule
         /\ Def[e].kind = "try" =>
              /\ Def[e].top \in Strategy
              /\ Def[e].then \in Strategy
              /\ Def[e].else \in Strategy
         /\ Def[e].kind = "spread" => Def[e].branches \in Seq(Strategy)
  BY EngineAssumption DEF EngineAssumption, StrategyDef

LEMMA BranchType ==
  ASSUME NEW e \in Strategy, NEW g \in Nat
  PROVE  Branch(e, g) \in Strategy
  BY DefFields, EngineAssumption DEF EngineAssumption, Branch

LEMMA SlotType ==
  ASSUME NEW slot \in Slot
  PROVE  /\ slot.expr \in Strategy \cup {None, Evaluated}
         /\ slot.expr = Evaluated => slot.step \in Steps
         /\ slot.step.then \in Strategy \cup {None}
         /\ slot.step.else \in Strategy \cup {None}
<1>0. Evaluated # None  BY DEF Evaluated, None
<1>1. CASE \E e \in Strategy \cup {None} : slot = Expr(e)
  <2>1. PICK e \in Strategy \cup {None} : slot = Expr(e)  BY <1>1
  <2>2. e # Evaluated  BY <1>0, EngineAssumption DEF EngineAssumption
  <2> QED BY <2>1, <2>2 DEF Expr, Step
<1>2. CASE \E s \in Steps : slot = Object(s)
  BY <1>2 DEF Object, Steps
<1> QED BY <1>1, <1>2 DEF Slot

LEMMA StepType ==
  ASSUME NEW slot \in Slot, NEW g \in Nat
  PROVE  Evaluate(slot, g) \subseteq Steps
<1> DEFINE e == slot.expr
           b == Branch(e, g)
<1>1. CASE e = Evaluated  BY <1>1, SlotType DEF Evaluate
<1>2. CASE e = None /\ e # Evaluated
  BY <1>2, EngineAssumption DEF EngineAssumption, Evaluate, Steps, Step
<1>3. CASE e \in Strategy /\ e # Evaluated /\ e # None
  <2>1. b \in Strategy  BY <1>3, BranchType
  <2>3. /\ Step(b, None, None) \in Steps
        /\ Def[b].kind = "try" => Step(Def[b].top, Def[b].then, Def[b].else) \in Steps
        /\ \A c \in Command : Step(c, Call("query*"), Call("query*")) \in Steps
        /\ Step(Call(Unattended(Def[b].kind)), None, None) \in Steps
    BY <2>1, DefFields, EngineAssumption DEF EngineAssumption, Steps, Step, Unattended
  <2> QED BY <1>3, <2>3 DEF Evaluate
<1> QED BY <1>1, <1>2, <1>3, SlotType

LEMMA Fields ==
  ASSUME NEW N, NEW p \in Proofstate(N)
  PROVE  /\ p.parent \in N \cup {NoNode} /\ p.goal \in N
         /\ p.above \subseteq N /\ p.done \subseteq N /\ p.kids \subseteq N
         /\ p.pending \in Seq(N) /\ p.remaining \in Seq(N)
         /\ p.current \in N \cup {NoNode} /\ p.flag \in Flag
         /\ p.strategy \in Slot /\ p.deps \subseteq Decl
         /\ p.rule \in Rule \cup {NoRule, "propax"} /\ p.goalnum \in Nat
         /\ Expr(p.strategy.step.then) \in Slot
         /\ Expr(p.strategy.step.else) \in Slot
<1>1. p.strategy \in Slot  BY DEF Proofstate
<1>2. /\ p.strategy.step.then \in Strategy \cup {None}
      /\ p.strategy.step.else \in Strategy \cup {None}
  BY <1>1, SlotType
<1>3. Expr(p.strategy.step.then) \in Slot /\ Expr(p.strategy.step.else) \in Slot
  BY <1>2 DEF Slot
<1> QED BY <1>3 DEF Proofstate

(* The links of a proofstate may be read over a larger tree.               *)
LEMMA ProofstateGrows ==
  ASSUME NEW N, NEW M, N \subseteq M, NEW p \in Proofstate(N)
  PROVE  p \in Proofstate(M)
<1>1. p.pending \in Seq(M) /\ p.remaining \in Seq(M)
  BY DEF Proofstate
<1> QED BY <1>1 DEF Proofstate

LEMMA UpdateSeq ==
  ASSUME NEW S, NEW P \in Seq(S), NEW m \in DOMAIN P, NEW v \in S
  PROVE  /\ [P EXCEPT ![m] = v] \in Seq(S)
         /\ DOMAIN [P EXCEPT ![m] = v] = DOMAIN P
         /\ Len([P EXCEPT ![m] = v]) = Len(P)
  OBVIOUS

(* What Return leaves behind for a well-formed tree.                       *)
Tree1(P) == P # <<>> /\ P \in Seq(Proofstate(DOMAIN P))
Rest1 ==
  /\ script' \in Scripts
  /\ outcome' \in {"running", "qed", "failed", "subgoals", "quit"}

LEMMA ReturnType ==
  ASSUME NEW P, Tree1(P), NEW next \in DOMAIN P, Return(P, next),
         script \in Scripts
  PROVE  /\ ps' \in Seq(Proofstate(DOMAIN P)) /\ ps' # <<>>
         /\ DOMAIN ps' = DOMAIN P
         /\ cur' \in DOMAIN P
         /\ Rest1
<1> DEFINE v == [P[Root] EXCEPT !.flag = "*"]
<1>1. Root \in DOMAIN P /\ P[Root] \in Proofstate(DOMAIN P)
  BY DEF Tree1, Root
<1>2. v \in Proofstate(DOMAIN P)  BY <1>1 DEF Proofstate, Flag
<1>3. ps' = P \/ ps' = [P EXCEPT ![Root] = v]  BY DEF Return
<1>4. CASE ps' = P
  BY <1>1, <1>4 DEF Tree1, Return, Rest1, Ending
<1>5. CASE ps' = [P EXCEPT ![Root] = v]
  <2>1. ps' \in Seq(Proofstate(DOMAIN P)) /\ DOMAIN ps' = DOMAIN P /\ Len(ps') = Len(P)
    BY <1>1, <1>2, <1>5, UpdateSeq DEF Tree1
  <2> QED BY <1>1, <2>1 DEF Tree1, Return, Rest1, Ending
<1> QED BY <1>3, <1>4, <1>5

(* A step that returns a well-formed, possibly larger, tree keeps the      *)
(* types.                                                                  *)
LEMMA TreeStep ==
  ASSUME TypeOK, NEW P, Tree1(P), Nodes \subseteq DOMAIN P,
         NEW next \in DOMAIN P, Return(P, next), UNCHANGED record
  PROVE  TypeOK'
<1>1. /\ ps' \in Seq(Proofstate(DOMAIN P)) /\ ps' # <<>>
      /\ DOMAIN ps' = DOMAIN P
      /\ cur' \in DOMAIN P
      /\ Rest1
  BY ReturnType DEF TypeOK
<1>2. Nodes' = DOMAIN P  BY <1>1 DEF Nodes
<1>3. \/ record' = NoRecord
      \/ record' \in [target : DOMAIN P, saved : Proofstate(DOMAIN P), leaf : DOMAIN P]
  <2>1. \A p \in Proofstate(Nodes) : p \in Proofstate(DOMAIN P)
    BY ProofstateGrows
  <2> QED BY <2>1 DEF TypeOK
<1> QED BY <1>1, <1>2, <1>3 DEF TypeOK, Rest1

(* A step that changes one proofstate.                                     *)
LEMMA NodeStep ==
  ASSUME TypeOK, NEW m \in Nodes, NEW v \in Proofstate(Nodes),
         NEW next \in Nodes, Return([ps EXCEPT ![m] = v], next),
         UNCHANGED record
  PROVE  TypeOK'
<1> DEFINE P == [ps EXCEPT ![m] = v]
<1>1. P \in Seq(Proofstate(Nodes)) /\ DOMAIN P = Nodes /\ Len(P) = Len(ps)
  BY UpdateSeq DEF TypeOK, Nodes
<1>2. Tree1(P)  BY <1>1 DEF Tree1, TypeOK
<1> HIDE DEF P
<1> QED BY <1>1, <1>2, TreeStep DEF P

LEMMA CurType ==
  ASSUME TypeOK
  PROVE  /\ ps[cur] \in Proofstate(Nodes)
         /\ ps[cur].strategy \in Slot
         /\ NextSteps \subseteq Steps
<1>1. ps[cur] \in Proofstate(Nodes)  BY DEF TypeOK, Nodes
<1>2. ps[cur].strategy \in Slot /\ ps[cur].goalnum \in Nat  BY <1>1 DEF Proofstate
<1> QED BY <1>1, <1>2, StepType DEF NextSteps

LEMMA StepFields ==
  ASSUME NEW s \in Steps
  PROVE  /\ Object(s) \in Slot /\ Expr(s.top) \in Slot
         /\ Expr(s.then) \in Slot /\ Expr(s.else) \in Slot
         /\ IsRule(s) => RuleOf(s) \in Rule
         /\ \A o \in OutcomesOf(s) : o \in Outcome
  BY DefFields, EngineAssumption DEF EngineAssumption, Steps, Slot, IsRule, RuleOf, OutcomesOf

LEMMA SlotValues ==
  /\ Nil \in Slot
  /\ Expr(QueryStep) \in Slot
  BY EngineAssumption DEF EngineAssumption, Slot, Nil

LEMMA OutcomeFields ==
  ASSUME NEW o \in Outcome
  PROVE  /\ o.refs \subseteq Decl
         /\ o.signal = "?" => o.tccs \subseteq Decl /\ o.axioms \in Seq(BOOLEAN)
  BY DEF Outcome

LEMMA InitType == Init => TypeOK
<1> SUFFICES ASSUME Init PROVE TypeOK  OBVIOUS
<1> DEFINE p == NewProofstate(Root, NoNode, NoProofstate, FALSE, 1, FALSE, Expr(script))
<1>1. Expr(script) \in Slot  BY EngineAssumption DEF EngineAssumption, Slot, Init
<1>2. p \in Proofstate({1})
  BY <1>1 DEF NewProofstate, NoProofstate, Proofstate, Root, NoNode, Flag
<1>3. ps = <<p>>  BY DEF Init
<1>4. Nodes = {1}  BY <1>3 DEF Nodes
<1> HIDE DEF p
<1>5. ps \in Seq(Proofstate({1})) /\ ps # <<>>  BY <1>2, <1>3
<1> QED BY <1>4, <1>5 DEF Init, TypeOK, Root

-----------------------------------------------------------------------------
(* The types are kept by each action.                                      *)

LEMMA FlagType ==
  ASSUME TypeOK, NEW f \in Flag, NEW sl \in Slot, NEW d \in SUBSET Decl,
         NEW r \in Rule \cup {NoRule, "propax"}, NEW u \in SUBSET Decl
  PROVE  /\ [ps[cur] EXCEPT !.flag = f, !.rule = r, !.kids = {}] \in Proofstate(Nodes)
         /\ [ps[cur] EXCEPT !.strategy = sl, !.flag = f, !.rule = r,
                            !.deps = d, !.kids = {}, !.uses = u] \in Proofstate(Nodes)
         /\ [ps[cur] EXCEPT !.strategy = sl, !.deps = d] \in Proofstate(Nodes)
         /\ [ps[cur] EXCEPT !.strategy = sl, !.flag = f] \in Proofstate(Nodes)
         /\ [ps[cur] EXCEPT !.strategy = sl] \in Proofstate(Nodes)
  BY CurType DEF Proofstate

LEMMA PropaxType == TypeOK /\ Propax => TypeOK'
  BY NodeStep, FlagType, CurType DEF Propax, TypeOK, Flag

LEMMA LeafStepsType ==
  ASSUME TypeOK, cur \in Nodes, NEW s \in Steps
  PROVE  /\ \A o \in OutcomesOf(s) :
              /\ RuleProves(s, o) => TypeOK'
              /\ RuleNoChange(s, o) => TypeOK'
         /\ Skip(s) => TypeOK'
         /\ RuleFails(s) => TypeOK'
         /\ RulePostpones(s) => TypeOK'
<1>1. ps[cur].deps \subseteq Decl /\ ps[cur].rule \in Rule \cup {NoRule, "propax"}
  BY CurType DEF Proofstate
<1>2. ASSUME NEW o \in OutcomesOf(s), RuleProves(s, o) PROVE TypeOK'
  <2>1. RuleOf(s) \in Rule /\ Object(s) \in Slot /\ o.refs \subseteq Decl
    BY <1>2, StepFields, OutcomeFields DEF OutcomesOf
  <2> DEFINE v == [ps[cur] EXCEPT !.strategy = Object(s), !.flag = "!",
                     !.rule = RuleOf(s), !.deps = @ \cup o.refs,
                     !.kids = {}, !.uses = o.refs]
  <2>2. v \in Proofstate(Nodes)  BY <1>1, <2>1, CurType DEF Proofstate, Flag
  <2>3. Return([ps EXCEPT ![cur] = v], cur)  BY <1>2 DEF RuleProves
  <2> QED BY <1>2, <2>2, <2>3, NodeStep DEF RuleProves, TypeOK
<1>3. ASSUME NEW refs \in SUBSET Decl, NoChange(s, refs) PROVE TypeOK'
  <2> DEFINE v == [ps[cur] EXCEPT !.strategy = Expr(s.else), !.deps = @ \cup refs]
  <2>1. v \in Proofstate(Nodes)  BY <1>1, StepFields, CurType DEF Proofstate
  <2>2. Return([ps EXCEPT ![cur] = v], cur)  BY <1>3 DEF NoChange
  <2> QED BY <1>3, <2>1, <2>2, NodeStep DEF NoChange, TypeOK
<1>4. ASSUME NEW o \in OutcomesOf(s), RuleNoChange(s, o) PROVE TypeOK'
  BY <1>3, <1>4, StepFields, OutcomeFields DEF RuleNoChange
<1>5. Skip(s) => TypeOK'  BY <1>3 DEF Skip
<1>6. ASSUME NEW f \in Flag,
             Return([ps EXCEPT ![cur] = [@ EXCEPT !.strategy = Object(s), !.flag = f]], cur),
             UNCHANGED record
      PROVE  TypeOK'
  <2> DEFINE v == [ps[cur] EXCEPT !.strategy = Object(s), !.flag = f]
  <2>1. v \in Proofstate(Nodes)  BY StepFields, CurType DEF Proofstate
  <2>2. Return([ps EXCEPT ![cur] = v], cur)  BY <1>6
  <2> QED BY <1>6, <2>1, <2>2, NodeStep DEF TypeOK
<1>7. RuleFails(s) => TypeOK'  BY <1>6 DEF RuleFails, Flag
<1>8. RulePostpones(s) => TypeOK'  BY <1>6 DEF RulePostpones, Flag
<1> QED BY <1>2, <1>4, <1>5, <1>7, <1>8

(* New proofstates are well formed.                                        *)
LEMMA NewType ==
  ASSUME NEW N, NEW up \in N, NEW upstate \in Proofstate(N), NEW n \in N,
         NEW strat \in BOOLEAN, NEW g \in Nat, NEW a \in BOOLEAN, NEW sl \in Slot
  PROVE  NewProofstate(n, up, upstate, strat, g, a, sl) \in Proofstate(N)
  BY DEF NewProofstate, Proofstate, Flag

(* Subgoals are numbered on from the end of the tree.                      *)
LEMMA AppendType ==
  ASSUME TypeOK, NEW k \in Nat, NEW goal,
         LET N == 1..(Len(ps) + k) IN goal \in Proofstate(N),
         NEW kids \in Seq(Proofstate(1..(Len(ps) + k))), Len(kids) = k
  PROVE  LET P == [ps EXCEPT ![cur] = goal] \o kids
         IN  /\ Tree1(P)
             /\ DOMAIN P = 1..(Len(ps) + k)
             /\ Nodes \subseteq DOMAIN P
<1> DEFINE N == 1..(Len(ps) + k)
           Q == [ps EXCEPT ![cur] = goal]
           P == Q \o kids
<1>1. Nodes = 1..Len(ps) /\ Len(ps) \in Nat /\ cur \in Nodes
  BY DEF TypeOK, Nodes
<1>2. Nodes \subseteq N  BY <1>1
<1>3. ps \in Seq(Proofstate(N))
  <2>1. \A i \in 1..Len(ps) : ps[i] \in Proofstate(N)
    BY <1>1, <1>2, ProofstateGrows DEF TypeOK
  <2> QED BY <2>1, <1>1 DEF TypeOK
<1>4. Q \in Seq(Proofstate(N)) /\ Len(Q) = Len(ps)
  BY <1>1, <1>3, UpdateSeq DEF Nodes
<1> HIDE DEF Q
<1>5. P \in Seq(Proofstate(N)) /\ Len(P) = Len(ps) + k
  BY <1>4
<1>6. DOMAIN P = N  BY <1>1, <1>5
<1>7. P # <<>>  BY <1>1, <1>5 DEF TypeOK
<1> QED BY <1>2, <1>5, <1>6, <1>7 DEF Tree1, Q

LEMMA GoalType ==
  ASSUME NEW M, NEW p \in Proofstate(M), NEW sl \in Slot,
         NEW r \in Rule \cup {NoRule, "propax"}, NEW d \in SUBSET Decl,
         NEW rem \in Seq(M), NEW kd \in SUBSET M, NEW u \in SUBSET Decl
  PROVE  /\ [p EXCEPT !.strategy = sl, !.flag = "?", !.rule = r, !.deps = d,
                       !.remaining = rem, !.kids = kd, !.uses = u] \in Proofstate(M)
         /\ [p EXCEPT !.strategy = sl, !.flag = "?", !.remaining = rem,
                       !.kids = kd] \in Proofstate(M)
  BY DEF Proofstate, Flag

LEMMA SubgoalsType ==
  ASSUME TypeOK, NEW s \in Steps, NEW o \in OutcomesOf(s), RuleSubgoals(s, o)
  PROVE  TypeOK'
<1> DEFINE n == Len(ps)
           k == Len(o.axioms)
           N == 1..(n + k)
           rem == [i \in 1..k |-> n + i]
           new == (n + 1)..(n + k)
           refs == ps[cur].deps \cup o.refs
           goal == [ps[cur] EXCEPT !.strategy = AfterRule(s), !.flag = "?",
                                   !.rule = RuleOf(s), !.deps = refs \cup o.tccs,
                                   !.remaining = rem, !.kids = new,
                                   !.uses = o.refs \cup o.tccs]
           new1(i) == NewProofstate(n + i, cur, goal, FALSE,
                        IF k = 1 THEN 1 ELSE i, o.axioms[i], Expr(s.then))
           kid(i) == [new1(i) EXCEPT !.deps = refs]
           kids == [i \in 1..k |-> kid(i)]
           P == [ps EXCEPT ![cur] = goal] \o kids
<1>1. o.refs \subseteq Decl /\ o.tccs \subseteq Decl /\ o.axioms \in Seq(BOOLEAN)
  BY StepFields, OutcomeFields DEF RuleSubgoals
<1>2. RuleOf(s) \in Rule /\ AfterRule(s) \in Slot /\ Expr(s.then) \in Slot
  BY StepFields, SlotValues DEF OutcomesOf, AfterRule
<1>3. n \in Nat /\ k \in Nat /\ Nodes = 1..n /\ cur \in 1..n /\ Nodes \subseteq N
  BY <1>1 DEF TypeOK, Nodes
<1>4. Return(P, cur) /\ UNCHANGED record
  BY DEF RuleSubgoals
<1>5. /\ ps[cur] \in Proofstate(N) /\ refs \subseteq Decl
      /\ refs \cup o.tccs \subseteq Decl /\ o.refs \cup o.tccs \subseteq Decl
  BY <1>1, <1>3, CurType, ProofstateGrows DEF Proofstate
<1>6. rem \in Seq(N) /\ new \subseteq N  BY <1>3
<1>7. cur \in N /\ \A i \in 1..k : n + i \in N  BY <1>3
<1>8. goal \in Proofstate(N)
  <2> HIDE DEF N, rem, new, refs
  <2> QED BY <1>1, <1>2, <1>5, <1>6, GoalType
<1> HIDE DEF goal
<1>9. ASSUME NEW i \in 1..k PROVE kid(i) \in Proofstate(N)
  <2>1. o.axioms[i] \in BOOLEAN /\ n + i \in N /\ cur \in N
    BY <1>1, <1>7
  <2>2. (IF k = 1 THEN 1 ELSE i) \in Nat  BY <1>3
  <2> HIDE DEF N, n, k, refs
  <2>3. new1(i) \in Proofstate(N)  BY <1>2, <1>8, <2>1, <2>2, NewType
  <2> HIDE DEF new1
  <2> QED BY <1>5, <2>3 DEF Proofstate
<1> HIDE DEF kid
<1>10. kids \in Seq(Proofstate(N)) /\ Len(kids) = k
  <2> HIDE DEF N
  <2> QED BY <1>3, <1>9
<1> HIDE DEF kids
<1>11. Tree1(P) /\ Nodes \subseteq DOMAIN P /\ cur \in DOMAIN P
  BY <1>3, <1>8, <1>10, AppendType
<1> QED BY <1>4, <1>11, TreeStep

LEMMA StrategyStepType ==
  ASSUME TypeOK, NEW s \in Steps, StrategyStep(s)
  PROVE  TypeOK'
<1> DEFINE n == Len(ps)
           N == 1..(n + 1)
           rem == <<n + 1>>
           new == {n + 1}
           goal == [ps[cur] EXCEPT !.strategy = Object(s), !.flag = "?",
                                   !.remaining = rem, !.kids = new]
           copy == NewProofstate(n + 1, cur, goal, TRUE, 1, FALSE, Expr(s.top))
           P == [ps EXCEPT ![cur] = goal] \o <<copy>>
<1>1. Object(s) \in Slot /\ Expr(s.top) \in Slot  BY StepFields
<1>2. n \in Nat /\ Nodes = 1..n /\ cur \in 1..n /\ Nodes \subseteq N
  BY DEF TypeOK, Nodes
<1>3. Return(P, cur) /\ UNCHANGED record
  BY DEF StrategyStep
<1>4. ps[cur] \in Proofstate(N)
  BY <1>2, CurType, ProofstateGrows
<1>5. rem \in Seq(N) /\ new \subseteq N /\ cur \in N /\ n + 1 \in N  BY <1>2
<1>6. goal \in Proofstate(N)
  <2>1. ps[cur].rule \in Rule \cup {NoRule, "propax"} /\ ps[cur].deps \subseteq Decl
    BY <1>4 DEF Proofstate
  <2> HIDE DEF N, rem, new
  <2> QED BY <1>1, <1>4, <1>5, <2>1, GoalType
<1> HIDE DEF goal
<1>7. copy \in Proofstate(N)
  <2> HIDE DEF N
  <2> QED BY <1>1, <1>5, <1>6, NewType
<1> HIDE DEF copy
<1>8. <<copy>> \in Seq(Proofstate(N)) /\ Len(<<copy>>) = 1
  <2> HIDE DEF N
  <2> QED BY <1>7
<1>9. Tree1(P) /\ Nodes \subseteq DOMAIN P /\ cur \in DOMAIN P
  BY <1>2, <1>6, <1>8, AppendType
<1> QED BY <1>3, <1>9, TreeStep

LEMMA QuitType ==
  ASSUME TypeOK, NEW s \in Steps, Quit(s)
  PROVE  TypeOK'
<1> DEFINE v == [ps[cur] EXCEPT !.strategy = Object(s)]
<1>1. v \in Proofstate(Nodes)  BY StepFields, CurType DEF Proofstate
<1>2. ps' = [ps EXCEPT ![cur] = v]  BY DEF Quit
<1> HIDE DEF v
<1>3. ps' \in Seq(Proofstate(Nodes)) /\ ps' # <<>> /\ Nodes' = Nodes
  BY <1>1, <1>2, UpdateSeq DEF TypeOK, Nodes
<1> QED BY <1>3 DEF TypeOK, Quit

LEMMA ClearedType ==
  ASSUME NEW M, NEW p \in Proofstate(M), NEW sl \in Slot
  PROVE  /\ [Cleared(p) EXCEPT !.strategy = sl] \in Proofstate(M)
         /\ Undone(p) \in Proofstate(M)
<1>0. <<>> \in Seq(M) /\ {} \subseteq M /\ {} \subseteq Decl /\ "fresh" \in Flag
  BY DEF Flag
<1>1. Cleared(p) \in Proofstate(M)
  BY <1>0 DEF Cleared, Proofstate
<1>2. [Cleared(p) EXCEPT !.rule = NoRule, !.deps = {}, !.strategy = Expr(QueryStep)]
        \in Proofstate(M)
  BY <1>1, SlotValues DEF Proofstate
<1> QED BY <1>1, <1>2 DEF Undone, Proofstate

LEMMA AbortType == TypeOK /\ Abort => TypeOK'
<1> SUFFICES ASSUME TypeOK, Abort PROVE TypeOK'  OBVIOUS
<1> DEFINE g == NonStratParent(cur)
           v == [Cleared(ps[g]) EXCEPT !.strategy = Expr(QueryStep)]
<1>1. g \in Nodes  BY CurType DEF NonStratParent, Proofstate
<1>2. ps[g] \in Proofstate(Nodes)  BY <1>1 DEF TypeOK, Nodes
<1>4. v \in Proofstate(Nodes)  BY <1>2, ClearedType, SlotValues
<1>3. Return([ps EXCEPT ![g] = v], g) /\ UNCHANGED record  BY DEF Abort
<1> HIDE DEF v, g
<1> QED BY <1>1, <1>3, <1>4, NodeStep

LEMMA UndoToType ==
  ASSUME TypeOK, NEW s \in Steps, UndoTo(s)
  PROVE  TypeOK'
<1> DEFINE u == [ps[cur] EXCEPT !.strategy = Object(s)]
           left == [ps EXCEPT ![cur] = u]
<1>1. PICK t \in Ancestors(cur) \ {cur} :
        /\ record' = [target |-> t, saved |-> ps[t], leaf |-> cur]
        /\ Return([left EXCEPT ![t] = Undone(left[t])], t)
  BY DEF UndoTo
<1>2. t \in Nodes /\ cur \in Nodes
  BY CurType DEF Ancestors, Proofstate, TypeOK
<1>3. u \in Proofstate(Nodes)  BY StepFields, CurType DEF Proofstate
<1> HIDE DEF u
<1>4. left \in Seq(Proofstate(Nodes)) /\ DOMAIN left = Nodes /\ Len(left) = Len(ps)
  BY <1>3, UpdateSeq DEF TypeOK, Nodes
<1> HIDE DEF left
<1> DEFINE P == [left EXCEPT ![t] = Undone(left[t])]
<1>5. Undone(left[t]) \in Proofstate(Nodes)
  <2>1. left[t] \in Proofstate(Nodes)  BY <1>2, <1>4
  <2> QED BY <2>1, ClearedType, SlotValues
<1>6. P \in Seq(Proofstate(Nodes)) /\ DOMAIN P = Nodes /\ Len(P) = Len(ps)
  BY <1>2, <1>4, <1>5, UpdateSeq
<1> HIDE DEF P
<1>7. Tree1(P) BY <1>6 DEF Tree1, TypeOK
<1>8. /\ ps' \in Seq(Proofstate(Nodes)) /\ ps' # <<>> /\ DOMAIN ps' = Nodes
      /\ cur' \in Nodes /\ Rest1
  BY <1>1, <1>2, <1>6, <1>7, ReturnType DEF TypeOK, P
<1>9. Nodes' = Nodes  BY <1>8 DEF Nodes
<1>10. ps[t] \in Proofstate(Nodes)  BY <1>2 DEF TypeOK, Nodes
<1> QED BY <1>1, <1>2, <1>8, <1>9, <1>10 DEF TypeOK, Rest1

LEMMA AskAgainType ==
  ASSUME TypeOK, AskAgain(cur), UNCHANGED record
  PROVE  TypeOK'
<1> DEFINE v == [ps[cur] EXCEPT !.strategy = Expr(QueryStep)]
<1>1. v \in Proofstate(Nodes)  BY SlotValues, CurType DEF Proofstate
<1>2. Return([ps EXCEPT ![cur] = v], cur)  BY DEF AskAgain
<1> HIDE DEF v
<1> QED BY <1>1, <1>2, NodeStep DEF TypeOK

LEMMA UndoUndoType ==
  ASSUME TypeOK, NEW s \in Steps, UndoUndo(s)
  PROVE  TypeOK'
<1> DEFINE u == Restored(ps[cur], record.saved)
           back == [ps EXCEPT ![cur] = u]
           leaf == record.leaf
           v == [back[leaf] EXCEPT !.strategy = Expr(QueryStep)]
           P == [back EXCEPT ![leaf] = v]
<1>1. cur \in Nodes /\ NoNode \notin Nodes
  BY DEF TypeOK, Nodes, NoNode
<1>2. record # NoRecord
  <2>1. cur = record.target  BY DEF UndoUndo
  <2> QED BY <1>1, <2>1 DEF NoRecord
<1>3. leaf \in Nodes /\ record.saved \in Proofstate(Nodes)
  BY <1>2 DEF TypeOK
<1>4. u \in Proofstate(Nodes)
  BY <1>3, CurType DEF Restored, Proofstate
<1>5. Return(P, leaf) /\ UNCHANGED record  BY DEF UndoUndo
<1> HIDE DEF u
<1>6. back \in Seq(Proofstate(Nodes)) /\ DOMAIN back = Nodes /\ Len(back) = Len(ps)
  BY <1>4, UpdateSeq DEF TypeOK, Nodes
<1> HIDE DEF back
<1>7. v \in Proofstate(Nodes)
  <2>1. back[leaf] \in Proofstate(Nodes)  BY <1>3, <1>6
  <2> QED BY <2>1, SlotValues DEF Proofstate
<1> HIDE DEF v, leaf
<1>8. P \in Seq(Proofstate(Nodes)) /\ DOMAIN P = Nodes /\ Len(P) = Len(ps)
  BY <1>3, <1>6, <1>7, UpdateSeq
<1>9. Tree1(P)  BY <1>8 DEF Tree1, TypeOK
<1> QED BY <1>3, <1>5, <1>8, <1>9, TreeStep

LEMMA StepGoalType == TypeOK /\ StepGoal => TypeOK'
<1> SUFFICES ASSUME TypeOK, StepGoal PROVE TypeOK'  OBVIOUS
<1>1. CASE Abort  BY <1>1, AbortType
<1>2. CASE \E s \in NextSteps :
             \/ \E o \in OutcomesOf(s) :
                  RuleProves(s, o) \/ RuleSubgoals(s, o) \/ RuleNoChange(s, o)
             \/ Skip(s) \/ RuleFails(s) \/ RulePostpones(s)
             \/ StrategyStep(s) \/ Quit(s)
             \/ UndoTo(s) \/ UndoRefused(s) \/ UndoUndo(s)
  <2>1. PICK s \in Steps :
             \/ \E o \in OutcomesOf(s) :
                  RuleProves(s, o) \/ RuleSubgoals(s, o) \/ RuleNoChange(s, o)
             \/ Skip(s) \/ RuleFails(s) \/ RulePostpones(s)
             \/ StrategyStep(s) \/ Quit(s)
             \/ UndoTo(s) \/ UndoRefused(s) \/ UndoUndo(s)
    BY <1>2, CurType
  <2>2. cur \in Nodes  BY DEF TypeOK
  <2>3. UndoRefused(s) => TypeOK'  BY AskAgainType DEF UndoRefused
  <2> QED BY <2>1, <2>2, <2>3, LeafStepsType, SubgoalsType, StrategyStepType,
             QuitType, UndoToType, UndoUndoType
<1> QED BY <1>1, <1>2 DEF StepGoal

LEMMA TakeSubgoalType == TypeOK /\ TakeSubgoal => TypeOK'
<1> SUFFICES ASSUME TypeOK, TakeSubgoal PROVE TypeOK'  OBVIOUS
<1> DEFINE sub == Head(ps[cur].remaining)
           v == [ps[cur] EXCEPT !.remaining = Tail(ps[cur].remaining), !.current = sub]
<1>1. ps[cur].remaining \in Seq(Nodes) /\ ps[cur].remaining # <<>>
  BY CurType DEF TakeSubgoal, Proofstate
<1>2. sub \in Nodes /\ Tail(ps[cur].remaining) \in Seq(Nodes)  BY <1>1
<1>3. v \in Proofstate(Nodes)  BY <1>2, CurType DEF Proofstate
<1>4. Return([ps EXCEPT ![cur] = v], sub) /\ UNCHANGED record /\ cur \in Nodes
  BY DEF TakeSubgoal, TypeOK
<1> HIDE DEF v, sub
<1> QED BY <1>2, <1>3, <1>4, NodeStep

LEMMA SuccessStepType == TypeOK /\ SuccessStep => TypeOK'
<1> SUFFICES ASSUME TypeOK, SuccessStep PROVE TypeOK'  OBVIOUS
<1> DEFINE v == [ps[cur] EXCEPT !.flag = "!", !.current = NoNode,
                                !.deps = AllDeps(ps[cur])]
<1>1. AllDeps(ps[cur]) \subseteq Decl
  <2>1. ps[cur].deps \subseteq Decl /\ ps[cur].done \subseteq Nodes
    BY CurType DEF Proofstate
  <2>2. ASSUME NEW d \in Nodes PROVE ps[d].deps \subseteq Decl
    <3>1. ps[d] \in Proofstate(Nodes)  BY DEF TypeOK, Nodes
    <3> QED BY <3>1, Fields
  <2> QED BY <2>1, <2>2 DEF AllDeps
<1>2. v \in Proofstate(Nodes)  BY <1>1, CurType DEF Proofstate, Flag
<1>3. Return([ps EXCEPT ![cur] = v], cur) /\ UNCHANGED record /\ cur \in Nodes
  BY DEF SuccessStep, TypeOK
<1> HIDE DEF v
<1> QED BY <1>2, <1>3, NodeStep

LEMMA ReportedType ==
  ASSUME NEW N, NEW p \in Proofstate(N), NEW n \in N
  PROVE  /\ [p EXCEPT !.done = p.done \cup {n}] \in Proofstate(N)
         /\ [p EXCEPT !.pending = <<n>> \o p.pending, !.current = NoNode]
              \in Proofstate(N)
         /\ \A sl \in Slot :
              [p EXCEPT !.flag = "fresh", !.strategy = sl, !.current = NoNode,
                        !.kids = {}] \in Proofstate(N)
         /\ [p EXCEPT !.flag = "X"] \in Proofstate(N)
<1>1. <<n>> \o p.pending \in Seq(N)
  <2>1. p.pending \in Seq(N)  BY Fields
  <2> QED BY <2>1
<1> QED BY <1>1 DEF Proofstate, Flag

(* next-proofstate returns a well-formed tree.                             *)
LEMMA ReportType ==
  ASSUME NEW N, NEW P \in Seq(Proofstate(N)), DOMAIN P = N, Root \in N, NEW n \in N
  PROVE  /\ Report(P, n) \in Seq(Proofstate(N))
         /\ DOMAIN Report(P, n) = N
         /\ Len(Report(P, n)) = Len(P)
<1> DEFINE Good(Q) == Q \in Seq(Proofstate(N)) /\ DOMAIN Q = N /\ Len(Q) = Len(P)
<1>0. ASSUME NEW m \in N, NEW v \in Proofstate(N) PROVE Good([P EXCEPT ![m] = v])
  BY <1>0, UpdateSeq
<1> HIDE DEF Good
<1>1. ASSUME NEW m \in N
      PROVE  /\ P[m] \in Proofstate(N)
             /\ P[m].strategy \in Slot
             /\ Else(P, m) \in Slot /\ Expr(P[m].strategy.step.then) \in Slot
  <2>1. P[m] \in Proofstate(N)  BY <1>1
  <2> QED BY <2>1, Fields DEF Else
<1>2. CASE P[n].parent = NoNode
  <2> DEFINE v == [P[Root] EXCEPT !.flag = "fresh",
                                  !.strategy = Expr(P[Root].strategy.step.then)]
  <2>1. v \in Proofstate(N)
    <3>1. /\ P[Root] \in Proofstate(N)
          /\ Expr(P[Root].strategy.step.then) \in Slot
      BY <1>1
    <3> HIDE DEF Good
    <3> QED BY ZenonT(60), <3>1 DEF Proofstate, Flag
  <2>2. Report(P, n) = P \/ Report(P, n) = [P EXCEPT ![Root] = v]
    BY <1>2 DEF Report, AtRoot
  <2>3. Good(P)  BY DEF Good
  <2> QED BY <1>0, <2>1, <2>2, <2>3 DEF Good
<1>3. CASE P[n].parent # NoNode
  <2> DEFINE par == P[n].parent
  <2>1. par \in N
    <3>1. P[n] \in Proofstate(N)  BY <1>1
    <3> QED BY <3>1, <1>3, Fields
  <2>2. P[par] \in Proofstate(N) /\ Else(P, par) \in Slot
    BY <1>1, <2>1
  <2>3. /\ [P[par] EXCEPT !.done = P[par].done \cup {n}] \in Proofstate(N)
        /\ [P[par] EXCEPT !.pending = <<n>> \o P[par].pending,
                          !.current = NoNode] \in Proofstate(N)
        /\ [P[par] EXCEPT !.flag = "fresh", !.strategy = Else(P, par),
                          !.current = NoNode, !.kids = {}] \in Proofstate(N)
        /\ [P[par] EXCEPT !.flag = "X"] \in Proofstate(N)
    BY <2>2, ReportedType
  <2>4. [Cleared(P[par]) EXCEPT !.strategy = Else(P, par)] \in Proofstate(N)
    BY <2>2, ClearedType
  <2>5. /\ Good(Done(P, par, n)) /\ Good(Postponed(P, par, n)) /\ Good(Nothing(P, par))
        /\ Good(Failure(P, par, P[n].flag))
    BY <1>0, <2>1, <2>3, <2>4 DEF Done, Postponed, Nothing, Failure
  <2> QED BY <1>3, <2>5 DEF Report, Good
<1> QED BY <1>2, <1>3

LEMMA TreeFacts ==
  ASSUME TypeOK
  PROVE  /\ ps \in Seq(Proofstate(Nodes)) /\ DOMAIN ps = Nodes
         /\ Root \in Nodes /\ cur \in Nodes /\ ps # <<>>
         /\ Above(cur) \in Nodes
<1>1. ps \in Seq(Proofstate(Nodes)) /\ ps # <<>> /\ cur \in Nodes
  BY DEF TypeOK
<1>2. DOMAIN ps = Nodes  BY DEF Nodes
<1>3. Root \in Nodes  BY <1>1 DEF Root, Nodes
<1>4. Above(cur) \in Nodes  BY <1>1, CurType, Fields DEF Above
<1> QED BY <1>1, <1>2, <1>3, <1>4

LEMMA ReportStep ==
  ASSUME TypeOK, NEW P \in Seq(Proofstate(Nodes)), DOMAIN P = Nodes, Len(P) = Len(ps),
         Return(Report(P, cur), Above(cur)), UNCHANGED record
  PROVE  TypeOK'
<1> DEFINE Q == Report(P, cur)
<1>1. Q \in Seq(Proofstate(Nodes)) /\ DOMAIN Q = Nodes /\ Len(Q) = Len(P)
  BY ReportType, TreeFacts
<1> HIDE DEF Q
<1>2. Tree1(Q)  BY <1>1, TreeFacts DEF Tree1
<1>3. Return(Q, Above(cur))  BY DEF Q
<1> QED BY <1>1, <1>2, <1>3, TreeStep, TreeFacts

LEMMA NextProofstateType == TypeOK /\ NextProofstate => TypeOK'
  BY ReportStep, TreeFacts DEF NextProofstate

LEMMA PostponeGoalType == TypeOK /\ PostponeGoal => TypeOK'
<1> SUFFICES ASSUME TypeOK, PostponeGoal PROVE TypeOK'  OBVIOUS
<1> DEFINE v == [ps[cur] EXCEPT !.flag = "*"]
           P == [ps EXCEPT ![cur] = v]
<1>1. v \in Proofstate(Nodes)  BY CurType DEF Proofstate, Flag
<1>2. Return(Report(P, cur), Above(cur)) /\ UNCHANGED record
  BY DEF PostponeGoal
<1> HIDE DEF v
<1>3. P \in Seq(Proofstate(Nodes)) /\ DOMAIN P = Nodes /\ Len(P) = Len(ps)
  BY <1>1, TreeFacts, UpdateSeq
<1> QED BY <1>2, <1>3, ReportStep

LEMMA TransferStrategyType == TypeOK /\ TransferStrategy => TypeOK'
<1> SUFFICES ASSUME TypeOK, TransferStrategy PROVE TypeOK'  OBVIOUS
<1> DEFINE node == ps[cur]
           k == Len(node.pending)
           handed(n) ==
             IF ps[n].pending = <<>>
             THEN [ps[n] EXCEPT !.strategy = Expr(node.strategy.step.then), !.flag = "fresh"]
             ELSE [ps[n] EXCEPT !.strategy = node.strategy, !.flag = "?"]
           rem == [i \in 1..k |-> node.pending[k + 1 - i]]
           moved == [node EXCEPT !.remaining = rem, !.pending = <<>>,
                       !.strategy = IF cur = Root /\ RootKind[script] = "top" THEN @ ELSE Nil]
           P == [n \in Nodes |-> IF n = cur THEN moved
                                 ELSE IF n \in Elems(node.pending) THEN handed(n)
                                 ELSE ps[n]]
<1>1. Return(P, cur) /\ UNCHANGED record  BY DEF TransferStrategy
<1>2. /\ node \in Proofstate(Nodes) /\ node.strategy \in Slot
      /\ Expr(node.strategy.step.then) \in Slot /\ node.pending \in Seq(Nodes)
  BY CurType, Fields
<1>3. rem \in Seq(Nodes)  BY <1>2
<1>4. <<>> \in Seq(Nodes)  OBVIOUS
<1> HIDE DEF rem
<1>5. moved \in Proofstate(Nodes)
  BY <1>2, <1>3, <1>4, SlotValues DEF Proofstate
<1> HIDE DEF moved
<1>6. ASSUME NEW n \in Nodes PROVE ps[n] \in Proofstate(Nodes) /\ handed(n) \in Proofstate(Nodes)
  <2>1. ps[n] \in Proofstate(Nodes)  BY TreeFacts
  <2> QED BY <1>2, <2>1 DEF Proofstate, Flag
<1> HIDE DEF handed
<1>7. Nodes = 1..Len(ps) /\ Len(ps) \in Nat  BY TreeFacts
<1>8. P \in Seq(Proofstate(Nodes)) /\ DOMAIN P = Nodes /\ Len(P) = Len(ps)
  BY <1>5, <1>6, <1>7
<1> HIDE DEF P
<1>9. Tree1(P)  BY <1>8, TreeFacts DEF Tree1
<1> QED BY <1>1, <1>8, <1>9, TreeStep, TreeFacts

LEMMA TypeKept == TypeOK /\ [Next]_vars => TypeOK'
<1> SUFFICES ASSUME TypeOK, [Next]_vars PROVE TypeOK'  OBVIOUS
<1>1. CASE Propax  BY <1>1, PropaxType
<1>2. CASE StepGoal  BY <1>2, StepGoalType
<1>3. CASE TakeSubgoal  BY <1>3, TakeSubgoalType
<1>4. CASE SuccessStep  BY <1>4, SuccessStepType
<1>5. CASE NextProofstate  BY <1>5, NextProofstateType
<1>6. CASE PostponeGoal  BY <1>6, PostponeGoalType
<1>7. CASE TransferStrategy  BY <1>7, TransferStrategyType
<1>8. CASE Ended \/ UNCHANGED vars
  BY <1>8 DEF Ended, vars, TypeOK, Nodes
<1> QED BY <1>1, <1>2, <1>3, <1>4, <1>5, <1>6, <1>7, <1>8 DEF Next, Stepper

(* Every field holds what the code stores in it, and every link leads to a *)
(* proofstate of the attempt (TypeOK), for every strategy language, every  *)
(* behaviour of the rules and any number of proofstates.                   *)
THEOREM TypeCorrect == Spec => []TypeOK
  BY InitType, TypeKept, PTL DEF Spec

-----------------------------------------------------------------------------
(* Attempts without a user.  A script that neither quits, nor undoes, nor  *)
(* asks puts no such step into any slot of the tree.                       *)

(* The parts of each of these strategies are among them, and none of them  *)
(* leads to (quit), to undo or to the prompt, which quits without a user.  *)
LeadsNowhereElse(S) ==
  \A e \in S :
    /\ Def[e].kind # "query*-step"
    /\ Def[e].kind = "rule" => Def[e].rule \notin {"quit", "undo", "undo undo"}
    /\ Def[e].kind = "try" => {Def[e].top, Def[e].then, Def[e].else} \subseteq S
    /\ Def[e].kind = "spread" => Elems(Def[e].branches) \subseteq S
Unasking == {e \in Strategy : \E S \in SUBSET Strategy : e \in S /\ LeadsNowhereElse(S)}

UnaskingStep(s) ==
  /\ s.top \in Unasking
  /\ {s.then, s.else} \subseteq Unasking \cup {None}
UnaskingSlot(slot) ==
  /\ slot.expr \in Unasking \cup {None, Evaluated}
  /\ slot.expr = Evaluated => slot.step.top \in Unasking
  /\ {slot.step.then, slot.step.else} \subseteq Unasking \cup {None}
Unasked(P) == \A n \in DOMAIN P : UnaskingSlot(P[n].strategy)

Unattending ==
  /\ ~ Interrupts
  /\ Call("skip") \in Unasking
  /\ \A s \in Scripts : ProvingTcc[s] => RootKind[s] = "top" /\ s \in Unasking

LEMMA UnaskingParts == LeadsNowhereElse(Unasking) /\ Call("postpone") \in Unasking
<1>1. ASSUME NEW e \in Unasking
      PROVE  /\ Def[e].kind # "query*-step"
             /\ Def[e].kind = "rule" => Def[e].rule \notin {"quit", "undo", "undo undo"}
             /\ Def[e].kind = "try" =>
                  {Def[e].top, Def[e].then, Def[e].else} \subseteq Unasking
             /\ Def[e].kind = "spread" => Elems(Def[e].branches) \subseteq Unasking
  <2>1. PICK S \in SUBSET Strategy : e \in S /\ LeadsNowhereElse(S)
    BY <1>1 DEF Unasking
  <2>2. S \subseteq Unasking  BY <2>1 DEF Unasking
  <2> QED BY <2>1, <2>2 DEF LeadsNowhereElse
<1>2. LeadsNowhereElse({Call("postpone")})
  <2>1. PICK e : e = Call("postpone")  OBVIOUS
  <2>2. Def[e] = [kind |-> "rule", rule |-> "postpone"]
    BY <2>1, EngineAssumption DEF EngineAssumption
  <2>3. Def[e].kind = "rule" /\ Def[e].rule = "postpone"  BY <2>2
  <2>4. \A d \in {e} : d = e  OBVIOUS
  <2>5. LeadsNowhereElse({e})  BY <2>3, <2>4 DEF LeadsNowhereElse
  <2> QED BY <2>1, <2>5
<1>3. Call("postpone") \in Strategy  BY EngineAssumption DEF EngineAssumption
<1>4. Call("postpone") \in Unasking  BY <1>2, <1>3 DEF Unasking
<1> QED BY <1>1, <1>4 DEF LeadsNowhereElse

LEMMA UnaskingEvaluated ==
  ASSUME Unattending, ProvingTcc[script], NEW slot \in Slot, UnaskingSlot(slot),
         NEW g \in Nat, NEW s \in Evaluate(slot, g)
  PROVE  UnaskingStep(s)
<1> DEFINE e == slot.expr
           b == Branch(e, g)
<1>1. CASE e = Evaluated
  BY <1>1 DEF Evaluate, UnaskingSlot, UnaskingStep
<1>2. CASE e = None /\ e # Evaluated
  BY <1>2, UnaskingParts DEF Evaluate, UnaskingStep, Step
<1>3. CASE e # None /\ e # Evaluated
  <2>1. e \in Unasking /\ e \in Strategy
    BY <1>3 DEF UnaskingSlot, Unasking
  <2>2. b \in Unasking
    <3>1. CASE Def[e].kind # "spread"  BY <2>1, <3>1 DEF Branch
    <3>2. CASE Def[e].kind = "spread"
      <4>1. Elems(Def[e].branches) \subseteq Unasking
        BY <2>1, <3>2, UnaskingParts DEF LeadsNowhereElse
      <4>2. CASE g \in 1..Len(Def[e].branches)
        BY <3>2, <4>1, <4>2 DEF Branch, Elems
      <4>3. CASE g \notin 1..Len(Def[e].branches)
        BY <3>2, <4>3 DEF Branch, Unattending
      <4> QED BY <4>2, <4>3
    <3> QED BY <3>1, <3>2
  <2>3. /\ Def[b].kind # "query*-step"
        /\ Def[b].kind = "try" => {Def[b].top, Def[b].then, Def[b].else} \subseteq Unasking
    BY <2>2, UnaskingParts DEF LeadsNowhereElse
  <2> HIDE DEF b
  <2>4. ~ Prompting(Def[b].kind) /\ Unattended(Def[b].kind) = "postpone"
    BY <2>3 DEF Prompting, Unattended
  <2>5. \/ Def[b].kind = "rule" /\ s = Step(b, None, None)
        \/ Def[b].kind = "try" /\ s = Step(Def[b].top, Def[b].then, Def[b].else)
        \/ s = Step(Call("postpone"), None, None)
    BY <1>3, <2>4 DEF Evaluate, b
  <2> QED BY <2>2, <2>3, <2>5, UnaskingParts DEF UnaskingStep, Step
<1> QED BY <1>1, <1>2, <1>3

(* What is stored of such a step.                                          *)
LEMMA UnaskingStored ==
  /\ UnaskingSlot(Nil)
  /\ \A e \in Unasking \cup {None} : UnaskingSlot(Expr(e))
  /\ \A s : UnaskingStep(s) => UnaskingSlot(Object(s))
<1>1. Evaluated \notin Unasking /\ Evaluated # None
  BY EngineAssumption DEF EngineAssumption, Unasking, Evaluated, None
<1> QED BY <1>1 DEF UnaskingSlot, UnaskingStep, Nil, Expr, Object, Step

(* The end of an iteration that leaves such a tree.                        *)
Deciding ==
  ProvingTcc[script] => Unasked(ps) /\ outcome \in {"running", "qed", "failed"}

LEMMA UnaskedReturn ==
  ASSUME Unattending, script \in Scripts, ProvingTcc[script],
         NEW P, Unasked(P), NEW next, Return(P, next)
  PROVE  Deciding'
<1>1. RootKind[script] = "top"  BY DEF Unattending
<1>2. outcome' \in {"running", "qed", "failed"}
  BY <1>1 DEF Return, Ending
<1>3. ps' = P  BY <1>2 DEF Return
<1> QED BY <1>2, <1>3 DEF Deciding, Unasked

LEMMA UnaskedNode ==
  ASSUME NEW P, Unasked(P), NEW m, NEW v, UnaskingSlot(v.strategy)
  PROVE  Unasked([P EXCEPT ![m] = v])
  BY DEF Unasked

(* A list is one of the set its elements are in.                           *)
LEMMA ListOf ==
  ASSUME NEW k \in Nat, NEW S, NEW f, f = [i \in 1..k |-> f[i]],
         \A i \in 1..k : f[i] \in S
  PROVE  f \in Seq(S)
<1>1. f \in [1..k -> S]  OBVIOUS
<1> QED BY <1>1, SeqDef

LEMMA UnaskedMore ==
  ASSUME NEW S, NEW P \in Seq(S), NEW Q \in Seq(S), Unasked(P), Unasked(Q)
  PROVE  Unasked(P \o Q)
<1> SUFFICES ASSUME NEW n \in DOMAIN (P \o Q) PROVE UnaskingSlot((P \o Q)[n].strategy)
  BY DEF Unasked
<1>1. n \in 1..(Len(P) + Len(Q)) /\ Len(P) \in Nat /\ Len(Q) \in Nat  OBVIOUS
<1>2. (P \o Q)[n] = IF n <= Len(P) THEN P[n] ELSE Q[n - Len(P)]  BY <1>1
<1>3. CASE n <= Len(P)
  <2>1. n \in DOMAIN P  BY <1>1, <1>3
  <2> QED BY <1>2, <1>3, <2>1 DEF Unasked
<1>4. CASE ~ (n <= Len(P))
  <2>1. PICK i : i = n - Len(P)  OBVIOUS
  <2>2. i \in DOMAIN Q  BY <1>1, <1>4, <2>1
  <2>3. (P \o Q)[n] = Q[i]  BY <1>2, <1>4, <2>1
  <2> QED BY <2>2, <2>3 DEF Unasked
<1> QED BY <1>3, <1>4

(* The steps of a rule or a strategy on an open goal.                      *)
LEMMA UnaskedGoal ==
  ASSUME Unattending, TypeOK, Deciding, ProvingTcc[script], StepGoal
  PROVE  Deciding'
<1>1. /\ Unasked(ps) /\ script \in Scripts /\ cur \in Nodes
      /\ ps[cur] \in Proofstate(Nodes) /\ ps[cur].strategy \in Slot
  BY CurType DEF Deciding, TypeOK
<1>2. ps[cur].goalnum \in Nat /\ UnaskingSlot(ps[cur].strategy)
  BY <1>1 DEF Unasked, Nodes, Proofstate
<1>3. ~ Abort  BY DEF Abort, Unattending
<1>4. PICK s \in NextSteps :
        \/ \E o \in OutcomesOf(s) :
             RuleProves(s, o) \/ RuleSubgoals(s, o) \/ RuleNoChange(s, o)
        \/ Skip(s) \/ RuleFails(s) \/ RulePostpones(s)
        \/ StrategyStep(s) \/ Quit(s)
        \/ UndoTo(s) \/ UndoRefused(s) \/ UndoUndo(s)
  BY <1>3 DEF StepGoal
<1>5. UnaskingStep(s)  BY <1>1, <1>2, UnaskingEvaluated DEF NextSteps
<1>6. s \in Steps  BY CurType
<1>7. /\ UnaskingSlot(Object(s)) /\ UnaskingSlot(Expr(s.top))
      /\ UnaskingSlot(Expr(s.then)) /\ UnaskingSlot(Expr(s.else))
      /\ UnaskingSlot(AfterRule(s))
  BY <1>5, UnaskingStored DEF UnaskingStep, AfterRule
<1>8. ~ Quit(s) /\ ~ UndoTo(s) /\ ~ UndoRefused(s) /\ ~ UndoUndo(s)
  <2>1. IsRule(s) => RuleOf(s) \notin {"quit", "undo", "undo undo"}
    BY <1>5, UnaskingParts DEF UnaskingStep, LeadsNowhereElse, IsRule, RuleOf
  <2> QED BY <2>1 DEF Quit, UndoTo, UndoRefused, UndoUndo
<1>9. ASSUME NEW v, UnaskingSlot(v.strategy), Return([ps EXCEPT ![cur] = v], cur)
      PROVE  Deciding'
  <2>1. Unasked([ps EXCEPT ![cur] = v])  BY <1>1, <1>9, UnaskedNode
  <2> QED BY <1>1, <1>9, <2>1, UnaskedReturn
<1>10. ASSUME NEW refs, NoChange(s, refs) PROVE Deciding'
  <2> DEFINE v == [ps[cur] EXCEPT !.strategy = Expr(s.else),
                                  !.deps = ps[cur].deps \cup refs]
  <2>1. v.strategy = Expr(s.else)  BY <1>1 DEF Proofstate
  <2>2. Return([ps EXCEPT ![cur] = v], cur)  BY <1>10 DEF NoChange
  <2> HIDE DEF v
  <2> QED BY <1>7, <1>9, <2>1, <2>2
<1>11. ASSUME NEW o \in OutcomesOf(s), RuleProves(s, o) PROVE Deciding'
  <2> DEFINE v == [ps[cur] EXCEPT !.strategy = Object(s), !.flag = "!",
                     !.rule = RuleOf(s), !.deps = ps[cur].deps \cup o.refs,
                     !.kids = {}, !.uses = o.refs]
  <2>1. v.strategy = Object(s)  BY <1>1 DEF Proofstate
  <2>2. Return([ps EXCEPT ![cur] = v], cur)  BY <1>11 DEF RuleProves
  <2> HIDE DEF v
  <2> QED BY <1>7, <1>9, <2>1, <2>2
<1>12. ASSUME NEW f,
              Return([ps EXCEPT ![cur] = [@ EXCEPT !.strategy = Object(s), !.flag = f]],
                     cur)
       PROVE  Deciding'
  <2> DEFINE v == [ps[cur] EXCEPT !.strategy = Object(s), !.flag = f]
  <2>1. v.strategy = Object(s)  BY <1>1 DEF Proofstate
  <2>2. Return([ps EXCEPT ![cur] = v], cur)  BY <1>12
  <2> HIDE DEF v
  <2> QED BY <1>7, <1>9, <2>1, <2>2
<1>14. ASSUME NEW o \in OutcomesOf(s), RuleSubgoals(s, o) PROVE Deciding'
  <2> DEFINE n == Len(ps)
             k == Len(o.axioms)
             refs == ps[cur].deps \cup o.refs
             goal == [ps[cur] EXCEPT !.strategy = AfterRule(s), !.flag = "?",
                                     !.rule = RuleOf(s), !.deps = refs \cup o.tccs,
                                     !.remaining = [i \in 1..k |-> n + i],
                                     !.kids = (n + 1)..(n + k),
                                     !.uses = o.refs \cup o.tccs]
             kid(i) == NewProofstate(n + i, cur, goal, FALSE,
                         IF k = 1 THEN 1 ELSE i, o.axioms[i], Expr(s.then))
             kids == [i \in 1..k |-> [kid(i) EXCEPT !.deps = refs]]
             P == [ps EXCEPT ![cur] = goal]
  <2>1. Return(P \o kids, cur)  BY <1>14 DEF RuleSubgoals
  <2>2. goal.strategy = AfterRule(s)  BY <1>1 DEF Proofstate
  <2>3. k \in Nat
    <3>1. o \in Outcome /\ o.signal = "?"  BY <1>6, <1>14, StepFields DEF RuleSubgoals
    <3> QED BY <3>1, OutcomeFields
  <2>4. \A i \in 1..k : kids[i].strategy = Expr(s.then)
    <3> HIDE DEF goal, k, n, refs
    <3> QED BY DEF NewProofstate
  <2>5. kids = [i \in 1..k |-> kids[i]]
    <3> HIDE DEF goal, n, k, refs
    <3> QED OBVIOUS
  <2> HIDE DEF goal, kids, k
  <2>6. Unasked(P)  BY <1>1, <1>7, <2>2, UnaskedNode
  <2>7. Unasked(kids)  BY <1>7, <2>4, <2>5 DEF Unasked
  <2>8. n \in Nat /\ P = [i \in 1..n |-> P[i]]
    BY <1>1 DEF TypeOK, Nodes
  <2> HIDE DEF P
  <2>9. Unasked(P \o kids)
    <3> DEFINE S == {P[i] : i \in 1..n} \cup {kids[i] : i \in 1..k}
    <3>1. \A i \in 1..n : P[i] \in S  OBVIOUS
    <3>2. \A i \in 1..k : kids[i] \in S  OBVIOUS
    <3> HIDE DEF S, n
    <3>3. P \in Seq(S)  BY <2>8, <3>1, ListOf
    <3>4. kids \in Seq(S)  BY <2>3, <2>5, <3>2, ListOf
    <3> QED BY <2>6, <2>7, <3>3, <3>4, UnaskedMore
  <2> QED BY <1>1, <2>1, <2>9, UnaskedReturn
<1>15. ASSUME StrategyStep(s) PROVE Deciding'
  <2> DEFINE n == Len(ps)
             goal == [ps[cur] EXCEPT !.strategy = Object(s), !.flag = "?",
                                     !.remaining = <<n + 1>>, !.kids = {n + 1}]
             copy == NewProofstate(n + 1, cur, goal, TRUE, 1, FALSE, Expr(s.top))
             P == [ps EXCEPT ![cur] = goal]
  <2>1. Return(P \o <<copy>>, cur)  BY <1>15 DEF StrategyStep
  <2>2. goal.strategy = Object(s)  BY <1>1 DEF Proofstate
  <2>3. copy.strategy = Expr(s.top)
    <3> HIDE DEF goal, n
    <3> QED BY DEF NewProofstate
  <2> HIDE DEF goal, copy
  <2>6. Unasked(P)  BY <1>1, <1>7, <2>2, UnaskedNode
  <2>7. Unasked(<<copy>>)  BY <1>7, <2>3 DEF Unasked
  <2>8. n \in Nat /\ P = [i \in 1..n |-> P[i]]
    BY <1>1 DEF TypeOK, Nodes
  <2> HIDE DEF P
  <2>9. Unasked(P \o <<copy>>)
    <3> DEFINE S == {P[i] : i \in 1..n} \cup {copy}
    <3>1. (\A i \in 1..n : P[i] \in S) /\ copy \in S  OBVIOUS
    <3> HIDE DEF S, n
    <3>2. P \in Seq(S)  BY <2>8, <3>1, ListOf
    <3>3. <<copy>> \in Seq(S)  BY <3>1
    <3> QED BY <2>6, <2>7, <3>2, <3>3, UnaskedMore
  <2> QED BY <1>1, <2>1, <2>9, UnaskedReturn
<1>16. RuleFails(s) \/ RulePostpones(s) => Deciding'
  BY <1>12 DEF RuleFails, RulePostpones
<1>17. Skip(s) => Deciding'  BY <1>10 DEF Skip
<1>18. \A o \in OutcomesOf(s) : RuleNoChange(s, o) => Deciding'
  BY <1>10 DEF RuleNoChange
<1> QED BY <1>4, <1>8, <1>11, <1>14, <1>15, <1>16, <1>17, <1>18

(* next-proofstate hands on parts of steps that are in the tree.           *)
LEMMA UnaskedReport ==
  ASSUME NEW N, NEW P \in Seq(Proofstate(N)), DOMAIN P = N, Root \in N,
         NEW n \in N, Unasked(P)
  PROVE  Unasked(Report(P, n))
<1>1. ASSUME NEW m \in N
      PROVE  /\ P[m] \in Proofstate(N)
             /\ UnaskingSlot(P[m].strategy) /\ UnaskingSlot(Else(P, m))
             /\ UnaskingSlot(Expr(P[m].strategy.step.then))
  <2>1. P[m] \in Proofstate(N) /\ UnaskingSlot(P[m].strategy)
    BY <1>1 DEF Unasked
  <2> QED BY <2>1, UnaskingStored DEF UnaskingSlot, Else
<1>2. CASE P[n].parent = NoNode
  <2> DEFINE v == [P[Root] EXCEPT !.flag = "fresh",
                                  !.strategy = Expr(P[Root].strategy.step.then)]
  <2>1. v.strategy = Expr(P[Root].strategy.step.then)  BY <1>1 DEF Proofstate
  <2>2. Report(P, n) = P \/ Report(P, n) = [P EXCEPT ![Root] = v]
    BY <1>2 DEF Report, AtRoot
  <2> HIDE DEF v
  <2> QED BY <1>1, <2>1, <2>2, UnaskedNode
<1>3. CASE P[n].parent # NoNode
  <2> DEFINE par == P[n].parent
             p == P[par]
             v1 == [p EXCEPT !.done = p.done \cup {n}]
             v2 == [p EXCEPT !.pending = <<n>> \o p.pending, !.current = NoNode]
             v3 == [p EXCEPT !.flag = "fresh", !.strategy = Else(P, par),
                             !.current = NoNode, !.kids = {}]
             v4 == [p EXCEPT !.flag = "X"]
             v5 == [Cleared(p) EXCEPT !.strategy = Else(P, par)]
  <2>1. par \in N
    <3>1. P[n] \in Proofstate(N)  BY <1>1
    <3> QED BY <3>1, <1>3, Fields
  <2>2. p \in Proofstate(N) /\ UnaskingSlot(p.strategy) /\ UnaskingSlot(Else(P, par))
    BY <1>1, <2>1
  <2>3. \E v \in {v1, v2, v3, v4, v5} : Report(P, n) = [P EXCEPT ![par] = v]
    BY <1>3 DEF Report, Done, Postponed, Nothing, Failure
  <2> HIDE DEF p, par
  <2>4. /\ v1.strategy = p.strategy /\ v2.strategy = p.strategy
        /\ v4.strategy = p.strategy
        /\ v3.strategy = Else(P, par)
    BY <2>2 DEF Proofstate
  <2>5. v5.strategy = Else(P, par)
    BY <2>2 DEF Cleared, Proofstate
  <2> HIDE DEF v1, v2, v3, v4, v5
  <2>6. PICK v \in {v1, v2, v3, v4, v5} : Report(P, n) = [P EXCEPT ![par] = v]
    BY <2>3
  <2>7. UnaskingSlot(v.strategy)  BY <2>2, <2>4, <2>5
  <2>8. Unasked([P EXCEPT ![par] = v])  BY <2>7, UnaskedNode
  <2> QED BY <2>6, <2>8
<1> QED BY <1>2, <1>3

LEMMA UnaskedKept ==
  ASSUME Unattending
  PROVE  TypeOK /\ Deciding /\ [Next]_vars => Deciding'
<1> SUFFICES ASSUME TypeOK, Deciding, [Next]_vars PROVE Deciding'  OBVIOUS
<1>1. UNCHANGED script
  <2>1. CASE StepGoal
    <3>1. ASSUME Abort PROVE UNCHANGED script  BY <3>1 DEF Abort, Return
    <3>2. ASSUME NEW s, NEW o,
                 RuleProves(s, o) \/ RuleSubgoals(s, o) \/ RuleNoChange(s, o)
          PROVE  UNCHANGED script
      BY <3>2 DEF RuleProves, RuleSubgoals, RuleNoChange, NoChange, Return
    <3>3. ASSUME NEW s,
                 \/ Skip(s) \/ RuleFails(s) \/ RulePostpones(s)
                 \/ StrategyStep(s) \/ Quit(s)
          PROVE  UNCHANGED script
      BY <3>3 DEF Skip, NoChange, RuleFails, RulePostpones, StrategyStep, Quit, Return
    <3>4. ASSUME NEW s, UndoTo(s) \/ UndoRefused(s) \/ UndoUndo(s)
          PROVE  UNCHANGED script
      BY <3>4 DEF UndoTo, UndoRefused, UndoUndo, AskAgain, Return
    <3> QED BY <2>1, <3>1, <3>2, <3>3, <3>4 DEF StepGoal
  <2>2. CASE Propax \/ TakeSubgoal \/ SuccessStep
    BY <2>2 DEF Propax, TakeSubgoal, SuccessStep, Return
  <2>3. CASE NextProofstate \/ PostponeGoal \/ TransferStrategy
    BY <2>3 DEF NextProofstate, PostponeGoal, TransferStrategy, Return
  <2>4. CASE Ended \/ UNCHANGED vars  BY <2>4 DEF Ended, vars
  <2> QED BY <2>1, <2>2, <2>3, <2>4 DEF Next, Stepper
<1>2. CASE ~ ProvingTcc[script]  BY <1>1, <1>2 DEF Deciding
<1>3. CASE ProvingTcc[script]
  <2>1. /\ Unasked(ps) /\ script \in Scripts /\ cur \in Nodes /\ Nodes = DOMAIN ps
        /\ \A n \in Nodes : ps[n] \in Proofstate(Nodes) /\ UnaskingSlot(ps[n].strategy)
    BY <1>3, TreeFacts DEF Deciding, TypeOK, Nodes, Unasked
  <2>2. ASSUME NEW v, v.strategy = ps[cur].strategy, NEW next,
               Return([ps EXCEPT ![cur] = v], next)
        PROVE  Deciding'
    <3>1. Unasked([ps EXCEPT ![cur] = v])  BY <2>1, <2>2, UnaskedNode
    <3> QED BY <1>3, <2>1, <2>2, <3>1, UnaskedReturn
  <2>3. CASE Propax
    <3> DEFINE v == [ps[cur] EXCEPT !.flag = "!", !.rule = "propax", !.kids = {}]
    <3>1. v.strategy = ps[cur].strategy  BY <2>1 DEF Proofstate
    <3>2. Return([ps EXCEPT ![cur] = v], cur)  BY <2>3 DEF Propax
    <3> HIDE DEF v
    <3> QED BY <2>2, <3>1, <3>2
  <2>4. CASE StepGoal  BY <1>3, <2>4, UnaskedGoal
  <2>5. CASE TakeSubgoal
    <3> DEFINE sub == Head(ps[cur].remaining)
               v == [ps[cur] EXCEPT !.remaining = Tail(ps[cur].remaining),
                                    !.current = sub]
    <3>1. v.strategy = ps[cur].strategy  BY <2>1 DEF Proofstate
    <3>2. Return([ps EXCEPT ![cur] = v], sub)  BY <2>5 DEF TakeSubgoal
    <3> HIDE DEF v, sub
    <3> QED BY <2>2, <3>1, <3>2
  <2>6. CASE SuccessStep
    <3> DEFINE v == [ps[cur] EXCEPT !.flag = "!", !.current = NoNode,
                                    !.deps = AllDeps(ps[cur])]
    <3>1. v.strategy = ps[cur].strategy  BY <2>1 DEF Proofstate
    <3>2. Return([ps EXCEPT ![cur] = v], cur)  BY <2>6 DEF SuccessStep
    <3> HIDE DEF v
    <3> QED BY <2>2, <3>1, <3>2
  <2>7. CASE NextProofstate
    <3>1. Unasked(Report(ps, cur))  BY <2>1, TreeFacts, UnaskedReport
    <3>2. Return(Report(ps, cur), Above(cur))  BY <2>7 DEF NextProofstate
    <3> QED BY <1>3, <2>1, <3>1, <3>2, UnaskedReturn
  <2>8. CASE PostponeGoal
    <3> DEFINE v == [ps[cur] EXCEPT !.flag = "*"]
               P == [ps EXCEPT ![cur] = v]
    <3>1. v.strategy = ps[cur].strategy /\ v \in Proofstate(Nodes)
      <4>1. v.strategy = ps[cur].strategy  BY <2>1 DEF Proofstate
      <4>2. v \in Proofstate(Nodes)  BY CurType DEF Proofstate, Flag
      <4> QED BY <4>1, <4>2
    <3>2. Return(Report(P, cur), Above(cur))  BY <2>8 DEF PostponeGoal
    <3> HIDE DEF v
    <3>3. P \in Seq(Proofstate(Nodes)) /\ DOMAIN P = Nodes
      BY <3>1, TreeFacts, UpdateSeq
    <3>4. Unasked(P)  BY <2>1, <3>1, UnaskedNode
    <3> HIDE DEF P
    <3>5. Unasked(Report(P, cur))  BY <3>3, <3>4, TreeFacts, UnaskedReport
    <3> QED BY <1>3, <2>1, <3>2, <3>5, UnaskedReturn
  <2>9. CASE TransferStrategy
    <3> DEFINE node == ps[cur]
               k == Len(node.pending)
               handed(n) ==
                 IF ps[n].pending = <<>>
                 THEN [ps[n] EXCEPT !.strategy = Expr(node.strategy.step.then), !.flag = "fresh"]
                 ELSE [ps[n] EXCEPT !.strategy = node.strategy, !.flag = "?"]
               moved == [node EXCEPT
                  !.remaining = [i \in 1..k |-> node.pending[k + 1 - i]],
                  !.pending = <<>>,
                  !.strategy = IF cur = Root /\ RootKind[script] = "top" THEN @ ELSE Nil]
               P == [n \in Nodes |-> IF n = cur THEN moved
                                 ELSE IF n \in Elems(node.pending) THEN handed(n)
                                 ELSE ps[n]]
    <3>1. Return(P, cur)  BY <2>9 DEF TransferStrategy
    <3>2. UnaskingSlot(node.strategy) /\ UnaskingSlot(Expr(node.strategy.step.then))
      BY <2>1, UnaskingStored DEF UnaskingSlot
    <3>3. UnaskingSlot(moved.strategy)
      <4>1. moved.strategy \in {node.strategy, Nil}  BY <2>1 DEF Proofstate
      <4> HIDE DEF moved
      <4> QED BY <3>2, <4>1, UnaskingStored
    <3>4. ASSUME NEW n \in Nodes PROVE UnaskingSlot(handed(n).strategy)
      <4>1. handed(n).strategy \in {Expr(node.strategy.step.then), node.strategy}
        BY <2>1 DEF Proofstate
      <4> HIDE DEF handed
      <4> QED BY <3>2, <4>1
    <3> HIDE DEF moved, handed
    <3>5. Unasked(P)  BY <2>1, <3>3, <3>4 DEF Unasked
    <3> HIDE DEF P
    <3> QED BY <1>3, <2>1, <3>1, <3>5, UnaskedReturn
  <2>10. CASE Ended \/ UNCHANGED vars
    BY <2>10 DEF Ended, vars, Deciding, Unasked
  <2> QED BY <2>3, <2>4, <2>5, <2>6, <2>7, <2>8, <2>9, <2>10 DEF Next, Stepper
<1> QED BY <1>2, <1>3

(* "(then S (fail))" decides: an attempt of prove-decl without a user, that *)
(* is not interrupted, does not quit and is not left at a goal, whatever    *)
(* its strategy, if it has no (quit), undo or query*-step in it.            *)
THEOREM AttemptDecides ==
  ASSUME Unattending
  PROVE  Spec => []FailDecides
<1>1. Init => Deciding
  <2> SUFFICES ASSUME Init, ProvingTcc[script]
               PROVE  Unasked(ps) /\ outcome = "running"
    BY DEF Deciding
  <2> DEFINE p == NewProofstate(Root, NoNode, NoProofstate, FALSE, 1, FALSE, Expr(script))
  <2>1. ps = <<p>> /\ script \in Unasking /\ outcome = "running"
    BY DEF Init, Unattending
  <2>2. p.strategy = Expr(script)  BY DEF NewProofstate
  <2> HIDE DEF p
  <2> QED BY <2>1, <2>2, UnaskingStored DEF Unasked
<1>2. TypeOK /\ Deciding /\ [Next]_vars => Deciding'  BY UnaskedKept
<1>3. Deciding => FailDecides  BY DEF Deciding, FailDecides
<1> QED BY <1>1, <1>2, <1>3, TypeCorrect, PTL DEF Spec
=============================================================================
