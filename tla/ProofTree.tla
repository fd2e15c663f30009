------------------------------ MODULE ProofTree ------------------------------
(***************************************************************************)
(* The PVS proof engine (src/src/prover/eproofcheck.lisp): prove*-int      *)
(* drives one proof attempt by calling proofstepper on a current           *)
(* proofstate until the root proofstate is closed, has failed or the user  *)
(* quits.  A proofstate is a node of the proof tree; its status-flag says  *)
(* what the stepper does with it, and its strategy says which rule to      *)
(* apply, what to run on the subgoals and what to run when the rule does   *)
(* nothing or a subgoal fails.                                             *)
(*                                                                         *)
(* What a rule does to the formulas of a sequent is abstracted to its      *)
(* signal: a rule closes the goal, replaces it by subgoals, does nothing,  *)
(* fails or postpones.  What the engine does with the signal is modelled   *)
(* in full: one action is one iteration of prove*-int.                     *)
(***************************************************************************)
EXTENDS Integers, Sequences

CONSTANTS
  Strategy,     (* the strategy expressions that can be evaluated             *)
  Def,          (* what each of them is, see StrategyDef                      *)
  LogicRule,    (* the rules that look at the sequent                         *)
  Outcomes,     (* what a logic rule may do: LogicRule -> SUBSET Outcome      *)
  Command,      (* the strategy expressions typed at the "Rule?" prompt       *)
  Decl,         (* the declarations a rule application may refer to           *)
  RootKind,     (* who runs a script: "top" (prove-decl) or "apply" (the rule) *)
  ProvingTcc,   (* *proving-tcc* of a script: no user at the prompt            *)
  Interrupts,   (* whether an interrupt or an error may abort an application  *)
  Scripts,      (* the strategies the root proofstate may start with          *)
  MaxNodes      (* bound on the proofstates one attempt creates               *)

(* A strategy expression is a list, a rule is called by the list of its     *)
(* name.                                                                   *)
Call(name) == <<name>>
None == <<>>                 \* nil in the strategy slot
Evaluated == <<"strategy">>  \* the slot holds an evaluated strategy
QueryStep == Call("query*-step")
Root == 1
NoNode == 0
NoRule == "none"

ControlRule == {"skip", "fail", "postpone", "quit", "undo", "undo undo"}
Rule == LogicRule \cup ControlRule

(***************************************************************************)
(* A strategy expression is a rule; (try top then else); a spread branch,  *)
(* which picks its step by the number of the subgoal it runs on; or one of *)
(* query* and query*-step, which ask the user.                             *)
(***************************************************************************)
StrategyDef ==
  [kind : {"rule"}, rule : Rule]
    \cup [kind : {"try"}, top : Strategy, then : Strategy, else : Strategy]
    \cup [kind : {"spread"}, branches : Seq(Strategy)]
    \cup [kind : {"query*", "query*-step"}]

(* What applying a logic rule to a goal comes to: the goal is closed, is   *)
(* replaced by subgoals (each a propositional axiom or not, TCC subgoals   *)
(* last) or is left as it was; refs are the declarations it refers to, and *)
(* tccs those that only the TCCs it generates refer to.                    *)
Outcome ==
  [signal : {"!", "X"}, refs : SUBSET Decl]
    \cup [signal : {"?"}, refs : SUBSET Decl, tccs : SUBSET Decl,
          axioms : Seq(BOOLEAN)]

(* Sequents are not modelled, so the constants carry no more than their    *)
(* types; spread is only met in the then part of a try.                    *)
ASSUME EngineAssumption ==
  /\ Def \in [Strategy -> StrategyDef]
  /\ {None, Evaluated} \cap Strategy = {}
  /\ {Call("skip"), Call("postpone"), Call("quit"), Call("query*"), QueryStep}
       \subseteq Strategy
  /\ Def[Call("postpone")] = [kind |-> "rule", rule |-> "postpone"]
  /\ LogicRule \cap ControlRule = {}
  /\ Outcomes \in [LogicRule -> SUBSET Outcome]
  /\ Command \subseteq Strategy /\ Scripts \subseteq Strategy
  /\ RootKind \in [Scripts -> {"top", "apply"}]
  /\ ProvingTcc \in [Scripts -> BOOLEAN]
  /\ Interrupts \in BOOLEAN
  /\ MaxNodes \in Nat \ {0}

VARIABLES
  ps,       \* proofstate number -> proofstate; a child has a higher number
  cur,      \* the proofstate prove*-int is called with
  record,   \* *record-undone-proofstate*
  script,   \* the strategy the root started with
  outcome   \* "running", or how prove* ended

vars == <<ps, cur, record, script, outcome>>

Nodes == DOMAIN ps
Flag == {"fresh", "?", "*", "!", "X", "XX"}   \* "fresh" stands for nil and 0

(* The strategy slot: an expression or nil, or the strategy object that     *)
(* evaluating it made.                                                     *)
Step(top, then, else) == [top |-> top, then |-> then, else |-> else]
Expr(e) == [expr |-> e, step |-> Step(None, None, None)]
Object(s) == [expr |-> Evaluated, step |-> s]
Nil == Expr(None)
Steps ==
  [top : Strategy, then : Strategy \cup {None}, else : Strategy \cup {None}]
Slot == {Expr(e) : e \in Strategy \cup {None}} \cup {Object(s) : s \in Steps}

(* A proofstate whose links lead to the proofstates N.                     *)
Proofstate(N) ==
  [parent : N \cup {NoNode},
   above : SUBSET N,       \* the proofstates from parent up to the root
   goal : N,               \* the nearest one that is not a strat-proofstate
   strat : BOOLEAN, goalnum : Nat, axiom : BOOLEAN, flag : Flag,
   done : SUBSET N, pending : Seq(N), remaining : Seq(N),
   current : N \cup {NoNode},
   rule : Rule \cup {NoRule, "propax"}, strategy : Slot, deps : SUBSET Decl,
   kids : SUBSET N,        \* history: the goals the last application produced
   uses : SUBSET Decl]     \* history: the declarations it referred to
NoRecord == [target |-> NoNode]

Elems(s) == {s[i] : i \in 1..Len(s)}
NoDuplicates(s) == \A i, j \in 1..Len(s) : s[i] = s[j] => i = j

(* A child of the proofstate up, numbered n.  The parent links never       *)
(* change, so what they lead to is noted at once: the proofstates above n, *)
(* and the nearest one, n or above it, that is a goal of the proof and not *)
(* a strat-proofstate made to run the first step of a strategy.            *)
NewProofstate(n, up, upstate, strat, goalnum, axiom, strategy) ==
  [parent |-> up, above |-> upstate.above \cup ({up} \ {NoNode}),
   goal |-> IF strat THEN upstate.goal ELSE n,
   strat |-> strat, goalnum |-> goalnum, axiom |-> axiom,
   flag |-> "fresh", done |-> {}, pending |-> <<>>, remaining |-> <<>>,
   current |-> NoNode, rule |-> NoRule, strategy |-> strategy,
   deps |-> upstate.deps, kids |-> {}, uses |-> {}]
NoProofstate == [above |-> {}, goal |-> NoNode, deps |-> {}]

(* A proofstate with the traces of its earlier work removed.               *)
KeepsRemaining(node) ==   \* mutant: one trace is left
  [node EXCEPT !.flag = "fresh", !.done = {}, !.pending = <<>>,
               !.current = NoNode, !.kids = {}, !.uses = {}]
Cleared(node) ==
  [node EXCEPT !.flag = "fresh", !.done = {}, !.pending = <<>>,
               !.remaining = <<>>, !.current = NoNode, !.kids = {}, !.uses = {}]

Init ==
  /\ script \in Scripts
  /\ ps = <<NewProofstate(Root, NoNode, NoProofstate, FALSE, 1, FALSE, Expr(script))>>
  /\ cur = Root
  /\ record = NoRecord
  /\ outcome = "running"

(* The proofstates from n up to the root.                                  *)
Ancestors(n) == ps[n].above \cup {n}
(* nonstrat-parent-proofstate                                              *)
NonStratParent(n) == ps[n].goal
-----------------------------------------------------------------------------
(* The end of an iteration of prove*-int: P is the tree the stepper made   *)
(* and next the proofstate it returned.  Only an iteration on the root can *)
(* be the last one.                                                        *)
Ending(root) ==
  IF root.flag = "!" THEN "qed"
  ELSE IF root.flag \in {"X", "XX"} THEN "failed"
  ELSE IF /\ root.flag \in {"fresh", "*"}
          /\ root.strategy.expr = None
          /\ RootKind[script] = "apply" THEN "subgoals"
  ELSE "running"
Return(P, next) ==
  LET end == IF cur = Root THEN Ending(P[Root]) ELSE "running"
  IN  /\ outcome' = end
      /\ ps' = IF end = "subgoals" THEN [P EXCEPT ![Root] = [@ EXCEPT !.flag = "*"]]
               ELSE P
      /\ cur' = IF end = "running" THEN next ELSE Root
      /\ UNCHANGED script

(* strat-eval: the steps that a slot may come to on a subgoal with this    *)
(* number.  (postpone t) stands in for an empty slot, (skip) for a    *)
(* missing spread branch; only the user's answer at the prompt is a choice.*)
Branch(e, goalnum) ==
  LET d == Def[e]
  IN  IF d.kind # "spread" THEN e
      ELSE IF goalnum \in 1..Len(d.branches) THEN d.branches[goalnum]
      ELSE Call("skip")
Prompting(kind) ==
  /\ kind \in {"query*", "query*-step"}
  /\ ~ ProvingTcc[script]
  /\ RootKind[script] = "top"
QuitsUnattended(kind) == IF ProvingTcc[script] THEN "quit" ELSE "postpone"   \* mutant
Unattended(kind) ==
  IF kind = "query*-step" /\ ProvingTcc[script] THEN "quit" ELSE "postpone"
Evaluate(slot, goalnum) ==
  IF slot.expr = Evaluated THEN {slot.step}
  ELSE IF slot.expr = None THEN {Step(Call("postpone"), None, None)}
  ELSE LET b == Branch(slot.expr, goalnum)
           d == Def[b]
       IN  IF d.kind = "rule" THEN {Step(b, None, None)}
           ELSE IF d.kind = "try" THEN {Step(d.top, d.then, d.else)}
           ELSE IF Prompting(d.kind)
           THEN {Step(c, Call("query*"), Call("query*")) : c \in Command}
           ELSE {Step(Call(Unattended(d.kind)), None, None)}
-----------------------------------------------------------------------------
(* The fresh branch of proofstepper: the step s is what the strategy of    *)
(* the current proofstate evaluates to; rule-apply acts on its topstep.    *)
AtFreshGoal ==
  outcome = "running" /\ ps[cur].flag = "fresh" /\ ~ ps[cur].axiom
NextSteps == Evaluate(ps[cur].strategy, ps[cur].goalnum)
IsRule(s) == Def[s.top].kind = "rule"
RuleOf(s) == Def[s.top].rule
OutcomesOf(s) ==
  IF IsRule(s) /\ RuleOf(s) \in LogicRule THEN Outcomes[RuleOf(s)] ELSE {}

(* check-prop-axiom: the goal is a propositional axiom and is closed       *)
(* before any strategy is looked at.                                       *)
Propax ==
  /\ outcome = "running" /\ ps[cur].flag = "fresh" /\ ps[cur].axiom
  /\ Return([ps EXCEPT ![cur] = [@ EXCEPT !.flag = "!", !.rule = "propax",
                                           !.kids = {}]], cur)
  /\ UNCHANGED record

(* The signal !: the rule closed the goal.                                 *)
RuleProves(s, o) ==
  /\ o.signal = "!"
  /\ Return([ps EXCEPT ![cur] =
               [@ EXCEPT !.strategy = Object(s), !.flag = "!",
                         !.rule = RuleOf(s),
                         !.deps = ps[cur].deps \cup o.refs,
                         !.kids = {}, !.uses = o.refs]], cur)
  /\ UNCHANGED record

(* The strategy a goal keeps once it has subgoals.                         *)
KeepsAlternative(s) == Object(s)   \* mutant: not reset below the root
AfterRule(s) == IF cur = Root /\ RootKind[script] = "top" THEN Object(s) ELSE Nil

(* The signal ?: subgoals.  They run the then part of the step and start   *)
(* from the references made so far, the goal refers to its TCCs' as well;  *)
(* it forgets its strategy unless it is the root of the proof.             *)
RuleSubgoals(s, o) ==
  /\ o.signal = "?"
  /\ LET n == Len(ps)
         k == Len(o.axioms)
         refs == ps[cur].deps \cup o.refs
         goal == [ps[cur] EXCEPT !.strategy = AfterRule(s), !.flag = "?",
                                 !.rule = RuleOf(s), !.deps = refs \cup o.tccs,
                                 !.remaining = [i \in 1..k |-> n + i],
                                 !.kids = (n + 1)..(n + k),
                                 !.uses = o.refs \cup o.tccs]
         kid(i) == NewProofstate(n + i, cur, goal, FALSE,
                     IF k = 1 THEN 1 ELSE i, o.axioms[i], Expr(s.then))
         kids == [i \in 1..k |-> [kid(i) EXCEPT !.deps = refs]]
     IN  /\ n + k <= MaxNodes
         /\ Return([ps EXCEPT ![cur] = goal] \o kids, cur)
  /\ UNCHANGED record

(* The signal X, (skip), or subgoals with a false TCC: the goal is as      *)
(* before and tries the else part next.                                    *)
TriesAgain(s, refs) ==   \* mutant: the same step once more
  /\ Return([ps EXCEPT ![cur] = [@ EXCEPT !.strategy = Expr(s.top)]], cur)
  /\ UNCHANGED record
NoChange(s, refs) ==
  /\ Return([ps EXCEPT ![cur] = [@ EXCEPT !.strategy = Expr(s.else),
                                          !.deps = ps[cur].deps \cup refs]], cur)
  /\ UNCHANGED record
RuleNoChange(s, o) == o.signal = "X" /\ NoChange(s, o.refs)
Skip(s) == IsRule(s) /\ RuleOf(s) = "skip" /\ NoChange(s, {})

(* (fail) and (postpone).                                                  *)
RuleFails(s) ==
  /\ IsRule(s) /\ RuleOf(s) = "fail"
  /\ Return([ps EXCEPT ![cur] = [@ EXCEPT !.strategy = Object(s), !.flag = "XX"]], cur)
  /\ UNCHANGED record
RulePostpones(s) ==
  /\ IsRule(s) /\ RuleOf(s) = "postpone"
  /\ Return([ps EXCEPT ![cur] = [@ EXCEPT !.strategy = Object(s), !.flag = "*"]], cur)
  /\ UNCHANGED record

(* A step whose topstep is itself a strategy runs it on a copy of the goal *)
(* of its own, a strat-proofstate, and keeps the outer strategy.           *)
StrategyStep(s) ==
  /\ ~ IsRule(s)
  /\ LET n == Len(ps)
         goal == [ps[cur] EXCEPT !.strategy = Object(s), !.flag = "?",
                                 !.remaining = <<n + 1>>, !.kids = {n + 1}]
         copy == NewProofstate(n + 1, cur, goal, TRUE, 1, FALSE, Expr(s.top))
     IN  /\ n < MaxNodes
         /\ Return([ps EXCEPT ![cur] = goal] \o <<copy>>, cur)
  /\ UNCHANGED record

(* (quit) throws to prove-decl-body.                                       *)
Quit(s) ==
  /\ IsRule(s) /\ RuleOf(s) = "quit"
  /\ ps' = [ps EXCEPT ![cur] = [@ EXCEPT !.strategy = Object(s)]]
  /\ outcome' = "quit"
  /\ UNCHANGED <<cur, record, script>>

(* An interrupt, or an error in a session, aborts the application: the     *)
(* goal it was run for starts over.                                        *)
Abort ==
  /\ Interrupts /\ RootKind[script] = "top"
  /\ LET goal == NonStratParent(cur)
     IN  Return([ps EXCEPT ![goal] = [Cleared(@) EXCEPT
                             !.strategy = Expr(QueryStep)]], goal)
  /\ UNCHANGED record
-----------------------------------------------------------------------------
(* undo-proof.  An ancestor named by number, label or command goes back to *)
(* being an open goal; the state it had is kept in the record together     *)
(* with the proofstate the command was given at.  Its current-rule and     *)
(* dependent-decls go, the rest of what it knows stays.                    *)
AskAgain(n) == Return([ps EXCEPT ![n] = [@ EXCEPT !.strategy = Expr(QueryStep)]], n)
Undone(node) ==
  [Cleared(node) EXCEPT !.rule = NoRule, !.deps = {}, !.strategy = Expr(QueryStep)]
UndoTo(s) ==
  /\ IsRule(s) /\ RuleOf(s) = "undo"
  /\ \E t \in Ancestors(cur) \ {cur} :
       LET left == [ps EXCEPT ![cur] = [@ EXCEPT !.strategy = Object(s)]]
       IN  /\ ~ ps[t].strat
           /\ record' = [target |-> t, saved |-> ps[t], leaf |-> cur]
           /\ Return([left EXCEPT ![t] = Undone(@)], t)

(* No such ancestor, the goal itself, or the user answers no; or (undo     *)
(* undo) somewhere else than where the last undo led.                      *)
UndoRefused(s) ==
  /\ IsRule(s)
  /\ \/ RuleOf(s) = "undo"
     \/ RuleOf(s) = "undo undo" /\ cur # record.target
  /\ AskAgain(cur)
  /\ UNCHANGED record

(* (undo undo) at the goal the last undo led to.                           *)
ForgetsPending(node, old) ==   \* mutant: one field is not restored
  [node EXCEPT !.flag = old.flag, !.done = old.done,
               !.remaining = old.remaining, !.current = old.current,
               !.rule = old.rule, !.strategy = old.strategy,
               !.kids = old.kids, !.uses = old.uses]
Restored(node, old) ==
  [node EXCEPT !.flag = old.flag, !.done = old.done, !.pending = old.pending,
               !.remaining = old.remaining, !.current = old.current,
               !.rule = old.rule, !.strategy = old.strategy,
               !.kids = old.kids, !.uses = old.uses]
UndoUndo(s) ==
  /\ IsRule(s) /\ RuleOf(s) = "undo undo"
  /\ cur = record.target
  /\ LET back == [ps EXCEPT ![cur] = Restored(@, record.saved)]
     IN  Return([back EXCEPT ![record.leaf] = [@ EXCEPT !.strategy = Expr(QueryStep)]],
                record.leaf)
  /\ UNCHANGED record

StepGoal ==
  /\ AtFreshGoal
  /\ \/ Abort
     \/ \E s \in NextSteps :
          \/ \E o \in OutcomesOf(s) :
               RuleProves(s, o) \/ RuleSubgoals(s, o) \/ RuleNoChange(s, o)
          \/ Skip(s) \/ RuleFails(s) \/ RulePostpones(s)
          \/ StrategyStep(s) \/ Quit(s)
          \/ UndoTo(s) \/ UndoRefused(s) \/ UndoUndo(s)
-----------------------------------------------------------------------------
(* The other branches of proofstepper.                                     *)
Working == outcome = "running" /\ ps[cur].flag = "?"

(* The next remaining subgoal becomes the current one.                     *)
TakeSubgoal ==
  /\ Working /\ ps[cur].remaining # <<>>
  /\ LET sub == Head(ps[cur].remaining)
     IN  Return([ps EXCEPT ![cur] = [@ EXCEPT !.remaining = Tail(ps[cur].remaining),
                                             !.current = sub]], sub)
  /\ UNCHANGED record

(* success-step: every subgoal is done, so the goal is.                    *)
NoneRemaining(node) == node.remaining = <<>>   \* mutant: pending forgotten
AllDone(node) == node.remaining = <<>> /\ node.pending = <<>>
OwnDeps(node) == node.deps                     \* mutant: not inherited
AllDeps(node) == node.deps \cup UNION {ps[d].deps : d \in node.done}
SuccessStep ==
  /\ Working /\ AllDone(ps[cur])
  /\ Return([ps EXCEPT ![cur] = [@ EXCEPT !.flag = "!", !.current = NoNode,
                                          !.deps = AllDeps(ps[cur])]], cur)
  /\ UNCHANGED record

(* next-proofstate: what the flag of the goal n, in the tree P, means to   *)
(* its parent.  A proved goal is done and a postponed one pending.         *)
StillPending(P, par, n) ==   \* mutant: a proved goal goes to the wrong list
  [P EXCEPT ![par] = [@ EXCEPT !.pending = <<n>> \o P[par].pending]]
Done(P, par, n) == [P EXCEPT ![par] = [@ EXCEPT !.done = P[par].done \cup {n}]]
OnlyPending(P, par, n) ==    \* mutant: the list is overwritten
  [P EXCEPT ![par] = [@ EXCEPT !.pending = <<n>>, !.current = NoNode]]
Postponed(P, par, n) ==
  [P EXCEPT ![par] = [@ EXCEPT !.pending = <<n>> \o P[par].pending,
                             !.current = NoNode]]

(* A strat-proofstate that only postponed its goal has done nothing: the   *)
(* outer strategy tries its else part, and a failed goal makes its parent  *)
(* try its own, unless it is nil or the goal was failed by (fail) itself.  *)
Else(P, par) == Expr(P[par].strategy.step.else)
Nothing(P, par) ==
  [P EXCEPT ![par] = [@ EXCEPT !.flag = "fresh", !.strategy = Else(P, par),
                               !.current = NoNode, !.kids = {}]]
Failure(P, par, flag) ==
  IF Else(P, par) = Nil \/ flag = "XX"
  THEN [P EXCEPT ![par] = [@ EXCEPT !.flag = "X"]]
  ELSE [P EXCEPT ![par] = [Cleared(@) EXCEPT !.strategy = Else(P, par)]]

(* The root goes on with the subgoal strategy of its last step if it was   *)
(* postponed.                                                              *)
AtRoot(P) ==
  IF P[Root].flag = "*"
  THEN [P EXCEPT ![Root] = [@ EXCEPT !.flag = "fresh",
                                     !.strategy = Expr(P[Root].strategy.step.then)]]
  ELSE P
Report(P, n) ==
  LET par == P[n].parent
      flag == P[n].flag
  IN  IF par = NoNode THEN AtRoot(P)
      ELSE IF flag = "!" THEN Done(P, par, n)
      ELSE IF flag # "*" THEN Failure(P, par, flag)
      ELSE IF P[n].strat /\ P[n].pending = <<>> THEN Nothing(P, par)
      ELSE Postponed(P, par, n)
LeavesRoot(n) == ps[n].parent   \* mutant: the root has no parent
Above(n) == IF ps[n].parent = NoNode THEN n ELSE ps[n].parent

NextProofstate ==
  /\ outcome = "running" /\ ps[cur].flag \in {"*", "X", "XX", "!"}
  /\ Return(Report(ps, cur), Above(cur))
  /\ UNCHANGED record

(* post-processing-step: only postponed subgoals are left.  Without a      *)
(* subgoal strategy the goal itself is postponed.                          *)
PostponeGoal ==
  /\ Working /\ ps[cur].remaining = <<>> /\ ps[cur].pending # <<>>
  /\ ps[cur].strategy.step.then = None
  /\ Return(Report([ps EXCEPT ![cur] = [@ EXCEPT !.flag = "*"]], cur), Above(cur))
  /\ UNCHANGED record

(* With one, transfer-subgoal-strat hands it to the pending subgoals:      *)
(* those that are open goals run it, the others pass it on.                *)
TransferStrategy ==
  /\ Working /\ ps[cur].remaining = <<>> /\ ps[cur].pending # <<>>
  /\ ps[cur].strategy.step.then # None
  /\ LET node == ps[cur]
         k == Len(node.pending)
         handed(n) ==
           IF ps[n].pending = <<>>
           THEN [ps[n] EXCEPT !.strategy = Expr(node.strategy.step.then), !.flag = "fresh"]
           ELSE [ps[n] EXCEPT !.strategy = node.strategy, !.flag = "?"]
         moved == [node EXCEPT
                    !.remaining = [i \in 1..k |-> node.pending[k + 1 - i]],
                    !.pending = <<>>,
                    !.strategy = IF cur = Root /\ RootKind[script] = "top" THEN @ ELSE Nil]
     IN  Return([n \in Nodes |-> IF n = cur THEN moved
                                 ELSE IF n \in Elems(node.pending) THEN handed(n)
                                 ELSE ps[n]], cur)
  /\ UNCHANGED record

Ended == outcome # "running" /\ UNCHANGED vars

Stepper ==
  \/ Propax \/ StepGoal \/ TakeSubgoal \/ SuccessStep
  \/ NextProofstate \/ PostponeGoal \/ TransferStrategy
Next == Stepper \/ Ended

Spec == Init /\ [][Next]_vars
(* prove*-int loops until it returns; the user answers the prompt.         *)
FairSpec == Spec /\ WF_vars(Stepper)
-----------------------------------------------------------------------------
(* Every field holds what the code stores in it.                           *)
TypeOK ==
  /\ ps \in Seq(Proofstate(Nodes)) /\ ps # <<>>
  /\ cur \in Nodes
  /\ \/ record = NoRecord
     \/ record \in [target : Nodes, saved : Proofstate(Nodes), leaf : Nodes]
  /\ script \in Scripts
  /\ outcome \in {"running", "qed", "failed", "subgoals", "quit"}

(* The proof tree: the root, the goals of its last decomposition and, in   *)
(* turn, of each of them.                                                  *)
Tree == {n \in Nodes : \A a \in Ancestors(n) \ {Root} : a \in ps[ps[a].parent].kids}
OpenGoals == {n \in Tree : ps[n].kids = {} /\ ps[n].flag # "!"}

(* No goal is ever dropped: while the engine works on the subgoals of a    *)
(* goal each of them is done, pending, still to come or the current one,   *)
(* and in one of these places only.                                        *)
NoGoalLost ==
  \A n \in Tree : ps[n].flag \in {"?", "*"} =>
    LET p == ps[n]
        waiting == p.pending \o p.remaining
    IN  /\ p.kids = p.done \cup Elems(waiting) \cup ({p.current} \ {NoNode})
        /\ p.done \cap Elems(waiting) = {}
        /\ NoDuplicates(waiting)
        /\ p.current \notin Elems(waiting)

(* Q.E.D. means that the whole tree is closed.                             *)
QedClosesEveryGoal == outcome = "qed" => \A n \in Tree : ps[n].flag = "!"

(* The stepper is at an open goal, whose ancestors all wait for the branch *)
(* that leads to it.  An open goal has no traces of earlier work, unless   *)
(* it is a root whose script has nothing for its postponed subgoals.       *)
PathIntact ==
  outcome = "running" =>
    /\ \A a \in Ancestors(cur) \ {Root} :
         LET up == ps[ps[a].parent]
         IN  up.flag = "?" /\ up.current = a /\ a \in up.kids
    /\ ps[cur].flag = "fresh" =>
         \/ /\ ps[cur].kids = {} /\ ps[cur].done = {}
            /\ ps[cur].pending = <<>> /\ ps[cur].remaining = <<>>
         \/ cur = Root /\ ps[cur].strategy = Nil

(* What is recorded for the proof chain (proof-refers-to, set from the     *)
(* dependent-decls of the root at Q.E.D.) covers what the rules of the     *)
(* finished proof refer to, whatever was undone and redone on the way.     *)
QedRefersToAllUses ==
  outcome = "qed" => UNION {ps[n].uses : n \in Tree} \subseteq ps[Root].deps

(* The apply rule returns to its caller exactly the goals left open.       *)
OnlyRemaining ==   \* mutant: pending subgoals are not looked into
  LET leaves[n \in Nat] ==
        IF ps[n].flag = "*" /\ ps[n].remaining = <<>> THEN {n}
        ELSE UNION {leaves[m] : m \in Elems(ps[n].remaining)}
  IN  leaves[Root]
Leaves[n \in Nodes] ==
  IF ps[n].flag = "*" /\ ps[n].remaining = <<>>
  THEN IF ps[n].pending = <<>> THEN {n}
       ELSE UNION {Leaves[m] : m \in Elems(ps[n].pending)}
  ELSE UNION {Leaves[m] : m \in Elems(ps[n].remaining)}
CollectSubgoals == Leaves[Root]
ApplyReturnsOpenGoals ==
  outcome = "subgoals" => CollectSubgoals = OpenGoals

(* A closed goal is not reopened: it leaves the proof only when a goal     *)
(* above it is started over.                                               *)
ClosedStaysClosed ==
  [][\A n \in Tree : ps[n].flag = "!" => ps'[n].flag = "!"]_vars

(* (then S (fail)) quits the proof unless S completes it: the attempt ends *)
(* proved or failed, never quit or left at a goal (help of fail, the       *)
(* strategies the reruns and the TCC prover pass to prove-decl).           *)
FailDecides == ProvingTcc[script] => outcome \in {"running", "qed", "failed"}

(* A postponed goal is not forgotten: while the attempt goes on, each open *)
(* goal becomes the current one again, whatever the user does at the other *)
(* goals, as long as they do not undo and interrupt for ever (repeated     *)
(* postpones cycle through the pending subgoals).                          *)
StartsOver == Abort \/ \E s \in NextSteps : UndoTo(s) \/ UndoUndo(s)
Settles == <>[][AtFreshGoal => ~ StartsOver]_vars
EveryGoalComesUp ==
  Settles =>
    \A n \in 1..MaxNodes :
      (n \in Nodes /\ n \in OpenGoals)
        ~> (outcome # "running" \/ cur = n \/ n \notin OpenGoals)

(* An attempt without a user comes to an end.                              *)
Terminates == <>(outcome # "running")

(* The engine implements ProofSearch: the tree of the last decompositions, *)
(* its closed goals and the outcome.                                       *)
Goals == INSTANCE ProofSearch WITH
  Goal <- 1..MaxNodes,
  subgoals <- [n \in Tree |-> ps[n].kids],
  proved <- {n \in Tree : ps[n].flag = "!"},
  verdict <- CASE outcome = "running" -> "open"
               [] outcome = "qed" -> "qed"
               [] OTHER -> "ended"
ImplementsProofSearch == Goals!SearchSpec
=============================================================================
