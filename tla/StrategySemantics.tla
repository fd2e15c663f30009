-------------------------- MODULE StrategySemantics --------------------------
(***************************************************************************)
(* What a strategy does to a goal, said compositionally, and the claim     *)
(* that the stepper of ProofTree, which spreads the work on a strategy     *)
(* over status flags, strategy slots and parent links, computes just that. *)
(*                                                                         *)
(* A result says what became of the goal: it is proved; nothing happened;  *)
(* the strategy failed (a subgoal failed, and the goal may go on to the    *)
(* else part of an enclosing try) or the goal itself was made a failure    *)
(* (which no enclosing try recovers, although an identity of the guide     *)
(* says it does: NestedTryRecovers of MCStrategySemantics); or goals are   *)
(* left open, each with its number among its siblings.                     *)
(***************************************************************************)
EXTENDS ProofTree, FiniteSets

Proved == [kind |-> "proved"]
Unchanged == [kind |-> "unchanged"]
Failed == [kind |-> "failed"]
Refuted == [kind |-> "refuted"]
Left(goals) == [kind |-> "left", goals |-> goals]

OfRule(r) ==
  CASE r = "skip" -> {Unchanged}
    [] r = "fail" -> {Refuted}
    [] OTHER ->
         {CASE o.signal = "!" -> Proved
            [] o.signal = "X" -> Unchanged
            [] OTHER -> Left([i \in 1..Len(o.axioms) |->
                                IF Len(o.axioms) = 1 THEN 1 ELSE i])
          : o \in Outcomes[r]}

(* The goals left of a goal by a further step that had the result r on it. *)
Rest(goalnum, r) ==
  CASE r = Proved -> <<>>
    [] r = Unchanged -> <<goalnum>>
    [] OTHER -> r.goals

(* The results of the step e on a goal with this number; query* asks no    *)
(* user inside an apply.                                                   *)
RECURSIVE Results(_, _), OnGoals(_, _)
Results(e, goalnum) ==
  LET b == Branch(e, goalnum)
      d == Def[b]
      direct == Def[d.top].kind = "rule"
      after(r) ==
        CASE r = Unchanged -> Results(d.else, goalnum)
          [] r = Failed -> Results(d.else, goalnum)
          [] r = Refuted -> IF direct THEN {Refuted} ELSE {Failed}
          [] r = Proved -> {Proved}
          [] OTHER -> OnGoals(d.then, r.goals)
  IN  IF d.kind = "rule" THEN OfRule(d.rule)
      ELSE IF d.kind \in {"query*", "query*-step"} THEN {Unchanged}
      ELSE UNION {after(r) : r \in Results(d.top, IF direct THEN goalnum ELSE 1)}

(* The step e on each of these goals: one failure fails them all.          *)
OnGoals(e, goals) ==
  IF goals = <<>> THEN {Proved}
  ELSE LET heads == Results(e, Head(goals))
           tails == OnGoals(e, Tail(goals))
           both(h, t) ==
             IF {h, t} \cap {Failed, Refuted} # {} THEN Failed
             ELSE LET left == Rest(Head(goals), h) \o
                                (IF t = Proved THEN <<>> ELSE t.goals)
                  IN  IF left = <<>> THEN Proved ELSE Left(left)
       IN  {both(h, t) : h \in heads, t \in tails}

(* What the engine shows at the end of the attempt.                        *)
Shown(r) ==
  CASE r = Proved -> [outcome |-> "qed", open |-> 0]
    [] r \in {Failed, Refuted} -> [outcome |-> "failed", open |-> 0]
    [] r = Unchanged -> [outcome |-> "subgoals", open |-> 1]
    [] OTHER -> [outcome |-> "subgoals", open |-> Len(r.goals)]
Seen == [outcome |-> outcome,
         open |-> IF outcome = "subgoals" THEN Cardinality(OpenGoals) ELSE 0]

(* A strategy run by (apply S) ends with one of the results S has when it  *)
(* is read compositionally: what a step inside S does depends only on the  *)
(* goal it is run on (proofstepper and next-proofstate, for nested try and *)
(* spread), failures counting as the code counts them.                     *)
ResultIsCompositional ==
  RootKind[script] = "apply" /\ outcome # "running" =>
    Seen \in {Shown(r) : r \in Results(script, 1)}
=============================================================================
