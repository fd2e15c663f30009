------------------------- MODULE MCStrategySemantics -------------------------
(***************************************************************************)
(* All the scripts built with two levels of try from a few rules.          *)
(***************************************************************************)
EXTENDS StrategySemantics

Try(a, b, c) == <<"try", a, b, c>>
Then(a, b) == Try(a, b, b)
Spread(branches) == <<"spread">> \o branches

(* (lemma ...) and (flatten) go on with one goal, (split) with two;       *)
(* (flatten) and (assert) may do nothing, (assert) may close the goal.     *)
MCDecl == {}
MCLogicRule == {"split", "lemma", "flatten", "assert"}
Goes(axioms) == [signal |-> "?", refs |-> {}, tccs |-> {}, axioms |-> axioms]
Does(signal) == [signal |-> signal, refs |-> {}]
MCOutcomes ==
  [lemma |-> {Goes(<<FALSE>>)}, split |-> {Goes(<<FALSE, FALSE>>)},
   flatten |-> {Goes(<<FALSE>>), Does("X")},
   assert |-> {Does("!"), Does("X")}]

Rules == {Call(r) : r \in Rule}
Basic == {Call(r) : r \in {"skip", "fail", "split", "assert"}}
Branches == {Spread(<<Call("assert"), Call("fail")>>), Spread(<<Call("skip")>>)}
Steps1 == Basic \cup {Try(a, b, c) : a, c \in Basic, b \in Basic \cup Branches}
TopNested == {Try(a, b, c) : a \in Steps1, b \in Basic \cup {Call("query*")},
                            c \in Basic}
ThenNested == {Try(a, b, c) : a \in Basic, b \in Steps1,
                  c \in {Call("skip"), Call("fail"), Call("query*")}}
ElseNested == {Try(a, b, c) : a \in Basic, b \in {Call("skip"), Call("split")},
                             c \in Steps1}
Scripts2 == TopNested \cup ThenNested \cup ElseNested

(* What the callers of prove-decl wrap a strategy in: tcc-prove and the    *)
(* reruns.                                                                 *)
OrFail == {Then(s, Call("fail")) :
             s \in Steps1 \cup {Try(Call("split"), b, Call("skip")) : b \in Steps1}
                  \cup {Try(a, b, Call("query*")) : a, b \in Basic}}

(* The second identity of the prover guide for try (prover.tex:6507).      *)
Skipping == Try(Call("skip"), Call("assert"), Call("fail"))
Recovering == Try(Skipping, Call("split"), Call("flatten"))

MCStrategy == Rules \cup Branches \cup Steps1 \cup Scripts2
                \cup OrFail \cup {Skipping, Recovering} \cup {Call("query*"), QueryStep}
Meaning(e) ==
  CASE e[1] = "try" -> [kind |-> "try", top |-> e[2], then |-> e[3], else |-> e[4]]
    [] e[1] = "spread" -> [kind |-> "spread", branches |-> Tail(e)]
    [] e[1] \in {"query*", "query*-step"} -> [kind |-> e[1]]
    [] OTHER -> [kind |-> "rule", rule |-> e[1]]
MCDef == [e \in MCStrategy |-> Meaning(e)]
MCCommand == {}

(* What is run by apply, and what by prove-decl without a user.            *)
MCScripts == Scripts2 \cup OrFail
MCRootKind == [s \in MCScripts |-> IF s \in OrFail THEN "top" ELSE "apply"]
MCProvingTcc == [s \in MCScripts |-> s \in OrFail]

GuideScripts == {Recovering}
GuideRootKind == [s \in GuideScripts |-> "apply"]
GuideProvingTcc == [s \in GuideScripts |-> FALSE]

(* The guide says of try: (try (try (skip) (assert) (fail)) (split)        *)
(* (flatten)) = (flatten), so an apply of the one ends as an apply of the  *)
(* other.  The code does not: (fail) makes the goal itself a failure (XX), *)
(* and next-proofstate then looks for no else part above it.               *)
NestedTryRecovers ==
  script = Recovering /\ outcome # "running" =>
    Seen \in {Shown(r) : r \in Results(Call("flatten"), 1)}
=============================================================================
