----------------------------- MODULE MCProofTree -----------------------------
(***************************************************************************)
(* ProofTree with a user at the prompt: instances for TLC.                 *)
(***************************************************************************)
EXTENDS ProofTree

Try(a, b, c) == <<"try", a, b, c>>
Then(a, b) == Try(a, b, b)
Backtrack == Try(Call("split"), Call("fail"), Call("skip"))

(* (lemma ...) refers to a declaration and goes on with one goal; (split)  *)
(* makes two, the second of them a TCC that refers to another declaration; *)
(* (flatten) leaves a propositional axiom; (prove) closes the goal or does *)
(* nothing.                                                                *)
MCDecl == {"d1", "d2"}
MCLogicRule == {"lemma", "split", "flatten", "prove"}
MCOutcomes ==
  [lemma |-> {[signal |-> "?", refs |-> {"d1"}, tccs |-> {}, axioms |-> <<FALSE>>]},
   split |-> {[signal |-> "?", refs |-> {}, tccs |-> {"d2"}, axioms |-> <<FALSE, FALSE>>]},
   flatten |-> {[signal |-> "?", refs |-> {}, tccs |-> {}, axioms |-> <<TRUE>>]},
   prove |-> {[signal |-> "!", refs |-> {"d2"}], [signal |-> "X", refs |-> {}]}]

Rules == {Call(r) : r \in Rule}
Queries == {Call("query*"), QueryStep}
MCStrategy == Rules \cup Queries \cup {Backtrack}
Meaning(e) ==
  CASE Len(e) = 4 -> [kind |-> "try", top |-> e[2], then |-> e[3], else |-> e[4]]
    [] e \in Queries -> [kind |-> e[1]]
    [] OTHER -> [kind |-> "rule", rule |-> e[1]]
MCDef == [e \in MCStrategy |-> Meaning(e)]

Interactive == {QueryStep}
AtTop == [s \in Interactive |-> "top"]
Attended == [s \in Interactive |-> FALSE]
Undoable == Rules \cup {Backtrack}
MCCommand == Undoable \ {Call("undo undo")}
MCNoFail == Undoable \ {Call("fail"), Backtrack}
=============================================================================
