----------------------------- MODULE ProofSearch -----------------------------
(***************************************************************************)
(* What the proof engine promises, without strategies, status flags and    *)
(* proofstates: a tree of goals grows at its open leaves, a goal is proved *)
(* by a rule or by all of its subgoals, a part of the tree that is not     *)
(* finished may be dropped (backtracking, undo, an interrupt), and Q.E.D.  *)
(* is said exactly when the root is proved.                                *)
(***************************************************************************)
CONSTANTS Goal, Root

VARIABLES
  subgoals,  \* the tree: goal -> the goals it was decomposed into
  proved,    \* the proved goals of the tree
  verdict    \* "open", "qed", or "ended" without a proof

avars == <<subgoals, proved, verdict>>

Tree == DOMAIN subgoals
Leaf(g) == g \in Tree /\ subgoals[g] = {} /\ g \notin proved

Start ==
  /\ subgoals = [g \in {Root} |-> {}]
  /\ proved = {}
  /\ verdict = "open"

(* Saying Q.E.D. and proving the root are one step.                        *)
Judge == verdict' = IF Root \in proved' THEN "qed" ELSE verdict

Decompose(g, new) ==
  /\ Leaf(g) /\ new # {} /\ new \cap Tree = {}
  /\ subgoals' = [h \in Tree \cup new |->
                    IF h = g THEN new ELSE IF h \in new THEN {} ELSE subgoals[h]]
  /\ UNCHANGED <<proved, verdict>>

Discharge(g) ==
  /\ Leaf(g)
  /\ proved' = proved \cup {g}
  /\ UNCHANGED subgoals
  /\ Judge

Combine(g) ==
  /\ g \in Tree \ proved /\ subgoals[g] # {} /\ subgoals[g] \subseteq proved
  /\ proved' = proved \cup {g}
  /\ UNCHANGED subgoals
  /\ Judge

(* What is below a goal: its subgoals, theirs and so on, and nothing else. *)
Under(g, below) ==
  /\ subgoals[g] \subseteq below
  /\ \A h \in below : /\ subgoals[h] \subseteq below
                      /\ \E p \in below \cup {g} : h \in subgoals[p]

(* A goal that is not proved is started over: everything below it goes,    *)
(* and nothing else does.                                                  *)
Drop(g) ==
  /\ g \in Tree \ proved
  /\ \E below \in SUBSET (Tree \ {g}) :
       /\ Under(g, below)
       /\ subgoals' = [h \in Tree \ below |-> IF h = g THEN {} ELSE subgoals[h]]
       /\ proved' = proved \ below
  /\ UNCHANGED verdict

GiveUp ==
  /\ Root \notin proved
  /\ verdict' = "ended"
  /\ UNCHANGED <<subgoals, proved>>

Search ==
  /\ verdict = "open"
  /\ \/ \E g \in Tree : Discharge(g) \/ Combine(g) \/ Drop(g)
     \/ \E g \in Tree, new \in SUBSET (Goal \ Tree) : Decompose(g, new)
     \/ GiveUp

SearchSpec == Start /\ [][Search]_avars
=============================================================================
