---------------------------- MODULE BddFunctions ----------------------------
(***************************************************************************)
(* What the BDD package promises (src/src/BDD/bdd/src/bdd.h): its client   *)
(* holds functions of variables that are true or false, makes new ones,    *)
(* and gives some up.  A function is the set of the valuations it is true  *)
(* of, a valuation the set of its true variables.  There are no nodes, no  *)
(* references, no order: collecting and reordering are not seen here.      *)
(***************************************************************************)
EXTENDS Naturals

CONSTANT Vars

VARIABLE function   \* handle -> the function the client holds by it

Valuations == SUBSET Vars

\* What an operation may be called with.
Known == {function[i] : i \in DOMAIN function} \cup {Valuations, {}}

Receive(f) ==
  \E i \in Nat \ DOMAIN function :
    function' = [j \in DOMAIN function \cup {i} |-> IF j = i THEN f ELSE function[j]]

Variable(v) == {x \in Valuations : v \in x}
Ite(f, g, h) == (f \cap g) \cup (h \ f)
\* The function with variable v set to true, or to false.
Cofactor(f, v, set) == {x \in Valuations : (IF set THEN x \cup {v} ELSE x \ {v}) \in f}

MakeVar == \E v \in Vars : Receive(Variable(v))
IteOf == \E f, g, h \in Known : Receive(Ite(f, g, h))
Copy == \E f \in Known : Receive(f)
TakeCofactor == \E f \in Known, v \in Vars, set \in BOOLEAN : Receive(Cofactor(f, v, set))
GiveBack ==
  \E i \in DOMAIN function : function' = [j \in DOMAIN function \ {i} |-> function[j]]

Init == function = [i \in {} |-> {}]

Next == MakeVar \/ IteOf \/ Copy \/ TakeCofactor \/ GiveBack

Spec == Init /\ [][Next]_function
=============================================================================
