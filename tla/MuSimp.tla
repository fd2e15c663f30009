------------------------------- MODULE MuSimp -------------------------------
(***************************************************************************)
(* The proof rule musimp: run-musimp of src/src/BDD/mu.lisp and the two    *)
(* calls of src/src/BDD/mu_interface.c that a keyboard interrupt leaves by *)
(* a long jump.  What is to be refuted is the negation of the chosen       *)
(* formulas of the sequent, restricted to the values its variables have.   *)
(*                                                                         *)
(*   goal         what the rule is applied to                              *)
(*   at           the next step of run-musimp                              *)
(*   store, sig   the BDD package and the user's variables in it           *)
(*   output       mu-output, the edge modelcheck_formula returned          *)
(*   cubes        sum-of-cubes                                             *)
(*   interrupted  bdd_interrupted                                          *)
(*   struck       whether the user has interrupted this call               *)
(*   verdict      what the rule returns to the prover                      *)
(***************************************************************************)
EXTENDS MuCalculus

CONSTANTS
  Goals,         \* what musimp is called on
  FormulaOf(_),  \* the formula to refute, as the constructors build it
  UserVars(_)      \* the number of user variables that building it creates

VARIABLES goal, at, store, sig, output, cubes, interrupted, struck, verdict

vars == <<goal, at, store, sig, output, cubes, interrupted, struck, verdict>>

Stages == {"convert", "modelcheck", "cubes", "quit", "end"}
\* "X" leaves the goal as it is; no subgoals at all is a proof.
Verdicts == {"none", "X", "proved", "subgoals"}

Init ==
  /\ goal \in Goals /\ at = "convert"
  /\ store = InitStore /\ sig = <<>> /\ output = VOID /\ cubes = <<>>
  /\ interrupted = FALSE /\ struck = FALSE /\ verdict = "none"

\* mu_init holds the constants, of formulas and of terms; the conversion
\* creates a variable when it first meets it.
Constants(s) == Folded(IncrRef, s, <<BDD_0, BDD_1, BDD_0, BDD_1>>)
WithVar(p, L) == [s |-> p.s, sig |-> Append(L.sig, p.r)]
Signature(n) ==
  Folded(LAMBDA L, i : WithVar(CreateVar(L.s, VAR_ID_2_BDD_IDX(i)), L),
           [s |-> Constants(InitStore), sig |-> <<>>], [i \in 1 .. n |-> i])
Convert ==
  /\ at = "convert" /\ at' = "modelcheck"
  /\ \E L \in {Signature(UserVars(goal))} : store' = L.s /\ sig' = L.sig
  /\ UNCHANGED <<goal, output, cubes, interrupted, struck, verdict>>

\* modelcheck_formula has dynamic ordering on, whatever musimp was told.
Ordering(s) == [s EXCEPT !.dynamic = TRUE]

\* Both calls clear the flag first; a signal sets it, and the call returns the
\* edge BDD_0 or no list at once.  What the long jump leaves half done in the
\* store is not modelled: nothing reads the store before bdd_quit resets it.
ModelCheck ==
  /\ at = "modelcheck" /\ at' = "cubes"
  /\ \E p \in {Interpret(Ordering(store), FormulaOf(goal), [b |-> sig, R |-> <<>>])} :
       store' = p.s /\ output' = p.r
  /\ interrupted' = FALSE
  /\ UNCHANGED <<goal, sig, cubes, struck, verdict>>

Struck == interrupted' = TRUE /\ struck' = TRUE

ModelCheckInterrupted ==
  /\ at = "modelcheck" /\ at' = "cubes"
  /\ output' = BDD_0 /\ Struck
  /\ UNCHANGED <<goal, store, sig, cubes, verdict>>

SumOfCubes ==
  /\ at = "cubes" /\ at' = "quit"
  /\ \E irredundant \in BOOLEAN :
       \E L \in {CubesOf(store, output, irredundant)} : store' = L.s /\ cubes' = L.cubes
  /\ interrupted' = FALSE
  /\ UNCHANGED <<goal, sig, output, struck, verdict>>

SumOfCubesInterrupted ==
  /\ at = "cubes" /\ at' = "quit"
  /\ cubes' = <<>> /\ Struck
  /\ UNCHANGED <<goal, store, sig, output, verdict>>

\* The user's variables and the constants are given up, then the package
\* goes.  The flag is looked at last.  With cubes the goal may be left as it is
\* too: one of them cannot be put in the terms of PVS, or is the goal again.
Verdict ==
  IF interrupted THEN {"X"} ELSE IF cubes = <<>> THEN {"proved"} ELSE {"subgoals", "X"}
Quit ==
  /\ at = "quit" /\ at' = "end"
  /\ store' = InitStore /\ sig' = <<>>
  /\ verdict' \in Verdict
  /\ UNCHANGED <<goal, output, cubes, interrupted, struck>>

Next ==
  \/ Convert \/ ModelCheck \/ ModelCheckInterrupted
  \/ SumOfCubes \/ SumOfCubesInterrupted \/ Quit

Spec == Init /\ [][Next]_vars
=============================================================================
