------------------------------- MODULE MCWs1s -------------------------------
(***************************************************************************)
(* The decision procedure for WS1S with two variables of each type but one *)
(* Boolean variable.  The first four atoms are small enough to be combined *)
(* with each other and to be quantified twice; the others are quantified   *)
(* and negated.                                                            *)
(***************************************************************************)
EXTENDS Ws1s

Atomic(op, args, n, sz) == [op |-> op, args |-> args, n |-> n, rel |-> "", size |-> sz]
Comparison(op, rel, args, n) == [op |-> op, args |-> args, n |-> n, rel |-> rel, size |-> 3]

SmallAtoms ==
  { Atomic("bool", <<"b">>, 0, 1), Atomic("<", <<"x", "y">>, 0, 1),
    Atomic("in", <<"x", "S">>, 0, 1), Atomic("plus1", <<"y", "x">>, 1, 1) }

Constants == {Atomic("true", <<>>, 0, 3), Atomic("false", <<>>, 0, 3)}

NumberAtoms ==
  {Atomic(op, args, 0, 3) : op \in {"<=", ">=", "eq1"}, args \in {<<"x", "y">>, <<"x", "x">>}}
  \cup {Atomic(">", <<"x", "y">>, 0, 3), Atomic("<", <<"x", "x">>, 0, 3)}
  \cup {Atomic("const", <<"x">>, n, 3) : n \in {0, 2}}
  \cup {Atomic("plus1", <<"x", "y">>, n, 3) : n \in {0, 2}}
  \cup {Comparison(op, rel, <<"x">>, 1) :
          op \in {"compare-left", "compare-right"}, rel \in {"<", ">="}}

SetAtoms ==
  {Atomic(op, args, 0, 3) : op \in {"eq2", "subset", "plus2", "minus2"},
                            args \in {<<"S", "T">>, <<"S", "S">>}}
  \cup {Atomic(op, args, 0, 3) :
          op \in {"union", "intersection"},
          args \in {<<"S", "T", "U">>, <<"S", "S", "T">>, <<"S", "T", "S">>, <<"T", "S", "S">>}}
  \cup {Atomic("difference", args, 0, 3) :
          args \in {<<"S", "T", "U">>, <<"S", "S", "T">>, <<"T", "S", "S">>}}
  \cup {Atomic("empty", <<"S">>, 0, 3)}
  \cup {Atomic("presburger-const", <<"S">>, n, 3) : n \in {0, 5}}

MixedAtoms ==
  {Atomic(op, <<"x", "S">>, 0, 3) : op \in {"max", "min", "single"}}
  \cup {Atomic("const-in", <<"S">>, n, 3) : n \in {0, 2}}
  \cup {Atomic("plus-in", <<"x", "S">>, n, 3) : n \in {0, 1}}

ModuloAtoms ==
  {Atomic(op, args, 0, 3) : op \in {"plusmodulo1", "foreign-minusmodulo1"},
     args \in {<<"x", "y", "z">>, <<"x", "x", "x">>, <<"x", "y", "y">>, <<"x", "y", "x">>}}
  \cup {Atomic("foreign-minusmodulo1", <<"x", "x", "y">>, 0, 3)}

(* The atoms of subtraction are not among them: dfa.lisp makes the atom     *)
(* p_i = p_j - n without its n (dfa-minus1), and calls the constructor of  *)
(* plus for p_i = p_j - 1 modulo p_k (dfa-minusmodulo1), so that the       *)
(* foreign constructor of minus is judged in its place.  The constructors  *)
(* dfaPlusModulo1(i, i, k) and dfaSetminus(i, j, i) are left out as well.  *)
MCAtoms == SmallAtoms \cup Constants \cup NumberAtoms \cup SetAtoms \cup MixedAtoms \cup ModuloAtoms
=============================================================================
