----------------------------- MODULE MuCalculus -----------------------------
(***************************************************************************)
(* The mu-calculus model checker of PVS (src/src/BDD/mu/src/mu.c): what a  *)
(* formula or a term evaluates to in a store of the BDD package, and what  *)
(* is left of the store.  As PVS sets it: relational products are used     *)
(* (mu_use_and_smooth), frontiers are not simplified, results are not      *)
(* cached, and iteration goes on until it converges.                       *)
(*                                                                         *)
(* env gives the edges of the Boolean variables (b) and of the relation    *)
(* variables that a fixed point binds (R).                                 *)
(***************************************************************************)
EXTENDS BddQueries, MuFormulas

Bind(env, Z, e) == [env EXCEPT !.R = (Z :> e) @@ @]
Value(value) == IF value THEN BDD_1 ELSE BDD_0

\* Operands are given up once the result is there.
Negation(p) == Drop(BddNot(p.s, p.r), p.r)
Connect(type, p, q) ==
  Drop(Drop(IF type = "cofactor" THEN Constrain(q.s, p.r, q.r)
            ELSE BddBinary(q.s, type, p.r, q.r), p.r), q.r)
Choice(c, p, q) == Drop(Drop(Drop(Ite(q.s, c.r, p.r, q.r), c.r), p.r), q.r)
Smooth(vars, p, q) ==
  Drop(Drop(AndSmooth(q.s, p.r, q.r, RankOrderVars(q.s, vars)), p.r), q.r)
Quantifying(existential, vars, p) ==
  Drop(BddQuantify(p.s, existential, p.r, RankOrderVars(p.s, vars)), p.r)
Differing(vars, p) == Drop(Diff(p.s, p.r, RankOrderVars(p.s, vars)), p.r)
Substituting(v, p, q) == Drop(Drop(Subst(q.s, q.r, v, p.r), p.r), q.r)

\* mu_apply: the arguments replace the placeholders, in order.
Arguments(args) ==
  [v \in {PHV_ID_2_BDD_IDX(i - 1) : i \in DOMAIN args} |-> args[(v + 1) \div 2]]
\* Mutant: they are given up twice.
FreedTwice(p, vec) == Pair(FreeVec(FreeVec(p.s, vec), vec), p.r)
Freed(p, vec) == Pair(FreeVec(p.s, vec), p.r)
Applied(t, args) ==
  IF args = <<>> THEN Assign(t.s, t.r) ELSE SubstPar(t.s, Arguments(args), t.r)
Apply1(t, args) == Freed(Drop(Applied(t, args), t.r), args)

\* mu_abstract: the placeholders replace the variables; each is brought next to
\* its variable in the order first.
WithPlaceHolder(L, p, d, x) ==
  [s |-> ReorderVar(p.s, d, x).s, bdds |-> (x :> p.r) @@ L.bdds]
PlaceHolders(s, vars) ==
  Folded(LAMBDA L, i : WithPlaceHolder(L, CreateVar(L.s, PHV_ID_2_BDD_IDX(i - 1)),
                                         PHV_ID_2_BDD_IDX(i - 1), vars[i]),
           [s |-> s, bdds |-> <<>>], [i \in DOMAIN vars |-> i])
Abstracted(L, vars, f) ==
  Drop(Freed(SubstPar(L.s, L.bdds, f), [i \in DOMAIN vars |-> L.bdds[vars[i]]]), f)
Abstract(vars, p) ==
  IF vars = <<>> THEN Drop(Assign(p.s, p.r), p.r)
  ELSE Abstracted(PlaceHolders(p.s, vars), vars, p.r)

(***************************************************************************)
(* Reachable states: those of S0, then their successors under N, until     *)
(* there are no more; none when one of them violates Inv.  V has the lists *)
(* of variables; the states are held as Tk, and front is a reference to    *)
(* the same edge.                                                          *)
(***************************************************************************)
NextStates(V, p) == Drop(SubstPar(p.s, V.to, p.r), p.r)
Image(V, s, Tk, N) ==
  NextStates(V, Drop(AndSmooth(s, Tk, N, RankOrderVars(s, V.x)), Tk))
Union(p, Tk) == Drop(BddOr(p.s, p.r, Tk), p.r)

RECURSIVE Explore(_, _, _, _, _)
Grow(p, Tk, N, Inv, V) ==
  IF p.r = Tk THEN Pair(Free(p.s, p.r), Tk)
  ELSE Explore(IncrRef(Free(p.s, Tk), p.r), p.r, N, Inv, V)
\* Mutant: the invariant is not looked at.
AdvanceAnyhow(c, Tk, N, Inv, V) ==
  Grow(Union(Image(V, c.s, Tk, N), Tk), Tk, N, Inv, V)
Advance(c, Tk, N, Inv, V) ==
  IF ~c.r THEN Assign(Free(Free(c.s, Tk), Tk), BDD_0)
  ELSE Strictly(LAMBDA p : Grow(p, Tk, N, Inv, V), Union(Image(V, c.s, Tk, N), Tk))
Explore(s, Tk, N, Inv, V) ==
  Strictly(LAMBDA c : Advance(c, Tk, N, Inv, V), Covers(s, Inv, Tk))

\* x_i is $i and y_i is $(n + i): each x is brought next to its y.
StateVar(V, p, n, i) ==
  [V EXCEPT !.s = ReorderVar(p.s, PHV_ID_2_BDD_IDX(i), PHV_ID_2_BDD_IDX(n + i)).s,
            !.x = Append(@, PHV_ID_2_BDD_IDX(i)),
            !.to = (PHV_ID_2_BDD_IDX(n + i) :> p.r) @@ @]
StateVars(s, n) ==
  Folded(LAMBDA V, i : StateVar(V, CreateVar(V.s, PHV_ID_2_BDD_IDX(i - 1)), n, i - 1),
           [s |-> s, x |-> <<>>, to |-> <<>>], [i \in 1 .. n |-> i])
FreeStateVars(V, n, p) ==
  Freed(p, [i \in 1 .. n |-> V.to[PHV_ID_2_BDD_IDX(n + i - 1)]])
ReachFrom(V, N, S0, Inv, n) ==
  FreeStateVars(V, n, Explore(IncrRef(IncrRef(V.s, S0), S0), S0, N, Inv, V))

\* A result that is known without exploring: e if Inv covers it.
IfCovered(c, e, held) ==
  IF c.r THEN Freed(Assign(c.s, e), held) ELSE Freed(Assign(c.s, BDD_0), held)
KnownReach(S0, N) == Term(S0) \/ Term(N)
ReachKnown(s, S0, N, Inv, held) ==
  IF Term(S0) \/ N = BDD_0 THEN IfCovered(Covers(s, Inv, S0), S0, held)
  ELSE IfCovered([s |-> s, r |-> Inv = BDD_1], N, held)

\* The state space, built for a message and given up.
DomainOf(p, v) == Drop(Drop(BddAnd(v.s, p.r, v.r), p.r), v.r)
Domain(s, n) ==
  Folded(LAMBDA p, i : DomainOf(p, CreateVar(p.s, PHV_ID_2_BDD_IDX(n - i))),
           Assign(s, BDD_1), [i \in 1 .. n |-> i])
Reported(p, n) == Pair(LET d == Domain(p.s, n) IN Free(d.s, d.r), p.r)

(***************************************************************************)
(* Fixed points: from nothing or everything, until two iterates are the    *)
(* same; an iterate that goes the wrong way ends it too.                   *)
(***************************************************************************)
RECURSIVE Interpret(_, _, _)
RECURSIVE Iterate(_, _, _, _)
\* Mutant: the last iterate is kept as well.
ConvergedKeeping(p, Ti) == Pair(p.s, Ti)
Converged(p, Ti) == Pair(Free(p.s, p.r), Ti)
FollowOn(c, next, x, env, Ti) ==
  IF x.least # c.r THEN Converged(Pair(c.s, next), Ti)
  ELSE Iterate(Free(c.s, Ti), x, env, next)
Compare(p, x, env, Ti) ==
  IF p.r = Ti THEN Converged(p, Ti)
  ELSE FollowOn(Covers(p.s, p.r, Ti), p.r, x, env, Ti)
Iterate(s, x, env, Ti) ==
  Strictly(LAMBDA p : Compare(p, x, env, Ti), Interpret(s, x.term, Bind(env, x.var, Ti)))
FixedPointOf(s, x, env) ==
  LET T0 == Assign(s, Value(~x.least)) IN Iterate(T0.s, x, env, T0.r)

(***************************************************************************)
(* mu_interpret_formula and mu_interpret_term.                             *)
(***************************************************************************)
\* Exploring takes arities that are known and fit; a constant invariant fits.
BadArities(x, Inv) ==
  \/ {x.N.arity, x.arity} \cap {MU_UNKNOWN_ARITY, MU_ANY_ARITY} # {}
  \/ x.N.arity # 2 * x.arity
  \/ ~Term(Inv) /\ x.Inv.arity # x.arity
Reached(S0, Inv, N, x) ==
  LET operands == <<N.r, S0.r, Inv.r>>
  IN IF KnownReach(S0.r, N.r) THEN ReachKnown(N.s, S0.r, N.r, Inv.r, operands)
     ELSE Freed(IF BadArities(x, Inv.r) THEN Pair(N.s, VOID)
                ELSE ReachFrom(StateVars(N.s, x.arity), N.r, S0.r, Inv.r, x.arity),
                operands)
ReachWith(S0, Inv, N, x) == Reported(Reached(S0, Inv, N, x), x.arity)
\* N is interpreted only when S0 is not a constant.
ReachNext(S0, Inv, x, env) ==
  Strictly(LAMBDA N : ReachWith(S0, Inv, N, x),
           IF Term(S0.r) THEN Assign(Inv.s, BDD_0) ELSE Interpret(Inv.s, x.N, env))
ReachInv(S0, x, env) ==
  Strictly(LAMBDA Inv : ReachNext(S0, Inv, x, env), Interpret(S0.s, x.Inv, env))
ReachOf(s, x, env) ==
  Strictly(LAMBDA S0 : ReachInv(S0, x, env), Interpret(s, x.S0, env))

Second(p, x, env) ==
  Strictly(LAMBDA q : Connect(x.type, p, q), Interpret(p.s, x.right, env))
ChoiceElse(c, p, x, env) ==
  Strictly(LAMBDA q : Choice(c, p, q), Interpret(p.s, x.else, env))
ChoiceThen(c, x, env) ==
  Strictly(LAMBDA p : ChoiceElse(c, p, x, env), Interpret(c.s, x.then, env))
SmoothSecond(p, x, env) ==
  Strictly(LAMBDA q : Smooth(x.vars, p, q), Interpret(p.s, x.f.right, env))
QuantifiedOf(s, x, env) ==
  IF x.existential /\ x.f.type = "and"
  THEN Strictly(LAMBDA p : SmoothSecond(p, x, env), Interpret(s, x.f.left, env))
  ELSE Strictly(LAMBDA p : Quantifying(x.existential, x.vars, p), Interpret(s, x.f, env))

WithArgument(p, L) == [s |-> p.s, args |-> Append(L.args, p.r)]
ArgumentsOf(s, args, env) ==
  Folded(LAMBDA L, f : WithArgument(Interpret(L.s, f, env), L),
           [s |-> s, args |-> <<>>], args)
ApplyTo(L, x, env) ==
  Strictly(LAMBDA t : Apply1(t, L.args), Interpret(L.s, x.term, env))

\* Exactly one of the formulas, or none of them.
Counting(L, one) ==
  Freed(IF one THEN OneOf(L.s, L.args) ELSE NoneOf(L.s, L.args), L.args)
SubstSecond(p, x, env) ==
  Strictly(LAMBDA q : Substituting(VAR_ID_2_BDD_IDX(x.var), p, q), Interpret(p.s, x.g, env))

\* A relation variable that nothing binds is taken to be false.
InterpretIn(s, x, env) ==
  CASE x.type = "CONSTANT" -> Assign(s, Value(x.value))
    [] x.type = "B_VAR" -> Assign(s, env.b[x.var])
    [] x.type = "R_VAR" ->
         Assign(s, IF x.var \in DOMAIN env.R THEN env.R[x.var] ELSE BDD_0)
    [] x.type = "NOT" -> Strictly(Negation, Interpret(s, x.sub, env))
    [] x.type = "ITE" -> Strictly(LAMBDA c : ChoiceThen(c, x, env), Interpret(s, x.cond, env))
    [] x.type = "QUANTIFIED" -> QuantifiedOf(s, x, env)
    [] x.type = "DIFF" -> Strictly(LAMBDA p : Differing(x.vars, p), Interpret(s, x.f, env))
    [] x.type = "ONE_OF" -> Strictly(LAMBDA L : Counting(L, TRUE), ArgumentsOf(s, x.args, env))
    [] x.type = "NONE_OF" -> Strictly(LAMBDA L : Counting(L, FALSE), ArgumentsOf(s, x.args, env))
    [] x.type = "SUBST" -> Strictly(LAMBDA p : SubstSecond(p, x, env), Interpret(s, x.f, env))
    [] x.type = "APPLY" -> Strictly(LAMBDA L : ApplyTo(L, x, env), ArgumentsOf(s, x.args, env))
    [] x.type = "ABSTRACT" -> Strictly(LAMBDA p : Abstract(x.vars, p), Interpret(s, x.f, env))
    [] x.type = "FIXED_POINT" -> FixedPointOf(s, x, env)
    [] x.type = "REACH" -> ReachOf(s, x, env)
    [] OTHER -> Strictly(LAMBDA p : Second(p, x, env), Interpret(s, x.left, env))
Interpret(s, x, env) == Strictly(LAMBDA t : InterpretIn(t, x, env), s)
=============================================================================
