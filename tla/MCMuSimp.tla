------------------------------ MODULE MCMuSimp ------------------------------
(***************************************************************************)
(* Goals for musimp: CTL properties of small transition systems, written   *)
(* as the prelude's theories ctlops and fairctlops write them, reachable   *)
(* states, and comparisons of numbers, with what they mean.                *)
(*                                                                         *)
(* The values of a type are 0 .. n - 1 and a value is the number its bits  *)
(* make; a variable of the sequent or of a binder takes the next bits.     *)
(***************************************************************************)
EXTENDS MuSimp

G == INSTANCE Graphs

CONSTANT Sizes   \* bound: the numbers of states of the transition systems

Bits(n) == BitsNeeded(n - 1)
Pool(n, k) == [j \in 1 .. Bits(n) |-> Bits(n) * k + j]
BoolVars(vs) == [i \in DOMAIN vs |-> BoolVar(vs[i])]
BoolPool(n, k) == BoolVars(Pool(n, k))

\* The value is in S; the pair of values is in R; the value is one of the type.
Equal(bits, i) == Recognizer(bits, i)
Among(bits, S) == Disjunction([i \in DOMAIN S |-> Equal(bits, S[i])])
In(bits, S) == Among(bits, Listing(S))
PairIn(as, bs, R) ==
  LET pairs == Listing(R) IN
  Disjunction([i \in DOMAIN pairs |-> And(Equal(as, pairs[i][1]), Equal(bs, pairs[i][2]))])
Typed(n, bits) == ScalarInclusive(bits, n - 1)
Exists(n, k, f) == Quantifier(TRUE, Pool(n, k), And(Typed(n, BoolPool(n, k)), f))
ForAll(n, k, f) ==
  Quantifier(FALSE, Pool(n, k), Binary("implies", Typed(n, BoolPool(n, k)), f))

(***************************************************************************)
(* ctlops and fairctlops (src/lib/prelude.pvs), for goal g; k and k + 1    *)
(* are the binders.                                                        *)
(***************************************************************************)
Succ(g, T, k) ==
  Exists(g.n, k + 1, And(Application(T, BoolPool(g.n, k + 1)),
                         PairIn(BoolPool(g.n, k), BoolPool(g.n, k + 1), g.N)))
Lambda(g, k, f) == Abstraction(Pool(g.n, k), f)
SetTerm(g, k, S) == Lambda(g, k, In(BoolPool(g.n, k), S))

EXTerm(g, T, k) == Lambda(g, k, Succ(g, T, k))
EGTerm(g, S, k) ==
  FixedPoint(FALSE, k, Lambda(g, k, And(In(BoolPool(g.n, k), S), Succ(g, RelVar(k), k))))
EUTerm(g, S, until, k) ==
  FixedPoint(TRUE, k, Lambda(g, k,
    Or(until, And(In(BoolPool(g.n, k), S), Succ(g, RelVar(k), k)))))
FairEGTerm(g, S, fair, k) ==
  FixedPoint(FALSE, k + 2,
    EUTerm(g, S, And(In(BoolPool(g.n, k), S),
                     And(In(BoolPool(g.n, k), fair),
                         Exists(g.n, k + 3,
                           And(Application(RelVar(k + 2), BoolPool(g.n, k + 3)),
                               PairIn(BoolPool(g.n, k), BoolPool(g.n, k + 3), g.N))))), k))

States(g) == 0 .. g.n - 1
Until(g, S, U, k) == EUTerm(g, S, In(BoolPool(g.n, k), U), k)
OperatorTerm(g) ==
  CASE g.op = "EX" -> EXTerm(g, SetTerm(g, 3, g.p), 1)
    [] g.op = "AX" ->
         NotTerm(Lambda(g, 5, Application(EXTerm(g, NotTerm(SetTerm(g, 3, g.p)), 1),
                                          BoolPool(g.n, 5))))
    [] g.op = "EG" -> EGTerm(g, g.p, 1)
    [] g.op = "EU" -> Until(g, g.p, g.q, 1)
    [] g.op = "AG" -> NotTerm(Until(g, States(g), States(g) \ g.p, 1))
    [] g.op = "AU" ->
         BinaryTerm("and", NotTerm(Until(g, States(g) \ g.q, States(g) \ (g.p \cup g.q), 1)),
                           NotTerm(EGTerm(g, States(g) \ g.q, 3)))
    [] g.op = "fairEG" -> FairEGTerm(g, g.p, g.q, 1)
    [] g.op = "Reachable" ->
         Reach(Abstraction(Pool(g.n, 1) \o Pool(g.n, 2),
                           PairIn(BoolPool(g.n, 1), BoolPool(g.n, 2), g.N)),
               SetTerm(g, 3, g.p), IF g.q = {} THEN ConstantTerm(TRUE) ELSE SetTerm(g, 4, g.q))

\* The same by paths.
Inside(g, S) == g.N \cap (S \X S)
Walks(g, S) == G!ConnectionsIn([node |-> S, edge |-> Inside(g, S)])
OnCycle(g, S) == {s \in S : \E t \in S : <<s, t>> \in Inside(g, S) /\ Walks(g, S)[t, s]}
PredecessorsIn(g, S) == {s \in States(g) : \E t \in S : <<s, t>> \in g.N}
Reaching(g, S, U) == {s \in S : \E t \in U : Walks(g, S)[s, t]}
UntilSet(g, S, U) == U \cup Reaching(g, S, S \cap PredecessorsIn(g, U))
Globally(g, S) == Reaching(g, S, OnCycle(g, S))
ReachSet(g) == {t \in States(g) : \E s \in g.p : Walks(g, States(g))[s, t]}
OperatorSet(g) ==
  LET all == States(g)
  IN CASE g.op = "EX" -> PredecessorsIn(g, g.p)
       [] g.op = "AX" -> all \ PredecessorsIn(g, all \ g.p)
       [] g.op = "EG" -> Globally(g, g.p)
       [] g.op = "EU" -> UntilSet(g, g.p, g.q)
       [] g.op = "AG" -> {s \in all : \A t \in all : Walks(g, all)[s, t] => t \in g.p}
       [] g.op = "AU" ->
            (all \ UntilSet(g, all \ g.q, all \ (g.p \cup g.q))) \ Globally(g, all \ g.q)
       [] g.op = "fairEG" -> Reaching(g, g.p, OnCycle(g, g.p) \cap g.q)
       [] g.op = "Reachable" ->
            IF g.q = {} \/ ReachSet(g) \subseteq g.q THEN ReachSet(g) ELSE {}

(***************************************************************************)
(* Comparisons: x rel y for a variable x of lo .. n - 1 and a number y, or *)
(* for every y of 0 .. m.                                                  *)
(***************************************************************************)
Compare2(rel, as, bs) ==
  CASE rel = "<" -> CreateMuLt(as, bs)
    [] rel = "<=" -> CreateMuLe(as, bs)
    [] rel = "=" -> CreateMuEq(as, bs)
    [] rel = ">" -> CreateMuLt(bs, as)
Related(rel, x, y) ==
  CASE rel = "<" -> x < y [] rel = "<=" -> x <= y [] rel = "=" -> x = y [] rel = ">" -> x > y

\* The bound variable's bits are numbered after those of x.
BitsAfter(g) == [j \in 1 .. BitsNeeded(g.m) |-> Bits(g.n) + j]
ComparedTo(g) ==
  IF g.all
  THEN Quantifier(FALSE, BitsAfter(g),
         Binary("implies", SubrangeInclusive(BoolVars(BitsAfter(g)), 0, g.m),
                Compare2(g.rel, BoolPool(g.n, 0), BoolVars(BitsAfter(g)))))
  ELSE Compare2(g.rel, BoolPool(g.n, 0), ConvertNumber(g.m))

(***************************************************************************)
(* The goals: to prove that a state of init satisfies the operator, or     *)
(* that the comparison holds.                                              *)
(***************************************************************************)
IsCtl(g) == g.kind = "ctl"
State(g) == BoolPool(g.n, 0)
Statement(g) ==
  IF IsCtl(g) THEN Binary("implies", In(State(g), g.init),
                          Application(OperatorTerm(g), State(g)))
  ELSE ComparedTo(g)
Restriction(g) ==
  IF IsCtl(g) THEN Typed(g.n, State(g)) ELSE SubrangeInclusive(State(g), g.lo, g.n - 1)
Formula(g) == Binary("cofactor", Not(Statement(g)), Restriction(g))
VarsOf(g) == IF IsCtl(g) THEN 6 * Bits(g.n) ELSE Bits(g.n) + BitsNeeded(g.m)

Values(g) == IF IsCtl(g) THEN States(g) ELSE g.lo .. g.n - 1
CounterExamples(g) ==
  IF IsCtl(g) THEN g.init \ OperatorSet(g)
  ELSE {x \in Values(g) :
          ~IF g.all THEN \A y \in 0 .. g.m : Related(g.rel, x, y)
                    ELSE Related(g.rel, x, g.m)}

Ctl(n, N, init, op, p, q) ==
  [kind |-> "ctl", n |-> n, N |-> N, init |-> init, op |-> op, p |-> p, q |-> q]
TwoStates ==
  {Ctl(2, N, {0, 1}, op, p, q) :
     N \in SUBSET ((0 .. 1) \X (0 .. 1)),
     op \in {"EU", "AU", "fairEG"}, p \in {{0}, {0, 1}}, q \in {{0}, {1}}}
  \cup {Ctl(2, N, {0}, op, {p}, {}) :
     N \in SUBSET ((0 .. 1) \X (0 .. 1)), op \in {"EX", "AX", "EG", "AG", "Reachable"},
     p \in 0 .. 1}
Chains == {{<<0, 1>>, <<1, 2>>, <<2, 0>>}, {<<0, 1>>, <<1, 1>>, <<1, 2>>},
           {<<0, 0>>, <<0, 2>>, <<2, 1>>}, {<<1, 0>>, <<2, 1>>}}
ThreeStates ==
  {Ctl(3, N, {0, 2}, op, {0, 1}, q) :
     N \in Chains, op \in {"EX", "AX", "EG", "AG", "EU", "AU", "fairEG"}, q \in {{1}, {0, 2}}}
  \cup {Ctl(3, N, {0, 1}, "Reachable", {0}, q) : N \in Chains, q \in {{}, {0, 1}}}
Comparisons ==
  {[kind |-> "number", n |-> n, lo |-> lo, m |-> m, rel |-> rel, all |-> all] :
     n \in {2, 3, 6}, lo \in 0 .. 1, m \in {0, 1, 2, 5}, rel \in {"<", "<=", "=", ">"},
     all \in BOOLEAN}

MCGoals ==
  (IF 2 \in Sizes THEN TwoStates ELSE {}) \cup (IF 3 \in Sizes THEN ThreeStates ELSE {})
  \cup {g \in Comparisons : g.lo < g.n /\ (g.all => g.m > 0)}

(***************************************************************************)
(* Properties.                                                             *)
(***************************************************************************)
TypeOK ==
  /\ goal \in Goals /\ at \in Stages /\ verdict \in Verdicts
  /\ interrupted \in BOOLEAN /\ struck \in BOOLEAN
  /\ \A e \in {output} \cup Range(cubes) \cup Range(sig) :
       \/ e = VOID \/ at = "end" \/ struck
       \/ Ptr(e) \in DOMAIN store.node /\ ~Dead(store, e)

\* The values under which an edge holds, the free variable's bits given.
ValuesOf(e) ==
  {x \in Values(goal) :
     Holds(store, e, {VAR_ID_2_BDD_IDX(i) : i \in {j \in 1 .. Bits(goal.n) : Bit(x, j - 1)}})}

\* Unless it is interrupted, musimp proves exactly the goals that hold, and
\* otherwise leaves one subgoal for each way to fail: the cubes are the values
\* that refute the goal.  This takes the encodings, the fixed points, the
\* relational products and the restriction to the variables' types together.
DecidesGoal ==
  /\ at = "quit" /\ ~struck =>
       UNION {ValuesOf(e) : e \in Range(cubes)} = CounterExamples(goal)
  /\ at = "end" /\ ~struck => (verdict = "proved" <=> CounterExamples(goal) = {})

\* Evaluation gives up every reference it takes: what is left are those of the
\* user's variables, the result and the cubes, each of which run-musimp owns.
Owned == sig \o cubes \o <<output>>
Links(n) ==
  Cardinality({m \in Nodes(store) : store.node[m].ref > 0 /\ Ptr(store.node[m].t) = n})
  + Cardinality({m \in Nodes(store) : store.node[m].ref > 0 /\ Ptr(store.node[m].e) = n})
NothingLeaks ==
  at \in {"cubes", "quit"} /\ ~struck =>
    \A n \in Nodes(store) :
      store.node[n].ref = Links(n)
        + Cardinality({i \in DOMAIN Owned : Owned[i] # VOID /\ Ptr(Owned[i]) = n})

\* An interrupted musimp leaves the goal as it is: mu.lisp says "MU Simplifier
\* interrupted" and returns X.  A signal during the model checking is forgotten
\* when the sum of cubes begins, and BDD_0 has no cubes.
InterruptLeavesGoal == at = "end" /\ struck => verdict = "X"
=============================================================================
