-------------------------------- MODULE Ws1s --------------------------------
(***************************************************************************)
(* The decision procedure for WS1S: src/WS1S/lisp.  A formula is           *)
(* translated into an automaton, which reads an assignment of its          *)
(* variables as a word: the first letter holds the Boolean variables, the  *)
(* letter m + 2 the bits of the number m in the sets; a number is the      *)
(* place of the first 1 on its track.  The methods fmla-to-dfa* recur over *)
(* a formula; here the formula is made up as it is read: an action reads   *)
(* an atom, opens or closes a quantifier or applies a connective to what   *)
(* was read last, so that every formula up to a size is translated.        *)
(***************************************************************************)
EXTENDS MonaDfa

CONSTANTS Booleans,   \* the declarations that formulas refer to, of each of the
          Numbers,    \* three types
          Sets,
          Binders,    \* those of them that quantifiers bind
          Atoms,      \* the atoms that are tried
          MaxSize,    \* of what is translated: the sizes of the atoms, 1 for each
                      \* connective and each quantifier
          Horizon     \* the assignments that are compared are below it

VARIABLES size,       \* of what was read so far
          index,      \* *index*
          free,       \* the symbol table: <<name, index>>, the newest first
          boundvars,  \* *boundvars*, the same
          stack       \* what is being translated: formulas with their automata,
                      \* and the quantifiers that are open
vars == <<size, index, free, boundvars, stack>>

----------------------------------------------------------------------------
(* dfa.lisp                                                                 *)

Negation(a) == DfaMinimize(DfaNegation(DfaCopy(a)))
Combine(binfun, a, b) == DfaMinimize(DfaProduct(a, b, binfun))
Conjunction(a, b) == Combine(DfaAND, a, b)

\* In place of Exists: numbers as large as the bound variable's get lost.
ExistsWithoutQuotient(i, a) == DfaMinimize(DfaProject(DfaCopy(a), i))

Exists(i, a) == DfaMinimize(DfaProject(DfaRightQuotient(DfaCopy(a), i), i))
Exists1(i, a) == Exists(i, Conjunction(DfaFirstOrder(i), a))

\* By the level of the variable.
ExistsLevel(v, i, a) == IF v \in Numbers THEN Exists1(i, a) ELSE Exists(i, a)
ForallLevel(v, i, a) == Negation(ExistsLevel(v, i, Negation(a)))

\* The operation that a formula's main operator is translated to.
Binfun == "and" :> DfaAND @@ "or" :> DfaOR @@ "implies" :> DfaIMPL @@ "iff" :> DfaBIIMPL

\* The comparisons: less and lesseq, with the arguments swapped for the others.
Compare(rel, i, j) ==
  CASE rel = "<" -> DfaLess(i, j)
    [] rel = "<=" -> DfaLesseq(i, j)
    [] rel = ">" -> DfaLess(j, i)
    [] rel = ">=" -> DfaLesseq(j, i)

----------------------------------------------------------------------------
(* pvs2dfa.lisp                                                             *)

Bound(table, v) == \E n \in 1 .. Len(table) : table[n][1] = v
Assoc(table, v) == table[SelectInSeq(table, LAMBDA e : e[1] = v)][2]

\* The bound variables are looked at first, the symbol table then.
Lookup(table, v) == IF Bound(boundvars, v) THEN Assoc(boundvars, v) ELSE Assoc(table, v)

\* A name that is not known gets a fresh index.
LookupVar(st, v) ==
  IF Bound(boundvars, v) \/ Bound(st.free, v) THEN st
  ELSE [index |-> st.index + 1, free |-> << <<v, st.index + 1>> >> \o st.free]

LookupVars(args) == FoldLeft(LookupVar, [index |-> index, free |-> free], args)

\* There is a number k, n or p_j + n, with the relation to p_i.
Via(k, a, b) == Exists1(k, Conjunction(a, b))

\* An atom at with the indices ix of its arguments; k is fresh.
AtomToDfa(at, ix, k) ==
  LET i == ix[1]  j == ix[2]  l == ix[3]  n == at.n
  IN  CASE at.op = "true" -> DfaTrue
        [] at.op = "false" -> DfaFalse
        [] at.op = "bool" -> DfaBoolvar(i)
        [] at.op \in {"<", "<=", ">", ">="} -> Compare(at.op, i, j)
        [] at.op = "compare-left" -> Via(k, DfaConst(n, k), Compare(at.rel, k, i))
        [] at.op = "compare-right" -> Via(k, DfaConst(n, k), Compare(at.rel, i, k))
        [] at.op = "const" -> DfaConst(n, i)
        [] at.op = "eq1" -> DfaEq1(i, j)
        [] at.op = "plus1" -> DfaPlus1(i, j, n)
        [] at.op = "minus1" -> DfaMinus1(i, j)
        [] at.op = "empty" -> DfaEmpty(i)
        [] at.op = "eq2" -> DfaEq2(i, j)
        [] at.op = "union" -> DfaUnion(i, j, l)
        [] at.op = "intersection" -> DfaInter(i, j, l)
        [] at.op = "in" -> DfaIn(i, j)
        [] at.op = "const-in" -> Via(k, DfaConst(n, k), DfaIn(k, i))
        [] at.op = "plus-in" -> Via(k, DfaPlus1(k, i, n), DfaIn(k, j))
        \* What dfa.lisp offers beyond the atoms of formulas.
        [] at.op = "subset" -> DfaSubset(i, j)
        [] at.op = "difference" -> DfaSetminus(i, j, l)
        [] at.op = "plus2" -> DfaPlus2(i, j)
        [] at.op = "minus2" -> DfaMinus2(i, j)
        [] at.op = "max" -> DfaMax(i, j)
        [] at.op = "min" -> DfaMin(i, j)
        [] at.op = "plusmodulo1" -> DfaPlusModulo1(i, j, l)
        [] at.op = "minusmodulo1" -> DfaPlusModulo1(i, j, l)
        [] at.op = "foreign-minusmodulo1" -> DfaMinusModulo1(i, j, l)
        [] at.op = "single" -> DfaMinimize(DfaProduct(DfaSingleton(j), DfaIn(i, j), DfaAND))
        [] at.op = "presburger-const" -> DfaPresbConst(i, n)

UsesFresh(at) == at.op \in {"compare-left", "compare-right", "const-in", "plus-in"}

Indices(args, table) == [m \in 1 .. 3 |-> IF m <= Len(args) THEN Lookup(table, args[m]) ELSE 0]

Formula(fml, dfa) == [is |-> "formula", fml |-> fml, dfa |-> dfa]
Open(q, v, i) == [is |-> "open", quantifier |-> q, var |-> v, index |-> i]

IsFormula(e) == e.is = "formula"
Newest(n) == stack[Len(stack) - n]
Below(n) == SubSeq(stack, 1, Len(stack) - n)
Pending(n) == Len(stack) >= n /\ \A m \in 0 .. n - 1 : IsFormula(Newest(m))

OpenVars == {stack[m].var : m \in {m \in 1 .. Len(stack) : ~IsFormula(stack[m])}}

Read(n) == size + n <= MaxSize /\ size' = size + n

\* A name stands for a declaration: outside of the scope of its quantifier, a bound
\* one does not occur.
Visible(v) == v \in OpenVars \/ ~Bound(boundvars, v)

AtomFormula(at) == [op |-> "atom", atom |-> at]

\* atom-to-dfa*
Atom(at) ==
  /\ Read(at.size)
  /\ \A m \in 1 .. Len(at.args) : Visible(at.args[m])
  /\ LET st == LookupVars(at.args)
         k == st.index + 1
     IN  /\ free' = st.free
         /\ index' = IF UsesFresh(at) THEN k ELSE st.index
         /\ stack' = Append(stack, Formula(AtomFormula(at),
                                     AtomToDfa(at, Indices(at.args, st.free), k)))
         /\ UNCHANGED boundvars

\* fmla-to-dfa* of a negation
Negate ==
  /\ Read(1)
  /\ Pending(1)
  /\ stack' = Append(Below(1), Formula([op |-> "not", arg |-> Newest(0).fml],
                                       Negation(Newest(0).dfa)))
  /\ UNCHANGED <<index, free, boundvars>>

\* fmla-binary-connective-to-dfa*
Connect(op) ==
  /\ Read(1)
  /\ Pending(2)
  /\ stack' = Append(Below(2),
                Formula([op |-> op, left |-> Newest(1).fml, right |-> Newest(0).fml],
                        Combine(Binfun[op], Newest(1).dfa, Newest(0).dfa)))
  /\ UNCHANGED <<index, free, boundvars>>

\* A quantifier's variable gets an index before its body is looked at.
OpenQuantifier(q, v) ==
  /\ Read(1)
  /\ v \notin OpenVars
  /\ ~Bound(free, v)
  /\ index' = index + 1
  /\ boundvars' = << <<v, index + 1>> >> \o boundvars
  /\ stack' = Append(stack, Open(q, v, index + 1))
  /\ UNCHANGED free

\* What is put on the variable: a body of two formulas is that of a quantifier over
\* a predicate subtype, whose predicate comes first.
Body == IF Pending(2) THEN 2 ELSE 1

Quantified(q, v, i, pred, body) ==
  IF q = "exists" THEN ExistsLevel(v, i, Conjunction(pred, body))
  ELSE Negation(ExistsLevel(v, i, Conjunction(pred, Negation(body))))

\* fmla-to-dfa* of exists-expr and forall-expr.  *boundvars* keeps the variable.
CloseQuantifier ==
  /\ Pending(1) /\ Len(stack) > Body
  /\ LET o == Newest(Body)
         body == Newest(0)
         pred == IF Body = 2 THEN Newest(1).fml ELSE AtomFormula([op |-> "true", args |-> <<>>])
     IN  /\ ~IsFormula(o)
         /\ stack' = Append(Below(Body + 1),
              Formula([op |-> o.quantifier, var |-> o.var, pred |-> pred, body |-> body.fml],
                IF Body = 2 THEN Quantified(o.quantifier, o.var, o.index, Newest(1).dfa, body.dfa)
                ELSE IF o.quantifier = "exists" THEN ExistsLevel(o.var, o.index, body.dfa)
                ELSE ForallLevel(o.var, o.index, body.dfa)))
  /\ UNCHANGED <<size, index, free, boundvars>>

Init ==
  /\ size = 0 /\ index = 0 /\ free = <<>> /\ boundvars = <<>> /\ stack = <<>>

Next ==
  \/ \E at \in Atoms : Atom(at)
  \/ Negate
  \/ \E op \in DOMAIN Binfun : Connect(op)
  \/ \E q \in {"exists", "forall"}, v \in Binders : OpenQuantifier(q, v)
  \/ CloseQuantifier

Spec == Init /\ [][Next]_vars

----------------------------------------------------------------------------
(* ws1s-strategy.lisp: what is made of the automaton of a whole formula.    *)

Whole == Len(stack) = 1 /\ IsFormula(stack[1])
Result == DfaUnrestrict(stack[1].dfa)

\* symtab-strip
Offsets == [n \in 1 .. Len(free) |-> free[n][2]]

----------------------------------------------------------------------------
(* What formulas mean.                                                      *)

Least(S) == IF S = {} THEN 0 ELSE Min(S)
Greatest(S) == IF S = {} THEN 0 ELSE Max(S)

Related(rel, m, n) ==
  CASE rel = "<" -> m < n [] rel = "<=" -> m <= n [] rel = ">" -> m > n [] rel = ">=" -> m >= n

PlusModulo(m, k) == IF m > k \/ k = 0 THEN 0 ELSE (m + 1) % k
MinusModulo(m, k) == IF m > k \/ k = 0 THEN 0 ELSE IF m > 0 THEN m - 1 ELSE k - 1

AtomHolds(at, env) ==
  LET p == env[at.args[1]]  q == env[at.args[2]]  r == env[at.args[3]]  n == at.n
  IN  CASE at.op = "true" -> TRUE
        [] at.op = "false" -> FALSE
        [] at.op = "bool" -> p
        [] at.op \in {"<", "<=", ">", ">="} -> Related(at.op, p, q)
        [] at.op = "compare-left" -> Related(at.rel, n, p)
        [] at.op = "compare-right" -> Related(at.rel, p, n)
        [] at.op = "const" -> p = n
        [] at.op = "eq1" -> p = q
        [] at.op = "plus1" -> p = q + n
        [] at.op = "minus1" -> p = q - n
        [] at.op = "empty" -> p = {}
        [] at.op = "eq2" -> p = q
        [] at.op = "union" -> p = q \cup r
        [] at.op = "intersection" -> p = q \cap r
        [] at.op = "in" -> p \in q
        [] at.op = "const-in" -> n \in p
        [] at.op = "plus-in" -> p + n \in q
        [] at.op = "subset" -> p \subseteq q
        [] at.op = "difference" -> p = q \ r
        [] at.op = "plus2" -> p = {m + 1 : m \in q}
        [] at.op = "minus2" -> p = {IF m = 0 THEN 0 ELSE m - 1 : m \in q}
        [] at.op = "max" -> p = Greatest(q)
        [] at.op = "min" -> p = Least(q)
        [] at.op = "plusmodulo1" -> p = PlusModulo(q, r)
        [] at.op \in {"minusmodulo1", "foreign-minusmodulo1"} -> p = MinusModulo(q, r)
        [] at.op = "single" -> q = {p}
        [] at.op = "presburger-const" -> p = {m \in 0 .. n : (n \div 2^m) % 2 = 1}

\* The values below h.
Values(v, h) ==
  IF v \in Booleans THEN BOOLEAN ELSE IF v \in Numbers THEN 0 .. h - 1 ELSE SUBSET (0 .. h - 1)

\* Of the values that a quantifier ranges over, those that are more than 2 above the
\* values of all other variables do not differ for atoms whose numbers are at most 2:
\* they are left out.
RECURSIVE Holds(_, _, _)
Holds(f, env, h) ==
  CASE f.op = "atom" -> AtomHolds(f.atom, env)
    [] f.op = "not" -> ~Holds(f.arg, env, h)
    [] f.op = "and" -> Holds(f.left, env, h) /\ Holds(f.right, env, h)
    [] f.op = "or" -> Holds(f.left, env, h) \/ Holds(f.right, env, h)
    [] f.op = "implies" -> Holds(f.left, env, h) => Holds(f.right, env, h)
    [] f.op = "iff" -> Holds(f.left, env, h) <=> Holds(f.right, env, h)
    [] f.op = "exists" ->
         \E x \in Values(f.var, h + 2) :
           LET e == f.var :> x @@ env IN Holds(f.pred, e, h + 2) /\ Holds(f.body, e, h + 2)
    [] f.op = "forall" ->
         \A x \in Values(f.var, h + 2) :
           LET e == f.var :> x @@ env IN Holds(f.pred, e, h + 2) => Holds(f.body, e, h + 2)

RECURSIVE NamesIn(_)
NamesIn(f) ==
  CASE f.op = "atom" -> Range(f.atom.args)
    [] f.op = "not" -> NamesIn(f.arg)
    [] f.op \in {"exists", "forall"} -> (NamesIn(f.pred) \cup NamesIn(f.body)) \ {f.var}
    [] OTHER -> NamesIn(f.left) \cup NamesIn(f.right)

RECURSIVE Assignments(_)
Assignments(V) ==
  IF V = {} THEN {<<>>}
  ELSE LET v == CHOOSE v \in V : TRUE
       IN  {v :> x @@ env : x \in Values(v, Horizon), env \in Assignments(V \ {v})}

\* The track of a variable that is visible.
TrackOf(v) ==
  IF v \in OpenVars
  THEN (CHOOSE e \in Range(stack) : ~IsFormula(e) /\ e.var = v).index
  ELSE Assoc(free, v)

Tracks(f) == [v \in NamesIn(f) |-> TrackOf(v)]

\* Whether the bit of v with the value x in letter l is a 1; junk where the bit has
\* no meaning.
Bit(v, x, l, junk) ==
  CASE v \in Booleans -> IF l = 1 THEN x ELSE junk
    [] v \in Numbers -> IF l = 1 \/ l - 2 > x THEN junk ELSE l - 2 = x
    [] v \in Sets -> IF l = 1 THEN junk ELSE l - 2 \in x

\* A letter is the set of the tracks that have a 1.
Word(env, tracks, length, junk) ==
  [l \in 1 .. length |-> {tracks[v] : v \in {v \in DOMAIN env : Bit(v, env[v], l, junk)}}]

\* The letters it takes to tell the values.
Needed(env) ==
  1 + Max({0} \cup {env[v] + 1 : v \in DOMAIN env \cap Numbers}
              \cup UNION {{m + 1 : m \in env[v]} : v \in DOMAIN env \cap Sets})

RECURSIVE Successor(_, _)
Successor(p, letter) ==
  IF IsLeaf(p) THEN LeafValue(p)
  ELSE Successor(IF IfIndex(p) \in letter THEN BddThen(p) ELSE BddElse(p), letter)

StateAfter(a, word) == FoldLeft(LAMBDA s, letter : Successor(a.q[s], letter), a.s, word)

----------------------------------------------------------------------------
(* Properties                                                               *)

Translated == stack # <<>> /\ IsFormula(Newest(0))

\* The status that the words of an assignment lead to, however long they are and
\* whatever they have where a bit has no meaning.
StatusesOf(a, env, tracks) ==
  {a.f[StateAfter(a, Word(env, tracks, length, junk))] :
     length \in Needed(env) .. Horizon + 2, junk \in BOOLEAN}

\* An automaton accepts the words of the assignments its formula holds of and
\* rejects those of all others: whatever was negated, joined and projected before,
\* whichever indices and bound variables are left over from other quantifiers
\* (pvs2dfa.lisp), and by every encoding of the assignment, so that leading to a
\* "don't care" status or needing more zeros than there are shows (dfa-exists).
\* It is not so, and the instances leave out, the atoms that are not made into the
\* automaton of what they say: p_i = p_j - n, which dfa-minus1 makes without its n,
\* p_i = p_i + 1 modulo p_k and P_i = P_j minus P_i.
LanguageIsMeaning ==
  Translated =>
    \A env \in Assignments(NamesIn(Newest(0).fml)) :
      StatusesOf(Newest(0).dfa, env, Tracks(Newest(0).fml))
        = {IF Holds(Newest(0).fml, env, Horizon) THEN 1 ELSE -1}

\* A formula that is replaced by TRUE holds of every assignment, one that is
\* replaced by FALSE of none (ws1s-simplify).  Without free number variables, whose
\* tracks may have no 1, the converses hold as well: it is a decision procedure.
\* The same atoms are left out.
StatusIsVerdict ==
  Whole =>
    LET f == stack[1].fml
        truths == {Holds(f, env, Horizon) : env \in Assignments(NamesIn(f))}
        status == DfaStatus(Result)
    IN  /\ status = 1 => truths = {TRUE}
        /\ status = -1 => truths = {FALSE}
        /\ NamesIn(f) \cap Numbers = {} /\ status = 0 => truths = BOOLEAN

\* The states that exactly n letters lead to.
RECURSIVE ReachedIn(_, _)
ReachedIn(a, n) ==
  IF n = 0 THEN {a.s} ELSE UNION {Range(CallLeafs(a.q[i])) : i \in ReachedIn(a, n - 1)}

Filled(letter, junk) == {i \in DOMAIN letter : letter[i] = 1 \/ (letter[i] = X /\ junk)}

\* What is shown as a counterexample (status -1) or witness (status 1) has that
\* status, with any bits for X, and no shorter word has; when none is shown there
\* is none.  The search meets every state, so that it has a distance to read.
ExampleIsNearest ==
  Whole =>
    LET b == Bfs(Result)
    IN  /\ DOMAIN b.dist = States(Result)
        /\ \A polarity \in {1, -1} :
             LET shown == MakeExample(Result, b, polarity, Offsets)
             IN  /\ \A word \in shown, junk \in BOOLEAN :
                      Result.f[StateAfter(Result,
                        [l \in 1 .. Len(word) |-> Filled(word[l], junk)])] = polarity
                 /\ \A n \in 1 .. IF shown = {} THEN Result.ns
                                   ELSE Min({Len(word) : word \in shown}) - 1 :
                      \A i \in ReachedIn(Result, n) : Result.f[i] # polarity

\* The pairs of states that a letter leads to from a pair.
PairsAfter(a) ==
  Table([pq \in States(a) \X States(a) |->
           Range(CallLeafs(Apply2Hashed(a.q[pq[1]], a.q[pq[2]])))])

RECURSIVE Distinguished(_, _)
Distinguished(after, pairs) ==
  LET more == pairs \cup {pq \in DOMAIN after : after[pq] \cap pairs # {}}
  IN  IF more = pairs THEN pairs ELSE Distinguished(after, more)

\* What a connective or a quantifier leaves is the least automaton of its language:
\* no two of its states have the same future (minimize.c stops refining in time,
\* and not before).
Minimal ==
  Translated /\ Newest(0).fml.op # "atom" =>
    LET a == Newest(0).dfa
        pairs == Distinguished(PairsAfter(a),
                   {pq \in States(a) \X States(a) : a.f[pq[1]] # a.f[pq[2]]})
    IN  pairs = {pq \in States(a) \X States(a) : pq[1] # pq[2]}

\* An automaton that is exported and imported again is the same (external.c).
ExportRoundTrips ==
  Translated => DfaImport(DfaExport(Newest(0).dfa)) = Newest(0).dfa
=============================================================================
