------------------------------ MODULE BddFactor ------------------------------
(***************************************************************************)
(* Factored expressions of a vector of BDDs (src/src/BDD/bdd/src/          *)
(* bdd_factor.c): nodes that are referred to often enough and are large    *)
(* enough get a name of their own, and so do the roots; an expression      *)
(* stops at a node with a name.  An interface F says how: its matrix of    *)
(* numbers of references and sizes, which order (style: roots first), and  *)
(* whether exclusive ors and implications are looked for.  What its        *)
(* functions print is a tree here; the entries that the test for           *)
(* implication adds to the computed table are left aside.                  *)
(***************************************************************************)
EXTENDS BddQuants

DefaultMatrix == {[in |-> 1, size |-> 8], [in |-> 2, size |-> 4],
                  [in |-> 3, size |-> 3], [in |-> 4, size |-> 2]}

\* The internal nodes of the vector in the order of a walk from each element.
PreOrder(s, vec) ==
  LET Step(x, f) ==
        IF f = VOID \/ x.mark[Ptr(f)] = 1 THEN x
        ELSE LET w == Traverse(s, x.mark, f, FALSE)
             IN [mark |-> w.mark, out |-> x.out \o [i \in DOMAIN w.out |-> Ptr(w.out[i])]]
  IN SelectSeq(Folded(Step, [mark |-> NoMarks(s), out |-> <<>>], vec).out,
               LAMBDA n : n # 0)

IsXor(F, s, n) == F.xors /\ Ptr(s.node[n].t) = Ptr(s.node[n].e)

\* The edges to a node; both of an exclusive or count once.
InEdges(F, s, vec, n) ==
  LET parents == Range(PostOrder(s, vec))
      Once(m) == IsXor(F, s, m) /\ ~Literal(s, 2 * m)
  IN Cardinality({m \in parents : Ptr(s.node[m].t) = n})
     + Cardinality({m \in parents : Ptr(s.node[m].e) = n /\ ~Once(m)})

\* The numbers of positive and negative literals an edge will print.
PosSize(info, e) == IF Neg(e) THEN info[Ptr(e)].neg ELSE info[Ptr(e)].pos
NegSize(info, e) == PosSize(info, Compl(e))
OneUnless(b) == IF b THEN 0 ELSE 1
Sizes(F, s, info, n) ==
  LET T == s.node[n].t
      E == s.node[n].e
  IN IF Literal(s, 2 * n) THEN [pos |-> 1, neg |-> 0]
     ELSE IF IsXor(F, s, n) THEN [pos |-> PosSize(info, T) + 1, neg |-> NegSize(info, T)]
     ELSE [pos |-> PosSize(info, T) + PosSize(info, E) + OneUnless(E = BDD_1 \/ T = BDD_0),
           neg |-> NegSize(info, T) + NegSize(info, E) + OneUnless(E = BDD_0 \/ T = BDD_1)]

\* A node with a name counts as one literal, whose sign is inv; of a root the
\* first element of the vector decides it.
FirstAt(vec, n) ==
  CHOOSE k \in DOMAIN vec : /\ vec[k] # VOID /\ Ptr(vec[k]) = n
                            /\ \A j \in 1 .. k - 1 : vec[j] = VOID \/ Ptr(vec[j]) # n
IsRoot(vec, n) == \E k \in DOMAIN vec : vec[k] # VOID /\ Ptr(vec[k]) = n
Named(root, inv, index) ==
  [flag |-> TRUE, root |-> root, inv |-> inv, index |-> index,
   pos |-> OneUnless(inv), neg |-> OneUnless(~inv)]
Unnamed(size) ==
  [flag |-> FALSE, root |-> FALSE, inv |-> FALSE, index |-> 0] @@ size
MarkCandidate(F, s, vec, info, n) ==
  LET size == IF n = 0 THEN [pos |-> 0, neg |-> 0] ELSE Sizes(F, s, info, n)
      often == n # 0 /\ \E a \in F.matrix : /\ size.neg + size.pos >= a.size
                                            /\ InEdges(F, s, vec, n) >= a.in
      first == FirstAt(vec, n)
  IN (n :> IF F.style /\ IsRoot(vec, n) THEN Named(TRUE, Neg(vec[first]), first)
           ELSE IF often THEN Named(FALSE, size.neg > size.pos, 0)
           ELSE Unnamed(size)) @@ info

\* The subexpressions, numbered in the order they are met.
Subexpressions(F, s, vec, info) ==
  SelectSeq(IF F.style THEN PreOrder(s, vec) ELSE PostOrder(s, vec),
            LAMBDA n : info[n].flag /\ ~info[n].root)
Numbered(info, subs) ==
  [n \in DOMAIN info |->
     IF Contains(subs, n)
     THEN [info[n] EXCEPT !.index = CHOOSE i \in DOMAIN subs : subs[i] = n]
     ELSE info[n]]

(***************************************************************************)
(* bdd_handle_aux: the expression of f; only at the top is a node with a   *)
(* name opened.                                                            *)
(***************************************************************************)
Const(f) == [op |-> "const", edge |-> f]
Lit(v, negated) == [op |-> "lit", v |-> v, neg |-> negated]
Node2(op, l, r) == [op |-> op, l |-> l, r |-> r]
NameOf(info, f) ==
  LET at == info[Ptr(f)]
  IN [op |-> IF at.root THEN "root" ELSE "sub", index |-> at.index,
      neg |-> Neg(f) # at.inv]

RECURSIVE Handle(_, _, _, _, _)
Handle(F, s, info, f, top) ==
  LET v == VarId(s, f)
      T == CofactorPos(s, f)
      E == CofactorNeg(s, f)
      H(g) == Handle(F, s, info, g, FALSE)
      Implies(g, h) == h = BDD_1 \/ (F.implications /\ ImpliesTaut(s, g, h).r)
      Product(neg, g) == IF g = BDD_1 THEN Lit(v, neg) ELSE Node2("and", Lit(v, neg), H(g))
  IN IF Term(f) THEN Const(f)
     ELSE IF ~top /\ info[Ptr(f)].flag THEN NameOf(info, f)
     ELSE IF Literal(s, f) THEN Lit(v, T = BDD_0)
     ELSE IF T = BDD_0 THEN Node2("and", Lit(v, TRUE), H(E))
     ELSE IF E = BDD_0 THEN Node2("and", Lit(v, FALSE), H(T))
     ELSE IF IsXor(F, s, Ptr(f)) THEN Node2("xor", Lit(v, FALSE), H(E))
     ELSE Node2("or", IF Implies(T, E) THEN H(T) ELSE Product(FALSE, T),
                      IF Implies(E, T) THEN H(E) ELSE Product(TRUE, E))

SubExpressions(F, s, info, subs) ==
  [i \in DOMAIN subs |->
     Handle(F, s, info, SetNeg(2 * subs[i], info[subs[i]].inv), TRUE)]

\* handle_root_vec: a root that was written out can be named by later ones.
HandleRoot(F, s, x, vec, k) ==
  LET f == vec[k]
      at == x.info[Ptr(f)]
      opened == ~at.flag \/ k = at.index \/ Literal(s, f)
  IN IF f = VOID \/ Term(f) THEN [x EXCEPT !.roots = Append(@, Const(f))]
     ELSE IF ~opened THEN [x EXCEPT !.roots = Append(@, NameOf(x.info, f))]
     ELSE [roots |-> Append(x.roots, Handle(F, s, x.info, f, TRUE)),
           info |-> IF at.flag \/ Literal(s, f) THEN x.info
                    ELSE [x.info EXCEPT ![Ptr(f)] = Named(TRUE, Neg(f), k)]]
HandleRootVec(F, s, info, vec) ==
  Folded(LAMBDA x, k : HandleRoot(F, s, x, vec, k), [roots |-> <<>>, info |-> info],
         [k \in DOMAIN vec |-> k]).roots

\* bdd_factor_vec
Factored(F, s, vec, info, subs) ==
  [roots |-> HandleRootVec(F, s, info, vec), subs |-> SubExpressions(F, s, info, subs)]
FactorNamed(F, s, vec, info) ==
  LET subs == Subexpressions(F, s, vec, info)
  IN Factored(F, s, vec, Numbered(info, subs), subs)
FactorVec(F, s, vec) ==
  FactorNamed(F, s, vec,
              Folded(LAMBDA info, n : MarkCandidate(F, s, vec, info, n), <<>>,
                     <<0>> \o PostOrder(s, vec)))
=============================================================================
