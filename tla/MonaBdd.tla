------------------------------ MODULE MonaBdd ------------------------------
(***************************************************************************)
(* The decision diagrams of the MONA library: src/WS1S/mona-1.4/BDD.       *)
(* A diagram maps a letter (a bit for each variable index) to a value, a   *)
(* state of an automaton.  The node table of a manager is abstracted to    *)
(* what it is for: a node is its contents, <<value>> for a leaf and        *)
(* <<index, else, then>> otherwise, so that equal nodes are one node.      *)
(* That is what bdd_find_node_hashed establishes; the tables filled in     *)
(* sequence may hold a node twice and nodes with equal branches, and the   *)
(* latter are kept here.  The caches, the activation stacks and the        *)
(* doubling of tables leave no trace in the results.                       *)
(***************************************************************************)
EXTENDS Integers, Sequences, FiniteSets, SequencesExt

Leaf(v) == <<v>>
Node(i, l, r) == <<i, l, r>>

IsLeaf(p) == Len(p) = 1
LeafValue(p) == p[1]
IfIndex(p) == p[1]
BddElse(p) == p[2]
BddThen(p) == p[3]

\* Two equal branches need no node: path compression.
FindNode(l, r, i) == IF l = r THEN l ELSE Node(i, l, r)

\* The values below p, in the order in which a walk meets them, each once.
RECURSIVE LeafsOf(_)
LeafsOf(p) ==
  IF IsLeaf(p) THEN <<LeafValue(p)>>
  ELSE LeafsOf(BddElse(p)) \o LeafsOf(BddThen(p))

CallLeafs(p) ==
  FoldLeft(LAMBDA seen, v : IF Contains(seen, v) THEN seen ELSE Append(seen, v),
           <<>>, LeafsOf(p))

\* A copy with the values changed by F.
RECURSIVE Apply1(_, _)
Apply1(p, F) ==
  IF IsLeaf(p) THEN Leaf(F[LeafValue(p)])
  ELSE FindNode(Apply1(BddElse(p), F), Apply1(BddThen(p), F), IfIndex(p))

\* Which of two nodes, not both leafs, to descend from: that of the smaller
\* index, or both.
Descends(p, q) == ~IsLeaf(p) /\ (IsLeaf(q) \/ IfIndex(p) <= IfIndex(q))
Low(p, q) == IF Descends(p, q) THEN BddElse(p) ELSE p
High(p, q) == IF Descends(p, q) THEN BddThen(p) ELSE p
TopIndex(p, q) == IF Descends(p, q) THEN IfIndex(p) ELSE IfIndex(q)

\* The pair of the values of p and q.  The leaf functions that the library is
\* called with are applied to the pairs afterwards: in the order of CallLeafs
\* where they number what they meet.
RECURSIVE Apply2Sequential(_, _)
Apply2Sequential(p, q) ==
  IF IsLeaf(p) /\ IsLeaf(q) THEN Leaf(<<LeafValue(p), LeafValue(q)>>)
  ELSE Node(TopIndex(p, q), Apply2Sequential(Low(p, q), Low(q, p)),
                       Apply2Sequential(High(p, q), High(q, p)))

RECURSIVE Apply2Hashed(_, _)
Apply2Hashed(p, q) ==
  IF IsLeaf(p) /\ IsLeaf(q) THEN Leaf(<<LeafValue(p), LeafValue(q)>>)
  ELSE FindNode(Apply2Hashed(Low(p, q), Low(q, p)),
                Apply2Hashed(High(p, q), High(q, p)), TopIndex(p, q))

\* The values of a product in sequence are numbered in place: no compression.
RECURSIVE Renumber(_, _)
Renumber(p, F) ==
  IF IsLeaf(p) THEN Leaf(F[LeafValue(p)])
  ELSE Node(IfIndex(p), Renumber(BddElse(p), F), Renumber(BddThen(p), F))

\* The set of the values p has with the variable 0 and 1.  ProjectBoth walks the
\* two branches together and goes on in one where they meet.
RECURSIVE Project(_, _), ProjectBoth(_, _, _)
Project(p, v) ==
  IF IsLeaf(p) THEN Leaf({LeafValue(p)})
  ELSE IF IfIndex(p) = v THEN ProjectBoth(BddElse(p), BddThen(p), v)
  ELSE FindNode(Project(BddElse(p), v), Project(BddThen(p), v), IfIndex(p))

ProjectBoth(p, q, v) ==
  IF p = q THEN Project(p, v)
  ELSE IF IsLeaf(p) /\ IsLeaf(q) THEN Leaf({LeafValue(p), LeafValue(q)})
  ELSE FindNode(ProjectBoth(Low(p, q), Low(q, p), v),
                ProjectBoth(High(p, q), High(q, p), v), TopIndex(p, q))

\* The first path from p to the value q, the else-branches tried first; {} when
\* there is none.
RECURSIVE FindOnePath(_, _)
FindOnePath(p, q) ==
  IF IsLeaf(p) THEN IF LeafValue(p) = q THEN {<<>>} ELSE {}
  ELSE IF FindOnePath(BddElse(p), q) # {}
       THEN {<< <<IfIndex(p), 0>> >> \o t : t \in FindOnePath(BddElse(p), q)}
       ELSE {<< <<IfIndex(p), 1>> >> \o t : t \in FindOnePath(BddThen(p), q)}

----------------------------------------------------------------------------
(* Saving and loading: bdd_external.c.                                      *)

\* The place of a node in the table of those saved.
MarkOf(table, p) == SelectInSeq(table, LAMBDA e : e = p)

\* A node comes before what is below it, the then-branch first.
RECURSIVE Export(_, _)
Export(table, p) ==
  IF MarkOf(table, p) # 0 THEN table
  ELSE IF IsLeaf(p) THEN Append(table, p)
  ELSE Export(Export(Append(table, p), BddThen(p)), BddElse(p))

\* In place of Written: the branches change places.
WrittenSwapped(table) ==
  [i \in 1 .. Len(table) |->
     IF IsLeaf(table[i]) THEN Leaf(LeafValue(table[i]))
     ELSE Node(IfIndex(table[i]), MarkOf(table, BddThen(table[i])),
                                  MarkOf(table, BddElse(table[i])))]

\* Branches become places in the table.
Written(table) ==
  [i \in 1 .. Len(table) |->
     IF IsLeaf(table[i]) THEN Leaf(LeafValue(table[i]))
     ELSE Node(IfIndex(table[i]), MarkOf(table, BddElse(table[i])),
                                  MarkOf(table, BddThen(table[i])))]

RECURSIVE MakeNode(_, _)
MakeNode(file, i) ==
  IF IsLeaf(file[i]) THEN file[i]
  ELSE Node(IfIndex(file[i]), MakeNode(file, BddElse(file[i])),
                              MakeNode(file, BddThen(file[i])))
=============================================================================
