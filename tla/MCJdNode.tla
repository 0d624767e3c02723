------------------------------ MODULE MCJdNode ------------------------------
(***************************************************************************)
(* JdNode for TLC, with its refinement of OrderedForest: the children of a *)
(* node are those a client meets that starts at firstChild and follows     *)
(* nextSibling.                                                            *)
(***************************************************************************)
EXTENDS JdNode, Naturals, FiniteSets, Functions, TLC

Symmetry == Permutations(Node) \cup Permutations(Str)

\* The i-th child of n, NULL after the last; at most |Node| are followed.
Child(h, n) ==
  LET at[i \in 1..Cardinality(Node)] ==
        IF i = 1 THEN h[n].first
        ELSE LET elder == at[i - 1] IN IF elder = NULL THEN NULL ELSE h[elder].next
  IN at

Kids(h, n) ==
  LET at == Child(h, n) IN Restrict(at, {i \in DOMAIN at : at[i] # NULL})

Forest ==
  INSTANCE OrderedForest WITH nodes <- live, kids <- [n \in Node |-> Kids(heap, n)]

\* Every call of the library is one step of OrderedForest on the trees, or
\* leaves them alone: siblings keep their order, a destroyed tree takes no
\* other node along, a failed call leaves no half-linked node
\* (jd_Node.c:35-184, 311-333).
ImplementsForest == Forest!Spec
=============================================================================
