---------------------------- MODULE OrderedForest ----------------------------
(***************************************************************************)
(* What jd_Node.c promises of the trees it keeps, without pointers: a set  *)
(* of nodes, and for each the sequence of its children.                    *)
(***************************************************************************)
EXTENDS Naturals, SequencesExt

CONSTANT Node

VARIABLES nodes,  \* the nodes that exist
          kids    \* the children of every node, eldest first

fvars == <<nodes, kids>>

IsChild(p, c) == c \in ToSet(kids[p])
Orphan(c) == \A p \in nodes : ~IsChild(p, c)

\* n and its descendants: the least set with n that is closed under children.
Under(n) ==
  LET Above == {S \in SUBSET Node : n \in S /\ \A x \in S : ToSet(kids[x]) \subseteq S}
  IN {m \in Node : \A S \in Above : m \in S}

\* In every action the change of nodes comes first: it tells them apart.
Init == nodes = {} /\ kids = [n \in Node |-> <<>>]

\* x becomes a child of p, at some place among the others.
InsertedUnder(p, x) ==
  \E i \in 1..Len(kids[p]) + 1 : kids' = [kids EXCEPT ![p] = InsertAt(@, i, x)]

Born(x) == x \notin nodes /\ nodes' = nodes \cup {x} /\ UNCHANGED kids

BornUnder(x, p) ==
  /\ x \notin nodes /\ p \in nodes
  /\ nodes' = nodes \cup {x}
  /\ InsertedUnder(p, x)

\* The root a, with all that is under it, becomes a child of p.
Joined(a, p) ==
  /\ UNCHANGED nodes
  /\ a \in nodes /\ p \in nodes
  /\ InsertedUnder(p, a)
  /\ Orphan(a) /\ p \notin Under(a)

\* c leaves its parent; its siblings keep their order.
Left(c) ==
  /\ UNCHANGED nodes
  /\ \E p \in nodes : \E i \in 1..Len(kids[p]) :
       kids[p][i] = c /\ kids' = [kids EXCEPT ![p] = RemoveAt(@, i)]

\* A childless node gets two new children, a label and a value.
BornPair(p, l, v) ==
  /\ p \in nodes /\ l # v /\ {l, v} \subseteq Node \ nodes
  /\ nodes' = nodes \cup {l, v}
  /\ kids[p] = <<>> /\ kids' = [kids EXCEPT ![p] = <<l, v>>]

\* A whole tree disappears, and nothing else.
Felled(r) ==
  /\ r \in nodes \ nodes' /\ Orphan(r)
  /\ nodes' = nodes \ Under(r)
  /\ kids' = [n \in Node |-> IF n \in Under(r) THEN <<>> ELSE kids[n]]

Next ==
  \/ \E x \in Node : Born(x) \/ Left(x) \/ Felled(x)
  \/ \E x, p \in Node : BornUnder(x, p) \/ Joined(x, p)
  \/ \E p, l, v \in Node : BornPair(p, l, v)

Spec == Init /\ [][Next]_fvars
=============================================================================
