------------------------------ MODULE CharBag ------------------------------
(***************************************************************************)
(* CharBag.c: a growing string kept in a chain of leaves.  The memory of a *)
(* bag is one value; the functions of CharBag.c are operators on it, and   *)
(* fault tells whether one of them went outside a leaf, touched a block    *)
(* that is not allocated or failed its assertion.                          *)
(***************************************************************************)
EXTENDS StringText

CONSTANTS Leaf,  \* the blocks malloc can return for a leaf
          Root,  \* the leaf inside the bag itself
          NULL   \* the null pointer

ASSUME LeafAssumption ==
  IsFiniteSet(Leaf) /\ Root \notin Leaf /\ NULL \notin Leaf \cup {Root}

\* memset to 0, and what memory holds before malloc or after the memset to -1
\* in front of free.
ZeroLeaf == [buff |-> [i \in 1..CB_LEAF_SIZE |-> "NUL"], index |-> 0, next |-> NULL]
Garbage == [buff |-> [i \in 1..CB_LEAF_SIZE |-> "junk"], index |-> CB_LEAF_SIZE + 1, next |-> Root]

initialize_CharBag ==
  [cell |-> [l \in Leaf \cup {Root} |-> IF l = Root THEN ZeroLeaf ELSE Garbage],
   live |-> {}, cur |-> Root, fault |-> FALSE]

\* The leaves from the root on, as far as the chain leads through allocated
\* ones; the number of steps ends a walk that would go round.
ChainOf(b) ==
  LET walk[k \in 0..Cardinality(Leaf) + 1] ==
        IF k = 0 THEN <<Root>>
        ELSE LET n == b.cell[Last(walk[k - 1])].next
             IN IF n \in b.live THEN Append(walk[k - 1], n) ELSE walk[k - 1]
  IN walk[Cardinality(Leaf) + 1]

\* buff[index_next_char] = c; ++index_next_char.
Store(b, l, c) ==
  LET i == b.cell[l].index + 1 IN
  IF i \notin 1..CB_LEAF_SIZE \/ l \notin b.live \cup {Root} THEN [b EXCEPT !.fault = TRUE]
  ELSE [b EXCEPT !.cell[l].buff[i] = c, !.cell[l].index = i]

\* Slip: a leaf counts as full one character late.
FullLate(b, l) == b.cell[l].index > CB_LEAF_SIZE

Full(b, l) == b.cell[l].index >= CB_LEAF_SIZE

\* Slip: the new leaf is not made current.
GrowForgetsCurrent(b) ==
  LET l == CHOOSE x \in Leaf : x \notin b.live
  IN [b EXCEPT !.live = @ \cup {l}, !.cell = [@ EXCEPT ![l] = ZeroLeaf, ![b.cur].next = l]]

\* Slip: the new leaf is not cleared.
GrowDirty(b) ==
  LET l == CHOOSE x \in Leaf : x \notin b.live
  IN [b EXCEPT !.live = @ \cup {l}, !.cur = l, !.cell[b.cur].next = l]

\* A new leaf behind the current one.
Grow(b) ==
  LET l == CHOOSE x \in Leaf : x \notin b.live
  IN [b EXCEPT !.live = @ \cup {l}, !.cur = l,
               !.cell = [@ EXCEPT ![l] = ZeroLeaf, ![b.cur].next = l]]

\* The outcomes of add_char_to_bag.
add_char_to_bag(b, c) ==
  IF ~Full(b, b.cur) THEN {[bag |-> Store(b, b.cur, c), ok |-> TRUE]}
  ELSE (IF Leaf \ b.live = {} THEN {}
        ELSE LET g == Grow(b) IN {[bag |-> Store(g, g.cur, c), ok |-> TRUE]})
       \cup IF MallocMayFail
            THEN {[bag |-> [b EXCEPT !.cell[b.cur].next = NULL], ok |-> FALSE]}
            ELSE {}

\* The two passes of char_bag_to_string: what must be allocated, and what is
\* copied.
CharCount(b) == FoldLeft(LAMBDA n, l : n + b.cell[l].index, 0, ChainOf(b))
Copied(b) ==
  FoldLeft(LAMBDA s, l : s \o SubSeq(b.cell[l].buff, 1, b.cell[l].index), <<>>, ChainOf(b))

\* The walk ends at a null pointer, inside every leaf it copies from, and the
\* second pass stops where the first one said (CharBag.c:115).
CopySafe(b) ==
  /\ b.cell[Last(ChainOf(b))].next = NULL
  /\ \A l \in b.live \cup {Root} : b.cell[l].index <= CB_LEAF_SIZE
  /\ Len(Copied(b)) = CharCount(b)

\* The outcomes of char_bag_to_string.
char_bag_to_string(b) ==
  IF ~CopySafe(b) THEN {[bag |-> [b EXCEPT !.fault = TRUE], ok |-> FALSE, text |-> <<>>]}
  ELSE {[bag |-> b, ok |-> TRUE, text |-> Copied(b)]}
       \cup IF MallocMayFail THEN {[bag |-> b, ok |-> FALSE, text |-> <<>>]} ELSE {}

\* One round of the loop of char_bag_cleanup.
FreeFirst(b) ==
  LET l == b.cell[Root].next IN
  IF l = NULL THEN b
  ELSE IF l \notin b.live THEN [b EXCEPT !.fault = TRUE]
  ELSE [b EXCEPT !.live = @ \ {l},
                 !.cell = [@ EXCEPT ![l] = Garbage, ![Root].next = b.cell[l].next]]

\* Slip: one leaf is freed, not all.
char_bag_cleanup_once(b) == FreeFirst(b)

\* char_bag_cleanup; it ends when the root leads nowhere.
char_bag_cleanup(b) ==
  LET after[k \in 0..Cardinality(Leaf) + 1] ==
        IF k = 0 THEN b ELSE FreeFirst(after[k - 1])
  IN after[Cardinality(Leaf) + 1]

-----------------------------------------------------------------------------
\* What the functions keep true of a bag in use: the chain holds every
\* allocated leaf once and ends in the current one, all leaves in front of it
\* are full, and no leaf but the root is empty.
WellFormed(b) ==
  LET chain == ChainOf(b) IN
  /\ ToSet(chain) = b.live \cup {Root} /\ Len(chain) = Cardinality(b.live) + 1
  /\ Last(chain) = b.cur /\ b.cell[b.cur].next = NULL
  /\ \A i \in 1..Len(chain) - 1 : b.cell[chain[i]].index = CB_LEAF_SIZE
  /\ \A l \in b.live : b.cell[l].index > 0
=============================================================================
