# Formal model of libjsondom

libjsondom reads a JSON document from a file handle into a tree of `jd_Node`s,
lets a client walk and edit the tree, and prints it. It is sequential C: one
call runs to its end before the next begins. What is hard in it is not
concurrency but pointers and ownership over long sequences of calls, the many
ways a recursive parse can fail half-way, and the exact language it accepts.

## 1. Inventory

| part | code | state | operations |
|---|---|---|---|
| node tree | `jd_Node.c`, `jsondom.h` | five links, a type and a payload per node; the heap | create, adopt, emancipate, destroy, discard payload, set null/true/false/integer/float, take and copy string, make null property, make array, make object, insert array element |
| parser | `JParser.c`, `jsondom.c:31-51` | file position, the C stack, the tree under construction, `jd_ParseError` | `jd_parse_file`, `JParser`, `parse_collection`, `Object_ReadMember`, `confirm_no_further_file_content` |
| string reader | `JReadString.c` | `RSHandle`: text, first character, end signal; escape state | init, read, steal, destroy |
| character bag | `CharBag.c` | a chain of leaves of 50 characters | initialise, add, to string, clean up |
| number recogniser | `isJsonNumber.c` | a scan position and flags | `isJsonNumber` |
| printers | `jd_Node.c:398-585` | none | `jd_Node_serialize` |
| accessors | `jsondom.c:13-23`, `62-267` | none | relations, type, name, value length, value |
| stringify | `Stringify.c` | `jn_error` | one function per type |

How they interact. `jd_parse_file` calls `JParser`, which calls
`parse_collection` for a bracket or a brace and `JReadString` for anything
else; `parse_collection` calls `JParser` for an element or `Object_ReadMember`
for a member, which calls `JReadString` for the label and `JParser` for the
value. All of them read the same handle one character at a time and call into
`jd_Node.c` to build. A terminator that a literal has read is passed up as
`end_signal`, and the callers must treat it as if they had read it. Blocks pass
from hand to hand: a string from the bag to the `RSHandle` to a payload, a node
from the callee through an out parameter to the parent's child list.

Hard behaviours: failure in the middle of a nested parse, where every caller
frees what it has and nothing else; a failing malloc or read at any call; link
surgery on nodes in any position; conversions of nodes that already have
payloads or children; the end-of-literal protocol; messages that must survive
the way out. There are no threads, no callbacks into the client and nothing
persistent, so there are no hazards of those kinds. `PROJECT.json` lists the
hazards by line.

What makes the parts correct:

- node tree: the links always describe a forest; no block is used after or
  freed twice; every string has one owner; the types fit the payloads.
- parser: it accepts the JSON texts (and exactly which others), the tree prints
  as the document, what is cut short is never accepted, nothing is lost or freed
  twice on any path, a rejection carries the message of the innermost failure
  and where it was found, the recursion is as deep as the document, and it
  always returns.
- string reader and character bag: what is handed over is the string, however
  long and whatever mallocs fail; the bag stays inside its leaves and gives all
  of them back.
- printers: what is printed means what the tree means, and is JSON if the strings
  and numbers read were.
- accessors and stringify: every way through the tree finds the same tree; a
  value is written whole, inside the buffer, in the length announced for it.
- number recogniser: it accepts the grammar of RFC 8259 (and exactly which
  other texts) and tells floats from integers.

## 2. Modules

| module | what it is |
|---|---|
| `NodeHeap` | the link operations of `jd_Node.c` as pure operators on a map from node blocks to link cells, and the parts of the forest invariant |
| `JdNode` | state machine of a client that calls `jd_Node.h` in any order |
| `OrderedForest` | what the node tree promises: nodes and, for each, the sequence of its children, no pointers |
| `MCJdNode` | `JdNode` for TLC, with the refinement to `OrderedForest` |
| `NodeHeap_proofs` | lemmas: each link operation keeps a forest a forest, and what `Span` reaches |
| `Folding_proofs` | lemmas: what a recursive function over numbers and a fold over a sequence are |
| `JdNode_proofs` | the theorems about payloads and types, about links and memory, and the refinement of `OrderedForest` |
| `JsonNumber` | `isJsonNumber` as a fold |
| `NumberGrammar` | the numbers of RFC 8259, and those that the code takes |
| `MCJsonNumber` | all texts up to a length for TLC, and the comparison of the two |
| `JsonNumber_proofs` | lemmas: what the scan of `isJsonNumber` knows of the prefix it has seen |
| `MCJsonNumber_proofs` | the theorems that the scan decides the grammar |
| `StringText` | what every model of the string reader shares: the symbols, the end checks, how a text grows |
| `StringReader` | what `JReadString` promises: a state machine over a plain sequence of characters |
| `CharBag` | the chain of leaves and the functions of `CharBag.c` as operators on it |
| `JReadString` | state machine of `JReadString` on top of `CharBag` |
| `MCJReadString` | `JReadString` for TLC, what is required of it, the refinement to `StringReader` |
| `JReadString_proofs` | the theorems about the bag and the string reader, and the refinement of `StringReader` |
| `NodeMemory` | the parser's memory as one value and the calls on it as functions |
| `JParser` | state machine of the parser |
| `JsonReading` | a document read symbol by symbol: quoted or not, which brackets are open, what carries meaning |
| `JsonText` | the grammar of JSON over symbols, independent of how the parser reads |
| `Printer` | the printers of `jd_Node.c` |
| `Accessors` | the functions of `jsondom.c` that read a tree |
| `Stringify` | the functions of `Stringify.c`, with the bytes they write |
| `ParserOwnership` | who is in charge of every node and string while the parser runs, and the safety properties that say so |
| `ParserStrings` | the strings the parser reads as the work of a `StringReader` |
| `ParserNesting` | what the stack and the message say of the document as `JsonReading` reads it |
| `MCJParser` | `JParser` for TLC, and what else is required of it and of the operators that read its tree |
| `ParserStack_proofs` | lemmas: the texts of strings; what each call on memory does to roots, strings and links; pushing, replacing and popping frames, and what the calls are in charge of |
| `JParser_proofs` | the theorems about the parser |

### The node tree

A node block is an element of `Node`, a string block one of `Str`; `live` and
`strs` are the blocks malloc has handed out. `heap` holds the five links,
`type` and `payload` the rest of the struct. An action is one call of
`jd_Node.h`, or one outcome of a call whose mallocs may fail. `fault` becomes
true when a call would touch or free a block that is not allocated, or fails an
assertion; nothing is claimed after that. `jd_Node_destroy` is defined by what
it reaches: `Span`, the least set closed under firstChild and nextSibling, and
`VisitsOnce`, which says that the walk enters each block once. `held` is the set
of strings the client owns and may pass to `jd_Node_take_string`. `failed`
remembers the nodes on which `jd_Node_make_null_property` has returned false:
their lastChild is stale.

The client keeps to the duties the code leaves to it: it adopts roots only, not
under their own descendants, gives a child of the parent as "before", inserts
elements into arrays only and destroys whole trees (an attached node is
emancipated first). With `StrictClient` it also calls
`jd_Node_make_null_property` on childless nodes only and appends nothing to a
node on which that call failed. This is what the code requires, and not
what its comment says: run `property_uaf` drops it and reaches freed memory.
That the library is used within these duties is an assumption of the runs
`tree` and `values`.

Two conversions do not do what their comments say: `jd_Node_make_array` and
`jd_Node_make_object` "safely" convert to an "empty" array or object
(`jd_Node.c:336, 363`) but free the payload only and leave the node the children
it had. The model does as the code does.

`OrderedForest` has no pointers: a set of nodes, and for each the sequence of
its children. The refinement mapping reads that sequence off firstChild and
nextSibling, as far as they lead, and at most as many steps as there are nodes.

### The parser

The document is not given in advance: each `read` chooses the next symbol, the
end of the file or an error, and `doc` is what has been read. A symbol is a
character or a keyword (`null` stands for its four characters, which are never
told apart). `stack` holds one frame per running C function with the locals
that survive a call, `ret` what the last callee returned. A step goes from one
read, call or return to the next, and makes every call into `jd_Node.c` that
the code makes in between. `lost`, `origin` and `torn` are history: the blocks
the code drops, what each string was read as (a quoted text, a literal, the copy
of one, or the text of a value for which no node could be allocated), and the
objects whose property was freed in place. A block is lost in three ways: the
text of an unquoted value is never freed (`JParser.c:391-413`), the text of any
value, quoted or not, if there is no memory for its node (`JParser.c:387`), and
the value of a member if there is none for its property or its label's node
(`JParser.c:135`). `StringsOwned` says that no string is lost in any other way,
and `OnlyUnmadeMissing` that values without a node are all that an accepted tree
may lack.

A JSON text is a text of the grammar of RFC 8259, which `JsonText` states over
symbols: `Text`. The parser takes more, and each thing more is a named liberty
that `TextBut` may grant:

- `colons`: more than one colon between a label and its value;
- `strings`: any character behind a backslash, `"\1"` for one, and control
  characters (`JReadString.c:118-145`);
- `zeros`: leading zeros before a fraction or an exponent;
- `trailer`: behind a literal at the root one of `,` `]` `}`, or a backslash as
  the last character of the file.

`LenientText` grants them all. `AcceptsTexts` and `RejectsOthers` say that within
the bounds the parser accepts exactly these texts. The README of the library
speaks of "conforming to the JSON standard": the runs `bad_escape` and
`root_trailer` each show a document that is accepted and is no JSON text. (The
other way round, `json_files/good_object.json` lacks a comma behind its first
member: the parser rejects it, and rightly so.) What
is printed (`PrintsJson`) has its strings and numbers as they were read, so it is
a JSON text exactly if the document took none of the liberties in them. One
space symbol stands for all white space. The alphabets of the runs hold no zero
and no control character, so that `zeros` rests on the run `number` and its
theorem, and control characters on the reader's code alone.

`pe` is the caller's `jd_ParseError`: the message and `char_loc`. `lseek` tells
the offset behind the last character read, so that is what the model reports;
the comment at `jsondom.h:46` calls it the offset of the character.

### The string reader

The reader is modelled twice and both models implement one specification.
`StringReader` is what a caller relies on: characters are collected in a
sequence until one ends the string, and that sequence, up to its first NUL, is
handed over. Where the code ignores the result of `add_char_to_bag`, the
abstract reader may lose the character (`Added`), and where it goes on reading
behind an end character for which no string could be allocated, it stutters.

`JReadString` is the function by itself, with the bag as it is in memory:
leaves with a buffer, an index and a next pointer, the root leaf inside the
bag, fresh blocks full of junk until the `memset`. The operators of `CharBag`
are the functions of `CharBag.c`; the loops over the chain are recursive
functions bounded by the number of leaves. `fault` becomes true when one of them
writes outside a leaf, touches a block that is not allocated, or fails the
assertion that both passes count the same. The refinement maps the chain to
the characters in it (`Copied`). The message of a string that does not end is
part of `JParser`; each call here has a file of its own, so the next begins with
whatever comes.

`JParser` has the reader as one of its calls, with the text of the bag as a
sequence in the frame. Its refinement (`ReadsStrings`) maps a frame of
`JReadString` to the abstract reader at work and its return value to the
reader's result, so it also says that no caller disturbs the text before it has
taken it.

### Reading a tree

`Printer`, `Accessors` and `Stringify` are operators: the code they model
changes nothing but the output, the caller's buffer and `jn_error`. They are
evaluated on every tree the parser builds within the bounds, for every node of
it, and for every buffer length from 0 to one more than needed. `jd_serialize`
takes a file handle and ignores it (`jsondom.c:269-272`); where the text goes is
left out. `Printer` and
`Accessors` are compared with the document and with each other, `Stringify`
with `jd_node_value`. `StringifyAgrees` has two exceptions, and they are what
the code does: a copy of one byte (an empty text, or a buffer of two) leaves
offset 0 unwritten (`Stringify.c:37`), and a buffer of exactly the length asked
for is written one byte behind its end (`Stringify.c:39`). `Navigable`
says that each named relation is the one `jd_get_relation` gives for the member
of `jd_Relation` of its name; `test_basic.c:189-199` pairs two of them otherwise
(`JD_FIRST` with `prevSibling`, `JD_PREVIOUS` with `firstChild`), and so prints
"NOT MATCHED" for every root with children. The `stringify_`
functions for texts read `node->payload` before the test for a null node
(`Stringify.c:62-65, 83-91`), so the code `JNE_NULL_NODE` is out of their reach.

### Abstractions

Malloc hands out free blocks in a fixed order in `NodeMemory` and `CharBag`
(the identity of a block has no effect there) and in any order in `JdNode`. In
`JParser` a bag is the sequence of its characters, which the run `reader`
justifies. A line break with the indentation behind it is one `Gap`; the width
of the indentation and the wording of messages are left out, though messages
are told apart. The frame's `parent` for an element is the collection's node,
as in the code.

## 3. Runs

| run | question | bound | result |
|---|---|---|---|
| `tree` | do the links stay a forest that refines ordered trees? | 4 nodes, no strings | holds |
| `values` | who owns the payloads? | 3 nodes, 3 strings | holds |
| `number` | which texts are numbers and floats? | texts of up to 6 characters of 7 | holds |
| `parse` | what is accepted, built, kept, walked, printed, copied, reported? is anything accepted that is cut short? | documents of up to 7 symbols of 11, or 11 symbols of 6, strings of up to 2; reads may fail | holds |
| `faults` | the same ownership questions when malloc and read fail; which values may an accepted tree lack; are strings read as promised; does the parser decide? | 6 symbols of 9, strings of 1, 6 nodes and 6 strings | holds |
| `reader` | is a bag of leaves a sequence of characters, and what does `JReadString` return? | 5 symbols of 5, leaves of 2 characters, 3 leaves; malloc and read may fail | holds |
| `property_uaf` | `make_null_property` on a node with children | 4 nodes | violated |
| `read_error` | does the parser decide when reads fail? | 2 symbols | violated |
| `oom_object` | is a block freed twice when malloc fails? | 6 symbols | violated |
| `root_trailer` | are only JSON texts accepted? | 3 symbols | violated |
| `bad_escape` | is every escape in an accepted string one of JSON? | 4 symbols of 3 | violated |
| `oom_text` | is a string handed over whole? | 6 symbols of 3, leaves of 2 | violated |

Why the bounds are enough. Four nodes give a parent with three children, so an
adoptee goes in front, between and behind, and a chain of four; link surgery
touches a node, its parent and two siblings. Three nodes and three strings let
one node change its payload while another and the client own theirs. Seven
symbols with eleven kinds nest three collections, or put an escape inside a
string inside a collection; the longer documents, of the symbols in `Simple`,
hold an object with two members or an object in an object. In `faults` a leaf of
a bag holds one character, so that a second character already needs a malloc;
in `parse` it holds 50, as in the code. Six blocks are enough there for the
longest tree: were they not, the parser could not go on, and `Decides` would
show it. `MaxString` bounds strings by blocking the read, not by cutting them;
the step that reads an end character is never blocked. In `reader` a leaf of two
characters lets five symbols fill two leaves and begin the third, end in the
middle of a leaf or at its edge, and begin an escape at any place in one. Buffers
are tried at every length, since the cases of `jd_node_value` and `Stringify.c`
meet at the length asked for and its neighbours.

Fairness. `FairSpec` is weak fairness of the whole next-state relation of
`JParser`, and of the steps of a call in `JReadString`: a sequential program
goes on executing as long as it has something to execute; nothing is assumed of
the client that begins calls. Reads return, and the document is finite
(`MaxDoc`, `MaxRaw`), so the end of the file is reached. A failed read keeps
failing. In `read_error` the loop that reads again then leaves every variable
unchanged, so the behaviour it is stuck in is one repeated state, and `Next` is
not enabled as a changing step there. `Decides` is the same promise with that
state named: whatever malloc and read do, the parser returns unless it spins in
that one loop, or memory has been misused and nothing can be said. Deadlock is
checked except in `number`, which stops at its length bound; when the parser
has returned, `Rest` stands for the caller doing nothing more.

What the violations show is in `PROJECT.json` under findings.

Operators whose comment begins with "Slip:" are faulty variants of the operator
that follows. They belong to no specification; substituted for the operator,
each makes the property it is meant for fail.

## 4. Proofs

`JdNode_proofs` proves, for any sets `Node` and `Str`, whether or not malloc may
fail and whether or not the client is strict:

- `TypeCorrect`: `Spec => []TypeOK`
- `SoleOwnership`: `Spec => []SoleOwner`
- `PayloadsTyped`: `Spec => []PayloadTyped`

The assumptions are those of the modules: `NULL` is not a block
(`NullAssumption`) and the constants are of their kinds (`ClientAssumption`).

None of the three is inductive. A call frees a payload and clears one pointer
to it; the types survive only if no other block, allocated or not, points
there. `Owned` says so: blocks that are not allocated have no payload, no two
blocks share one, the client's strings are nobody's payload, and every string
is owned. `PayloadInv == TypeOK /\ Owned /\ PayloadTyped` is inductive. The
proof has a lemma per group of calls, with a step per call under it; the link
operators need only their types, because no call on links touches a payload but
destroy, which frees those of the blocks it frees. It holds up to and including
the first faulty call, so it needs neither the shape of the links nor a strict
client.

It also proves, for any `Node` and `Str` and whether or not malloc may fail, but
for a client that keeps to the contract (each theorem assumes `StrictClient`;
without it `property_uaf` is a counterexample):

- `ForestKept`: `Spec => []TreeLinked`
- `NoFault`: `Spec => []MemorySafe`

The invariant is `LinksInv`: `PayloadInv`, no torn node is free, the links are a
forest, and no fault. The two theorems need each other: a call is safe because
the links it finds are a forest, and they are one because the last call was
safe. `NodeHeap_proofs` has the argument about the links, one lemma per
operation and in it one step per part of `Linked`. The parts `NoDangling`,
`SiblingsMirror`, `EndsOfFamily`, `RootsAlone` and `FirstAndLast` are local and
follow by cases on the few nodes whose links change. `Acyclic` is not: it says
that every set of nodes has a node whose parent, and one whose elder sibling,
lies outside it, which is proved for the new links by applying the old fact to
the set without the adoptee (siblings), without the adoptee's whole tree
(parents), or with the emancipated node added. Destroying a root needs that what
the walk reaches is the root's family and nothing else: a child of a node that
is reached is reached (`SpanChildren`; otherwise the children that are not
reached would be a cycle of siblings, `EldestChild`), and the parent of a node
that is reached is reached (`SpanParents`).

Under the same assumption, and for a finite set `Node`, it proves

- `ForestImplemented`: `Spec => ImplementsForest`

The memory must be finite because the mapping walks at most `|Node|` siblings.
A sequence is a `Family` of a node if it begins at firstChild, goes from each
node to its nextSibling and ends at a null one. Where the links are a forest,
no node is twice in a family (`FamilyDistinct`), every child is in it
(`FamilyWhole`), and it is what the mapping reads (`KidsAre`). That every node
has a family, that is, that the walk along the siblings ends, does not follow
from a lemma about `Linked` but is kept as part of the invariant: `ForestInv`
is `LinksInv` and that what the mapping reads are `Families`. Each link
operation is shown to do to families what `OrderedForest` does to sequences:
`AdoptFamilies` inserts at a place, `EmancipateFamilies` removes one,
`DestroyFamilies` drops those of the nodes under the root, which are the nodes
the walk reaches (`SpanIsBelow`). A step of the client is then one step of the
forest or none (`Simulated`); a call of `make_null_property` that succeeds
makes two children at once (`PairAdopted`), one that fails between the two leaves
the forest as it was.

`JReadString_proofs` proves, for any alphabet, any size and any finite number of
leaves (`LeafAssumption`), strings of any length, and whether or not malloc and
read may fail:

- `ReaderTypes`, `BagNeverFaults`, `ChainStaysWhole`, `EveryLeafFreed`:
  `Spec => []TypeOK`, `[]BagSafe`, `[]ChainWhole`, `[]NoLeafLeft`
- `ReaderImplemented`: `Spec => ImplementsReader`
- `StringHandedOver`: `Spec => []ReadsTheString`

The invariant `ReaderInv` says that a bag in use is `Filled` along some sequence
of leaves: it begins at the root, follows `next` to a null pointer, holds each
allocated leaf once, and all but the last leaf, the current one, are full. This
sequence is never computed by the code, and the walks in `CharBag` are recursive
functions. So the proofs first show that such a function, or fold, exists and is
the one with the right steps (`Recursion`, `FoldSubsets` in `Folding_proofs`; an
argument by the least counterexample, since the induction theorems of the
library cannot be used), and that on a chain of `n` leaves each walk is at the `k`-th one after
`k` steps (`ChainIs`, `CopiedIs`). `AddChar` says what `add_char_to_bag` then
does: it keeps the bag in use and appends the character to its text, or, where
a leaf could not be had, leaves the text as it was. `CopiesSafely` says that the
two passes over the chain agree, `CleanupEmpties` that the loop that frees the
leaves frees all. The refinement follows action by action; the step that reads
an end character whose string cannot be allocated is a stutter of the reader.

`ReadsTheString` looks back at all that was read, so it needs `TextInv`: as long
as every malloc of the call has worked, no character so far ends the string, the
escape state says whether the next one is escaped, and the text of the bag is
`Content` of what was read. Whether a character is escaped is defined by the
number of backslashes in front of it, without a state; `UnescapedNext` and
`EndersNext` show that the reader's one-bit state computes it.

`JParser_proofs` proves, for documents of any length and nesting, any alphabet
and any number of blocks, and whether or not malloc and read may fail:

- `TypesKept`: `Spec => []TypeOK`
- `NodesAccountedFor`: `Spec => []NoNodeLost`
- `StringsAccountedFor`: `Spec => []StringsOwned` (and so no string is lost but
  the text of an unquoted value or, if malloc fails, of a value without a node)
- `ForestUnlessTorn`: `Spec => []TreeLinked`
- `MisuseNeedsTorn`: `Spec => []MisuseOnlyWhenTorn`
- `SafeWhileMallocWorks`: `~MallocMayFail => (Spec => []MemorySafe)`
- `FirstMessageReaches`: `Spec => FirstMessageKept`
- `StringsRead`: `Spec => ReadsStrings`

The assumptions are that `NULL` is no block, that malloc returns no block both
as a node and as a string (`BlockAssumption`), and that constants are of their
kinds (`TextAssumption`, `ParserAssumption`). `MaxDoc`, `MaxSimple` and
`MaxString` may be any numbers. `MemorySafe` is proved for a malloc that works
because it is false otherwise: `oom_object` is the counterexample, and
`MisuseNeedsTorn` says that it is the only kind.

None of these is inductive: whether a step frees a block twice depends on who
else believes to own it. `ParserInv` therefore puts every block in the `Charge`
of one party. The roots of the forest are the nodes of the collections being
parsed, what the last call returned, and what is lost, each disjoint from the
others; the strings that are no node's payload are the labels in waiting, the
string just returned, and what is lost. The stack has to support this
(`StackOK`): each call attaches to the node its caller says (`Nested`), that node
belongs to a collection further out (`Held`), and no two calls are in charge of
the same block (`Distinct`); a return value fits the call that gets it
(`Consistent`). The one state that breaks the charge is the one in which
`Object_ReadMember` has freed a property where it hangs and the collections have
not unwound yet. The invariant's second case (`Torn`) describes it by the memory
before: there is a sound memory that differs by one childless member of the
innermost object only. From there each step fails on the way out until the
object is destroyed, which touches the freed member. Which strings may be lost
is an invariant of its own, `LostInv`, proved on top: a `JReadString` that
`JParser` has called reads the text that begins with the character `JParser` has
seen (`TextsFollow`), so what it returns for an unquoted value has the origin of
a literal (`LiteralReturned`); a step that loses a text loses either such a
literal or one that it marks as the text of a value without a node, and only
where malloc may fail. `ParserStack_proofs`
has one lemma per call on memory and one per way the stack changes,
`JParser_proofs` one per function of the parser.

It also proves, for as long as malloc works:

- `StackIsNesting`: `~MallocMayFail => (Spec => []StackByNesting)`
- `RejectionsTold`: `~MallocMayFail => (Spec => []RejectionReported)`
- `AcceptedClosed`: `~MallocMayFail => (Spec => []AcceptedIsClosed)`

The assumption is needed, and each of the three is false without it: a literal
passes with a bracket in it if the bracket is dropped from its text for want of
a leaf, or if there is no memory for its node, since `JParser` then does not look
at the text (`JParser.c:387`); and a string or a node that cannot be allocated
may fail the parse without a message. All three follow from `NestInv`, which compares the running call with
`Reading(doc)`, the document as `JsonReading` reads it. `ReadBy` is what the call
on top of the stack knows: `JParser` has just read the first symbol of a value
and counts everything before it; `parse_collection` and `Object_ReadMember` stand
outside every string, and exactly the brackets of the collections on the stack
are open; `JReadString` is inside a quoted string and behind an escape exactly
when its own state says so. `Returns` is what a successful return hands over
(the end signal, if there is one, has been read and is still to be acted upon),
`Calls` which function calls which, and `Told` that a failure on its way out has
its message already.

The reading and the parser part ways inside a malformed literal: in `1[` the
reading opens a bracket where `JReadString` adds a character. The invariant
allows this as long as the literal is `Foul`, that is, has a symbol in it that
no number and no keyword has, or a NUL, which a literal has only behind a
backslash (`NulsEscaped`) or at its beginning. A foul literal is rejected where
it ends (`FoulRejected`, which needs the lemmas on `isJsonNumber`), so nothing is
returned that rests on the wrong reading. The bound on the number of calls is
arithmetic on `Calls`: below an innermost collection each collection has at most
an `Object_ReadMember` and a `JParser` of its own (`FewCalls`). As `Reading` and
`Awaited` are folds, their steps (`ReadingAppend`, `AwaitedAppend`) come from
`Folding_proofs`.

`MCJsonNumber_proofs` proves, for texts of any length over any characters:

- `NumbersAcceptedHolds`: `Spec => []NumbersAccepted`
- `FloatsToldHolds`: `Spec => []FloatsTold`

There is nothing to prove about the transitions of `MCJsonNumber`, whose states
are all texts; the induction is over the scan. `JsonNumber_proofs` describes
each turn of the loop (`Turns`). `Fits(s, i, j, k)` says that the first `k`
characters are a minus or none, digits up to `i`, a fraction up to `j` and an
exponent as far as it goes; `Stands` gives the local variables for such a
prefix. By induction on `k`, a scan that has not failed has such a prefix behind
it (`ScanFits`), and a text that is cut so as a whole is scanned to its end
without failing (`FitsScan`). With the tests behind the loop this makes
`NumberParts`: the numbers are the texts of these parts. The rest
(`LenientIsParts`) identifies the parts with the pieces of the grammar.

Out of the prover's reach, and left to TLC:

- liveness: `Terminates`, `Decides` and `Returns`;
- what is stated with the recursive operators of `JsonText`, `Printer`,
  `Accessors` or `MCJParser`, which no theorem may use: what is accepted and
  rejected (`AcceptsTexts`, `RejectsOthers`; `AcceptedIsClosed` is the part of it
  that needs no grammar), the round trip (`RoundTrip`), what is printed
  (`PrintsJson`), walked (`Navigable`) and copied (`ValueCopied`,
  `StringifyAgrees`);
- `OnlyUnmadeMissing`, which counts nodes and strings.

Every other property of the passing runs is a theorem.

## 5. Not modelled

- The test programs, the build and the manual page: no behaviour of the library.
- `Standard_Report_Error` (`JParser.c`) and `limited_long_copy`
  (`Stringify.c:67-81`): nothing calls them.
- The C stack: `StackByNesting` bounds the parser's recursion by the nesting of
  the document, but nothing runs out of it in the model. `jd_Node_destroy` also
  recurses along siblings.
- The identity of text: `copy_string` of a node's own payload
  (`jd_Node.c:292`) reads a block it has freed; in `JdNode` every text comes from
  the client.
- Use outside the duties listed above: adopting an ancestor, `jd_destroy` called
  as declared rather than as the test programs call it.
- Text encodings: the library passes bytes through.

## 6. Plan

1. Done: the node tree with its refinement, numbers, the parser, the string
   reader and its bag with the refinements to `StringReader`, the printers, the
   accessors, stringify, the theorems about payloads, links and memory.
2. Done: the theorems about the bag and the string reader, with the refinement
   and the string that is handed over; the refinement of `OrderedForest`; the
   theorems about the parser's ownership of nodes and strings, and that it reads
   its strings as `StringReader` does.
3. Done: the reading of a document in a module of its own, and the theorems
   that the stack is its nesting, that rejections are told and that what is cut
   short is not accepted.
4. Done: the theorems that `isJsonNumber` decides its grammar.
5. Open: a grammar without recursive operators (a derivation given as a function
   on positions), with which acceptance could be stated for documents of any
   length.
