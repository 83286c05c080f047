-------------------------------- MODULE Trie --------------------------------
(***************************************************************************)
(* The state of a contract as the low-level API shows it, in the version   *)
(* that unit tests run on: a trie from keys to entries, handles of entries *)
(* that share their data, and iterators, which lock their subtree.  A key  *)
(* is a sequence of bytes; the two nibbles of a byte are one step here.    *)
(* Nodes without data are those on the way to a node with data: deletion   *)
(* prunes the others.                                                       *)
(***************************************************************************)
EXTENDS Lists, FiniteSets

CONSTANTS
  Bytes,     \* the bytes of keys, numbers
  MaxKey,    \* bound on the length of a key
  MaxCells,  \* bound on the entries ever created
  MaxOpen,   \* bound on the handles held at a time
  MaxIters   \* bound on the iterators open at a time

TrieAssumption ==
  Bytes \subseteq Nat /\ MaxKey \in Nat /\ MaxCells \in Nat /\ MaxOpen \in Nat /\ MaxIters \in Nat

VARIABLES
  nodes,            \* the tree: the cell of each key that has data
  cells,            \* the data of every cell
  iterator_counts,  \* the locks: how many iterators each prefix counts
  entries,          \* the handles the program holds, [key, cell]
  iters             \* its iterators, [prefix, queue]

vars == <<nodes, cells, iterator_counts, entries, iters>>

EntryExists == "EntryExists"
EntryDeleted == "EntryDeleted"
Keys == SeqOf(Bytes, MaxKey)
Cells == 1 .. MaxCells

Init ==
  /\ nodes = <<>> /\ cells = <<>> /\ iterator_counts = <<>>
  /\ entries = {} /\ iters = <<>>

-----------------------------------------------------------------------------
\* Locked: one of the key and a counted prefix continues the other.
Comparable(k, p) == IsPrefix(k, p) \/ IsPrefix(p, k)
is_locked(k) == \E p \in DOMAIN iterator_counts : Comparable(k, p)

lookup_node(k) == k = <<>> \/ \E n \in DOMAIN nodes : IsPrefix(k, n)

Handle(k) == [key |-> k, cell |-> nodes[k]]
Opens(e) == entries' = entries \cup {e} /\ Cardinality(entries') <= MaxOpen
Without(f, S) == [x \in DOMAIN f \ S |-> f[x]]
With(f, x, y) == [z \in DOMAIN f \cup {x} |-> IF z = x THEN y ELSE f[z]]

\* The order of a walk that visits a node before its children.
Before(k, n) ==
  \/ IsStrictPrefix(k, n)
  \/ \E i \in DOMAIN k \cap DOMAIN n :
       k[i] < n[i] /\ SubSeq(k, 1, i - 1) = SubSeq(n, 1, i - 1)

\* The walk starts with the children of the prefix' node, and finds in place
\* i the entry that i - 1 others come before.
build_queue(prefix) ==
  LET below == {Handle(k) : k \in {n \in DOMAIN nodes : IsStrictPrefix(prefix, n)}}
      place(e) == 1 + Cardinality({d \in below : Before(d.key, e.key)})
  IN  [i \in 1 .. Cardinality(below) |-> CHOOSE e \in below : place(e) = i]

-----------------------------------------------------------------------------
\* Entries.  Creating one on a key that has data gives the key a new cell:
\* older handles keep the old one.
create_entry(k) ==
  /\ ~is_locked(k)
  /\ Len(cells) < MaxCells
  /\ cells' = Append(cells, EntryExists)
  /\ nodes' = With(nodes, k, Len(cells'))
  /\ Opens([key |-> k, cell |-> Len(cells')])
  /\ UNCHANGED <<iterator_counts, iters>>

lookup(k) ==
  /\ k \in DOMAIN nodes
  /\ Opens(Handle(k))
  /\ UNCHANGED <<nodes, cells, iterator_counts, iters>>

\* Deletion goes by the key of the handle, whatever cell it holds, and a key
\* without data is passed over.  When the key is locked it only uses up the
\* handle, like close.
delete_entry(e) ==
  /\ ~is_locked(e.key)
  /\ nodes' = Without(nodes, {e.key})
  /\ entries' = entries \ {e}
  /\ UNCHANGED <<cells, iterator_counts, iters>>

\* The subtree's data is invalidated through an iterator and released, then
\* the nodes go.
delete_prefix(prefix) ==
  LET subtree == {k \in DOMAIN nodes : IsPrefix(prefix, k)}
      walked == {e.cell : e \in ToSet(build_queue(prefix))}
  IN  /\ ~is_locked(prefix) /\ lookup_node(prefix)
      /\ cells' = [c \in DOMAIN cells |-> IF c \in walked THEN EntryDeleted ELSE cells[c]]
      /\ nodes' = Without(nodes, subtree)
      /\ UNCHANGED <<iterator_counts, entries, iters>>

close(e) ==
  /\ entries' = entries \ {e}
  /\ UNCHANGED <<nodes, cells, iterator_counts, iters>>

-----------------------------------------------------------------------------
\* Iterators.
iterator(prefix) ==
  /\ lookup_node(prefix)
  /\ Len(iters) < MaxIters
  /\ iterator_counts' = With(iterator_counts, prefix,
       IF prefix \in DOMAIN iterator_counts THEN iterator_counts[prefix] + 1 ELSE 1)
  /\ iters' = Append(iters, [prefix |-> prefix, queue |-> build_queue(prefix)])
  /\ UNCHANGED <<nodes, cells, entries>>

next(i) ==
  /\ iters[i].queue # <<>>
  /\ Opens(Head(iters[i].queue))
  /\ iters' = [iters EXCEPT ![i].queue = Tail(@)]
  /\ UNCHANGED <<nodes, cells, iterator_counts>>

delete_iterator_unlock(i) ==
  /\ iterator_counts' = Without(iterator_counts, {iters[i].prefix})
  /\ iters' = RemoveAt(iters, i)
  /\ UNCHANGED <<nodes, cells, entries>>
delete_iterator(i) ==
  LET prefix == iters[i].prefix
  IN  /\ iterator_counts' = IF iterator_counts[prefix] = 1
                            THEN Without(iterator_counts, {prefix})
                            ELSE [iterator_counts EXCEPT ![prefix] = @ - 1]
      /\ iters' = RemoveAt(iters, i)
      /\ UNCHANGED <<nodes, cells, entries>>

Next ==
  \/ \E k \in Keys : create_entry(k) \/ lookup(k) \/ delete_prefix(k) \/ iterator(k)
  \/ \E e \in entries : delete_entry(e) \/ close(e)
  \/ \E i \in DOMAIN iters : next(i) \/ delete_iterator(i)

-----------------------------------------------------------------------------
Handles == [key : Keys, cell : Cells]

TypeOK ==
  /\ DOMAIN nodes \subseteq Keys /\ \A k \in DOMAIN nodes : nodes[k] \in DOMAIN cells
  /\ cells \in Seq({EntryExists, EntryDeleted})
  /\ DOMAIN iterator_counts \subseteq Keys
  /\ \A p \in DOMAIN iterator_counts : iterator_counts[p] \in 1 .. MaxIters
  /\ entries \subseteq Handles
  /\ \A i \in DOMAIN iters : iters[i].prefix \in Keys /\ ToSet(iters[i].queue) \subseteq Handles

\* What an iterator has yet to give out is the rest of its subtree as it is
\* now, in order, however many iterators share the prefix or overlap it and
\* whichever of them were closed.
IteratorsExact ==
  \A i \in DOMAIN iters :
    LET queue == iters[i].queue
        now == build_queue(iters[i].prefix)
    IN  Len(queue) <= Len(now) /\ queue = SubSeq(now, Len(now) - Len(queue) + 1, Len(now))
=============================================================================
