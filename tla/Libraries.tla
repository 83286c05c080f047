----------------------------- MODULE Libraries -----------------------------
(***************************************************************************)
(* The libraries under the contracts, one of them at work per behaviour.   *)
(***************************************************************************)
EXTENDS Integers, Sequences

CONSTANTS
  FieldValues, InitialValue, MaxDepth,          \* as in ExternHost
  Accounts, MaxCCD, MaxTransfers,               \* as in TestHost, with these
  Bytes, MaxKey, MaxCells, MaxOpen, MaxIters,   \* as in Trie
  Openers, W, MaxSize, MaxBuf,                  \* as in Entries
  Refs, MaxLen,                                 \* as in MapEntry
  MapKeys, MaxPrefixes,                         \* as in StateBuilder
  Leaves, MaxLeaves, MaxCommits,                \* as in Merkle
  WireItems, Legible, ArrayLen, MaxWire,        \* as in Serialization
  Limit, Digits, Decimals, Second, Minute, Hour, Day,   \* as in CommonTypes
  MAX_FUNC_NAME_SIZE, InitSize, MaxText, MaxName

VARIABLES
  lib,  \* the library that runs
  nodes, cells, iterator_counts, entries, iters,
  size, position, answers, strayed,
  data, refs, occ, latest, stale, aliased,
  store, next_prefix, held,
  saved, frames, assigned, unsaved,
  current_working_tree, history, uncommitted_leaves, committed,
  node, test, missing_accounts, running, entered, host_answers, diverged,
  type, source, left, out, prev, result,
  kind, text, printed, at, state, after_dot, number, reading

Tree == INSTANCE Trie
Entry == INSTANCE Entries
Value == INSTANCE MapEntry
Builder == INSTANCE StateBuilder
Ext == INSTANCE ExternHost WITH
  Values <- FieldValues, First <- InitialValue, store <- saved, latest <- assigned
Mocked == INSTANCE TestHost WITH
  Values <- FieldValues, First <- InitialValue, answers <- host_answers, strayed <- diverged
Leafs == INSTANCE Merkle
Wire == INSTANCE Serialization WITH Items <- WireItems
Common == INSTANCE CommonTypes WITH out <- number, answer <- reading

ASSUME Limits ==
  /\ Tree!TrieAssumption /\ Entry!EntriesAssumption /\ Value!MapEntryAssumption
  /\ Builder!StateBuilderAssumption /\ Ext!ExternHostAssumption
  /\ Mocked!TestHostAssumption /\ Leafs!MerkleAssumption /\ Wire!SerializationAssumption
  /\ Common!CommonTypesAssumption

tree == <<nodes, cells, iterator_counts, entries, iters>>
entry == <<size, position, answers, strayed>>
value == <<data, refs, occ, latest, stale, aliased>>
builder == <<store, next_prefix, held>>
extern == <<saved, frames, assigned, unsaved>>
leafs == <<current_working_tree, history, uncommitted_leaves, committed>>
mocked == <<node, test, missing_accounts, running, entered, host_answers, diverged>>
wire == <<type, source, left, out, prev, result>>
common == <<kind, text, printed, at, state, after_dot, number, reading>>

vars == <<lib, tree, entry, value, builder, extern, leafs, mocked, wire, common>>

Init ==
  /\ lib \in {"trie", "entries", "map_entry", "state_builder", "host", "merkle", "test_host",
            "serialization", "common_types"}
  /\ Tree!Init /\ Entry!Init /\ Value!Init /\ Builder!Init
  /\ Ext!Init /\ Leafs!Init /\ Mocked!Init /\ Wire!Init /\ Common!Init

Next ==
  /\ UNCHANGED lib
  /\ \/ lib = "trie" /\ Tree!Next
        /\ UNCHANGED <<entry, value, builder, extern, leafs, mocked, wire, common>>
     \/ lib = "entries" /\ Entry!Next
        /\ UNCHANGED <<tree, value, builder, extern, leafs, mocked, wire, common>>
     \/ lib = "map_entry" /\ Value!Next
        /\ UNCHANGED <<tree, entry, builder, extern, leafs, mocked, wire, common>>
     \/ lib = "state_builder" /\ Builder!Next
        /\ UNCHANGED <<tree, entry, value, extern, leafs, mocked, wire, common>>
     \/ lib = "host" /\ Ext!Next
        /\ UNCHANGED <<tree, entry, value, builder, leafs, mocked, wire, common>>
     \/ lib = "merkle" /\ Leafs!Next
        /\ UNCHANGED <<tree, entry, value, builder, extern, mocked, wire, common>>
     \/ lib = "test_host" /\ Mocked!Next
        /\ UNCHANGED <<tree, entry, value, builder, extern, leafs, wire, common>>
     \/ lib = "serialization" /\ Wire!Next
        /\ UNCHANGED <<tree, entry, value, builder, extern, leafs, mocked, common>>
     \/ lib = "common_types" /\ Common!Next
        /\ UNCHANGED <<tree, entry, value, builder, extern, leafs, mocked, wire>>

Spec == Init /\ [][Next]_vars

TypeOK ==
  /\ lib = "trie" => Tree!TypeOK
  /\ lib = "entries" => Entry!TypeOK
  /\ lib = "map_entry" => Value!TypeOK
  /\ lib = "state_builder" => Builder!TypeOK
  /\ lib = "host" => Ext!TypeOK
  /\ lib = "merkle" => Leafs!TypeOK
  /\ lib = "test_host" => Mocked!TypeOK
  /\ lib = "serialization" => Wire!TypeOK
  /\ lib = "common_types" => Common!TypeOK

\* An iterator gives out the rest of its subtree as it is.
IteratorsExact == lib = "trie" => Tree!IteratorsExact

\* A state entry and the host behave in unit tests as they do on the chain.
SameAnswers ==
  /\ lib = "entries" => Entry!SameAnswers
  /\ lib = "test_host" => Mocked!SameOutcome

\* A value of a map is the one assigned last.
LastWriteWins == lib = "map_entry" => Value!LastWriteWins

\* Every entry of the state has one owner, and every box its entry.
HeapExact == lib = "state_builder" => Builder!HeapExact

\* A call into an instance finds what was assigned before.
CallsSeeLatest == lib = "host" => Ext!CallsSeeLatest

\* The Merkle tree has the root of its leaves and proves these only.
TreeHolds == lib = "merkle" => Leafs!TreeHolds

\* Values are read as they were written, in bytes and as text, and nothing
\* else is read.
RoundTrips ==
  /\ lib = "serialization" => Wire!RoundTrips
  /\ lib = "common_types" => Common!ReadsBack

\* A map or a set says that it is empty when it has no element.
IsEmpty == Builder!IsEmpty
=============================================================================
