---------------------------- MODULE StateBuilder ----------------------------
(***************************************************************************)
(* The collections a contract keeps in its state: maps, sets and boxes at  *)
(* prefixes that the state builder hands out, nested in each other.  A     *)
(* value is plain data or names the prefix of a collection.  The program   *)
(* owns the values it builds or takes out, and puts them into another      *)
(* collection or deletes them, as the library asks it to.                  *)
(***************************************************************************)
EXTENDS Naturals, Sequences, FiniteSets

CONSTANTS
  MapKeys,     \* keys of maps, elements of sets
  MaxPrefixes  \* bound on the prefixes in use, the one of the contract's map included

StateBuilderAssumption == MaxPrefixes \in Nat \ {0}

VARIABLES
  store,        \* the value at every location that has an entry
  next_prefix,  \* what the entry at NEXT_ITEM_PREFIX_KEY says
  held          \* the collections the program owns in memory

vars == <<store, next_prefix, held>>

Plain == [kind |-> "plain"]
StateBox(p) == [kind |-> "box", prefix |-> p]
StateMap(p) == [kind |-> "map", prefix |-> p]
StateSet(p) == [kind |-> "set", prefix |-> p]

\* A box is at its prefix, the items of a map or a set continue it.
At(p) == <<p>>
Item(p, k) == <<p, k>>

\* The contract's own map, which its init function makes.
INITIAL_NEXT_ITEM_PREFIX == 2
Root == StateMap(INITIAL_NEXT_ITEM_PREFIX)

Init == store = <<>> /\ next_prefix = INITIAL_NEXT_ITEM_PREFIX + 1 /\ held = {}

With(location, v) ==
  [l \in DOMAIN store \cup {location} |-> IF l = location THEN v ELSE store[l]]
Without(locations) == [l \in DOMAIN store \ locations |-> store[l]]

\* What an iterator over the prefix goes through, and a deletion of it takes.
Items(p) == {l \in DOMAIN store : l[1] = p /\ Len(l) > 1}
Subtree(p) == {l \in DOMAIN store : l[1] = p}

Owned(v) == {v} \ {Plain}

-----------------------------------------------------------------------------
\* Deleting a value: a box frees its location and deletes its content, a map
\* deletes its values and then frees its prefix, a set has plain elements.
Freed_flat(v) == IF v = Plain THEN {} ELSE Subtree(v.prefix)
Freed(v) ==
  LET Contents(vs) == UNION {{store[l] : l \in Subtree(u.prefix)} : u \in vs \ {Plain}}
      Nested[n \in Nat] == IF n = 0 THEN {v} ELSE Nested[n - 1] \cup Contents(Nested[n - 1])
  IN  UNION {Subtree(u.prefix) : u \in Nested[MaxPrefixes] \ {Plain}}

-----------------------------------------------------------------------------
\* Every collection gets the next prefix.
get_and_update_item_prefix ==
  /\ next_prefix < INITIAL_NEXT_ITEM_PREFIX + MaxPrefixes
  /\ next_prefix' = next_prefix + 1

new_map ==
  /\ get_and_update_item_prefix
  /\ held' = held \cup {StateMap(next_prefix)}
  /\ UNCHANGED store

new_set ==
  /\ get_and_update_item_prefix
  /\ held' = held \cup {StateSet(next_prefix)}
  /\ UNCHANGED store

new_box(v) ==
  /\ get_and_update_item_prefix
  /\ store' = With(At(next_prefix), v)
  /\ held' = (held \ {v}) \cup {StateBox(next_prefix)}

-----------------------------------------------------------------------------
\* Maps.  What is replaced or taken out is the program's.
insert(m, k, v) ==
  LET l == Item(m.prefix, k)
      old == IF l \in DOMAIN store THEN Owned(store[l]) ELSE {}
  IN  /\ store' = With(l, v)
      /\ held' = (held \ {v}) \cup old
      /\ UNCHANGED next_prefix

remove_and_get(m, k) ==
  LET l == Item(m.prefix, k)
  IN  /\ l \in DOMAIN store
      /\ store' = Without({l})
      /\ held' = held \cup Owned(store[l])
      /\ UNCHANGED next_prefix

remove(m, k) ==
  LET l == Item(m.prefix, k)
  IN  /\ l \in DOMAIN store
      /\ store' = Without({l} \cup Freed(store[l]))
      /\ UNCHANGED <<next_prefix, held>>

clear(m) ==
  /\ store' = Without(Freed(m))
  /\ UNCHANGED <<next_prefix, held>>

\* The types allow it on maps of plain data.
clear_flat(m) ==
  /\ \A l \in Items(m.prefix) : store[l] = Plain
  /\ store' = Without(Subtree(m.prefix))
  /\ UNCHANGED <<next_prefix, held>>

\* Sets.
SetInsert(s, k) ==
  /\ Item(s.prefix, k) \notin DOMAIN store
  /\ store' = With(Item(s.prefix, k), Plain)
  /\ UNCHANGED <<next_prefix, held>>

SetRemove(s, k) ==
  /\ Item(s.prefix, k) \in DOMAIN store
  /\ store' = Without({Item(s.prefix, k)})
  /\ UNCHANGED <<next_prefix, held>>

SetClear(s) ==
  /\ store' = Without(Subtree(s.prefix))
  /\ UNCHANGED <<next_prefix, held>>

is_empty(c) == At(c.prefix) \notin DOMAIN store

\* Boxes: the old value is the program's.
replace(b, v) ==
  /\ store' = With(At(b.prefix), v)
  /\ held' = (held \ {v}) \cup Owned(store[At(b.prefix)])
  /\ UNCHANGED next_prefix

delete(v) ==
  /\ store' = Without(Freed(v))
  /\ held' = held \ {v}
  /\ UNCHANGED next_prefix

\* The collections at hand: the contract's map, what is in it, and what the
\* program holds.  A value is moved, so it is not put into itself.
AtHand == {Root} \cup held \cup {store[l] : l \in Items(Root.prefix)}
OfKind(kind) == {c \in AtHand : c.kind = kind}

Next ==
  \/ new_map \/ new_set
  \/ \E v \in {Plain} \cup held : new_box(v)
  \/ \E m \in OfKind("map"), k \in MapKeys :
       \/ \E v \in {Plain} \cup (held \ {m}) : insert(m, k, v)
       \/ remove_and_get(m, k) \/ remove(m, k)
  \/ \E m \in OfKind("map") : clear(m) \/ clear_flat(m)
  \/ \E s \in OfKind("set") : SetClear(s) \/ \E k \in MapKeys : SetInsert(s, k) \/ SetRemove(s, k)
  \/ \E b \in OfKind("box") : \E v \in {Plain} \cup (held \ {b}) : replace(b, v)
  \/ \E v \in held : delete(v)

-----------------------------------------------------------------------------
Prefixes == INITIAL_NEXT_ITEM_PREFIX .. INITIAL_NEXT_ITEM_PREFIX + MaxPrefixes
Collections == [kind : {"box", "map", "set"}, prefix : Prefixes]

TypeOK ==
  /\ DOMAIN store \subseteq {At(p) : p \in Prefixes} \cup {Item(p, k) : p \in Prefixes, k \in MapKeys}
  /\ \A l \in DOMAIN store : store[l] \in {Plain} \cup Collections
  /\ next_prefix \in Prefixes /\ held \subseteq Collections

\* The number of places that name a collection, the program's memory as one.
Owners(c) ==
  Cardinality({l \in DOMAIN store : store[l] = c}) + Cardinality({c} \cap (held \cup {Root}))

\* Nothing in the state is left behind or shared: every entry is in a
\* collection that is in one place, and every box that is named is there.
HeapExact ==
  LET named == {store[l] : l \in DOMAIN store} \cup held \cup {Root}
  IN  /\ \A l \in DOMAIN store : \E c \in named \ {Plain} : c.prefix = l[1]
      /\ \A c, d \in named \ {Plain} : c.prefix = d.prefix => c = d /\ Owners(c) = 1
      /\ \A c \in named : c.kind = "box" => At(c.prefix) \in DOMAIN store

\* A map or a set says that it is empty when it has no element.
IsEmpty == \A c \in OfKind("map") \cup OfKind("set") : is_empty(c) <=> Items(c.prefix) = {}
=============================================================================
