------------------------------ MODULE MapEntry ------------------------------
(***************************************************************************)
(* One key of a StateMap and the ways to its value: the map's own          *)
(* operations, StateRefMut, which loads the value when it is asked for and *)
(* stores it when it is dropped, and the entry API.  A stored value is the *)
(* bytes it is serialized to, its length and as many bytes; an entry may   *)
(* hold more bytes than that.  What borrows the map mutably excludes       *)
(* everything else; get and get_mut do not.                                 *)
(***************************************************************************)
EXTENDS Naturals, Sequences

CONSTANTS
  Refs,   \* the StateRefMuts
  MaxLen  \* bound on the length of a value

MapEntryAssumption == MaxLen \in Nat

VARIABLES
  data,     \* the bytes of the entry, or Absent
  refs,     \* the open StateRefMuts: cursor and lazy_value
  occ,      \* the open OccupiedEntry: cursor, value and modified
  latest,   \* the value the program assigned last, a record
  stale,    \* the program was given another value than that, a record
  aliased   \* the value was reached by two ways at a time, a record

vars == <<data, refs, occ, latest, stale, aliased>>

Values == 0 .. MaxLen
Absent == <<>>  \* a stored value has its length at least
Closed == [open |-> FALSE]
None == MaxLen + 1

serial(v) == <<v>> \o [i \in 1 .. v |-> v]

\* Deserial takes the length and as many bytes, and leaves the rest alone.
deserial(bytes) == IF SubSeq(bytes, 1, bytes[1] + 1) = serial(bytes[1]) THEN bytes[1] ELSE None

\* Writes at the cursor overwrite and extend; nothing is cut off.
Written(bytes, pos, v) ==
  LET new == serial(v)
      Longer == IF pos + Len(new) > Len(bytes) THEN pos + Len(new) ELSE Len(bytes)
  IN  [i \in 1 .. Longer |-> IF i \in pos + 1 .. pos + Len(new) THEN new[i - pos] ELSE bytes[i]]

\* The cursor of an entry that is cut to `size` bytes is moved to its end.
Clamped(pos, size) == IF pos > size THEN size ELSE pos

NoRefs == \A r \in Refs : refs[r] = Closed
Exclusive == NoRefs /\ occ = Closed

Init ==
  /\ data = Absent /\ refs = [r \in Refs |-> Closed] /\ occ = Closed
  /\ latest = None /\ stale = FALSE /\ aliased = FALSE

Returns(v) == stale' = (stale \/ v # latest)
Assigns(v) == latest' = v

-----------------------------------------------------------------------------
\* StateMap.
get ==
  /\ data # Absent /\ occ = Closed
  /\ Returns(deserial(data))
  /\ aliased' = (aliased \/ ~NoRefs)
  /\ UNCHANGED <<data, refs, occ, latest>>

insert(v) ==
  /\ Exclusive
  /\ IF data = Absent THEN UNCHANGED stale ELSE Returns(deserial(data))
  /\ data' = serial(v)
  /\ Assigns(v)
  /\ UNCHANGED <<refs, occ, aliased>>

remove_and_get ==
  /\ Exclusive /\ data # Absent
  /\ Returns(deserial(data))
  /\ data' = Absent /\ latest' = None
  /\ UNCHANGED <<refs, occ, aliased>>

get_mut(r) ==
  /\ refs[r] = Closed /\ data # Absent /\ occ = Closed
  /\ refs' = [refs EXCEPT ![r] = [open |-> TRUE, lazy_value |-> None]]
  /\ aliased' = (aliased \/ ~NoRefs)
  /\ UNCHANGED <<data, occ, latest, stale>>

-----------------------------------------------------------------------------
\* StateRefMut.  Every access moves the cursor to the start first.
load_value(r) == IF refs[r].lazy_value = None THEN deserial(data) ELSE refs[r].lazy_value

RefGet(r) ==
  /\ refs[r].open
  /\ refs' = [refs EXCEPT ![r].lazy_value = load_value(r)]
  /\ Returns(load_value(r))
  /\ UNCHANGED <<data, occ, latest, aliased>>

\* A value assigned through DerefMut stays in memory.
RefGetMut(r, v) ==
  /\ refs[r].open
  /\ refs' = [refs EXCEPT ![r].lazy_value = v]
  /\ Assigns(v)
  /\ UNCHANGED <<data, occ, stale, aliased>>

set(r, v) ==
  /\ refs[r].open
  /\ refs' = [refs EXCEPT ![r].lazy_value = v]
  /\ data' = Written(data, 0, v)
  /\ Assigns(v)
  /\ UNCHANGED <<occ, stale, aliased>>

\* The function is given the value and leaves another one.
update(r, v) ==
  /\ refs[r].open
  /\ Returns(load_value(r))
  /\ refs' = [refs EXCEPT ![r].lazy_value = v]
  /\ data' = Written(data, 0, v)
  /\ Assigns(v)
  /\ UNCHANGED <<occ, aliased>>

\* A value that was loaded is stored, changed or not.
RefDrop_unstored(r) ==
  /\ refs[r].open
  /\ refs' = [refs EXCEPT ![r] = Closed]
  /\ UNCHANGED <<data, occ, latest, stale, aliased>>
RefDrop(r) ==
  /\ refs[r].open
  /\ data' = IF refs[r].lazy_value = None THEN data ELSE Written(data, 0, refs[r].lazy_value)
  /\ refs' = [refs EXCEPT ![r] = Closed]
  /\ UNCHANGED <<occ, latest, stale, aliased>>

-----------------------------------------------------------------------------
\* The entry API.  An occupied entry has its value read, and the cursor is
\* behind it.
OccupiedEntry(pos, v, modified) ==
  [open |-> TRUE, pos |-> pos, value |-> v, modified |-> modified]

EntryOccupied ==
  /\ Exclusive /\ data # Absent
  /\ occ' = OccupiedEntry(Len(serial(deserial(data))), deserial(data), FALSE)
  /\ Returns(deserial(data))
  /\ UNCHANGED <<data, refs, latest, aliased>>

\* VacantEntry::insert rewinds the cursor.
EntryVacant(v) ==
  /\ Exclusive /\ data = Absent
  /\ data' = serial(v)
  /\ occ' = OccupiedEntry(0, v, FALSE)
  /\ Assigns(v)
  /\ UNCHANGED <<refs, stale, aliased>>

\* Entry::or_insert, or_insert_with, or_default: whichever of the two it is.
or_insert(v) == EntryOccupied \/ EntryVacant(v)

OccDerefMut(v) ==
  /\ occ.open
  /\ occ' = [occ EXCEPT !.value = v, !.modified = TRUE]
  /\ Assigns(v)
  /\ UNCHANGED <<data, refs, stale, aliased>>

\* store_value truncates, and writes where that leaves the cursor.
store_value(v) == data' = Written(<<>>, Clamped(occ.pos, 0), v)

\* A try_modify that fails leaves the value as it was.
modify(v) ==
  /\ occ.open
  /\ Returns(occ.value)
  /\ store_value(v)
  /\ occ' = [occ EXCEPT !.value = v, !.pos = Clamped(@, 0) + Len(serial(v))]
  /\ Assigns(v)
  /\ UNCHANGED <<refs, aliased>>

OccDrop ==
  /\ occ.open
  /\ IF occ.modified THEN store_value(occ.value) ELSE UNCHANGED data
  /\ occ' = Closed
  /\ UNCHANGED <<refs, latest, stale, aliased>>

-----------------------------------------------------------------------------
\* The raw entry API writes over the bytes and then cuts off what is left.
insert_raw(v) ==
  /\ Exclusive
  /\ data' = SubSeq(Written(data, 0, v), 1, Len(serial(v)))
  /\ Assigns(v)
  /\ UNCHANGED <<refs, occ, stale, aliased>>

Next ==
  \/ get \/ remove_and_get \/ OccDrop
  \/ \E v \in Values : insert(v) \/ or_insert(v) \/ OccDerefMut(v) \/ modify(v) \/ insert_raw(v)
  \/ \E r \in Refs : get_mut(r) \/ RefGet(r) \/ RefDrop(r)
  \/ \E r \in Refs, v \in Values : RefGetMut(r, v) \/ set(r, v) \/ update(r, v)

-----------------------------------------------------------------------------
TypeOK ==
  /\ data = Absent \/ (Len(data) \in 1 .. MaxLen + 1 /\ \A i \in DOMAIN data : data[i] \in Values)
  /\ \A r \in Refs : refs[r] = Closed \/ refs[r].lazy_value \in Values \cup {None}
  /\ occ = Closed \/ occ \in [open : {TRUE}, pos : 0 .. MaxLen + 1, value : Values, modified : BOOLEAN]
  /\ latest \in Values \cup {None} /\ stale \in BOOLEAN /\ aliased \in BOOLEAN

Stored == Exclusive /\ data # Absent => deserial(data) = latest

\* Whichever way values of different lengths are stored in turn, the program
\* is given the value it assigned last, and that one is in the state when
\* nothing is open, as long as it holds one reference to it at a time.
LastWriteWins == ~aliased => ~stale /\ Stored
=============================================================================
