--------------------------- MODULE Serialization ---------------------------
(***************************************************************************)
(* Serial and Deserial of the collections and sums: what is written, and   *)
(* the loops that read it back, one element a step.  A number, whatever    *)
(* its width, is one item of the source, and elements are numbers.  The    *)
(* readers that are given a length have it in front of the elements.  A    *)
(* text (a String, or a name of a contract, a receive function or an entry *)
(* point) is read as a vector of bytes, which is tested at its end.        *)
(***************************************************************************)
EXTENDS Lists, FiniteSets

CONSTANTS
  Items,     \* numbers
  Legible,   \* the bytes that String::from_utf8 and the test of a name accept
  ArrayLen,  \* the length of arrays
  MaxWire    \* bound on the length of a source

SerializationAssumption ==
  Items \subseteq Nat /\ IsFiniteSet(Items) /\ ArrayLen \in Nat /\ MaxWire \in Nat

VARIABLES
  type,    \* what is read
  source,  \* the cursor: data and offset
  left,    \* how many elements are to be read, <<>> before the length is
  out,     \* what the loop has collected
  prev,    \* the last key, a sequence of at most one
  result

vars == <<type, source, left, out, prev, result>>

Maps == {"map", "map_no_order_check", "hashmap"}
Sets == {"set", "set_no_order_check", "hashset"}
Sums == {"bool", "option", "address"}
Vectors == {"vector", "array", "text"}
Types == Maps \cup Sets \cup Sums \cup Vectors
None == "None"

Init ==
  /\ type = None /\ source = [data |-> <<>>, offset |-> 0]
  /\ left = <<>> /\ out = <<>> /\ prev = <<>> /\ result = "Done"

from_bytes(t, bytes) ==
  /\ type = None /\ type' = t
  /\ source' = [data |-> bytes, offset |-> 0]
  /\ left' = IF t = "array" THEN <<ArrayLen>> ELSE <<>>
  /\ out' = IF t \in Sets THEN {} ELSE <<>>
  /\ prev' = <<>> /\ result' = "Open"

-----------------------------------------------------------------------------
\* read_exact fails when the source is too short.
read_exact(n) == source.offset + n <= Len(source.data)
item(i) == source.data[source.offset + i]

Err == result' = "Err" /\ UNCHANGED <<type, source, left, out, prev>>

Return(value, n) ==
  /\ result' = "Ok" /\ out' = value
  /\ source' = [source EXCEPT !.offset = @ + n]
  /\ UNCHANGED <<type, left, prev>>

deserial_len ==
  /\ left = <<>>
  /\ IF ~read_exact(1) THEN Err
     ELSE /\ left' = <<item(1)>>
          /\ source' = [source EXCEPT !.offset = @ + 1]
          /\ UNCHANGED <<type, out, prev, result>>

\* One round of a loop: n items make an element, that is taken if it may be.
Round(n, may, collected) ==
  /\ left \notin {<<>>, <<0>>}
  /\ IF ~read_exact(n) \/ ~may THEN Err
     ELSE /\ left' = <<left[1] - 1>>
          /\ source' = [source EXCEPT !.offset = @ + n]
          /\ prev' = <<item(1)>>
          /\ out' = collected
          /\ UNCHANGED <<type, result>>

Inserted(m) == [k \in DOMAIN m \cup {item(1)} |-> IF k = item(1) THEN item(2) ELSE m[k]]
Above(k) == prev # <<>> => k > prev[1]

deserial_vector_no_length == Round(1, TRUE, Append(out, item(1)))
deserial_map_no_length == Round(2, Above(item(1)), Inserted(out))
deserial_map_no_length_no_order_check == Round(2, item(1) \notin DOMAIN out, Inserted(out))
deserial_set_no_length_equal ==
  Round(1, prev # <<>> => item(1) >= prev[1], out \cup {item(1)})
deserial_set_no_length == Round(1, Above(item(1)), out \cup {item(1)})
deserial_set_no_length_no_order_check == Round(1, item(1) \notin out, out \cup {item(1)})

LoopEnds == left = <<0>> /\ type # "text" /\ Return(out, 0)

TextEnds ==
  /\ left = <<0>> /\ type = "text"
  /\ IF out \in Legible THEN Return(out, 0) ELSE Err

-----------------------------------------------------------------------------
deserial_bool ==
  IF read_exact(1) /\ item(1) \in {0, 1} THEN Return(item(1) = 1, 1) ELSE Err

deserial_option ==
  \/ read_exact(1) /\ item(1) = 0 /\ Return(<<>>, 1)
  \/ read_exact(2) /\ item(1) = 1 /\ Return(<<item(2)>>, 2)
  \/ ~read_exact(1) /\ Err
  \/ read_exact(1) /\ (item(1) > 1 \/ (item(1) = 1 /\ ~read_exact(2))) /\ Err

\* An account, or a contract by its index and subindex.
deserial_address ==
  \/ read_exact(2) /\ item(1) = 0 /\ Return(<<item(2)>>, 2)
  \/ read_exact(3) /\ item(1) = 1 /\ Return(<<item(2), item(3)>>, 3)
  \/ ~read_exact(1) /\ Err
  \/ read_exact(1) /\ (item(1) > 1 \/ ~read_exact(2 + item(1))) /\ Err

Read ==
  \/ type \notin Sums /\ (deserial_len \/ LoopEnds \/ TextEnds)
  \/ type \in Vectors /\ deserial_vector_no_length
  \/ type = "map" /\ deserial_map_no_length
  \/ type \in {"map_no_order_check", "hashmap"} /\ deserial_map_no_length_no_order_check
  \/ type = "set" /\ deserial_set_no_length
  \/ type \in {"set_no_order_check", "hashset"} /\ deserial_set_no_length_no_order_check
  \/ type = "bool" /\ deserial_bool
  \/ type = "option" /\ deserial_option
  \/ type = "address" /\ deserial_address

Next ==
  \/ \E t \in Types, bytes \in SeqOf(Items, MaxWire) : from_bytes(t, bytes)
  \/ result = "Open" /\ Read

-----------------------------------------------------------------------------
\* What is written: a BTreeMap and a BTreeSet in the order of the keys, the
\* hashed ones in any order, which is the set of what may be written.
Orders(keys) == {s \in [1 .. Cardinality(keys) -> keys] : ToSet(s) = keys}
InOrder(keys) == {s \in Orders(keys) : \A i, j \in DOMAIN s : i < j => s[i] < s[j]}

Pairs(m, ks) ==
  [i \in 1 .. 2 * Len(ks) |-> IF i % 2 = 1 THEN ks[(i + 1) \div 2] ELSE m[ks[i \div 2]]]
serial_map_no_length(m, orders) == {Pairs(m, ks) : ks \in orders}

WithLength(n, elements) == {<<n>> \o e : e \in elements}

serial_hash(t, v) ==
  IF t \in Maps
  THEN WithLength(Cardinality(DOMAIN v), serial_map_no_length(v, Orders(DOMAIN v)))
  ELSE WithLength(Cardinality(v), Orders(v))

serial_text(v) == <<Len(v)>> \o v
serial_bool(v) == <<IF v THEN 1 ELSE 0>>
serial_option(v) == <<Len(v)>> \o v
serial_address(v) == <<Len(v) - 1>> \o v

serial(t, v) ==
  CASE t = "vector" -> {<<Len(v)>> \o v}
    [] t = "array" -> {v}
    [] t = "text" -> {serial_text(v)}
    [] t \in {"hashmap", "hashset"} -> serial_hash(t, v)
    [] t \in Maps \ {"hashmap"} ->
         WithLength(Cardinality(DOMAIN v), serial_map_no_length(v, InOrder(DOMAIN v)))
    [] t \in Sets \ {"hashset"} -> WithLength(Cardinality(v), InOrder(v))
    [] t = "bool" -> {serial_bool(v)}
    [] t = "option" -> {serial_option(v)}
    [] t = "address" -> {serial_address(v)}

-----------------------------------------------------------------------------
Values(t) ==
  CASE t = "vector" -> SeqOf(Items, MaxWire)
    [] t = "array" -> [1 .. ArrayLen -> Items]
    [] t = "text" -> SeqOf(Items, MaxWire) \cap Legible
    [] t \in Maps -> UNION {[K -> Items] : K \in SUBSET Items}
    [] t \in Sets -> SUBSET Items
    [] t = "bool" -> BOOLEAN
    [] t = "option" -> {<<>>} \cup {<<x>> : x \in Items}
    [] t = "address" -> {<<x>> : x \in Items} \cup (Items \X Items)

TypeOK ==
  /\ type \in Types \cup {None} /\ result \in {"Done", "Open", "Ok", "Err"}
  /\ source.data \in SeqOf(Items, MaxWire) /\ source.offset \in 0 .. Len(source.data)
  /\ left \in Seq(Nat) /\ Len(left) <= 1
  /\ result = "Ok" => out \in Values(type)

\* Whatever arrives: what was written for a value is read as that value, to
\* its last byte; what is read has only the bytes the value is written with,
\* in the one order of the keys for the readers that check it; and what was
\* written for no value is turned down.
RoundTrips ==
  LET taken == SubSeq(source.data, 1, source.offset)
      unchecked == type \in {"map_no_order_check", "set_no_order_check"}
  IN  /\ result = "Ok" =>
           taken \in IF unchecked THEN serial_hash(type, out) ELSE serial(type, out)
      /\ result = "Err" =>
           \A v \in Values(type) : \A bytes \in serial(type, v) : ~IsPrefix(bytes, source.data)
=============================================================================
