------------------------------- MODULE Entries -------------------------------
(***************************************************************************)
(* The cursor of a state entry, as contracts run it over the host's        *)
(* functions and as unit tests run it over a vector.  The handles of one   *)
(* entry are used in the same way on both.  Only sizes and positions are   *)
(* kept of the data.  u32 arithmetic is modulo W and i32 is -W/2 .. W/2-1. *)
(***************************************************************************)
EXTENDS Integers, Sequences

CONSTANTS
  Openers,  \* the handles of the entry
  W,        \* 2^32 in the code
  MaxSize,  \* bound on the size of the entry, 2^31 in the code
  MaxBuf    \* bound on the size of a buffer

EntriesAssumption ==
  /\ W \in Nat \ {0} /\ W = 2 * (W \div 2)
  /\ MaxSize \in Nat /\ MaxBuf \in Nat /\ 2 * MaxSize <= W

VARIABLES
  size,             \* of the entry's data in the host and in the test, or Gone
  position,         \* of every handle in both
  answers,          \* of the last operation in both
  strayed           \* a handle read, wrote or moved on from beyond the end, or
                    \* moved by half a word: from there on the builds differ

vars == <<size, position, answers, strayed>>

Gone == -1  \* EntryDeleted
Err == <<>>
Ok(n) == <<n>>
Builds == {"host", "test"}

Init ==
  /\ size = [b \in Builds |-> 0] /\ position = [b \in Builds |-> [h \in Openers |-> 0]]
  /\ answers = [b \in Builds |-> Ok(0)] /\ strayed = FALSE

\* What an operation on an entry of `n` bytes at `pos` gives.
Gives(n, pos, answer) == [size |-> n, position |-> pos, answer |-> answer]

Fails(n, pos) == Gives(n, pos, Err)

-----------------------------------------------------------------------------
\* The host's functions, to which StateEntry hands its position.
state_entry_read(n, len, offset) ==
  IF offset > n THEN 0 ELSE IF len <= n - offset THEN len ELSE n - offset
state_entry_write(n, len, offset) == IF offset > n THEN 0 ELSE len

Larger(a, b) == IF a > b THEN a ELSE b

\* StateEntry.
HostRead(n, pos, len) ==
  LET num_read == state_entry_read(n, len, pos) IN Gives(n, pos + num_read, Ok(num_read))

\* Fixed-size reads take what there is and fail when it is too little.
HostReadExact(n, pos, len) ==
  LET num_read == state_entry_read(n, len, pos)
  IN  Gives(n, pos + num_read, IF num_read = len THEN Ok(len) ELSE Err)

HostWrite(n, pos, len) ==
  LET num_bytes == state_entry_write(n, len, pos)
  IN  IF pos + len >= W THEN Fails(n, pos)
      ELSE Gives(IF num_bytes = 0 THEN n ELSE Larger(n, pos + num_bytes),
                 pos + num_bytes, Ok(num_bytes))

HostResize_unclamped(n, pos, new_size) == Gives(new_size, pos, Ok(0))
HostResize(n, pos, new_size) ==
  Gives(new_size, IF pos > new_size THEN new_size ELSE pos, Ok(0))

as_u32(delta) == delta % W

HostSeek(n, pos, from, x) ==
  LET new_offset == IF from = "Start" THEN x
                    ELSE IF from = "End" THEN (n + as_u32(x)) % W
                    ELSE (pos + as_u32(x)) % W
  IN  IF new_offset <= n /\ ~(from = "End" /\ x > 0)
      THEN Gives(n, new_offset, Ok(new_offset))
      ELSE Fails(n, pos)

-----------------------------------------------------------------------------
\* TestStateEntry.  A subtraction below zero panics, which is a failure too.
TestRead(n, pos, len) ==
  LET rest == n - pos
      num_read == IF rest > len THEN len ELSE rest
  IN  IF rest < 0 THEN Fails(n, pos) ELSE Gives(n, pos + num_read, Ok(num_read))

\* Read::read_exact reads until nothing is left.
TestReadExact(n, pos, len) ==
  LET read == TestRead(n, pos, len)
  IN  IF read.answer = Ok(len) THEN read ELSE [read EXCEPT !.answer = Err]

TestWrite(n, pos, len) == Gives(Larger(n, pos + len), pos + len, Ok(len))

TestResize(n, pos, new_size) ==
  Gives(new_size, IF pos > new_size THEN new_size ELSE pos, Ok(0))

Min_i32 == -(W \div 2)

TestSeek(n, pos, from, x) ==
  LET to(new_pos) == Gives(n, new_pos, Ok(new_pos))
  IN  IF from = "Start" THEN IF x <= n THEN to(x) ELSE Fails(n, pos)
      ELSE IF from = "End"
      THEN IF x <= 0 /\ x # Min_i32 /\ n + x >= 0 THEN to(n + x) ELSE Fails(n, pos)
      ELSE IF x = 0 THEN to(pos)
      ELSE IF x > 0 THEN IF pos + x <= n THEN to(pos + x) ELSE Fails(n, pos)
      ELSE IF x # Min_i32 /\ pos + x >= 0 THEN to(pos + x) ELSE Fails(n, pos)

-----------------------------------------------------------------------------
\* One operation of a handle in both builds.  A deleted entry fails them all.
\* The comparison ends when a handle strayed.
Beyond(h) == \E b \in Builds : size[b] # Gone /\ position[b][h] > size[b]

Both(h, host, test) ==
  /\ size' = [host |-> host.size, test |-> test.size]
  /\ position' = [b \in Builds |-> [position[b] EXCEPT ![h] =
       IF b = "host" THEN host.position ELSE test.position]]
  /\ answers' = [host |-> host.answer, test |-> test.answer]

Does(h, Host(_, _), Test(_, _)) ==
  /\ size["host"] # Gone /\ ~strayed
  /\ Both(h, Host(size["host"], position["host"][h]), Test(size["test"], position["test"][h]))
  /\ \A b \in Builds : size'[b] <= MaxSize

Strays(h) == strayed' = Beyond(h)

read(h, len) ==
  /\ Does(h, LAMBDA n, pos : HostRead(n, pos, len), LAMBDA n, pos : TestRead(n, pos, len))
  /\ Strays(h)

read_exact(h, len) ==
  /\ Does(h, LAMBDA n, pos : HostReadExact(n, pos, len),
             LAMBDA n, pos : TestReadExact(n, pos, len))
  /\ Strays(h)

write(h, len) ==
  /\ Does(h, LAMBDA n, pos : HostWrite(n, pos, len), LAMBDA n, pos : TestWrite(n, pos, len))
  /\ Strays(h)

\* The other difference between the builds' seeks: on an entry of half a word,
\* the greatest size there is, the host finds both ends by the displacement
\* -2^31, whose absolute value the test cannot represent.
HalfWord(h, from, x) ==
  /\ x = Min_i32 /\ 2 * size["host"] = W
  /\ \/ from = "End"
     \/ from = "Current" /\ position["host"][h] \in {0, size["host"]}

seek(h, from, x) ==
  /\ Does(h, LAMBDA n, pos : HostSeek(n, pos, from, x),
             LAMBDA n, pos : TestSeek(n, pos, from, x))
  /\ strayed' = (HalfWord(h, from, x) \/ (from = "Current" /\ Beyond(h)))

resize(h, new_size) ==
  /\ Does(h, LAMBDA n, pos : HostResize(n, pos, new_size),
             LAMBDA n, pos : TestResize(n, pos, new_size))
  /\ UNCHANGED strayed

\* Truncating to no less than the size does nothing, reserving no more too.
truncate(h, new_size) ==
  LET If(n, pos, done) == IF n > new_size THEN done ELSE Gives(n, pos, Ok(0))
  IN  /\ Does(h, LAMBDA n, pos : If(n, pos, HostResize(n, pos, new_size)),
                 LAMBDA n, pos : If(n, pos, TestResize(n, pos, new_size)))
      /\ UNCHANGED strayed

reserve(h, len) ==
  LET If(n, pos, done) == IF n < len THEN done ELSE Gives(n, pos, Ok(0))
  IN  /\ Does(h, LAMBDA n, pos : If(n, pos, HostResize(n, pos, len)),
                 LAMBDA n, pos : If(n, pos, TestResize(n, pos, len)))
      /\ UNCHANGED strayed

move_to_start(h) ==
  /\ position' = [b \in Builds |-> [position[b] EXCEPT ![h] = 0]]
  /\ UNCHANGED <<size, answers, strayed>>

\* The entry goes with its prefix.
delete_prefix ==
  /\ size["host"] # Gone
  /\ size' = [b \in Builds |-> Gone]
  /\ UNCHANGED <<position, answers, strayed>>

UseDeleted ==
  /\ size["host"] = Gone
  /\ answers' = [b \in Builds |-> Err]
  /\ UNCHANGED <<size, position, strayed>>

i32 == Min_i32 .. W \div 2 - 1

Next ==
  \/ \E h \in Openers :
       \/ \E len \in 0 .. MaxBuf : read(h, len) \/ read_exact(h, len) \/ write(h, len)
       \/ \E new_size \in 0 .. MaxSize :
            resize(h, new_size) \/ truncate(h, new_size) \/ reserve(h, new_size)
       \/ \E x \in 0 .. W - 1 : seek(h, "Start", x)
       \/ \E from \in {"End", "Current"}, x \in i32 : seek(h, from, x)
       \/ move_to_start(h)
  \/ delete_prefix \/ UseDeleted

-----------------------------------------------------------------------------
TypeOK ==
  /\ size \in [Builds -> 0 .. MaxSize \cup {Gone}]
  /\ position \in [Builds -> [Openers -> 0 .. W - 1]]
  /\ answers \in [Builds -> {Err} \cup {Ok(n) : n \in 0 .. W - 1}]
  /\ strayed \in BOOLEAN

\* A test of a contract sees what the contract will see: however the handles
\* of an entry are used in turn, positions, sizes and answers are the same in
\* both builds.  "This does _not_ match the semantics of Seek for StateEntry",
\* says the test's seek; it ends no earlier than where a handle goes on from
\* beyond the end of the data, which another handle cut short, or is moved by
\* -2^31 in an entry of 2^31 bytes.
SameAnswers ==
  ~strayed => /\ size["host"] = size["test"]
              /\ position["host"] = position["test"]
              /\ answers["host"] = answers["test"]
=============================================================================
