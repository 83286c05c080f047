---------------------------- MODULE CommonTypes ----------------------------
(***************************************************************************)
(* The value types that contracts and tools share: amounts and durations   *)
(* read from text, a character or a measure a step, and written to it; the *)
(* names of contracts and entrypoints; times.  A u64 is a number below     *)
(* Limit, a digit is its value, and "init_" is one character of InitSize   *)
(* bytes.                                                                  *)
(***************************************************************************)
EXTENDS Lists

CONSTANTS
  Limit,                      \* 2^64
  Digits,                     \* the digits that occur in texts
  Decimals,                   \* of an amount in CCD, six
  Second, Minute, Hour, Day,  \* in milliseconds
  MAX_FUNC_NAME_SIZE,
  InitSize,
  MaxText,                    \* bound on the length of a text
  MaxName                     \* bound on the length of a name

CommonTypesAssumption ==
  /\ {Limit, InitSize, MAX_FUNC_NAME_SIZE, Decimals} \subseteq Nat \ {0}
  /\ Digits \subseteq 0 .. 9 /\ {MaxText, MaxName} \subseteq Nat
  /\ Limit > 9 /\ {Second, Minute, Hour, Day} \subseteq 1 .. Limit - 1
  /\ Minute % Second = 0 /\ Hour % Minute = 0 /\ Day % Hour = 0

VARIABLES
  kind,       \* what is read
  text,
  printed,    \* the value that the text was printed from, if any
  at,         \* how much of the text is read
  state,      \* of the parser of amounts
  after_dot,
  out,
  answer

vars == <<kind, text, printed, at, state, after_dot, out, answer>>

u64 == 0 .. Limit - 1
Ten[k \in Nat] == IF k = 0 THEN 1 ELSE 10 * Ten[k - 1]
Dot == 10
Letter == 11
Other == 12
init_ == 13
Kinds == {"amount", "duration", "construct", "receive_name", "times"}
None == "None"

Init ==
  /\ kind = None /\ text = <<>> /\ printed = <<>> /\ at = 0 /\ state = 0 /\ after_dot = 0
  /\ out = 0 /\ answer = "Done"

from_str(k, t, v) ==
  /\ kind' = k /\ text' = t /\ printed' = v /\ answer' = "Open"
  /\ UNCHANGED <<at, state, after_dot, out>>

Err == answer' = "Err" /\ UNCHANGED <<kind, text, printed, at, state, after_dot, out>>
Ok(value) ==
  /\ answer' = "Ok" /\ out' = value
  /\ UNCHANGED <<kind, text, printed, at, state, after_dot>>

More == at < Len(text)
c == text[at + 1]

-----------------------------------------------------------------------------
\* An amount n[.m] in CCD.
Step(next, value, decimals) ==
  /\ at' = at + 1 /\ state' = next /\ out' = value /\ after_dot' = after_dot + decimals
  /\ UNCHANGED <<kind, text, printed, answer>>

Digit(decimals) ==
  IF 10 * out + c \in u64 THEN Step(state, 10 * out + c, decimals) ELSE Err

First == state = 0 /\ IF c < 10 THEN Step(IF c = 0 THEN 1 ELSE 2, c, 0) ELSE Err
AfterZero == state = 1 /\ IF c = Dot THEN Step(3, out, 0) ELSE Err
Whole ==
  /\ state = 2
  /\ \/ c < 10 /\ Digit(0)
     \/ c = Dot /\ Step(3, out, 0)
     \/ c > Dot /\ Err
Fraction == state = 3 /\ IF after_dot < Decimals /\ c < 10 THEN Digit(1) ELSE Err

EndOfAmount ==
  LET micro_ccd == out * Ten[Decimals - after_dot]
  IN  IF state = 0 \/ (state = 3 /\ after_dot = 0) \/ micro_ccd \notin u64
      THEN Err ELSE Ok(micro_ccd)

ReadAmount ==
  \/ More /\ (First \/ AfterZero \/ Whole \/ Fraction)
  \/ ~More /\ EndOfAmount

Padded(n, k) == [i \in 1 .. k |-> (n \div Ten[k - i]) % 10]
Numeral(n) == Padded(n, CHOOSE k \in 1 .. Limit : n < Ten[k] /\ (k > 1 => n >= Ten[k - 1]))

DisplayAmount(micro_ccd) ==
  LET q == micro_ccd \div Ten[Decimals]
      r == micro_ccd % Ten[Decimals]
  IN  Numeral(q) \o <<Dot>> \o IF r = 0 THEN <<0>> ELSE Padded(r, Decimals)

-----------------------------------------------------------------------------
\* A duration is a list of measures: the digits in front, none or a number,
\* and a unit.  A build with overflow checks panics where others wrap.
Factor == [ms |-> 1, s |-> Second, m |-> Minute, h |-> Hour, d |-> Day]

ReadMeasure ==
  LET n == c[1]
      sum == out + n[1] * Factor[c[2]]
  IN  IF c[2] = "" \/ n = <<>> \/ n[1] \notin u64 \/ c[2] \notin DOMAIN Factor THEN Err
      ELSE \/ /\ at' = at + 1 /\ out' = sum % Limit
              /\ UNCHANGED <<kind, text, printed, state, after_dot, answer>>
           \/ /\ sum \notin u64 /\ answer' = "Panic"
              /\ UNCHANGED <<kind, text, printed, at, state, after_dot, out>>

ReadDuration == IF More THEN ReadMeasure ELSE Ok(out)

days(millis) == millis \div Day
hours(millis) == millis \div Hour
minutes(millis) == millis \div Minute
seconds(millis) == millis \div Second

DisplayDuration(millis) ==
  << <<<<days(millis)>>, "d">>, <<<<hours(millis % Day)>>, "h">>,
     <<<<minutes(millis % Hour)>>, "m">>, <<<<seconds(millis % Minute)>>, "s">>,
     <<<<millis % Second>>, "ms">> >>

-----------------------------------------------------------------------------
\* Names.
StartsWithInit(name) == name # <<>> /\ name[1] = init_
len(name) == Len(name) + IF StartsWithInit(name) THEN InitSize - 1 ELSE 0
Printable(name) == ~Contains(name, Other)

is_valid_contract_name(name) ==
  /\ StartsWithInit(name) /\ len(name) <= MAX_FUNC_NAME_SIZE
  /\ ~Contains(name, Dot) /\ Printable(name)
contract_name(name) == Tail(name)

is_valid_receive_name(name) ==
  Contains(name, Dot) /\ len(name) <= MAX_FUNC_NAME_SIZE /\ Printable(name)
is_valid_entrypoint_name(name) == len(name) < MAX_FUNC_NAME_SIZE /\ Printable(name)

get_name_parts(name) ==
  LET first == CHOOSE i \in DOMAIN name : name[i] = Dot /\ ~Contains(SubSeq(name, 1, i - 1), Dot)
  IN  <<SubSeq(name, 1, first - 1), SubSeq(name, first + 1, Len(name))>>

\* A receive name from the names of a contract and an entrypoint.
construct ==
  LET name == contract_name(text[1]) \o <<Dot>> \o text[2]
  IN  IF is_valid_contract_name(text[1]) /\ is_valid_entrypoint_name(text[2])
           /\ is_valid_receive_name(name)
      THEN Ok(name) ELSE Err

ReadName == IF is_valid_receive_name(text) THEN Ok(get_name_parts(text)) ELSE Err

-----------------------------------------------------------------------------
\* Times, with <<>> for None.
checked_add(t, d) == IF t + d \in u64 THEN <<t + d>> ELSE <<>>
checked_sub(t, d) == IF t >= d THEN <<t - d>> ELSE <<>>
duration_since(t, before) == checked_sub(t, before)
duration_between(t, u) == IF t >= u THEN t - u ELSE u - t

Measure ==
  Ok(<<duration_between(text[1], text[2]), duration_since(text[1], text[2]),
       checked_add(text[1], text[2]), checked_sub(text[1], text[2])>>)

-----------------------------------------------------------------------------
Numbers == {<<>>} \cup {<<n>> : n \in {0, 1, Second, Limit - 1, Limit}}
Measures == (Numbers \X {"ms", "s", "m", "h", "d", "", "x"}) \ {<< <<>>, "" >>}
Names == SeqOf({Letter, Dot, Other}, MaxName)
ContractNames == Names \cup {<<init_>> \o name : name \in Names}

\* What arrives: any short text, or one that was printed.
Arrives ==
  \/ \E t \in SeqOf(Digits \cup {Dot, Other}, MaxText) : from_str("amount", t, <<>>)
  \/ \E a \in u64 : from_str("amount", DisplayAmount(a), <<a>>)
  \/ \E t \in SeqOf(Measures, 2) : from_str("duration", t, <<>>)
  \/ \E d \in u64 : from_str("duration", DisplayDuration(d), <<d>>)
  \/ \E contract \in ContractNames, entrypoint \in Names :
       from_str("construct", <<contract, entrypoint>>, <<>>)
  \/ \E name \in Names : from_str("receive_name", name, <<>>)
  \/ \E t, u \in {0, 1, Second, Limit - 2, Limit - 1} : from_str("times", <<t, u>>, <<>>)

Next ==
  \/ kind = None /\ Arrives
  \/ /\ answer = "Open"
     /\ \/ kind = "amount" /\ ReadAmount
        \/ kind = "duration" /\ ReadDuration
        \/ kind = "construct" /\ construct
        \/ kind = "receive_name" /\ ReadName
        \/ kind = "times" /\ Measure

-----------------------------------------------------------------------------
TypeOK ==
  /\ kind \in Kinds \cup {None} /\ answer \in {"Done", "Open", "Ok", "Err", "Panic"}
  /\ at \in 0 .. Len(text) /\ state \in 0 .. 3 /\ after_dot \in 0 .. Decimals
  /\ kind \in {"amount", "duration"} => out \in u64

\* What is printed can be read again and is the value it was printed from.
PrintedReadsBack ==
  printed # <<>> => answer \notin {"Err", "Panic"} /\ (answer = "Ok" => out = printed[1])

\* A numeral, which has no leading zero, and perhaps a dot and some decimals.
IsAmount(n, m) ==
  /\ n \in Seq(0 .. 9) \ {<<>>} /\ (n[1] = 0 => Len(n) = 1)
  /\ m # <<>> => m[1] = Dot /\ Len(m) \in 2 .. Decimals + 1 /\ Tail(m) \in Seq(0 .. 9)

Worth(n, m) ==
  LET digits == n \o (IF m = <<>> THEN <<>> ELSE Tail(m))
      Number[i \in 0 .. Len(digits)] == IF i = 0 THEN 0 ELSE 10 * Number[i - 1] + digits[i]
  IN  Number[Len(digits)] * Ten[Decimals + Len(n) - Len(digits)]

\* A text is read as an amount just if it is one that a u64 can hold, with its
\* value, wherever the digits overflow.
AmountsExact ==
  LET Amounts == {Worth(SubSeq(text, 1, k), SubSeq(text, k + 1, Len(text))) :
                  k \in {k \in 1 .. Len(text) :
                         IsAmount(SubSeq(text, 1, k), SubSeq(text, k + 1, Len(text)))}}
  IN  kind = "amount" =>
        /\ answer = "Ok" => Amounts = {out}
        /\ answer = "Err" => Amounts \cap u64 = {}

IsMeasure(x) == x[1] # <<>> /\ x[1][1] \in u64 /\ x[2] \in DOMAIN Factor
Millis(x) == IF IsMeasure(x) THEN x[1][1] * Factor[x[2]] ELSE 0

\* A duration is the sum of its measures, cut off at the width of a u64 only
\* where the build does not check, and every measure of it is one.
DurationsExact ==
  LET Sum[i \in 0 .. Len(text)] == IF i = 0 THEN 0 ELSE Sum[i - 1] + Millis(text[i])
  IN  kind = "duration" =>
        /\ answer = "Ok" => /\ \A i \in DOMAIN text : IsMeasure(text[i])
                          /\ out = Sum[Len(text)] % Limit
        /\ answer = "Err" => \E i \in DOMAIN text : ~IsMeasure(text[i])
        /\ answer = "Panic" => Sum[at + 1] \notin u64

\* The name of a receive function names its contract and its entrypoint,
\* whatever dots the latter has; and the entrypoint that is taken from a valid
\* name, without a check, is valid.
NamesReadBack ==
  answer = "Ok" =>
    /\ kind = "construct" => get_name_parts(out) = <<contract_name(text[1]), text[2]>>
    /\ kind = "receive_name" =>
         /\ out[1] \o <<Dot>> \o out[2] = text /\ ~Contains(out[1], Dot)
         /\ is_valid_entrypoint_name(out[2])

\* The time between two times, added to the earlier one, gives the later one.
TimesAgree ==
  kind = "times" /\ answer = "Ok" =>
    LET earlier == IF text[1] < text[2] THEN text[1] ELSE text[2]
        later == IF text[1] < text[2] THEN text[2] ELSE text[1]
    IN  /\ checked_add(earlier, out[1]) = <<later>>
        /\ out[2] # <<>> => duration_since(text[1], out[2][1]) = <<text[2]>>
        /\ out[3] # <<>> => checked_sub(out[3][1], text[2]) = <<text[1]>>
        /\ out[4] # <<>> => checked_add(out[4][1], text[2]) = <<text[1]>>

ReadsBack ==
  PrintedReadsBack /\ AmountsExact /\ DurationsExact /\ NamesReadBack /\ TimesAgree
=============================================================================
