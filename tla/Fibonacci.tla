----------------------------- MODULE Fibonacci ------------------------------
(***************************************************************************)
(* The two Fibonacci contracts.  The older one calls its own function and  *)
(* adds 1 to the state at every leaf of the recursion.  The newer one      *)
(* invokes itself through the chain, once for n - 2 and once for n - 1, and *)
(* demands that the answer of each call is what the call left in the state.*)
(***************************************************************************)
EXTENDS Lists, Functions

CONSTANTS
  MaxN,      \* bound on the parameter
  MaxCalls,  \* bound on the calls in a behaviour
  W          \* results are natural numbers below W

FibonacciAssumption == MaxN \in Nat /\ MaxCalls \in Nat /\ W \in Nat \ {0, 1}

VARIABLES
  state,     \* the result, and what the current transaction was asked for
  stack,     \* the calls under way, the one that runs last
  calls, outcome

vars == <<state, stack, calls, outcome>>

Init ==
  /\ state = [result |-> 0, from |-> 0, n |-> 0]
  /\ stack = <<>> /\ calls = 0 /\ outcome = "none"

Idle == stack = <<>>
Top == Last(stack)

\* fib, the naive reference.
fib[n \in Nat] == IF n <= 1 THEN 1 ELSE fib[n - 1] + fib[n - 2]

Start(n, frame) ==
  /\ Idle /\ calls < MaxCalls
  /\ stack' = <<frame>>
  /\ state' = [state EXCEPT !.from = state.result, !.n = n]
  /\ calls' = calls + 1 /\ outcome' = "none"

-----------------------------------------------------------------------------
\* The older contract: a frame is the n of a call that has not begun.
contract_receive ==
  /\ ~Idle
  /\ IF Top <= 1
     THEN /\ state' = [state EXCEPT !.result = (@ + 1) % W]
          /\ stack' = Front(stack)
     ELSE /\ stack' = Front(stack) \o <<Top - 2, Top - 1>>
          /\ UNCHANGED state
  /\ outcome' = IF Len(stack') = 0 THEN "ok" ELSE outcome
  /\ UNCHANGED calls

contract_receive_calc_fib ==
  /\ Idle /\ calls < MaxCalls
  /\ \E amount \in 0 .. MaxN :
       state' = [result |-> fib[amount] % W, from |-> 0, n |-> amount]
  /\ calls' = calls + 1 /\ outcome' = "ok"
  /\ UNCHANGED stack

RecursiveNext ==
  \/ \E n \in 0 .. MaxN : Start(n, n)
  \/ contract_receive
  \/ contract_receive_calc_fib

\* The leaves added so far and the calls still to come make up F(n).
LeavesAddUp ==
  LET Pending == SumFunction([i \in DOMAIN stack |-> fib[stack[i]]])
  IN  calls > 0 => (state.result + Pending) % W = (state.from + fib[state.n]) % W

-----------------------------------------------------------------------------
\* The newer contract: `at` says how far a call is, `answer` is what the call
\* it made returned, `cv2` the state it found after the first one.
Call(n) == [n |-> n, at |-> "start", answer |-> 0, cv2 |-> 0]

\* A call returns v and leaves it in the state; its caller goes on.
Return(v) ==
  /\ state' = [state EXCEPT !.result = v]
  /\ stack' = IF Len(stack) = 1 THEN <<>>
              ELSE [Front(stack) EXCEPT ![Len(stack) - 1].answer = v]
  /\ outcome' = IF Len(stack) = 1 THEN "ok" ELSE outcome

\* ensure_eq: a rejection reaches the outermost call, whose caller sees it.
Fail ==
  /\ state' = [state EXCEPT !.result = state.from]
  /\ stack' = <<>> /\ outcome' = "ensure_eq"

Base == Top.at = "start" /\ Top.n <= 1 /\ Return(1)

Invoke(frame, n) ==
  /\ stack' = Append(Front(stack) \o <<frame>>, Call(n))
  /\ UNCHANGED <<state, outcome>>

First == Top.at = "start" /\ Top.n > 1 /\ Invoke([Top EXCEPT !.at = "n2"], Top.n - 2)

Second ==
  /\ Top.at = "n2"
  /\ IF Top.answer # state.result THEN Fail
     ELSE Invoke([Top EXCEPT !.at = "n1", !.cv2 = state.result], Top.n - 1)

Sum_twice == (state.result + Top.answer) % W
Sum == (state.result + Top.cv2) % W

Add ==
  /\ Top.at = "n1"
  /\ IF Top.answer # state.result THEN Fail ELSE Return(Sum)

ChainNext ==
  \/ \E n \in 0 .. MaxN : Start(n, Call(n))
  \/ ~Idle /\ (Base \/ First \/ Second \/ Add) /\ UNCHANGED calls

\* Each call finds the Fibonacci numbers it asked for, whatever the state held
\* before: the instances' shared state never fails the check.
CallsAddUp ==
  /\ outcome # "ensure_eq"
  /\ outcome = "ok" => state.result = fib[state.n] % W
  /\ \A i \in DOMAIN stack :
       stack[i].at = "n1" => stack[i].cv2 = fib[stack[i].n - 2] % W
=============================================================================
