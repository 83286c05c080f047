-------------------------------- MODULE Host --------------------------------
(***************************************************************************)
(* The chain around one contract instance: how a transaction enters it, how *)
(* it invokes other contracts, and what a rejection undoes.                *)
(*                                                                         *)
(* `stack` holds the activations of the instance's entry points, the one   *)
(* that runs now last.  While an entry point has invoked another contract, *)
(* that contract is its frame's `callee`, and it may call the instance     *)
(* back before it answers.  The entry points read their parameter one list *)
(* element at a time: `left` is the number of elements still to come, so a *)
(* parameter is chosen as it is consumed.                                  *)
(***************************************************************************)
EXTENDS Naturals, Sequences

CONSTANTS
  Accounts,   \* account addresses
  Contracts,  \* addresses of other contract instances, which do as they like
  Self,       \* the address of the instance
  Owner,      \* the account that created it
  Nobody,     \* no callee: the instance's own code runs
  MaxDepth,   \* bound on nested activations
  MaxCalls,   \* bound on calls of the instance in a behaviour
  MaxBatch,   \* bound on the list elements of a parameter
  MaxUpdates  \* the same for updates of operators, which call nobody

HostAssumption ==
  /\ Owner \in Accounts /\ Self \notin Accounts \cup Contracts
  /\ Nobody \notin Accounts \cup Contracts \cup {Self}
  /\ MaxDepth \in Nat /\ MaxCalls \in Nat
  /\ MaxBatch \in Nat /\ MaxUpdates \in Nat

VARIABLES
  state,         \* the contract's state
  self_balance,  \* the CCD the instance holds
  stack,         \* its activations
  calls,         \* how many calls entered it
  outcome        \* how the last activation ended

hostVars == <<self_balance, stack, calls, outcome>>

Addresses == Accounts \cup Contracts \cup {Self}

Top == stack[Len(stack)]
Below == SubSeq(stack, 1, Len(stack) - 1)

Idle == stack = <<>>
Running == ~Idle /\ Top.callee = Nobody
Waiting == ~Idle /\ Top.callee # Nobody

\* The entry point `entrypoint` runs and has a parameter element to read.
Reading(entrypoint) ==
  Running /\ Top.entrypoint = entrypoint /\ Top.left > 0

Frame(Entrypoints, States, Locals) ==
  [ by : Addresses, entrypoint : Entrypoints, callee : Contracts \cup {Nobody},
    left : Nat, local : Locals, saved : States, held : Nat ]

\* What the running activation was sent, before it pays anything on.
Received == self_balance - Top.held

HostInit ==
  self_balance = 0 /\ stack = <<>> /\ calls = 0 /\ outcome = "none"

\* Only contracts can call in while an entry point waits for its callee.
CanCall(a) ==
  \/ Idle /\ a \in Accounts \cup Contracts
  \/ Waiting /\ a \in Contracts

\* The generated wrapper of an entry point: the amount has arrived, the
\* state is loaded.  What a rejection will restore is kept in the frame.
Enter(a, entrypoint, amount, elements) ==
  /\ CanCall(a) /\ calls < MaxCalls /\ Len(stack) < MaxDepth
  /\ stack' = Append(stack,
       [ by |-> a, entrypoint |-> entrypoint, callee |-> Nobody,
         left |-> elements, local |-> Nobody,
         saved |-> state, held |-> self_balance ])
  /\ self_balance' = self_balance + amount
  /\ calls' = calls + 1 /\ outcome' = "none"
  /\ UNCHANGED state

\* A stretch of the entry point, up to a payment or an invocation: the state
\* it leaves, the CCD it sends, the contract it invokes, the elements it has
\* not read and the variables it goes on with.
Continue(new, amount, callee, left, local) ==
  /\ amount <= self_balance
  /\ state' = new
  /\ self_balance' = self_balance - amount
  /\ stack' = [stack EXCEPT ![Len(stack)] =
       [@ EXCEPT !.callee = callee, !.left = left, !.local = local]]
  /\ UNCHANGED <<calls, outcome>>

\* An element is handled within the instance.
Execute(new) == Continue(new, 0, Nobody, Top.left - 1, Top.local)

\* host.invoke_transfer: an account is paid.
Pay(new, amount) == Continue(new, amount, Nobody, Top.left - 1, Top.local)

\* host.invoke_contract: the state is committed and the callee takes over.
Invoke(new, callee, amount) ==
  Continue(new, amount, callee, Top.left - 1, Top.local)

\* A rejection: the chain discards what the activation did.
Reject(error) ==
  /\ state' = Top.saved /\ self_balance' = Top.held
  /\ stack' = Below
  /\ outcome' = error
  /\ UNCHANGED calls

\* The callee answers; the state it may have changed is loaded again.
CalleeReturns ==
  /\ Waiting
  /\ stack' = [stack EXCEPT ![Len(stack)].callee = Nobody]
  /\ UNCHANGED <<state, self_balance, calls, outcome>>

\* The callee rejects, and every entry point modelled here passes that on.
CalleeRejects == Waiting /\ Reject("InvokeContractError")

\* The entry point returns Ok and its state is stored.
Finish ==
  /\ Running /\ Top.left = 0
  /\ stack' = Below /\ outcome' = "ok"
  /\ UNCHANGED <<state, self_balance, calls>>

Callees == CalleeReturns \/ CalleeRejects
=============================================================================
