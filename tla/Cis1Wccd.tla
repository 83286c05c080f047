------------------------------ MODULE Cis1Wccd ------------------------------
(***************************************************************************)
(* The wrapped CCD example: CCD that is sent to `wrap` becomes tokens, and  *)
(* `unwrap` burns tokens and pays out CCD, to an account or by invoking a   *)
(* contract.  A receiver may be the instance itself: its own entry point    *)
(* then runs within the same call, with the instance as the sender.        *)
(***************************************************************************)
EXTENDS Host, FiniteSets, Functions

CONSTANTS
  MaxCCD,   \* the micro CCD there are
  Aligned   \* the contracts whose index is a multiple of 256

WccdAssumption ==
  IsFiniteSet(Addresses) /\ MaxCCD \in Nat /\ Aligned \subseteq Contracts

TokenAmount == 0 .. MaxCCD

Init ==
  /\ HostInit
  /\ state = [ balance |-> [a \in Addresses |-> 0],
               operators |-> [a \in Addresses |-> {}] ]

is_operator(address, owner) == address \in state.operators[owner]

mint(amount, owner) == [state EXCEPT !.balance[owner] = @ + amount]

burn(amount, owner) == [state EXCEPT !.balance[owner] = @ - amount]

transfer(amount, from, to) ==
  LET taken == [state.balance EXCEPT ![from] = @ - amount]
  IN  [state EXCEPT !.balance = [taken EXCEPT ![to] = @ + amount]]

May(from) == from = Top.by \/ is_operator(Top.by, from)

\* What the instance may do as the sender of a call to itself: anybody can
\* unwrap none of its own tokens to the entry point `unwrap`.
MayAsSelf(from) == from = Self \/ is_operator(Self, from)

Receivers == Accounts \cup {Self}

\* contract_wrap: the amount arrived with the call that is on the stack.  The
\* message to a receiver that is the instance itself changes nothing there: no
\* entry point reads it as a parameter that would.
Wrap ==
  /\ Reading("wrap")
  /\ LET amount == Received
     IN  \/ \E to \in Receivers : Execute(mint(amount, to))
         \/ \E to \in Contracts : Invoke(mint(amount, to), to, 0)

\* contract_unwrap: the tokens are burned before the CCD is paid.
Unwrap ==
  /\ Reading("unwrap")
  /\ \E amount \in TokenAmount, from \in Addresses :
       /\ May(from) \/ MayAsSelf(from)
       /\ amount <= state.balance[from]
       /\ \/ Pay(burn(amount, from), amount)
          \/ \E to \in Contracts : Invoke(burn(amount, from), to, amount)

\* contract_unwrap to the instance's own `wrap`: what is burned is minted again
\* from the CCD that never left.
Rewrap ==
  /\ Reading("unwrap")
  /\ \E amount \in TokenAmount, from \in Addresses :
       /\ May(from) \/ MayAsSelf(from)
       /\ amount <= state.balance[from] /\ amount <= self_balance
       /\ \/ \E to \in Receivers : Execute(transfer(amount, from, to))
          \/ \E to \in Contracts : Invoke(transfer(amount, from, to), to, 0)

\* An own entry point is not payable or cannot parse what it is sent.
UnwrapRejects ==
  /\ Reading("unwrap")
  /\ \E amount \in TokenAmount, from \in Addresses :
       \/ ~May(from) /\ Reject("Unauthorized")
       \/ May(from) /\ amount > state.balance[from] /\ Reject("InsufficientFunds")
       \/ /\ May(from) /\ amount <= state.balance[from]
          /\ \/ amount > self_balance /\ Reject("InvokeTransferError")
             \/ Reject("InvokeContractError")

\* contract_transfer, for each transfer of the parameter.
Transfer ==
  /\ Reading("transfer")
  /\ \E amount \in TokenAmount, from \in Addresses, to \in Addresses :
       /\ May(from) /\ amount <= state.balance[from]
       /\ \/ to \in Receivers /\ Execute(transfer(amount, from, to))
          \/ to \in Contracts /\ Invoke(transfer(amount, from, to), to, 0)

TransferRejects ==
  /\ Reading("transfer")
  /\ \E amount \in TokenAmount, from \in Addresses :
       \/ ~May(from) /\ Reject("Unauthorized")
       \/ May(from) /\ amount > state.balance[from] /\ Reject("InsufficientFunds")

add_operator(owner, operator) ==
  [state EXCEPT !.operators[owner] = @ \cup {operator}]

remove_operator(owner, operator) ==
  [state EXCEPT !.operators[owner] = @ \ {operator}]

\* contract_update_operator, for each update of the parameter.
UpdateOperator ==
  /\ Reading("updateOperator")
  /\ \E operator \in Addresses :
       \/ Execute(add_operator(Top.by, operator))
       \/ Execute(remove_operator(Top.by, operator))

\* contract_balance_of reads every query from the start of the parameter
\* again, where the address of the result contract stands: its first byte is
\* read as the length of a token id, which has to be 0.  A list of no queries
\* is answered for every contract.
BalanceOf(c) ==
  \/ Invoke(state, c, 0)
  \/ c \notin Aligned /\ Reject("ParseParams")
OperatorOf(c) == Invoke(state, c, 0)
TokenMetadata(c) == Invoke(state, c, 0)

Query ==
  \E c \in Contracts :
    \/ Reading("balanceOf") /\ BalanceOf(c)
    \/ Reading("operatorOf") /\ OperatorOf(c)
    \/ Reading("tokenMetadata") /\ TokenMetadata(c)

Enters ==
  \E a \in Addresses :
    \/ \E amount \in 0 .. MaxCCD - self_balance : Enter(a, "wrap", amount, 1)
    \/ Enter(a, "unwrap", 0, 1)
    \/ \E n \in 0 .. MaxBatch : Enter(a, "transfer", 0, n)
    \/ \E n \in 0 .. MaxUpdates : Enter(a, "updateOperator", 0, n)
    \/ \E query \in {"balanceOf", "operatorOf", "tokenMetadata"} : Enter(a, query, 0, 1)

Next ==
  \/ Enters \/ Wrap \/ Unwrap \/ Rewrap \/ UnwrapRejects
  \/ Transfer \/ TransferRejects \/ UpdateOperator \/ Query \/ Callees \/ Finish

vars == <<state, hostVars>>
Spec == Init /\ [][Next]_vars

States ==
  [ balance : [Addresses -> TokenAmount], operators : [Addresses -> SUBSET Addresses] ]

Entrypoints ==
  {"wrap", "unwrap", "transfer", "updateOperator", "balanceOf", "operatorOf", "tokenMetadata"}

TypeOK ==
  /\ state \in States
  /\ \A i \in DOMAIN stack : stack[i] \in Frame(Entrypoints, States, {Nobody})

\* The tokens are the CCD the instance holds, also while a contract that is
\* paid or that receives tokens is being called and calls back; only the CCD
\* that came with a `wrap` that has not minted yet is not in tokens.
Backed ==
  LET arriving == IF ~Idle /\ Top.entrypoint = "wrap" /\ Top.left = 1
                  THEN self_balance - Top.held ELSE 0
  IN  SumFunction(state.balance) + arriving = self_balance

\* Tokens leave an address only through a transfer or an unwrap sent by it or
\* one of its operators, or because such an activation is undone.  The
\* instance itself is a sender too, on anybody's behalf, but only of unwraps.
HolderConsents ==
  \A a \in Addresses :
    state'.balance[a] < state.balance[a] /\ Len(stack') >= Len(stack)
      => \/ Top.entrypoint \in {"transfer", "unwrap"} /\ May(a)
         \/ Top.entrypoint = "unwrap" /\ MayAsSelf(a)
=============================================================================
