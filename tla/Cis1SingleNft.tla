--------------------------- MODULE Cis1SingleNft ----------------------------
(***************************************************************************)
(* The single NFT example: an instance is one token, held by `owner`.      *)
(***************************************************************************)
EXTENDS Host

Init ==
  /\ HostInit
  /\ state = [ owner |-> Owner, address_state |-> [a \in Addresses |-> {}] ]

is_operator(address, owner) == address \in state.address_state[owner]

May(from) == from = Top.by \/ is_operator(Top.by, from)

\* State::transfer and its errors; a zero transfer changes nothing.
TransferError(amount, from) ==
  IF amount > 0 /\ (amount # 1 \/ from # state.owner) THEN "InsufficientFunds"
  ELSE "none"

transfer(amount, to) == IF amount = 0 THEN state ELSE [state EXCEPT !.owner = to]

\* contract_transfer, for each transfer of the parameter.  The receiving
\* contract is invoked with as many micro CCD as tokens are transferred.
Transfer ==
  /\ Reading("transfer")
  /\ \E amount \in 0 .. 1, from \in Addresses, to \in Accounts \cup Contracts :
       /\ May(from) /\ TransferError(amount, from) = "none"
       /\ \/ to \in Accounts /\ Execute(transfer(amount, to))
          \/ to \in Contracts /\ Invoke(transfer(amount, to), to, amount)

TransferRejects ==
  /\ Reading("transfer")
  /\ \E amount \in 0 .. 2, from \in Addresses :
       \/ ~May(from) /\ Reject("Unauthorized")
       \/ /\ May(from) /\ TransferError(amount, from) # "none"
          /\ Reject(TransferError(amount, from))
       \/ /\ May(from) /\ TransferError(amount, from) = "none"
          /\ amount > self_balance /\ Reject("AmountTooLarge")

add_operator(owner, operator) ==
  [state EXCEPT !.address_state[owner] = @ \cup {operator}]

remove_operator(owner, operator) ==
  [state EXCEPT !.address_state[owner] = @ \ {operator}]

\* contract_update_operator, for each update of the parameter.
UpdateOperator ==
  /\ Reading("updateOperator")
  /\ \E operator \in Addresses :
       \/ Execute(add_operator(Top.by, operator))
       \/ Execute(remove_operator(Top.by, operator))

\* The queries compute their answer and then hand it to a contract; they
\* accept any token id.
OperatorOf(c) == Invoke(state, c, 0)
BalanceOf(c) == Invoke(state, c, 0)
TokenMetadata(c) == Invoke(state, c, 0)

Query ==
  \E c \in Contracts :
    \/ Reading("operatorOf") /\ OperatorOf(c)
    \/ Reading("balanceOf") /\ BalanceOf(c)
    \/ Reading("tokenMetadata") /\ TokenMetadata(c)

Enters ==
  \E a \in Addresses :
    \/ \E n \in 0 .. MaxBatch : Enter(a, "transfer", 0, n)
    \/ \E n \in 0 .. MaxUpdates : Enter(a, "updateOperator", 0, n)
    \/ \E query \in {"balanceOf", "operatorOf", "tokenMetadata"} : Enter(a, query, 0, 1)

Next ==
  \/ Enters \/ Transfer \/ TransferRejects \/ UpdateOperator
  \/ Query \/ Callees \/ Finish

vars == <<state, hostVars>>
Spec == Init /\ [][Next]_vars

States == [ owner : Addresses, address_state : [Addresses -> SUBSET Addresses] ]

Entrypoints == {"transfer", "updateOperator", "balanceOf", "operatorOf", "tokenMetadata"}

TypeOK ==
  /\ state \in States
  /\ \A i \in DOMAIN stack : stack[i] \in Frame(Entrypoints, States, {Nobody})

\* The token changes hands only through a transfer sent by its holder or one
\* of the holder's operators, or because such an activation is undone.
HolderConsents ==
  state'.owner # state.owner /\ Len(stack') >= Len(stack)
    => /\ Top.entrypoint = "transfer"
       /\ May(state.owner)
=============================================================================
