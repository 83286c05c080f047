----------------------------- MODULE Cis1Multi ------------------------------
(***************************************************************************)
(* The multi token example: token types in amounts that are minted by the  *)
(* contract's owner and moved by their holders and the holders' operators. *)
(* A transfer to a contract calls it before the next transfer of the batch.*)
(***************************************************************************)
EXTENDS Host, FiniteSets, Functions

CONSTANTS Tokens, W  \* W values fit a token amount (2^64 in the program)

MultiAssumption == IsFiniteSet(Addresses) /\ W \in Nat \ {0}

TokenAmount == 0 .. W - 1

\* `minted` is not in the program: all that was ever minted of a token.
Init ==
  /\ HostInit
  /\ state = [ tokens |-> {},
               balances |-> [a \in Addresses |-> [t \in Tokens |-> 0]],
               operators |-> [a \in Addresses |-> {}],
               minted |-> [t \in Tokens |-> 0] ]

contains_token(t) == t \in state.tokens

is_operator(address, owner) == address \in state.operators[owner]

\* State::balance: the amount, or nothing for a token that does not exist.
balance(t, a) == IF contains_token(t) THEN {state.balances[a][t]} ELSE {}

May(from) == from = Top.by \/ is_operator(Top.by, from)

\* The amounts are u64 and the release build wraps.
mint(t, amount, owner) ==
  [state EXCEPT !.tokens = @ \cup {t},
                !.balances[owner][t] = (@ + amount) % W,
                !.minted[t] = @ + amount]

\* State::transfer and its errors; a zero transfer changes nothing.
TransferError_noFunds(t, amount, from) ==
  IF ~contains_token(t) THEN "InvalidTokenId" ELSE "none"
TransferError(t, amount, from) ==
  IF ~contains_token(t) THEN "InvalidTokenId"
  ELSE IF amount > state.balances[from][t] THEN "InsufficientFunds"
  ELSE "none"

transfer_stale(t, amount, from, to) ==
  [state EXCEPT !.balances[from][t] = state.balances[from][t] - amount,
                !.balances[to][t] = (state.balances[to][t] + amount) % W]
transfer(t, amount, from, to) ==
  LET taken == [state.balances EXCEPT ![from][t] = @ - amount]
  IN  [state EXCEPT !.balances = [taken EXCEPT ![to][t] = (@ + amount) % W]]

\* contract_mint, for each token of the parameter.
Mint ==
  /\ Reading("mint")
  /\ \E t \in Tokens, amount \in TokenAmount, owner \in Addresses :
       Execute(mint(t, amount, owner))

\* contract_transfer, for each transfer of the parameter.  A receiver that
\* is this instance accepts through `view`, which ignores its parameter, or
\* through onReceivingCIS1, which moves the tokens on to the owner.
Transfer ==
  /\ Reading("transfer")
  /\ \E t \in Tokens, amount \in TokenAmount, from \in Addresses, to \in Addresses :
       /\ May(from) /\ TransferError(t, amount, from) = "none"
       /\ \/ to \in Accounts /\ Execute(transfer(t, amount, from, to))
          \/ to \in Contracts /\ Invoke(transfer(t, amount, from, to), to, 0)
          \/ to = Self /\ \E receiver \in {Self, Owner} :
                            Execute(transfer(t, amount, from, receiver))

TransferRejects ==
  /\ Reading("transfer")
  /\ \E t \in Tokens, amount \in TokenAmount, from \in Addresses :
       \/ ~May(from) /\ Reject("Unauthorized")
       \/ /\ May(from) /\ TransferError(t, amount, from) # "none"
          /\ Reject(TransferError(t, amount, from))

add_operator(owner, operator) ==
  [state EXCEPT !.operators[owner] = @ \cup {operator}]

remove_operator(owner, operator) ==
  [state EXCEPT !.operators[owner] = @ \ {operator}]

\* contract_update_operator, for each update of the parameter.
UpdateOperator ==
  /\ Reading("updateOperator")
  /\ \E operator \in Addresses :
       \/ Execute(add_operator(Top.by, operator))
       \/ Execute(remove_operator(Top.by, operator))

\* The queries compute their answer and then hand it to a contract.
BalanceOf(c) == \E t \in Tokens : balance(t, Top.by) # {} /\ Invoke(state, c, 0)
OperatorOf(c) == Invoke(state, c, 0)
TokenMetadata(c) == \E t \in Tokens : contains_token(t) /\ Invoke(state, c, 0)

Query ==
  \E c \in Contracts :
    \/ Reading("balanceOf") /\ BalanceOf(c)
    \/ Reading("operatorOf") /\ OperatorOf(c)
    \/ Reading("tokenMetadata") /\ TokenMetadata(c)

\* contract_on_cis1_received: the `transfer` of the calling contract is
\* invoked, to forward what it says was received.
OnReceivingCIS1 ==
  Reading("onReceivingCIS1") /\ Top.by \in Contracts /\ Invoke(state, Top.by, 0)

Enters ==
  \E a \in Addresses :
    \/ a = Owner /\ \E n \in 0 .. MaxBatch : Enter(a, "mint", 0, n)
    \/ \E n \in 0 .. MaxBatch : Enter(a, "transfer", 0, n)
    \/ \E n \in 0 .. MaxUpdates : Enter(a, "updateOperator", 0, n)
    \/ \E query \in {"balanceOf", "operatorOf", "tokenMetadata"} : Enter(a, query, 0, 1)
    \/ a \in Contracts /\ Enter(a, "onReceivingCIS1", 0, 1)

Next ==
  \/ Enters \/ Mint \/ Transfer \/ TransferRejects \/ UpdateOperator
  \/ Query \/ OnReceivingCIS1 \/ Callees \/ Finish

vars == <<state, hostVars>>
Spec == Init /\ [][Next]_vars

States ==
  [ tokens : SUBSET Tokens, balances : [Addresses -> [Tokens -> TokenAmount]],
    operators : [Addresses -> SUBSET Addresses], minted : [Tokens -> Nat] ]

Entrypoints ==
  {"mint", "transfer", "updateOperator", "balanceOf", "operatorOf", "tokenMetadata",
   "onReceivingCIS1"}

TypeOK ==
  /\ state \in States
  /\ \A i \in DOMAIN stack : stack[i] \in Frame(Entrypoints, States, {Nobody})

Supply(t) == SumFunction([a \in Addresses |-> state.balances[a][t]])

\* Across batches, callbacks in the middle of them and rejections, the
\* balances of a token add up to what was minted of it, up to multiples of W:
\* exactly, as long as less than W was minted.
SupplyKept == \A t \in Tokens : Supply(t) % W = state.minted[t] % W

\* Unless W or more of a token was minted, a balance gets smaller only when
\* its holder or one of the holder's operators sent the transfer that is
\* being executed, or when the activation that raised it is undone.
HolderConsents ==
  \A t \in Tokens, a \in Addresses :
    /\ state'.minted[t] < W
    /\ state'.balances[a][t] < state.balances[a][t]
    /\ Len(stack') >= Len(stack)
    => Top.entrypoint = "transfer" /\ May(a)
=============================================================================
