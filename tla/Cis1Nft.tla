------------------------------ MODULE Cis1Nft -------------------------------
(***************************************************************************)
(* The NFT example: every token is minted once and has one holder.  The    *)
(* program keeps the tokens of each address apart (`owned_tokens`), so that *)
(* a token has one holder is a fact about all these sets together.         *)
(***************************************************************************)
EXTENDS Host

CONSTANTS Tokens

Init ==
  /\ HostInit
  /\ state = [ all_tokens |-> {},
               owned_tokens |-> [a \in Addresses |-> {}],
               operators |-> [a \in Addresses |-> {}] ]

contains_token(t) == t \in state.all_tokens

is_operator(address, owner) == address \in state.operators[owner]

\* State::balance: one or none, or nothing for a token that does not exist.
balance(t, a) ==
  IF contains_token(t) THEN {IF t \in state.owned_tokens[a] THEN 1 ELSE 0} ELSE {}

May(from) == from = Top.by \/ is_operator(Top.by, from)

\* State::mint, once it has found that the token is new.
mint(t, owner) ==
  [state EXCEPT !.all_tokens = @ \cup {t}, !.owned_tokens[owner] = @ \cup {t}]

\* State::transfer and its errors; a zero transfer changes nothing.
TransferError(t, amount, from) ==
  IF ~contains_token(t) THEN "InvalidTokenId"
  ELSE IF amount > 0 /\ (amount # 1 \/ t \notin state.owned_tokens[from])
       THEN "InsufficientFunds"
  ELSE "none"

transfer_keeps(t, amount, from, to) ==
  IF amount = 0 THEN state ELSE [state EXCEPT !.owned_tokens[to] = @ \cup {t}]
transfer(t, amount, from, to) ==
  LET taken == [state.owned_tokens EXCEPT ![from] = @ \ {t}]
  IN  IF amount = 0 THEN state
      ELSE [state EXCEPT !.owned_tokens = [taken EXCEPT ![to] = @ \cup {t}]]

\* contract_mint, for each token of the parameter.
Mint ==
  /\ Reading("mint")
  /\ \E t \in Tokens \ state.all_tokens, owner \in Addresses : Execute(mint(t, owner))

MintRejects ==
  /\ Reading("mint")
  /\ \E t \in Tokens : contains_token(t) /\ Reject("TokenIdAlreadyExists")

\* contract_transfer, for each transfer of the parameter; the instance itself
\* can only receive through `view`, which ignores its parameter.
Transfer ==
  /\ Reading("transfer")
  /\ \E t \in Tokens, amount \in 0 .. 1, from \in Addresses, to \in Addresses :
       /\ May(from) /\ TransferError(t, amount, from) = "none"
       /\ \/ to \in Accounts \cup {Self} /\ Execute(transfer(t, amount, from, to))
          \/ to \in Contracts /\ Invoke(transfer(t, amount, from, to), to, 0)

TransferRejects ==
  /\ Reading("transfer")
  /\ \E t \in Tokens, amount \in 0 .. 2, from \in Addresses :
       \/ ~May(from) /\ Reject("Unauthorized")
       \/ /\ May(from) /\ TransferError(t, amount, from) # "none"
          /\ Reject(TransferError(t, amount, from))

add_operator(owner, operator) ==
  [state EXCEPT !.operators[owner] = @ \cup {operator}]

remove_operator(owner, operator) ==
  [state EXCEPT !.operators[owner] = @ \ {operator}]

\* contract_update_operator, for each update of the parameter.
UpdateOperator ==
  /\ Reading("updateOperator")
  /\ \E operator \in Addresses :
       \/ Execute(add_operator(Top.by, operator))
       \/ Execute(remove_operator(Top.by, operator))

\* The queries compute their answer and then hand it to a contract.
OperatorOf(c) == Invoke(state, c, 0)
BalanceOf(c) == \E t \in Tokens : balance(t, Top.by) # {} /\ Invoke(state, c, 0)
TokenMetadata(c) == \E t \in Tokens : contains_token(t) /\ Invoke(state, c, 0)

Query ==
  \E c \in Contracts :
    \/ Reading("operatorOf") /\ OperatorOf(c)
    \/ Reading("balanceOf") /\ BalanceOf(c)
    \/ Reading("tokenMetadata") /\ TokenMetadata(c)

Batches == {"mint", "transfer"}
Queries == {"balanceOf", "operatorOf", "tokenMetadata"}
Entrypoints == Batches \cup {"updateOperator"} \cup Queries

Enters ==
  \E a \in Addresses :
    \/ \E entrypoint \in Batches, n \in 0 .. MaxBatch :
         /\ entrypoint = "mint" => a = Owner
         /\ Enter(a, entrypoint, 0, n)
    \/ \E n \in 0 .. MaxUpdates : Enter(a, "updateOperator", 0, n)
    \/ \E query \in Queries : Enter(a, query, 0, 1)

Next ==
  \/ Enters \/ Mint \/ MintRejects \/ Transfer \/ TransferRejects
  \/ UpdateOperator \/ Query \/ Callees \/ Finish

vars == <<state, hostVars>>
Spec == Init /\ [][Next]_vars

States ==
  [ all_tokens : SUBSET Tokens, owned_tokens : [Addresses -> SUBSET Tokens],
    operators : [Addresses -> SUBSET Addresses] ]

TypeOK ==
  /\ state \in States
  /\ stack \in Seq(Frame(Entrypoints, States, {Nobody}))

\* In `s`, the minted tokens and no others are held, each by one address.
OneHolderEach(s) ==
  \A t \in Tokens :
    /\ t \in s.all_tokens <=> \E a \in Addresses : t \in s.owned_tokens[a]
    /\ \A a, b \in Addresses :
         t \in s.owned_tokens[a] /\ t \in s.owned_tokens[b] => a = b

\* A minted token has one holder: also in the middle of a batch, while a
\* receiver is being called and calls back, and after a rejection.
UniqueHolder == OneHolderEach(state)

\* A token leaves an address only through a transfer sent by the address or
\* one of its operators, or because the activation that moved it is undone.
HolderConsents ==
  \A t \in Tokens, a \in Addresses :
    /\ t \in state.owned_tokens[a] /\ t \notin state'.owned_tokens[a]
    /\ Len(stack') >= Len(stack)
    => Top.entrypoint = "transfer" /\ May(a)
=============================================================================
