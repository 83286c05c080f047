------------------------------- MODULE Listing -------------------------------
(***************************************************************************)
(* The listing contract: its owner lists single NFTs for their holders; a  *)
(* buyer's call takes the listing, has the NFT contract transfer the token *)
(* and pays what it was sent to the holder.                                *)
(***************************************************************************)
EXTENDS Host

CONSTANTS
  Tokens,   \* the tokens that may be listed
  MaxCCD    \* the micro CCD there are

Unlisted == [owner |-> Nobody, price |-> 0]
Listings == [owner : Accounts, price : 0 .. MaxCCD]

contract_init == HostInit /\ state = [t \in Tokens |-> Unlisted]

list(token, listing) == [state EXCEPT ![token] = listing]

unlist(token) == [state EXCEPT ![token] = Unlisted]

OnlyOwner == Top.by # Owner /\ Reject("OnlyOwner")

\* contract_list, for each listing of the parameter.
List ==
  /\ Reading("list")
  /\ \/ OnlyOwner
     \/ /\ Top.by = Owner
        /\ \E token \in Tokens, listing \in Listings : Execute(list(token, listing))

\* contract_unlist, for each token of the parameter.
Unlist ==
  /\ Reading("unlist")
  /\ \/ OnlyOwner
     \/ /\ Top.by = Owner
        /\ \E token \in Tokens :
             IF state[token] = Unlisted THEN Reject("UnknownToken")
             ELSE Execute(unlist(token))

BuyError(token) ==
  IF Top.by \notin Accounts THEN "OnlyAccountAddress"
  ELSE IF state[token] = Unlisted THEN "UnknownToken"
  ELSE IF state[token].price > Received THEN "InsufficientAmount"
  ELSE "none"

\* contract_buy, up to the call of the token's contract.
Buy ==
  /\ Reading("buy") /\ Top.left = 2
  /\ \E token \in Tokens, c \in Contracts :
       IF BuyError(token) = "none"
       THEN Continue(unlist(token), 0, c, 1, <<state[token].owner, Received>>)
       ELSE Reject(BuyError(token))

\* The token has changed hands: the holder gets the whole amount.
PayOwner ==
  /\ Reading("buy") /\ Top.left = 1
  /\ Continue(state, Top.local[2], Nobody, 0, Nobody)

Enters ==
  \E a \in Accounts \cup Contracts :
    \/ \E n \in 0 .. MaxBatch : Enter(a, "list", 0, n)
    \/ \E n \in 0 .. MaxBatch : Enter(a, "unlist", 0, n)
    \/ \E amount \in 0 .. MaxCCD - self_balance : Enter(a, "buy", amount, 2)

Next == Enters \/ List \/ Unlist \/ Buy \/ PayOwner \/ Callees \/ Finish

Entrypoints == {"list", "unlist", "buy"}

TypeOK ==
  LET States == [Tokens -> Listings \cup {Unlisted}]
  IN  /\ state \in States
      /\ \A i \in DOMAIN stack :
           stack[i] \in Frame(Entrypoints, States, {Nobody} \cup (Accounts \X (0 .. MaxCCD)))

\* A sale's whole amount goes to the token's holder, or back with a rejection.
NothingKept == Idle => self_balance = 0
=============================================================================
