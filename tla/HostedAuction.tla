---------------------------- MODULE HostedAuction ----------------------------
(***************************************************************************)
(* The auction example for the newer chain: `finalize` invokes one payment *)
(* after another and fails as a whole when one of them does.  It does what *)
(* the module Auction promises of the older contract in one step.          *)
(***************************************************************************)
EXTENDS Host

CONSTANTS
  Expiry, MaxBid, MaxTime   \* as in Auction: the expiry, an account's bids, the clock

\* `paid` records the transfers, `now` is the slot time.
auction_init ==
  /\ HostInit
  /\ state = [ auction_state |-> Nobody, highest_bid |-> 0,
               bidders |-> {}, bids |-> [a \in Accounts |-> 0],
               paid |-> [a \in Accounts |-> 0], now |-> 0 ]

NotSoldYet == state.auction_state = Nobody

BidError_equal(bid) ==
  IF ~NotSoldYet THEN "AuctionFinalized"
  ELSE IF state.now > Expiry THEN "BidsOverWaitingForAuctionFinalization"
  ELSE IF Top.by \notin Accounts THEN "ContractSender"
  ELSE IF bid < state.highest_bid THEN "BidTooLow"
  ELSE "none"
BidError(bid) ==
  IF ~NotSoldYet THEN "AuctionFinalized"
  ELSE IF state.now > Expiry THEN "BidsOverWaitingForAuctionFinalization"
  ELSE IF Top.by \notin Accounts THEN "ContractSender"
  ELSE IF bid <= state.highest_bid THEN "BidTooLow"
  ELSE "none"

auction_bid ==
  /\ Reading("bid")
  /\ LET a == Top.by
         bid == Received + IF a \in Accounts THEN state.bids[a] ELSE 0
     IN  IF BidError(bid) # "none" THEN Reject(BidError(bid))
         ELSE Execute([state EXCEPT !.bidders = @ \cup {a}, !.bids[a] = bid,
                                    !.highest_bid = bid])

\* The variables of a finalize under way: the bids it has not looked at yet
\* and the account that remains.
Progress(todo, remaining) == [todo |-> todo, remaining |-> remaining]

\* As in Auction; and a finalize that has begun is told from one that has not.
HostedAuctionAssumption ==
  /\ Expiry \in Nat /\ MaxBid \in Nat /\ MaxTime \in Nat
  /\ \A todo \in SUBSET Accounts, remaining \in Accounts \cup {Nobody} :
       Progress(todo, remaining) # Nobody

pay(a, amount) == [state EXCEPT !.paid[a] = @ + amount]

\* The owner is paid first; without any CCD there is nothing to do.
FinalizeError ==
  IF ~NotSoldYet THEN "AuctionFinalized"
  ELSE IF state.now <= Expiry THEN "AuctionStillActive"
  ELSE IF state.highest_bid > self_balance THEN "BidMapError"
  ELSE "none"

auction_finalize ==
  /\ Reading("finalize") /\ Top.local = Nobody
  /\ IF FinalizeError # "none" THEN Reject(FinalizeError)
     ELSE IF self_balance = 0 THEN Execute(state)
     ELSE Continue(pay(Owner, state.highest_bid), state.highest_bid, Nobody, 1,
                   Progress(state.bidders, Nobody))

Finalizing == Reading("finalize") /\ Top.local # Nobody

\* A bid below the highest goes back; a second one that is not is an error.
ReturnBid ==
  /\ Finalizing
  /\ \E a \in Top.local.todo :
       LET todo == Top.local.todo \ {a}
       IN  IF state.bids[a] < state.highest_bid
           THEN IF state.bids[a] > self_balance THEN Reject("BidMapError")
                ELSE Continue(pay(a, state.bids[a]), state.bids[a], Nobody, 1,
                              Progress(todo, Top.local.remaining))
           ELSE IF Top.local.remaining # Nobody THEN Reject("BidMapError")
                ELSE Continue(state, 0, Nobody, 1, Progress(todo, a))

Sell ==
  /\ Finalizing /\ Top.local.todo = {}
  /\ LET winner == Top.local.remaining
     IN  IF winner = Nobody \/ state.bids[winner] # state.highest_bid
         THEN Reject("BidMapError")
         ELSE Execute([state EXCEPT !.auction_state = winner])

Tick ==
  /\ Idle /\ state.now < MaxTime
  /\ state' = [state EXCEPT !.now = @ + 1]
  /\ UNCHANGED hostVars

Enters ==
  \/ \E a \in Accounts \cup Contracts, amount \in 0 .. MaxBid :
       /\ a \in Accounts => state.bids[a] + amount <= MaxBid
       /\ Enter(a, "bid", amount, 1)
  \/ \E a \in Accounts \cup Contracts : Enter(a, "finalize", 0, 1)

Next ==
  Enters \/ auction_bid \/ auction_finalize \/ ReturnBid \/ Sell \/ Finish \/ Tick

-----------------------------------------------------------------------------
\* What the chain has stored: between transactions the state, during one what
\* it was before.  The steps of a call are not visible until it ends.
Stored == IF Idle THEN state ELSE stack[1].saved
StoredBalance == IF Idle THEN self_balance ELSE stack[1].held
=============================================================================
