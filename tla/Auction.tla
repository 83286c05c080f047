------------------------------ MODULE Auction -------------------------------
(***************************************************************************)
(* The `auction` contract: accounts raise their bids until the expiry,     *)
(* then anyone finalizes.  A call that returns an error changes nothing    *)
(* and is no step.                                                         *)
(***************************************************************************)
EXTENDS Integers, FiniteSets, Functions

CONSTANTS
    Account, Owner,          \* accounts that may bid, and the contract's owner
    Nobody,                  \* not an account
    Expiry,
    MaxBid, MaxTime          \* bounds: an account's total bid, the clock

ASSUME AuctionAssumption ==
    /\ IsFiniteSet(Account)
    /\ Owner \in Account
    /\ Nobody \notin Account
    /\ Expiry \in Nat /\ MaxBid \in Nat /\ MaxTime \in Nat

VARIABLES
    auction_state,           \* NotSoldYet, or the account the item was sold to
    highest_bid,
    bidders, bids,           \* the map bids: its keys, and 0 for no entry
    balance, paid,           \* the contract's balance, and its transfers
    now

vars == <<auction_state, highest_bid, bidders, bids, balance, paid, now>>

NotSoldYet == Nobody

auction_init ==
    /\ auction_state = NotSoldYet
    /\ highest_bid = 0
    /\ bidders = {}
    /\ bids = [a \in Account |-> 0]
    /\ balance = 0
    /\ paid = [a \in Account |-> 0]
    /\ now = 0

-----------------------------------------------------------------------------
\* An account's bid is the sum of what it has sent.
NewBid_last(sender, amount) == amount
NewBid(sender, amount) == bids[sender] + amount

Outbids_equal(bid) == bid >= highest_bid /\ bid > 0
Outbids(bid) == bid > highest_bid

Open == auction_state = NotSoldYet /\ now <= Expiry

auction_bid(sender, amount) ==
    /\ Open
    /\ NewBid(sender, amount) <= MaxBid
    /\ Outbids(NewBid(sender, amount))
    /\ bidders' = bidders \cup {sender}
    /\ bids' = [bids EXCEPT ![sender] = NewBid(sender, amount)]
    /\ highest_bid' = NewBid(sender, amount)
    /\ balance' = balance + amount
    /\ UNCHANGED <<auction_state, paid, now>>

Losers == {a \in bidders : bids[a] < highest_bid}

Refund_onTop(a) == highest_bid - bids[a]
Refund(a) == bids[a]

\* The owner is paid first, then the losers; whoever remains must be one
\* account with the highest bid, or the call fails and nothing is paid.
Settle ==
    LET total  == highest_bid + SumFunction([a \in Losers |-> Refund(a)])
        due(a) == (IF a = Owner THEN highest_bid ELSE 0)
                    + (IF a \in Losers THEN Refund(a) ELSE 0)
    IN  /\ total <= balance
        /\ balance' = balance - total
        /\ paid' = [a \in Account |-> paid[a] + due(a)]
        /\ \E winner \in bidders :
               /\ bidders \ Losers = {winner}
               /\ bids[winner] = highest_bid
               /\ auction_state' = winner

\* Without a bid there is nothing to sell, and the state stays NotSoldYet.
auction_finalize ==
    /\ auction_state = NotSoldYet
    /\ now > Expiry
    /\ IF balance = 0 THEN UNCHANGED <<auction_state, balance, paid>> ELSE Settle
    /\ UNCHANGED <<highest_bid, bidders, bids, now>>

Tick ==
    /\ now < MaxTime
    /\ now' = now + 1
    /\ UNCHANGED <<auction_state, highest_bid, bidders, bids, balance, paid>>

Next ==
    \/ \E a \in Account, amount \in 0 .. MaxBid : auction_bid(a, amount)
    \/ auction_finalize
    \/ Tick

Spec == auction_init /\ [][Next]_vars

\* Blocks keep coming, and "any account can finalize the auction" once it is over.
FairSpec == Spec /\ WF_vars(Tick) /\ WF_vars(auction_finalize)

-----------------------------------------------------------------------------
Sold == auction_state # NotSoldYet

\* Until the sale the contract holds every bid in full, and has paid nothing.
Escrow ==
    ~Sold => /\ balance = SumFunctionOnSet(bids, bidders)
             /\ \A a \in Account : paid[a] = 0

\* The stored highest bid is held by exactly one bidder and everyone else is
\* below it, so finalize never meets two winners or none (BidMapError).
LeaderUnique ==
    /\ bidders # {} => \E leader \in bidders :
           /\ bids[leader] = highest_bid
           /\ \A a \in bidders \ {leader} : bids[a] < highest_bid
    /\ \A a \in bidders : bids[a] > 0

\* After the sale the contract is empty: the owner got the highest bid, every
\* other bidder its whole bid back, and the winner, who outbid them, nothing.
SaleSettled ==
    Sold => /\ balance = 0
            /\ \A a \in bidders \ {auction_state} : bids[a] < bids[auction_state]
            /\ \A a \in Account :
                   paid[a] = (IF a = Owner THEN bids[auction_state] ELSE 0)
                               + (IF a = auction_state THEN 0 ELSE bids[a])

\* An auction somebody bid in is sold: no bidder can make finalize fail for ever.
BidsLeadToSale == (bidders # {}) ~> Sold
=============================================================================
