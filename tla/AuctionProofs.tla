---------------------------- MODULE AuctionProofs ---------------------------
(***************************************************************************)
(* For any accounts, expiry and bids: the auction has exactly one leader,  *)
(* holds every bid until the sale, and settles them all in it.             *)
(***************************************************************************)
EXTENDS Auction, SumProofs

BidsTyped ==
    /\ auction_state \in Account \cup {NotSoldYet}
    /\ highest_bid \in Nat
    /\ bidders \subseteq Account
    /\ bids \in [Account -> Nat]

\* Every bidder has an entry among the bids, and nobody else has bid.
LEMMA BidsTypedInvariant == Spec => []BidsTyped
<1>1. auction_init => BidsTyped
  BY AuctionAssumption DEF auction_init, BidsTyped, NotSoldYet
<1>2. BidsTyped /\ [Next]_vars => BidsTyped'
  <2> SUFFICES ASSUME BidsTyped, [Next]_vars PROVE BidsTyped'
    OBVIOUS
  <2> USE DEF BidsTyped
  <2>1. ASSUME NEW a \in Account, NEW amount \in 0 .. MaxBid, auction_bid(a, amount)
        PROVE BidsTyped'
    <3>1. NewBid(a, amount) \in Nat
      BY AuctionAssumption DEF NewBid
    <3> QED BY <2>1, <3>1 DEF auction_bid
  <2>2. CASE auction_finalize
    <3>1. auction_state' \in Account \cup {NotSoldYet}
      BY <2>2 DEF auction_finalize, Settle
    <3> QED BY <2>2, <3>1 DEF auction_finalize
  <2>3. CASE Tick
    BY <2>3 DEF Tick
  <2>4. CASE UNCHANGED vars
    BY <2>4 DEF vars
  <2> QED BY <2>1, <2>2, <2>3, <2>4 DEF Next
<1> QED BY <1>1, <1>2, PTL DEF Spec

\* Exactly one bidder holds the stored highest bid and all others are below
\* it: the checks of finalize that answer BidMapError never fail on the bids.
THEOREM OneLeader == Spec => []LeaderUnique
<1>1. auction_init => LeaderUnique
  BY DEF auction_init, LeaderUnique
<1>2. BidsTyped /\ LeaderUnique /\ [Next]_vars
      => LeaderUnique'
  <2> SUFFICES ASSUME BidsTyped, LeaderUnique, [Next]_vars
               PROVE  LeaderUnique'
    OBVIOUS
  <2>1. ASSUME NEW a \in Account, NEW amount \in 0 .. MaxBid, auction_bid(a, amount)
        PROVE LeaderUnique'
    <3>1. /\ highest_bid' > highest_bid
          /\ bids' = [bids EXCEPT ![a] = highest_bid']
          /\ bidders' = bidders \cup {a}
      BY <2>1 DEF auction_bid, Outbids
    <3>2. highest_bid' \in Nat /\ highest_bid' > 0
      BY <2>1, <3>1, AuctionAssumption DEF auction_bid, NewBid, BidsTyped
    <3>3. \A b \in bidders : bids[b] <= highest_bid
      BY DEF LeaderUnique, BidsTyped
    <3>4. bids'[a] = highest_bid' /\ a \in bidders'
      BY <3>1 DEF BidsTyped
    <3>5. ASSUME NEW b \in bidders' \ {a} PROVE bids'[b] < highest_bid' /\ bids'[b] > 0
      <4>1. b \in bidders /\ b \in Account /\ bids'[b] = bids[b]
        BY <3>1 DEF BidsTyped
      <4> QED BY <3>1, <3>2, <3>3, <4>1 DEF BidsTyped, LeaderUnique
    <3>6. \E leader \in bidders' :
              /\ bids'[leader] = highest_bid'
              /\ \A b \in bidders' \ {leader} : bids'[b] < highest_bid'
      BY <3>4, <3>5
    <3>7. \A b \in bidders' : bids'[b] > 0
      BY <3>2, <3>4, <3>5
    <3> QED BY <3>4, <3>6, <3>7 DEF LeaderUnique
  <2>2. ASSUME UNCHANGED <<highest_bid, bidders, bids>>
        PROVE LeaderUnique'
    BY <2>2 DEF LeaderUnique
  <2>3. CASE auction_finalize
    BY <2>2, <2>3 DEF auction_finalize
  <2>4. CASE Tick
    BY <2>2, <2>4 DEF Tick
  <2>5. CASE UNCHANGED vars
    BY <2>2, <2>5 DEF vars
  <2> QED BY <2>1, <2>3, <2>4, <2>5 DEF Next
<1> QED BY <1>1, <1>2, BidsTypedInvariant, PTL DEF Spec

-----------------------------------------------------------------------------
\* Before the sale: who has not bid has no entry, and the bids are in escrow.
\* The first part is why a first bid raises the sum by all of its amount.
EscrowInv == Escrow /\ \A a \in Account \ bidders : bids[a] = 0

\* A bid adds its amount to the sum of the bids.
LEMMA BidRaisesSum ==
  ASSUME BidsTyped, EscrowInv, NEW a \in Account, NEW amount \in 0 .. MaxBid,
         auction_bid(a, amount)
  PROVE  SumFunctionOnSet(bids', bidders') = SumFunctionOnSet(bids, bidders) + amount
<1>1. /\ bids' = [bids EXCEPT ![a] = bids[a] + amount]
      /\ bidders' = bidders \cup {a}
      /\ amount \in Nat
  BY AuctionAssumption DEF auction_bid, NewBid
<1>2. IsFiniteSet(bidders) /\ IsFiniteSet(bidders')
  BY <1>1, AuctionAssumption, FS_Subset, FS_AddElement DEF BidsTyped
<1>3. \A b \in Account : bids[b] \in Int /\ bids'[b] \in Int
  BY <1>1 DEF BidsTyped
<1>4. bidders \subseteq Account /\ bidders' \subseteq Account
  BY <1>1 DEF BidsTyped
<1>5. SumFunctionOnSet(bids', bidders')
        = SumFunctionOnSet(bids, bidders') - bids[a] + bids'[a]
  <2>1. a \in bidders' /\ \A b \in bidders' \ {a} : bids[b] = bids'[b]
    BY <1>1, <1>4 DEF BidsTyped
  <2> QED BY <1>2, <1>3, <1>4, <2>1, SumUpdate
<1>6. SumFunctionOnSet(bids, bidders') = SumFunctionOnSet(bids, bidders)
  <2>1. CASE a \in bidders
    <3>1. bidders' = bidders
      BY <1>1, <2>1
    <3> QED BY <3>1
  <2>2. CASE a \notin bidders
    <3>1. bids[a] = 0
      BY <2>2 DEF EscrowInv
    <3>2. SumFunctionOnSet(bids, bidders') = SumFunctionOnSet(bids, bidders) + bids[a]
      BY <1>1, <1>2, <1>3, <1>4, <2>2, SumInsert
    <3>3. SumFunctionOnSet(bids, bidders) \in Int
      BY <1>2, <1>3, <1>4, SumInteger
    <3> QED BY <3>1, <3>2, <3>3
  <2> QED BY <2>1, <2>2
<1>7. bids'[a] = bids[a] + amount /\ bids[a] \in Int
  BY <1>1 DEF BidsTyped
<1>8. SumFunctionOnSet(bids, bidders) \in Int
  BY <1>2, <1>3, <1>4, SumInteger
<1> QED BY <1>1, <1>5, <1>6, <1>7, <1>8

\* The balance is the bids that are not settled, whatever the order of bids and
\* closings.
LEMMA EscrowInvariant == Spec => []EscrowInv
<1>1. auction_init => EscrowInv
  BY SumEmpty DEF auction_init, EscrowInv, Escrow
<1>2. BidsTyped /\ EscrowInv /\ [Next]_vars => EscrowInv'
  <2> SUFFICES ASSUME BidsTyped, EscrowInv, [Next]_vars PROVE EscrowInv'
    OBVIOUS
  <2>1. ASSUME NEW a \in Account, NEW amount \in 0 .. MaxBid, auction_bid(a, amount)
        PROVE EscrowInv'
    <3>1. SumFunctionOnSet(bids', bidders') = SumFunctionOnSet(bids, bidders) + amount
      BY <2>1, BidRaisesSum
    <3>2. ~Sold /\ ~Sold' /\ balance' = balance + amount /\ paid' = paid
      BY <2>1 DEF auction_bid, Open, Sold
    <3>3. Escrow'
      BY <3>1, <3>2 DEF EscrowInv, Escrow
    <3>4. \A b \in Account \ bidders' : bids'[b] = 0
      BY <2>1 DEF auction_bid, EscrowInv, BidsTyped
    <3> QED BY <3>3, <3>4 DEF EscrowInv
  <2>2. CASE auction_finalize
    <3>1. Sold' \/ UNCHANGED <<auction_state, balance, paid>>
      BY <2>2, AuctionAssumption DEF auction_finalize, Settle, Sold, NotSoldYet, BidsTyped
    <3> QED BY <2>2, <3>1 DEF auction_finalize, EscrowInv, Escrow, Sold, NotSoldYet
  <2>3. CASE Tick \/ UNCHANGED vars
    BY <2>3 DEF Tick, vars, EscrowInv, Escrow, Sold
  <2> QED BY <2>1, <2>2, <2>3 DEF Next
<1> QED BY <1>1, <1>2, BidsTypedInvariant, PTL DEF Spec

\* Until the sale the contract holds the sum of all bids and has paid nothing.
THEOREM BidsInEscrow == Spec => []Escrow
<1>1. EscrowInv => Escrow
  BY DEF EscrowInv
<1> QED BY <1>1, EscrowInvariant, PTL

\* What finalize has to pay and what the contract holds are the same: the
\* leader's bid, for the owner, and the bids of all others.
Payable ==
  ~Sold /\ bidders # {} =>
     /\ highest_bid + SumFunction([a \in Losers |-> Refund(a)]) = balance
     /\ balance > 0
     /\ \E winner \in bidders : bidders \ Losers = {winner} /\ bids[winner] = highest_bid

\* Before the sale the balance pays the winner's bid and every loser's refund,
\* and no more.
LEMMA BidsArePayable ==
  ASSUME BidsTyped, LeaderUnique, EscrowInv
  PROVE  Payable
<1> SUFFICES ASSUME ~Sold, bidders # {}
             PROVE  /\ highest_bid + SumFunction([a \in Losers |-> Refund(a)]) = balance
                    /\ balance > 0
                    /\ \E winner \in bidders :
                          bidders \ Losers = {winner} /\ bids[winner] = highest_bid
  BY DEF Payable
<1>1. PICK winner \in bidders :
        /\ bids[winner] = highest_bid
        /\ \A a \in bidders \ {winner} : bids[a] < highest_bid
  BY DEF LeaderUnique
<1>2. bidders \ Losers = {winner} /\ Losers = bidders \ {winner}
  BY <1>1 DEF Losers, BidsTyped
<1>3. IsFiniteSet(bidders) /\ IsFiniteSet(Losers)
  BY <1>2, AuctionAssumption, FS_Subset, FS_RemoveElement DEF BidsTyped
<1>4. \A a \in bidders : bids[a] \in Nat /\ bids[a] > 0
  BY DEF BidsTyped, LeaderUnique
<1>5. SumFunctionOnSet(bids, bidders) = highest_bid + SumFunctionOnSet(bids, Losers)
  BY <1>1, <1>2, <1>3, <1>4, SumRemove
<1>6. SumFunction([a \in Losers |-> Refund(a)]) = SumFunctionOnSet(bids, Losers)
  <2> DEFINE refunds == [a \in Losers |-> Refund(a)]
  <2>1. DOMAIN refunds = Losers /\ \A a \in Losers : refunds[a] = bids[a]
    BY DEF Refund
  <2> HIDE DEF refunds
  <2>2. SumFunction(refunds) = SumFunctionOnSet(bids, Losers)
    BY <1>3, <2>1, SumSame DEF SumFunction
  <2> QED BY <2>2 DEF refunds
<1>7. balance = SumFunctionOnSet(bids, bidders)
  BY DEF EscrowInv, Escrow
<1>8. SumFunctionOnSet(bids, Losers) \in Nat
  BY <1>3, <1>4, SumPart DEF Losers
<1>9. highest_bid \in Nat /\ highest_bid > 0
  BY <1>1, <1>4
<1> QED BY <1>1, <1>2, <1>5, <1>6, <1>7, <1>8, <1>9

\* Once somebody has bid, no bid and no order of bids can make finalize fail:
\* it never runs out of CCD, and finds exactly one account left over.
THEOREM FinalizeNeverFails == Spec => []Payable
<1>1. BidsTyped /\ LeaderUnique /\ EscrowInv => Payable
  BY BidsArePayable
<1> QED BY <1>1, BidsTypedInvariant, OneLeader, EscrowInvariant, PTL

\* The closing pays the owner the highest bid and every other bidder its own.
LEMMA FinalizeSettles ==
  ASSUME BidsTyped, LeaderUnique, EscrowInv, SaleSettled, auction_finalize
  PROVE  SaleSettled'
<1>1. CASE balance = 0
  BY <1>1 DEF auction_finalize, SaleSettled, Sold
<1>2. CASE balance # 0
  <2>1. ~Sold /\ Settle /\ UNCHANGED <<highest_bid, bidders, bids>>
    BY <1>2 DEF auction_finalize, Sold
  <2>2. PICK winner \in bidders :
          bidders \ Losers = {winner} /\ bids[winner] = highest_bid /\ auction_state' = winner
    BY <2>1 DEF Settle
  <2>3. balance' = 0
    <3> DEFINE total == highest_bid + SumFunction([a \in Losers |-> Refund(a)])
    <3>1. total = balance
      BY <2>1, <2>2, BidsArePayable DEF Payable
    <3>2. balance' = balance - total
      BY <2>1 DEF Settle
    <3>3. balance \in Int
      <4>1. IsFiniteSet(bidders) /\ \A a \in bidders : bids[a] \in Int
        BY AuctionAssumption, FS_Subset DEF BidsTyped
      <4> QED BY <2>1, <4>1, SumInteger DEF EscrowInv, Escrow
    <3> HIDE DEF total
    <3> QED BY <3>1, <3>2, <3>3
  <2>4. \A a \in bidders \ {winner} : bids[a] < bids[winner]
    BY <2>2 DEF Losers
  <2>5. ASSUME NEW a \in Account
        PROVE  paid'[a] = (IF a = Owner THEN bids[winner] ELSE 0)
                            + (IF a = winner THEN 0 ELSE bids[a])
    <3>1. paid[a] = 0 /\ bids[a] \in Nat /\ highest_bid \in Nat
      BY <2>1 DEF EscrowInv, Escrow, BidsTyped
    <3>2. paid'[a] = paid[a] + ((IF a = Owner THEN highest_bid ELSE 0)
                                  + (IF a \in Losers THEN Refund(a) ELSE 0))
      BY <2>1 DEF Settle
    <3>3. CASE a \in Losers
      BY <2>2, <3>1, <3>2, <3>3 DEF Refund
    <3>4. CASE a = winner
      BY <2>2, <3>1, <3>2, <3>4
    <3>5. CASE a \notin bidders
      <4>1. bids[a] = 0 /\ a \notin Losers
        BY <3>5 DEF EscrowInv, Losers
      <4> QED BY <2>2, <3>1, <3>2, <3>5, <4>1
    <3> QED BY <2>2, <3>3, <3>4, <3>5
  <2> QED BY <2>1, <2>2, <2>3, <2>4, <2>5 DEF SaleSettled
<1> QED BY <1>1, <1>2

\* After the sale the contract is empty, the owner has the highest bid, and
\* every bidder but the winner has its own bid back.
THEOREM SalesSettle == Spec => []SaleSettled
<1>1. auction_init => SaleSettled
  BY DEF auction_init, SaleSettled, Sold
<1>2. BidsTyped /\ LeaderUnique /\ EscrowInv /\ SaleSettled /\ [Next]_vars => SaleSettled'
  <2> SUFFICES ASSUME BidsTyped, LeaderUnique, EscrowInv, SaleSettled, [Next]_vars
               PROVE  SaleSettled'
    OBVIOUS
  <2>1. CASE \E a \in Account, amount \in 0 .. MaxBid : auction_bid(a, amount)
    BY <2>1 DEF auction_bid, Open, SaleSettled, Sold
  <2>2. CASE auction_finalize
    BY <2>2, FinalizeSettles
  <2>3. CASE Tick \/ UNCHANGED vars
    BY <2>3 DEF Tick, vars, SaleSettled, Sold
  <2> QED BY <2>1, <2>2, <2>3 DEF Next
<1> QED BY <1>1, <1>2, BidsTypedInvariant, OneLeader, EscrowInvariant, PTL DEF Spec
=============================================================================
