------------------------------ MODULE Commerce ------------------------------
(***************************************************************************)
(* The `vendor` contract of Commerce: a buyer pays for an item of the      *)
(* listings, vendor and buyer take the purchase through delivery, dispute  *)
(* and counter-dispute, each may call a timeout, and the contract holds    *)
(* the money of both meanwhile.  A call that returns an error or panics    *)
(* changes nothing and is no step.                                         *)
(***************************************************************************)
EXTENDS Integers, Sequences, FiniteSets, Functions

CONSTANTS
    Account, Vendor,         \* the vendor may buy as well
    Timeout,                 \* the `timeout` of the init parameter
    Item, FirstListing,      \* the listings the contract starts with (no entry
                             \* point adds one) and their prices
    Value,                   \* prices the vendor may ask in seller_UpdateListings
    Gwei, U64,               \* 10^9 and 2^64, scaled down
    Stamp,                   \* timestamps a buyer may send
    Commitment,
    MaxPurchases             \* bound: purchases requested

ASSUME CommerceAssumption ==
    /\ Vendor \in Account
    /\ Timeout \in Nat \ {0}
    /\ 0 \in Item /\ 0 \in Commitment
    /\ U64 \in Nat \ {0} /\ Gwei \in Nat
    /\ FirstListing \in [Item -> 0 .. U64 - 1]
    /\ Value \subseteq Nat /\ Stamp \subseteq 0 .. U64 - 1
    /\ Commitment \subseteq Nat
    /\ MaxPurchases \in Nat

VARIABLES
    contracts,               \* the purchases, by the order of their requests
    listings,                \* price of each item
    balance,
    ledger,                  \* what was paid for each purchase, and to whom it went
    stalled                  \* purchases whose timeout has really passed since
                             \* their last activity

vars == <<contracts, listings, balance, ledger, stalled>>

State == {"Requested", "Accepted", "Rejected", "Delivered", "Completed",
          "Dispute", "Counter", "Failed"}
Settled == {"Rejected", "Completed", "Failed"}

Purchase == [commit : Commitment, timestamp : 0 .. U64 - 1, item : Item,
             seller_bit : BOOLEAN, state : State, buyer : Account]

commerce_init ==
    /\ contracts = <<>>
    /\ listings = FirstListing
    /\ balance = 0
    /\ ledger = <<>>
    /\ stalled = {}

-----------------------------------------------------------------------------
(* What the handlers have in common.  The price of a purchase is read from *)
(* the listings anew by every handler.                                     *)

Price(id) == listings[contracts[id].item]

tsfix(t) == (t + 10) % U64

\* Both sides are taken from the stored timestamp: no clock is read.
TimeoutPassed(id) ==
    tsfix(contracts[id].timestamp) > (contracts[id].timestamp + Timeout) % U64

InState(id, states) == id \in DOMAIN contracts /\ contracts[id].state \in states

BuyerCalls(sender, id) == id \in DOMAIN contracts /\ sender = contracts[id].buyer
VendorCalls(sender)    == sender = Vendor

Becomes(id, purchase) ==
    /\ contracts' = [contracts EXCEPT ![id] = purchase]
    /\ stalled' = stalled \ {id}
    /\ UNCHANGED listings

\* The state moves on; Active also advances the time of the last activity.
To(id, state)     == Becomes(id, [contracts[id] EXCEPT !.state = state])
Active(id, state) == [contracts[id] EXCEPT !.state = state, !.timestamp = tsfix(@)]

Receive(id, amount) ==
    /\ balance' = balance + amount
    /\ ledger' = [ledger EXCEPT ![id].received = @ + amount]

\* No caller looks at the result: a transfer beyond the balance is skipped.
invoke_transfer(id, role, amount) ==
    IF amount <= balance
    THEN /\ balance' = balance - amount
         /\ ledger' = [ledger EXCEPT ![id][role] = @ + amount]
    ELSE UNCHANGED <<balance, ledger>>

NoMoney == UNCHANGED <<balance, ledger>>

-----------------------------------------------------------------------------
(* The buyer's calls.                                                      *)

ItemStored_position(item) == Len(contracts)
ItemStored(item) == 0

buyer_RequestPurchase(sender, item, timestamp) ==
    /\ Len(contracts) < MaxPurchases
    /\ contracts' = Append(contracts,
           [commit |-> 0, timestamp |-> timestamp, item |-> ItemStored(item),
            seller_bit |-> FALSE, state |-> "Requested", buyer |-> sender])
    /\ balance' = balance + listings[item]
    /\ ledger' = Append(ledger,
           [received |-> listings[item], buyer |-> 0, vendor |-> 0])
    /\ UNCHANGED <<listings, stalled>>

\* The refund is the price of the item the caller names.
buyer_Abort(sender, id, item) ==
    /\ BuyerCalls(sender, id)
    /\ InState(id, {"Requested"})
    /\ To(id, "Failed")
    /\ invoke_transfer(id, "buyer", listings[item])

buyer_ConfirmDelivery(sender, id) ==
    /\ BuyerCalls(sender, id)
    /\ InState(id, {"Delivered"})
    /\ To(id, "Completed")
    /\ invoke_transfer(id, "vendor", Price(id))

buyer_DisputeDelivery(sender, id, commitment) ==
    /\ BuyerCalls(sender, id)
    /\ InState(id, {"Delivered"})
    /\ Becomes(id, [Active(id, "Dispute") EXCEPT !.commit = commitment])
    /\ Receive(id, Price(id))

BuyerMayTimeout == {"Dispute", "Accepted"}

Payback_single(id) == Price(id)
Payback(id) == IF contracts[id].state = "Dispute" THEN 2 * Price(id) ELSE Price(id)

buyer_CallTimeout(sender, id) ==
    /\ BuyerCalls(sender, id)
    /\ InState(id, BuyerMayTimeout)
    /\ TimeoutPassed(id)
    /\ To(id, "Failed")
    /\ invoke_transfer(id, "buyer", Payback(id))

Winner(id, buyerBit) == IF contracts[id].seller_bit # buyerBit THEN "vendor" ELSE "buyer"

buyer_OpenCommitment(sender, id, buyerBit) ==
    /\ BuyerCalls(sender, id)
    /\ InState(id, {"Counter"})
    /\ contracts[id].commit = 0
    /\ To(id, "Failed")
    /\ invoke_transfer(id, Winner(id, buyerBit), 2 * Price(id))

-----------------------------------------------------------------------------
(* The vendor's calls.                                                     *)

VendorMayTimeout_delivered == {"Delivered"}
VendorMayTimeout == {"Delivered", "Counter"}

seller_CallTimeout(sender, id) ==
    /\ VendorCalls(sender)
    /\ InState(id, VendorMayTimeout)
    /\ TimeoutPassed(id)
    /\ To(id, "Completed")
    /\ invoke_transfer(id, "vendor", Price(id))

Rejectable_settled == {"Requested", "Failed"}
Rejectable == {"Requested"}

seller_RejectContract(sender, id) ==
    /\ VendorCalls(sender)
    /\ InState(id, Rejectable)
    /\ To(id, "Rejected")
    /\ invoke_transfer(id, "buyer", Price(id))

seller_AcceptContract(sender, id) ==
    /\ VendorCalls(sender)
    /\ InState(id, {"Requested"})
    /\ Becomes(id, Active(id, "Accepted"))
    /\ NoMoney

seller_ItemWasDelivered(sender, id) ==
    /\ VendorCalls(sender)
    /\ InState(id, {"Accepted"})
    /\ Becomes(id, Active(id, "Delivered"))
    /\ NoMoney

seller_ForfeitDispute(sender, id) ==
    /\ VendorCalls(sender)
    /\ InState(id, {"Dispute"})
    /\ To(id, "Failed")
    /\ invoke_transfer(id, "buyer", 2 * Price(id))

seller_CounterDispute(sender, id, randomBit) ==
    /\ VendorCalls(sender)
    /\ InState(id, {"Dispute"})
    /\ Becomes(id, [Active(id, "Counter") EXCEPT !.seller_bit = randomBit])
    /\ Receive(id, Price(id))

MayReprice_always == TRUE
MayReprice == Len(contracts) = 0

seller_UpdateListings(sender, item, value) ==
    /\ VendorCalls(sender)
    /\ MayReprice
    /\ listings' = [listings EXCEPT ![item] = (value * Gwei) % U64]
    /\ UNCHANGED <<contracts, balance, ledger, stalled>>

-----------------------------------------------------------------------------
\* Long enough passes without a call for every timeout to have passed.
Elapse ==
    /\ stalled # DOMAIN contracts
    /\ stalled' = DOMAIN contracts
    /\ UNCHANGED <<contracts, listings, balance, ledger>>

Timeouts(sender, id) == buyer_CallTimeout(sender, id) \/ seller_CallTimeout(sender, id)

Next ==
    \/ \E sender \in Account :
          \/ \E item \in Item :
                \/ \E t \in Stamp : buyer_RequestPurchase(sender, item, t)
                \/ \E value \in Value : seller_UpdateListings(sender, item, value)
          \/ \E id \in DOMAIN contracts :
                \/ \E item \in Item : buyer_Abort(sender, id, item)
                \/ buyer_ConfirmDelivery(sender, id)
                \/ \E c \in Commitment : buyer_DisputeDelivery(sender, id, c)
                \/ \E b \in BOOLEAN : buyer_OpenCommitment(sender, id, b)
                \/ Timeouts(sender, id)
                \/ seller_RejectContract(sender, id)
                \/ seller_AcceptContract(sender, id)
                \/ seller_ItemWasDelivered(sender, id)
                \/ seller_ForfeitDispute(sender, id)
                \/ \E b \in BOOLEAN : seller_CounterDispute(sender, id, b)
    \/ Elapse

Spec == commerce_init /\ [][Next]_vars

\* Both parties want their money: the vendor answers a request, and whoever a
\* timeout would pay keeps calling it.
Answered(id) == seller_AcceptContract(Vendor, id) \/ seller_RejectContract(Vendor, id)

LiveSpec ==
    /\ Spec
    /\ \A id \in 1 .. MaxPurchases :
          /\ WF_vars(Answered(id))
          /\ WF_vars(\E sender \in Account : Timeouts(sender, id))
    /\ WF_vars(Elapse)

-----------------------------------------------------------------------------
\* Listings, purchases and the ledger are well formed: every purchase names an
\* item that is listed, or each later call for it would panic with the money
\* inside, and no transfer overdraws the balance.
TypeOK ==
    /\ listings \in [Item -> 0 .. U64 - 1]
    /\ contracts \in Seq(Purchase)
    /\ ledger \in Seq([received : Nat, buyer : Nat, vendor : Nat])
    /\ Len(ledger) = Len(contracts)
    /\ balance \in Nat
    /\ stalled \subseteq DOMAIN contracts

Held(id) == ledger[id].received - ledger[id].buyer - ledger[id].vendor

Stakes == [s \in State \ Settled |->
             CASE s = "Counter" -> 3 [] s = "Dispute" -> 2 [] OTHER -> 1]

\* While a purchase is open the contract holds its price once, twice in a
\* dispute and three times after a counter, and the balance covers all open
\* purchases together, so that no skipped transfer can go unnoticed.
StakesHeld ==
    LET open == {id \in DOMAIN contracts : contracts[id].state \notin Settled}
    IN  /\ \A id \in open : Held(id) = Stakes[contracts[id].state] * Price(id)
        /\ SumFunction([id \in open |-> Held(id)]) <= balance

Countered(id) == ledger[id].received = 3 * Price(id)

\* Nobody is paid for an open purchase, and never both sides.  Settled without
\* a counter, all that was paid in goes to the side the outcome names: the
\* buyer's stakes back if it was rejected or failed, the price to the vendor if
\* it was completed.  (After a counter see WinnerTakesAll.)
FairShares ==
    \A id \in DOMAIN contracts :
        LET l == ledger[id]
            s == contracts[id].state
        IN  /\ 0 \in {l.buyer, l.vendor}
            /\ s \notin Settled => l.buyer = 0 /\ l.vendor = 0
            /\ s \in Settled /\ ~Countered(id) =>
                  IF s = "Completed" THEN l.vendor = l.received ELSE l.buyer = l.received

\* What has been settled is never reopened, paid again or moved.
SettledForGood ==
    [][\A id \in DOMAIN contracts : contracts[id].state \in Settled =>
          contracts'[id] = contracts[id] /\ ledger'[id] = ledger[id]]_vars

\* tsfix wraps and the other side of the check does not: it never passes.
WrapsBetween(id) ==
    /\ contracts[id].timestamp + 10 >= U64
    /\ contracts[id].timestamp + Timeout < U64

\* A purchase is settled in the end, whatever its buyer sent for a timestamp,
\* or waits for one of the four calls that may never come with a timestamp for
\* which the timeout of the other side never passes.
Settles ==
    \A id \in 1 .. MaxPurchases :
        <>[](InState(id, State) =>
                \/ InState(id, Settled)
                \/ InState(id, BuyerMayTimeout \cup VendorMayTimeout) /\ WrapsBetween(id))

\* "Buyer calls timeout and receives back the money in the contract": a
\* purchase whose timeout has passed does not stay that way.
StallsEnd ==
    \A id \in 1 .. MaxPurchases :
        (InState(id, BuyerMayTimeout) /\ id \in stalled)
            ~> ~(InState(id, BuyerMayTimeout) /\ id \in stalled)

\* "reaching failed via buyer_opencommitment AND buyer wins, price of item + 2x
\* wager back (total 3x item)": a purchase that failed after a counter, and was
\* not won by the vendor, returns the price and both wagers.
WinnerTakesAll ==
    \A id \in DOMAIN contracts :
        contracts[id].state = "Failed" /\ Countered(id) /\ ledger[id].vendor = 0
            => ledger[id].buyer = 3 * Price(id)

\* "transfer funds back to buyer": a rejected purchase returns what was paid.
RejectReturnsPayment ==
    \A id \in DOMAIN contracts :
        contracts[id].state = "Rejected" => ledger[id].buyer = ledger[id].received
=============================================================================
