--------------------------- MODULE CommerceProofs ---------------------------
(* For every set of accounts, timeout, listings, prices and width of u64:    *)
(* the contract's state stays well typed, its balance is what the ledger     *)
(* says, and a settled purchase is final.  For a contract with one item, of  *)
(* whatever price: the stakes are held, and a purchase settled without a     *)
(* counter goes in full to the side it belongs to.                           *)
EXTENDS Commerce, SumProofs

Entry == [received : Nat, buyer : Nat, vendor : Nat]

(* What a handler is given: a well-typed state.                              *)
LEMMA PriceType ==
    ASSUME TypeOK, NEW id \in DOMAIN contracts
    PROVE  /\ contracts[id] \in Purchase
           /\ Price(id) \in Nat
<1>1. contracts[id] \in Purchase
    BY DEF TypeOK
<1>2. listings[contracts[id].item] \in 0 .. U64 - 1
    BY <1>1 DEF TypeOK, Purchase
<1> QED BY <1>1, <1>2, CommerceAssumption DEF Price

(* Addition modulo the word size stays a timestamp.                          *)
LEMMA TimestampType ==
    ASSUME NEW t \in 0 .. U64 - 1
    PROVE  tsfix(t) \in 0 .. U64 - 1
BY CommerceAssumption DEF tsfix

(* Replacing one purchase keeps the sequence of purchases well typed.        *)
LEMMA BecomesType ==
    ASSUME TypeOK, NEW id \in DOMAIN contracts, NEW p \in Purchase, Becomes(id, p)
    PROVE  /\ contracts' \in Seq(Purchase)
           /\ Len(contracts') = Len(contracts)
           /\ listings' \in [Item -> 0 .. U64 - 1]
           /\ stalled' \subseteq DOMAIN contracts'
BY DEF TypeOK, Becomes

(* An entry of the ledger with one of its sums raised.                       *)
Raised(entry, sum, amount) == [entry EXCEPT ![sum] = @ + amount]

\* A ledger entry stays one when one of its sums is raised.
LEMMA RaisedType ==
    ASSUME NEW entry \in Entry, NEW amount \in Nat,
           NEW sum \in {"received", "buyer", "vendor"}
    PROVE  Raised(entry, sum, amount) \in Entry
<1>1. CASE sum = "received" BY <1>1 DEF Raised, Entry
<1>2. CASE sum = "buyer" BY <1>2 DEF Raised, Entry
<1>3. CASE sum = "vendor" BY <1>3 DEF Raised, Entry
<1> QED BY <1>1, <1>2, <1>3

(* A payment into a purchase, a transfer out of it that the balance may or   *)
(* may not cover, and no movement of money keep the ledger well typed.       *)
LEMMA MoneyType ==
    ASSUME TypeOK, NEW id \in DOMAIN contracts, NEW amount \in Nat,
           \/ Receive(id, amount)
           \/ invoke_transfer(id, "buyer", amount)
           \/ invoke_transfer(id, "vendor", amount)
           \/ NoMoney
    PROVE  /\ ledger' \in Seq(Entry)
           /\ Len(ledger') = Len(ledger)
           /\ balance' \in Nat
<1>1. id \in DOMAIN ledger /\ ledger[id] \in Entry /\ ledger \in Seq(Entry) /\ balance \in Nat
    <2>1. ledger \in Seq(Entry) /\ balance \in Nat
        BY DEF TypeOK, Entry
    <2>2. id \in DOMAIN ledger
        BY DEF TypeOK
    <2> QED BY <2>1, <2>2
<1>2. CASE Receive(id, amount)
    <2>1. ledger' = [ledger EXCEPT ![id] = Raised(ledger[id], "received", amount)]
        BY <1>1, <1>2 DEF Receive, Raised
    <2>2. Raised(ledger[id], "received", amount) \in Entry
        BY <1>1, RaisedType
    <2> QED BY <1>1, <1>2, <2>1, <2>2 DEF Receive
<1>3. ASSUME NEW role \in {"buyer", "vendor"}, invoke_transfer(id, role, amount)
      PROVE  /\ ledger' \in Seq(Entry)
             /\ Len(ledger') = Len(ledger)
             /\ balance' \in Nat
    <2>1. CASE amount <= balance
        <3>1. ledger' = [ledger EXCEPT ![id] = Raised(ledger[id], role, amount)]
            BY <1>1, <1>3, <2>1 DEF invoke_transfer, Raised
        <3>2. Raised(ledger[id], role, amount) \in Entry
            BY <1>1, RaisedType
        <3> QED BY <1>1, <1>3, <2>1, <3>1, <3>2 DEF invoke_transfer
    <2>2. CASE ~(amount <= balance)
        BY <1>1, <1>3, <2>2 DEF invoke_transfer
    <2> QED BY <2>1, <2>2
<1>5. CASE NoMoney
    BY <1>1, <1>5 DEF NoMoney
<1> QED BY <1>2, <1>3, <1>5

(* The handlers of an existing purchase have one shape: an open purchase is  *)
(* replaced by another one, and money moves for that purchase alone.         *)
Handled(id) ==
    /\ id \in DOMAIN contracts
    /\ contracts[id].state \notin Settled
    /\ \E p \in Purchase : Becomes(id, p)
    /\ \E amount \in Nat :
          \/ Receive(id, amount)
          \/ invoke_transfer(id, "buyer", amount)
          \/ invoke_transfer(id, "vendor", amount)
          \/ NoMoney

\* Every call on a purchase, with whatever arguments.
OnPurchase(sender, id) ==
    \/ \E item \in Item : buyer_Abort(sender, id, item)
    \/ buyer_ConfirmDelivery(sender, id)
    \/ \E c \in Commitment : buyer_DisputeDelivery(sender, id, c)
    \/ \E b \in BOOLEAN : buyer_OpenCommitment(sender, id, b)
    \/ Timeouts(sender, id)
    \/ seller_RejectContract(sender, id)
    \/ seller_AcceptContract(sender, id)
    \/ seller_ItemWasDelivered(sender, id)
    \/ seller_ForfeitDispute(sender, id)
    \/ \E b \in BOOLEAN : seller_CounterDispute(sender, id, b)

\* Every handler of a purchase replaces its record with another record.
LEMMA HandlerShape ==
    ASSUME TypeOK, NEW sender \in Account, NEW id \in DOMAIN contracts,
           OnPurchase(sender, id)
    PROVE  Handled(id)
<1>1. contracts[id] \in Purchase /\ Price(id) \in Nat /\ 2 * Price(id) \in Nat
    BY PriceType
<1>2. \A s \in State : [contracts[id] EXCEPT !.state = s] \in Purchase
    BY <1>1 DEF Purchase
<1>3. \A s \in State : Active(id, s) \in Purchase
    BY <1>1, TimestampType DEF Purchase, Active
<1>4. \A item \in Item : listings[item] \in Nat
    BY CommerceAssumption DEF TypeOK
<1>5. ASSUME NEW item \in Item, buyer_Abort(sender, id, item) PROVE Handled(id)
    BY <1>2, <1>4, <1>5 DEF buyer_Abort, InState, To, State, Settled, Handled
<1>6. CASE buyer_ConfirmDelivery(sender, id)
    BY <1>1, <1>2, <1>6 DEF buyer_ConfirmDelivery, InState, To, State, Settled, Handled
<1>7. ASSUME NEW c \in Commitment, buyer_DisputeDelivery(sender, id, c) PROVE Handled(id)
    <2>1. [Active(id, "Dispute") EXCEPT !.commit = c] \in Purchase
        BY <1>3 DEF State, Purchase
    <2> QED BY <1>1, <1>7, <2>1 DEF buyer_DisputeDelivery, InState, Settled, Handled
<1>8. ASSUME NEW b \in BOOLEAN, buyer_OpenCommitment(sender, id, b) PROVE Handled(id)
    BY <1>1, <1>2, <1>8 DEF buyer_OpenCommitment, Winner, InState, To, State, Settled, Handled
<1>9. CASE Timeouts(sender, id)
    <2>1. Payback(id) \in Nat
        BY <1>1 DEF Payback
    <2>2. CASE buyer_CallTimeout(sender, id)
        BY <1>2, <2>1, <2>2
           DEF buyer_CallTimeout, BuyerMayTimeout, InState, To, State, Settled, Handled
    <2>3. CASE seller_CallTimeout(sender, id)
        BY <1>1, <1>2, <2>3
           DEF seller_CallTimeout, VendorMayTimeout, InState, To, State, Settled, Handled
    <2> QED BY <1>9, <2>2, <2>3 DEF Timeouts
<1>10. CASE seller_RejectContract(sender, id)
    BY <1>1, <1>2, <1>10
       DEF seller_RejectContract, Rejectable, InState, To, State, Settled, Handled
<1>11. CASE seller_AcceptContract(sender, id)
    BY <1>3, <1>11 DEF seller_AcceptContract, InState, State, Settled, Handled
<1>12. CASE seller_ItemWasDelivered(sender, id)
    BY <1>3, <1>12 DEF seller_ItemWasDelivered, InState, State, Settled, Handled
<1>13. CASE seller_ForfeitDispute(sender, id)
    BY <1>1, <1>2, <1>13 DEF seller_ForfeitDispute, InState, To, State, Settled, Handled
<1>14. ASSUME NEW b \in BOOLEAN, seller_CounterDispute(sender, id, b) PROVE Handled(id)
    <2>1. [Active(id, "Counter") EXCEPT !.seller_bit = b] \in Purchase
        BY <1>3 DEF State, Purchase
    <2> QED BY <1>1, <1>14, <2>1 DEF seller_CounterDispute, InState, Settled, Handled
<1> QED BY <1>5, <1>6, <1>7, <1>8, <1>9, <1>10, <1>11, <1>12, <1>13, <1>14 DEF OnPurchase

(* Every step requests a purchase, reprices an item, handles one open        *)
(* purchase, or lets time pass.                                              *)
LEMMA StepShape ==
    ASSUME TypeOK, Next
    PROVE  \/ \E sender \in Account, item \in Item, t \in Stamp :
                 buyer_RequestPurchase(sender, item, t)
           \/ \E sender \in Account, item \in Item, value \in Value :
                 seller_UpdateListings(sender, item, value)
           \/ \E id \in DOMAIN contracts : Handled(id)
           \/ Elapse
<1>1. ASSUME NEW sender \in Account, NEW id \in DOMAIN contracts, OnPurchase(sender, id)
      PROVE  Handled(id)
    BY <1>1, HandlerShape
<1> QED BY <1>1 DEF Next, OnPurchase

\* Deployment.
LEMMA TypeInit == commerce_init => TypeOK
BY CommerceAssumption DEF commerce_init, TypeOK

\* A request adds a purchase, or leaves everything as it is.
LEMMA RequestType ==
    ASSUME TypeOK, NEW sender \in Account, NEW item \in Item, NEW t \in Stamp,
           buyer_RequestPurchase(sender, item, t)
    PROVE  TypeOK'
<1>1. listings[item] \in Nat
    BY CommerceAssumption DEF TypeOK
<1>2. [commit |-> 0, timestamp |-> t, item |-> ItemStored(item), seller_bit |-> FALSE,
       state |-> "Requested", buyer |-> sender] \in Purchase
    BY CommerceAssumption DEF Purchase, State, ItemStored
<1>3. [received |-> listings[item], buyer |-> 0, vendor |-> 0]
          \in [received : Nat, buyer : Nat, vendor : Nat]
    BY <1>1
<1>4. DOMAIN contracts \subseteq DOMAIN contracts'
    BY DEF TypeOK, buyer_RequestPurchase
<1> QED BY <1>1, <1>2, <1>3, <1>4 DEF TypeOK, buyer_RequestPurchase

\* Every step keeps the types.
LEMMA TypeStep == TypeOK /\ [Next]_vars => TypeOK'
<1> SUFFICES ASSUME TypeOK, [Next]_vars PROVE TypeOK'
    OBVIOUS
<1>1. CASE \E sender \in Account, item \in Item, t \in Stamp :
              buyer_RequestPurchase(sender, item, t)
    BY <1>1, RequestType
<1>2. CASE \E sender \in Account, item \in Item, value \in Value :
              seller_UpdateListings(sender, item, value)
    <2>1. PICK item \in Item, value \in Value : \E sender \in Account :
              seller_UpdateListings(sender, item, value)
        BY <1>2
    <2>2. (value * Gwei) % U64 \in 0 .. U64 - 1
        <3>1. value * Gwei \in Nat
            BY CommerceAssumption
        <3> QED BY <3>1, CommerceAssumption
    <2> QED BY <2>1, <2>2 DEF TypeOK, seller_UpdateListings
<1>3. ASSUME NEW id \in DOMAIN contracts, Handled(id) PROVE TypeOK'
    <2>1. PICK p \in Purchase : Becomes(id, p)
        BY <1>3 DEF Handled
    <2>2. /\ contracts' \in Seq(Purchase)
          /\ Len(contracts') = Len(contracts)
          /\ listings' \in [Item -> 0 .. U64 - 1]
          /\ stalled' \subseteq DOMAIN contracts'
        BY <2>1, BecomesType
    <2>3. ledger' \in Seq(Entry) /\ Len(ledger') = Len(ledger) /\ balance' \in Nat
        BY <1>3, MoneyType DEF Handled
    <2> QED BY <2>2, <2>3 DEF TypeOK, Entry
<1>4. CASE Elapse
    BY <1>4 DEF TypeOK, Elapse
<1>5. CASE UNCHANGED vars
    BY <1>5 DEF TypeOK, vars
<1> QED BY <1>1, <1>2, <1>3, <1>4, <1>5, StepShape

(* Every reachable state of the contract is well typed: timestamps and       *)
(* prices keep their width and no handler overdraws the balance.             *)
THEOREM TypeCorrect == Spec => []TypeOK
<1>1. Spec => [](TypeOK) BY TypeInit, TypeStep, PTL DEF Spec
<1> QED BY <1>1

\* A step leaves a settled purchase and its payments alone.
LEMMA SettledStep ==
    ASSUME TypeOK, [Next]_vars
    PROVE  \A id \in DOMAIN contracts : contracts[id].state \in Settled =>
               contracts'[id] = contracts[id] /\ ledger'[id] = ledger[id]
<1> SUFFICES ASSUME NEW id \in DOMAIN contracts, contracts[id].state \in Settled
             PROVE  contracts'[id] = contracts[id] /\ ledger'[id] = ledger[id]
    OBVIOUS
<1>1. CASE \E sender \in Account, item \in Item, t \in Stamp :
              buyer_RequestPurchase(sender, item, t)
    BY <1>1 DEF TypeOK, buyer_RequestPurchase
<1>2. CASE \E sender \in Account, item \in Item, value \in Value :
              seller_UpdateListings(sender, item, value)
    BY <1>2 DEF seller_UpdateListings
<1>3. ASSUME NEW other \in DOMAIN contracts, Handled(other)
      PROVE  contracts'[id] = contracts[id] /\ ledger'[id] = ledger[id]
    <2>1. other # id
        BY <1>3 DEF Handled
    <2>2. contracts'[id] = contracts[id]
        BY <1>3, <2>1 DEF Handled, Becomes
    <2>3. id \in DOMAIN ledger /\ other \in DOMAIN ledger
        BY DEF TypeOK
    <2>4. ledger'[id] = ledger[id]
        BY <1>3, <2>1, <2>3 DEF Handled, Receive, invoke_transfer, NoMoney
    <2> QED BY <2>2, <2>4
<1>4. CASE Elapse
    BY <1>4 DEF Elapse
<1>5. CASE UNCHANGED vars
    BY <1>5 DEF vars
<1> QED BY <1>1, <1>2, <1>3, <1>4, <1>5, StepShape

(* Whatever the listings, the prices and the timeout, a purchase that was    *)
(* rejected, completed or failed is neither reopened nor paid again.         *)
THEOREM SettledIsFinal == Spec => SettledForGood
<1>1. TypeOK /\ [Next]_vars =>
          [\A id \in DOMAIN contracts : contracts[id].state \in Settled =>
               contracts'[id] = contracts[id] /\ ledger'[id] = ledger[id]]_vars
    BY SettledStep
<1> QED BY <1>1, TypeCorrect, PTL DEF Spec, SettledForGood

-----------------------------------------------------------------------------
(* What the contract holds for each purchase.                                *)
Holdings == [id \in DOMAIN contracts |-> Held(id)]

(* The balance is what came in and has not gone out, purchase by purchase.   *)
Balanced == balance = SumFunctionOnSet(Holdings, DOMAIN contracts)

\* What the contract holds for a purchase is a number, for each of them.
LEMMA HoldingsType ==
    ASSUME TypeOK
    PROVE  /\ IsFiniteSet(DOMAIN contracts)
           /\ \A id \in DOMAIN contracts : id \in DOMAIN ledger /\ ledger[id] \in Entry
           /\ \A id \in DOMAIN contracts : Holdings[id] = Held(id) /\ Held(id) \in Int
<1>1. DOMAIN contracts = 1 .. Len(contracts) /\ Len(contracts) \in Nat
    BY DEF TypeOK
<1>2. IsFiniteSet(DOMAIN contracts)
    BY <1>1, FS_Interval
<1>3. \A id \in DOMAIN contracts : id \in DOMAIN ledger /\ ledger[id] \in Entry
    <2>1. ledger \in Seq(Entry) /\ Len(ledger) = Len(contracts)
        BY DEF TypeOK, Entry
    <2> QED BY <1>1, <2>1
<1>4. \A id \in DOMAIN contracts : Held(id) \in Int
    BY <1>3 DEF Held, Entry
<1> QED BY <1>2, <1>3, <1>4 DEF Holdings

(* One purchase changes, and the balance with it.                            *)
LEMMA OneHolding ==
    ASSUME TypeOK, TypeOK', Balanced, NEW id \in DOMAIN contracts,
           DOMAIN contracts' = DOMAIN contracts,
           \A other \in DOMAIN contracts \ {id} : ledger'[other] = ledger[other],
           balance' - balance = Held(id)' - Held(id)
    PROVE  Balanced'
<1>1. /\ IsFiniteSet(DOMAIN contracts)
      /\ \A x \in DOMAIN contracts : Holdings[x] = Held(x) /\ Held(x) \in Int
    BY HoldingsType
<1>2. \A x \in DOMAIN contracts : Holdings'[x] = Held(x)' /\ Held(x)' \in Int
    <2>1. ledger' \in Seq(Entry) /\ DOMAIN ledger' = DOMAIN contracts
        <3>1. ledger' \in Seq(Entry) /\ Len(ledger') = Len(contracts') /\ contracts' \in Seq(Purchase)
            BY DEF TypeOK, Entry
        <3> QED BY <3>1
    <2>2. \A x \in DOMAIN contracts : ledger'[x] \in Entry
        BY <2>1
    <2> QED BY <2>2 DEF Holdings, Held, Entry
<1>3. \A x \in DOMAIN contracts \ {id} : Holdings[x] = Holdings'[x]
    BY <1>1, <1>2 DEF Held
<1>4. SumFunctionOnSet(Holdings', DOMAIN contracts)
        = SumFunctionOnSet(Holdings, DOMAIN contracts) - Holdings[id] + Holdings'[id]
    <2> DEFINE S == DOMAIN contracts
    <2>1. \A x \in S : Holdings[x] \in Int /\ Holdings'[x] \in Int
        BY <1>1, <1>2
    <2> HIDE DEF S
    <2>2. IsFiniteSet(S) /\ id \in S /\ \A x \in S \ {id} : Holdings[x] = Holdings'[x]
        BY <1>1, <1>3 DEF S
    <2>3. SumFunctionOnSet(Holdings', S) = SumFunctionOnSet(Holdings, S) - Holdings[id] + Holdings'[id]
        BY <2>1, <2>2, SumUpdate
    <2> QED BY <2>3 DEF S
<1>5. balance \in Int /\ balance' \in Int
    BY DEF TypeOK
<1> QED BY <1>1, <1>2, <1>4, <1>5 DEF Balanced

\* CCD received for a purchase, or paid out for it, change the balance and its
\* holdings alike.
LEMMA MoneyBalanced ==
    ASSUME TypeOK, TypeOK', Balanced, NEW id \in DOMAIN contracts, NEW amount \in Nat,
           DOMAIN contracts' = DOMAIN contracts,
           \/ Receive(id, amount)
           \/ invoke_transfer(id, "buyer", amount)
           \/ invoke_transfer(id, "vendor", amount)
           \/ NoMoney
    PROVE  Balanced'
<1>1. id \in DOMAIN ledger /\ ledger[id] \in Entry /\ balance \in Nat
    BY HoldingsType DEF TypeOK
<1>2. \A other \in DOMAIN contracts \ {id} : ledger'[other] = ledger[other]
    BY HoldingsType DEF Receive, invoke_transfer, NoMoney
<1>3. balance' - balance = Held(id)' - Held(id)
    <2>1. CASE Receive(id, amount)
        BY <1>1, <2>1 DEF Receive, Held, Entry
    <2>2. CASE invoke_transfer(id, "buyer", amount)
        BY <1>1, <2>2 DEF invoke_transfer, Held, Entry
    <2>3. CASE invoke_transfer(id, "vendor", amount)
        BY <1>1, <2>3 DEF invoke_transfer, Held, Entry
    <2>4. CASE NoMoney
        BY <1>1, <2>4 DEF NoMoney, Held, Entry
    <2> QED BY <2>1, <2>2, <2>3, <2>4
<1> QED BY <1>2, <1>3, OneHolding

(* A request adds a purchase and its price.                                  *)
LEMMA RequestBalanced ==
    ASSUME TypeOK, TypeOK', Balanced,
           NEW sender \in Account, NEW item \in Item, NEW t \in Stamp,
           buyer_RequestPurchase(sender, item, t)
    PROVE  Balanced'
<1> DEFINE new == Len(contracts) + 1
           S == DOMAIN contracts
<1>1. /\ IsFiniteSet(S) /\ new \notin S
      /\ \A id \in S : Holdings[id] = Held(id) /\ Held(id) \in Int
    BY HoldingsType DEF TypeOK
<1>2. DOMAIN contracts' = S \cup {new}
    BY DEF TypeOK, buyer_RequestPurchase
<1>3. /\ \A id \in S : ledger'[id] = ledger[id]
      /\ ledger'[new] = [received |-> listings[item], buyer |-> 0, vendor |-> 0]
    BY DEF TypeOK, buyer_RequestPurchase
<1>4. listings[item] \in Nat
    BY CommerceAssumption DEF TypeOK
<1>5. /\ \A id \in S : Holdings'[id] = Holdings[id]
      /\ Holdings'[new] = listings[item]
    BY <1>1, <1>2, <1>3, <1>4 DEF Holdings, Held
<1>6. SumFunctionOnSet(Holdings', S \cup {new}) = SumFunctionOnSet(Holdings', S) + Holdings'[new]
    <2>1. \A id \in S \cup {new} : Holdings'[id] \in Int
        BY <1>1, <1>4, <1>5
    <2> HIDE DEF S, new
    <2> QED BY <1>1, <2>1, SumInsert
<1>7. SumFunctionOnSet(Holdings', S) = SumFunctionOnSet(Holdings, S)
    BY <1>1, <1>5, SumSame
<1>8. balance' = balance + listings[item]
    BY DEF buyer_RequestPurchase
<1> QED BY <1>2, <1>5, <1>6, <1>7, <1>8 DEF Balanced

\* Every step keeps the balance at what the purchases hold.
LEMMA BalancedStep ==
    ASSUME TypeOK, TypeOK', Balanced, [Next]_vars
    PROVE  Balanced'
<1>1. CASE \E sender \in Account, item \in Item, t \in Stamp :
              buyer_RequestPurchase(sender, item, t)
    BY <1>1, RequestBalanced
<1>2. ASSUME NEW id \in DOMAIN contracts, Handled(id) PROVE Balanced'
    <2>1. DOMAIN contracts' = DOMAIN contracts
        BY <1>2 DEF Handled, Becomes, TypeOK
    <2> QED BY <1>2, <2>1, MoneyBalanced DEF Handled
<1>3. ASSUME UNCHANGED <<contracts, balance, ledger>> PROVE Balanced'
    BY <1>3 DEF Balanced, Holdings, Held
<1> QED BY <1>1, <1>2, <1>3, StepShape DEF vars, seller_UpdateListings, Elapse

(* The balance is always what the ledger of the purchases says, also for     *)
(* listings with which a refund is skipped or pays the price of another item.*)
THEOREM LedgerBalances == Spec => []Balanced
<1>1. commerce_init => Balanced
    BY SumEmpty DEF commerce_init, Balanced
<1>2. TypeOK /\ TypeOK' /\ Balanced /\ [Next]_vars => Balanced'
    BY BalancedStep
<1> QED BY <1>1, <1>2, TypeCorrect, PTL DEF Spec

-----------------------------------------------------------------------------
(* One item: every purchase is then paid, refunded and settled at the price  *)
(* it was requested for, since the vendor reprices only before any request.  *)

\* What was paid for a purchase, and to whom it went, in each of its states.
Fair(purchase, entry, price) ==
    LET in(states) == purchase.state \in states
    IN  /\ purchase.item = 0
        /\ ~in(Settled) => entry.buyer = 0 /\ entry.vendor = 0
        /\ in({"Requested", "Accepted", "Delivered"}) => entry.received = price
        /\ in({"Dispute"}) => entry.received = 2 * price
        /\ in({"Counter"}) => entry.received = 3 * price
        /\ in({"Rejected"}) => entry.buyer = entry.received /\ entry.vendor = 0
        /\ in({"Completed"}) => /\ entry.received \in {price, 3 * price}
                                /\ entry.vendor = price /\ entry.buyer = 0
        /\ in({"Failed"}) => \/ entry.buyer = entry.received /\ entry.vendor = 0
                             \/ /\ entry.received = 3 * price
                                /\ {entry.buyer, entry.vendor} = {0, 2 * price}

AllFair == \A id \in DOMAIN contracts : Fair(contracts[id], ledger[id], listings[0])

(* No purchase is overdrawn, so the balance covers each of them, and all the *)
(* purchases of a set together.                                              *)
LEMMA HeldCovered ==
    ASSUME TypeOK, Balanced, AllFair
    PROVE  /\ \A id \in DOMAIN contracts : Held(id) \in Nat /\ Held(id) <= balance
           /\ \A ids \in SUBSET DOMAIN contracts :
                 SumFunctionOnSet(Holdings, ids) <= balance
<1> DEFINE S == DOMAIN contracts
           f == Holdings
<1>1. /\ IsFiniteSet(S)
      /\ \A id \in S : ledger[id] \in Entry /\ f[id] = Held(id)
    BY HoldingsType
<1>2. ASSUME NEW id \in S PROVE f[id] \in Nat
    <2>1. listings[0] \in Nat
        BY CommerceAssumption DEF TypeOK
    <2>2. contracts[id].state \in State
        BY PriceType DEF Purchase
    <2>3. Fair(contracts[id], ledger[id], listings[0])
        BY DEF AllFair
    <2>4. ledger[id].received - ledger[id].buyer - ledger[id].vendor >= 0
        <3> DEFINE e == ledger[id]
                   p == listings[0]
        <3>1. e.received \in Nat /\ e.buyer \in Nat /\ e.vendor \in Nat /\ p \in Nat
            BY <1>1, <2>1 DEF Entry
        <3>2. CASE {e.buyer, e.vendor} = {0, 2 * p} /\ e.received = 3 * p
            <4>1. \/ e.buyer = 0 /\ e.vendor = 2 * p
                  \/ e.vendor = 0 /\ e.buyer = 2 * p
                BY <3>1, <3>2
            <4> HIDE DEF e, p
            <4>2. e.received - e.buyer - e.vendor >= 0
                BY <3>1, <3>2, <4>1
            <4> QED BY <4>2 DEF e
        <3>3. CASE ~({e.buyer, e.vendor} = {0, 2 * p} /\ e.received = 3 * p)
            <4>1. /\ p <= 3 * p /\ p <= 2 * p
                  /\ \/ e.buyer = 0 /\ e.vendor = 0
                     \/ e.buyer = e.received /\ e.vendor = 0
                     \/ e.received \in {p, 3 * p} /\ e.vendor = p /\ e.buyer = 0
                BY <2>2, <2>3, <3>1, <3>3 DEF Fair, State, Settled
            <4> HIDE DEF e, p
            <4>2. e.received - e.buyer - e.vendor >= 0
                BY <3>1, <4>1
            <4> QED BY <4>2 DEF e
        <3> QED BY <3>2, <3>3
    <2> QED BY <1>1, <2>4 DEF Held, Entry
<1> HIDE DEF f
<1>3. ASSUME NEW T \in SUBSET S PROVE SumFunctionOnSet(f, T) <= SumFunctionOnSet(f, S)
    BY <1>1, <1>2, SumPart
<1>4. balance = SumFunctionOnSet(f, S)
    BY DEF Balanced, f
<1>5. ASSUME NEW id \in S PROVE f[id] <= balance
    <2>1. SumFunctionOnSet(f, {id}) = f[id] + SumFunctionOnSet(f, {})
        <3> DEFINE T == {id}
        <3>1. IsFiniteSet(T) /\ T \ {id} = {} /\ id \in T /\ \A y \in T : f[y] \in Int
            BY <1>2, FS_Singleton
        <3> HIDE DEF T
        <3>2. SumFunctionOnSet(f, T) = f[id] + SumFunctionOnSet(f, T \ {id})
            BY <3>1, SumRemove
        <3> QED BY <3>1, <3>2 DEF T
    <2>2. SumFunctionOnSet(f, {}) = 0
        BY SumEmpty
    <2> QED BY <1>2, <1>3, <1>4, <2>1, <2>2
<1> QED BY <1>1, <1>2, <1>3, <1>4, <1>5 DEF f

(* A transfer of no more than what is held for the purchase is carried out.  *)
LEMMA TransferMade ==
    ASSUME TypeOK, Balanced, AllFair, NEW id \in DOMAIN contracts,
           NEW role, NEW amount \in Nat, amount <= Held(id),
           invoke_transfer(id, role, amount)
    PROVE  ledger'[id] = Raised(ledger[id], role, amount)
<1>1. Held(id) \in Nat /\ Held(id) <= balance
    BY HeldCovered
<1>2. amount <= balance
    BY <1>1 DEF TypeOK
<1>3. id \in DOMAIN ledger
    BY HoldingsType
<1> QED BY <1>2, <1>3 DEF invoke_transfer, Raised

\* Raising one sum of a ledger entry leaves the two others.
LEMMA RaisedSums ==
    ASSUME NEW e \in Entry, NEW amount
    PROVE  /\ Raised(e, "received", amount).received = e.received + amount
           /\ Raised(e, "received", amount).buyer = e.buyer
           /\ Raised(e, "received", amount).vendor = e.vendor
           /\ Raised(e, "buyer", amount).buyer = e.buyer + amount
           /\ Raised(e, "buyer", amount).received = e.received
           /\ Raised(e, "buyer", amount).vendor = e.vendor
           /\ Raised(e, "vendor", amount).vendor = e.vendor + amount
           /\ Raised(e, "vendor", amount).received = e.received
           /\ Raised(e, "vendor", amount).buyer = e.buyer
BY DEF Entry, Raised

(* Every handler leaves the purchase it is called for with the right sums.   *)
LEMMA OnPurchaseFair ==
    ASSUME TypeOK, Balanced, AllFair, Item = {0},
           NEW sender \in Account, NEW id \in DOMAIN contracts, OnPurchase(sender, id)
    PROVE  Fair(contracts'[id], ledger'[id], listings[0])
<1> DEFINE c == contracts[id]
           e == ledger[id]
           p == listings[0]
<1>1. c \in Purchase /\ c.item = 0 /\ Price(id) = p /\ Fair(c, e, p)
    BY PriceType DEF AllFair, Fair, Price
<1>2. e \in Entry /\ id \in DOMAIN ledger
    BY HoldingsType
<1>3. e.received \in Nat /\ e.buyer \in Nat /\ e.vendor \in Nat /\ p \in Nat
    BY <1>1, <1>2, PriceType DEF Entry
<1>4. Held(id) = e.received - e.buyer - e.vendor
    BY DEF Held
<1>5. ASSUME NEW s \in State, To(id, s)
      PROVE  contracts'[id] = [c EXCEPT !.state = s]
    BY <1>5 DEF To, Becomes
<1>6. \A s \in State : [c EXCEPT !.state = s].state = s /\ [c EXCEPT !.state = s].item = 0
    BY <1>1 DEF Purchase
<1>7. \A s \in State : Active(id, s).state = s /\ Active(id, s).item = 0
    BY <1>1 DEF Purchase, Active
<1>8. ASSUME NEW role, NEW amount \in Nat, amount <= Held(id), invoke_transfer(id, role, amount)
      PROVE  ledger'[id] = Raised(e, role, amount)
    BY <1>8, TransferMade
<1>9. ASSUME NEW amount, Receive(id, amount)
      PROVE  ledger'[id] = Raised(e, "received", amount)
    BY <1>2, <1>9 DEF Receive, Raised
<1> USE <1>1, <1>2, <1>3, <1>4
<1>10. ASSUME NEW item \in Item, buyer_Abort(sender, id, item)
       PROVE  Fair(contracts'[id], ledger'[id], p)
    <2>1. c.state = "Requested" /\ To(id, "Failed") /\ invoke_transfer(id, "buyer", p)
        BY <1>10 DEF buyer_Abort, InState
    <2>2. contracts'[id] = [c EXCEPT !.state = "Failed"] /\ ledger'[id] = Raised(e, "buyer", p)
        BY <1>5, <1>8, <2>1 DEF Fair, Settled, State
    <2> HIDE DEF c, e, p
    <2> QED BY <1>6, <2>1, <2>2, RaisedSums DEF Fair, Settled, State
<1>11. ASSUME buyer_ConfirmDelivery(sender, id)
       PROVE  Fair(contracts'[id], ledger'[id], p)
    <2>1. c.state = "Delivered" /\ To(id, "Completed") /\ invoke_transfer(id, "vendor", p)
        BY <1>11 DEF buyer_ConfirmDelivery, InState
    <2>2. contracts'[id] = [c EXCEPT !.state = "Completed"] /\ ledger'[id] = Raised(e, "vendor", p)
        BY <1>5, <1>8, <2>1 DEF Fair, Settled, State
    <2> HIDE DEF c, e, p
    <2> QED BY <1>6, <2>1, <2>2, RaisedSums DEF Fair, Settled, State
<1>12. ASSUME NEW com \in Commitment, buyer_DisputeDelivery(sender, id, com)
       PROVE  Fair(contracts'[id], ledger'[id], p)
    <2> DEFINE q == [Active(id, "Dispute") EXCEPT !.commit = com]
    <2>1. c.state = "Delivered" /\ Becomes(id, q) /\ Receive(id, p)
        BY <1>12 DEF buyer_DisputeDelivery, InState
    <2>2. contracts'[id] = q /\ ledger'[id] = Raised(e, "received", p)
        BY <1>9, <2>1 DEF Becomes
    <2>3. q.state = "Dispute" /\ q.item = 0
        BY DEF Purchase, Active
    <2> HIDE DEF c, e, p, q
    <2> QED BY <2>1, <2>2, <2>3, RaisedSums DEF Fair, Settled, State
<1>13. ASSUME NEW b \in BOOLEAN, buyer_OpenCommitment(sender, id, b)
       PROVE  Fair(contracts'[id], ledger'[id], p)
    <2>1. /\ c.state = "Counter" /\ To(id, "Failed")
          /\ invoke_transfer(id, Winner(id, b), 2 * p)
        BY <1>13 DEF buyer_OpenCommitment, InState
    <2>2. e.received = 3 * p /\ e.buyer = 0 /\ e.vendor = 0
        BY <2>1 DEF Fair, Settled
    <2>3. 2 * p \in Nat /\ 2 * p <= Held(id)
        BY <2>2
    <2>4. /\ contracts'[id] = [c EXCEPT !.state = "Failed"]
          /\ ledger'[id] = Raised(e, Winner(id, b), 2 * p)
        BY <1>5, <1>8, <2>1, <2>3 DEF State
    <2> HIDE DEF c, e, p
    <2>5. {ledger'[id].buyer, ledger'[id].vendor} = {0, 2 * p} /\ ledger'[id].received = 3 * p
        <3>1. CASE Winner(id, b) = "buyer"
            BY <2>2, <2>4, <3>1, RaisedSums
        <3>2. CASE Winner(id, b) = "vendor"
            BY <2>2, <2>4, <3>2, RaisedSums
        <3> QED BY <3>1, <3>2 DEF Winner
    <2> QED BY <1>6, <2>4, <2>5 DEF Fair, Settled, State
<1>14. ASSUME buyer_CallTimeout(sender, id)
       PROVE  Fair(contracts'[id], ledger'[id], p)
    <2>1. /\ c.state \in {"Dispute", "Accepted"} /\ To(id, "Failed")
          /\ invoke_transfer(id, "buyer", IF c.state = "Dispute" THEN 2 * p ELSE p)
        BY <1>14 DEF buyer_CallTimeout, BuyerMayTimeout, InState, Payback
    <2>2. e.received = (IF c.state = "Dispute" THEN 2 * p ELSE p) /\ e.buyer = 0 /\ e.vendor = 0
        BY <2>1 DEF Fair, Settled
    <2>3. /\ contracts'[id] = [c EXCEPT !.state = "Failed"]
          /\ ledger'[id] = Raised(e, "buyer", e.received)
        BY <1>5, <1>8, <2>1, <2>2 DEF State
    <2> HIDE DEF c, e, p
    <2> QED BY <1>6, <2>2, <2>3, RaisedSums DEF Fair, Settled, State
<1>15. ASSUME seller_CallTimeout(sender, id)
       PROVE  Fair(contracts'[id], ledger'[id], p)
    <2>1. /\ c.state \in {"Delivered", "Counter"} /\ To(id, "Completed")
          /\ invoke_transfer(id, "vendor", p)
        BY <1>15 DEF seller_CallTimeout, VendorMayTimeout, InState
    <2>2. e.received \in {p, 3 * p} /\ e.buyer = 0 /\ e.vendor = 0
        BY <2>1 DEF Fair, Settled
    <2>3. contracts'[id] = [c EXCEPT !.state = "Completed"] /\ ledger'[id] = Raised(e, "vendor", p)
        BY <1>5, <1>8, <2>1, <2>2 DEF State
    <2> HIDE DEF c, e, p
    <2> QED BY <1>6, <2>2, <2>3, RaisedSums DEF Fair, Settled, State
<1>16. ASSUME seller_RejectContract(sender, id)
       PROVE  Fair(contracts'[id], ledger'[id], p)
    <2>1. c.state = "Requested" /\ To(id, "Rejected") /\ invoke_transfer(id, "buyer", p)
        BY <1>16 DEF seller_RejectContract, Rejectable, InState
    <2>2. contracts'[id] = [c EXCEPT !.state = "Rejected"] /\ ledger'[id] = Raised(e, "buyer", p)
        BY <1>5, <1>8, <2>1 DEF Fair, Settled, State
    <2> HIDE DEF c, e, p
    <2> QED BY <1>6, <2>1, <2>2, RaisedSums DEF Fair, Settled, State
<1>17. ASSUME seller_AcceptContract(sender, id)
       PROVE  Fair(contracts'[id], ledger'[id], p)
    <2>1. c.state = "Requested" /\ contracts'[id] = Active(id, "Accepted") /\ ledger'[id] = e
        BY <1>17 DEF seller_AcceptContract, InState, Becomes, NoMoney
    <2> HIDE DEF c, e, p
    <2> QED BY <1>7, <2>1 DEF Fair, Settled, State
<1>18. ASSUME seller_ItemWasDelivered(sender, id)
       PROVE  Fair(contracts'[id], ledger'[id], p)
    <2>1. c.state = "Accepted" /\ contracts'[id] = Active(id, "Delivered") /\ ledger'[id] = e
        BY <1>18 DEF seller_ItemWasDelivered, InState, Becomes, NoMoney
    <2> HIDE DEF c, e, p
    <2> QED BY <1>7, <2>1 DEF Fair, Settled, State
<1>19. ASSUME seller_ForfeitDispute(sender, id)
       PROVE  Fair(contracts'[id], ledger'[id], p)
    <2>1. c.state = "Dispute" /\ To(id, "Failed") /\ invoke_transfer(id, "buyer", 2 * p)
        BY <1>19 DEF seller_ForfeitDispute, InState
    <2>2. contracts'[id] = [c EXCEPT !.state = "Failed"] /\ ledger'[id] = Raised(e, "buyer", 2 * p)
        BY <1>5, <1>8, <2>1 DEF Fair, Settled, State
    <2> HIDE DEF c, e, p
    <2> QED BY <1>6, <2>1, <2>2, RaisedSums DEF Fair, Settled, State
<1>20. ASSUME NEW b \in BOOLEAN, seller_CounterDispute(sender, id, b)
       PROVE  Fair(contracts'[id], ledger'[id], p)
    <2> DEFINE q == [Active(id, "Counter") EXCEPT !.seller_bit = b]
    <2>1. c.state = "Dispute" /\ Becomes(id, q) /\ Receive(id, p)
        BY <1>20 DEF seller_CounterDispute, InState
    <2>2. contracts'[id] = q /\ ledger'[id] = Raised(e, "received", p)
        BY <1>9, <2>1 DEF Becomes
    <2>3. q.state = "Counter" /\ q.item = 0
        BY DEF Purchase, Active
    <2>4. e.received = 2 * p /\ e.buyer = 0 /\ e.vendor = 0
        BY <2>1 DEF Fair, Settled
    <2>5. /\ ledger'[id].received = 3 * p
          /\ ledger'[id].buyer = 0 /\ ledger'[id].vendor = 0
        BY <2>2, <2>4, RaisedSums
    <2> HIDE DEF c, e, p, q
    <2> QED BY <2>2, <2>3, <2>5 DEF Fair, Settled, State
<1> QED BY <1>10, <1>11, <1>12, <1>13, <1>14, <1>15, <1>16, <1>17, <1>18, <1>19, <1>20
        DEF OnPurchase, Timeouts

(* The other purchases are left alone, a request opens a fair one, and an    *)
(* item is repriced while there is no purchase.                              *)
LEMMA FairStep ==
    ASSUME TypeOK, Balanced, AllFair, Item = {0}, [Next]_vars
    PROVE  AllFair'
<1>1. CASE \E sender \in Account, item \in Item, t \in Stamp :
              buyer_RequestPurchase(sender, item, t)
    <2>1. PICK sender \in Account, item \in Item, t \in Stamp :
              buyer_RequestPurchase(sender, item, t)
        BY <1>1
    <2>2. item = 0 /\ listings' = listings /\ listings[0] \in Nat
        BY <2>1, CommerceAssumption DEF TypeOK, buyer_RequestPurchase
    <2> DEFINE new == Len(contracts) + 1
    <2>3. contracts \in Seq(Purchase) /\ ledger \in Seq(Entry) /\ Len(ledger) = Len(contracts)
        BY DEF TypeOK, Entry
    <2>4. DOMAIN contracts' = DOMAIN contracts \cup {new}
        BY <2>1, <2>3 DEF buyer_RequestPurchase
    <2>5. ASSUME NEW id \in DOMAIN contracts
          PROVE  contracts'[id] = contracts[id] /\ ledger'[id] = ledger[id]
        BY <2>1, <2>3 DEF buyer_RequestPurchase
    <2>6. /\ contracts'[new].item = 0 /\ contracts'[new].state = "Requested"
          /\ ledger'[new].received = listings[0]
          /\ ledger'[new].buyer = 0 /\ ledger'[new].vendor = 0
        BY <2>1, <2>2, <2>3 DEF buyer_RequestPurchase, ItemStored
    <2> HIDE DEF new
    <2>7. Fair(contracts'[new], ledger'[new], listings[0])
        BY <2>6 DEF Fair, Settled
    <2> QED BY <2>2, <2>4, <2>5, <2>7 DEF AllFair
<1>2. CASE \E sender \in Account, item \in Item, value \in Value :
              seller_UpdateListings(sender, item, value)
    <2>1. contracts' = contracts /\ DOMAIN contracts = {}
        BY <1>2 DEF TypeOK, seller_UpdateListings, MayReprice
    <2> QED BY <2>1 DEF AllFair
<1>3. ASSUME NEW sender \in Account, NEW id \in DOMAIN contracts, OnPurchase(sender, id)
      PROVE  AllFair'
    <2>1. Handled(id)
        BY <1>3, HandlerShape
    <2>2. DOMAIN contracts' = DOMAIN contracts /\ listings' = listings
        BY <2>1 DEF Handled, Becomes, TypeOK
    <2>3. \A other \in DOMAIN contracts : other \in DOMAIN ledger
        BY HoldingsType
    <2>4. ASSUME NEW other \in DOMAIN contracts \ {id}
          PROVE  contracts'[other] = contracts[other] /\ ledger'[other] = ledger[other]
        <3>1. contracts'[other] = contracts[other]
            BY <2>1 DEF Handled, Becomes
        <3>2. ledger'[other] = ledger[other]
            BY <2>1, <2>3 DEF Handled, Receive, invoke_transfer, NoMoney
        <3> QED BY <3>1, <3>2
    <2>5. Fair(contracts'[id], ledger'[id], listings[0])
        BY <1>3, OnPurchaseFair
    <2> QED BY <2>2, <2>4, <2>5 DEF AllFair
<1>4. CASE UNCHANGED <<contracts, listings, ledger>>
    BY <1>4 DEF AllFair
<1> QED BY <1>1, <1>2, <1>3, <1>4 DEF Next, OnPurchase, Elapse, vars

(* What the sums of a purchase say about its stakes and its shares.          *)
LEMMA FairStakes ==
    ASSUME TypeOK, Balanced, AllFair
    PROVE  StakesHeld /\ FairShares
<1> DEFINE open == {id \in DOMAIN contracts : contracts[id].state \notin Settled}
<1>1. ASSUME NEW id \in DOMAIN contracts
      PROVE  /\ Fair(contracts[id], ledger[id], Price(id))
             /\ contracts[id].state \in State /\ Price(id) \in Nat
             /\ ledger[id] \in Entry
    BY PriceType, HoldingsType DEF AllFair, Fair, Price, Purchase
<1>2. ASSUME NEW id \in open
      PROVE  Held(id) = Stakes[contracts[id].state] * Price(id)
    <2> DEFINE s == contracts[id].state
    <2>1. /\ s = "Dispute" => Stakes[s] = 2
          /\ s = "Counter" => Stakes[s] = 3
          /\ s \in {"Requested", "Accepted", "Delivered"} => Stakes[s] = 1
        BY DEF Stakes, State, Settled
    <2> QED BY <1>1, <2>1 DEF Held, Fair, State, Settled, Entry
<1>3. SumFunction([id \in open |-> Held(id)]) <= balance
    <2> DEFINE g == [id \in open |-> Held(id)]
    <2>1. IsFiniteSet(open) /\ \A id \in open : g[id] = Holdings[id]
        BY HoldingsType, FS_Subset
    <2>2. DOMAIN g = open /\ open \in SUBSET DOMAIN contracts
        OBVIOUS
    <2>3. SumFunction(g) = SumFunctionOnSet(g, open)
        BY <2>2 DEF SumFunction, FoldFunction, SumFunctionOnSet
    <2> HIDE DEF g, open
    <2>4. SumFunctionOnSet(g, open) = SumFunctionOnSet(Holdings, open)
        BY <2>1, SumSame
    <2> QED BY <2>2, <2>3, <2>4, HeldCovered DEF g
<1>4. StakesHeld
    BY <1>2, <1>3 DEF StakesHeld
<1>5. FairShares
    <2> SUFFICES ASSUME NEW id \in DOMAIN contracts
                 PROVE  /\ 0 \in {ledger[id].buyer, ledger[id].vendor}
                        /\ contracts[id].state \notin Settled =>
                              ledger[id].buyer = 0 /\ ledger[id].vendor = 0
                        /\ contracts[id].state \in Settled /\ ~Countered(id) =>
                              IF contracts[id].state = "Completed"
                              THEN ledger[id].vendor = ledger[id].received
                              ELSE ledger[id].buyer = ledger[id].received
        BY DEF FairShares
    <2> QED BY <1>1 DEF Fair, State, Settled, Countered, Entry
<1> QED BY <1>4, <1>5

(* Every purchase of a contract with one item is fair, in every state.       *)
THEOREM PurchasesFair == Item = {0} => (Spec => []AllFair)
<1> SUFFICES ASSUME Item = {0} PROVE Spec => []AllFair
    OBVIOUS
<1>1. commerce_init => AllFair
    BY DEF commerce_init, AllFair
<1>2. TypeOK /\ Balanced /\ AllFair /\ [Next]_vars => AllFair'
    BY FairStep
<1> QED BY <1>1, <1>2, TypeCorrect, LedgerBalances, PTL DEF Spec

(* With one item, of whatever price and in whatever currency unit, an open   *)
(* purchase has its price deposited once, twice in a dispute and three times *)
(* after a counter, and the balance covers all of them.                      *)
THEOREM StakesAreHeld == Item = {0} => (Spec => []StakesHeld)
<1> SUFFICES ASSUME Item = {0} PROVE Spec => []StakesHeld
    OBVIOUS
<1> QED BY FairStakes, PurchasesFair, TypeCorrect, LedgerBalances, PTL

(* With one item no purchase ever pays both sides, and one that is settled   *)
(* without a counter has paid out all it received, to the side it belongs to.*)
THEOREM SharesAreFair == Item = {0} => (Spec => []FairShares)
<1> SUFFICES ASSUME Item = {0} PROVE Spec => []FairShares
    OBVIOUS
<1> QED BY FairStakes, PurchasesFair, TypeCorrect, LedgerBalances, PTL

=============================================================================
