------------------------------ MODULE Deployed ------------------------------
(***************************************************************************)
(* The example contracts on the chain, one of them deployed per behaviour. *)
(* The small ones are called more often, the recorder to a greater depth.  *)
(***************************************************************************)
EXTENDS Naturals, Sequences

CONSTANTS
  Accounts, Contracts, Self, Owner, Nobody,      \* as in Host
  MaxDepth, MaxCalls, MaxBatch, MaxUpdates,
  Services,    \* the contracts a relaying contract may be told to use
  Tokens,      \* the ids of the NFTs
  Kinds,       \* the ids of the multi token contract
  KindW,       \* its amounts are natural numbers below KindW
  MaxCCD,      \* the micro CCD there are
  Aligned,     \* as in Cis1Wccd
  Holders, Threshold, TimeToLive, LastTime, W,   \* as in TwoStepTransfer
  Expiry, MaxBid, MaxTime,                       \* as in HostedAuction
  MaxN, FibW                                     \* as in Fibonacci

VARIABLES deployed, state, self_balance, stack, calls, outcome

Multi == INSTANCE Cis1Multi WITH Tokens <- Kinds, W <- KindW
Nft == INSTANCE Cis1Nft
Single == INSTANCE Cis1SingleNft
Wccd == INSTANCE Cis1Wccd
Erc == INSTANCE Erc721
TwoStep == INSTANCE TwoStepTransfer WITH
  MaxCalls <- MaxCalls + 1, MaxTime <- LastTime, Ids <- Tokens
Relay == INSTANCE Relays WITH Contracts <- Services
Piggy == INSTANCE PiggyBank WITH MaxCalls <- MaxCalls + 1
List == INSTANCE Listing WITH MaxCalls <- MaxCalls + 1
Rec == INSTANCE Recorder WITH MaxCalls <- MaxCalls + 1, MaxDepth <- MaxDepth + 1
Fib == INSTANCE Fibonacci WITH W <- FibW
Sale == INSTANCE HostedAuction WITH MaxCalls <- MaxCalls + 2

ASSUME Deployable ==
  /\ Multi!HostAssumption /\ Relay!HostAssumption
  /\ Multi!MultiAssumption /\ Wccd!WccdAssumption
  /\ TwoStep!TwoStepAssumption /\ Fib!FibonacciAssumption /\ Sale!HostedAuctionAssumption

vars == <<deployed, state, self_balance, stack, calls, outcome>>

Init ==
  \/ deployed = "multi" /\ Multi!Init
  \/ deployed = "nft" /\ Nft!Init
  \/ deployed = "single" /\ Single!Init
  \/ deployed = "wccd" /\ Wccd!Init
  \/ deployed = "erc721" /\ Erc!Init
  \/ deployed = "two-step-transfer" /\ TwoStep!contract_init
  \/ deployed = "memo" /\ Relay!MemoInit
  \/ deployed = "proxy" /\ Relay!ProxyInit
  \/ deployed = "icecream" /\ Relay!IcecreamInit
  \/ deployed = "weather" /\ Relay!WeatherInit
  \/ deployed = "piggy" /\ Piggy!piggy_init
  \/ deployed = "listing" /\ List!contract_init
  \/ deployed = "recorder" /\ Rec!RecorderInit
  \/ deployed = "counter-notify" /\ Rec!CounterInit
  \/ deployed \in {"fibonacci", "fib"} /\ Fib!Init /\ self_balance = 0
  \/ deployed = "auction" /\ Sale!auction_init

Next ==
  /\ UNCHANGED deployed
  /\ \/ deployed = "multi" /\ Multi!Next
     \/ deployed = "nft" /\ Nft!Next
     \/ deployed = "single" /\ Single!Next
     \/ deployed = "wccd" /\ Wccd!Next
     \/ deployed = "erc721" /\ Erc!Next
     \/ deployed = "two-step-transfer" /\ TwoStep!Next
     \/ deployed = "memo" /\ Relay!MemoNext
     \/ deployed = "proxy" /\ Relay!ProxyNext
     \/ deployed = "icecream" /\ Relay!IcecreamNext
     \/ deployed = "weather" /\ Relay!WeatherNext
     \/ deployed = "piggy" /\ Piggy!Next
     \/ deployed = "listing" /\ List!Next
     \/ deployed = "recorder" /\ Rec!RecorderNext
     \/ deployed = "counter-notify" /\ Rec!CounterNext
     \/ deployed = "fibonacci" /\ Fib!RecursiveNext /\ UNCHANGED self_balance
     \/ deployed = "fib" /\ Fib!ChainNext /\ UNCHANGED self_balance
     \/ deployed = "auction" /\ Sale!Next

Spec == Init /\ [][Next]_vars

TypeOK ==
  /\ deployed = "multi" => Multi!TypeOK
  /\ deployed = "nft" => Nft!TypeOK
  /\ deployed = "single" => Single!TypeOK
  /\ deployed = "wccd" => Wccd!TypeOK
  /\ deployed = "erc721" => Erc!TypeOK
  /\ deployed = "two-step-transfer" => TwoStep!TypeOK
  /\ deployed \in {"memo", "proxy", "icecream", "weather"} => Relay!TypeOK
  /\ deployed = "piggy" => Piggy!TypeOK
  /\ deployed = "listing" => List!TypeOK
  /\ deployed = "recorder" => Rec!RecorderTypeOK
  /\ deployed = "counter-notify" => Rec!CounterTypeOK

\* The multi token contract creates tokens by minting only and loses none, and
\* the wrapped CCD are the CCD the contract holds, in callbacks too.
SupplyKept ==
  /\ deployed = "multi" => Multi!SupplyKept
  /\ deployed = "wccd" => Wccd!Backed

\* Each minted NFT has one holder.
UniqueHolder == deployed = "nft" => Nft!UniqueHolder

\* An ERC721 approval never outlives the ownership it was given under.
ApprovalsCurrent == deployed = "erc721" => Erc!ApprovalsCurrent

\* Whatever contract is deployed, tokens leave a holder with the consent of
\* the holder or of someone the holder trusted with them, or not at all.
Consent ==
  [][ /\ deployed = "multi" => Multi!HolderConsents
      /\ deployed = "nft" => Nft!HolderConsents
      /\ deployed = "single" => Single!HolderConsents
      /\ deployed = "wccd" => Wccd!HolderConsents
      /\ deployed = "erc721" => Erc!OwnerConsents ]_vars

\* The contracts that forward CCD, the listing contract and a smashed piggy
\* bank hold nothing between transactions.
NothingKept ==
  /\ deployed \in {"memo", "proxy", "icecream", "weather"} => Relay!NothingKept
  /\ deployed = "listing" => List!NothingKept
  /\ deployed = "piggy" => Piggy!SmashedIsEmpty

\* Two-step transfer: CCD leave only as enough holders have asked, each once.
PaidAsAgreed == [][deployed = "two-step-transfer" => TwoStep!PaidAsAgreed]_vars

\* Both Fibonacci contracts compute Fibonacci numbers, call by call.
FibAddsUp ==
  /\ deployed = "fibonacci" => Fib!LeavesAddUp
  /\ deployed = "fib" => Fib!CallsAddUp

NoBids ==
  [ auction_state |-> Nobody, highest_bid |-> 0, bidders |-> {},
    bids |-> [a \in Accounts |-> 0], paid |-> [a \in Accounts |-> 0], now |-> 0 ]

Stored == IF deployed = "auction" THEN Sale!Stored ELSE NoBids

Sold == INSTANCE Auction WITH
  Account <- Accounts,
  auction_state <- Stored.auction_state, highest_bid <- Stored.highest_bid,
  bidders <- Stored.bidders, bids <- Stored.bids, paid <- Stored.paid,
  now <- Stored.now,
  balance <- IF deployed = "auction" THEN Sale!StoredBalance ELSE 0

\* The auction that pays step by step does what the one-step auction does.
ImplementsAuction == Sold!Spec

\* Two-step transfer: the open requests can all be paid.
RequestsCovered == deployed = "two-step-transfer" => TwoStep!RequestsCovered
=============================================================================
