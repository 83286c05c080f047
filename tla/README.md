# TLA+ models and proofs of the smart contracts and their libraries

This directory models the smart contracts of the repository and the libraries
they stand on (the Concordium SDK with its example contracts, and the Merkle
tree), model-checks them on small instances with TLC, and proves the properties
that matter most with TLAPS for every value of the constants.  The repository
tests these contracts with unit tests and with QuickCheck over random orders of
calls; the models explore every order of calls, timeouts, calls back and
failures of an instance, and the proofs every instance.

## 1. Inventory

| Part | Source | State it keeps | Operations |
|---|---|---|---|
| voting contract | `open-vote-network/voting/src/lib.rs`, `types.rs` | configuration, phase, result, map of voters (key, key proof, commitment, reconstructed key, ballot, ballot proof), balance | `setup`, `register`, `commit`, `vote`, `result`, `change_phase` with `refund_deposits` |
| verification | `open-vote-network/voting/src/crypto.rs`, `util/src/lib.rs` | none | Schnorr and one-in-two proofs, commitment, Merkle proof, tally; bytes to scalars and points |
| off-chain crate | `open-vote-network/off-chain/src/` | secrets and choices of the voters (in files of messages) | key pairs, proofs, reconstructed keys, commitments, ballots, Merkle tree |
| auction contract | `Auction/src/lib.rs` | auction state, highest bid, map of bids, expiry, balance | `init`, `bid`, `finalize` |
| commerce contract | `Commerce/src/lib.rs` (and the copy `commerce.rs`) | vendor, timeout, purchases, listings, balance | six calls of the buyer, six of the vendor, `seller_UpdateListings` |
| fibonacci contracts | `Fibonacci/src/lib.rs`, `examples/fib/src/lib.rs` | one number | `receive` (recursive), `receive_calc_fib`; `receive` through the chain |
| piggy banks | `Piggybank/src/lib.rs`, `examples/piggy-bank/part1`, `part2` | intact or smashed, balance | `insert`, `smash` |
| token contracts | `examples/cis1-multi`, `cis1-nft`, `cis1-single-nft`, `cis1-wccd`, `erc721` | tokens of each address, operators, approvals | `mint`, `transfer`, `updateOperator`, queries; `wrap`, `unwrap`; `transferFrom`, `safeTransferFrom`, `approve`, `setApprovalForAll`, `onERC721Received` |
| other example contracts | `examples/memo`, `proxy`, `icecream`, `listing`, `two-step-transfer`, `recorder`, `counter-notify`, `auction` | owner, target, listings, open requests, addresses, counter, bids | their receive functions |
| contract host | `concordium-std-derive/src/lib.rs` (the generated wrappers), `concordium-std/src/impls.rs` | activations of an instance, its committed and its loaded state | enter, `invoke_transfer`, `invoke_contract`, commit and refresh of the state, return, reject |
| state API | `concordium-std/src/test_infrastructure/trie.rs`, `test_infrastructure.rs` | trie of entries, handles, iterators and their locks, cursors | create, lookup, delete, delete prefix, iterate; read, write, seek, resize |
| state collections | `concordium-std/src/impls.rs`, `types.rs` | maps, sets, boxes at prefixes; references with cached values | `insert`, `get_mut`, `remove`, `clear`, the entry API, `delete`, `replace`, ... |
| test host | `concordium-std/src/test_infrastructure.rs` | balance, state root, transfers and mocks of a unit test | `invoke_transfer`, `invoke_contract_raw`, its read-only form |
| serialization | `concordium-contracts-common/src/impls.rs`, `traits.rs` | none | `Serial` and `Deserial` of collections, texts and sums |
| Merkle tree | `open-vote-network/rs-merkle/src/` | current and historical trees, uncommitted leaves | insert, append, commit, rollback, proofs |
| property tests | `voting/src/property.rs`, `tests.rs`, test modules of the others | maps of expected transfers | random orders of calls |
| common types | `concordium-contracts-common/src/types.rs` | none | amounts and durations read from text and printed, names of contracts and entrypoints, times |
| SDK, the rest | `schema.rs`, `prims.rs`, `concordium-cis1/src/lib.rs` | none | schemas, message types, declarations of host functions |
| multi-assert | `Other/Multi_assert.rs` | list of comparisons | test helper |

`examples/` and the `concordium-...` crates are under
`src/concordium-rust-smart-contracts-new-contract-state/`.

**How the parts interact.**  A contract is called by accounts, one transaction
at a time.  A handler reads the slot time and the sender, may change the state
and call `invoke_transfer`.  In the voting and auction contracts a failed
transfer returns `Err`, and the chain undoes the whole call; the commerce
contract ignores the result of every transfer, so the rest of the call stays.
The contracts written for the newer chain invoke other contracts in the middle
of a handler; such a contract may call the instance back before it answers, and
a rejection at any depth undoes what its activation did.  They keep their state
in the collections of the SDK, which are entries of a trie that the node holds;
the root is read into memory at the start of a call, written out before a call
to another contract and at the end, and read anew if it was changed meanwhile.
Unit tests replace the node by a test host and a trie of the SDK's own.
The off-chain crate makes the arguments of the voting contract's calls: each
voter reads all voting keys from the contract before making the next message.

**What is hard.**  Nothing runs in parallel, so the hazards are in the order of
calls of several parties, their nesting and their failures:

* *phases and timeouts* (voting): `change_phase` races the last `register`,
  `commit` or `vote` of a phase; a phase ends in two places, inside the last
  voter's call and in `change_phase`, with different checks;
* *money over several calls* (voting, commerce): deposits and stakes come in
  with one call and leave with another; what is owed depends on the path taken;
* *partial failure*: one transfer of several fails (voting and auction, where
  everything is undone and may never succeed), or fails unnoticed (commerce);
* *stale data*: a stored highest bid beside the map of bids, a commitment that
  may be overwritten, a price read anew at each call;
* *arithmetic of the roll* (off-chain crate): keys before and after a voter's
  position, with early returns at both ends, when some voters never registered;
* *ends of ranges*: ties, the expiry time itself, gaps of the roll, wrapping u64;
* *calls back*: a token contract tells a receiver in the middle of a batch, a
  payment hands control to a contract, and what follows must not rely on what
  was read before;
* *copies of the state*: values cached in boxes and references, the root in
  memory and the root at the node, handles whose entry was deleted;
* *code written twice*: the state API and the host exist once for the chain and
  once for unit tests, readers and writers of collections exist for each type.

**What makes each part correct.**

* voting: until an abort the balance is the deposits of those who have not
  voted; nobody is paid twice; ballots are opened only when the whole roll is
  sealed; the result is final; an abort pays contributors and no staller;
* crypto and election: keys cancel, honest voters are accepted, the result
  counts their choices;
* auction: one leader, all bids in escrow, one winner and everyone else repaid;
* commerce: the stakes of an open purchase are held, a settled purchase is paid
  to one side, once, and stays settled; a purchase is settled in the end, unless
  the wrap-around of its timestamp keeps the timeout from passing;
* fibonacci: `receive` adds F(n), and the recursion through the chain never
  finds a result other than the one it was told; piggy bank: no coin after the
  hammer;
* token contracts: supply is what was minted, a token has one holder and leaves
  it with consent, an approval ends with the ownership it was given under;
* relays: nothing stays behind; two-step transfer: CCD leave as agreed;
* contract host: a call sees what was assigned before it;
* state API and collections: an iterator gives out its subtree, a value is the
  one stored last, no entry is orphaned or shared;
* test host: a test sees what the chain will do;
* serialization and common types: what was written is read back, and nothing else
  is read;
* Merkle tree: a proof verifies exactly for leaves of the committed tree,
  rollback restores the previous commit.

## 2. Modules

| Module | Role |
|---|---|
| `Voting` | the voting contract, one action per receive function and the clock |
| `SealedBallot` | abstract specification: enrol, seal, open, count |
| `VotingRefinement` | the refinement mapping from `Voting` to `SealedBallot` |
| `OpenVoteCrypto` | the protocol's arithmetic, off-chain and on-chain |
| `Election` | honest voters who use the crate, composed with an instance of `Voting` |
| `Auction` | the auction contract |
| `Commerce` | the commerce contract |
| `Host` | the chain around one instance: activations, payments, invocations, calls back, rejections |
| `Cis1Multi`, `Cis1Nft`, `Cis1SingleNft`, `Cis1Wccd`, `Erc721` | the token contracts, on `Host` |
| `Relays`, `PiggyBank`, `Listing`, `TwoStepTransfer`, `Recorder` | memo, proxy, icecream and weather; the three piggy banks; listing; two-step transfer; recorder and counter-notify, on `Host` |
| `HostedAuction` | the auction of the newer chain, payment by payment, which implements `Auction` |
| `Fibonacci` | both Fibonacci contracts |
| `Trie` | the state API: entries, handles, iterators and locks |
| `Entries` | the cursor of a state entry on the chain and in unit tests, side by side |
| `MapEntry` | one key of a map and every way to its value |
| `StateBuilder` | nested maps, sets and boxes, and who owns what |
| `ExternHost` | an instance's state between memory and the node |
| `TestHost` | a contract under a unit test and on the chain, side by side |
| `Merkle` | the Merkle tree |
| `Serialization` | readers and writers of collections, texts and sums |
| `CommonTypes` | amounts and durations as text, names, times |
| `Lists` | the few operators on sequences that the modules of `Deployed` and `Libraries` use |
| `Deployed` | the example contracts, one deployed per behaviour, for any parameters |
| `Libraries` | the libraries, one at work per behaviour, for any parameters |
| `VotingProofs`, `AuctionProofs`, `CommerceProofs`, `DeployedProofs` | theorems on the contracts |
| `DataProofs` | theorems on `Libraries`: the Merkle tree; and the invariant of the common types |
| `LibraryProofs` | theorems on `Libraries`, after `DataProofs`: the host of the chain and that of unit tests, entries, values of maps, the trie and its iterators, nested collections, the readers and writers, and all types and bounds |
| `ElectionProofs` | theorems on `Election`: proofs that verify, keys that cancel, the result |
| `SumProofs` | lemmas on sums over finite sets, division, digits and recursion over the natural numbers, for the other proofs |
| `MCVoting`, `MCElection`, `MCAuction`, `MCCommerce`, `MCContracts`, `MCLibraries` | values for TLC |

`Lists` has the operators of `SequencesExt` and of `Vec` that are needed and no more.
The libraries and contracts are instances, and what an instance extends is copied into
every obligation about it; with all of `SequencesExt` the provers do not get through.

Names of actions, helpers and variables are those of the code.  Names ending in
a suffix such as `AllVoted_wrongField` are slips of the definition they are
named after; nothing of the models uses them.  They show that a property would
notice: with the slip in place of the definition, TLC finds the property
violated.  Each stands beside the definition it is a slip of.

### Voting

* One step is one transaction that succeeds.  A handler that returns `Err` or
  traps leaves everything as it was and is no step, which is how the chain
  undoes it.  So the order in which `vote` marks the ballot, moves the phase and
  transfers the deposit does not show, except that a transfer the balance does
  not cover disables the action.
* `voters` is the key set of the map; each field of `Voter` is a function of the
  account with `NoBytes` for the empty vector.  The proofs stored with a voter
  are never read again and are left out.
* Bytes are abstract: those in `Point` parse as curve points, those in `Garbage`
  do not.  `commit` stores a key without parsing it, so a voter may bind itself
  to a key with which it can never vote.  The proof checks, the hash and the
  tally are operators that an instance supplies.
* A Merkle proof that verifies is membership in `Eligible`; `LeafCount` is
  separate, because `setup` does not tie `merkle_leaf_count` to the root.
* `refund_deposits` is part of `change_phase`.  It pays a reward and then every
  honest voter; one `?` after each transfer means all or none, so the model pays
  the sum if the balance covers it.
* `Tick` is the slot time; it is read by the guards only.
* Contracts as senders are rejected by every handler and are no steps.

### SealedBallot and VotingRefinement

The abstract ballot knows a roll, seals, ballots, an outcome and a round.  The
roll closes once; a seal may be replaced while some are missing; the round moves
on with the last seal and the last ballot; the outcome is a function of the
ballots of the whole roll; the election may be given up before the count.  The
mapping reads the round off the phase and takes the other variables as they are.
Deposits, proofs, keys and clock are invisible, and their calls stutter.

### OpenVoteCrypto and Election

A point g^n is its exponent n modulo the prime order q, so the module is the
arithmetic the proofs rest on, line by line: challenges, responses, the two
branches of the one-in-two proof, the three returns of
`compute_reconstructed_key`, and the search of the tally.  The identity and the
scalar 0 do not survive a trip through bytes; reading them traps
(`Parses`, `Readable`).  The hash to a scalar is a parameter; SHA-256 as a
commitment is free of collisions.

`Election` gives every account a secret (distinct, not 0) and a choice, and lets
it call the contract with what the crate computes from the keys on the roll.
`main.rs` votes yes for everyone and writes all messages at once; the model
takes either choice and lets each voter stop at any time, which is what the
crate offers.  Secrets and nonces range over small sets, which says nothing
about secrecy: no property here is about what an observer can learn.

### Auction

`bids` and `bidders` are the map; `paid` records the transfers.  `finalize`
pays the owner, then each account below the highest bid, and fails if not
exactly one account remains, if that one does not hold the highest bid or if
the balance does not cover a transfer.  The owner may bid.  A `finalize` of an
auction without bids succeeds and changes nothing, although the comment at
line 24 says "The auction can be finalized only once": it is a stutter.

### Commerce

* A purchase is a record with the fields of `Purchase` except the notes.  Every
  handler names its guard states, and the state and timestamp it writes.
* `item` is stored as 0 whatever was bought, as in the code, and every later
  price is read through it.  `buyer_Abort` refunds the item its caller names.
* `invoke_transfer` beyond the balance is skipped and the call goes on.
* The timeout check compares the stored timestamp plus ten with itself plus the
  timeout, both modulo the width of u64; no handler reads the slot time.
* No entry point adds a listing, so a contract on the chain has none and sells
  nothing; the tests insert one into the state, and `FirstListing` does the same.
* `ledger` (what came in for a purchase, what went to which side) and `stalled`
  (purchases left alone for longer than any timeout) are history the properties
  read.  No handler does.

### Host and the example contracts

* `stack` holds the activations of the instance, each with the caller, the entry
  point, what is left of the parameter and what a rejection restores.  `Enter`
  is the generated wrapper, `Continue` a stretch of a handler up to the next
  payment or invocation, `Finish` and `Reject` its ends.
* Other contracts are free: while the instance waits for one, that contract may
  call any entry point, with any parameter, as deep as `MaxDepth`, and then
  answer or reject.  Every entry point modelled passes a rejection on.
* A parameter that is a list is read element by element, as the code does, so
  its elements are chosen as they are consumed; `left` counts those to come.
* The token contracts keep their `AddressState` as functions of the address.
  Logged events are left out.  Invocations of the instance by itself go to the
  entry points that accept them, `view` or the receive hook, in one step.
  A single NFT's transfer to a contract sends as many micro CCD as tokens, which
  the code does by passing the token amount where CCD are expected
  (`examples/cis1-single-nft/src/lib.rs`); it fails unless the instance has some.
* The wCCD contract may name itself as the receiver.  CCD unwrapped to its own
  `wrap` are wrapped again for whoever the message names (`Rewrap`); unwrapped to
  its own `unwrap`, the inner call has the instance as its sender, which may do
  what the instance may: unwrap its own tokens and those of whoever made it an
  operator (`MayAsSelf`).
* The two-step transfer contract may be created with CCD, as its `init` is payable.
* `Cis1Wccd` keeps what it holds and what it minted apart, so that a payment
  before or after the burning makes a difference to a contract that calls back.
* `granted` in `Erc721` and `consents` in `TwoStepTransfer` are history that
  only the properties read.
* `HostedAuction` is mapped to `Auction` through what the chain has stored: the
  steps of a `finalize` are invisible until it ends, then they are one step.
* `PiggyBank` has the three versions; in the oldest, `smash` returns a transfer
  that the chain executes after the handler, so it pays the balance it has seen.
* `Fibonacci` writes the recursion of the old contract as a list of calls that
  have not begun, and that of the new one as the stack of its activations.

### The libraries

* `Trie` takes a byte as one step where the code has two nibbles, and keeps cells
  apart from keys: a deleted entry's cell stays for the handles that name it.
  `build_queue` says what the recursive walk pushes: place i has the entry that
  i - 1 others come before, by `Before`.
* `Entries` and `TestHost` run the two versions of the same code beside each
  other on the same calls and compare what the caller is told.  The comparison
  ends (`strayed`) where a test goes on from a state in which the two are known
  to differ; these places are named in section 4.
* `MapEntry` stores a value as its length and as many bytes, so that storing a
  shorter value over a longer one leaves bytes that a reader might meet.
  `or_insert` stands for the ways to fill an entry unless there is a value.
* In `StateBuilder` a value is data or names a collection.  The program owns what
  it creates and takes out, and moves it, as the borrow checker makes it do.
* `ExternHost` has a root with a plain field and a `StateBox`; `latest` records
  the last assignment to each, and `unsaved` that a call out was made while a
  change was only in memory, which is what `invoke_contract_raw` permits for
  boxes and its read-only form for everything.
* In `Merkle` the hash of two nodes is the pair of them, so hashes are free of
  collisions and proofs are checked by rebuilding the tree of pairs.  The loops over
  the layers are functions of the layer; what `dedup` and the filters keep are the
  elements at an ascending list of positions (`Picked`).  `committed` is a record of
  the leaves after each commit, which only the properties read.
* `Serialization` reads one element per step from a source of items, an item
  being a number of any width.  What may be written for a value is a set of
  sequences: one for the ordered collections, one for each order of the keys
  (`Orders`) for the hashed ones.  A string, or the name of a contract, a receive
  function or an entrypoint, is read as a vector of bytes, which is tested at its end;
  which bytes are text, and a name, is the constant `Legible`.
* `CommonTypes` reads a character of an amount or a measure of a duration per step.
  A u64 is a number below `Limit`, and a sum of measures beyond it wraps or panics,
  as the build decides.  What is printed is another text to be read.  An entrypoint
  of exactly `MAX_FUNC_NAME_SIZE` bytes is turned down, although the comment above
  the check allows it (`types.rs:1008`); no receive name could hold it anyway.

## 3. What the runs check

| Run | Instance | Distinct states | What it shows |
|---|---|---|---|
| `voting` | 3 eligible voters and an outsider; 2 points, 1 unreadable string; deposit 2; clock to 4 | 69,424 | all safety of the contract, and that it implements the sealed ballot |
| `voting_drained` | 3 voters | violated | an election that never ends (finding 1) |
| `election` | 4 voters and a bystander, group of order 5, nonces 1 and 2 | 284,456 | honest voters are accepted, keys cancel, the result counts the choices; the election ends, unless half of the deposits or more went back already |
| `auction` | 3 accounts, owner among them, bids to 8, clock to 3 | 3,172 | escrow, one leader, settlement, and that a sale follows the first bid |
| `commerce` | vendor and customer, 2 purchases, timestamps 0, 2^w - 20 and 2^w - 1 | 146,882 | stakes, shares, finality, and that a purchase is settled unless its timestamp wraps on one side of the timeout check only |
| `commerce_opened` | 1 purchase | violated | a winner who gets two stakes of three (finding 6) |
| `commerce_stuck` | timeout 12 | violated | a timeout never (finding 2) |
| `commerce_reject` | 2 listings with different prices | violated | refund at the wrong price (finding 3) |
| `contracts` | 2 accounts and a contract that calls back, 3 to 5 calls, depth 2 (recorder 3), batches of 2, 2 tokens, 2 CCD | 637,855 | supply, holders, approvals, consent, nothing kept, agreed payments, and that the hosted auction implements the auction |
| `contracts_reserved` | the same, two-step transfer | violated | a granted request that cannot be paid (finding 4) |
| `libraries` | keys of up to 2 bits, 3 cells, 2 iterators; 2 handles; 2 references, values up to 2; 4 prefixes; depth 2; 2 CCD, 2 transfers; 5 leaves, 3 commits; sources of up to 5 items; texts of up to 5 characters, names of up to 4 | 867,804 | iterators, equal answers, last writes, ownership, fresh state, roots and proofs, round trips |
| `libraries_empty` | the same, collections | violated | a map with an element that is empty (finding 5) |

**The bounds and why they are enough.**

* `voting`: three voters are the least for which `change_phase` goes on, so with three
  every subset of them registers, commits or votes before each timeout; one point more
  than needed makes a commitment match a ballot or not; the unreadable string and the
  invalid proofs make each check fail once; `Amount` offers a deposit too small, right
  and too large; the clock reaches one beyond the last timeout, and each timeout has a
  time before, at and after it.  A roll closed by `change_phase` with one eligible voter
  missing comes up in `election`, where there are four.
* `election`: four voters are the least with two inner positions of the roll, and
  three of four registered give rolls with the gap in every position.  The group
  has to be larger than the number of yes votes; order five is.  All 24
  assignments of distinct secrets and all 16 of choices are initial states.  The
  hash of the instance is not constant and meets the unreadable 0 once.  The
  module also holds for three voters over order seven, which takes longer and
  asks nothing new.
* `auction`: three accounts are two rivals and the owner, who is paid in two
  roles; bids up to eight allow each to overtake the others repeatedly; the
  times are before, at and after the expiry.
* `commerce`: purchases touch each other only through the balance, so two are
  enough for one to be paid from the other's money; the vendor may be a buyer.
  The timestamp 63 wraps with the first activity.  With 44 the first activity makes
  54, from where the sum with 10 wraps and the sum with the timeout of 1 does not;
  with 0 nothing wraps.  The instance has one item: with several prices the properties
  fail, which `commerce_reject` shows.  Words have six bits and a factor of 3 stands
  for 10^9.

* `contracts`: two activations are a call and the call back in the middle of it;
  a batch of two has a first element that is done and a second to come when the
  call back happens.  Two tokens are one that moves and one that must not.
  An update of operators calls nobody, so that two of them in one message do what two
  messages do, and their batches have at most one (`MaxUpdates`).
  `MaxCalls` is 3 for the token contracts (mint, transfer, and the call back),
  4 or 5 where a protocol has more steps.  Words of the multi token contract wrap
  at 3.  Two-step transfer has two holders, both needed, and time for one
  request to expire.  Icecream calls two contracts, weather service and vendor.
* `libraries`: keys of up to two bytes over two values give siblings, parents and
  the empty key; three cells let a handle outlive its entry; two iterators share
  a prefix or nest.  Entries of up to four bytes with buffers of two meet both
  ends.  A word of 8 puts the negative offsets of `seek` next to positive ones, and
  makes half of it, 2^31 bytes on the chain, the greatest size an entry has.
  Five leaves give trees with an odd node on each of two layers, and three
  commits a rollback between two others.
  An amount has two decimals and a u64 ends at 1116, so that a text of five
  characters overflows at a digit before the dot, behind it, or when it is scaled.
* The contracts and the libraries do not touch each other, so that the state
  spaces add up; an invariant of a composed run speaks of the one that runs.

**Deadlock** is not checked: a decided election, a sold item and settled
purchases end the run of a contract, and the clocks and the numbers of calls
stop at their bounds.

**Fairness.**

* Voting: `Tick`, and `change_phase` by somebody who does not stall.  Blocks keep
  coming.  An abort pays a reward to its caller, if that is not a staller, so a voter
  who did its part or an account outside the roll has a reason to call it; such an
  outsider is the bystander of `election`.  Stallers, whom an abort costs their deposit,
  need never call anything.
* Auction: `Tick` and `finalize` ("any account can finalize the auction").
* Commerce: the vendor answers a request, a party that a timeout would pay calls
  it, and time passes.  Nothing else is fair: deliveries, disputes, counters and
  openings may never come.  The instance uses a timeout below ten milliseconds,
  as the tests do; with a longer one the promise fails altogether (`commerce_stuck`).

The contracts on `Host` and the libraries have no fairness: nothing there has to
happen until somebody calls.

### Properties

*Voting.*  `TypeOK` (no transfer overdraws).  `Escrow`: the balance is one
deposit for each voter on the roll without a stored ballot.
`DepositBackForBallot`: an account was paid exactly once if its ballot is
stored, else nothing.  Both up to an abort, which `AbortSettlement` covers:
contributors have their deposit, at least, and stallers were paid nothing.
`BallotOpensCommitment`: commitments may be overwritten by a second `commit`,
yet a stored ballot opens the commitment beside it.  `PhaseComplete`: nobody
opens a ballot before all are sealed, nobody counts before all are opened.
`NoCompletePhaseWaits`: no phase waits for calls all voters have made.
`ResultStable`.  `ImplementsSealedBallot`.

*Election.*  `KeysCancel`: the exponents of the reconstructed keys cancel over the
registered roll.  `HonestBallotAccepted`: what the crate makes, the contract
accepts.  `ResultCountsChoices`: the published numbers are those of the choices.
`DecidedUnlessDrained` (liveness): the election is decided or aborted though no staller
calls, unless half of the voters or more had their deposit back for a ballot.  With
exactly half, the refunds and the caller's reward are one deposit more than there is; only
the call of a staller, who is not rewarded, would be covered.

*Auction.*  `Escrow`, `LeaderUnique` (so `finalize` never meets two winners or
none), `SaleSettled`, `BidsLeadToSale` (liveness).

*Commerce.*  `StakesHeld`: one, two or three prices are held according to the
state, and the balance covers all open purchases together, so no transfer is
ever skipped.  `FairShares`: nobody is paid for an open purchase and never both sides;
settled without a counter, all that came in went to the side that the outcome names.  What
a counter leads to is `WinnerTakesAll` (finding 6).  `SettledForGood`: no settled purchase
is reopened or paid again.  `Settles` (liveness): a purchase is settled, or stays
in a state that only the other side's timeout would end with a timestamp for which the
left side of the check wraps and the right side does not (`WrapsBetween`), so that it never
passes.  The buyer chooses the timestamp.

*Contracts.*  `SupplyKept`: the balances of a token add up to what was minted
(modulo the word), and wrapped CCD are the CCD held, in callbacks too.
`UniqueHolder`, `ApprovalsCurrent`.  `Consent` (action): a token leaves a holder
in a transfer the holder, an operator or the approved address sent, or because
that transfer is undone.  `NothingKept`: relays, the listing contract and smashed
piggy banks hold nothing between transactions.  `PaidAsAgreed` (action): CCD leave
the two-step contract when enough different holders asked for this payment while
it was open, and each consent counts once.  `FibAddsUp`.  `ImplementsAuction`
(refinement).

*Libraries.*  `IteratorsExact`: what an iterator has yet to give out is the rest of its
subtree, so the locks hold.  `SameAnswers`: the test versions of entries and host answer
as the chain does, `seek` too, of which `test_infrastructure.rs:763` says that it does
not match (see section 4).  `LastWriteWins`.  `HeapExact`: every entry belongs to one
collection in one place.  `CallsSeeLatest`.  `TreeHolds`: roots after any commits and
rollbacks are those of the leaves, and proofs of every set of leaves convince of these
and no others.  `RoundTrips`.

## 4. Findings

Each is a run whose property states what a comment or a test of the repository
says and whose counterexample is a trace of the code.

1. `voting_drained`: an abort in the Vote phase refunds all voters, also those whose
   deposit `vote` has returned (`voting/src/lib.rs:526`).  If half of the voters or more
   have voted, here two of three, it asks for more than the contract holds, so
   `change_phase` fails for ever and the deposits of the others stay.  `property.rs:279`
   expects Result or Abort, with a balance set so high that the transfer cannot fail.
2. `commerce_stuck`: the timeout check reads no clock (`Commerce/src/lib.rs:300`). Below
   ten milliseconds it passes, except within ten milliseconds of the end of u64, where
   the left side wraps before the right one (`Settles`); from ten on it does not, except
   where the right side wraps before the left one.  Line 274 says "Buyer calls timeout
   and receives back the money in the contract."
3. `commerce_reject`: `RequestPurchase` charges for the item asked for and stores
   item 0 (`Commerce/src/lib.rs:148`), so "transfer funds back to buyer" pays the
   price of another item.
4. `contracts_reserved`: a request to the two-step transfer contract counts the CCD
   of its own message twice, as `self_balance` holds them already, so it may be
   granted without being covered, and the sum that is still free then wraps.
5. `libraries_empty`: `is_empty` of `StateMap` and `StateSet` asks for an entry at
   the collection's own prefix, where no element is ever stored, and so is true of
   every collection.
6. `commerce_opened`: after a counter three prices are held, and `OpenCommitment` pays
   two of them to the winner and settles the purchase (`Commerce/src/lib.rs:359`), so the
   third stays for ever.  Line 1011 says "price of item + 2x wager back (total 3x item)".
   The vendor's timeout after a counter pays one of the three.

Also seen while modelling, without a run of their own:

* voting: an abort in the Vote phase may pay a voter a second time out of the
  others' deposits when the balance covers it (the refund of finding 1), which no
  property excuses: `Escrow` and `DepositBackForBallot` end with an abort;
  `register` moves on when the roll is full, whatever its size, and the check
  "Allow only >2 voters" of `setup` is commented out, while `types.rs:33` says
  "Must have atleast 3 voters"; `change_phase` may open the Commit phase after
  the commit timeout, and then `commit` can only fail.
* auction: `finalize` of an auction without bids may be repeated.
* wrapped CCD: tokens that belong to the wCCD instance itself, or to whoever made it
  an operator, can be unwrapped by anybody, through an `unwrap` whose receiver is the
  instance's own `unwrap`.  `Consent` names this case.
* state API of unit tests: `delete_prefix` leaves the entry of the prefix itself
  readable through old handles, and handles that share a deleted cell are not
  invalidated.
* entries: the comment at `test_infrastructure.rs:763`, "This does _not_ match the
  semantics of Seek for StateEntry", is out of date but for two cases.  A position beyond
  the end, which another handle's `truncate` leaves behind, is one; and on an entry of
  exactly 2^31 bytes, seeking the smallest i32 arrives at 0 on the chain
  (`impls.rs:264`, a wrapping sum) and is an overflow in a test
  (`test_infrastructure.rs:783`, `checked_abs`), by `HalfWord`.
* entries: `truncate` to no less than the size is a call without effect; a test's
  cursor beyond the end of data that another handle cut short goes its own way.
* collections: two references to one value may be had from `get_mut(&self)`, and
  the one dropped last wins; a change made through `StateBox::get_mut` stays in
  memory when another contract is invoked.
* test host: a rejected call is not undone, and the state is not stored at the end
  of an entry point; a test that goes on after either is ahead of the chain.
* Merkle tree: a proof for indices that are not sorted is checked as if they were
  (`merkle_proof.rs:222`).
* serialization: the readers of `BTreeMap` and `BTreeSet` take elements in any
  order, only the functions that are given a length check it.

## 5. What is proved

From the assumptions in the modules only.  For the modules that are instantiated
(`Host` and the contracts on it, the libraries), these are definitions such as
`HostAssumption`, which `Deployed` and `Libraries` assume of what they compose
(`Deployable`, `Limits`) and `MCContracts` and `MCLibraries` check of every instance.
For the others: `setup`'s checks of the configuration (`ConfigAssumption`), that the
empty vector is neither a point nor a digest (`BytesAssumption`), that the tally is
an integer (`TallyAssumption`), and for the remaining modules the types of the
constants.  Electorate, accounts, tokens, amounts, timeouts, the width of words, the
depth and number of calls, hash and proof checks are arbitrary, and so are the prime
order and the hash of the election (`GroupAssumption`) and the addresses of its
accounts, which are numbers because the roll is in their order (`ElectionAssumption`).

**Voting** (`VotingProofs`).  The argument is a chain of invariants, each proved
with the ones before:

* `TypeInv` is `TypeOK` with "in Result every ballot is stored": without it,
  `result` might tally a missing ballot and its type would not follow;
* `FieldsInv`: the roll is the set of accounts with a key, commitment and
  reconstructed key come together, and ballots only from the roll;
* `PhaseInv`: what each phase says of the fields.  `PhaseComplete` is part of it;
* `BallotOpensCommitment` is inductive with `PhaseInv`: `commit` needs the phase
  Commit, in which no ballot is stored, so it never overwrites a commitment that
  was opened;
* `DepositBackForBallot` with `FieldsInv`; `Escrow` with the cardinalities of
  `FiniteSetTheorems`, as a voter enters or leaves the set of the not yet voted;
* `RollInv` says that a closed roll has more than two voters or is full, and `WaitInv`
  gives `NoCompletePhaseWaits` unless the number of leaves is 0.  The hypothesis is
  needed, as `setup` does not check it;
* `AbortSettlement` and `ResultStable` follow from these and the shape of the
  steps into Abort and Result;
* `Implementation`: the initial state maps to the initial state of
  `SealedBallot` and each action to one of its actions or to a stutter.

**Sums** (`SumProofs`).  Several properties are about the sum of an amount over the
bidders, purchases or holders.  The sums are folds of the community modules, defined
by recursion over the set.  `SubsetInduction` is induction over the subsets of a finite
set, for a set of subsets in the place of a predicate; it follows from the library's
theorem that strict inclusion is well-founded on finite sets.  `SumsUnique` and
`SumsExist` show with it that the recursive function behind the fold exists and
has one value.  From these come the facts that the other proofs use: the sum over the
empty set (`SumEmpty`), with an element more or less (`SumInsert`, `SumRemove`),
after one amount has changed (`SumUpdate`), over two parts (`SumPart`, `SumSplit`), and
bounds (`SumBounds`, `SumZero`); and the lemmas on remainders (`DivMod`, `ModUnique`,
`Congruent`) for amounts that wrap.

The induction principles of the library take a predicate as a parameter and are out of
the provers' reach.  `SmallestOf` (a set of numbers has a smallest one) gives
`NumberInduction`, induction for a set in the place of a predicate, and with it
`Repetition`: a step may be repeated for ever, so that a function defined by recursion
over the numbers exists.

**Auction** (`AuctionProofs`).  `OneLeader`: the highest bidder is unique.  The
invariant needs that bids are positive, so that an account without an entry is
never the leader.  `BidsInEscrow`: the balance is the sum of the bids; a higher bid of
the same account adds the difference, since the call brings it.  `FinalizeNeverFails`:
the leader's bid and the refunds of all others are together the balance, so the
payments, in whatever order, are covered.  `SalesSettle`: after the sale the balance
is 0 and everyone has what belongs to it.

**Commerce** (`CommerceProofs`).  `HandlerShape` says that the twelve calls on a
purchase all replace one open purchase by another and move money for it alone.
From it follow `TypeCorrect` (the width of timestamps and prices, no overdraft)
and `SettledIsFinal`, for all listings and prices, also those for which the
findings above hold; and `LedgerBalances`: the balance is the sum, over all
purchases, of what came in for each and did not go out.  `PurchasesFair` adds, state
by state, what was paid at the price of the item.  It has the hypothesis that there is one
item, because with two prices it is false (finding 3).  The invariant is not inductive
without `LedgerBalances`: only since no purchase is overdrawn does the balance cover
each transfer, and the code ignores a transfer that fails.  `StakesAreHeld` and
`SharesAreFair` follow.

**The example contracts** (`DeployedProofs`).  The module is about `Deployed`, which
`MCContracts` instantiates.  Its first part says once what every contract gains from
the chain around it.  `InStates(E, S)` is the invariant: the
state is in the set S, and so is the state that each activation on the stack would be
undone to.  A stretch of a handler that leads to a state in S keeps it, and so do
calls, answers, returns and rejections, at any depth.  A state invariant of a contract
thus needs only that each operation keeps it, with S the states that have it; without
the frames it would not be inductive, as a rejection goes back to a state of before.
The next part does the same for what relates the state to the CCD of the instance.
A section for each contract follows; `DeployedInv` joins their invariants.

* NFT: every minted token has one holder, and no other has any (`OneHolder`).
* ERC721: an approval was given under the present owner, to somebody else
  (`ApprovalsLapse`).
* Multi token: what was minted of a token is the sum of its balances and a multiple of
  the size of a word, in the state and in every state a rejection would bring back.
  A transfer to oneself reads the balance after it was lowered.  Wrapped CCD: the sum
  of the balances is the CCD held.  In the middle of a `wrap`, when the CCD have come
  and the tokens are not minted yet, it is the CCD held before; only the last
  activation can be there, as all others have called a contract.  The same holds of
  what each activation would be undone to (`SuppliesKept`).
* Relays, listing and piggy banks: what an activation holds beyond what was there before
  it is a function of where it stands, its share.  Icecream and the listing contract
  have the price they are about to pay on; the others have nothing, or what
  has just arrived.  With no activation open nothing is left; a smashed piggy bank
  has paid all it held (`EverythingForwarded`).
* `TransfersAuthorised`: for each of the five token contracts, a step that moves a
  token out of an address and does not leave an activation is a transfer that the
  address or somebody it trusts has sent.
* Two-step transfer: each supporter of a request has a consent on record for this
  payment: id, amount, account and time.  A payment thus has enough of them
  (`PaymentsAgreed`).
* The auction that pays step by step (`HostedImplements`).  A call stands between what the
  chain has stored and what the call leads to, and `SaleInv` says which of the two: a
  `bid` has changed nothing or is about to return with its one change; a `finalize` that
  is under way has paid the owner and the losers it is done with, each its own bid,
  those still to come are a set of bidders, and at most one bidder so far was found to be the
  winner.  All of it is a function of the stored state, the losers to come and the winner, so
  that neither the escrow nor the unique leader is needed as an invariant.  An activation
  that returns is then exactly one step of `Auction`, and every other step, a
  payment or a rejection, changes nothing that is stored.
* Fibonacci (`FibonacciRight`).  `FibNumbers` shows first that the recursion of the
  naive reference has a function.  Old contract: the result so far and the sum over the
  calls that have not begun are the number asked for, modulo the word; a call replaced
  by its two parts keeps the sum.  New contract: each call on the stack asks for what
  its caller waits for, and a caller that has had its first answer has kept the right
  one; so the check `ensure_eq!` never fails, although all activations write the same
  field.  A word must hold 1, as a leaf writes it without reduction.
* `TypeCorrect` for all but the last two, whose properties have types of their own, with
  recorder and counter-notify.  A counter is
  bounded by the number of calls, which needs that a call counts once at most, and that
  one which has called a contract has counted already.

**Host state** (`LibraryProofs`).  `FreshState` is about a stack of calls of any
depth.  What is known of a waiting call (`CallInv`): the state that its call out
would be undone to is what it sees in memory.  Of two calls, one above the other
(`PairInv`): unless the lower one was told of a change, undoing the upper one leads
back to the state the lower one knows.  Of the top (`TopInv`): the record of what was
assigned is what the node has, or will have when memory is written out.  All three
under the condition that no change was in memory only when a call was made, which
is the condition of the property.

**Unit tests** (`LibraryProofs`, theorem `TestsAreFaithful`).  *The host:* while an
entry point runs, balance and transfers are equal on both sides even in a test that has
strayed; until it strays, the instances are equal altogether, and between entry points
up to the balance, which the next one sets.  Each call out is shown to do the same to
equal instances although it changes the fields in another order.  *Entries:*
`EntryInv` says that size, the position of every handle and the last answer are equal
until a handle strays.  For each operation the version of the chain, with its casts and
wrapping sums, is shown to be the operator of the test version, with its checked ones,
on the states that can occur.  Entries have at most half a word, 2^31 bytes, which is the
limit of the chain; at exactly that size two moves differ, and count as straying
(`HalfWord`, section 4).

**Values of a map** (`LibraryProofs`).  `ValueInv` has three parts: the bytes of an
entry begin with those of some value (`ValueTyped`); what is open is open on
an entry that exists, and an occupied entry alone (`ValueOpen`); and unless two
references were taken to one value, each open reference knows the latest value or will
read it, and the occupied entry holds it or will store it (`ValueLatest`).  A shorter
value over a longer one leaves bytes behind, which is why the bytes only begin
with the value.

**Iterators** (`LibraryProofs`).  `Before` is shown to be a strict total order of keys
(`Ordered`), so that the number of entries before an entry is its place (`Places`,
`EarlierFewer`), and the walk lists the subtree once and in order (`WalksInOrder`).
`TrieInv`: a prefix is counted as often as an iterator is open on it, and what each open
iterator has left is the rest of the walk as it is now.  The second needs the first: a
change of the trie is permitted where no counted prefix continues the key or is
continued by it, so it leaves the subtrees of all open iterators as they were
(`SameWalk`).

**Nested collections** (`LibraryProofs`, theorem `HeapOwned`).  `HeapInv` has three parts.
`HeapTyped`: every collection that is named, by an entry, the program or the contract,
has a prefix that was given out.  `HeapOnce`: it is named in one place.  `HeapShaped`: every
entry is in a collection that is named, a box has its one entry, and the elements of a
set are plain.  All operations are two kinds of change: to put a value that is at hand
at a free place (`HeapPuts`, `HeapBoxes`), or to cut out an entry with all that the
collections in it own (`HeapCuts`).  The second needs that the recursive deletion is
done with all of it: each round adds a prefix or nothing, so after as many rounds as
there are prefixes no round adds anything (`HeapFrees`, by the pigeonhole principle),
and what is left is closed under ownership.

**The election** (`ElectionProofs`).  *Proofs:* `YesVerifies`, `NoVerifies` and
`KeyVerifies` are the completeness of the one-in-two proof for both choices and of the
Schnorr proof, for every prime order and hash.  The equations of the verifier are
congruences between polynomials in the secret, the nonces and the challenges; each is an
identity of integers (`Response`, `Challenges`) after the remainders are taken out
(`SameMod`, `SameTimes`).  *Keys:* the roll lists every voter once (`RollOnce`: the
place of an address is the number of smaller ones), and `Reconstructs` says of all three
returns of `compute_reconstructed_key` that the key of voter i is L(i-1) + L(i) - L(n)
modulo q, for L(i) the sum of the first i keys.  As key i is L(i) - L(i-1), the sum of
the products telescopes to L(n)^2 - L(n) L(n) (`Telescopes`).  *The election:*
`ElectionInv` says that each commitment and each ballot is the one of the voter's choice
for the key computed over the whole roll (`Committed`, `Cast`), and that the phases
close over all voters (`Phased`).  `Tally`: the sum of the ballots is then the number of
yes modulo q, which is that number, since there are fewer voters than exponents: secrets
differ and none is 0.  `ExponentsCancel` and `ResultRight` have the hypothesis that the
tree does not have exactly one leaf.  With one, a single voter fills the roll, both
`before_points` and `after_points` are its own key, so what it reconstructs is the
negative of its key and cancels with nothing; `setup` does not exclude it.

**The Merkle tree** (`DataProofs`, theorem `TreeRight`).  The tree is described from its
leaves: `Level(n, h)[e]` has the hashes at height e over the leaves h(0) .. h(n), a node
with one child being that child, and `TreeOf(s)` is all the layers over the list s.
`LeafInv`: the working tree is `TreeOf` of the leaves of the last commit; and each entry
of the history is the partial tree `DiffOf` that makes the leaves of one commit those of
the next.  The record of the commits is needed because a rollback builds the tree anew
from the rest of the history; with the tree alone the invariant would say nothing of
what comes back.  The steps of the argument:

* *lists:* filters, `dedup`, `difference` and the sort of a layer are shown to give the
  ascending list of a set of numbers (`Lists`, `PickedLists`, `Arranged`), so
  that a layer is known by its set of nodes (`LayerOf`);
* *building:* given every sibling that is missing, `build_tree` never lacks a child and
  computes the nodes of the whole tree (`Covers`, `PartTree`).  The helpers of new
  leaves are just the old nodes beside them (`HelpsNew`), and merging replaces
  the nodes that are over new leaves and keeps the others, which did not change
  (`MergesOld`);
* *the root:* the layers of the code and the recursion of the reference, which splits at
  a power of two, have one root (`SplitRoot`), also above an odd layer, where a
  single node is carried up;
* *proofs:* what `proof` lists is what the verifier deals out to the layers
  (`ProofJoined`, `DealtLayers`), although one goes by the length of a layer in the tree and the
  other by the number of leaves.  The rebuilt root is then that of the leaves given, and
  two lists of leaves with the same root are the same (`Decides`), so no other leaf
  convinces.

The assumption is that of `tree_depth`, whose loop ends at 32: a tree has at most 2^32
leaves.

**The common types** (`DataProofs`; their property is part of `ReadBack`).  `AmountInv`
says what has been read of an amount: in each of the four states of the parser, which
part of the text is the numeral, that the number so far is its value (`WholeRead`,
`FractionRead`), and when it answers, that the text has this amount and no other, or
none that fits.  A text can be split into numeral and decimals in one place only, at its
dot or its end (`SplitAtDot`); and since the number never falls while more is read
(`WholeBound`), an overflow halfway is an overflow of the whole (`TooLarge`), whatever
digits follow.  That `DisplayAmount` is read back needs that dividing by powers of ten
gives the digits (`PaddedIs`, `DottedWorth`).  `DurationInv` is the same for the sum of
measures, modulo the word.  Names are split at the first dot, which a contract name does
not have.

**Readers and writers** (`LibraryProofs`, theorem `ReadBack`).  `WireInv`: the loop has
taken the first so many elements of the source, its collection has these and no others,
and the previous key is the last of them (`VectorRead`, `MapRead`, `SetRead`); a reader
that checks the order has seen an ascending list (`Ascends`), one that does not has seen
each key once.  At the end the bytes taken are those of the value (`Done`): an ascending
list of a set is unique, so the one order in which an ordered collection is written is
the one that was read. A source that is turned down begins no writing of any value
(`Refuses`): a key that is not above the one before, or was there already, is in no such
list at that place.  It is needed that the items are finitely many, as the number types
are.

**Types and bounds** (`LibraryProofs`, theorem `InBounds`).  `Typed` joins all the
invariants above with what the types need beyond them: positions are words, wherever
`seek` wraps (`EntryTyped`); the bytes of a value never get longer than those of the longest one
(`ValueBounded`); handles have keys and cells that were given out
(`TrieTyped`); entries of collections are at the place of a prefix or of an
element under one (`StorePlaces`); and calls are no deeper than the node allows.

**Only model-checked:** liveness (`DecidedUnlessDrained`, `BidsLeadToSale`, `Settles`), which
is out of the prover's reach, as is ENABLED.  Every safety invariant and every action
property of a passing run is stated by a theorem, in some cases under the hypothesis
that is named with it above: at least one leaf configured (`NoWaiting`), not exactly one
(`ExponentsCancel`, `ResultRight`), one item (`PurchasesFair`, `StakesAreHeld`,
`SharesAreFair`).  Without it each is false, for the reason given there.

## 6. What is not modelled

* The bytes of messages, their parsing, schemas and the JSON and binary files.
* Secrecy of ballots, and probability: nonces are just values.
* Different orders of the roll: the crate is given the keys in message files, and two
  voters whose files list them differently would compute keys that do not cancel.
  `Election` gives everybody the one order of the addresses.
* In `Voting` the Merkle proof is membership in the electorate; `Merkle` models
  the tree itself.
* Of the SDK: the operators on amounts wrap or panic where the models of the contracts
  say so; schemas and the message types of CIS1 have no state of their own; `prims.rs`
  declares the node's functions, which the models hold as what they do; the derive
  crate's parsing and code generation run when a contract is compiled, and only the
  wrappers it generates are modelled.
* Of the test infrastructure: contexts, which hold what a test sets, and the logger.
* Of the serialization: the fixed-layout types, which follow the pattern of what is
  modelled, and which bytes exactly are UTF-8.
* Events, return values of views, gas, energy and the size limits of the chain.
* The tests, except where one states an expectation used above; the multi-assert
  helper prints comparisons.
* `commerce.rs` is the same code as `lib.rs` without tests, and no model of its
  own.

## 7. Plan

Done, in this order: the voting contract; its theorems; the sealed ballot and
the refinement; the cryptography and the election; the auction; commerce; the host
and the example contracts; the libraries; the theorems about the host state and the
test host; the sums, and with them auction and commerce; the theorems about all
example contracts on the host, the refinement of the auction among them; those about
entries, values of maps, iterators and nested collections; those about the election;
the Merkle tree, the readers and writers, the common types; the types of the libraries.

Worth doing next:

1. The election with the tree of `Merkle` in the place of membership in the
   electorate, so that a voter's proof is one that `proof` made.
2. The collections on the trie: `StateBuilder` refined by steps of `Trie`, with the
   locks of the iterators under the maps.
3. The fixed-layout types of the serialization.
