------------------------------- MODULE Voting -------------------------------
(***************************************************************************)
(* The `voting` contract of the Open Vote Network.                         *)
(*                                                                         *)
(* A call is one transaction: a handler that returns Err or traps leaves   *)
(* state and balances as they were, so it is no step of this module.  The  *)
(* guards of an action are the handler's checks, in the handler's order.   *)
(* Byte strings are abstract values; those in Point parse as curve points, *)
(* those in Garbage do not, and NoBytes is the empty vector of a field     *)
(* nobody has set.  The proof and hash functions are parameters, given     *)
(* their group arithmetic in Election.                                     *)
(***************************************************************************)
EXTENDS Integers, FiniteSets

CONSTANTS
    Account,                 \* account addresses on the chain
    Eligible,                \* accounts whose hash is a leaf below merkle_root
    LeafCount,               \* config.merkle_leaf_count
    Deposit,                 \* config.deposit
    RegistrationTimeout, CommitTimeout, VoteTimeout,
    MaxTime,                 \* bound: the clock stops here
    Point, Garbage, NoBytes,
    Digest,                  \* byte strings sent as commitments
    Zkp,                     \* proofs sent with keys and ballots
    Sha256(_), verify_schnorr_zkp(_, _), verify_one_in_two_zkp(_, _),
    brute_force_tally(_)

\* What `setup` checks of the configuration (slot time 0), and the ledger.
ASSUME ConfigAssumption ==
    /\ {RegistrationTimeout, CommitTimeout, VoteTimeout, MaxTime} \subseteq Nat
    /\ 0 < RegistrationTimeout
    /\ RegistrationTimeout < CommitTimeout
    /\ CommitTimeout < VoteTimeout
    /\ Deposit \in Nat
    /\ LeafCount \in Int
    /\ Eligible \subseteq Account
    /\ IsFiniteSet(Eligible)

ASSUME BytesAssumption == NoBytes \notin Point \cup Garbage \cup Digest

ASSUME TallyAssumption ==
    \A S \in SUBSET Eligible : \A ballots \in [S -> Point] :
        brute_force_tally(ballots) \in Int

VARIABLES
    voting_phase,
    voters,                  \* key set of the `voters` map
    voting_key, reconstructed_key, commitment, vote,   \* fields of Voter
    voting_result,
    balance,                 \* the contract's own balance
    paid,                    \* what each account got by invoke_transfer
    now                      \* slot time

vars == <<voting_phase, voters, voting_key, reconstructed_key, commitment,
          vote, voting_result, balance, paid, now>>

ledger == <<balance, paid>>

Bytes == Point \cup Garbage
VotingPhase == {"Registration", "Commit", "Vote", "Result", "Abort"}
Amount == 0 .. Deposit + 1

setup ==
    /\ voting_phase = "Registration"
    /\ voters = {}
    /\ voting_key = [a \in Account |-> NoBytes]
    /\ reconstructed_key = [a \in Account |-> NoBytes]
    /\ commitment = [a \in Account |-> NoBytes]
    /\ vote = [a \in Account |-> NoBytes]
    /\ voting_result = <<-1, -1>>
    /\ balance = 0
    /\ paid = [a \in Account |-> 0]
    /\ now = 0

-----------------------------------------------------------------------------
verify_merkle_proof(sender) == sender \in Eligible

check_commitment_skipped(ballot, c) == TRUE
check_commitment(ballot, c) == Sha256(ballot) = c

DepositMatches_skipped(deposit) == TRUE
DepositMatches(deposit) == deposit = Deposit

AllRegistered_strict(roll) == Cardinality(roll) > LeafCount
AllRegistered(roll) == Cardinality(roll) = LeafCount

AllCommitted == \A a \in voters : commitment[a] # NoBytes
                                  /\ reconstructed_key[a] # NoBytes

AllVoted_wrongField == \A a \in voters : commitment[a] # NoBytes
AllVoted == \A a \in voters : vote[a] # NoBytes

register(sender, key, zkp, deposit) ==
    /\ voting_phase = "Registration"
    /\ verify_merkle_proof(sender)
    /\ DepositMatches(deposit)
    /\ now <= RegistrationTimeout
    /\ sender \notin voters
    /\ key \in Point
    /\ verify_schnorr_zkp(key, zkp)
    /\ voters' = voters \cup {sender}
    /\ voting_key' = [voting_key EXCEPT ![sender] = key]
    /\ balance' = balance + deposit
    /\ voting_phase' = IF AllRegistered(voters') THEN "Commit" ELSE voting_phase
    /\ UNCHANGED <<reconstructed_key, commitment, vote, voting_result, paid, now>>

\* A second commit in the same phase overwrites the first; the key is stored
\* without parsing it.
commit(sender, key, c) ==
    /\ c # NoBytes
    /\ key # NoBytes
    /\ voting_phase = "Commit"
    /\ sender \in voters
    /\ now <= CommitTimeout
    /\ reconstructed_key' = [reconstructed_key EXCEPT ![sender] = key]
    /\ commitment' = [commitment EXCEPT ![sender] = c]
    /\ UNCHANGED <<voters, voting_key, vote, voting_result, ledger, now>>
    /\ voting_phase' = IF AllCommitted' THEN "Vote" ELSE voting_phase

Covered_unchecked(amount) == TRUE
Covered(amount) == amount <= balance

transfer(receiver, amount) ==
    /\ Covered(amount)
    /\ balance' = balance - amount
    /\ paid' = [paid EXCEPT ![receiver] = @ + amount]

NotYetVoted_skipped(sender) == TRUE
NotYetVoted(sender) == vote[sender] = NoBytes

cast_vote(sender, ballot, zkp) ==
    /\ voting_phase = "Vote"
    /\ sender \in voters
    /\ now <= VoteTimeout
    /\ NotYetVoted(sender)
    /\ reconstructed_key[sender] \in Point
    /\ verify_one_in_two_zkp(zkp, reconstructed_key[sender])
    /\ ballot \in Point
    /\ check_commitment(ballot, commitment[sender])
    /\ vote' = [vote EXCEPT ![sender] = ballot]
    /\ UNCHANGED <<voters, voting_key, reconstructed_key, commitment,
                   voting_result, now>>
    /\ voting_phase' = IF AllVoted' THEN "Result" ELSE voting_phase
    /\ transfer(sender, Deposit)

ResultOpen_early == voting_phase \in {"Vote", "Result"}
ResultOpen == voting_phase = "Result"

result ==
    /\ ResultOpen
    /\ LET yes_votes == brute_force_tally([a \in voters |-> vote[a]])
       IN  voting_result' = <<yes_votes, Cardinality(voters) - yes_votes>>
    /\ UNCHANGED <<voting_phase, voters, voting_key, reconstructed_key,
                   commitment, vote, ledger, now>>

-----------------------------------------------------------------------------
\* refund_deposits calls a voter honest when the field its phase asks for is set.
Contributed_wrongField(a) ==
    \/ voting_phase = "Registration" /\ voting_key[a] # NoBytes
    \/ voting_phase \in {"Commit", "Vote"} /\ reconstructed_key[a] # NoBytes
Contributed(a) ==
    \/ voting_phase = "Registration" /\ voting_key[a] # NoBytes
    \/ voting_phase = "Commit" /\ reconstructed_key[a] # NoBytes
    \/ voting_phase = "Vote" /\ vote[a] # NoBytes

honest_accounts == {a \in voters : Contributed(a)}
stalling_accounts == voters \ honest_accounts

Rewarded(sender) ==
    /\ sender \notin stalling_accounts
    /\ Cardinality(voters) - Cardinality(honest_accounts) > 0

\* One failing transfer fails the call: all are made or none.
refund_deposits(sender) ==
    LET reward == IF Rewarded(sender) THEN Deposit ELSE 0
        total  == reward + Deposit * Cardinality(honest_accounts)
        due(a) == (IF a = sender THEN reward ELSE 0)
                    + (IF a \in honest_accounts THEN Deposit ELSE 0)
    IN  /\ Covered(total)
        /\ balance' = balance - total
        /\ paid' = [a \in Account |-> paid[a] + due(a)]

Enter(phase) == voting_phase' = phase /\ UNCHANGED ledger
AbortBy(sender) == voting_phase' = "Abort" /\ refund_deposits(sender)

EnoughKeys == Cardinality({a \in voters : voting_key[a] # NoBytes}) > 2

Over_late(timeout) == now > timeout + 1
Over(timeout) == now > timeout

\* A call too early, or in Result or Abort, changes nothing.
change_phase(sender) ==
    /\ \/ /\ voting_phase = "Registration"
          /\ Over(RegistrationTimeout)
          /\ IF EnoughKeys THEN Enter("Commit") ELSE AbortBy(sender)
       \/ /\ voting_phase = "Commit"
          /\ IF AllCommitted THEN Enter("Vote")
                             ELSE Over(CommitTimeout) /\ AbortBy(sender)
       \/ /\ voting_phase = "Vote"
          /\ IF AllVoted THEN Enter("Result")
                         ELSE Over(VoteTimeout) /\ AbortBy(sender)
    /\ UNCHANGED <<voters, voting_key, reconstructed_key, commitment, vote,
                   voting_result, now>>

\* The slot time of the next block.
Tick ==
    /\ now < MaxTime
    /\ now' = now + 1
    /\ UNCHANGED <<voting_phase, voters, voting_key, reconstructed_key,
                   commitment, vote, voting_result, ledger>>

Next ==
    \/ \E a \in Account, key \in Bytes, zkp \in Zkp, deposit \in Amount :
           register(a, key, zkp, deposit)
    \/ \E a \in Account, key \in Bytes, c \in Digest : commit(a, key, c)
    \/ \E a \in Account, ballot \in Bytes, zkp \in Zkp : cast_vote(a, ballot, zkp)
    \/ result
    \/ \E a \in Account : change_phase(a)
    \/ Tick

Spec == setup /\ [][Next]_vars

\* Blocks keep coming, and somebody whom an abort rewards calls change_phase
\* once a timeout has passed: a voter who did its part, or an account that is
\* not on the roll.  A staller need never call.
Fairness ==
    /\ WF_vars(Tick)
    /\ WF_vars(\E a \in Account \ stalling_accounts : change_phase(a))

FairSpec == Spec /\ Fairness
-----------------------------------------------------------------------------
Voted == {a \in voters : vote[a] # NoBytes}

\* Every variable has its type; in particular the balance is never negative,
\* which each transfer of refund_deposits has to respect.
TypeOK ==
    /\ voting_phase \in VotingPhase
    /\ voters \subseteq Eligible
    /\ voting_key \in [Account -> Point \cup {NoBytes}]
    /\ reconstructed_key \in [Account -> Bytes \cup {NoBytes}]
    /\ commitment \in [Account -> Digest \cup {NoBytes}]
    /\ vote \in [Account -> Point \cup {NoBytes}]
    /\ voting_result \in Int \X Int
    /\ balance \in Nat
    /\ paid \in [Account -> Nat]
    /\ now \in 0 .. MaxTime

\* Until the vote aborts, the contract holds exactly the deposits of the
\* registered voters whose ballot it has not stored (register, vote).
Escrow ==
    voting_phase # "Abort" => balance = Deposit * Cardinality(voters \ Voted)

\* Until the vote aborts, an account got its deposit back if and only if its
\* ballot is stored, and never twice (AlreadyVoted).
DepositBackForBallot ==
    voting_phase # "Abort" =>
        \A a \in Account : paid[a] = IF a \in Voted THEN Deposit ELSE 0

\* A stored ballot opens the commitment that is stored beside it, although
\* commit may be called again and overwrite what an earlier call stored.
BallotOpensCommitment ==
    \A a \in voters : vote[a] # NoBytes =>
        /\ Sha256(vote[a]) = commitment[a]
        /\ reconstructed_key[a] \in Point

\* Ballots are revealed only when every voter on the roll is bound to one, and
\* a result is computed only over the ballots of the whole roll.
PhaseComplete ==
    /\ voting_phase \in {"Vote", "Result"} => AllCommitted
    /\ voting_phase = "Result" => \A a \in voters : vote[a] # NoBytes
    /\ voting_result # <<-1, -1>> => voting_phase = "Result"
    /\ Voted # {} => AllCommitted

\* The call that completes a phase has moved on to the next one: no phase is
\* left waiting for a call that every voter has already made.
NoCompletePhaseWaits ==
    /\ voting_phase = "Registration" => Cardinality(voters) # LeafCount
    /\ voting_phase = "Commit" => ~AllCommitted
    /\ voting_phase = "Vote" => Voted # voters

\* Which field decided who stalled, read off the state the abort left behind.
AbortedIn ==
    IF Cardinality(voters) <= 2 /\ Cardinality(voters) # LeafCount THEN "Registration"
    ELSE IF AllCommitted THEN "Vote" ELSE "Commit"

\* After an abort every voter who did what the aborted phase asked for has its
\* deposit back, and no voter who stalled was paid anything, reward included.
AbortSettlement ==
    voting_phase = "Abort" => \A a \in voters :
        LET contributed == CASE AbortedIn = "Registration" -> voting_key[a] # NoBytes
                             [] AbortedIn = "Commit" -> reconstructed_key[a] # NoBytes
                             [] AbortedIn = "Vote" -> vote[a] # NoBytes
        IN  IF contributed THEN paid[a] >= Deposit ELSE paid[a] = 0

\* Calling result again gives the same result.
ResultStable == [][voting_result # <<-1, -1>> => voting_result' = voting_result]_vars

\* The election is decided or aborted, although no staller ever calls
\* change_phase, unless half of the voters or more got their deposit back for a
\* ballot: then refund_deposits asks for a deposit for each of them again and
\* for the caller's reward, which is more than the contract holds
\* (EventuallyDecided is the promise without "unless").
DecidedUnlessDrained ==
    <>(\/ voting_phase \in {"Result", "Abort"}
       \/ voting_phase = "Vote" /\ 2 * Cardinality(Voted) >= Cardinality(voters))

\* property.rs:279: after the vote timeout and a call of change_phase the
\* phase is Result or Abort.
EventuallyDecided == <>(voting_phase \in {"Result", "Abort"})
=============================================================================
