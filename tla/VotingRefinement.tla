-------------------------- MODULE VotingRefinement --------------------------
(* The voting contract implements the sealed ballot.                       *)
EXTENDS Voting

RoundOf == CASE voting_phase = "Registration" -> "Enrol"
             [] voting_phase = "Commit" -> "Seal"
             [] voting_phase = "Vote" -> "Open"
             [] voting_phase = "Result" -> "Count"
             [] voting_phase = "Abort" -> "GivenUp"

ResultOf(ballots) ==
    LET yes_votes == brute_force_tally(ballots)
    IN  <<yes_votes, Cardinality(DOMAIN ballots) - yes_votes>>

Ballots == INSTANCE SealedBallot WITH
    Voter <- Account, Ballot <- Bytes, Seal <- Digest, Unset <- NoBytes,
    Sealed <- Sha256, Outcome <- ResultOf, NoOutcome <- <<-1, -1>>,
    round <- RoundOf, roll <- voters, seal <- commitment, ballot <- vote,
    outcome <- voting_result

\* Whatever the order of calls, timeouts, overwritten commitments and aborts,
\* what an observer of the contract's phases, roll, commitments, ballots and
\* result sees is a run of the sealed ballot.
ImplementsSealedBallot == Ballots!Spec
=============================================================================
