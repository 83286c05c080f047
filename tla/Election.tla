------------------------------ MODULE Election ------------------------------
(***************************************************************************)
(* An election: voters who follow the protocol, with the off-chain crate's *)
(* keys, commitments and proofs, and the voting contract they call.  The   *)
(* contract is the module Voting with the crate's arithmetic for its       *)
(* operators.  A voter may stop at any time, the clock runs on, and anyone *)
(* may call change_phase, the accounts that are not eligible included.     *)
(***************************************************************************)
EXTENDS OpenVoteCrypto

CONSTANTS
    Account,                     \* the eligible; naturals, ordered as addresses are
    Bystander,                   \* accounts on the chain that are not eligible
    LeafCount, Deposit, RegistrationTimeout, CommitTimeout, VoteTimeout, MaxTime,
    NoBytes,                     \* the empty byte vector
    Nonce                        \* bound: the random scalars a prover may draw

ASSUME ElectionAssumption ==
    /\ Account \subseteq Nat /\ IsFiniteSet(Account) /\ Account \cap Bystander = {}
    /\ LeafCount \in Int /\ Deposit \in Nat
    /\ NoBytes \notin Zq /\ \A p \in Zq : NoBytes # Sha256(p)
    /\ Nonce \subseteq Zq

VARIABLES
    voting_phase, voters, voting_key, reconstructed_key, commitment, vote,
    voting_result, balance, paid, now,
    secret,                      \* x of each voter
    choice                       \* v of each voter: 1 is yes, 0 is no

contractVars == <<voting_phase, voters, voting_key, reconstructed_key, commitment,
                  vote, voting_result, balance, paid, now>>
vars == <<contractVars, secret, choice>>

Contract == INSTANCE Voting WITH
    Account <- Account \cup Bystander, Eligible <- Account, Point <- Zq \ {0}, Garbage <- {0},
    Digest <- {Sha256(p) : p \in Zq}, Zkp <- {}

\* create_votingkey_pair draws the secrets; at the real order two voters do
\* not draw the same one, and none draws 0.
Init ==
    /\ Contract!setup
    /\ secret \in [Account -> Zq \ {0}]
    /\ \A a, b \in Account : secret[a] = secret[b] => a = b
    /\ choice \in [Account -> {0, 1}]

-----------------------------------------------------------------------------
\* The keys every voter reads from the contract, in the same order.
Roll == [i \in 1 .. Cardinality(voters) |->
            CHOOSE a \in voters : Cardinality({b \in voters : b < a}) = i - 1]
Keys == [i \in DOMAIN Roll |-> voting_key[Roll[i]]]

Register(a) == \E w \in Nonce :
    LET g_x == (GENERATOR * secret[a]) % q
    IN  Contract!register(a, g_x, create_schnorr_zkp(g_x, secret[a], w), Deposit)

Commit(a) ==
    /\ a \in voters
    /\ LET g_y == compute_reconstructed_key(Keys, voting_key[a])
       IN  Contract!commit(a, g_y, Sha256(ballot(secret[a], g_y, choice[a])))

\* The proof for a voter's choice: w, r and d are drawn at random.
OneInTwo(a, w, r, d) ==
    LET g_y == reconstructed_key[a]
    IN  IF choice[a] = 1
        THEN create_one_in_two_zkp_yes(voting_key[a], g_y, secret[a], w, r, d)
        ELSE create_one_in_two_zkp_no(voting_key[a], g_y, secret[a], w, r, d)

Vote(a) ==
    /\ a \in voters
    /\ reconstructed_key[a] # NoBytes
    /\ \E w, r, d \in Nonce :
           Contract!cast_vote(a, ballot(secret[a], reconstructed_key[a], choice[a]),
                              OneInTwo(a, w, r, d))

Next ==
    /\ \/ \E a \in Account : Register(a)
       \/ \E a \in Account : Commit(a)
       \/ \E a \in Account : Vote(a)
       \/ Contract!result
       \/ \E a \in Account \cup Bystander : Contract!change_phase(a)
       \/ Contract!Tick
    /\ UNCHANGED <<secret, choice>>

Spec == Init /\ [][Next]_vars

\* Nothing is asked of the voters: only what the contract's fairness says of
\* blocks and of the callers who lose nothing by an abort.
FairSpec == Spec /\ Contract!Fairness

-----------------------------------------------------------------------------
\* Once all have committed, the exponents x_i y_i cancel: the sum of the
\* ballots is the number of yes votes, whoever registered and whoever did not.
KeysCancel ==
    voting_phase \in {"Vote", "Result"} =>
        SumFunction([a \in voters |-> secret[a] * reconstructed_key[a]]) % q = 0

\* The published result counts the choices of those who registered, although
\* no ballot shows its choice and some eligible accounts never came.
ResultCountsChoices ==
    voting_result # <<-1, -1>> =>
        voting_result = <<Cardinality({a \in voters : choice[a] = 1}),
                          Cardinality({a \in voters : choice[a] = 0})>>

\* The election is decided or aborted although no staller calls change_phase,
\* unless half of the voters or more have their deposits back (Voting).
DecidedUnlessDrained == Contract!DecidedUnlessDrained

\* A voter who has yet to vote and follows the protocol is not turned away for
\* its proof or its ballot: any proof the contract can read verifies against
\* the reconstructed key it stored, and the ballot opens the commitment.
HonestBallotAccepted ==
    voting_phase = "Vote" => \A a \in {b \in voters : vote[b] = NoBytes} :
        /\ commitment[a] = Sha256(ballot(secret[a], reconstructed_key[a], choice[a]))
        /\ \A w, r, d \in Nonce :
               LET zkp == OneInTwo(a, w, r, d)
               IN  Readable(zkp) /\ Parses(one_in_two_challenge(zkp.points))
                      => verify_one_in_two_zkp(zkp, reconstructed_key[a])
=============================================================================
