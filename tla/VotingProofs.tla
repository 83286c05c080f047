---------------------------- MODULE VotingProofs ----------------------------
(* Theorems of the voting contract, for every electorate, deposit, roll     *)
(* and configuration that `setup` accepts.                                  *)
EXTENDS VotingRefinement, FiniteSetTheorems, TLAPS

\* What the type of voting_result rests on: in Result every ballot is a point.
ResultHasBallots == voting_phase = "Result" => AllVoted

TypeInv == TypeOK /\ ResultHasBallots

\* There are finitely many voters in every part of the roll.
LEMMA VotersFinite ==
    ASSUME TypeOK
    PROVE  /\ IsFiniteSet(voters)
           /\ Cardinality(voters) \in Nat
           /\ \A S \in SUBSET voters : IsFiniteSet(S) /\ Cardinality(S) \in Nat
<1>1. IsFiniteSet(voters)
  BY FS_Subset, ConfigAssumption DEF TypeOK
<1> QED BY <1>1, FS_Subset, FS_CardinalityType

\* Every transfer is a natural number of tokens.
LEMMA RefundAmounts ==
    ASSUME TypeOK, NEW a \in Account
    PROVE  /\ Deposit * Cardinality(honest_accounts) \in Nat
           /\ (IF Rewarded(a) THEN Deposit ELSE 0) \in Nat
<1>1. Cardinality(honest_accounts) \in Nat
  BY VotersFinite DEF honest_accounts
<1> QED BY <1>1, ConfigAssumption

\* A refund is a number for every account.
LEMMA RefundTyped ==
    ASSUME TypeOK, NEW a \in Account, refund_deposits(a)
    PROVE  balance' \in Nat /\ paid' \in [Account -> Nat]
<1> DEFINE reward == IF Rewarded(a) THEN Deposit ELSE 0
           total  == reward + Deposit * Cardinality(honest_accounts)
           due(b) == (IF b = a THEN reward ELSE 0)
                       + (IF b \in honest_accounts THEN Deposit ELSE 0)
<1>1. total \in Nat /\ reward \in Nat /\ Deposit \in Nat
  BY RefundAmounts, ConfigAssumption
<1>2. /\ total <= balance
      /\ balance' = balance - total
      /\ paid' = [b \in Account |-> paid[b] + due(b)]
  BY DEF refund_deposits, Covered
<1>3. balance' \in Nat
  <2> HIDE DEF total
  <2> QED BY <1>1, <1>2 DEF TypeOK
<1>4. ASSUME NEW b \in Account PROVE paid[b] + due(b) \in Nat
  <2>1. due(b) \in Nat
    <3> HIDE DEF reward
    <3> QED BY <1>1
  <2> HIDE DEF due
  <2> QED BY <2>1 DEF TypeOK
<1> QED
  <2> HIDE DEF due
  <2> QED BY <1>2, <1>3, <1>4

\* Deployment.
LEMMA TypeInit == setup => TypeInv
BY ConfigAssumption DEF setup, TypeInv, TypeOK, ResultHasBallots, VotingPhase, Bytes

\* Every step keeps the types.
LEMMA TypeStep == TypeInv /\ [Next]_vars => TypeInv'
<1> SUFFICES ASSUME TypeInv, [Next]_vars PROVE TypeInv'
  OBVIOUS
<1> USE DEF TypeInv, ResultHasBallots
<1>1. ASSUME NEW a \in Account, NEW key \in Bytes, NEW zkp \in Zkp,
             NEW deposit \in Amount, register(a, key, zkp, deposit)
      PROVE TypeInv'
  BY <1>1, ConfigAssumption
  DEF register, TypeOK, VotingPhase, DepositMatches, verify_merkle_proof, AllVoted
<1>2. ASSUME NEW a \in Account, NEW key \in Bytes, NEW c \in Digest, commit(a, key, c)
      PROVE TypeInv'
  BY <1>2 DEF commit, TypeOK, VotingPhase, AllVoted, ledger
<1>3. ASSUME NEW a \in Account, NEW ballot \in Bytes, NEW zkp \in Zkp,
             cast_vote(a, ballot, zkp)
      PROVE TypeInv'
  BY <1>3, ConfigAssumption
  DEF cast_vote, transfer, Covered, TypeOK, VotingPhase, AllVoted
<1>4. ASSUME result PROVE TypeInv'
  <2> DEFINE ballots == [a \in voters |-> vote[a]]
  <2>1. ballots \in [voters -> Point]
    BY <1>4, BytesAssumption, ConfigAssumption DEF result, ResultOpen, TypeOK, AllVoted
  <2>2. brute_force_tally(ballots) \in Int
    BY <2>1, TallyAssumption DEF TypeOK
  <2>3. Cardinality(voters) \in Int
    BY VotersFinite
  <2>4. voting_result' \in Int \X Int
    BY <1>4, <2>2, <2>3 DEF result
  <2> QED BY <1>4, <2>4 DEF result, ledger, TypeOK, AllVoted
<1>5. ASSUME NEW a \in Account, change_phase(a) PROVE TypeInv'
  <2>1. balance' \in Nat /\ paid' \in [Account -> Nat]
    BY <1>5, RefundTyped DEF change_phase, Enter, AbortBy, ledger, TypeOK
  <2>2. voting_phase' \in VotingPhase /\ (voting_phase' = "Result" => AllVoted)
    BY <1>5 DEF change_phase, Enter, AbortBy, VotingPhase
  <2> QED BY <1>5, <2>1, <2>2 DEF change_phase, TypeOK, AllVoted
<1>6. ASSUME Tick PROVE TypeInv'
  BY <1>6, ConfigAssumption DEF Tick, ledger, TypeOK, AllVoted
<1>7. ASSUME UNCHANGED vars PROVE TypeInv'
  BY <1>7 DEF vars, TypeOK, AllVoted
<1> QED BY <1>1, <1>2, <1>3, <1>4, <1>5, <1>6, <1>7 DEF Next

\* Every reachable state of the contract is well typed: no transfer of any
\* handler overdraws the balance, and result finds a point for every voter.
THEOREM TypeCorrect == Spec => []TypeOK
<1>1. TypeInv => TypeOK
  BY DEF TypeInv
<1> QED BY <1>1, TypeInit, TypeStep, PTL DEF Spec
-----------------------------------------------------------------------------
(* What each phase says about the fields of the voters.                    *)

FieldsInv ==
    \A a \in Account :
        /\ a \in voters <=> voting_key[a] # NoBytes
        /\ commitment[a] # NoBytes <=> reconstructed_key[a] # NoBytes
        /\ reconstructed_key[a] # NoBytes => a \in voters
        /\ vote[a] # NoBytes => a \in voters

PhaseInv ==
    /\ voting_phase = "Registration" => \A a \in Account : reconstructed_key[a] = NoBytes
    /\ voting_phase \in {"Registration", "Commit"} => \A a \in Account : vote[a] = NoBytes
    /\ voting_phase \in {"Vote", "Result"} => AllCommitted
    /\ voting_phase = "Result" => AllVoted
    /\ voting_result # <<-1, -1>> => voting_phase = "Result"
    /\ Voted # {} => AllCommitted

\* A voter's fields are filled in the order of the phases.
LEMMA FieldsStep == TypeOK /\ FieldsInv /\ [Next]_vars => FieldsInv'
<1> SUFFICES ASSUME TypeOK, FieldsInv, [Next]_vars PROVE FieldsInv'
  OBVIOUS
<1> USE BytesAssumption DEF TypeOK, FieldsInv
<1>1. ASSUME NEW a \in Account, NEW key \in Bytes, NEW zkp \in Zkp,
             NEW deposit \in Amount, register(a, key, zkp, deposit)
      PROVE FieldsInv'
  BY <1>1 DEF register
<1>2. ASSUME NEW a \in Account, NEW key \in Bytes, NEW c \in Digest, commit(a, key, c)
      PROVE FieldsInv'
  BY <1>2 DEF commit, Bytes
<1>3. ASSUME NEW a \in Account, NEW ballot \in Bytes, NEW zkp \in Zkp,
             cast_vote(a, ballot, zkp)
      PROVE FieldsInv'
  BY <1>3 DEF cast_vote
<1>4. ASSUME UNCHANGED <<voters, voting_key, reconstructed_key, commitment, vote>>
      PROVE FieldsInv'
  BY <1>4
<1>5. CASE result
  BY <1>4, <1>5 DEF result
<1>6. ASSUME NEW a \in Account, change_phase(a) PROVE FieldsInv'
  BY <1>4, <1>6 DEF change_phase
<1>7. CASE Tick
  BY <1>4, <1>7 DEF Tick
<1>8. CASE UNCHANGED vars
  BY <1>4, <1>8 DEF vars
<1> QED BY <1>1, <1>2, <1>3, <1>5, <1>6, <1>7, <1>8 DEF Next

\* The phase moves on with the whole roll only.
LEMMA PhaseStep == TypeOK /\ FieldsInv /\ PhaseInv /\ [Next]_vars => PhaseInv'
<1> SUFFICES ASSUME TypeOK, FieldsInv, PhaseInv, [Next]_vars PROVE PhaseInv'
  OBVIOUS
<1> USE BytesAssumption, ConfigAssumption
<1>1. ASSUME NEW a \in Account, NEW key \in Bytes, NEW zkp \in Zkp,
             NEW deposit \in Amount, register(a, key, zkp, deposit)
      PROVE PhaseInv'
  BY <1>1 DEF register, TypeOK, PhaseInv, AllCommitted, AllVoted, Voted
<1>2. ASSUME NEW a \in Account, NEW key \in Bytes, NEW c \in Digest, commit(a, key, c)
      PROVE PhaseInv'
  BY <1>2 DEF commit, TypeOK, FieldsInv, PhaseInv, AllCommitted, AllVoted, Voted, Bytes
<1>3. ASSUME NEW a \in Account, NEW ballot \in Bytes, NEW zkp \in Zkp,
             cast_vote(a, ballot, zkp)
      PROVE PhaseInv'
  BY <1>3 DEF cast_vote, TypeOK, PhaseInv, AllCommitted, AllVoted, Voted
<1>4. CASE result
  BY <1>4 DEF result, ResultOpen, PhaseInv, AllCommitted, AllVoted, Voted
<1>5. ASSUME NEW a \in Account, change_phase(a) PROVE PhaseInv'
  BY <1>5 DEF change_phase, Enter, AbortBy, PhaseInv, FieldsInv, AllCommitted, AllVoted, Voted
<1>6. CASE Tick
  BY <1>6 DEF Tick, PhaseInv, AllCommitted, AllVoted, Voted
<1>7. CASE UNCHANGED vars
  BY <1>7 DEF vars, PhaseInv, AllCommitted, AllVoted, Voted
<1> QED BY <1>1, <1>2, <1>3, <1>4, <1>5, <1>6, <1>7 DEF Next

\* So the roll is complete before each phase.
LEMMA FieldsPhaseInvariant == Spec => [](TypeOK /\ FieldsInv /\ PhaseInv)
<1>1. setup => FieldsInv /\ PhaseInv
  BY ConfigAssumption DEF setup, FieldsInv, PhaseInv, Voted
<1> QED BY <1>1, TypeCorrect, FieldsStep, PhaseStep, PTL DEF Spec

\* Ballots are revealed only once the whole roll is bound by commitments, and
\* the tally is taken over the ballots of the whole roll.
THEOREM PhasesComplete == Spec => []PhaseComplete
<1>1. PhaseInv => PhaseComplete
  BY DEF PhaseInv, PhaseComplete, AllVoted
<1> QED BY <1>1, FieldsPhaseInvariant, PTL

-----------------------------------------------------------------------------
\* A stored ballot opens the commitment stored beside it.
THEOREM BallotsBinding == Spec => []BallotOpensCommitment
<1>1. setup => BallotOpensCommitment
  BY DEF setup, BallotOpensCommitment
<1>2. /\ TypeOK /\ FieldsInv /\ PhaseInv /\ BallotOpensCommitment
      /\ [Next]_vars
      => BallotOpensCommitment'
  <2> SUFFICES ASSUME TypeOK, FieldsInv, PhaseInv, BallotOpensCommitment, [Next]_vars
               PROVE  BallotOpensCommitment'
    OBVIOUS
  <2> USE BytesAssumption DEF TypeOK, BallotOpensCommitment
  <2>1. ASSUME NEW a \in Account, NEW key \in Bytes, NEW zkp \in Zkp,
               NEW deposit \in Amount, register(a, key, zkp, deposit)
        PROVE BallotOpensCommitment'
    BY <2>1 DEF register, FieldsInv
  <2>2. ASSUME NEW a \in Account, NEW key \in Bytes, NEW c \in Digest, commit(a, key, c)
        PROVE BallotOpensCommitment'
    BY <2>2, ConfigAssumption DEF commit, PhaseInv
  <2>3. ASSUME NEW a \in Account, NEW ballot \in Bytes, NEW zkp \in Zkp,
               cast_vote(a, ballot, zkp)
        PROVE BallotOpensCommitment'
    BY <2>3 DEF cast_vote, check_commitment
  <2>4. ASSUME UNCHANGED <<voters, vote, commitment, reconstructed_key>>
        PROVE BallotOpensCommitment'
    BY <2>4
  <2>5. CASE result
    BY <2>4, <2>5 DEF result
  <2>6. ASSUME NEW a \in Account, change_phase(a) PROVE BallotOpensCommitment'
    BY <2>4, <2>6 DEF change_phase
  <2>7. CASE Tick
    BY <2>4, <2>7 DEF Tick
  <2>8. CASE UNCHANGED vars
    BY <2>4, <2>8 DEF vars
  <2> QED BY <2>1, <2>2, <2>3, <2>5, <2>6, <2>7, <2>8 DEF Next
<1> QED BY <1>1, <1>2, FieldsPhaseInvariant, PTL DEF Spec
-----------------------------------------------------------------------------
(* The ledger.                                                             *)

\* Until the vote aborts, an account has its deposit back exactly when its
\* ballot is stored, and only once.
THEOREM DepositsBack == Spec => []DepositBackForBallot
<1> USE DEF DepositBackForBallot, Voted
<1>1. setup => DepositBackForBallot
  BY DEF setup
<1>2. TypeOK /\ FieldsInv /\ DepositBackForBallot /\ [Next]_vars
      => DepositBackForBallot'
  <2> SUFFICES ASSUME TypeOK, FieldsInv, DepositBackForBallot, [Next]_vars
               PROVE  DepositBackForBallot'
    OBVIOUS
  <2>1. ASSUME NEW a \in Account, NEW key \in Bytes, NEW zkp \in Zkp,
               NEW deposit \in Amount, register(a, key, zkp, deposit)
        PROVE DepositBackForBallot'
    BY <2>1 DEF register, FieldsInv
  <2>2. ASSUME NEW a \in Account, NEW key \in Bytes, NEW c \in Digest, commit(a, key, c)
        PROVE DepositBackForBallot'
    BY <2>2 DEF commit, ledger
  <2>3. ASSUME NEW a \in Account, NEW ballot \in Bytes, NEW zkp \in Zkp,
               cast_vote(a, ballot, zkp)
        PROVE DepositBackForBallot'
    BY <2>3, BytesAssumption, ConfigAssumption
    DEF cast_vote, transfer, NotYetVoted, TypeOK
  <2>4. CASE result
    BY <2>4 DEF result, ResultOpen, ledger
  <2>5. ASSUME NEW a \in Account, change_phase(a) PROVE DepositBackForBallot'
    BY <2>5 DEF change_phase, Enter, AbortBy, ledger
  <2>6. CASE Tick
    BY <2>6 DEF Tick, ledger
  <2>7. CASE UNCHANGED vars
    BY <2>7 DEF vars
  <2> QED BY <2>1, <2>2, <2>3, <2>4, <2>5, <2>6, <2>7 DEF Next
<1> QED BY <1>1, <1>2, FieldsPhaseInvariant, PTL DEF Spec

\* Until the vote aborts, the balance is one deposit for every registered
\* voter whose ballot is not stored: vote can always pay the deposit back.
THEOREM EscrowExact == Spec => []Escrow
<1> DEFINE Open == voters \ Voted
<1>1. setup => Escrow
  <2> SUFFICES ASSUME setup PROVE Escrow
    OBVIOUS
  <2>1. Open = {}
    BY DEF setup
  <2>2. Deposit * 0 = 0
    BY ConfigAssumption
  <2> QED BY <2>1, <2>2, FS_EmptySet DEF setup, Escrow
<1>2. TypeOK /\ FieldsInv /\ Escrow /\ [Next]_vars => Escrow'
  <2> SUFFICES ASSUME TypeOK, FieldsInv, Escrow, [Next]_vars PROVE Escrow'
    OBVIOUS
  <2>0. /\ IsFiniteSet(Open)
        /\ Cardinality(Open) \in Nat
        /\ Deposit \in Nat
    BY VotersFinite, ConfigAssumption
  <2>1. ASSUME NEW a \in Account, NEW key \in Bytes, NEW zkp \in Zkp,
               NEW deposit \in Amount, register(a, key, zkp, deposit)
        PROVE Escrow'
    <3>1. Open' = Open \cup {a} /\ a \notin Open
      BY <2>1 DEF register, FieldsInv, Voted
    <3>2. Cardinality(Open') = Cardinality(Open) + 1
      BY <3>1, <2>0, FS_AddElement
    <3>3. balance' = Deposit * Cardinality(Open) + Deposit
      BY <2>1 DEF register, DepositMatches, Escrow
    <3> HIDE DEF Open
    <3>4. balance' = Deposit * (Cardinality(Open) + 1)
      BY <3>3, <2>0
    <3> QED BY <3>2, <3>4 DEF Escrow, Open
  <2>2. ASSUME NEW a \in Account, NEW key \in Bytes, NEW c \in Digest, commit(a, key, c)
        PROVE Escrow'
    BY <2>2 DEF commit, ledger, Escrow, Voted
  <2>3. ASSUME NEW a \in Account, NEW ballot \in Bytes, NEW zkp \in Zkp,
               cast_vote(a, ballot, zkp)
        PROVE Escrow'
    <3>1. Open' = Open \ {a} /\ a \in Open
      BY <2>3, BytesAssumption DEF cast_vote, NotYetVoted, TypeOK, Voted
    <3>2. Cardinality(Open') = Cardinality(Open) - 1
      BY <3>1, <2>0, FS_RemoveElement
    <3>3. balance' = Deposit * Cardinality(Open) - Deposit
      BY <2>3 DEF cast_vote, transfer, Escrow
    <3> HIDE DEF Open
    <3>4. balance' = Deposit * (Cardinality(Open) - 1)
      BY <3>3, <2>0
    <3> QED BY <3>2, <3>4 DEF Escrow, Open
  <2>4. CASE result
    BY <2>4 DEF result, ResultOpen, ledger, Escrow, Voted
  <2>5. ASSUME NEW a \in Account, change_phase(a) PROVE Escrow'
    BY <2>5 DEF change_phase, Enter, AbortBy, ledger, Escrow, Voted
  <2>6. CASE Tick
    BY <2>6 DEF Tick, ledger, Escrow, Voted
  <2>7. CASE UNCHANGED vars
    BY <2>7 DEF vars, Escrow, Voted
  <2> QED BY <2>1, <2>2, <2>3, <2>4, <2>5, <2>6, <2>7 DEF Next
<1> QED BY <1>1, <1>2, FieldsPhaseInvariant, PTL DEF Spec

-----------------------------------------------------------------------------
(* The size of the roll.                                                   *)

\* Where the roll may stand when it is closed.
RollInv == voting_phase \in {"Commit", "Vote", "Result"} =>
               Cardinality(voters) > 2 \/ Cardinality(voters) = LeafCount

\* The roll closes with three voters or more, or with a full tree.
LEMMA RollStep == TypeOK /\ RollInv /\ [Next]_vars => RollInv'
<1> SUFFICES ASSUME TypeOK, RollInv, [Next]_vars PROVE RollInv'
  OBVIOUS
<1>1. ASSUME NEW a \in Account, NEW key \in Bytes, NEW zkp \in Zkp,
             NEW deposit \in Amount, register(a, key, zkp, deposit)
      PROVE RollInv'
  BY <1>1 DEF register, AllRegistered, RollInv
<1>2. ASSUME NEW a \in Account, NEW key \in Bytes, NEW c \in Digest, commit(a, key, c)
      PROVE RollInv'
  BY <1>2 DEF commit, RollInv
<1>3. ASSUME NEW a \in Account, NEW ballot \in Bytes, NEW zkp \in Zkp,
             cast_vote(a, ballot, zkp)
      PROVE RollInv'
  BY <1>3 DEF cast_vote, RollInv
<1>4. ASSUME NEW a \in Account, change_phase(a) PROVE RollInv'
  <2> DEFINE keyed == {b \in voters : voting_key[b] # NoBytes}
  <2>1. IsFiniteSet(voters) /\ keyed \subseteq voters
    BY VotersFinite
  <2>2. Cardinality(keyed) <= Cardinality(voters) /\ Cardinality(keyed) \in Nat
        /\ Cardinality(voters) \in Nat
    BY <2>1, FS_Subset, FS_CardinalityType
  <2>3. EnoughKeys => Cardinality(voters) > 2
    BY <2>2 DEF EnoughKeys
  <2> HIDE DEF keyed
  <2> QED BY <1>4, <2>3 DEF change_phase, Enter, AbortBy, RollInv
<1>5. CASE result
  BY <1>5 DEF result, RollInv
<1>6. CASE Tick
  BY <1>6 DEF Tick, RollInv
<1>7. CASE UNCHANGED vars
  BY <1>7 DEF vars, RollInv
<1> QED BY <1>1, <1>2, <1>3, <1>4, <1>5, <1>6, <1>7 DEF Next

\* So it does in every behaviour.
LEMMA RollInvariant == Spec => []RollInv
<1>1. setup => RollInv
  BY DEF setup, RollInv
<1> QED BY <1>1, RollStep, TypeCorrect, PTL DEF Spec
-----------------------------------------------------------------------------
(* Phases that wait, and what an abort leaves behind.                      *)

WaitInv ==
    /\ voting_phase = "Registration" => voters = {} \/ Cardinality(voters) # LeafCount
    /\ voting_phase = "Commit" => ~AllCommitted
    /\ voting_phase = "Vote" => ~AllVoted

\* The last call of a phase opens the next one.
LEMMA WaitStep == TypeOK /\ FieldsInv /\ PhaseInv /\ WaitInv /\ [Next]_vars => WaitInv'
<1> SUFFICES ASSUME TypeOK, FieldsInv, PhaseInv, WaitInv, [Next]_vars PROVE WaitInv'
  OBVIOUS
<1>1. ASSUME NEW a \in Account, NEW key \in Bytes, NEW zkp \in Zkp,
             NEW deposit \in Amount, register(a, key, zkp, deposit)
      PROVE WaitInv'
  BY <1>1 DEF register, AllRegistered, WaitInv, PhaseInv, AllCommitted
<1>2. ASSUME NEW a \in Account, NEW key \in Bytes, NEW c \in Digest, commit(a, key, c)
      PROVE WaitInv'
  <2>1. vote'[a] = NoBytes /\ a \in voters'
    BY <1>2 DEF commit, PhaseInv
  <2> QED BY <1>2, <2>1 DEF commit, WaitInv, AllVoted
<1>3. ASSUME NEW a \in Account, NEW ballot \in Bytes, NEW zkp \in Zkp,
             cast_vote(a, ballot, zkp)
      PROVE WaitInv'
  BY <1>3 DEF cast_vote, WaitInv
<1>4. ASSUME NEW a \in Account, change_phase(a) PROVE WaitInv'
  <2>1. EnoughKeys => voters # {}
    <3> SUFFICES ASSUME EnoughKeys, voters = {} PROVE FALSE
      OBVIOUS
    <3>1. {b \in voters : voting_key[b] # NoBytes} = {}
      OBVIOUS
    <3> QED BY <3>1, FS_EmptySet DEF EnoughKeys
  <2>2. voting_phase = "Registration" /\ voters # {} => ~AllCommitted
    BY ConfigAssumption DEF PhaseInv, AllCommitted, TypeOK
  <2> QED BY <1>4, <2>1, <2>2
          DEF change_phase, Enter, AbortBy, WaitInv, AllCommitted, AllVoted
<1>5. CASE result
  BY <1>5 DEF result, ResultOpen, WaitInv
<1>6. CASE Tick
  BY <1>6 DEF Tick, WaitInv, AllCommitted, AllVoted
<1>7. CASE UNCHANGED vars
  BY <1>7 DEF vars, WaitInv, AllCommitted, AllVoted
<1> QED BY <1>1, <1>2, <1>3, <1>4, <1>5, <1>6, <1>7 DEF Next

\* So no complete phase waits.
LEMMA WaitInvariant == Spec => []WaitInv
<1>1. setup => WaitInv
  BY DEF setup, WaitInv
<1> QED BY <1>1, WaitStep, FieldsPhaseInvariant, PTL DEF Spec

\* No phase waits for a call that every voter has made: the last voter's call
\* has moved the election on, so the first branches of change_phase for Commit
\* and Vote are never taken.
THEOREM NoWaiting == ASSUME LeafCount # 0 PROVE Spec => []NoCompletePhaseWaits
<1>1. WaitInv => NoCompletePhaseWaits
  BY FS_EmptySet DEF WaitInv, NoCompletePhaseWaits, AllVoted, Voted
<1> QED BY <1>1, WaitInvariant, PTL

\* An abort gives every voter who did its part its deposit and pays a voter
\* who stalled nothing, whichever phase was aborted and whoever called.
THEOREM AbortsSettle == Spec => []AbortSettlement
<1> DEFINE Known == /\ TypeOK /\ FieldsInv /\ PhaseInv
                    /\ RollInv /\ WaitInv /\ DepositBackForBallot
<1>1. setup => AbortSettlement
  BY DEF setup, AbortSettlement
<1>2. Known /\ AbortSettlement /\ [Next]_vars => AbortSettlement'
  <2> SUFFICES ASSUME Known, AbortSettlement, [Next]_vars PROVE AbortSettlement'
    OBVIOUS
  <2>1. ASSUME NEW s \in Account, change_phase(s), voting_phase' = "Abort",
               voting_phase # "Abort"
        PROVE AbortSettlement'
    <3> DEFINE reward == IF Rewarded(s) THEN Deposit ELSE 0
               due(b) == (IF b = s THEN reward ELSE 0)
                           + (IF b \in honest_accounts THEN Deposit ELSE 0)
    <3>1. /\ voting_phase \in {"Registration", "Commit", "Vote"}
          /\ voting_phase = "Registration" => ~EnoughKeys
          /\ refund_deposits(s)
          /\ UNCHANGED <<voters, voting_key, reconstructed_key, commitment, vote>>
      BY <2>1 DEF change_phase, Enter, AbortBy
    <3>2. paid' = [b \in Account |-> paid[b] + due(b)]
      BY <3>1 DEF refund_deposits
    <3>3. ASSUME NEW b \in voters
          PROVE  /\ b \in honest_accounts => paid'[b] >= Deposit
                 /\ b \notin honest_accounts => paid'[b] = 0
      <4>1. b \in Account /\ reward \in Nat /\ Deposit \in Nat
        BY RefundAmounts, ConfigAssumption DEF TypeOK
      <4>2. paid'[b] = paid[b] + due(b)
        BY <3>2, <4>1
      <4>3. paid[b] \in Nat
        BY <4>1 DEF TypeOK
      <4>4. b \notin honest_accounts => paid[b] = 0
        BY <3>1, <4>1, <2>1
        DEF honest_accounts, Contributed, DepositBackForBallot, Voted, PhaseInv
      <4>5. b \notin honest_accounts /\ b = s => reward = 0
        BY DEF Rewarded, stalling_accounts
      <4> HIDE DEF reward
      <4> QED BY <4>1, <4>2, <4>3, <4>4, <4>5
    <3>4. \A b \in voters : b \in Account
      BY ConfigAssumption DEF TypeOK
    <3>5. CASE voting_phase = "Registration"
      <4>1. honest_accounts = voters /\ {b \in voters : voting_key[b] # NoBytes} = voters
        BY <3>4, <3>5 DEF honest_accounts, Contributed, FieldsInv
      <4>2. Cardinality(voters) <= 2
        BY <3>1, <3>5, <4>1, VotersFinite DEF EnoughKeys
      <4>3. voters # {} => AbortedIn' = "Registration"
        BY <3>1, <3>5, <4>2 DEF AbortedIn, WaitInv
      <4>4. \A b \in voters : voting_key[b] # NoBytes
        BY <4>1
      <4> QED BY <3>1, <3>3, <4>1, <4>3, <4>4 DEF AbortSettlement
    <3>6. CASE voting_phase = "Commit"
      <4>1. AbortedIn' = "Commit"
        BY <3>1, <3>6, VotersFinite DEF AbortedIn, RollInv, WaitInv, AllCommitted
      <4>2. honest_accounts = {b \in voters : reconstructed_key[b] # NoBytes}
        BY <3>6 DEF honest_accounts, Contributed
      <4> QED BY <3>1, <3>3, <4>1, <4>2 DEF AbortSettlement
    <3>7. CASE voting_phase = "Vote"
      <4>1. AbortedIn' = "Vote"
        BY <3>1, <3>7, VotersFinite DEF AbortedIn, RollInv, PhaseInv, AllCommitted
      <4>2. honest_accounts = {b \in voters : vote[b] # NoBytes}
        BY <3>7 DEF honest_accounts, Contributed
      <4> QED BY <3>1, <3>3, <4>1, <4>2 DEF AbortSettlement
    <3> QED BY <3>1, <3>5, <3>6, <3>7
  <2>2. CASE voting_phase' # "Abort"
    BY <2>2 DEF AbortSettlement
  <2>3. ASSUME voting_phase = "Abort",
               UNCHANGED <<voting_phase, voters, voting_key, reconstructed_key,
                           commitment, vote, paid>>
        PROVE AbortSettlement'
    BY <2>3 DEF AbortSettlement, AbortedIn, AllCommitted
  <2>4. ASSUME NEW a \in Account, NEW key \in Bytes, NEW zkp \in Zkp,
               NEW deposit \in Amount, register(a, key, zkp, deposit)
        PROVE AbortSettlement'
    BY <2>2, <2>4 DEF register
  <2>5. ASSUME NEW a \in Account, NEW key \in Bytes, NEW c \in Digest, commit(a, key, c)
        PROVE AbortSettlement'
    BY <2>2, <2>5 DEF commit
  <2>6. ASSUME NEW a \in Account, NEW ballot \in Bytes, NEW zkp \in Zkp,
               cast_vote(a, ballot, zkp)
        PROVE AbortSettlement'
    BY <2>2, <2>6 DEF cast_vote
  <2>7. CASE result
    BY <2>2, <2>7 DEF result, ResultOpen
  <2>8. ASSUME NEW a \in Account, change_phase(a) PROVE AbortSettlement'
    BY <2>1, <2>2, <2>8 DEF change_phase
  <2>9. CASE Tick
    BY <2>2, <2>3, <2>9 DEF Tick, ledger
  <2>10. CASE UNCHANGED vars
    BY <2>2, <2>3, <2>10 DEF vars
  <2> QED BY <2>4, <2>5, <2>6, <2>7, <2>8, <2>9, <2>10 DEF Next
<1> QED BY <1>1, <1>2, FieldsPhaseInvariant, RollInvariant, WaitInvariant,
           DepositsBack, PTL DEF Spec
-----------------------------------------------------------------------------
\* The published result is the one its ballots give.
ResultInv ==
    voting_result # <<-1, -1>> =>
        LET yes_votes == brute_force_tally([a \in voters |-> vote[a]])
        IN  voting_result = <<yes_votes, Cardinality(voters) - yes_votes>>

\* Once the result is out, no call changes the roll, a ballot or the result.
LEMMA ResultFrozen ==
    ASSUME PhaseInv, ResultInv, voting_result # <<-1, -1>>, [Next]_vars
    PROVE  UNCHANGED <<voters, vote, voting_result>>
<1>1. voting_phase = "Result"
  BY DEF PhaseInv
<1>2. ASSUME NEW a \in Account, NEW key \in Bytes, NEW zkp \in Zkp,
             NEW deposit \in Amount, register(a, key, zkp, deposit)
      PROVE FALSE
  BY <1>1, <1>2 DEF register
<1>3. ASSUME NEW a \in Account, NEW key \in Bytes, NEW c \in Digest, commit(a, key, c)
      PROVE FALSE
  BY <1>1, <1>3 DEF commit
<1>4. ASSUME NEW a \in Account, NEW ballot \in Bytes, NEW zkp \in Zkp,
             cast_vote(a, ballot, zkp)
      PROVE FALSE
  BY <1>1, <1>4 DEF cast_vote
<1>5. ASSUME NEW a \in Account, change_phase(a) PROVE FALSE
  BY <1>1, <1>5 DEF change_phase
<1>6. CASE result
  BY <1>6 DEF result, ResultInv
<1>7. CASE Tick
  BY <1>7 DEF Tick
<1>8. CASE UNCHANGED vars
  BY <1>8 DEF vars
<1> QED BY <1>2, <1>3, <1>4, <1>5, <1>6, <1>7, <1>8 DEF Next

\* A result that was computed stays.
LEMMA ResultStep == PhaseInv /\ ResultInv /\ [Next]_vars => ResultInv'
<1> SUFFICES ASSUME PhaseInv, ResultInv, [Next]_vars PROVE ResultInv'
  OBVIOUS
<1>1. CASE voting_result # <<-1, -1>>
  BY <1>1, ResultFrozen DEF ResultInv
<1>2. CASE result
  BY <1>2 DEF result, ResultInv
<1>3. CASE voting_result = <<-1, -1>> /\ ~result
  <2>1. voting_result' = voting_result
    BY <1>3 DEF Next, vars, register, commit, cast_vote, change_phase, Tick
  <2> QED BY <1>3, <2>1 DEF ResultInv
<1> QED BY <1>1, <1>2, <1>3

\* Calling result again, after whatever else is called, gives the same result.
THEOREM ResultsStable == Spec => ResultStable
<1>1. setup => ResultInv
  BY DEF setup, ResultInv
<1>2. PhaseInv /\ ResultInv /\ [Next]_vars
      => [voting_result # <<-1, -1>> => voting_result' = voting_result]_vars
  BY ResultFrozen
<1> QED BY <1>1, <1>2, ResultStep, FieldsPhaseInvariant, PTL DEF Spec, ResultStable
-----------------------------------------------------------------------------
(* The sealed ballot.                                                      *)

\* An initial state is one of the sealed ballot.
LEMMA RefinementInit == setup => Ballots!Init
BY DEF setup, Ballots!Init, RoundOf

\* A step is one of the sealed ballot, or changes nothing there.
LEMMA RefinementStep ==
    ASSUME TypeOK, FieldsInv, PhaseInv, WaitInv, [Next]_vars
    PROVE  [Ballots!Next]_(Ballots!vars)
<1>1. ASSUME NEW a \in Account, NEW key \in Bytes, NEW zkp \in Zkp,
             NEW deposit \in Amount, register(a, key, zkp, deposit)
      PROVE Ballots!Enrol(a)
  BY <1>1 DEF register, Ballots!Enrol, RoundOf
<1>2. ASSUME NEW a \in Account, NEW key \in Bytes, NEW c \in Digest, commit(a, key, c)
      PROVE Ballots!PutSeal(a, c)
  <2>1. /\ key # NoBytes /\ c # NoBytes
        /\ \A u \in voters : commitment'[u] # NoBytes <=> reconstructed_key'[u] # NoBytes
    BY <1>2, ConfigAssumption DEF commit, FieldsInv, TypeOK
  <2>2. AllCommitted' <=> \A u \in voters : commitment'[u] # NoBytes
    BY <1>2, <2>1 DEF commit, AllCommitted
  <2> QED BY <1>2, <2>2 DEF commit, Ballots!PutSeal, RoundOf
<1>3. ASSUME NEW a \in Account, NEW b \in Bytes, NEW zkp \in Zkp,
             cast_vote(a, b, zkp)
      PROVE Ballots!Open(a, b)
  BY <1>3 DEF cast_vote, NotYetVoted, check_commitment, AllVoted, Ballots!Open, RoundOf
<1>4. ASSUME result PROVE Ballots!Count
  <2> DEFINE ballots == [a \in voters |-> vote[a]]
  <2>1. DOMAIN ballots = voters
    OBVIOUS
  <2>2. voting_result' = ResultOf(ballots)
    BY <1>4, <2>1 DEF result, ResultOf
  <2> QED BY <1>4, <2>2 DEF result, ResultOpen, Ballots!Count, RoundOf
<1>5. ASSUME NEW a \in Account, change_phase(a)
      PROVE Ballots!CloseRoll \/ Ballots!GiveUp
  <2>1. UNCHANGED <<voters, commitment, vote, voting_result>>
    BY <1>5 DEF change_phase
  <2>2. \/ voting_phase = "Registration" /\ voting_phase' \in {"Commit", "Abort"}
        \/ voting_phase \in {"Commit", "Vote"} /\ voting_phase' = "Abort"
    BY <1>5 DEF change_phase, Enter, AbortBy, WaitInv
  <2> QED BY <2>1, <2>2 DEF Ballots!CloseRoll, Ballots!GiveUp, RoundOf
<1>6. CASE Tick
  BY <1>6 DEF Tick, Ballots!vars, RoundOf
<1>7. CASE UNCHANGED vars
  BY <1>7 DEF vars, Ballots!vars, RoundOf
<1> QED BY <1>1, <1>2, <1>3, <1>4, <1>5, <1>6, <1>7 DEF Next, Ballots!Next

\* Every behaviour of the contract, seen through its phases, roll, commitments,
\* ballots and result, is a behaviour of the sealed ballot.
THEOREM Implementation == Spec => ImplementsSealedBallot
<1>1. TypeOK /\ FieldsInv /\ PhaseInv /\ WaitInv /\ [Next]_vars
      => [Ballots!Next]_(Ballots!vars)
  BY RefinementStep
<1> QED BY <1>1, RefinementInit, FieldsPhaseInvariant, WaitInvariant, PTL
        DEF Spec, Ballots!Spec, ImplementsSealedBallot
=============================================================================
