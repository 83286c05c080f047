---------------------------- MODULE SealedBallot ----------------------------
(***************************************************************************)
(* What the voting contract promises, without deposits, keys, proofs and   *)
(* clocks: a roll that is closed once, ballots that are sealed by all      *)
(* before any is opened, and an outcome that depends on nothing but the    *)
(* opened ballots of the whole roll.                                       *)
(***************************************************************************)
CONSTANTS Voter, Ballot, Seal, Unset,
          Sealed(_),            \* the seal of a ballot
          Outcome(_),           \* the outcome of the ballots of a roll
          NoOutcome

VARIABLES round, roll, seal, ballot, outcome

vars == <<round, roll, seal, ballot, outcome>>

Init ==
    /\ round = "Enrol"
    /\ roll = {}
    /\ seal = [v \in Voter |-> Unset]
    /\ ballot = [v \in Voter |-> Unset]
    /\ outcome = NoOutcome

Enrol(v) ==
    /\ round = "Enrol"
    /\ v \notin roll
    /\ roll' = roll \cup {v}
    /\ round' \in {"Enrol", "Seal"}
    /\ UNCHANGED <<seal, ballot, outcome>>

CloseRoll ==
    /\ round = "Enrol"
    /\ round' = "Seal"
    /\ UNCHANGED <<roll, seal, ballot, outcome>>

PutSeal(v, s) ==
    /\ round = "Seal"
    /\ v \in roll
    /\ seal' = [seal EXCEPT ![v] = s]
    /\ round' = IF \A u \in roll : seal'[u] # Unset THEN "Open" ELSE "Seal"
    /\ UNCHANGED <<roll, ballot, outcome>>

Open(v, b) ==
    /\ round = "Open"
    /\ v \in roll
    /\ ballot[v] = Unset
    /\ Sealed(b) = seal[v]
    /\ ballot' = [ballot EXCEPT ![v] = b]
    /\ round' = IF \A u \in roll : ballot'[u] # Unset THEN "Count" ELSE "Open"
    /\ UNCHANGED <<roll, seal, outcome>>

Count ==
    /\ round = "Count"
    /\ outcome' = Outcome([v \in roll |-> ballot[v]])
    /\ UNCHANGED <<round, roll, seal, ballot>>

GiveUp ==
    /\ round \in {"Enrol", "Seal", "Open"}
    /\ round' = "GivenUp"
    /\ UNCHANGED <<roll, seal, ballot, outcome>>

Next ==
    \/ \E v \in Voter : Enrol(v)
    \/ CloseRoll
    \/ \E v \in Voter, s \in Seal : PutSeal(v, s)
    \/ \E v \in Voter, b \in Ballot : Open(v, b)
    \/ Count
    \/ GiveUp

Spec == Init /\ [][Next]_vars
=============================================================================
