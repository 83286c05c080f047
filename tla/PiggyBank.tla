------------------------------ MODULE PiggyBank ------------------------------
(***************************************************************************)
(* The piggy bank, in its three versions: anyone inserts, the owner smashes *)
(* it and gets the balance.  In the oldest version `smash` returns the     *)
(* transfer for the chain to execute after it, in the others it invokes it.*)
(***************************************************************************)
EXTENDS Host

CONSTANT MaxCCD   \* the micro CCD there are

piggy_init == HostInit /\ state = "Intact"

piggy_insert_always == Reading("insert") /\ Execute(state)
piggy_insert ==
  /\ Reading("insert")
  /\ IF state = "Intact" THEN Execute(state) ELSE Reject("()")

SmashError ==
  IF Top.by # Owner THEN "NotOwner"
  ELSE IF state # "Intact" THEN "AlreadySmashed"
  ELSE "none"

\* The bank is smashed before the balance is sent.
piggy_smash ==
  /\ Reading("smash")
  /\ IF SmashError = "none" THEN Pay("Smashed", self_balance) ELSE Reject(SmashError)

\* The version that returns an action: the balance is the one it has seen.
SmashAction ==
  /\ Reading("smash_action") /\ Top.left = 2
  /\ IF SmashError = "none" THEN Continue("Smashed", 0, Nobody, 1, self_balance)
     ELSE Reject(SmashError)

SimpleTransfer ==
  /\ Reading("smash_action") /\ Top.left = 1
  /\ Continue(state, Top.local, Nobody, 0, Nobody)

piggy_view == Reading("view") /\ Execute(state)

Enters ==
  \E a \in Accounts \cup Contracts :
    \/ \E amount \in 0 .. MaxCCD - self_balance : Enter(a, "insert", amount, 1)
    \/ \E smash \in {"smash", "view"} : Enter(a, smash, 0, 1)
    \/ Enter(a, "smash_action", 0, 2)

Next ==
  \/ Enters \/ piggy_insert \/ piggy_smash \/ SmashAction \/ SimpleTransfer
  \/ piggy_view \/ Finish

Entrypoints == {"insert", "smash", "smash_action", "view"}

TypeOK ==
  LET States == {"Intact", "Smashed"}
  IN  /\ state \in States
      /\ \A i \in DOMAIN stack : stack[i] \in Frame(Entrypoints, States, {Nobody} \cup 0 .. MaxCCD)

\* A smashed bank is empty and stays empty.
SmashedIsEmpty == Idle /\ state = "Smashed" => self_balance = 0
=============================================================================
