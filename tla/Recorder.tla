------------------------------ MODULE Recorder ------------------------------
(***************************************************************************)
(* The recorder (addresses, each of which `transfer` sends 0 CCD before it *)
(* forgets them all) and counter-notify (a counter that tells another      *)
(* contract its new value, and tells its caller whether that contract has  *)
(* called back).                                                           *)
(***************************************************************************)
EXTENDS Host

-----------------------------------------------------------------------------
\* The contract `recorder`.
RecorderInit == HostInit /\ state = {}

receive_record ==
  Reading("record") /\ \E a \in Accounts : Execute(state \cup {a})

receive_delete ==
  Reading("delete") /\ \E a \in Accounts : Execute(state \ {a})

receive_list == Reading("list") /\ Execute(state)

\* Every address is sent 0 CCD, which fails where there is no such account and
\* is counted where it succeeds; then the set is cleared.
TransferTo ==
  /\ Reading("transfer")
  /\ LET visited == IF Top.local = Nobody THEN {} ELSE Top.local
     IN  IF visited = state THEN Continue({}, 0, Nobody, 0, Nobody)
         ELSE \E a \in state \ visited : Continue(state, 0, Nobody, 1, visited \cup {a})

RecorderNext ==
  \/ \E a \in Accounts \cup Contracts :
       \E entrypoint \in {"record", "delete", "list", "transfer"} : Enter(a, entrypoint, 0, 1)
  \/ receive_record \/ receive_delete \/ receive_list \/ TransferTo \/ Finish

-----------------------------------------------------------------------------
\* The contract `counter-notify`.
CounterInit == HostInit /\ state = 0

just_increment == Reading("just-increment") /\ Execute(state + 1)

\* increment_and_notify, up to the call of the notified contract.
increment_and_notify ==
  /\ Reading("increment-and-notify") /\ Top.left = 2
  /\ \E c \in Contracts : Continue(state + 1, 0, c, 1, state + 1)

\* `preinvoke_count == *host.state()` is the entry point's answer: 1 for true.
Answer ==
  /\ Reading("increment-and-notify") /\ Top.left = 1
  /\ Continue(state, 0, Nobody, 0, IF Top.local = state THEN 1 ELSE 0)

CounterNext ==
  \/ \E a \in Accounts \cup Contracts :
       \/ Enter(a, "just-increment", 0, 1)
       \/ Enter(a, "increment-and-notify", 0, 2)
  \/ just_increment \/ increment_and_notify \/ Answer \/ Callees \/ Finish

RecorderEntrypoints == {"record", "delete", "list", "transfer"}
CounterEntrypoints == {"just-increment", "increment-and-notify"}

RecorderTypeOK ==
  /\ state \in SUBSET Accounts
  /\ \A i \in DOMAIN stack : stack[i] \in Frame(RecorderEntrypoints, SUBSET Accounts, {Nobody} \cup SUBSET Accounts)

CounterTypeOK ==
  /\ state \in 0 .. MaxCalls
  /\ \A i \in DOMAIN stack :
       stack[i] \in Frame(CounterEntrypoints, 0 .. MaxCalls, {Nobody} \cup 0 .. MaxCalls)
=============================================================================
