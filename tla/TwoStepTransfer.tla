--------------------------- MODULE TwoStepTransfer ---------------------------
(***************************************************************************)
(* The two-step transfer contract: it pays out what a holder has requested *)
(* once enough of the holders support the request before it times out.     *)
(***************************************************************************)
EXTENDS Host, Integers, FiniteSetsExt

CONSTANTS
  Holders,      \* account_holders
  Threshold,    \* transfer_agreement_threshold
  TimeToLive,   \* transfer_request_ttl
  Ids,          \* request ids
  MaxCCD,       \* the micro CCD there are
  MaxTime,      \* bound on the clock
  W             \* amounts are natural numbers below W

\* contract_init accepts no other parameters.
TwoStepAssumption ==
  /\ Holders \subseteq Accounts /\ IsFiniteSet(Holders) /\ Cardinality(Holders) >= 2
  /\ Threshold \in 2 .. Cardinality(Holders)
  /\ TimeToLive \in Nat /\ MaxTime \in Nat
  /\ MaxCCD \in Nat /\ W > MaxCCD

\* Where a request may send CCD; Nobody is an address without an account.
Targets == Accounts \cup {Nobody}
Amount == 0 .. MaxCCD

NoRequest ==
  [ transfer_amount |-> 0, target_account |-> Nobody, times_out_at |-> 0, supporters |-> {} ]

Requests ==
  [ transfer_amount : Amount, target_account : Targets,
    times_out_at : 0 .. MaxTime + TimeToLive, supporters : SUBSET Holders ]

\* `consents` records the messages that were accepted and not yet paid on: who
\* wanted which payment under which id, and when the request times out.
Consents == Holders \X Ids \X Amount \X Targets \X (0 .. MaxTime + TimeToLive)

\* contract_init is payable: the instance may start with CCD.
contract_init ==
  /\ self_balance \in Amount /\ stack = <<>> /\ calls = 0 /\ outcome = "none"
  /\ state = [ requests |-> [id \in Ids |-> NoRequest], now |-> 0, consents |-> {} ]

Deposit == Reading("deposit") /\ Execute(state)

\* Requests are dropped when a new one is made after they have timed out.
Active(id) == state.requests[id].times_out_at > state.now
ActiveIds == {id \in Ids : Active(id)}

\* `amount + host.self_balance()`, less what the active requests will take.
Available ==
  (Received + self_balance
     - MapThenSumSet(LAMBDA id : state.requests[id].transfer_amount, ActiveIds)) % W

RequestError(id, amount) ==
  IF Top.by \notin Holders THEN "NotAccountHolder"
  ELSE IF Active(id) THEN "RequestAlreadyExists"
  ELSE IF Available < amount THEN "InsufficientAvailableFunds"
  ELSE "none"

request(id, amount, target) ==
  LET until == state.now + TimeToLive
  IN  [state EXCEPT
        !.requests = [i \in Ids |->
          CASE i = id -> [ transfer_amount |-> amount, target_account |-> target,
                           times_out_at |-> until, supporters |-> {Top.by} ]
            [] i # id /\ Active(i) -> state.requests[i]
            [] OTHER -> NoRequest],
        !.consents = {c \in @ : c[5] > state.now}
                       \cup {<<Top.by, id, amount, target, until>>}]

RequestTransfer ==
  /\ Reading("request")
  /\ \E id \in Ids, amount \in Amount, target \in Targets :
       IF RequestError(id, amount) = "none" THEN Execute(request(id, amount, target))
       ELSE Reject(RequestError(id, amount))

SupportError_anyTarget(id, amount, target) ==
  LET r == state.requests[id]
  IN  IF Top.by \notin Holders THEN "NotAccountHolder"
      ELSE IF r = NoRequest THEN "UnknownTransfer"
      ELSE IF ~Active(id) THEN "RequestTimeout"
      ELSE IF amount # r.transfer_amount THEN "MismatchingRequestInformation"
      ELSE IF Top.by \in r.supporters THEN "RequestAlreadySupported"
      ELSE "none"
SupportError(id, amount, target) ==
  LET r == state.requests[id]
  IN  IF Top.by \notin Holders THEN "NotAccountHolder"
      ELSE IF r = NoRequest THEN "UnknownTransfer"
      ELSE IF ~Active(id) THEN "RequestTimeout"
      ELSE IF <<amount, target>> # <<r.transfer_amount, r.target_account>>
           THEN "MismatchingRequestInformation"
      ELSE IF Top.by \in r.supporters THEN "RequestAlreadySupported"
      ELSE "none"

\* Those whose messages asked for this very payment.
Consenting(id, amount, target) ==
  {h \in Holders :
    <<h, id, amount, target, state.requests[id].times_out_at>> \in state.consents}

support(id, amount, target) ==
  [state EXCEPT
    !.requests[id].supporters = @ \cup {Top.by},
    !.consents = @ \cup {<<Top.by, id, amount, target, state.requests[id].times_out_at>>}]

complete(id) ==
  [state EXCEPT !.requests[id] = NoRequest,
                !.consents = {c \in @ : c[2] # id}]

Completes(id) == Cardinality(state.requests[id].supporters \cup {Top.by}) >= Threshold

PaymentError(amount, target) ==
  IF target = Nobody THEN "InvokeTransferMissingAccount"
  ELSE IF amount > self_balance THEN "InvokeTransferInsufficientFunds"
  ELSE "none"

\* The support that completes the request pays it in the same call.
SupportTransfer ==
  /\ Reading("support")
  /\ \E id \in Ids, amount \in Amount, target \in Targets :
       IF SupportError(id, amount, target) # "none"
       THEN Reject(SupportError(id, amount, target))
       ELSE IF ~Completes(id) THEN Execute(support(id, amount, target))
       ELSE IF PaymentError(amount, target) # "none"
       THEN Reject(PaymentError(amount, target))
       ELSE Continue(complete(id), amount, Nobody, 0, target)

Enters ==
  \E a \in Accounts \cup Contracts, amount \in 0 .. MaxCCD - self_balance :
    \E entrypoint \in {"deposit", "request", "support"} : Enter(a, entrypoint, amount, 1)

Tick ==
  /\ Idle /\ state.now < MaxTime
  /\ state' = [state EXCEPT !.now = @ + 1]
  /\ UNCHANGED hostVars

Next == Enters \/ Deposit \/ RequestTransfer \/ SupportTransfer \/ Finish \/ Tick

States == [ requests : [Ids -> Requests], now : 0 .. MaxTime, consents : SUBSET Consents ]

Entrypoints == {"deposit", "request", "support"}

TypeOK ==
  /\ state \in States
  /\ \A i \in DOMAIN stack : stack[i] \in Frame(Entrypoints, States, Targets)

\* CCD leave the instance only when a message completes a request that
\* `Threshold` different holders have asked for, each with its id, amount and
\* target, while that request was open; a consent pays for one payment.
PaidAsAgreed ==
  Running /\ self_balance' < self_balance /\ Len(stack') = Len(stack)
    => \E id \in Ids :
         LET amount == self_balance - self_balance'
             target == stack'[Len(stack)].local
         IN  /\ state'.requests[id] = NoRequest /\ Active(id)
             /\ Cardinality({Top.by} \cup Consenting(id, amount, target)) >= Threshold

\* What is requested is set aside: the open requests can all be paid.
RequestsCovered ==
  Idle => MapThenSumSet(LAMBDA id : state.requests[id].transfer_amount, ActiveIds)
            <= self_balance
=============================================================================
