------------------------------- MODULE Erc721 -------------------------------
(***************************************************************************)
(* The ERC721 example: tokens that exist from the start, each with an owner*)
(* and at most one address approved for it; an address may also have       *)
(* operators for everything it owns.                                       *)
(***************************************************************************)
EXTENDS Host

CONSTANTS Tokens

NoAddress == Nobody  \* no entry in a map, and the code's None

\* `granted` is not in the program: the owner under whom a token's approval
\* was given.
Init ==
  /\ HostInit
  /\ \E tokens \in SUBSET Tokens :
       state = [ token_owners |-> [t \in Tokens |-> IF t \in tokens THEN Owner ELSE NoAddress],
                 token_approvals |-> [t \in Tokens |-> NoAddress],
                 owner_operators |-> [a \in Addresses |-> {}],
                 granted |-> [t \in Tokens |-> NoAddress] ]

get_owner(t) == state.token_owners[t]
exists(t) == get_owner(t) # NoAddress
is_owner(a, t) == get_owner(t) = a
is_approved(a, t) == state.token_approvals[t] = a
is_operator(address, owner) == address \in state.owner_operators[owner]

\* State::transfer: the owner changes and the approval is withdrawn.
transfer_approved(to, t) == [state EXCEPT !.token_owners[t] = to]
transfer(to, t) ==
  [state EXCEPT !.token_owners[t] = to, !.token_approvals[t] = NoAddress]

approve(approved, t) ==
  [state EXCEPT !.token_approvals[t] = approved, !.granted[t] = get_owner(t)]

approval_for_all(owner, operator, approved) ==
  [state EXCEPT !.owner_operators[owner] =
     IF approved THEN @ \cup {operator} ELSE @ \ {operator}]

\* The errors of transfer_from, in the order of its checks.
TransferError_anyFrom(sender, from, t) ==
  IF ~exists(t) THEN "NoTokenWithThisId"
  ELSE IF ~(is_owner(sender, t) \/ is_approved(sender, t) \/ is_operator(sender, from))
       THEN "Unauthorized"
  ELSE "none"
TransferError(sender, from, t) ==
  IF ~exists(t) THEN "NoTokenWithThisId"
  ELSE IF ~(is_owner(sender, t) \/ is_approved(sender, t) \/ is_operator(sender, from))
       THEN "Unauthorized"
  ELSE IF ~is_owner(from, t) THEN "FromIsNotTheOwner"
  ELSE "none"

\* contract_transfer_from: the receiver is not told.
TransferFrom ==
  /\ Reading("transferFrom")
  /\ \E t \in Tokens, from \in Addresses, to \in Addresses :
       TransferError(Top.by, from, t) = "none" /\ Execute(transfer(to, t))

\* contract_safe_transfer_from: a receiving contract is invoked.  When it is
\* this instance, onERC721Received moves the token on to the owner.
SafeTransferFrom ==
  /\ Reading("safeTransferFrom")
  /\ \E t \in Tokens, from \in Addresses, to \in Addresses :
       /\ TransferError(Top.by, from, t) = "none"
       /\ \/ to \in Accounts /\ Execute(transfer(to, t))
          \/ to \in Contracts /\ Invoke(transfer(to, t), to, 0)
          \/ to = Self /\ Execute(transfer(Owner, t))

TransferRejects ==
  /\ Reading("transferFrom") \/ Reading("safeTransferFrom")
  /\ \E t \in Tokens, from \in Addresses :
       \/ /\ TransferError(Top.by, from, t) # "none"
          /\ Reject(TransferError(Top.by, from, t))
       \/ /\ TransferError(Top.by, from, t) = "none" /\ Top.entrypoint = "safeTransferFrom"
          /\ Reject("MissingContractReceiveName")

ApproveError(sender, approved, t) ==
  IF ~exists(t) THEN "NoTokenWithThisId"
  ELSE IF approved = get_owner(t) THEN "ApprovedIsOwner"
  ELSE IF sender # get_owner(t) /\ ~is_operator(sender, get_owner(t)) THEN "Unauthorized"
  ELSE "none"

\* contract_approve
Approve ==
  /\ Reading("approve")
  /\ \E t \in Tokens, approved \in Addresses \cup {NoAddress} :
       ApproveError(Top.by, approved, t) = "none" /\ Execute(approve(approved, t))

ApproveRejects ==
  /\ Reading("approve")
  /\ \E t \in Tokens, approved \in Addresses \cup {NoAddress} :
       /\ ApproveError(Top.by, approved, t) # "none"
       /\ Reject(ApproveError(Top.by, approved, t))

\* contract_set_approval_for_all
SetApprovalForAll ==
  /\ Reading("setApprovalForAll")
  /\ \/ \E operator \in Addresses \ {Top.by}, approved \in BOOLEAN :
          Execute(approval_for_all(Top.by, operator, approved))
     \/ Reject("OperatorIsSender")

\* contract_on_erc721_received: the safeTransferFrom of the calling contract
\* is invoked, to forward what it says was received.
OnERC721Received ==
  Reading("onERC721Received") /\ Top.by \in Contracts /\ Invoke(state, Top.by, 0)

\* The queries answer by invoking the contract that asked.
BalanceOf == Reading("balanceOf") /\ Top.by \in Contracts /\ Invoke(state, Top.by, 0)
OwnerOf ==
  /\ Reading("ownerOf") /\ Top.by \in Contracts
  /\ \E t \in Tokens : exists(t) /\ Invoke(state, Top.by, 0)
GetApproved == Reading("getApproved") /\ Top.by \in Contracts /\ Invoke(state, Top.by, 0)
IsApprovedForAll ==
  Reading("isApprovedForAll") /\ Top.by \in Contracts /\ Invoke(state, Top.by, 0)

ForAnyone == {"transferFrom", "safeTransferFrom", "approve", "setApprovalForAll"}
ForContracts ==
  {"onERC721Received", "balanceOf", "ownerOf", "getApproved", "isApprovedForAll"}

Enters ==
  \E a \in Addresses :
    \/ \E entrypoint \in ForAnyone : Enter(a, entrypoint, 0, 1)
    \/ a \in Contracts /\ \E entrypoint \in ForContracts : Enter(a, entrypoint, 0, 1)

Next ==
  \/ Enters \/ TransferFrom \/ SafeTransferFrom \/ TransferRejects
  \/ Approve \/ ApproveRejects \/ SetApprovalForAll \/ OnERC721Received
  \/ BalanceOf \/ OwnerOf \/ GetApproved \/ IsApprovedForAll
  \/ Callees \/ Finish

vars == <<state, hostVars>>
Spec == Init /\ [][Next]_vars

Optional == Addresses \cup {NoAddress}
States ==
  [ token_owners : [Tokens -> Optional], token_approvals : [Tokens -> Optional],
    owner_operators : [Addresses -> SUBSET Addresses], granted : [Tokens -> Optional] ]

TypeOK ==
  /\ state \in States
  /\ stack \in Seq(Frame(ForAnyone \cup ForContracts, States, {Nobody}))

\* In `s`, a token's approval was given under its present owner and names
\* somebody else, and nobody is among its own operators.
ApprovalsOf(s) ==
  /\ \A t \in Tokens : s.token_approvals[t] # NoAddress =>
       /\ s.token_owners[t] \in Addresses
       /\ s.granted[t] = s.token_owners[t]
       /\ s.token_approvals[t] # s.token_owners[t]
  /\ \A a \in Addresses : a \notin s.owner_operators[a]

\* No approval outlives the ownership it was given under, whatever the
\* contracts that receive tokens call back and reject in between.
ApprovalsCurrent == ApprovalsOf(state)

\* A token changes its owner only in a transfer sent by the owner, by the one
\* approved for it or by an operator of the owner, or when that is undone;
\* and tokens neither appear nor vanish.
OwnerConsents ==
  \A t \in Tokens :
    get_owner(t) # state'.token_owners[t] /\ Len(stack') >= Len(stack)
      => /\ exists(t) /\ state'.token_owners[t] # NoAddress
         /\ Top.entrypoint \in {"transferFrom", "safeTransferFrom"}
         /\ \/ Top.by \in {get_owner(t), state.token_approvals[t]}
            \/ is_operator(Top.by, get_owner(t))
=============================================================================
