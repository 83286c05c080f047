------------------------------ MODULE TestHost ------------------------------
(***************************************************************************)
(* A contract under a unit test and the same contract on the chain.  The   *)
(* test host pays out of a balance that the test sets, keeps a list of the *)
(* transfers and answers invocations by mock functions, which work on the  *)
(* contract's balance and state in place.  A mock does what the invoked    *)
(* contract would do to the instance by calling it back.                   *)
(***************************************************************************)
EXTENDS Naturals, Sequences

CONSTANTS
  Accounts,
  Values,       \* values of the state
  First,        \* its value after init
  MaxCCD,       \* bound on the balance
  MaxTransfers  \* bound on the transfers of a test

TestHostAssumption == First \in Values /\ MaxCCD \in Nat /\ MaxTransfers \in Nat

VARIABLES
  node, test,        \* the instance on either side
  missing_accounts,
  running,           \* an entry point runs
  entered,           \* what the node undoes a rejected call to
  answers,           \* to the last call out, on either side
  strayed            \* the test goes on from what the chain would not be in

vars == <<node, test, missing_accounts, running, entered, answers, strayed>>

\* TestHost::new stores the root.
Init ==
  /\ test = [balance |-> 0, state |-> First, stored |-> First, transfers |-> <<>>]
  /\ node = test /\ entered = test
  /\ missing_accounts = {}
  /\ running = FALSE /\ answers = <<"Ok", "Ok">> /\ strayed = FALSE

Both(node_result, test_result) ==
  /\ node' = node_result.instance /\ test' = test_result.instance
  /\ answers' = <<node_result.answer, test_result.answer>>
  /\ UNCHANGED <<missing_accounts, running, entered, strayed>>

Answer(instance, answer) == [instance |-> instance, answer |-> answer]

-----------------------------------------------------------------------------
\* The test is about a chain without the account.
make_account_missing(account) ==
  /\ node.transfers = <<>>
  /\ missing_accounts' = missing_accounts \cup {account}
  /\ UNCHANGED <<node, test, running, entered, answers, strayed>>

\* The test sets the balance to what the instance has with the amount sent.
\* What an earlier entry point changed is in the test host's memory only.
Enter(amount) ==
  /\ ~running /\ ~strayed /\ node.balance + amount <= MaxCCD
  /\ node' = [node EXCEPT !.balance = @ + amount]
  /\ test' = [test EXCEPT !.balance = node.balance + amount]
  /\ running' = TRUE /\ entered' = node
  /\ strayed' = (strayed \/ test.stored # test.state)
  /\ UNCHANGED <<missing_accounts, answers>>

SetState(v) ==
  /\ running
  /\ node' = [node EXCEPT !.state = v] /\ test' = [test EXCEPT !.state = v]
  /\ UNCHANGED <<missing_accounts, running, entered, answers, strayed>>

\* Ok() writes the state back on the chain, and nothing in the test.
Accept ==
  /\ running /\ running' = FALSE
  /\ node' = [node EXCEPT !.stored = node.state]
  /\ UNCHANGED <<test, missing_accounts, entered, answers, strayed>>

\* A rejection undoes the call on the chain, and nothing in the test.
RejectCall ==
  /\ running /\ running' = FALSE
  /\ node' = entered
  /\ strayed' = (strayed \/ test # [entered EXCEPT !.balance = test.balance])
  /\ UNCHANGED <<test, missing_accounts, entered, answers>>

-----------------------------------------------------------------------------
\* Transfers.
Paid(instance, receiver, amount) ==
  [instance EXCEPT !.balance = @ - amount, !.transfers = Append(@, <<receiver, amount>>)]

NodeTransfer(receiver, amount) ==
  IF receiver \in missing_accounts \/ amount > node.balance THEN Answer(node, "Err")
  ELSE Answer(Paid(node, receiver, amount), "Ok")

TestTransfer(receiver, amount) ==
  IF receiver \in missing_accounts THEN Answer(test, "Err")
  ELSE IF amount > 0 /\ amount > test.balance THEN Answer(test, "Err")
  ELSE Answer(Paid(test, receiver, amount), "Ok")

invoke_transfer(receiver, amount) ==
  /\ running /\ Len(test.transfers) < MaxTransfers
  /\ Both(NodeTransfer(receiver, amount), TestTransfer(receiver, amount))

-----------------------------------------------------------------------------
\* Invocations.  What the callee does to the instance: it sends CCD, calls
\* back entry points that spend, and one that sets the state.
Callees == [ok : BOOLEAN, gain : 0 .. MaxCCD, spend : 0 .. MaxCCD, sets : SUBSET Values]
Set(callee, v) == IF callee.sets = {} THEN v ELSE CHOOSE w \in callee.sets : TRUE

commit_state(instance) == [instance EXCEPT !.stored = instance.state]

\* The callee has the amount before it calls back; a failure undoes it all.
NodeInvoke(callee, amount) ==
  LET at == commit_state(node)
  IN  IF amount > node.balance \/ ~callee.ok THEN Answer(at, "Err")
      ELSE Answer([at EXCEPT !.balance = @ - amount + callee.gain - callee.spend,
                             !.state = Set(callee, @), !.stored = Set(callee, @)], "Ok")

\* The mock works on the balance and the state in place; the amount is taken
\* afterwards, and the state stored if the mock says that it changed it.
TestInvoke(callee, amount) ==
  LET at == commit_state(test)
      mocked == [at EXCEPT !.balance = @ + callee.gain - callee.spend, !.state = Set(callee, @)]
      after == [mocked EXCEPT !.balance = @ - amount]
  IN  IF amount > 0 /\ amount > test.balance THEN Answer(at, "Err")
      ELSE IF ~callee.ok THEN Answer(at, "Err")
      ELSE Answer(IF callee.sets = {} THEN after ELSE commit_state(after), "Ok")

\* What the callee spends is in the instance when it is called back.
Can(callee, amount) ==
  /\ amount <= node.balance => callee.spend <= node.balance - amount + callee.gain
  /\ node.balance + callee.gain <= MaxCCD

invoke_contract_raw(callee, amount) ==
  /\ running /\ Can(callee, amount)
  /\ Both(NodeInvoke(callee, amount), TestInvoke(callee, amount))

\* A read-only call shows the stored state and commits nothing; the answer is
\* that state.  A callee that changes it stops both.
NodeReadOnly(callee, amount) ==
  IF amount > node.balance \/ ~callee.ok THEN Answer(node, "Err")
  ELSE Answer([node EXCEPT !.balance = @ - amount + callee.gain - callee.spend], node.stored)
TestReadOnly(callee, amount) ==
  IF (amount > 0 /\ amount > test.balance) \/ ~callee.ok THEN Answer(test, "Err")
  ELSE Answer([test EXCEPT !.balance = @ + callee.gain - callee.spend - amount], test.stored)

invoke_contract_raw_read_only(callee, amount) ==
  /\ running /\ Can(callee, amount) /\ callee.sets = {}
  /\ Both(NodeReadOnly(callee, amount), TestReadOnly(callee, amount))

Next ==
  \/ Accept \/ RejectCall
  \/ \E amount \in 0 .. MaxCCD :
       \/ Enter(amount)
       \/ \E receiver \in Accounts : invoke_transfer(receiver, amount)
       \/ \E callee \in Callees :
            invoke_contract_raw(callee, amount) \/ invoke_contract_raw_read_only(callee, amount)
  \/ \E v \in Values : SetState(v)
  \/ \E account \in Accounts : make_account_missing(account)

Spec == Init /\ [][Next]_vars

-----------------------------------------------------------------------------
TypeOK ==
  /\ \A i \in {node, test, entered} :
       i.balance \in 0 .. MaxCCD /\ {i.state, i.stored} \subseteq Values
  /\ \A i \in {node, test, entered} : i.transfers \in Seq(Accounts \X (0 .. MaxCCD))
  /\ running \in BOOLEAN /\ strayed \in BOOLEAN

\* A test sees the balances, states, payments and answers that the chain will
\* give, through any number of payments and invocations, failed ones among
\* them.  It ends with a rejected call that had changed something, which only
\* the chain undoes, and with a second entry point on a changed state, which
\* only the chain has stored.
SameOutcome ==
  ~strayed => answers[1] = answers[2] /\ (running => node = test)
=============================================================================
