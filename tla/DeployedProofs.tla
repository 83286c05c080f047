--------------------------- MODULE DeployedProofs ---------------------------
(***************************************************************************)
(* For every set of accounts, contracts and tokens, and every depth of     *)
(* calls back: the invariants of the example contracts on the chain.       *)
(***************************************************************************)
EXTENDS Deployed, SumProofs

Chain == INSTANCE Host

-----------------------------------------------------------------------------
(* What every contract gains from the chain around it, whatever the other    *)
(* contracts C are: if the states its operations lead to are in a set, then  *)
(* so is the state after any step, also after a rejection, which goes back   *)
(* to a state kept in the stack.                                             *)
Addresses(C) == Accounts \cup C \cup {Self}

Frame(C, Entrypoints, States, Locals) ==
  [ by : Addresses(C), entrypoint : Entrypoints, callee : C \cup {Nobody},
    left : Nat, local : Locals, saved : States, held : Nat ]

\* Only contracts can call in while an entry point waits for its callee.
CanCall(C, a) ==
  \/ Chain!Idle /\ a \in Accounts \cup C
  \/ Chain!Waiting /\ a \in C

\* The state is in S, every activation would be undone to a state in S, has
\* its entry point in E and its variables in L.
InStates(C, E, S, L) ==
  /\ state \in S
  /\ self_balance \in Nat
  /\ stack \in Seq(Frame(C, E, S, L))

\* The steps of a contract: it is called, which Enter does within its bounds,
Called(a, entrypoint, amount, elements) ==
  /\ stack' = Append(stack,
       [ by |-> a, entrypoint |-> entrypoint, callee |-> Nobody,
         left |-> elements, local |-> Nobody,
         saved |-> state, held |-> self_balance ])
  /\ self_balance' = self_balance + amount
  /\ UNCHANGED state

Enters(C, E) ==
  \E a \in Addresses(C), entrypoint \in E, amount \in Nat, elements \in Nat :
    Called(a, entrypoint, amount, elements)

\* its code goes on and leads to a state in S,
GoesOn(C, S, L) ==
  /\ ~Chain!Idle
  /\ \E new \in S, amount \in Nat, callee \in C \cup {Nobody}, left \in Nat, local \in L :
       Chain!Continue(new, amount, callee, left, local)

\* it is rejected,
Undone == ~Chain!Idle /\ \E error : Chain!Reject(error)

\* it returns, its callee does, or time passes.
Moves(C, E, S, L) ==
  \/ Enters(C, E) \/ GoesOn(C, S, L) \/ Undone \/ Chain!CalleeReturns \/ Chain!Finish
  \/ state' \in S /\ UNCHANGED <<self_balance, stack>>

\* The first elements of a sequence.
LEMMA PrefixOfSeq ==
  ASSUME NEW T, NEW s \in Seq(T), NEW n \in Nat, n < Len(s)
  PROVE  SubSeq(s, 1, n) \in Seq(T) /\ Len(SubSeq(s, 1, n)) = n
OBVIOUS

\* A sequence over a larger set.
LEMMA SeqOfMore ==
  ASSUME NEW A, NEW B, A \subseteq B, NEW s \in Seq(A)
  PROVE  s \in Seq(B)
OBVIOUS

\* The stack is also one over larger sets.
LEMMA StackOfMore ==
  ASSUME NEW C, NEW E, NEW S, NEW L, InStates(C, E, S, L),
         NEW Entrypoints, NEW States, NEW Locals,
         E \subseteq Entrypoints, S \subseteq States, L \subseteq Locals
  PROVE  /\ stack \in Seq(Frame(C, Entrypoints, States, Locals))
         /\ \A i \in DOMAIN stack : stack[i] \in Frame(C, Entrypoints, States, Locals)
<1>1. Frame(C, E, S, L) \subseteq Frame(C, Entrypoints, States, Locals)
  BY DEF Frame
<1>2. stack \in Seq(Frame(C, E, S, L))
  BY DEF InStates
<1>3. stack \in Seq(Frame(C, Entrypoints, States, Locals))
  BY <1>1, <1>2, SeqOfMore
<1> QED BY <1>3

\* A running or waiting activation is the last of the stack.
LEMMA TopFrame ==
  ASSUME NEW C, NEW E, NEW S, NEW L, InStates(C, E, S, L), ~Chain!Idle
  PROVE  /\ Len(stack) \in Nat /\ Len(stack) > 0
         /\ Chain!Top \in Frame(C, E, S, L)
         /\ Chain!Below \in Seq(Frame(C, E, S, L))
         /\ Len(Chain!Below) = Len(stack) - 1
<1>1. Len(stack) \in Nat /\ Len(stack) > 0
  BY DEF InStates, Chain!Idle
<1>2. Chain!Top \in Frame(C, E, S, L)
  BY <1>1 DEF InStates, Chain!Top
<1>3. Chain!Below \in Seq(Frame(C, E, S, L)) /\ Len(Chain!Below) = Len(stack) - 1
  <2>1. stack \in Seq(Frame(C, E, S, L))
    BY DEF InStates
  <2>2. Len(stack) - 1 \in Nat /\ Len(stack) - 1 < Len(stack)
    BY <1>1
  <2> QED BY <2>1, <2>2, PrefixOfSeq DEF Chain!Below
<1> QED BY <1>1, <1>2, <1>3

\* What an activation that reads its parameter has to go on with.
LEMMA Reader ==
  ASSUME NEW C, NEW E, NEW S, NEW L, InStates(C, E, S, L), NEW entrypoint, Chain!Reading(entrypoint)
  PROVE  /\ ~Chain!Idle /\ Chain!Top.left \in Nat /\ Chain!Top.left > 0 /\ Chain!Top.left - 1 \in Nat
         /\ Chain!Top.by \in Addresses(C) /\ Chain!Top.local \in L
         /\ Chain!Top.entrypoint = entrypoint
         /\ Chain!Top.saved \in S /\ Chain!Top.held \in Nat
<1>1. ~Chain!Idle /\ Chain!Top.left > 0 /\ Chain!Top.entrypoint = entrypoint
  BY DEF Chain!Reading, Chain!Running
<1>2. Chain!Top \in Frame(C, E, S, L)
  BY <1>1, TopFrame
<1> QED BY <1>1, <1>2 DEF Frame

\* A call keeps the present state in the new frame.
LEMMA EntersKeeps ==
  ASSUME NEW C, NEW E, NEW S, NEW L, InStates(C, E, S, L), Nobody \in L, Enters(C, E)
  PROVE  InStates(C, E, S, L)'
<1>1. PICK a \in Addresses(C), entrypoint \in E, amount \in Nat, elements \in Nat :
        Called(a, entrypoint, amount, elements)
  BY DEF Enters
<1> DEFINE frame == [ by |-> a, entrypoint |-> entrypoint, callee |-> Nobody,
                      left |-> elements, local |-> Nobody,
                      saved |-> state, held |-> self_balance ]
<1>2. frame \in Frame(C, E, S, L)
  BY DEF InStates, Frame
<1>3. stack' = Append(stack, frame)
  BY <1>1 DEF Called
<1>4. stack' \in Seq(Frame(C, E, S, L))
  BY <1>2, <1>3 DEF InStates
<1> QED BY <1>1, <1>4 DEF InStates, Called

\* A stretch of an entry point that leads to a state in S.
LEMMA GoesKeeps ==
  ASSUME NEW C, NEW E, NEW S, NEW L, InStates(C, E, S, L), GoesOn(C, S, L)
  PROVE  InStates(C, E, S, L)'
<1>1. PICK new \in S, amount \in Nat, callee \in C \cup {Nobody}, left \in Nat, local \in L :
        Chain!Continue(new, amount, callee, left, local)
  BY DEF GoesOn
<1> DEFINE frame == [Chain!Top EXCEPT !.callee = callee, !.left = left, !.local = local]
<1>2. Len(stack) \in DOMAIN stack /\ Chain!Top \in Frame(C, E, S, L)
  <2>1. Len(stack) \in Nat /\ Len(stack) > 0 /\ Chain!Top \in Frame(C, E, S, L)
    BY TopFrame DEF GoesOn
  <2> QED BY <2>1 DEF InStates
<1>3. frame \in Frame(C, E, S, L)
  BY <1>2 DEF Frame
<1>4. stack' = [stack EXCEPT ![Len(stack)] = frame]
  BY <1>1 DEF Chain!Continue, Chain!Top
<1>5. stack' \in Seq(Frame(C, E, S, L))
  BY <1>2, <1>3, <1>4 DEF InStates
<1>6. self_balance' \in Nat
  BY <1>1 DEF InStates, Chain!Continue
<1> QED BY <1>1, <1>5, <1>6 DEF InStates, Chain!Continue

\* A rejection.
LEMMA UndoneKeeps ==
  ASSUME NEW C, NEW E, NEW S, NEW L, InStates(C, E, S, L), Undone
  PROVE  InStates(C, E, S, L)'
<1>1. Chain!Top.saved \in S /\ Chain!Top.held \in Nat
  BY TopFrame DEF Frame, Undone
<1>2. Chain!Below \in Seq(Frame(C, E, S, L))
  BY TopFrame DEF Undone
<1> QED BY <1>1, <1>2 DEF InStates, Chain!Reject, Undone

\* Whatever a contract does, and whoever calls it in between.
LEMMA MovesKeep ==
  ASSUME NEW C, NEW E, NEW S, NEW L, InStates(C, E, S, L), Nobody \in L, Moves(C, E, S, L)
  PROVE  InStates(C, E, S, L)'
<1>1. CASE Enters(C, E)
  BY <1>1, EntersKeeps
<1>2. CASE GoesOn(C, S, L)
  BY <1>2, GoesKeeps
<1>3. CASE Undone
  BY <1>3, UndoneKeeps
<1>4. CASE Chain!CalleeReturns
  <2>1. Len(stack) \in DOMAIN stack /\ Chain!Top \in Frame(C, E, S, L)
    <3>1. Len(stack) \in Nat /\ Len(stack) > 0 /\ Chain!Top \in Frame(C, E, S, L)
      BY <1>4, TopFrame DEF Chain!CalleeReturns, Chain!Waiting
    <3> QED BY <3>1 DEF InStates
  <2>2. [Chain!Top EXCEPT !.callee = Nobody] \in Frame(C, E, S, L)
    BY <2>1 DEF Frame
  <2>3. stack' = [stack EXCEPT ![Len(stack)] = [Chain!Top EXCEPT !.callee = Nobody]]
    BY <1>4 DEF Chain!CalleeReturns, Chain!Top
  <2>4. stack' \in Seq(Frame(C, E, S, L))
    BY <2>1, <2>2, <2>3 DEF InStates
  <2> QED BY <1>4, <2>4 DEF InStates, Chain!CalleeReturns
<1>5. CASE Chain!Finish
  BY <1>5, TopFrame DEF Chain!Finish, Chain!Running, InStates
<1>6. CASE state' \in S /\ UNCHANGED <<self_balance, stack>>
  BY <1>6 DEF InStates
<1> QED BY <1>1, <1>2, <1>3, <1>4, <1>5, <1>6 DEF Moves

\* A rejection and a return leave the activation.
LEMMA EndShortens ==
  ASSUME NEW C, NEW E, NEW S, NEW L, InStates(C, E, S, L), ~Chain!Idle, stack' = Chain!Below
  PROVE  ~(Len(stack') >= Len(stack))
<1>1. Len(Chain!Below) = Len(stack) - 1 /\ Len(stack) \in Nat
  BY TopFrame
<1> QED BY <1>1

-----------------------------------------------------------------------------
(* The CCD of a contract that passes on what it is sent.  An activation at a *)
(* position, the entry point with what it has not read yet and its variables, *)
(* keeps `share[position]` of what it was sent; the positions of `arriving`  *)
(* have it all, the calls that bring CCD.                                    *)
Position(frame) == <<frame.entrypoint, frame.left, frame.local>>
Arrives(arriving, frame) == <<frame.entrypoint, frame.left>> \in arriving

\* What the activations keep adds up to what the contract holds.
Shared(share, arriving, most) ==
  /\ self_balance <= most
  /\ Chain!Idle => self_balance = 0
  /\ \A i \in 1 .. Len(stack) :
       /\ stack[i].held <= most
       /\ Position(stack[i]) \in DOMAIN share
       /\ stack[i].callee # Nobody => ~Arrives(arriving, stack[i])
       /\ i = 1 => stack[i].held = 0
       /\ i # Len(stack) =>
            /\ ~Arrives(arriving, stack[i])
            /\ stack[i + 1].held = stack[i].held + share[Position(stack[i])]
  /\ ~Chain!Idle => IF Arrives(arriving, Chain!Top) THEN self_balance >= Chain!Top.held
              ELSE self_balance = Chain!Top.held + share[Position(Chain!Top)]

\* Nothing is kept, and nothing arrives, when an entry point returns.
Sharing(share, arriving) ==
  \A p \in DOMAIN share :
    share[p] \in Nat /\ (p[2] = 0 => share[p] = 0 /\ <<p[1], 0>> \notin arriving)

\* A step of such a contract.
Receives(C, share, arriving, most) ==
  \E entrypoint : \E a \in Addresses(C), amount \in Nat, n \in Nat :
    /\ CanCall(C, a) /\ Called(a, entrypoint, amount, n)
    /\ self_balance + amount <= most
    /\ <<entrypoint, n, Nobody>> \in DOMAIN share
    /\ share[<<entrypoint, n, Nobody>>] = 0
    /\ amount = 0 \/ <<entrypoint, n>> \in arriving

PassesOn(C, S, L, share, arriving) ==
  /\ ~Chain!Idle
  /\ \E new \in S, amount \in Nat, callee \in C \cup {Nobody}, left \in Nat, local \in L :
       /\ Chain!Continue(new, amount, callee, left, local)
       /\ <<Chain!Top.entrypoint, left, local>> \in DOMAIN share
       /\ <<Chain!Top.entrypoint, left>> \notin arriving
       /\ self_balance - amount = Chain!Top.held + share[<<Chain!Top.entrypoint, left, local>>]

\* An activation is put on the stack, goes on or leaves.
LEMMA Pushed ==
  ASSUME NEW F, NEW s \in Seq(F), NEW f \in F
  PROVE  /\ Append(s, f) \in Seq(F) /\ Len(Append(s, f)) = Len(s) + 1
         /\ Append(s, f)[Len(s) + 1] = f /\ Append(s, f) # <<>>
         /\ \A i \in 1 .. Len(s) : Append(s, f)[i] = s[i]
OBVIOUS

\* The last element of a sequence is replaced.
LEMMA Changed ==
  ASSUME NEW F, NEW s \in Seq(F), s # <<>>, NEW f \in F
  PROVE  /\ [s EXCEPT ![Len(s)] = f] \in Seq(F) /\ Len([s EXCEPT ![Len(s)] = f]) = Len(s)
         /\ [s EXCEPT ![Len(s)] = f][Len(s)] = f /\ [s EXCEPT ![Len(s)] = f] # <<>>
         /\ \A i \in 1 .. Len(s) : i # Len(s) => [s EXCEPT ![Len(s)] = f][i] = s[i]
OBVIOUS

\* The last element of a sequence is dropped.
LEMMA Popped ==
  ASSUME NEW F, NEW s \in Seq(F), s # <<>>
  PROVE  /\ Len(s) \in Nat /\ Len(s) > 0 /\ s[Len(s)] \in F
         /\ SubSeq(s, 1, Len(s) - 1) \in Seq(F)
         /\ Len(SubSeq(s, 1, Len(s) - 1)) = Len(s) - 1
         /\ \A i \in 1 .. Len(s) - 1 : SubSeq(s, 1, Len(s) - 1)[i] = s[i]
<1>1. Len(s) \in Nat /\ Len(s) > 0 /\ s[Len(s)] \in F
  OBVIOUS
<1>2. Len(s) - 1 \in Nat /\ Len(s) - 1 < Len(s)
  BY <1>1
<1>3. SubSeq(s, 1, Len(s) - 1) \in Seq(F) /\ Len(SubSeq(s, 1, Len(s) - 1)) = Len(s) - 1
  BY <1>2, PrefixOfSeq
<1>4. \A i \in 1 .. Len(s) - 1 : SubSeq(s, 1, Len(s) - 1)[i] = s[i]
  BY <1>1, <1>2
<1> QED BY <1>1, <1>3, <1>4

\* What the running activation has of the CCD.
LEMMA SharedTop ==
  ASSUME NEW C, NEW E, NEW S, NEW L, InStates(C, E, S, L), NEW share, NEW arriving, NEW most \in Nat,
         Sharing(share, arriving), Shared(share, arriving, most), ~Chain!Idle
  PROVE  /\ Chain!Top \in Frame(C, E, S, L) /\ Position(Chain!Top) \in DOMAIN share
         /\ self_balance \in Nat /\ self_balance <= most /\ Chain!Top.held \in Nat
         /\ Chain!Received \in Nat /\ Chain!Received <= most /\ self_balance - Chain!Received = Chain!Top.held
         /\ ~Arrives(arriving, Chain!Top) => self_balance = Chain!Top.held + share[Position(Chain!Top)]
<1>1. /\ Len(stack) \in 1 .. Len(stack) /\ Chain!Top = stack[Len(stack)] /\ Chain!Top \in Frame(C, E, S, L)
  BY TopFrame DEF Chain!Top
<1>2. Position(Chain!Top) \in DOMAIN share /\ Chain!Top.held \in Nat /\ share[Position(Chain!Top)] \in Nat
  BY <1>1 DEF Shared, Frame, Sharing
<1>3. self_balance \in Nat /\ self_balance <= most
  BY DEF InStates, Shared
<1>4. Chain!Top.held <= self_balance
  BY <1>2, <1>3 DEF Shared
<1> QED BY <1>1, <1>2, <1>3, <1>4 DEF Chain!Received, Shared

\* A call: the contract waits for a callee or is idle, so nothing arrives yet.
LEMMA ReceivesKeeps ==
  ASSUME NEW C, NEW E, NEW S, NEW L, InStates(C, E, S, L), NEW share, NEW arriving, NEW most \in Nat,
         Sharing(share, arriving), Shared(share, arriving, most),
         Receives(C, share, arriving, most)
  PROVE  Shared(share, arriving, most)'
<1>0. PICK entrypoint : \E a \in Addresses(C), amount \in Nat, n \in Nat :
        /\ CanCall(C, a) /\ Called(a, entrypoint, amount, n)
        /\ self_balance + amount <= most
        /\ <<entrypoint, n, Nobody>> \in DOMAIN share
        /\ share[<<entrypoint, n, Nobody>>] = 0
        /\ amount = 0 \/ <<entrypoint, n>> \in arriving
  BY DEF Receives
<1>1. PICK a \in Addresses(C), amount \in Nat, n \in Nat :
        /\ CanCall(C, a) /\ Called(a, entrypoint, amount, n)
        /\ self_balance + amount <= most
        /\ <<entrypoint, n, Nobody>> \in DOMAIN share
        /\ share[<<entrypoint, n, Nobody>>] = 0
        /\ amount = 0 \/ <<entrypoint, n>> \in arriving
  BY <1>0
<1> DEFINE frame == [ by |-> a, entrypoint |-> entrypoint, callee |-> Nobody,
                      left |-> n, local |-> Nobody,
                      saved |-> state, held |-> self_balance ]
<1>2. /\ Position(frame) \in DOMAIN share /\ share[Position(frame)] = 0
      /\ frame.callee = Nobody /\ frame.held = self_balance
      /\ Arrives(arriving, frame) <=> <<entrypoint, n>> \in arriving
  BY <1>1 DEF Position, Arrives
<1>3. stack' = Append(stack, frame) /\ self_balance' = self_balance + amount
  BY <1>1 DEF Called
<1> HIDE DEF frame
<1>4. stack \in Seq(Frame(C, E, S, L) \cup {frame}) /\ self_balance \in Nat /\ Len(stack) \in Nat
  <2>1. stack \in Seq(Frame(C, E, S, L))
    BY DEF InStates
  <2> QED BY <2>1, SeqOfMore DEF InStates
<1>5. /\ Len(stack') = Len(stack) + 1 /\ stack'[Len(stack) + 1] = frame /\ stack' # <<>>
      /\ \A i \in 1 .. Len(stack) : stack'[i] = stack[i]
  BY <1>3, <1>4, Pushed
<1>6. ~Chain!Idle => /\ ~Arrives(arriving, stack[Len(stack)])
               /\ self_balance = stack[Len(stack)].held + share[Position(stack[Len(stack)])]
  BY <1>1, <1>4 DEF CanCall, Chain!Waiting, Chain!Top, Shared, Chain!Idle
<1>7. ~Chain!Idle' /\ Chain!Top' = frame
  BY <1>5 DEF Chain!Idle, Chain!Top
<1>8. IF Arrives(arriving, frame) THEN self_balance' >= frame.held
      ELSE self_balance' = frame.held + share[Position(frame)]
  BY <1>1, <1>2, <1>3, <1>4
<1>9. ASSUME NEW i \in 1 .. Len(stack')
      PROVE  /\ stack'[i].held <= most
             /\ Position(stack'[i]) \in DOMAIN share
             /\ stack'[i].callee # Nobody => ~Arrives(arriving, stack'[i])
             /\ i = 1 => stack'[i].held = 0
             /\ i # Len(stack') =>
                  /\ ~Arrives(arriving, stack'[i])
                  /\ stack'[i + 1].held = stack'[i].held + share[Position(stack'[i])]
  <2>1. CASE i = Len(stack')
    <3>1. i = 1 => Chain!Idle
      BY <1>4, <1>5, <2>1 DEF Chain!Idle
    <3> QED BY <1>2, <1>5, <2>1, <3>1 DEF Shared
  <2>2. CASE i = Len(stack)
    <3>1. i \in 1 .. Len(stack) /\ i + 1 = Len(stack) + 1 /\ i # Len(stack')
      BY <1>4, <1>5, <2>2
    <3>2. stack'[i] = stack[i] /\ stack'[i + 1] = frame /\ ~Chain!Idle
      BY <1>5, <3>1 DEF Chain!Idle
    <3>3. /\ ~Arrives(arriving, stack[i])
          /\ self_balance = stack[i].held + share[Position(stack[i])]
      BY <1>6, <2>2, <3>2
    <3>4. /\ stack[i].held <= most /\ Position(stack[i]) \in DOMAIN share
          /\ i = 1 => stack[i].held = 0
      BY <3>1 DEF Shared
    <3> QED BY <1>2, <3>2, <3>3, <3>4
  <2>3. CASE i # Len(stack) /\ i # Len(stack')
    <3>1. i \in 1 .. Len(stack) /\ i + 1 \in 1 .. Len(stack)
      BY <1>4, <1>5, <2>3
    <3> QED BY <1>5, <2>3, <3>1 DEF Shared
  <2> QED BY <2>1, <2>2, <2>3
<1>10. self_balance' <= most
  BY <1>1, <1>3
<1> QED BY <1>7, <1>8, <1>9, <1>10 DEF Shared

\* An activation goes on and keeps its share.
LEMMA PassesOnKeeps ==
  ASSUME NEW C, NEW E, NEW S, NEW L, InStates(C, E, S, L), NEW share, NEW arriving, NEW most \in Nat,
         Sharing(share, arriving), Shared(share, arriving, most),
         PassesOn(C, S, L, share, arriving)
  PROVE  Shared(share, arriving, most)'
<1>1. PICK new \in S, amount \in Nat, callee \in C \cup {Nobody}, left \in Nat, local \in L :
        /\ Chain!Continue(new, amount, callee, left, local)
        /\ <<Chain!Top.entrypoint, left, local>> \in DOMAIN share
        /\ <<Chain!Top.entrypoint, left>> \notin arriving
        /\ self_balance - amount = Chain!Top.held + share[<<Chain!Top.entrypoint, left, local>>]
  BY DEF PassesOn
<1> DEFINE frame == [Chain!Top EXCEPT !.callee = callee, !.left = left, !.local = local]
<1>2. /\ Len(stack) \in Nat /\ Len(stack) > 0 /\ Chain!Top = stack[Len(stack)]
      /\ Chain!Top \in Frame(C, E, S, L) /\ ~Chain!Idle
  BY TopFrame DEF Chain!Top, PassesOn
<1>3. /\ Position(frame) = <<Chain!Top.entrypoint, left, local>>
      /\ ~Arrives(arriving, frame) /\ frame.held = Chain!Top.held
  BY <1>1, <1>2 DEF Position, Arrives, Frame
<1>4. /\ stack' = [stack EXCEPT ![Len(stack)] = frame]
      /\ self_balance' = self_balance - amount
  BY <1>1, <1>2 DEF Chain!Continue
<1>5. frame \in Frame(C, E, S, L)
  BY <1>1, <1>2 DEF Frame
<1> HIDE DEF frame
<1>6. /\ Len(stack') = Len(stack) /\ stack'[Len(stack)] = frame /\ stack' # <<>>
      /\ \A i \in 1 .. Len(stack) : i # Len(stack) => stack'[i] = stack[i]
  BY <1>2, <1>4, <1>5, Changed DEF InStates, Chain!Idle
<1>7. ~Chain!Idle' /\ Chain!Top' = frame
  BY <1>6 DEF Chain!Idle, Chain!Top
<1>8. self_balance' = frame.held + share[Position(frame)]
  BY <1>1, <1>3, <1>4
<1>9. ASSUME NEW i \in 1 .. Len(stack')
      PROVE  /\ stack'[i].held <= most
             /\ Position(stack'[i]) \in DOMAIN share
             /\ stack'[i].callee # Nobody => ~Arrives(arriving, stack'[i])
             /\ i = 1 => stack'[i].held = 0
             /\ i # Len(stack') =>
                  /\ ~Arrives(arriving, stack'[i])
                  /\ stack'[i + 1].held = stack'[i].held + share[Position(stack'[i])]
  <2>1. stack'[i].held = stack[i].held
    BY <1>2, <1>3, <1>6
  <2>2. CASE i = Len(stack)
    BY <1>1, <1>3, <1>6, <2>1, <2>2 DEF Shared
  <2>3. CASE i # Len(stack)
    <3>1. i \in 1 .. Len(stack) /\ i + 1 \in 1 .. Len(stack) /\ stack'[i] = stack[i]
      BY <1>2, <1>6, <2>3
    <3>2. stack'[i + 1].held = stack[i + 1].held
      BY <1>2, <1>3, <1>6, <3>1
    <3> QED BY <1>6, <2>3, <3>1, <3>2 DEF Shared
  <2> QED BY <2>2, <2>3
<1>10. self_balance' <= most
  BY <1>1, <1>4 DEF Shared, InStates
<1> QED BY <1>3, <1>7, <1>8, <1>9, <1>10 DEF Shared

\* An activation leaves and what it kept leaves with it.
LEMMA LeavesKeeps ==
  ASSUME NEW C, NEW E, NEW S, NEW L, InStates(C, E, S, L), NEW share, NEW arriving, NEW most \in Nat,
         Shared(share, arriving, most),
         ~Chain!Idle, stack' = Chain!Below, self_balance' = Chain!Top.held
  PROVE  Shared(share, arriving, most)'
<1>1. /\ Len(stack) \in Nat /\ Len(stack) > 0
      /\ Len(stack') = Len(stack) - 1
      /\ \A i \in 1 .. Len(stack) - 1 : stack'[i] = stack[i]
  BY Popped DEF InStates, Chain!Idle, Chain!Below
<1>2. ASSUME NEW i \in 1 .. Len(stack')
      PROVE  /\ i \in 1 .. Len(stack) /\ i # Len(stack) /\ stack'[i] = stack[i]
             /\ i # Len(stack') => stack'[i + 1] = stack[i + 1]
  BY <1>1
<1>3. self_balance' <= most
  BY <1>1 DEF Shared, Chain!Top
<1>4. CASE Len(stack) = 1
  <2>1. Chain!Idle' /\ self_balance' = 0
    BY <1>1, <1>4 DEF Shared, Chain!Top, Chain!Idle, InStates, Chain!Below
  <2> QED BY <1>1, <1>3, <1>4, <2>1 DEF Shared
<1>5. CASE Len(stack) # 1
  <2> DEFINE n == Len(stack) - 1
  <2>1. n \in 1 .. Len(stack') /\ n \in 1 .. Len(stack) /\ n # Len(stack) /\ n + 1 = Len(stack)
    BY <1>1, <1>5
  <2>2. ~Chain!Idle' /\ Chain!Top' = stack[n]
    <3>1. Len(stack') # 0
      BY <1>1, <1>5
    <3>2. stack' # <<>>
      BY <3>1
    <3> QED BY <1>1, <2>1, <3>2 DEF Chain!Idle, Chain!Top
  <2>3. ~Arrives(arriving, stack[n]) /\ stack[Len(stack)].held = stack[n].held + share[Position(stack[n])]
    BY <2>1 DEF Shared
  <2>4. self_balance' = Chain!Top.held
    OBVIOUS
  <2> HIDE DEF n
  <2> QED BY <1>2, <1>3, <2>2, <2>3, <2>4 DEF Shared, Chain!Top
<1> QED BY <1>4, <1>5

\* Whatever such a contract does.
LEMMA SharesKept ==
  ASSUME NEW C, NEW E, NEW S, NEW L, InStates(C, E, S, L), NEW share, NEW arriving, NEW most \in Nat,
         Sharing(share, arriving), Shared(share, arriving, most),
         \/ Receives(C, share, arriving, most) \/ PassesOn(C, S, L, share, arriving)
         \/ Undone \/ Chain!CalleeReturns \/ Chain!Finish
  PROVE  Shared(share, arriving, most)'
<1>1. CASE Receives(C, share, arriving, most)
  BY <1>1, ReceivesKeeps
<1>2. CASE PassesOn(C, S, L, share, arriving)
  BY <1>2, PassesOnKeeps
<1>3. CASE Undone
  BY <1>3, LeavesKeeps DEF Undone, Chain!Reject
<1>4. CASE Chain!CalleeReturns
  <2> DEFINE frame == [Chain!Top EXCEPT !.callee = Nobody]
  <2>1. /\ Len(stack) \in Nat /\ Len(stack) > 0 /\ Chain!Top = stack[Len(stack)]
        /\ Chain!Top \in Frame(C, E, S, L) /\ ~Chain!Idle
    BY <1>4, TopFrame DEF Chain!Top, Chain!CalleeReturns, Chain!Waiting
  <2>2. /\ Position(frame) = Position(Chain!Top) /\ frame.held = Chain!Top.held /\ frame.callee = Nobody
        /\ Arrives(arriving, frame) <=> Arrives(arriving, Chain!Top)
        /\ frame \in Frame(C, E, S, L)
    BY <2>1 DEF Position, Arrives, Frame
  <2>3. stack' = [stack EXCEPT ![Len(stack)] = frame] /\ self_balance' = self_balance
    BY <1>4, <2>1 DEF Chain!CalleeReturns
  <2> HIDE DEF frame
  <2>4. /\ Len(stack') = Len(stack) /\ stack'[Len(stack)] = frame /\ stack' # <<>>
        /\ \A i \in 1 .. Len(stack) : i # Len(stack) => stack'[i] = stack[i]
    BY <2>1, <2>2, <2>3, Changed DEF InStates, Chain!Idle
  <2>5. ~Chain!Idle' /\ Chain!Top' = frame
    BY <2>4 DEF Chain!Idle, Chain!Top
  <2>6. \A i \in 1 .. Len(stack) :
          /\ stack'[i].held = stack[i].held /\ Position(stack'[i]) = Position(stack[i])
          /\ stack'[i].callee # Nobody => stack[i].callee # Nobody
          /\ Arrives(arriving, stack'[i]) <=> Arrives(arriving, stack[i])
    BY <2>1, <2>2, <2>4
  <2>7. \A i \in 1 .. Len(stack) : i # Len(stack) => i + 1 \in 1 .. Len(stack)
    BY <2>1
  <2>8. IF Arrives(arriving, frame) THEN self_balance' >= frame.held
        ELSE self_balance' = frame.held + share[Position(frame)]
    BY <2>1, <2>2, <2>3 DEF Shared
  <2> QED BY <2>3, <2>4, <2>5, <2>6, <2>7, <2>8 DEF Shared
<1>5. CASE Chain!Finish
  <2>1. /\ ~Chain!Idle /\ Chain!Top.left = 0 /\ Chain!Top = stack[Len(stack)] /\ Len(stack) \in 1 .. Len(stack)
    BY <1>5, TopFrame DEF Chain!Finish, Chain!Running, Chain!Top
  <2>2. Position(Chain!Top) \in DOMAIN share /\ Position(Chain!Top)[2] = 0 /\ Position(Chain!Top)[1] = Chain!Top.entrypoint
    BY <2>1 DEF Shared, Position
  <2>3. share[Position(Chain!Top)] = 0 /\ ~Arrives(arriving, Chain!Top)
    BY <2>1, <2>2 DEF Sharing, Arrives
  <2>4. Chain!Top.held \in Nat
    BY <2>1, TopFrame DEF Frame
  <2>5. self_balance' = Chain!Top.held /\ stack' = Chain!Below
    BY <1>5, <2>1, <2>3, <2>4 DEF Shared, Chain!Finish
  <2> QED BY <2>1, <2>5, LeavesKeeps
<1> QED BY <1>1, <1>2, <1>3, <1>4, <1>5

-----------------------------------------------------------------------------
\* A contract's chain is the one of Host, but for the bounds on calls.
OnChain(Enter(_,_,_,_), Continue(_,_,_,_,_), Reject(_), CalleeReturns, Finish, Reading(_), Top) ==
  /\ \A a, entrypoint, amount, n :
       Enter(a, entrypoint, amount, n) => Called(a, entrypoint, amount, n)
  /\ \A new, amount, callee, left, local :
       Continue(new, amount, callee, left, local) <=> Chain!Continue(new, amount, callee, left, local)
  /\ \A error : Reject(error) <=> Chain!Reject(error)
  /\ CalleeReturns <=> Chain!CalleeReturns
  /\ Finish <=> Chain!Finish
  /\ \A entrypoint : Reading(entrypoint) <=> Chain!Reading(entrypoint)
  /\ Top = Chain!Top

-----------------------------------------------------------------------------
(* The NFT contract: one holder in the state, and in every state that a      *)
(* rejection would bring back.                                               *)
NftGood == {s \in Nft!States : Nft!OneHolderEach(s)}
NftInv == InStates(Contracts, Nft!Entrypoints, NftGood, {Nobody})

\* Its chain is that of Host, but for the bounds.
LEMMA NftOnChain ==
  OnChain(Nft!Enter, Nft!Continue, Nft!Reject, Nft!CalleeReturns, Nft!Finish, Nft!Reading, Nft!Top)
BY DEF OnChain, Nft!Enter, Called, Nft!Continue, Chain!Continue, Nft!Reject, Chain!Reject,
       Nft!CalleeReturns, Chain!CalleeReturns, Nft!Finish, Chain!Finish, Nft!Reading,
       Chain!Reading, Nft!Running, Chain!Running, Nft!Waiting, Chain!Waiting, Nft!Idle,
       Chain!Idle, Nft!Top, Chain!Top, Nft!Below, Chain!Below

\* Who can hold its tokens: the addresses of the chain.
LEMMA NftAddresses == Nft!Addresses = Addresses(Contracts)
BY DEF Nft!Addresses, Addresses

\* A new token goes to its first holder.
LEMMA NftMint ==
  ASSUME state \in NftGood, NEW t \in Tokens \ state.all_tokens, NEW owner \in Nft!Addresses
  PROVE  Nft!mint(t, owner) \in NftGood
<1>1. Nft!mint(t, owner) \in Nft!States
  BY DEF NftGood, Nft!States, Nft!mint
<1>2. Nft!OneHolderEach(Nft!mint(t, owner))
  BY DEF NftGood, Nft!States, Nft!mint, Nft!OneHolderEach
<1> QED BY <1>1, <1>2 DEF NftGood

\* A transfer takes the token from its holder and gives it to one address.
LEMMA NftTransfer ==
  ASSUME state \in NftGood, NEW t \in Tokens, NEW amount \in 0 .. 1,
         NEW from \in Nft!Addresses, NEW to \in Nft!Addresses,
         Nft!TransferError(t, amount, from) = "none"
  PROVE  Nft!transfer(t, amount, from, to) \in NftGood
<1>1. CASE amount = 0
  BY <1>1 DEF Nft!transfer
<1>2. CASE amount # 0
  <2>1. t \in state.all_tokens /\ t \in state.owned_tokens[from]
    BY <1>2 DEF Nft!TransferError, Nft!contains_token
  <2> DEFINE taken == [state.owned_tokens EXCEPT ![from] = @ \ {t}]
             given == [taken EXCEPT ![to] = @ \cup {t}]
  <2>2. Nft!transfer(t, amount, from, to) = [state EXCEPT !.owned_tokens = given]
    BY <1>2 DEF Nft!transfer
  <2>3. given \in [Nft!Addresses -> SUBSET Tokens]
    BY DEF NftGood, Nft!States
  <2>4. Nft!transfer(t, amount, from, to) \in Nft!States
    BY <2>2, <2>3 DEF NftGood, Nft!States
  <2>5. \A u \in Tokens, a \in Nft!Addresses :
          u \in given[a] <=> IF u = t THEN a = to ELSE u \in state.owned_tokens[a]
    BY <2>1 DEF NftGood, Nft!States, Nft!OneHolderEach
  <2>6. Nft!OneHolderEach(Nft!transfer(t, amount, from, to))
    BY <2>1, <2>2, <2>5 DEF NftGood, Nft!States, Nft!OneHolderEach
  <2> QED BY <2>4, <2>6 DEF NftGood
<1> QED BY <1>1, <1>2

\* Naming an operator leaves the tokens where they are.
LEMMA NftOperator ==
  ASSUME state \in NftGood, NEW owner \in Nft!Addresses, NEW operator \in Nft!Addresses
  PROVE  /\ Nft!add_operator(owner, operator) \in NftGood
         /\ Nft!remove_operator(owner, operator) \in NftGood
<1>1. /\ Nft!add_operator(owner, operator) \in Nft!States
      /\ Nft!remove_operator(owner, operator) \in Nft!States
  BY DEF NftGood, Nft!States, Nft!add_operator, Nft!remove_operator
<1>2. /\ Nft!OneHolderEach(Nft!add_operator(owner, operator))
      /\ Nft!OneHolderEach(Nft!remove_operator(owner, operator))
  BY DEF NftGood, Nft!States, Nft!OneHolderEach, Nft!add_operator, Nft!remove_operator
<1> QED BY <1>1, <1>2 DEF NftGood

\* Deployment: nobody holds anything.
LEMMA NftInit == Nft!Init => NftInv
<1> SUFFICES ASSUME Nft!Init PROVE NftInv
  OBVIOUS
<1>1. state \in NftGood
  BY DEF Nft!Init, NftGood, Nft!States, Nft!OneHolderEach
<1> QED BY <1>1 DEF NftInv, InStates, Nft!Init, Nft!HostInit

\* The batches of the parameter and the queries lead to states of NftGood.
LEMMA NftMoves ==
  ASSUME NftInv, Nft!Next
  PROVE  Moves(Contracts, Nft!Entrypoints, NftGood, {Nobody})
<1> DEFINE Goes == GoesOn(Contracts, NftGood, {Nobody})
<1> state \in NftGood
  BY DEF NftInv, InStates
<1>1. CASE Nft!Enters
  <2>1. 0 .. MaxBatch \subseteq Nat /\ 0 .. MaxUpdates \subseteq Nat
    BY Deployable DEF Multi!HostAssumption
  <2>2. \E a \in Nft!Addresses, entrypoint \in Nft!Entrypoints, n \in Nat :
          Nft!Enter(a, entrypoint, 0, n)
    BY <1>1, <2>1 DEF Nft!Enters, Nft!Entrypoints
  <2> QED BY <2>2, NftOnChain, NftAddresses DEF OnChain, Enters, Moves
<1>2. ASSUME NEW entrypoint, Chain!Reading(entrypoint), NEW new \in NftGood,
             NEW callee \in Contracts \cup {Nobody},
             Nft!Continue(new, 0, callee, Nft!Top.left - 1, Nft!Top.local)
      PROVE  Goes
  BY <1>2, Reader, NftOnChain DEF OnChain, NftInv, GoesOn
<1>3. CASE Nft!Mint
  BY <1>2, <1>3, NftMint, NftOnChain DEF OnChain, Nft!Mint, Nft!Execute, Moves
<1>4. CASE Nft!Transfer
  BY <1>2, <1>4, NftTransfer, NftOnChain
     DEF OnChain, Nft!Transfer, Nft!Execute, Nft!Invoke, Moves
<1>5. CASE Nft!UpdateOperator
  <2>1. Nft!Top.by \in Nft!Addresses
    BY <1>5, Reader, NftOnChain, NftAddresses DEF OnChain, NftInv, Nft!UpdateOperator
  <2> QED BY <1>2, <1>5, <2>1, NftOperator, NftOnChain
          DEF OnChain, Nft!UpdateOperator, Nft!Execute, Moves
<1>6. CASE Nft!Query
  BY <1>2, <1>6, NftOnChain
     DEF OnChain, Nft!Query, Nft!OperatorOf, Nft!BalanceOf, Nft!TokenMetadata, Nft!Invoke, Moves
<1>7. CASE Nft!MintRejects \/ Nft!TransferRejects \/ Nft!CalleeRejects
  BY <1>7, NftOnChain
     DEF OnChain, Nft!MintRejects, Nft!TransferRejects, Nft!CalleeRejects, Nft!Waiting, Nft!Idle,
         Chain!Idle, Chain!Reading, Chain!Running, Undone, Moves
<1>8. CASE Nft!CalleeReturns \/ Nft!Finish
  BY <1>8, NftOnChain DEF OnChain, Moves
<1> QED BY <1>1, <1>3, <1>4, <1>5, <1>6, <1>7, <1>8 DEF Nft!Next, Nft!Callees

\* A step that takes a token from an address is a transfer sent by the address
\* or its operator, or it undoes one.
LEMMA NftConsents ==
  ASSUME NftInv, Nft!Next
  PROVE  Nft!HolderConsents
<1>1. state \in NftGood
  BY DEF NftInv, InStates
<1>2. CASE Nft!Enters \/ Nft!Query \/ Nft!CalleeReturns
  <2>1. state' = state
    BY <1>2 DEF Nft!Enters, Nft!Enter, Nft!Query, Nft!OperatorOf, Nft!BalanceOf,
                Nft!TokenMetadata, Nft!Invoke, Nft!Continue, Nft!CalleeReturns
  <2> QED BY <2>1 DEF Nft!HolderConsents
<1>3. CASE Nft!Mint
  <2>1. PICK t \in Tokens \ state.all_tokens, owner \in Nft!Addresses : state' = Nft!mint(t, owner)
    BY <1>3 DEF Nft!Mint, Nft!Execute, Nft!Continue
  <2>2. \A a \in Nft!Addresses : state.owned_tokens[a] \subseteq state'.owned_tokens[a]
    BY <1>1, <2>1 DEF Nft!mint, NftGood, Nft!States
  <2> QED BY <2>2 DEF Nft!HolderConsents
<1>4. CASE Nft!MintRejects \/ Nft!TransferRejects \/ Nft!CalleeRejects \/ Nft!Finish
  <2>1. ~Chain!Idle /\ stack' = Chain!Below
    BY <1>4 DEF Nft!MintRejects, Nft!TransferRejects, Nft!CalleeRejects, Nft!Finish, Nft!Reject,
                Nft!Reading, Nft!Running, Nft!Waiting, Nft!Idle, Chain!Idle, Nft!Below, Chain!Below
  <2> QED BY <2>1, EndShortens DEF NftInv, Nft!HolderConsents
<1>5. CASE Nft!Transfer
  <2>1. PICK t \in Tokens, amount \in 0 .. 1, from \in Nft!Addresses, to \in Nft!Addresses :
          Nft!May(from) /\ state' = Nft!transfer(t, amount, from, to)
    BY <1>5 DEF Nft!Transfer, Nft!Execute, Nft!Invoke, Nft!Continue
  <2>2. \A u \in Tokens, a \in Nft!Addresses :
          u \in state.owned_tokens[a] /\ u \notin state'.owned_tokens[a] => a = from
    BY <1>1, <2>1 DEF Nft!transfer, NftGood, Nft!States
  <2> QED BY <1>5, <2>1, <2>2 DEF Nft!HolderConsents, Nft!Transfer, Nft!Reading
<1>6. CASE Nft!UpdateOperator
  <2>1. state'.owned_tokens = state.owned_tokens
    BY <1>1, <1>6 DEF Nft!UpdateOperator, Nft!Execute, Nft!Continue, Nft!add_operator,
                      Nft!remove_operator, NftGood, Nft!States
  <2> QED BY <2>1 DEF Nft!HolderConsents
<1> QED BY <1>2, <1>3, <1>4, <1>5, <1>6 DEF Nft!Next, Nft!Callees

-----------------------------------------------------------------------------
(* The ERC721 contract: approvals are current in the state, and in every     *)
(* state that a rejection would bring back.                                  *)
ErcCalls == Erc!ForAnyone \cup Erc!ForContracts
ErcGood == {s \in Erc!States : Erc!ApprovalsOf(s)}
ErcInv == InStates(Contracts, ErcCalls, ErcGood, {Nobody})

\* Its chain is that of Host, but for the bounds.
LEMMA ErcOnChain ==
  OnChain(Erc!Enter, Erc!Continue, Erc!Reject, Erc!CalleeReturns, Erc!Finish, Erc!Reading, Erc!Top)
BY DEF OnChain, Erc!Enter, Called, Erc!Continue, Chain!Continue, Erc!Reject, Chain!Reject,
       Erc!CalleeReturns, Chain!CalleeReturns, Erc!Finish, Chain!Finish, Erc!Reading,
       Chain!Reading, Erc!Running, Chain!Running, Erc!Waiting, Chain!Waiting, Erc!Idle,
       Chain!Idle, Erc!Top, Chain!Top, Erc!Below, Chain!Below

\* Who can own its tokens: the addresses of the chain, which are not Nobody.
LEMMA ErcAddresses ==
  /\ Erc!Addresses = Addresses(Contracts)
  /\ Owner \in Erc!Addresses /\ Nobody \notin Erc!Addresses
BY Deployable DEF Erc!Addresses, Addresses, Multi!HostAssumption

\* The new owner starts without an approval.
LEMMA ErcTransfer ==
  ASSUME state \in ErcGood, NEW t \in Tokens, NEW to \in Erc!Addresses
  PROVE  Erc!transfer(to, t) \in ErcGood
<1>1. Erc!transfer(to, t) \in Erc!States
  BY DEF ErcGood, Erc!States, Erc!Optional, Erc!transfer
<1>2. Erc!ApprovalsOf(Erc!transfer(to, t))
  BY DEF ErcGood, Erc!States, Erc!Optional, Erc!transfer, Erc!ApprovalsOf
<1> QED BY <1>1, <1>2 DEF ErcGood

\* An approval is for another than the owner, of a token that exists.
LEMMA ErcApprove ==
  ASSUME state \in ErcGood, NEW t \in Tokens,
         NEW sender, NEW approved \in Erc!Optional,
         Erc!ApproveError(sender, approved, t) = "none"
  PROVE  Erc!approve(approved, t) \in ErcGood
<1>1. state.token_owners[t] \in Erc!Addresses /\ approved # state.token_owners[t]
  BY DEF Erc!ApproveError, Erc!exists, Erc!get_owner, ErcGood, Erc!States, Erc!Optional
<1>2. Erc!approve(approved, t) \in Erc!States
  BY <1>1 DEF ErcGood, Erc!States, Erc!Optional, Erc!approve, Erc!get_owner
<1>3. Erc!ApprovalsOf(Erc!approve(approved, t))
  BY <1>1 DEF ErcGood, Erc!States, Erc!Optional, Erc!approve, Erc!get_owner, Erc!ApprovalsOf
<1> QED BY <1>2, <1>3 DEF ErcGood

\* An operator is another than the owner.
LEMMA ErcOperator ==
  ASSUME state \in ErcGood, NEW owner \in Erc!Addresses, NEW operator \in Erc!Addresses \ {owner},
         NEW approved \in BOOLEAN
  PROVE  Erc!approval_for_all(owner, operator, approved) \in ErcGood
<1>1. Erc!approval_for_all(owner, operator, approved) \in Erc!States
  BY DEF ErcGood, Erc!States, Erc!approval_for_all
<1>2. Erc!ApprovalsOf(Erc!approval_for_all(owner, operator, approved))
  BY DEF ErcGood, Erc!States, Erc!ApprovalsOf, Erc!approval_for_all
<1> QED BY <1>1, <1>2 DEF ErcGood

\* Deployment: no token is approved for anyone.
LEMMA ErcInit == Erc!Init => ErcInv
<1> SUFFICES ASSUME Erc!Init PROVE ErcInv
  OBVIOUS
<1>1. state \in Erc!States
  BY ErcAddresses DEF Erc!Init, Erc!States, Erc!Optional
<1>2. Erc!ApprovalsOf(state)
  BY DEF Erc!Init, Erc!ApprovalsOf
<1> QED BY <1>1, <1>2 DEF ErcGood, ErcInv, InStates, Erc!Init, Erc!HostInit

\* The entry points that change nothing and hand their answer to a contract.
ErcAnswers ==
  \/ Erc!OnERC721Received \/ Erc!BalanceOf \/ Erc!OwnerOf \/ Erc!GetApproved
  \/ Erc!IsApprovedForAll

\* The operations lead to states of ErcGood.
LEMMA ErcMoves ==
  ASSUME ErcInv, Erc!Next
  PROVE  Moves(Contracts, ErcCalls, ErcGood, {Nobody})
<1> DEFINE Goes == GoesOn(Contracts, ErcGood, {Nobody})
<1> state \in ErcGood
  BY DEF ErcInv, InStates
<1>1. CASE Erc!Enters
  <2>1. \E a \in Erc!Addresses, entrypoint \in ErcCalls : Erc!Enter(a, entrypoint, 0, 1)
    BY <1>1 DEF Erc!Enters, ErcCalls
  <2> QED BY <2>1, ErcOnChain, ErcAddresses DEF OnChain, Enters, Moves
<1>2. ASSUME NEW entrypoint, Erc!Reading(entrypoint), NEW new \in ErcGood,
             NEW callee \in Contracts \cup {Nobody},
             Erc!Continue(new, 0, callee, Erc!Top.left - 1, Erc!Top.local)
      PROVE  Goes
  BY <1>2, Reader, ErcOnChain DEF OnChain, ErcInv, GoesOn
<1>3. ASSUME NEW entrypoint, Erc!Reading(entrypoint)
      PROVE  Erc!Top.by \in Erc!Addresses
  BY <1>3, Reader, ErcOnChain, ErcAddresses DEF OnChain, ErcInv
<1>4. CASE Erc!TransferFrom \/ Erc!SafeTransferFrom
  <2>1. PICK t \in Tokens, to \in Erc!Addresses :
          \/ Erc!Execute(Erc!transfer(to, t))
          \/ to \in Contracts /\ Erc!Invoke(Erc!transfer(to, t), to, 0)
    BY <1>4, ErcAddresses DEF Erc!TransferFrom, Erc!SafeTransferFrom
  <2>2. Erc!transfer(to, t) \in ErcGood
    BY ErcTransfer
  <2> QED BY <1>2, <1>4, <2>1, <2>2
          DEF Erc!TransferFrom, Erc!SafeTransferFrom, Erc!Execute, Erc!Invoke, Moves
<1>5. CASE Erc!Approve
  <2>1. PICK t \in Tokens, approved \in Erc!Optional :
          Erc!ApproveError(Erc!Top.by, approved, t) = "none" /\ Erc!Execute(Erc!approve(approved, t))
    BY <1>5 DEF Erc!Approve, Erc!Optional
  <2>2. Erc!approve(approved, t) \in ErcGood
    BY <2>1, ErcApprove
  <2> QED BY <1>2, <1>5, <2>1, <2>2 DEF Erc!Approve, Erc!Execute, Moves
<1>6. CASE Erc!SetApprovalForAll
  <2>1. CASE Erc!Reject("OperatorIsSender")
    BY <1>6, <2>1, ErcOnChain
       DEF OnChain, Erc!SetApprovalForAll, Chain!Reading, Chain!Running, Undone, Moves
  <2>2. CASE ~Erc!Reject("OperatorIsSender")
    <3>1. PICK operator \in Erc!Addresses \ {Erc!Top.by}, approved \in BOOLEAN :
            Erc!Execute(Erc!approval_for_all(Erc!Top.by, operator, approved))
      BY <1>6, <2>2 DEF Erc!SetApprovalForAll
    <3>2. Erc!approval_for_all(Erc!Top.by, operator, approved) \in ErcGood
      BY <1>3, <1>6, ErcOperator DEF Erc!SetApprovalForAll
    <3> QED BY <1>2, <1>6, <3>1, <3>2 DEF Erc!SetApprovalForAll, Erc!Execute, Moves
  <2> QED BY <2>1, <2>2
<1>7. CASE ErcAnswers
  BY <1>2, <1>7
     DEF ErcAnswers, Erc!OnERC721Received, Erc!BalanceOf, Erc!OwnerOf, Erc!GetApproved,
         Erc!IsApprovedForAll, Erc!Invoke, Moves
<1>8. CASE Erc!TransferRejects \/ Erc!ApproveRejects \/ Erc!CalleeRejects
  BY <1>8, ErcOnChain
     DEF OnChain, Erc!TransferRejects, Erc!ApproveRejects, Erc!CalleeRejects, Erc!Waiting,
         Erc!Idle, Chain!Idle, Chain!Reading, Chain!Running, Undone, Moves
<1>9. CASE Erc!CalleeReturns \/ Erc!Finish
  BY <1>9, ErcOnChain DEF OnChain, Moves
<1> QED BY <1>1, <1>4, <1>5, <1>6, <1>7, <1>8, <1>9 DEF Erc!Next, Erc!Callees, ErcAnswers

\* A step that changes a token's owner is a transfer sent by the owner, the one
\* approved for the token or an operator of the owner, or it undoes one.
LEMMA ErcConsents ==
  ASSUME ErcInv, Erc!Next
  PROVE  Erc!OwnerConsents
<1>1. state \in ErcGood
  BY DEF ErcInv, InStates
<1>2. CASE Erc!Enters \/ ErcAnswers \/ Erc!CalleeReturns
  <2>1. state' = state
    BY <1>2 DEF Erc!Enters, Erc!Enter, ErcAnswers, Erc!OnERC721Received, Erc!BalanceOf,
                Erc!OwnerOf, Erc!GetApproved, Erc!IsApprovedForAll, Erc!Invoke, Erc!Continue,
                Erc!CalleeReturns
  <2> QED BY <2>1 DEF Erc!OwnerConsents, Erc!get_owner
<1>3. CASE Erc!TransferFrom \/ Erc!SafeTransferFrom
  <2>1. PICK t \in Tokens, from \in Erc!Addresses, to \in Erc!Addresses :
          Erc!TransferError(Erc!Top.by, from, t) = "none" /\ state' = Erc!transfer(to, t)
    BY <1>3, ErcAddresses
       DEF Erc!TransferFrom, Erc!SafeTransferFrom, Erc!Execute, Erc!Invoke, Erc!Continue
  <2>2. /\ Erc!exists(t)
        /\ \/ Erc!Top.by \in {Erc!get_owner(t), state.token_approvals[t]}
           \/ Erc!is_operator(Erc!Top.by, Erc!get_owner(t))
    BY <2>1 DEF Erc!TransferError, Erc!is_owner, Erc!is_approved
  <2>3. state'.token_owners[t] = to /\ to # Erc!NoAddress
    BY <1>1, <2>1, ErcAddresses DEF Erc!transfer, ErcGood, Erc!States, Erc!NoAddress
  <2>4. \A u \in Tokens \ {t} : state'.token_owners[u] = Erc!get_owner(u)
    BY <1>1, <2>1 DEF Erc!transfer, Erc!get_owner, ErcGood, Erc!States
  <2> QED BY <1>3, <2>2, <2>3, <2>4
          DEF Erc!OwnerConsents, Erc!TransferFrom, Erc!SafeTransferFrom, Erc!Reading
<1>4. CASE \/ Erc!TransferRejects \/ Erc!ApproveRejects \/ Erc!CalleeRejects \/ Erc!Finish
           \/ Erc!SetApprovalForAll /\ Erc!Reject("OperatorIsSender")
  <2>1. ~Chain!Idle /\ stack' = Chain!Below
    BY <1>4 DEF Erc!TransferRejects, Erc!ApproveRejects, Erc!CalleeRejects, Erc!Finish,
                Erc!SetApprovalForAll, Erc!Reject, Erc!Reading, Erc!Running, Erc!Waiting,
                Erc!Idle, Chain!Idle, Erc!Below, Chain!Below
  <2> QED BY <2>1, EndShortens DEF ErcInv, Erc!OwnerConsents
<1>5. CASE Erc!Approve \/ (Erc!SetApprovalForAll /\ ~Erc!Reject("OperatorIsSender"))
  <2>1. state'.token_owners = state.token_owners
    BY <1>1, <1>5 DEF Erc!Approve, Erc!SetApprovalForAll, Erc!Execute, Erc!Continue, Erc!approve,
                      Erc!approval_for_all, ErcGood, Erc!States
  <2> QED BY <2>1 DEF Erc!OwnerConsents, Erc!get_owner
<1> QED BY <1>2, <1>3, <1>4, <1>5 DEF Erc!Next, ErcAnswers, Erc!Callees

-----------------------------------------------------------------------------
(* The single NFT contract: its token has a holder.                          *)
SingleInv == InStates(Contracts, Single!Entrypoints, Single!States, {Nobody})

\* Its chain is that of Host, but for the bounds.
LEMMA SingleOnChain ==
  OnChain(Single!Enter, Single!Continue, Single!Reject, Single!CalleeReturns, Single!Finish, Single!Reading, Single!Top)
BY DEF OnChain, Single!Enter, Called, Single!Continue, Chain!Continue, Single!Reject, Chain!Reject,
       Single!CalleeReturns, Chain!CalleeReturns, Single!Finish, Chain!Finish, Single!Reading,
       Chain!Reading, Single!Running, Chain!Running, Single!Waiting, Chain!Waiting, Single!Idle,
       Chain!Idle, Single!Top, Chain!Top, Single!Below, Chain!Below

\* Who can hold its token.
LEMMA SingleAddresses ==
  /\ Single!Addresses = Addresses(Contracts)
  /\ Owner \in Single!Addresses /\ Accounts \cup Contracts \subseteq Single!Addresses
BY Deployable DEF Single!Addresses, Addresses, Multi!HostAssumption

\* Deployment.
LEMMA SingleInit == Single!Init => SingleInv
BY SingleAddresses DEF Single!Init, Single!States, SingleInv, InStates, Single!HostInit

\* The operations lead to well-typed states.
LEMMA SingleMoves ==
  ASSUME SingleInv, Single!Next
  PROVE  Moves(Contracts, Single!Entrypoints, Single!States, {Nobody})
<1> DEFINE Goes == GoesOn(Contracts, Single!States, {Nobody})
<1> state \in Single!States
  BY DEF SingleInv, InStates
<1>1. CASE Single!Enters
  <2>1. 0 .. MaxBatch \subseteq Nat /\ 0 .. MaxUpdates \subseteq Nat
    BY Deployable DEF Multi!HostAssumption
  <2>2. \E a \in Single!Addresses, entrypoint \in Single!Entrypoints, n \in Nat :
          Single!Enter(a, entrypoint, 0, n)
    BY <1>1, <2>1 DEF Single!Enters, Single!Entrypoints
  <2> QED BY <2>2, SingleOnChain, SingleAddresses DEF OnChain, Enters, Moves
<1>2. ASSUME NEW entrypoint, Single!Reading(entrypoint), NEW new \in Single!States,
             NEW callee \in Contracts \cup {Nobody}, NEW amount \in Nat,
             Single!Continue(new, amount, callee, Single!Top.left - 1, Single!Top.local)
      PROVE  Goes
  BY <1>2, Reader, SingleOnChain DEF OnChain, SingleInv, GoesOn
<1>3. CASE Single!Transfer
  <2>1. PICK amount \in 0 .. 1, to \in Accounts \cup Contracts :
          \/ Single!Execute(Single!transfer(amount, to))
          \/ to \in Contracts /\ Single!Invoke(Single!transfer(amount, to), to, amount)
    BY <1>3 DEF Single!Transfer
  <2>2. Single!transfer(amount, to) \in Single!States
    BY SingleAddresses DEF Single!transfer, Single!States
  <2> QED BY <1>2, <1>3, <2>1, <2>2
          DEF Single!Transfer, Single!Execute, Single!Invoke, Moves
<1>4. CASE Single!UpdateOperator
  <2>1. Single!Top.by \in Single!Addresses
    BY <1>4, Reader, SingleOnChain, SingleAddresses
       DEF OnChain, SingleInv, Single!UpdateOperator
  <2>2. ASSUME NEW operator \in Single!Addresses
        PROVE  /\ Single!add_operator(Single!Top.by, operator) \in Single!States
               /\ Single!remove_operator(Single!Top.by, operator) \in Single!States
    BY <2>1 DEF Single!add_operator, Single!remove_operator, Single!States
  <2> QED BY <1>2, <1>4, <2>2 DEF Single!UpdateOperator, Single!Execute, Moves
<1>5. CASE Single!Query
  BY <1>2, <1>5 DEF Single!Query, Single!OperatorOf, Single!BalanceOf, Single!TokenMetadata,
                    Single!Invoke, Moves
<1>6. CASE Single!TransferRejects \/ Single!CalleeRejects
  BY <1>6, SingleOnChain
     DEF OnChain, Single!TransferRejects, Single!CalleeRejects, Single!Waiting, Single!Idle,
         Chain!Idle, Chain!Reading, Chain!Running, Undone, Moves
<1>7. CASE Single!CalleeReturns \/ Single!Finish
  BY <1>7, SingleOnChain DEF OnChain, Moves
<1> QED BY <1>1, <1>3, <1>4, <1>5, <1>6, <1>7 DEF Single!Next, Single!Callees

\* A step that gives the token to another is a transfer sent by its holder or
\* the holder's operator, or it undoes one.
LEMMA SingleConsents ==
  ASSUME SingleInv, Single!Next
  PROVE  Single!HolderConsents
<1>1. state \in Single!States
  BY DEF SingleInv, InStates
<1>2. CASE Single!Enters \/ Single!Query \/ Single!CalleeReturns \/ Single!UpdateOperator
  <2>1. state'.owner = state.owner
    BY <1>1, <1>2 DEF Single!Enters, Single!Enter, Single!Query, Single!OperatorOf,
         Single!BalanceOf, Single!TokenMetadata, Single!Invoke, Single!Continue,
         Single!CalleeReturns, Single!UpdateOperator, Single!Execute, Single!add_operator,
         Single!remove_operator, Single!States
  <2> QED BY <2>1 DEF Single!HolderConsents
<1>3. CASE Single!TransferRejects \/ Single!CalleeRejects \/ Single!Finish
  <2>1. ~Chain!Idle /\ stack' = Chain!Below
    BY <1>3 DEF Single!TransferRejects, Single!CalleeRejects, Single!Finish, Single!Reject,
                Single!Reading, Single!Running, Single!Waiting, Single!Idle, Chain!Idle,
                Single!Below, Chain!Below
  <2> QED BY <2>1, EndShortens DEF SingleInv, Single!HolderConsents
<1>4. CASE Single!Transfer
  <2>1. PICK amount \in 0 .. 1, from \in Single!Addresses, to \in Accounts \cup Contracts :
          /\ Single!May(from) /\ Single!TransferError(amount, from) = "none"
          /\ state' = Single!transfer(amount, to)
    BY <1>4 DEF Single!Transfer, Single!Execute, Single!Invoke, Single!Continue
  <2>2. state'.owner # state.owner => from = state.owner
    BY <2>1 DEF Single!transfer, Single!TransferError
  <2> QED BY <1>4, <2>1, <2>2 DEF Single!HolderConsents, Single!Transfer, Single!Reading
<1> QED BY <1>2, <1>3, <1>4 DEF Single!Next, Single!Callees

-----------------------------------------------------------------------------
(* The multi token contract: what was minted of a token is what there is of  *)
(* it, but for the times a balance has wrapped around.                       *)
MultiBalances == [Multi!Addresses -> [Kinds -> Multi!TokenAmount]]
MultiOf(balances, t) == [a \in Multi!Addresses |-> balances[a][t]]
MultiSum(balances, t) == SumFunctionOnSet(MultiOf(balances, t), Multi!Addresses)
MultiGood ==
  {s \in Multi!States : \A t \in Kinds : \E k \in Nat :
     s.minted[t] = MultiSum(s.balances, t) + k * KindW}
MultiInv == InStates(Contracts, Multi!Entrypoints, MultiGood, {Nobody})

\* Its chain is that of Host, but for the bounds.
LEMMA MultiOnChain ==
  OnChain(Multi!Enter, Multi!Continue, Multi!Reject, Multi!CalleeReturns, Multi!Finish, Multi!Reading, Multi!Top)
BY DEF OnChain, Multi!Enter, Called, Multi!Continue, Chain!Continue, Multi!Reject, Chain!Reject,
       Multi!CalleeReturns, Chain!CalleeReturns, Multi!Finish, Chain!Finish, Multi!Reading,
       Chain!Reading, Multi!Running, Chain!Running, Multi!Waiting, Chain!Waiting, Multi!Idle,
       Chain!Idle, Multi!Top, Chain!Top, Multi!Below, Chain!Below

\* What its addresses and amounts are.
LEMMA MultiAddresses ==
  /\ Multi!Addresses = Addresses(Contracts)
  /\ Owner \in Multi!Addresses /\ Self \in Multi!Addresses
  /\ Accounts \cup Contracts \subseteq Multi!Addresses
  /\ IsFiniteSet(Multi!Addresses) /\ KindW \in Nat \ {0}
<1>1. IsFiniteSet(Multi!Addresses) /\ KindW \in Nat \ {0}
  BY Deployable DEF Multi!MultiAssumption, Multi!IsFiniteSet, IsFiniteSet
<1> QED BY <1>1, Deployable DEF Multi!Addresses, Addresses, Multi!HostAssumption

\* One balance changes.
MultiPut(b, t, a, v) == [b EXCEPT ![a][t] = v]

\* One balance is replaced: the sum of its token changes by the difference.
LEMMA MultiUpdate ==
  ASSUME NEW b \in MultiBalances, NEW a \in Multi!Addresses, NEW t \in Kinds,
         NEW v \in Multi!TokenAmount
  PROVE  LET c == MultiPut(b, t, a, v)
         IN  /\ c \in MultiBalances
             /\ MultiSum(c, t) = MultiSum(b, t) - b[a][t] + v
             /\ \A u \in Kinds \ {t} : MultiSum(c, u) = MultiSum(b, u)
<1> DEFINE S == Multi!Addresses
           c == MultiPut(b, t, a, v)
<1>1. c \in MultiBalances
  BY DEF MultiBalances, MultiPut
<1>2. ASSUME NEW u \in Kinds, NEW x \in S
      PROVE  /\ MultiOf(b, u)[x] = b[x][u] /\ b[x][u] \in Int
             /\ MultiOf(c, u)[x] = c[x][u] /\ c[x][u] \in Int
             /\ x # a \/ u # t => c[x][u] = b[x][u]
             /\ x = a /\ u = t => c[x][u] = v
  BY <1>1 DEF MultiBalances, MultiOf, MultiPut, Multi!TokenAmount
<1>4. \A m, u : MultiSum(m, u) = SumFunctionOnSet(MultiOf(m, u), S)
  BY DEF MultiSum
<1>5. IsFiniteSet(S) /\ a \in S
  BY MultiAddresses
<1> HIDE DEF S, c
<1>6. MultiSum(c, t) = MultiSum(b, t) - b[a][t] + v
  <2> DEFINE f == MultiOf(b, t)
             g == MultiOf(c, t)
  <2>1. \A y \in S : f[y] \in Int /\ g[y] \in Int
    BY <1>2
  <2>2. \A y \in S \ {a} : f[y] = g[y]
    BY <1>2
  <2>3. f[a] = b[a][t] /\ g[a] = v
    BY <1>2, <1>5
  <2> HIDE DEF f, g
  <2>4. SumFunctionOnSet(g, S) = SumFunctionOnSet(f, S) - f[a] + g[a]
    BY <1>5, <2>1, <2>2, SumUpdate
  <2> QED BY <1>4, <2>3, <2>4 DEF f, g
<1>7. ASSUME NEW u \in Kinds \ {t} PROVE MultiSum(c, u) = MultiSum(b, u)
  <2>1. \A x \in S : MultiOf(c, u)[x] = MultiOf(b, u)[x]
    BY <1>2
  <2> QED BY <1>4, <1>5, <2>1, SumSame
<1> QED BY <1>1, <1>6, <1>7 DEF c

\* The sum is a natural number, and no balance is greater.
LEMMA MultiBounds ==
  ASSUME NEW b \in MultiBalances, NEW t \in Kinds
  PROVE  /\ MultiSum(b, t) \in Nat
         /\ \A a \in Multi!Addresses : b[a][t] \in Multi!TokenAmount /\ b[a][t] <= MultiSum(b, t)
<1> DEFINE S == Multi!Addresses
           f == MultiOf(b, t)
<1>1. \A x \in S : f[x] \in Nat /\ f[x] = b[x][t] /\ b[x][t] \in Multi!TokenAmount
  BY DEF MultiBalances, MultiOf, Multi!TokenAmount
<1>2. MultiSum(b, t) = SumFunctionOnSet(f, S)
  BY DEF MultiSum
<1>3. IsFiniteSet(S) /\ S \in SUBSET S
  BY MultiAddresses
<1> HIDE DEF f, S
<1>4. SumFunctionOnSet(f, S) \in Nat
  BY <1>1, <1>3, SumPart
<1>5. \A x \in S : f[x] <= SumFunctionOnSet(f, S)
  BY <1>1, <1>3, SumBounds
<1> QED BY <1>1, <1>2, <1>4, <1>5 DEF S

\* An amount that is added wraps around at most once, and not at all below W.
LEMMA MultiWraps ==
  ASSUME NEW x \in Multi!TokenAmount, NEW y \in Multi!TokenAmount
  PROVE  /\ (x + y) % KindW \in Multi!TokenAmount
         /\ \E j \in Nat : x + y = ((x + y) % KindW) + j * KindW
         /\ x + y < KindW => (x + y) % KindW = x + y
<1>1. x + y \in Nat /\ KindW \in Nat \ {0}
  BY MultiAddresses DEF Multi!TokenAmount
<1>2. /\ (x + y) \div KindW \in Nat /\ (x + y) % KindW \in 0 .. KindW - 1
      /\ x + y = KindW * ((x + y) \div KindW) + ((x + y) % KindW)
  BY <1>1, DivMod
<1>3. x + y < KindW => (x + y) % KindW = x + y
  BY <1>1
<1>4. x + y = ((x + y) % KindW) + ((x + y) \div KindW) * KindW
  BY <1>1, <1>2
<1> QED BY <1>2, <1>3, <1>4 DEF Multi!TokenAmount

\* The balances after an amount of a token arrives at an address.
MultiGiven(b, t, amount, a) == [b EXCEPT ![a][t] = (@ + amount) % KindW]

\* A balance grows modulo KindW: the sum of its token too, up to a multiple of
\* KindW.
LEMMA MultiGive ==
  ASSUME NEW b \in MultiBalances, NEW t \in Kinds, NEW amount \in Multi!TokenAmount,
         NEW a \in Multi!Addresses
  PROVE  LET c == MultiGiven(b, t, amount, a)
         IN  /\ c \in MultiBalances
             /\ \E j \in Nat : MultiSum(b, t) + amount = MultiSum(c, t) + j * KindW
             /\ \A u \in Kinds \ {t} : MultiSum(c, u) = MultiSum(b, u)
<1> DEFINE c == MultiGiven(b, t, amount, a)
           v == (b[a][t] + amount) % KindW
<1>1. b[a][t] \in Multi!TokenAmount
  BY DEF MultiBalances
<1>2. v \in Multi!TokenAmount /\ \E j \in Nat : b[a][t] + amount = v + j * KindW
  BY <1>1, MultiWraps
<1>3. c = MultiPut(b, t, a, v)
  BY DEF MultiGiven, MultiPut, MultiBalances
<1> HIDE DEF c, v
<1>4. /\ c \in MultiBalances
      /\ MultiSum(c, t) = MultiSum(b, t) - b[a][t] + v
      /\ \A u \in Kinds \ {t} : MultiSum(c, u) = MultiSum(b, u)
  BY <1>2, <1>3, MultiUpdate
<1>5. MultiSum(b, t) \in Nat
  BY MultiBounds
<1>6. PICK j \in Nat : b[a][t] + amount = v + j * KindW
  BY <1>2
<1>7. MultiSum(b, t) + amount = MultiSum(c, t) + j * KindW
  <2>1. j * KindW \in Nat /\ amount \in Nat /\ v \in Nat /\ b[a][t] \in Nat
    BY <1>1, <1>2, MultiAddresses DEF Multi!TokenAmount
  <2>2. MultiSum(c, t) = MultiSum(b, t) - b[a][t] + v
    BY <1>4
  <2> QED BY <1>5, <1>6, <2>1, <2>2
<1> QED BY <1>4, <1>7 DEF c

\* Minting adds to what was minted and to one balance.
LEMMA MultiMint ==
  ASSUME state \in MultiGood, NEW t \in Kinds, NEW amount \in Multi!TokenAmount,
         NEW owner \in Multi!Addresses
  PROVE  Multi!mint(t, amount, owner) \in MultiGood
<1> DEFINE b == state.balances
           new == Multi!mint(t, amount, owner)
           c == MultiGiven(b, t, amount, owner)
<1>1. state \in Multi!States /\ b \in MultiBalances /\ amount \in Nat
  BY DEF MultiGood, Multi!States, MultiBalances, Multi!TokenAmount
<1>2. /\ new.balances = c
      /\ new.minted[t] = state.minted[t] + amount
      /\ \A u \in Kinds \ {t} : new.minted[u] = state.minted[u]
  BY <1>1 DEF Multi!mint, Multi!States, MultiGiven
<1>3. /\ c \in MultiBalances
      /\ \E j \in Nat : MultiSum(b, t) + amount = MultiSum(c, t) + j * KindW
      /\ \A u \in Kinds \ {t} : MultiSum(c, u) = MultiSum(b, u)
  BY <1>1, MultiGive
<1>4. new \in Multi!States
  <2>1. [state.minted EXCEPT ![t] = @ + amount] \in [Kinds -> Nat]
    BY <1>1 DEF Multi!States
  <2> QED BY <1>1, <1>2, <1>3, <2>1 DEF Multi!mint, Multi!States, MultiBalances
<1>5. ASSUME NEW u \in Kinds PROVE \E k \in Nat : new.minted[u] = MultiSum(c, u) + k * KindW
  <2>1. PICK k \in Nat : state.minted[u] = MultiSum(b, u) + k * KindW
    BY DEF MultiGood
  <2>2. CASE u # t
    BY <1>2, <1>3, <2>1, <2>2
  <2>3. CASE u = t
    <3>1. PICK j \in Nat : MultiSum(b, t) + amount = MultiSum(c, t) + j * KindW
      BY <1>3
    <3>2. /\ MultiSum(b, t) \in Nat /\ MultiSum(c, t) \in Nat /\ KindW \in Nat
          /\ j * KindW \in Nat /\ k * KindW \in Nat /\ (k + j) * KindW = k * KindW + j * KindW
      BY <1>1, <1>3, MultiBounds, MultiAddresses
    <3>3. new.minted[t] = MultiSum(c, t) + (k + j) * KindW
      BY <1>1, <1>2, <2>1, <2>3, <3>1, <3>2
    <3> QED BY <2>3, <3>3
  <2> QED BY <2>2, <2>3
<1> QED BY <1>2, <1>4, <1>5 DEF MultiGood

\* The balances after a transfer has taken an amount from an address.
MultiTaken(b, t, amount, from) == [b EXCEPT ![from][t] = @ - amount]

\* A balance shrinks by no more than it is: so does the sum of its token.
LEMMA MultiTake ==
  ASSUME NEW b \in MultiBalances, NEW t \in Kinds, NEW amount \in Multi!TokenAmount,
         NEW from \in Multi!Addresses, amount <= b[from][t]
  PROVE  LET d == MultiTaken(b, t, amount, from)
         IN  /\ d \in MultiBalances
             /\ MultiSum(b, t) = MultiSum(d, t) + amount
             /\ \A u \in Kinds \ {t} : MultiSum(d, u) = MultiSum(b, u)
<1> DEFINE d == MultiTaken(b, t, amount, from)
           v == b[from][t] - amount
<1>1. v \in Multi!TokenAmount /\ b[from][t] \in Nat /\ amount \in Nat /\ v \in Nat
  <2>1. b[from][t] \in Multi!TokenAmount
    BY DEF MultiBalances
  <2> QED BY <2>1, MultiAddresses DEF Multi!TokenAmount
<1>2. d = MultiPut(b, t, from, v)
  BY DEF MultiTaken, MultiPut, MultiBalances
<1>3. b[from][t] = v + amount
  BY <1>1
<1> HIDE DEF d, v
<1>4. /\ d \in MultiBalances
      /\ MultiSum(d, t) = MultiSum(b, t) - b[from][t] + v
      /\ \A u \in Kinds \ {t} : MultiSum(d, u) = MultiSum(b, u)
  BY <1>1, <1>2, MultiUpdate
<1>5. MultiSum(b, t) \in Nat
  BY MultiBounds
<1> QED BY <1>1, <1>3, <1>4, <1>5 DEF d

\* A transfer takes what it gives.
LEMMA MultiTransfer ==
  ASSUME state \in MultiGood, NEW t \in Kinds, NEW amount \in Multi!TokenAmount,
         NEW from \in Multi!Addresses, NEW to \in Multi!Addresses,
         Multi!TransferError(t, amount, from) = "none"
  PROVE  Multi!transfer(t, amount, from, to) \in MultiGood
<1> DEFINE b == state.balances
           new == Multi!transfer(t, amount, from, to)
           d == MultiTaken(b, t, amount, from)
           c == MultiGiven(d, t, amount, to)
<1>1. state \in Multi!States /\ b \in MultiBalances
  BY DEF MultiGood, Multi!States, MultiBalances
<1>2. amount <= b[from][t]
  <2>1. b[from][t] \in Nat /\ amount \in Nat
    BY <1>1 DEF MultiBalances, Multi!TokenAmount
  <2> QED BY <2>1 DEF Multi!TransferError
<1>3. /\ d \in MultiBalances
      /\ MultiSum(b, t) = MultiSum(d, t) + amount
      /\ \A u \in Kinds \ {t} : MultiSum(d, u) = MultiSum(b, u)
  BY <1>1, <1>2, MultiTake
<1>4. new = [state EXCEPT !.balances = c]
  BY DEF Multi!transfer, MultiTaken, MultiGiven
<1> HIDE DEF d
<1>5. /\ c \in MultiBalances
      /\ \E j \in Nat : MultiSum(d, t) + amount = MultiSum(c, t) + j * KindW
      /\ \A u \in Kinds \ {t} : MultiSum(c, u) = MultiSum(d, u)
  BY <1>3, MultiGive
<1> HIDE DEF c
<1>6. new \in Multi!States /\ new.balances = c /\ new.minted = state.minted
  BY <1>1, <1>4, <1>5 DEF Multi!States, MultiBalances
<1>7. ASSUME NEW u \in Kinds PROVE \E k \in Nat : new.minted[u] = MultiSum(c, u) + k * KindW
  <2>1. PICK k \in Nat : state.minted[u] = MultiSum(b, u) + k * KindW
    BY DEF MultiGood
  <2>2. CASE u # t
    BY <1>3, <1>5, <1>6, <2>1, <2>2
  <2>3. CASE u = t
    <3>1. PICK j \in Nat : MultiSum(d, t) + amount = MultiSum(c, t) + j * KindW
      BY <1>5
    <3>2. /\ MultiSum(b, t) \in Nat /\ MultiSum(c, t) \in Nat /\ KindW \in Nat
          /\ j * KindW \in Nat /\ k * KindW \in Nat /\ (k + j) * KindW = k * KindW + j * KindW
      BY <1>1, <1>5, MultiBounds, MultiAddresses
    <3>3. new.minted[t] = MultiSum(c, t) + (k + j) * KindW
      BY <1>3, <1>6, <2>1, <2>3, <3>1, <3>2
    <3> QED BY <2>3, <3>3
  <2> QED BY <2>2, <2>3
<1> QED BY <1>6, <1>7 DEF MultiGood

\* Naming an operator moves nothing.
LEMMA MultiOperator ==
  ASSUME state \in MultiGood, NEW owner \in Multi!Addresses, NEW operator \in Multi!Addresses
  PROVE  /\ Multi!add_operator(owner, operator) \in MultiGood
         /\ Multi!remove_operator(owner, operator) \in MultiGood
<1>1. ASSUME NEW operators \in SUBSET Multi!Addresses
      PROVE  [state EXCEPT !.operators[owner] = operators] \in MultiGood
  BY DEF MultiGood, Multi!States
<1>2. state.operators[owner] \in SUBSET Multi!Addresses
  BY DEF MultiGood, Multi!States
<1> QED BY <1>1, <1>2 DEF Multi!add_operator, Multi!remove_operator

\* Deployment: there are no tokens.
LEMMA MultiInit == Multi!Init => MultiInv
<1> SUFFICES ASSUME Multi!Init PROVE MultiInv
  OBVIOUS
<1>1. state \in Multi!States
  BY MultiAddresses DEF Multi!Init, Multi!States, Multi!TokenAmount
<1>2. ASSUME NEW t \in Kinds
      PROVE  state.minted[t] = MultiSum(state.balances, t) + 0 * KindW
  <2> DEFINE S == Multi!Addresses
             f == MultiOf(state.balances, t)
  <2>1. \A a \in S : f[a] = 0
    BY DEF Multi!Init, MultiOf
  <2>2. MultiSum(state.balances, t) = SumFunctionOnSet(f, S)
    BY DEF MultiSum
  <2>3. IsFiniteSet(S)
    BY MultiAddresses
  <2> HIDE DEF f, S
  <2>4. MultiSum(state.balances, t) = 0
    BY <2>1, <2>2, <2>3, SumZero
  <2> QED BY <2>4, MultiAddresses DEF Multi!Init
<1>3. state \in MultiGood
  BY <1>1, <1>2 DEF MultiGood
<1> QED BY <1>3 DEF MultiInv, InStates, Multi!Init, Multi!HostInit

\* The operations lead to states of MultiGood.
LEMMA MultiMoves ==
  ASSUME MultiInv, Multi!Next
  PROVE  Moves(Contracts, Multi!Entrypoints, MultiGood, {Nobody})
<1> DEFINE Goes == GoesOn(Contracts, MultiGood, {Nobody})
<1> state \in MultiGood
  BY DEF MultiInv, InStates
<1>1. CASE Multi!Enters
  <2>1. 0 .. MaxBatch \subseteq Nat /\ 0 .. MaxUpdates \subseteq Nat
    BY Deployable DEF Multi!HostAssumption
  <2>2. \E a \in Multi!Addresses, entrypoint \in Multi!Entrypoints, n \in Nat :
          Multi!Enter(a, entrypoint, 0, n)
    BY <1>1, <2>1 DEF Multi!Enters, Multi!Entrypoints
  <2> QED BY <2>2, MultiOnChain, MultiAddresses DEF OnChain, Enters, Moves
<1>2. ASSUME NEW entrypoint, Multi!Reading(entrypoint), NEW new \in MultiGood,
             NEW callee \in Contracts \cup {Nobody},
             Multi!Continue(new, 0, callee, Multi!Top.left - 1, Multi!Top.local)
      PROVE  Goes
  BY <1>2, Reader, MultiOnChain DEF OnChain, MultiInv, GoesOn
<1>3. CASE Multi!Mint
  BY <1>2, <1>3, MultiMint DEF Multi!Mint, Multi!Execute, Moves
<1>4. CASE Multi!Transfer
  <2>1. PICK t \in Kinds, amount \in Multi!TokenAmount, from \in Multi!Addresses, to \in Multi!Addresses :
          /\ Multi!TransferError(t, amount, from) = "none"
          /\ \/ Multi!Execute(Multi!transfer(t, amount, from, to))
             \/ to \in Contracts /\ Multi!Invoke(Multi!transfer(t, amount, from, to), to, 0)
    BY <1>4, MultiAddresses DEF Multi!Transfer
  <2>2. Multi!transfer(t, amount, from, to) \in MultiGood
    BY <2>1, MultiTransfer
  <2> QED BY <1>2, <1>4, <2>1, <2>2 DEF Multi!Transfer, Multi!Execute, Multi!Invoke, Moves
<1>5. CASE Multi!UpdateOperator
  <2>1. Multi!Top.by \in Multi!Addresses
    BY <1>5, Reader, MultiOnChain, MultiAddresses
       DEF OnChain, MultiInv, Multi!UpdateOperator
  <2> QED BY <1>2, <1>5, <2>1, MultiOperator DEF Multi!UpdateOperator, Multi!Execute, Moves
<1>6. CASE Multi!Query \/ Multi!OnReceivingCIS1
  BY <1>2, <1>6
     DEF Multi!Query, Multi!OperatorOf, Multi!BalanceOf, Multi!TokenMetadata,
         Multi!OnReceivingCIS1, Multi!Invoke, Moves
<1>7. CASE Multi!TransferRejects \/ Multi!CalleeRejects
  BY <1>7, MultiOnChain
     DEF OnChain, Multi!TransferRejects, Multi!CalleeRejects, Multi!Waiting, Multi!Idle,
         Chain!Idle, Chain!Reading, Chain!Running, Undone, Moves
<1>8. CASE Multi!CalleeReturns \/ Multi!Finish
  BY <1>8, MultiOnChain DEF OnChain, Moves
<1> QED BY <1>1, <1>3, <1>4, <1>5, <1>6, <1>7, <1>8 DEF Multi!Next, Multi!Callees

\* Multi's sums are the sums of SumProofs.
LEMMA MultiFolds ==
  ASSUME NEW f
  PROVE  Multi!SumFunction(f) = SumFunctionOnSet(f, DOMAIN f)
BY DEF SumFunctionOnSet, FoldFunctionOnSet, MapThenFoldSet, Multi!SumFunction,
       Multi!SumFunctionOnSet, Multi!FoldFunctionOnSet, Multi!MapThenFoldSet

\* The balances add up to what was minted, up to multiples of KindW, and
\* exactly as long as less was minted.
LEMMA MultiSupply ==
  ASSUME state \in MultiGood, NEW t \in Kinds
  PROVE  /\ Multi!Supply(t) = MultiSum(state.balances, t)
         /\ Multi!Supply(t) % KindW = state.minted[t] % KindW
         /\ state.minted[t] \in Nat
         /\ state.minted[t] < KindW => state.minted[t] = MultiSum(state.balances, t)
<1>1. Multi!Supply(t) = MultiSum(state.balances, t)
  BY MultiFolds DEF Multi!Supply, MultiSum, MultiOf
<1>2. PICK k \in Nat : state.minted[t] = MultiSum(state.balances, t) + k * KindW
  BY DEF MultiGood
<1>3. state.balances \in MultiBalances /\ state.minted[t] \in Nat
  BY DEF MultiGood, Multi!States, MultiBalances
<1>4. MultiSum(state.balances, t) \in Nat /\ KindW \in Nat \ {0}
  BY <1>3, MultiBounds, MultiAddresses
<1> DEFINE n == state.minted[t]
           m == MultiSum(state.balances, t)
<1> HIDE DEF n, m
<1>5. n % KindW = m % KindW
  <2>1. n = m + k * KindW
    BY <1>2 DEF n, m
  <2>2. n \in Nat /\ m \in Nat
    BY <1>3, <1>4 DEF n, m
  <2>3. KindW \in Nat \ {0} /\ k \in Int
    BY <1>4
  <2> QED BY <2>1, <2>2, <2>3, Congruent
<1>6. k # 0 => k * KindW >= KindW
  BY <1>4
<1>7. n < KindW => n = m
  <2>1. CASE k = 0
    BY <1>2, <1>3, <1>4, <2>1 DEF n, m
  <2>2. CASE k # 0
    BY <1>2, <1>3, <1>4, <1>6, <2>2 DEF n, m
  <2> QED BY <2>1, <2>2
<1> QED BY <1>1, <1>3, <1>5, <1>7 DEF n, m

\* A balance in the new state and in the old one.
LEMMA MultiGivenAt ==
  ASSUME NEW b \in MultiBalances, NEW t \in Kinds, NEW amount \in Multi!TokenAmount,
         NEW to \in Multi!Addresses, NEW a \in Multi!Addresses, NEW u \in Kinds,
         MultiSum(b, t) + amount < KindW
  PROVE  b[a][u] <= MultiGiven(b, t, amount, to)[a][u]
<1>1. /\ MultiSum(b, t) \in Nat /\ b[to][t] <= MultiSum(b, t)
      /\ b[to][t] \in Multi!TokenAmount /\ b[a][u] \in Multi!TokenAmount
  BY MultiBounds
<1>2. b[to][t] \in Nat /\ b[a][u] \in Nat /\ amount \in Nat /\ KindW \in Nat
  BY <1>1, MultiAddresses DEF Multi!TokenAmount
<1>3. b[to][t] + amount < KindW
  BY <1>1, <1>2
<1>4. (b[to][t] + amount) % KindW = b[to][t] + amount
  BY <1>1, <1>3, MultiWraps
<1>5. MultiGiven(b, t, amount, to)[a][u] = IF a = to /\ u = t THEN b[to][t] + amount ELSE b[a][u]
  BY <1>4 DEF MultiGiven, MultiBalances
<1> QED BY <1>2, <1>5

\* While less than KindW of a token was minted, a step that takes some of it
\* from an address is a transfer sent by the address or its operator, or it
\* undoes one.
LEMMA MultiConsents ==
  ASSUME MultiInv, Multi!Next
  PROVE  Multi!HolderConsents
<1> DEFINE b == state.balances
           minted == state.minted
<1>1. state \in MultiGood /\ state \in Multi!States /\ b \in MultiBalances
  BY DEF MultiInv, InStates, MultiGood, Multi!States, MultiBalances
<1>2. \A t \in Kinds : /\ minted[t] \in Nat /\ MultiSum(b, t) \in Nat
                       /\ minted[t] < KindW => minted[t] = MultiSum(b, t)
  BY <1>1, MultiSupply, MultiBounds
<1>3. CASE Multi!Enters \/ Multi!Query \/ Multi!OnReceivingCIS1 \/ Multi!CalleeReturns \/ Multi!UpdateOperator
  <2>1. state'.balances = b
    BY <1>1, <1>3 DEF Multi!Enters, Multi!Enter, Multi!Query, Multi!OperatorOf,
         Multi!BalanceOf, Multi!TokenMetadata, Multi!OnReceivingCIS1, Multi!Invoke,
         Multi!Continue, Multi!CalleeReturns, Multi!UpdateOperator, Multi!Execute,
         Multi!add_operator, Multi!remove_operator, Multi!States
  <2>2. \A a \in Multi!Addresses, t \in Kinds : ~(b[a][t] < b[a][t])
    BY <1>1, MultiBounds, MultiAddresses DEF Multi!TokenAmount
  <2> QED BY <2>1, <2>2 DEF Multi!HolderConsents
<1>4. CASE Multi!TransferRejects \/ Multi!CalleeRejects \/ Multi!Finish
  <2>1. ~Chain!Idle /\ stack' = Chain!Below
    BY <1>4 DEF Multi!TransferRejects, Multi!CalleeRejects, Multi!Finish, Multi!Reject,
                Multi!Reading, Multi!Running, Multi!Waiting, Multi!Idle, Chain!Idle,
                Multi!Below, Chain!Below
  <2> QED BY <2>1, EndShortens DEF MultiInv, Multi!HolderConsents
<1>5. CASE Multi!Mint
  <2>1. PICK t \in Kinds, amount \in Multi!TokenAmount, owner \in Multi!Addresses :
          state' = Multi!mint(t, amount, owner)
    BY <1>5 DEF Multi!Mint, Multi!Execute, Multi!Continue
  <2>2. /\ state'.balances = MultiGiven(b, t, amount, owner)
        /\ state'.minted[t] = minted[t] + amount
        /\ \A u \in Kinds \ {t} : state'.minted[u] = minted[u]
    BY <1>1, <2>1 DEF Multi!mint, Multi!States, MultiGiven
  <2> DEFINE c == MultiGiven(b, t, amount, owner)
  <2>3. ASSUME NEW u \in Kinds, NEW a \in Multi!Addresses, state'.minted[u] < KindW
        PROVE  ~(c[a][u] < b[a][u])
    <3>1. b[a][u] \in Nat /\ amount \in Nat /\ KindW \in Nat
      BY <1>1, MultiBounds, MultiAddresses DEF Multi!TokenAmount
    <3>2. CASE u # t
      <4>1. c[a][u] = b[a][u]
        BY <1>1, <3>2 DEF MultiGiven, MultiBalances
      <4> QED BY <3>1, <4>1
    <3>3. CASE u = t
      <4>1. MultiSum(b, t) + amount < KindW
        BY <1>2, <2>2, <2>3, <3>1, <3>3
      <4>2. b[a][u] <= c[a][u]
        BY <1>1, <4>1, MultiGivenAt
      <4>3. c \in MultiBalances
        BY <1>1, MultiGive
      <4>4. c[a][u] \in Nat
        BY <4>3, MultiBounds, MultiAddresses DEF Multi!TokenAmount
      <4> QED BY <3>1, <4>2, <4>4
    <3> QED BY <3>2, <3>3
  <2> HIDE DEF c
  <2> QED BY <2>2, <2>3 DEF Multi!HolderConsents, c
<1>6. CASE Multi!Transfer
  <2>1. PICK t \in Kinds, amount \in Multi!TokenAmount, from \in Multi!Addresses, to \in Multi!Addresses :
          /\ Multi!May(from) /\ Multi!TransferError(t, amount, from) = "none"
          /\ state' = Multi!transfer(t, amount, from, to)
    BY <1>6, MultiAddresses DEF Multi!Transfer, Multi!Execute, Multi!Invoke, Multi!Continue
  <2> DEFINE d == MultiTaken(b, t, amount, from)
             c == MultiGiven(d, t, amount, to)
  <2>2. amount <= b[from][t]
    <3>1. b[from][t] \in Nat /\ amount \in Nat
      BY <1>1, MultiBounds, MultiAddresses DEF Multi!TokenAmount
    <3> QED BY <2>1, <3>1 DEF Multi!TransferError
  <2>3. /\ d \in MultiBalances
        /\ MultiSum(b, t) = MultiSum(d, t) + amount
    BY <1>1, <2>2, MultiTake
  <2>4. state'.balances = c /\ state'.minted = minted
    BY <1>1, <2>1 DEF Multi!transfer, MultiTaken, MultiGiven, Multi!States
  <2>5. ASSUME NEW u \in Kinds, NEW a \in Multi!Addresses, state'.minted[u] < KindW,
               c[a][u] < b[a][u]
        PROVE  a = from
    <3>1. SUFFICES ASSUME a # from PROVE FALSE
      OBVIOUS
    <3>2. b[a][u] \in Nat /\ d[a][u] = b[a][u] /\ c \in MultiBalances
      <4>1. b[a][u] \in Nat
        BY <1>1, MultiBounds, MultiAddresses DEF Multi!TokenAmount
      <4>2. d[a] = b[a]
        BY <1>1, <3>1 DEF MultiTaken, MultiBalances
      <4>3. c \in MultiBalances
        BY <2>3, MultiGive
      <4> QED BY <4>1, <4>2, <4>3
    <3>3. c[a][u] \in Nat
      BY <3>2, MultiBounds, MultiAddresses DEF Multi!TokenAmount
    <3>4. CASE u # t
      <4>1. c[a][u] = d[a][u]
        BY <2>3, <3>4 DEF MultiGiven, MultiBalances
      <4> QED BY <2>5, <3>2, <4>1
    <3>5. CASE u = t
      <4>1. MultiSum(d, t) + amount < KindW
        BY <1>2, <2>3, <2>4, <2>5, <3>5
      <4>2. d[a][u] <= c[a][u]
        BY <2>3, <4>1, MultiGivenAt
      <4> QED BY <2>5, <3>2, <3>3, <4>2
    <3> QED BY <3>4, <3>5
  <2> HIDE DEF c, d
  <2> QED BY <1>6, <2>1, <2>4, <2>5 DEF Multi!HolderConsents, Multi!Transfer, Multi!Reading
<1> QED BY <1>3, <1>4, <1>5, <1>6 DEF Multi!Next, Multi!Callees

-----------------------------------------------------------------------------
(* The wrapped CCD contract: the tokens are the CCD it holds, and so they    *)
(* are in every state that a rejection would bring back.  CCD that has come  *)
(* with a `wrap` is not in tokens yet; only the last activation can be one   *)
(* that has not minted them, since the others have called a contract.        *)
WccdBalances == [Wccd!Addresses -> Nat]
WccdSum(b) == SumFunctionOnSet(b, Wccd!Addresses)
Arriving(frame) == frame.entrypoint = "wrap" /\ frame.left = 1
WccdFrames ==
  {frame \in Frame(Contracts, Wccd!Entrypoints, Wccd!States, {Nobody}) :
     /\ frame.held <= MaxCCD /\ WccdSum(frame.saved.balance) = frame.held
     /\ frame.entrypoint = "wrap" => frame.left \in 0 .. 1
     /\ frame.entrypoint = "wrap" /\ frame.callee # Nobody => frame.left = 0}
WccdArriving == ~Wccd!Idle /\ Arriving(Wccd!Top)
WccdInv ==
  /\ state \in Wccd!States /\ self_balance \in 0 .. MaxCCD
  /\ stack \in Seq(WccdFrames)
  /\ \A i \in 1 .. Len(stack) : i # Len(stack) => ~Arriving(stack[i])
  /\ IF WccdArriving
     THEN WccdSum(state.balance) = Wccd!Top.held /\ Wccd!Top.held <= self_balance
     ELSE WccdSum(state.balance) = self_balance

\* What its addresses and amounts are.
LEMMA WccdAddresses ==
  /\ Wccd!Addresses = Addresses(Contracts) /\ IsFiniteSet(Wccd!Addresses)
  /\ Accounts \cup Contracts \subseteq Wccd!Addresses
  /\ Wccd!Receivers \subseteq Wccd!Addresses
  /\ MaxCCD \in Nat /\ Nobody \notin Accounts \cup Contracts
<1>1. IsFiniteSet(Wccd!Addresses) /\ MaxCCD \in Nat
  BY Deployable DEF Wccd!WccdAssumption, Wccd!IsFiniteSet, IsFiniteSet
<1> QED BY <1>1, Deployable DEF Wccd!Addresses, Wccd!Receivers, Addresses, Multi!HostAssumption

\* Wccd's sums are the sums of SumProofs.
LEMMA WccdFolds ==
  ASSUME NEW f
  PROVE  Wccd!SumFunction(f) = SumFunctionOnSet(f, DOMAIN f)
BY DEF SumFunctionOnSet, FoldFunctionOnSet, MapThenFoldSet, Wccd!SumFunction,
       Wccd!SumFunctionOnSet, Wccd!FoldFunctionOnSet, Wccd!MapThenFoldSet

\* The sum is a natural number, and no balance is greater.
LEMMA WccdBounds ==
  ASSUME NEW b \in WccdBalances
  PROVE  WccdSum(b) \in Nat /\ \A a \in Wccd!Addresses : b[a] <= WccdSum(b)
<1> DEFINE S == Wccd!Addresses
<1>1. \A x \in S : b[x] \in Nat
  BY DEF WccdBalances
<1>2. IsFiniteSet(S) /\ S \in SUBSET S
  BY WccdAddresses
<1> HIDE DEF S
<1>3. SumFunctionOnSet(b, S) \in Nat
  BY <1>1, <1>2, SumPart
<1>4. \A x \in S : b[x] <= SumFunctionOnSet(b, S)
  BY <1>1, <1>2, SumBounds
<1> QED BY <1>3, <1>4 DEF S, WccdSum

\* One balance changes.
LEMMA WccdUpdate ==
  ASSUME NEW b \in WccdBalances, NEW a \in Wccd!Addresses, NEW v \in Nat
  PROVE  /\ [b EXCEPT ![a] = v] \in WccdBalances
         /\ WccdSum([b EXCEPT ![a] = v]) = WccdSum(b) - b[a] + v
<1> DEFINE S == Wccd!Addresses
           c == [b EXCEPT ![a] = v]
<1>1. c \in WccdBalances
  BY DEF WccdBalances
<1>2. \A x \in S : b[x] \in Int /\ c[x] \in Int
  BY <1>1 DEF WccdBalances
<1>3. \A x \in S \ {a} : b[x] = c[x]
  BY DEF WccdBalances
<1>4. c[a] = v
  BY DEF WccdBalances
<1>5. IsFiniteSet(S) /\ a \in S
  BY WccdAddresses
<1> HIDE DEF S, c
<1>6. SumFunctionOnSet(c, S) = SumFunctionOnSet(b, S) - b[a] + c[a]
  BY <1>2, <1>3, <1>5, SumUpdate
<1> QED BY <1>1, <1>4, <1>6 DEF S, c, WccdSum

\* Balances that add up to CCD there are are token amounts.
LEMMA WccdAmounts ==
  ASSUME NEW b \in WccdBalances, WccdSum(b) <= MaxCCD
  PROVE  b \in [Wccd!Addresses -> Wccd!TokenAmount]
<1>1. \A a \in Wccd!Addresses : b[a] \in Nat /\ b[a] <= WccdSum(b) /\ WccdSum(b) \in Nat
  BY WccdBounds DEF WccdBalances
<1>2. \A a \in Wccd!Addresses : b[a] \in Wccd!TokenAmount
  BY <1>1, WccdAddresses DEF Wccd!TokenAmount
<1> QED BY <1>2 DEF WccdBalances

\* wrap: tokens for the CCD that came.
LEMMA WccdMint ==
  ASSUME state \in Wccd!States, NEW amount \in Nat, NEW owner \in Wccd!Addresses,
         WccdSum(state.balance) + amount <= MaxCCD
  PROVE  /\ Wccd!mint(amount, owner) \in Wccd!States
         /\ WccdSum(Wccd!mint(amount, owner).balance) = WccdSum(state.balance) + amount
<1> DEFINE b == state.balance
           v == b[owner] + amount
           c == [b EXCEPT ![owner] = v]
<1>1. b \in WccdBalances /\ b[owner] \in Nat /\ v \in Nat
  BY WccdAddresses DEF Wccd!States, Wccd!TokenAmount, WccdBalances
<1>2. Wccd!mint(amount, owner) = [state EXCEPT !.balance = c]
  BY DEF Wccd!mint, Wccd!States
<1>3. c \in WccdBalances /\ WccdSum(c) = WccdSum(b) - b[owner] + v /\ WccdSum(b) \in Nat
  BY <1>1, WccdUpdate, WccdBounds
<1> HIDE DEF c
<1>4. WccdSum(c) = WccdSum(b) + amount
  BY <1>1, <1>3
<1>5. c \in [Wccd!Addresses -> Wccd!TokenAmount]
  BY <1>3, <1>4, WccdAmounts
<1> QED BY <1>2, <1>4, <1>5 DEF Wccd!States

\* unwrap: the tokens for which CCD are paid.
LEMMA WccdBurn ==
  ASSUME state \in Wccd!States, NEW amount \in Wccd!TokenAmount, NEW owner \in Wccd!Addresses,
         amount <= state.balance[owner], WccdSum(state.balance) <= MaxCCD
  PROVE  /\ Wccd!burn(amount, owner) \in Wccd!States
         /\ WccdSum(Wccd!burn(amount, owner).balance) = WccdSum(state.balance) - amount
<1> DEFINE b == state.balance
           v == b[owner] - amount
           c == [b EXCEPT ![owner] = v]
<1>1. b \in WccdBalances /\ b[owner] \in Nat /\ amount \in Nat /\ v \in Nat
  BY WccdAddresses DEF Wccd!States, Wccd!TokenAmount, WccdBalances
<1>2. Wccd!burn(amount, owner) = [state EXCEPT !.balance = c]
  BY DEF Wccd!burn, Wccd!States
<1>3. c \in WccdBalances /\ WccdSum(c) = WccdSum(b) - b[owner] + v /\ WccdSum(b) \in Nat
  BY <1>1, WccdUpdate, WccdBounds
<1> HIDE DEF c
<1>4. WccdSum(c) = WccdSum(b) - amount
  BY <1>1, <1>3
<1>5. c \in [Wccd!Addresses -> Wccd!TokenAmount]
  BY <1>1, <1>3, <1>4, WccdAmounts, WccdAddresses
<1> QED BY <1>2, <1>4, <1>5 DEF Wccd!States

\* A transfer moves tokens.
LEMMA WccdTransfer ==
  ASSUME state \in Wccd!States, NEW amount \in Wccd!TokenAmount,
         NEW from \in Wccd!Addresses, NEW to \in Wccd!Addresses,
         amount <= state.balance[from], WccdSum(state.balance) <= MaxCCD
  PROVE  /\ Wccd!transfer(amount, from, to) \in Wccd!States
         /\ WccdSum(Wccd!transfer(amount, from, to).balance) = WccdSum(state.balance)
<1> DEFINE b == state.balance
           v == b[from] - amount
           d == [b EXCEPT ![from] = v]
           w == d[to] + amount
           c == [d EXCEPT ![to] = w]
<1>1. b \in WccdBalances /\ b[from] \in Nat /\ amount \in Nat /\ v \in Nat
  BY WccdAddresses DEF Wccd!States, Wccd!TokenAmount, WccdBalances
<1>2. Wccd!transfer(amount, from, to) = [state EXCEPT !.balance = c]
  <2>1. d = [state.balance EXCEPT ![from] = @ - amount]
    BY DEF Wccd!States
  <2> HIDE DEF d
  <2>2. c = [d EXCEPT ![to] = @ + amount]
    OBVIOUS
  <2> QED BY <2>1, <2>2 DEF Wccd!transfer
<1>3. d \in WccdBalances /\ WccdSum(d) = WccdSum(b) - b[from] + v /\ WccdSum(b) \in Nat
  BY <1>1, WccdUpdate, WccdBounds
<1> HIDE DEF d
<1>4. d[to] \in Nat /\ w \in Nat /\ WccdSum(d) \in Nat
  BY <1>1, <1>3, WccdBounds DEF WccdBalances
<1>5. c \in WccdBalances /\ WccdSum(c) = WccdSum(d) - d[to] + w
  BY <1>3, <1>4, WccdUpdate
<1> HIDE DEF c
<1>6. WccdSum(c) = WccdSum(b)
  BY <1>1, <1>3, <1>4, <1>5
<1>7. c \in [Wccd!Addresses -> Wccd!TokenAmount]
  BY <1>5, <1>6, WccdAmounts
<1> QED BY <1>2, <1>6, <1>7 DEF Wccd!States

\* Deployment: no tokens and no CCD.
LEMMA WccdInit == Wccd!Init => WccdInv
<1> SUFFICES ASSUME Wccd!Init PROVE WccdInv
  OBVIOUS
<1>1. state \in Wccd!States /\ self_balance = 0 /\ stack = <<>>
  BY WccdAddresses DEF Wccd!Init, Wccd!HostInit, Wccd!States, Wccd!TokenAmount
<1>2. WccdSum(state.balance) = 0
  <2> DEFINE S == Wccd!Addresses
             f == state.balance
  <2>1. \A a \in S : f[a] = 0
    BY DEF Wccd!Init
  <2>2. IsFiniteSet(S)
    BY WccdAddresses
  <2>3. WccdSum(state.balance) = SumFunctionOnSet(f, S)
    BY DEF WccdSum
  <2> HIDE DEF f, S
  <2> QED BY <2>1, <2>2, <2>3, SumZero
<1> QED BY <1>1, <1>2, WccdAddresses DEF WccdInv, WccdArriving, Wccd!Idle

\* The frame of the activation that runs or waits.
LEMMA WccdTop ==
  ASSUME WccdInv, ~Wccd!Idle
  PROVE  /\ Len(stack) \in Nat /\ Len(stack) > 0
         /\ Wccd!Top = stack[Len(stack)]
         /\ Wccd!Top \in WccdFrames
         /\ Wccd!Top \in Frame(Contracts, Wccd!Entrypoints, Wccd!States, {Nobody})
BY Popped DEF WccdInv, Wccd!Top, Wccd!Idle, WccdFrames

\* A call that is not `wrap` brings no CCD; none comes while CCD arrives.
LEMMA WccdEnters ==
  ASSUME WccdInv, Wccd!Enters
  PROVE  WccdInv'
<1>1. PICK a \in Wccd!Addresses, entrypoint \in Wccd!Entrypoints, amount \in 0 .. MaxCCD - self_balance, n \in Nat :
        /\ Wccd!Enter(a, entrypoint, amount, n)
        /\ entrypoint = "wrap" => n = 1
        /\ entrypoint # "wrap" => amount = 0
  <2>1. 0 .. MaxBatch \subseteq Nat /\ 0 .. MaxUpdates \subseteq Nat /\ 0 \in 0 .. MaxCCD - self_balance
    BY Deployable, WccdAddresses DEF Multi!HostAssumption, WccdInv
  <2> QED BY <2>1 DEF Wccd!Enters, Wccd!Entrypoints
<1>2. ~WccdArriving
  <2>1. CASE Wccd!Idle
    BY <2>1 DEF WccdArriving
  <2>2. CASE ~Wccd!Idle /\ Wccd!Top.callee # Nobody
    BY <2>2, WccdTop DEF WccdArriving, Arriving, WccdFrames
  <2> QED BY <1>1, <2>1, <2>2 DEF Wccd!Enter, Wccd!CanCall, Wccd!Waiting
<1>3. WccdSum(state.balance) = self_balance
  BY <1>2 DEF WccdInv
<1>4. self_balance \in Nat /\ amount \in Nat /\ self_balance <= MaxCCD /\ self_balance + amount <= MaxCCD
  BY WccdAddresses DEF WccdInv
<1> DEFINE frame == [ by |-> a, entrypoint |-> entrypoint, callee |-> Nobody,
                      left |-> n, local |-> Nobody,
                      saved |-> state, held |-> self_balance ]
<1>5. frame \in WccdFrames
  BY <1>1, <1>3, <1>4, WccdAddresses DEF WccdFrames, Frame, WccdInv
<1>6. stack' = Append(stack, frame) /\ self_balance' = self_balance + amount /\ state' = state
  BY <1>1 DEF Wccd!Enter
<1>7. frame.held = self_balance /\ (Arriving(frame) <=> entrypoint = "wrap")
  BY <1>1 DEF Arriving
<1> HIDE DEF frame
<1>8. stack \in Seq(WccdFrames) /\ Len(stack) \in Nat
  BY DEF WccdInv
<1>9. /\ stack' \in Seq(WccdFrames) /\ Len(stack') = Len(stack) + 1
      /\ stack'[Len(stack')] = frame /\ stack' # <<>>
      /\ \A i \in 1 .. Len(stack) : stack'[i] = stack[i]
  BY <1>5, <1>6, <1>8, Pushed
<1>10. \A i \in 1 .. Len(stack) : ~Arriving(stack[i])
  <2> SUFFICES ASSUME NEW i \in 1 .. Len(stack) PROVE ~Arriving(stack[i])
    OBVIOUS
  <2>1. CASE i # Len(stack)
    BY <2>1 DEF WccdInv
  <2>2. CASE i = Len(stack)
    BY <1>2, <1>8, <2>2 DEF WccdArriving, Wccd!Idle, Wccd!Top
  <2> QED BY <2>1, <2>2
<1>11. \A i \in 1 .. Len(stack') : i # Len(stack') => ~Arriving(stack'[i])
  BY <1>8, <1>9, <1>10
<1>12. ~Wccd!Idle' /\ Wccd!Top' = frame /\ (WccdArriving' <=> entrypoint = "wrap")
  BY <1>7, <1>9 DEF WccdArriving, Wccd!Idle, Wccd!Top
<1>13. self_balance' \in 0 .. MaxCCD /\ state' \in Wccd!States
  BY <1>4, <1>6, WccdAddresses DEF WccdInv
<1>14. IF WccdArriving'
       THEN WccdSum(state'.balance) = Wccd!Top'.held /\ Wccd!Top'.held <= self_balance'
       ELSE WccdSum(state'.balance) = self_balance'
  <2>1. WccdSum(state'.balance) = self_balance /\ frame.held <= self_balance'
    BY <1>3, <1>4, <1>6, <1>7
  <2>2. entrypoint # "wrap" => self_balance' = self_balance
    BY <1>1, <1>4, <1>6
  <2> QED BY <1>7, <1>12, <2>1, <2>2
<1> QED BY <1>9, <1>11, <1>13, <1>14 DEF WccdInv

\* A stretch of code that leaves the tokens and the CCD equal.
LEMMA WccdContinues ==
  ASSUME WccdInv, ~Wccd!Idle, Wccd!Top.left \in Nat, Wccd!Top.left > 0,
         NEW new \in Wccd!States, NEW amount \in Nat, NEW callee \in Contracts \cup {Nobody},
         WccdSum(new.balance) = self_balance - amount,
         Wccd!Continue(new, amount, callee, Wccd!Top.left - 1, Wccd!Top.local)
  PROVE  WccdInv'
<1> DEFINE frame == [Wccd!Top EXCEPT !.callee = callee, !.left = Wccd!Top.left - 1,
                                     !.local = Wccd!Top.local]
<1>1. Wccd!Top \in WccdFrames /\ Wccd!Top = stack[Len(stack)]
  BY WccdTop
<1>2. frame \in WccdFrames /\ ~Arriving(frame)
  <2>1. Wccd!Top.entrypoint = "wrap" => Wccd!Top.left - 1 = 0
    BY <1>1 DEF WccdFrames
  <2>2. Wccd!Top.left - 1 \in Nat
    OBVIOUS
  <2>3. frame \in Frame(Contracts, Wccd!Entrypoints, Wccd!States, {Nobody})
    BY <1>1, <2>2 DEF WccdFrames, Frame
  <2>4. /\ frame.held = Wccd!Top.held /\ frame.saved = Wccd!Top.saved
        /\ frame.entrypoint = Wccd!Top.entrypoint /\ frame.left = Wccd!Top.left - 1
    BY <1>1 DEF WccdFrames, Frame
  <2> HIDE DEF frame
  <2> QED BY <1>1, <2>1, <2>3, <2>4 DEF WccdFrames, Arriving
<1>3. /\ stack' = [stack EXCEPT ![Len(stack)] = frame]
      /\ state' = new /\ self_balance' = self_balance - amount /\ amount <= self_balance
  BY <1>1 DEF Wccd!Continue
<1> HIDE DEF frame
<1>4. /\ stack' \in Seq(WccdFrames) /\ Len(stack') = Len(stack) /\ Len(stack) \in Nat
      /\ stack'[Len(stack)] = frame
      /\ \A i \in 1 .. Len(stack) : i # Len(stack) => stack'[i] = stack[i]
  BY <1>2, <1>3, Changed DEF WccdInv, Wccd!Idle
<1>5. \A i \in 1 .. Len(stack') : i # Len(stack') => ~Arriving(stack'[i])
  BY <1>4 DEF WccdInv
<1>6. ~WccdArriving'
  BY <1>2, <1>4 DEF WccdArriving, Wccd!Top
<1>7. self_balance' \in 0 .. MaxCCD
  BY <1>3, WccdAddresses DEF WccdInv
<1> QED BY <1>3, <1>4, <1>5, <1>6, <1>7 DEF WccdInv

\* The last activation leaves with tokens and CCD equal: of the ones below
\* none is about to mint.
LEMMA WccdEnds ==
  ASSUME WccdInv, ~Wccd!Idle, stack' = Wccd!Below, state' \in Wccd!States,
         self_balance' \in 0 .. MaxCCD, WccdSum(state'.balance) = self_balance'
  PROVE  WccdInv' /\ ~(Len(stack') >= Len(stack))
<1>1. /\ Len(stack) \in Nat /\ Len(stack) > 0
      /\ stack' \in Seq(WccdFrames) /\ Len(stack') = Len(stack) - 1
      /\ \A i \in 1 .. Len(stack) - 1 : stack'[i] = stack[i]
  BY Popped DEF WccdInv, Wccd!Idle, Wccd!Below
<1>2. \A i \in 1 .. Len(stack') : ~Arriving(stack'[i])
  BY <1>1 DEF WccdInv
<1>3. ~WccdArriving'
  <2>1. stack' # <<>> => Len(stack') \in 1 .. Len(stack')
    BY <1>1
  <2> QED BY <1>2, <2>1 DEF WccdArriving, Wccd!Idle, Wccd!Top
<1>4. WccdInv'
  BY <1>1, <1>2, <1>3 DEF WccdInv
<1>5. ~(Len(stack') >= Len(stack))
  BY <1>1
<1> QED BY <1>4, <1>5

\* A rejection brings back tokens and CCD that were equal.
LEMMA WccdRejects ==
  ASSUME WccdInv, ~Wccd!Idle, NEW error, Wccd!Reject(error)
  PROVE  WccdInv' /\ ~(Len(stack') >= Len(stack))
<1>1. /\ Wccd!Top.saved \in Wccd!States /\ Wccd!Top.held \in 0 .. MaxCCD
      /\ WccdSum(Wccd!Top.saved.balance) = Wccd!Top.held
  BY WccdTop, WccdAddresses DEF WccdFrames, Frame
<1> QED BY <1>1, WccdEnds DEF Wccd!Reject

\* While no CCD arrives, tokens and CCD are equal.
LEMMA WccdEqual ==
  ASSUME WccdInv, NEW entrypoint, Wccd!Reading(entrypoint)
  PROVE  /\ ~Wccd!Idle /\ Wccd!Top.left \in Nat /\ Wccd!Top.left > 0
         /\ Wccd!Top.by \in Wccd!Addresses /\ Wccd!Top.entrypoint = entrypoint
         /\ WccdSum(state.balance) \in Nat /\ WccdSum(state.balance) <= MaxCCD
         /\ self_balance \in Nat /\ self_balance <= MaxCCD /\ Wccd!Top.held \in Nat
         /\ entrypoint # "wrap" => WccdSum(state.balance) = self_balance
         /\ entrypoint = "wrap" => /\ WccdSum(state.balance) = Wccd!Top.held
                                   /\ Wccd!Top.held <= self_balance
<1>1. /\ ~Wccd!Idle /\ Wccd!Top.left > 0 /\ Wccd!Top.entrypoint = entrypoint
      /\ Wccd!Top \in WccdFrames /\ Wccd!Top \in Frame(Contracts, Wccd!Entrypoints, Wccd!States, {Nobody})
  BY WccdTop DEF Wccd!Reading, Wccd!Running
<1>2. Wccd!Top.left \in Nat /\ Wccd!Top.by \in Wccd!Addresses /\ Wccd!Top.held \in Nat
  BY <1>1, WccdAddresses DEF Frame
<1>3. entrypoint = "wrap" => WccdArriving
  BY <1>1, <1>2 DEF WccdFrames, WccdArriving, Arriving
<1>4. entrypoint # "wrap" => ~WccdArriving
  BY <1>1 DEF WccdArriving, Arriving
<1>5. self_balance \in Nat /\ self_balance <= MaxCCD
  BY WccdAddresses DEF WccdInv
<1> QED BY <1>1, <1>2, <1>3, <1>4, <1>5, WccdAddresses DEF WccdInv

\* Every step keeps what the contract promises.
LEMMA WccdKeeps ==
  ASSUME WccdInv, Wccd!Next
  PROVE  WccdInv'
<1> state \in Wccd!States
  BY DEF WccdInv
<1>1. CASE Wccd!Enters
  BY <1>1, WccdEnters
<1>2. CASE Wccd!Wrap
  <2> DEFINE amount == Wccd!Received
  <2>1. /\ amount \in Nat /\ WccdSum(state.balance) + amount = self_balance
        /\ self_balance <= MaxCCD
    BY <1>2, WccdEqual DEF Wccd!Wrap, Wccd!Received
  <2>2. PICK to \in Wccd!Addresses, callee \in Contracts \cup {Nobody} :
          Wccd!Continue(Wccd!mint(amount, to), 0, callee, Wccd!Top.left - 1, Wccd!Top.local)
    BY <1>2, WccdAddresses DEF Wccd!Wrap, Wccd!Execute, Wccd!Invoke
  <2> HIDE DEF amount
  <2>3. /\ Wccd!mint(amount, to) \in Wccd!States
        /\ WccdSum(Wccd!mint(amount, to).balance) = self_balance - 0
    BY <2>1, WccdMint, WccdEqual, <1>2 DEF Wccd!Wrap
  <2> QED BY <1>2, <2>2, <2>3, WccdEqual, WccdContinues DEF Wccd!Wrap
<1>3. CASE Wccd!Unwrap
  <2>1. PICK amount \in Wccd!TokenAmount, from \in Wccd!Addresses, callee \in Contracts \cup {Nobody} :
          /\ amount <= state.balance[from]
          /\ Wccd!Continue(Wccd!burn(amount, from), amount, callee, Wccd!Top.left - 1, Wccd!Top.local)
    BY <1>3 DEF Wccd!Unwrap, Wccd!Pay, Wccd!Invoke
  <2>2. amount \in Nat /\ WccdSum(state.balance) = self_balance /\ self_balance <= MaxCCD
    BY <1>3, WccdEqual DEF Wccd!TokenAmount, Wccd!Unwrap
  <2>3. /\ Wccd!burn(amount, from) \in Wccd!States
        /\ WccdSum(Wccd!burn(amount, from).balance) = self_balance - amount
    BY <2>1, <2>2, WccdBurn
  <2> QED BY <1>3, <2>1, <2>2, <2>3, WccdEqual, WccdContinues DEF Wccd!Unwrap
<1>4. CASE Wccd!Transfer \/ Wccd!Rewrap
  <2>1. PICK amount \in Wccd!TokenAmount, from \in Wccd!Addresses, to \in Wccd!Addresses, callee \in Contracts \cup {Nobody} :
          /\ amount <= state.balance[from]
          /\ Wccd!Continue(Wccd!transfer(amount, from, to), 0, callee, Wccd!Top.left - 1, Wccd!Top.local)
    BY <1>4, WccdAddresses DEF Wccd!Transfer, Wccd!Rewrap, Wccd!Execute, Wccd!Invoke
  <2>2. WccdSum(state.balance) = self_balance /\ self_balance <= MaxCCD /\ self_balance \in Nat
    BY <1>4, WccdEqual DEF Wccd!Transfer, Wccd!Rewrap
  <2>3. /\ Wccd!transfer(amount, from, to) \in Wccd!States
        /\ WccdSum(Wccd!transfer(amount, from, to).balance) = self_balance - 0
    BY <2>1, <2>2, WccdTransfer
  <2> QED BY <1>4, <2>1, <2>3, WccdEqual, WccdContinues DEF Wccd!Transfer, Wccd!Rewrap
<1>5. CASE Wccd!UpdateOperator
  <2>1. PICK new \in Wccd!States :
          /\ new.balance = state.balance
          /\ Wccd!Continue(new, 0, Nobody, Wccd!Top.left - 1, Wccd!Top.local)
    BY <1>5, WccdEqual
       DEF Wccd!UpdateOperator, Wccd!Execute, Wccd!add_operator, Wccd!remove_operator, Wccd!States
  <2>2. WccdSum(new.balance) = self_balance - 0
    BY <1>5, <2>1, WccdEqual DEF Wccd!UpdateOperator
  <2> QED BY <1>5, <2>1, <2>2, WccdEqual, WccdContinues DEF Wccd!UpdateOperator
<1>6. CASE Wccd!Query
  <2>1. PICK entrypoint \in Wccd!Entrypoints \ {"wrap"} : Wccd!Reading(entrypoint)
    BY <1>6 DEF Wccd!Query, Wccd!Entrypoints
  <2>2. WccdSum(state.balance) = self_balance - 0
    BY <2>1, WccdEqual
  <2>3. CASE \E c \in Contracts : Wccd!Continue(state, 0, c, Wccd!Top.left - 1, Wccd!Top.local)
    BY <2>1, <2>2, <2>3, WccdEqual, WccdContinues
  <2>4. CASE \E error : Wccd!Reject(error)
    BY <2>1, <2>4, WccdEqual, WccdRejects
  <2> QED BY <1>6, <2>3, <2>4
          DEF Wccd!Query, Wccd!BalanceOf, Wccd!OperatorOf, Wccd!TokenMetadata, Wccd!Invoke
<1>7. CASE Wccd!UnwrapRejects \/ Wccd!TransferRejects \/ Wccd!CalleeRejects
  BY <1>7, WccdRejects DEF Wccd!UnwrapRejects, Wccd!TransferRejects, Wccd!CalleeRejects,
                           Wccd!Reading, Wccd!Running, Wccd!Waiting
<1>8. CASE Wccd!CalleeReturns
  <2> DEFINE frame == [Wccd!Top EXCEPT !.callee = Nobody]
  <2>1. /\ Wccd!Top = stack[Len(stack)] /\ Wccd!Top \in WccdFrames /\ ~Wccd!Idle
        /\ ~Arriving(Wccd!Top)
    BY <1>8, WccdTop DEF Wccd!CalleeReturns, Wccd!Waiting, WccdFrames, Arriving
  <2>2. frame \in WccdFrames /\ ~Arriving(frame)
    BY <2>1 DEF WccdFrames, Frame, Arriving
  <2>3. stack' = [stack EXCEPT ![Len(stack)] = frame] /\ UNCHANGED <<state, self_balance>>
    BY <1>8, <2>1 DEF Wccd!CalleeReturns
  <2> HIDE DEF frame
  <2>4. /\ stack' \in Seq(WccdFrames) /\ Len(stack') = Len(stack) /\ Len(stack) \in Nat
        /\ stack'[Len(stack)] = frame
        /\ \A i \in 1 .. Len(stack) : i # Len(stack) => stack'[i] = stack[i]
    BY <2>1, <2>2, <2>3, Changed DEF WccdInv, Wccd!Idle
  <2>5. \A i \in 1 .. Len(stack') : i # Len(stack') => ~Arriving(stack'[i])
    BY <2>4 DEF WccdInv
  <2>6. ~WccdArriving' /\ ~WccdArriving
    BY <2>1, <2>2, <2>4 DEF WccdArriving, Wccd!Top
  <2> QED BY <2>3, <2>4, <2>5, <2>6 DEF WccdInv
<1>9. CASE Wccd!Finish
  <2>1. ~Wccd!Idle /\ ~WccdArriving
    BY <1>9 DEF Wccd!Finish, Wccd!Running, WccdArriving, Arriving
  <2> QED BY <1>9, <2>1, WccdEnds DEF Wccd!Finish, WccdInv
<1> QED BY <1>1, <1>2, <1>3, <1>4, <1>5, <1>6, <1>7, <1>8, <1>9 DEF Wccd!Next, Wccd!Callees

\* The wrapped CCD are the CCD the contract holds.
LEMMA WccdBacked == ASSUME WccdInv PROVE Wccd!Backed
<1>1. Wccd!SumFunction(state.balance) = WccdSum(state.balance)
  BY WccdFolds DEF WccdInv, Wccd!States, WccdSum
<1>2. CASE WccdArriving
  <2>1. Wccd!Top.held \in Nat /\ self_balance \in Nat
    BY <1>2, WccdTop, WccdAddresses DEF Frame, WccdArriving, WccdInv
  <2> QED BY <1>1, <1>2, <2>1 DEF WccdInv, WccdArriving, Arriving, Wccd!Backed
<1>3. CASE ~WccdArriving
  BY <1>1, <1>3 DEF WccdInv, WccdArriving, Arriving, Wccd!Backed
<1> QED BY <1>2, <1>3

\* A step that takes tokens from an address is a transfer or an unwrap sent by
\* the address or its operator, or it undoes one.
LEMMA WccdConsents ==
  ASSUME WccdInv, Wccd!Next
  PROVE  Wccd!HolderConsents
<1> DEFINE b == state.balance
<1>1. state \in Wccd!States /\ \A a \in Wccd!Addresses : b[a] \in Nat
  BY WccdAddresses DEF WccdInv, Wccd!States, Wccd!TokenAmount
<1>2. CASE Wccd!Enters \/ Wccd!CalleeReturns \/ Wccd!UpdateOperator
  <2>1. state'.balance = b
    BY <1>1, <1>2 DEF Wccd!Enters, Wccd!Enter, Wccd!CalleeReturns, Wccd!UpdateOperator,
         Wccd!Execute, Wccd!Continue, Wccd!add_operator, Wccd!remove_operator, Wccd!States
  <2> QED BY <1>1, <2>1 DEF Wccd!HolderConsents
<1>3. CASE \/ Wccd!UnwrapRejects \/ Wccd!TransferRejects \/ Wccd!CalleeRejects
  BY <1>3, WccdRejects DEF Wccd!UnwrapRejects, Wccd!TransferRejects, Wccd!CalleeRejects,
         Wccd!Reading, Wccd!Running, Wccd!Waiting, Wccd!HolderConsents
<1>4. CASE Wccd!Query
  <2>1. CASE state' = state
    BY <1>1, <2>1 DEF Wccd!HolderConsents
  <2>2. CASE \E error : Wccd!Reject(error)
    BY <1>4, <2>2, WccdRejects DEF Wccd!Query, Wccd!Reading, Wccd!Running, Wccd!HolderConsents
  <2> QED BY <1>4, <2>1, <2>2
          DEF Wccd!Query, Wccd!BalanceOf, Wccd!OperatorOf, Wccd!TokenMetadata, Wccd!Invoke, Wccd!Continue
<1>5. CASE Wccd!Finish
  BY <1>1, <1>5 DEF Wccd!Finish, Wccd!HolderConsents
<1>6. CASE Wccd!Wrap
  <2>1. PICK to \in Wccd!Addresses : state' = Wccd!mint(Wccd!Received, to)
    BY <1>6, WccdAddresses DEF Wccd!Wrap, Wccd!Execute, Wccd!Invoke, Wccd!Continue
  <2>2. Wccd!Received \in Nat
    BY <1>6, WccdEqual DEF Wccd!Wrap, Wccd!Received
  <2>3. \A a \in Wccd!Addresses :
          state'.balance[a] = IF a = to THEN b[a] + Wccd!Received ELSE b[a]
    BY <1>1, <2>1 DEF Wccd!mint, Wccd!States
  <2> QED BY <1>1, <2>2, <2>3 DEF Wccd!HolderConsents
<1>7. CASE Wccd!Unwrap
  <2>1. PICK amount \in Wccd!TokenAmount, from \in Wccd!Addresses :
          (Wccd!May(from) \/ Wccd!MayAsSelf(from)) /\ state' = Wccd!burn(amount, from)
    BY <1>7 DEF Wccd!Unwrap, Wccd!Pay, Wccd!Invoke, Wccd!Continue
  <2>2. \A a \in Wccd!Addresses : a # from => state'.balance[a] = b[a]
    BY <1>1, <2>1 DEF Wccd!burn, Wccd!States
  <2> QED BY <1>1, <1>7, <2>1, <2>2 DEF Wccd!HolderConsents, Wccd!Unwrap, Wccd!Reading
<1>8. CASE Wccd!Transfer \/ Wccd!Rewrap
  <2>1. PICK amount \in Wccd!TokenAmount, from \in Wccd!Addresses, to \in Wccd!Addresses :
          /\ Wccd!May(from) \/ (Wccd!MayAsSelf(from) /\ Wccd!Reading("unwrap"))
          /\ state' = Wccd!transfer(amount, from, to)
    BY <1>8, WccdAddresses DEF Wccd!Transfer, Wccd!Rewrap, Wccd!Execute, Wccd!Invoke, Wccd!Continue
  <2>2. \A a \in Wccd!Addresses :
          a # from => state'.balance[a] = IF a = to THEN b[a] + amount ELSE b[a]
    BY <1>1, <2>1 DEF Wccd!transfer, Wccd!States
  <2>3. amount \in Nat
    BY WccdAddresses DEF Wccd!TokenAmount
  <2>4. /\ Wccd!Top.entrypoint \in {"transfer", "unwrap"}
        /\ Wccd!Reading("unwrap") => Wccd!Top.entrypoint = "unwrap"
    BY <1>8 DEF Wccd!Transfer, Wccd!Rewrap, Wccd!Reading
  <2> QED BY <1>1, <2>1, <2>2, <2>3, <2>4 DEF Wccd!HolderConsents
<1> QED BY <1>2, <1>3, <1>4, <1>5, <1>6, <1>7, <1>8 DEF Wccd!Next, Wccd!Callees

-----------------------------------------------------------------------------
(* The contracts that pass on what they are sent.                            *)
RelayInv(E, S, L, share, arriving) ==
  /\ InStates(Services, E, S, L)
  /\ Sharing(share, arriving)
  /\ Shared(share, arriving, MaxCCD)

\* memo and proxy keep nothing of a call they have handled, and weather is
\* sent nothing.
NoShare(Calls) == [p \in Calls \X {0, 1} \X {Nobody} |-> 0]

MemoInv == RelayInv({"receive"}, {"()"}, {Nobody}, NoShare({"receive"}), {<<"receive", 1>>})

ProxyCalls == {"fallback", "________reconfigure"}
ProxyInv == RelayInv(ProxyCalls, Services, {Nobody}, NoShare(ProxyCalls), {<<"fallback", 1>>})

WeatherCalls == {"get", "set"}
Weathers == {"Rainy", "Sunny"}
WeatherInv == RelayInv(WeatherCalls, Weathers, {Nobody}, NoShare(WeatherCalls), {})

\* icecream keeps what it was sent while it asks for the weather.
IcecreamCalls == {"buy_icecream", "replace_weather_service"}
Asking(p) == p[1] = "buy_icecream" /\ p[2] = 1
IcecreamPositions ==
  {p \in IcecreamCalls \X (0 .. 2) \X {Nobody} : ~Asking(p)}
    \cup ({"buy_icecream"} \X {1} \X (0 .. MaxCCD))
IcecreamLocals == {Nobody} \cup 0 .. MaxCCD
IcecreamShare == [p \in IcecreamPositions |-> IF Asking(p) THEN p[3] ELSE 0]
IcecreamInv ==
  RelayInv(IcecreamCalls, Services, IcecreamLocals, IcecreamShare, {<<"buy_icecream", 2>>})

\* Its chain is that of Host, but for the bounds.
LEMMA RelayOnChain ==
  /\ \A a, entrypoint, amount, n :
       Relay!Enter(a, entrypoint, amount, n)
         => CanCall(Services, a) /\ Called(a, entrypoint, amount, n)
  /\ \A new, amount, callee, left, local :
       Relay!Continue(new, amount, callee, left, local)
         <=> Chain!Continue(new, amount, callee, left, local)
  /\ \A error : Relay!Reject(error) <=> Chain!Reject(error)
  /\ Relay!CalleeReturns <=> Chain!CalleeReturns
  /\ Relay!CalleeRejects => Undone
  /\ Relay!Finish <=> Chain!Finish
  /\ \A entrypoint :
       Relay!Reading(entrypoint)
         => ~Chain!Idle /\ Relay!Top.left > 0 /\ Relay!Top.entrypoint = entrypoint
  /\ Relay!Top = Chain!Top /\ Relay!Received = Chain!Received
  /\ Relay!Idle <=> Chain!Idle
BY DEF Relay!Enter, Called, Relay!Continue, Chain!Continue, Relay!Reject,
       Chain!Reject, Relay!CalleeReturns, Chain!CalleeReturns, Relay!CalleeRejects,
       Undone, Relay!Finish, Chain!Finish, Relay!Reading, Relay!Running,
       Chain!Running, Relay!Waiting, Chain!Waiting, Relay!Idle, Chain!Idle,
       Relay!Top, Chain!Top, Relay!Below, Chain!Below, Relay!CanCall,
       CanCall, Relay!Received, Chain!Received

\* Who calls them, and what they can be sent.
LEMMA RelayAddresses ==
  /\ Accounts \cup Services \subseteq Addresses(Services)
  /\ MaxCCD \in Nat /\ 0 .. MaxCCD \subseteq Nat
BY Deployable DEF Addresses, Wccd!WccdAssumption

\* The stack of a contract that has not been called.
LEMMA RelayStarts ==
  ASSUME NEW E, NEW S, NEW L, NEW share, NEW arriving,
         Sharing(share, arriving), Relay!HostInit, state \in S
  PROVE  RelayInv(E, S, L, share, arriving)
BY RelayAddresses DEF RelayInv, Relay!HostInit, InStates, Shared, Chain!Idle

\* A step of such a contract.
RelaySteps(S, L, share, arriving) ==
  \/ Receives(Services, share, arriving, MaxCCD) \/ PassesOn(Services, S, L, share, arriving)
  \/ Undone \/ Chain!CalleeReturns \/ Chain!Finish

\* The steps of a relaying contract keep its invariant.
LEMMA RelayKeeps ==
  ASSUME NEW E, NEW S, NEW L, NEW share, NEW arriving, Nobody \in L,
         RelayInv(E, S, L, share, arriving),
         \A p \in DOMAIN share : p[1] \in E, RelaySteps(S, L, share, arriving)
  PROVE  RelayInv(E, S, L, share, arriving)'
<1> USE DEF RelayInv
<1>1. Receives(Services, share, arriving, MaxCCD) => Enters(Services, E)
  <2> SUFFICES ASSUME Receives(Services, share, arriving, MaxCCD) PROVE Enters(Services, E)
    OBVIOUS
  <2>1. PICK entrypoint : \E a \in Addresses(Services), amount \in Nat, n \in Nat :
          /\ Called(a, entrypoint, amount, n)
          /\ <<entrypoint, n, Nobody>> \in DOMAIN share
    BY DEF Receives
  <2>2. entrypoint \in E
    BY <2>1
  <2> QED BY <2>1, <2>2 DEF Enters
<1>2. PassesOn(Services, S, L, share, arriving) => GoesOn(Services, S, L)
  BY DEF PassesOn, GoesOn
<1>3. Moves(Services, E, S, L)
  BY <1>1, <1>2 DEF RelaySteps, Moves
<1>4. InStates(Services, E, S, L)'
  BY <1>3, MovesKeep
<1>5. Shared(share, arriving, MaxCCD)'
  BY RelayAddresses, SharesKept DEF RelaySteps
<1>6. Sharing(share, arriving)'
  BY DEF Sharing
<1> QED BY <1>4, <1>5, <1>6

\* A call of a contract.
LEMMA RelayCall ==
  ASSUME NEW share, NEW arriving, NEW entrypoint, NEW amounts \in SUBSET (0 .. MaxCCD), NEW n \in Nat,
         self_balance \in Nat,
         Relay!Call(entrypoint, amounts, n),
         <<entrypoint, n, Nobody>> \in DOMAIN share, share[<<entrypoint, n, Nobody>>] = 0,
         amounts = {0} \/ <<entrypoint, n>> \in arriving
  PROVE  Receives(Services, share, arriving, MaxCCD)
<1>1. PICK a \in Accounts \cup Services, amount \in amounts :
        amount <= MaxCCD - self_balance /\ Relay!Enter(a, entrypoint, amount, n)
  BY DEF Relay!Call
<1>2. amount \in Nat /\ self_balance + amount <= MaxCCD /\ (amount = 0 \/ <<entrypoint, n>> \in arriving)
  BY <1>1, RelayAddresses
<1>3. a \in Addresses(Services)
  BY RelayAddresses
<1> QED BY <1>1, <1>2, <1>3, RelayOnChain DEF Receives

\* What is left of an entry point's parameter, and what it has of the CCD.
LEMMA RelayReads ==
  ASSUME NEW E, NEW S, NEW L, NEW share, NEW arriving,
         RelayInv(E, S, L, share, arriving), NEW entrypoint, Relay!Reading(entrypoint)
  PROVE  /\ ~Chain!Idle /\ Relay!Top = Chain!Top /\ state \in S
         /\ Relay!Top.entrypoint = entrypoint /\ Relay!Top.left \in Nat /\ Relay!Top.left > 0
         /\ Relay!Top.local \in L
         /\ <<entrypoint, Relay!Top.left, Relay!Top.local>> \in DOMAIN share
         /\ self_balance \in Nat /\ Relay!Top.held \in Nat
         /\ Relay!Received \in 0 .. MaxCCD /\ self_balance - Relay!Received = Relay!Top.held
         /\ <<entrypoint, Relay!Top.left>> \notin arriving =>
              self_balance = Relay!Top.held + share[<<entrypoint, Relay!Top.left, Relay!Top.local>>]
<1>1. ~Chain!Idle /\ Relay!Top.left > 0 /\ Relay!Top.entrypoint = entrypoint
  BY RelayOnChain
<1>2. /\ Chain!Top \in Frame(Services, E, S, L)
      /\ Position(Chain!Top) \in DOMAIN share
      /\ self_balance \in Nat /\ Chain!Top.held \in Nat
      /\ Chain!Received \in Nat /\ Chain!Received <= MaxCCD
      /\ self_balance - Chain!Received = Chain!Top.held
      /\ ~Arrives(arriving, Chain!Top) =>
           self_balance = Chain!Top.held + share[Position(Chain!Top)]
  BY <1>1, RelayAddresses, SharedTop DEF RelayInv
<1>3. Relay!Top.left \in Nat /\ Relay!Top.local \in L /\ state \in S
  BY <1>2, RelayOnChain DEF Frame, RelayInv, InStates
<1> QED BY <1>1, <1>2, <1>3, RelayAddresses, RelayOnChain DEF Position, Arrives

\* An entry point goes on: it pays or invokes with `amount` and keeps its share.
LEMMA RelayGoesOn ==
  ASSUME NEW S, NEW L, NEW share, NEW arriving, NEW entrypoint, Relay!Reading(entrypoint),
         NEW new \in S, NEW amount \in Nat, NEW callee \in Services \cup {Nobody},
         NEW left \in Nat, NEW local \in L,
         Relay!Continue(new, amount, callee, left, local),
         <<entrypoint, left, local>> \in DOMAIN share, <<entrypoint, left>> \notin arriving,
         self_balance - amount = Relay!Top.held + share[<<entrypoint, left, local>>]
  PROVE  PassesOn(Services, S, L, share, arriving)
<1>1. ~Chain!Idle /\ Chain!Top.entrypoint = entrypoint
  BY RelayOnChain
<1> QED BY <1>1, RelayOnChain DEF PassesOn

\* A rejection undoes the activation.
LEMMA RelayUndone ==
  ASSUME NEW entrypoint, Relay!Reading(entrypoint), NEW error, Relay!Reject(error)
  PROVE  Undone
BY RelayOnChain DEF Undone

\* Where nothing is kept.
LEMMA NoShares ==
  ASSUME NEW Calls
  PROVE  /\ \A entrypoint, left, local :
              <<entrypoint, left, local>> \in DOMAIN NoShare(Calls) <=>
                entrypoint \in Calls /\ left \in {0, 1} /\ local = Nobody
         /\ \A p \in DOMAIN NoShare(Calls) : p[1] \in Calls /\ NoShare(Calls)[p] = 0
BY DEF NoShare

\* A contract with such entry points receives, goes on or is rejected.
LEMMA NoShareSharing ==
  ASSUME NEW Calls, NEW arriving, \A entrypoint \in Calls : <<entrypoint, 0>> \notin arriving
  PROVE  Sharing(NoShare(Calls), arriving)
BY NoShares DEF Sharing

\* A call of a contract that keeps nothing.
LEMMA NoShareCall ==
  ASSUME NEW Calls, NEW entrypoint \in Calls, NEW S, NEW L, NEW arriving,
         NEW amounts \in SUBSET (0 .. MaxCCD), self_balance \in Nat,
         amounts = {0} \/ <<entrypoint, 1>> \in arriving,
         Relay!Call(entrypoint, amounts, 1)
  PROVE  RelaySteps(S, L, NoShare(Calls), arriving)
<1>1. <<entrypoint, 1, Nobody>> \in DOMAIN NoShare(Calls)
  BY NoShares
<1>2. NoShare(Calls)[<<entrypoint, 1, Nobody>>] = 0
  BY <1>1, NoShares
<1>3. Receives(Services, NoShare(Calls), arriving, MaxCCD)
  BY <1>1, <1>2, RelayCall
<1> QED BY <1>3 DEF RelaySteps

\* What arrived is passed on, or nothing arrived and nothing is.
LEMMA NoShareGoesOn ==
  ASSUME NEW Calls, NEW entrypoint \in Calls, NEW E, NEW S, NEW arriving,
         \A e \in Calls : <<e, 0>> \notin arriving,
         RelayInv(E, S, {Nobody}, NoShare(Calls), arriving), Relay!Reading(entrypoint),
         NEW new \in S, NEW amount, NEW callee \in Services \cup {Nobody},
         amount = IF <<entrypoint, 1>> \in arriving THEN Relay!Received ELSE 0,
         Relay!Continue(new, amount, callee, Relay!Top.left - 1, Relay!Top.local)
  PROVE  RelaySteps(S, {Nobody}, NoShare(Calls), arriving)
<1>1. /\ Relay!Top.left \in {0, 1} /\ Relay!Top.left \in Nat /\ Relay!Top.left > 0
      /\ Relay!Top.local = Nobody
      /\ self_balance \in Nat /\ Relay!Top.held \in Nat
      /\ Relay!Received \in 0 .. MaxCCD /\ self_balance - Relay!Received = Relay!Top.held
      /\ <<entrypoint, Relay!Top.left>> \notin arriving =>
           self_balance = Relay!Top.held + NoShare(Calls)[<<entrypoint, Relay!Top.left, Relay!Top.local>>]
      /\ <<entrypoint, Relay!Top.left, Relay!Top.local>> \in DOMAIN NoShare(Calls)
  BY RelayReads, NoShares
<1>2. Relay!Top.left = 1 /\ Relay!Top.left - 1 = 0
  BY <1>1
<1>3. amount \in Nat /\ self_balance - amount = Relay!Top.held
  <2>1. NoShare(Calls)[<<entrypoint, Relay!Top.left, Relay!Top.local>>] = 0
    BY <1>1, NoShares
  <2> QED BY <1>1, <1>2, <2>1, RelayAddresses
<1>4. <<entrypoint, 0, Nobody>> \in DOMAIN NoShare(Calls)
  BY NoShares
<1>5. NoShare(Calls)[<<entrypoint, 0, Nobody>>] = 0
  BY <1>4, NoShares
<1>6. Relay!Continue(new, amount, callee, 0, Nobody)
  BY <1>1, <1>2
<1>7. self_balance - amount = Relay!Top.held + NoShare(Calls)[<<entrypoint, 0, Nobody>>]
  BY <1>1, <1>3, <1>5
<1>8. PassesOn(Services, S, {Nobody}, NoShare(Calls), arriving)
  BY <1>3, <1>4, <1>6, <1>7, RelayGoesOn
<1> QED BY <1>8 DEF RelaySteps

\* Deployment of memo.
LEMMA MemoStarts == Relay!MemoInit => MemoInv
<1>1. Sharing(NoShare({"receive"}), {<<"receive", 1>>})
  BY NoShareSharing
<1> QED BY <1>1, RelayStarts DEF Relay!MemoInit, MemoInv

\* memo pays on what it was sent, or rejects it.
LEMMA MemoKeeps == ASSUME MemoInv, Relay!MemoNext PROVE MemoInv'
<1> DEFINE arriving == {<<"receive", 1>>}
           Calls == {"receive"}
<1> SUFFICES RelaySteps({"()"}, {Nobody}, NoShare(Calls), arriving)
  BY RelayKeeps, NoShares DEF MemoInv
<1>1. self_balance \in Nat /\ state = "()" /\ "receive" \in Calls
  BY DEF MemoInv, RelayInv, InStates
<1>0. \A e \in Calls : <<e, 0>> \notin arriving
  OBVIOUS
<1>2. CASE Relay!Call("receive", 0 .. MaxCCD, 1)
  BY <1>1, <1>2, NoShareCall
<1>3. CASE Relay!MemoReceive
  <2>1. CASE \E error : Relay!Reject(error)
    BY <1>3, <2>1, RelayUndone DEF Relay!MemoReceive, RelaySteps
  <2>2. CASE Relay!Pay(state, Relay!Received)
    <3>1. Relay!Reading("receive") /\ state \in {"()"}
      BY <1>1, <1>3 DEF Relay!MemoReceive
    <3>2. Relay!Continue(state, Relay!Received, Nobody, Relay!Top.left - 1, Relay!Top.local)
      BY <2>2 DEF Relay!Pay
    <3>3. RelayInv(Calls, {"()"}, {Nobody}, NoShare(Calls), arriving)
      BY DEF MemoInv
    <3>4. <<"receive", 1>> \in arriving
      OBVIOUS
    <3> HIDE DEF Calls, arriving
    <3> QED BY <1>0, <1>1, <3>1, <3>2, <3>3, <3>4, NoShareGoesOn
  <2> QED BY <1>3, <2>1, <2>2 DEF Relay!MemoReceive
<1>4. CASE Relay!Finish
  BY <1>4, RelayOnChain DEF RelaySteps
<1> QED BY <1>2, <1>3, <1>4 DEF Relay!MemoNext

\* Deployment of proxy.
LEMMA ProxyStarts == Relay!ProxyInit => ProxyInv
<1>1. Sharing(NoShare(ProxyCalls), {<<"fallback", 1>>})
  BY NoShareSharing
<1> QED BY <1>1, RelayStarts DEF Relay!ProxyInit, ProxyInv

\* proxy forwards what it was sent with the call.
LEMMA ProxyKeeps == ASSUME ProxyInv, Relay!ProxyNext PROVE ProxyInv'
<1> DEFINE arriving == {<<"fallback", 1>>}
           Calls == ProxyCalls
<1> SUFFICES RelaySteps(Services, {Nobody}, NoShare(Calls), arriving)
  BY RelayKeeps, NoShares DEF ProxyInv
<1>1. self_balance \in Nat /\ state \in Services /\ "fallback" \in Calls /\ "________reconfigure" \in Calls
  BY DEF ProxyInv, RelayInv, InStates, ProxyCalls
<1>2. \A e \in Calls : <<e, 0>> \notin arriving
  OBVIOUS
<1>3. CASE Relay!Call("fallback", 0 .. MaxCCD, 1)
  BY <1>1, <1>3, NoShareCall
<1>4. CASE Relay!Call("________reconfigure", {0}, 1)
  <2>1. {0} \in SUBSET (0 .. MaxCCD)
    BY RelayAddresses
  <2> QED BY <1>1, <1>4, <2>1, NoShareCall
<1>5. CASE Relay!Fallback
  <2>1. Relay!Reading("fallback") /\ Relay!Continue(state, Relay!Received, state, Relay!Top.left - 1, Relay!Top.local)
    BY <1>5 DEF Relay!Fallback, Relay!Invoke
  <2> QED BY <1>1, <1>2, <2>1, NoShareGoesOn DEF ProxyInv
<1>6. CASE Relay!Reconfigure
  <2>1. CASE \E error : Relay!Reject(error)
    BY <1>6, <2>1, RelayUndone DEF Relay!Reconfigure, RelaySteps
  <2>2. CASE \E c \in Services : Relay!Set(c)
    <3>1. PICK c \in Services : Relay!Continue(c, 0, Nobody, Relay!Top.left - 1, Relay!Top.local)
      BY <2>2 DEF Relay!Set
    <3>2. Relay!Reading("________reconfigure") /\ <<"________reconfigure", 1>> \notin arriving
      BY <1>6 DEF Relay!Reconfigure
    <3> QED BY <1>1, <1>2, <3>1, <3>2, NoShareGoesOn DEF ProxyInv
  <2> QED BY <1>6, <2>1, <2>2 DEF Relay!Reconfigure
<1>7. CASE Relay!Callees \/ Relay!Finish
  BY <1>7, RelayOnChain DEF RelaySteps, Relay!Callees
<1> QED BY <1>3, <1>4, <1>5, <1>6, <1>7 DEF Relay!ProxyNext

\* Deployment of weather.
LEMMA WeatherStarts == Relay!WeatherInit => WeatherInv
<1>1. Sharing(NoShare(WeatherCalls), {})
  BY NoShareSharing
<1> QED BY <1>1, RelayStarts DEF Relay!WeatherInit, WeatherInv, Weathers

\* weather is sent nothing.
LEMMA WeatherKeeps == ASSUME WeatherInv, Relay!WeatherNext PROVE WeatherInv'
<1> DEFINE Calls == WeatherCalls
<1> SUFFICES RelaySteps(Weathers, {Nobody}, NoShare(Calls), {})
  BY RelayKeeps, NoShares DEF WeatherInv
<1>1. self_balance \in Nat /\ state \in Weathers /\ "get" \in Calls /\ "set" \in Calls
  BY DEF WeatherInv, RelayInv, InStates, WeatherCalls
<1>2. CASE Relay!Call("get", {0}, 1) \/ Relay!Call("set", {0}, 1)
  <2>1. {0} \in SUBSET (0 .. MaxCCD)
    BY RelayAddresses
  <2> QED BY <1>1, <1>2, <2>1, NoShareCall
<1>3. CASE Relay!WeatherGet
  <2>1. Relay!Reading("get") /\ Relay!Continue(state, 0, Nobody, Relay!Top.left - 1, Relay!Top.local)
    BY <1>3 DEF Relay!WeatherGet, Relay!Stay
  <2> QED BY <1>1, <2>1, NoShareGoesOn DEF WeatherInv
<1>4. CASE Relay!WeatherSet
  <2>1. CASE \E error : Relay!Reject(error)
    BY <1>4, <2>1, RelayUndone DEF Relay!WeatherSet, RelaySteps
  <2>2. CASE \E weather \in Weathers : Relay!Set(weather)
    <3>1. PICK weather \in Weathers : Relay!Continue(weather, 0, Nobody, Relay!Top.left - 1, Relay!Top.local)
      BY <2>2 DEF Relay!Set
    <3>2. Relay!Reading("set")
      BY <1>4 DEF Relay!WeatherSet
    <3> QED BY <1>1, <3>1, <3>2, NoShareGoesOn DEF WeatherInv
  <2> QED BY <1>4, <2>1, <2>2 DEF Relay!WeatherSet, Weathers
<1>5. CASE Relay!Finish
  BY <1>5, RelayOnChain DEF RelaySteps
<1> QED BY <1>2, <1>3, <1>4, <1>5 DEF Relay!WeatherNext

\* What icecream keeps: the price, from the question about the weather to the
\* answer.
LEMMA IcecreamShares ==
  /\ \A entrypoint, left, local :
       <<entrypoint, left, local>> \in DOMAIN IcecreamShare <=>
         IF entrypoint = "buy_icecream" /\ left = 1 THEN local \in 0 .. MaxCCD
         ELSE entrypoint \in IcecreamCalls /\ left \in 0 .. 2 /\ local = Nobody
  /\ \A entrypoint, left, local :
       <<entrypoint, left, local>> \in DOMAIN IcecreamShare =>
         IcecreamShare[<<entrypoint, left, local>>] =
           IF entrypoint = "buy_icecream" /\ left = 1 THEN local ELSE 0
  /\ \A p \in DOMAIN IcecreamShare : p = <<p[1], p[2], p[3]>> /\ p[1] \in IcecreamCalls
BY DEF IcecreamShare, IcecreamPositions, IcecreamCalls, Asking

\* Deployment of icecream.
LEMMA IcecreamStarts == Relay!IcecreamInit => IcecreamInv
<1>1. ASSUME NEW p \in DOMAIN IcecreamShare
      PROVE  IcecreamShare[p] \in Nat /\ (p[2] = 0 => IcecreamShare[p] = 0)
  <2>1. p = <<p[1], p[2], p[3]>>
    BY IcecreamShares
  <2>2. IcecreamShare[p] = IF p[1] = "buy_icecream" /\ p[2] = 1 THEN p[3] ELSE 0
    BY <2>1, IcecreamShares
  <2>3. p[1] = "buy_icecream" /\ p[2] = 1 => p[3] \in Nat
    BY <2>1, IcecreamShares, RelayAddresses
  <2> QED BY <2>2, <2>3
<1>2. Sharing(IcecreamShare, {<<"buy_icecream", 2>>})
  BY <1>1 DEF Sharing
<1> QED BY <1>2, RelayStarts DEF Relay!IcecreamInit, IcecreamInv

\* icecream pays the vendor in the sun, sends the price back in the rain, and
\* keeps nothing.
LEMMA IcecreamKeeps == ASSUME IcecreamInv, Relay!IcecreamNext PROVE IcecreamInv'
<1> DEFINE arriving == {<<"buy_icecream", 2>>}
           Calls == IcecreamCalls
           Steps == RelaySteps(Services, IcecreamLocals, IcecreamShare, arriving)
<1> SUFFICES Steps
  BY RelayKeeps, IcecreamShares DEF IcecreamInv, IcecreamLocals
<1>1. /\ self_balance \in Nat /\ state \in Services
      /\ "buy_icecream" \in Calls /\ "replace_weather_service" \in Calls
      /\ RelayInv(Calls, Services, IcecreamLocals, IcecreamShare, arriving)
  BY DEF IcecreamInv, RelayInv, InStates, IcecreamCalls
<1>2. <<"buy_icecream", 2>> \in arriving /\ \A p \in arriving : p[1] = "buy_icecream" /\ p[2] = 2
  OBVIOUS
<1>3. CASE Relay!Call("buy_icecream", 0 .. MaxCCD, 2)
  <2>1. <<"buy_icecream", 2, Nobody>> \in DOMAIN IcecreamShare
    BY <1>1, IcecreamShares
  <2>2. IcecreamShare[<<"buy_icecream", 2, Nobody>>] = 0
    BY <2>1, IcecreamShares
  <2> QED BY <1>1, <1>2, <1>3, <2>1, <2>2, RelayCall DEF RelaySteps
<1>4. CASE Relay!Call("replace_weather_service", {0}, 1)
  <2>1. <<"replace_weather_service", 1, Nobody>> \in DOMAIN IcecreamShare
    BY <1>1, IcecreamShares
  <2>2. IcecreamShare[<<"replace_weather_service", 1, Nobody>>] = 0
    BY <2>1, IcecreamShares
  <2>3. {0} \in SUBSET (0 .. MaxCCD)
    BY RelayAddresses
  <2> QED BY <1>1, <1>4, <2>1, <2>2, <2>3, RelayCall DEF RelaySteps
<1>5. CASE Relay!AskWeather
  <2>1. /\ Relay!Reading("buy_icecream")
        /\ Relay!Continue(state, 0, state, 1, Relay!Received)
    BY <1>5 DEF Relay!AskWeather
  <2>2. /\ Relay!Received \in 0 .. MaxCCD /\ Relay!Received \in Nat
        /\ self_balance - Relay!Received = Relay!Top.held /\ Relay!Top.held \in Nat
    BY <1>1, <2>1, RelayReads, RelayAddresses
  <2>3. /\ <<"buy_icecream", 1, Relay!Received>> \in DOMAIN IcecreamShare
        /\ IcecreamShare[<<"buy_icecream", 1, Relay!Received>>] = Relay!Received
    BY <1>1, <2>2, IcecreamShares
  <2>4. self_balance - 0 = Relay!Top.held + IcecreamShare[<<"buy_icecream", 1, Relay!Received>>]
    BY <1>1, <2>2, <2>3
  <2>5. <<"buy_icecream", 1>> \notin arriving /\ Relay!Received \in IcecreamLocals
    BY <2>2 DEF IcecreamLocals
  <2>6. PassesOn(Services, Services, IcecreamLocals, IcecreamShare, arriving)
    BY <1>1, <2>1, <2>3, <2>4, <2>5, RelayGoesOn
  <2> QED BY <2>6 DEF RelaySteps
<1>6. CASE Relay!PayForIcecream
  <2>1. CASE \E error : Relay!Reject(error)
    BY <1>6, <2>1, RelayUndone DEF Relay!PayForIcecream, RelaySteps
  <2>2. CASE Relay!Continue(state, Relay!Top.local, Nobody, 0, Nobody)
    <3>1. Relay!Reading("buy_icecream") /\ Relay!Top.left = 1 /\ <<"buy_icecream", 1>> \notin arriving
      BY <1>6 DEF Relay!PayForIcecream
    <3> DEFINE local == Relay!Top.local
    <3>2. /\ <<"buy_icecream", 1, local>> \in DOMAIN IcecreamShare
          /\ self_balance = Relay!Top.held + IcecreamShare[<<"buy_icecream", 1, local>>]
          /\ Relay!Top.held \in Nat
      BY <1>1, <3>1, RelayReads
    <3>3. local \in Nat /\ IcecreamShare[<<"buy_icecream", 1, local>>] = local
      BY <3>2, IcecreamShares, RelayAddresses
    <3>4. /\ <<"buy_icecream", 0, Nobody>> \in DOMAIN IcecreamShare
          /\ IcecreamShare[<<"buy_icecream", 0, Nobody>>] = 0
      BY <1>1, IcecreamShares
    <3>5. self_balance - local = Relay!Top.held + IcecreamShare[<<"buy_icecream", 0, Nobody>>]
      BY <3>2, <3>3, <3>4
    <3>6. <<"buy_icecream", 0>> \notin arriving /\ Nobody \in IcecreamLocals
      BY DEF IcecreamLocals
    <3> HIDE DEF local
    <3>7. PassesOn(Services, Services, IcecreamLocals, IcecreamShare, arriving)
      BY <1>1, <2>2, <3>1, <3>3, <3>4, <3>5, <3>6, RelayGoesOn DEF local
    <3> QED BY <3>7 DEF RelaySteps
  <2> QED BY <1>6, <2>1, <2>2 DEF Relay!PayForIcecream
<1>7. CASE Relay!ReplaceWeatherService
  <2>1. CASE \E error : Relay!Reject(error)
    BY <1>7, <2>1, RelayUndone DEF Relay!ReplaceWeatherService, RelaySteps
  <2>2. CASE \E c \in Services : Relay!Set(c)
    <3> DEFINE service == "replace_weather_service"
               left == Relay!Top.left - 1
    <3>1. PICK c \in Services : Relay!Continue(c, 0, Nobody, left, Relay!Top.local)
      BY <2>2 DEF Relay!Set
    <3>2. Relay!Reading(service)
      BY <1>7 DEF Relay!ReplaceWeatherService
    <3>3. /\ <<service, Relay!Top.left, Relay!Top.local>> \in DOMAIN IcecreamShare
          /\ Relay!Top.left \in Nat /\ Relay!Top.left > 0 /\ Relay!Top.held \in Nat
          /\ <<service, Relay!Top.left>> \notin arriving =>
              self_balance = Relay!Top.held + IcecreamShare[<<service, Relay!Top.left, Relay!Top.local>>]
      BY <1>1, <3>2, RelayReads
    <3>4. self_balance = Relay!Top.held + IcecreamShare[<<service, Relay!Top.left, Relay!Top.local>>]
      BY <3>3
    <3>5. /\ Relay!Top.left \in 0 .. 2 /\ Relay!Top.local = Nobody
          /\ IcecreamShare[<<service, Relay!Top.left, Relay!Top.local>>] = 0
      BY <3>3, IcecreamShares
    <3>6. left \in 0 .. 2 /\ left \in Nat
      BY <3>3, <3>5
    <3>7. /\ <<service, left, Nobody>> \in DOMAIN IcecreamShare
          /\ IcecreamShare[<<service, left, Nobody>>] = 0
      BY <1>1, <3>6, IcecreamShares
    <3>8. self_balance - 0 = Relay!Top.held + IcecreamShare[<<service, left, Nobody>>]
      BY <1>1, <3>3, <3>4, <3>5, <3>7
    <3>9. <<service, left>> \notin arriving /\ Nobody \in IcecreamLocals
      BY DEF IcecreamLocals
    <3>10. Relay!Continue(c, 0, Nobody, left, Nobody)
      BY <3>1, <3>5
    <3> HIDE DEF left, service, arriving
    <3>11. PassesOn(Services, Services, IcecreamLocals, IcecreamShare, arriving)
      BY <3>2, <3>6, <3>7, <3>8, <3>9, <3>10, RelayGoesOn
    <3> QED BY <3>11 DEF RelaySteps
  <2> QED BY <1>7, <2>1, <2>2 DEF Relay!ReplaceWeatherService
<1>8. CASE Relay!Callees \/ Relay!Finish
  BY <1>8, RelayOnChain DEF RelaySteps, Relay!Callees
<1> QED BY <1>3, <1>4, <1>5, <1>6, <1>7, <1>8 DEF Relay!IcecreamNext

\* Between transactions such a contract holds nothing, and it is well typed.
LEMMA RelayHolds ==
  ASSUME NEW E, NEW S, NEW L, NEW share, NEW arriving,
         RelayInv(E, S, L, share, arriving),
         E \subseteq Relay!Entrypoints, S \subseteq Services \cup {"()", "Rainy", "Sunny"},
         L \subseteq {Nobody} \cup 0 .. MaxCCD
  PROVE  Relay!NothingKept /\ Relay!TypeOK
<1>1. Relay!NothingKept
  BY RelayOnChain DEF RelayInv, Shared, Relay!NothingKept
<1> DEFINE States == Services \cup {"()", "Rainy", "Sunny"}
           Locals == {Nobody} \cup 0 .. MaxCCD
<1>2. \A i \in DOMAIN stack : stack[i] \in Frame(Services, Relay!Entrypoints, States, Locals)
  <2> HIDE DEF States, Locals
  <2> QED BY StackOfMore DEF RelayInv, States, Locals
<1>3. Relay!Frame(Relay!Entrypoints, States, Locals) = Frame(Services, Relay!Entrypoints, States, Locals)
  BY DEF Relay!Frame, Frame, Relay!Addresses, Addresses
<1> QED BY <1>1, <1>2, <1>3 DEF RelayInv, InStates, Relay!TypeOK

-----------------------------------------------------------------------------
(* The listing contract keeps what a buyer sent while the token's contract   *)
(* is called.                                                                *)
ListStates == [Tokens -> List!Listings \cup {List!Unlisted}]
Buying(p) == p[1] = "buy" /\ p[2] = 1
ListDues == Accounts \X (0 .. MaxCCD)
ListPositions ==
  {p \in List!Entrypoints \X Nat \X {Nobody} : ~Buying(p)}
    \cup ({"buy"} \X {1} \X ListDues)
ListLocals == {Nobody} \cup ListDues
ListShare == [p \in ListPositions |-> IF Buying(p) THEN p[3][2] ELSE 0]
ListArriving == {<<"buy", 2>>}
ListInv ==
  /\ InStates(Contracts, List!Entrypoints, ListStates, ListLocals)
  /\ Shared(ListShare, ListArriving, MaxCCD)

\* Its chain is that of Host, but for the bounds.
LEMMA ListOnChain ==
  OnChain(List!Enter, List!Continue, List!Reject, List!CalleeReturns, List!Finish, List!Reading, List!Top)
BY DEF OnChain, List!Enter, Called, List!Continue, Chain!Continue, List!Reject, Chain!Reject,
       List!CalleeReturns, Chain!CalleeReturns, List!Finish, Chain!Finish, List!Reading,
       Chain!Reading, List!Running, Chain!Running, List!Waiting, Chain!Waiting, List!Idle,
       Chain!Idle, List!Top, Chain!Top, List!Below, Chain!Below

\* Who calls it, and what it can be sent.
LEMMA ListAddresses ==
  /\ Accounts \cup Contracts \subseteq Addresses(Contracts)
  /\ MaxCCD \in Nat /\ 0 .. MaxCCD \subseteq Nat /\ 0 .. MaxBatch \subseteq Nat
  /\ List!Received = Chain!Received /\ (List!Idle <=> Chain!Idle)
BY Deployable DEF Addresses, Wccd!WccdAssumption, Multi!HostAssumption,
                  List!Received, Chain!Received, List!Top, Chain!Top, List!Idle, Chain!Idle

\* What the listing contract keeps: the payment, while the token's contract is
\* called.
LEMMA ListShares ==
  /\ \A entrypoint, left, local :
       <<entrypoint, left, local>> \in DOMAIN ListShare <=>
         IF entrypoint = "buy" /\ left = 1 THEN local \in ListDues
         ELSE entrypoint \in List!Entrypoints /\ left \in Nat /\ local = Nobody
  /\ \A entrypoint, left, local :
       <<entrypoint, left, local>> \in DOMAIN ListShare =>
         ListShare[<<entrypoint, left, local>>] =
           IF entrypoint = "buy" /\ left = 1 THEN local[2] ELSE 0
  /\ \A p \in DOMAIN ListShare : p = <<p[1], p[2], p[3]>> /\ p[1] \in List!Entrypoints
BY DEF ListShare, ListPositions, List!Entrypoints, Buying

\* It keeps nothing once an entry point has read everything.
LEMMA ListSharing == Sharing(ListShare, ListArriving)
<1>1. ASSUME NEW p \in DOMAIN ListShare
      PROVE  ListShare[p] \in Nat /\ (p[2] = 0 => ListShare[p] = 0)
  <2>1. p = <<p[1], p[2], p[3]>>
    BY ListShares
  <2>2. ListShare[p] = IF p[1] = "buy" /\ p[2] = 1 THEN p[3][2] ELSE 0
    BY <2>1, ListShares
  <2>3. p[1] = "buy" /\ p[2] = 1 => p[3][2] \in Nat
    BY <2>1, ListShares, ListAddresses DEF ListDues
  <2> QED BY <2>2, <2>3
<1> QED BY <1>1 DEF Sharing, ListArriving

\* Deployment: nothing is listed.
LEMMA ListStarts == List!contract_init => ListInv
BY ListAddresses DEF List!contract_init, List!HostInit, ListInv, ListStates, InStates,
                     Shared, Chain!Idle

\* What the running entry point has.
LEMMA ListReads ==
  ASSUME ListInv, NEW entrypoint, List!Reading(entrypoint)
  PROVE  /\ ~Chain!Idle /\ Chain!Reading(entrypoint) /\ List!Top = Chain!Top /\ state \in ListStates
         /\ List!Top.entrypoint = entrypoint /\ List!Top.left \in Nat /\ List!Top.left > 0
         /\ List!Top.left - 1 \in Nat /\ List!Top.local \in ListLocals
         /\ <<entrypoint, List!Top.left, List!Top.local>> \in DOMAIN ListShare
         /\ self_balance \in Nat /\ List!Top.held \in Nat
         /\ List!Received \in 0 .. MaxCCD /\ self_balance - List!Received = List!Top.held
         /\ <<entrypoint, List!Top.left>> \notin ListArriving =>
              self_balance = List!Top.held + ListShare[<<entrypoint, List!Top.left, List!Top.local>>]
<1>1. Chain!Reading(entrypoint) /\ List!Top = Chain!Top
  BY ListOnChain DEF OnChain
<1>2. /\ ~Chain!Idle /\ Chain!Top.left \in Nat /\ Chain!Top.left > 0 /\ Chain!Top.left - 1 \in Nat
      /\ Chain!Top.local \in ListLocals /\ Chain!Top.entrypoint = entrypoint
      /\ Chain!Top.held \in Nat
  BY <1>1, Reader DEF ListInv
<1>3. /\ Position(Chain!Top) \in DOMAIN ListShare
      /\ self_balance \in Nat
      /\ Chain!Received \in Nat /\ Chain!Received <= MaxCCD
      /\ self_balance - Chain!Received = Chain!Top.held
      /\ ~Arrives(ListArriving, Chain!Top) =>
           self_balance = Chain!Top.held + ListShare[Position(Chain!Top)]
  BY <1>2, ListSharing, ListAddresses, SharedTop DEF ListInv
<1>4. state \in ListStates
  BY DEF ListInv, InStates
<1> QED BY <1>1, <1>2, <1>3, <1>4, ListAddresses DEF Position, Arrives

\* A step of the contract.
ListSteps ==
  \/ Receives(Contracts, ListShare, ListArriving, MaxCCD)
  \/ PassesOn(Contracts, ListStates, ListLocals, ListShare, ListArriving)
  \/ Undone \/ Chain!CalleeReturns \/ Chain!Finish

\* Its steps keep its invariant.
LEMMA ListKeeps == ASSUME ListInv, ListSteps PROVE ListInv'
<1>1. Receives(Contracts, ListShare, ListArriving, MaxCCD) => Enters(Contracts, List!Entrypoints)
  <2> SUFFICES ASSUME Receives(Contracts, ListShare, ListArriving, MaxCCD) PROVE Enters(Contracts, List!Entrypoints)
    OBVIOUS
  <2>1. PICK entrypoint : \E a \in Addresses(Contracts), amount \in Nat, n \in Nat :
          /\ Called(a, entrypoint, amount, n)
          /\ <<entrypoint, n, Nobody>> \in DOMAIN ListShare
    BY DEF Receives
  <2>2. entrypoint \in List!Entrypoints
    BY <2>1, ListShares
  <2> QED BY <2>1, <2>2 DEF Enters
<1>2. PassesOn(Contracts, ListStates, ListLocals, ListShare, ListArriving) => GoesOn(Contracts, ListStates, ListLocals)
  BY DEF PassesOn, GoesOn
<1>3. Moves(Contracts, List!Entrypoints, ListStates, ListLocals)
  BY <1>1, <1>2 DEF ListSteps, Moves
<1>4. InStates(Contracts, List!Entrypoints, ListStates, ListLocals)'
  <2>1. Nobody \in ListLocals
    BY DEF ListLocals
  <2> QED BY <1>3, <2>1, MovesKeep DEF ListInv
<1>5. Shared(ListShare, ListArriving, MaxCCD)'
  BY ListAddresses, ListSharing, SharesKept DEF ListSteps, ListInv
<1> QED BY <1>4, <1>5 DEF ListInv

\* A call brings CCD to `buy` only.
LEMMA ListEnters == ASSUME ListInv, List!Enters PROVE ListSteps
<1>1. PICK entrypoint \in List!Entrypoints, a \in Accounts \cup Contracts, amount \in 0 .. MaxCCD - self_balance, n \in Nat :
        /\ List!Enter(a, entrypoint, amount, n)
        /\ IF entrypoint = "buy" THEN n = 2 ELSE amount = 0
  <2>1. 0 \in 0 .. MaxCCD - self_balance /\ 2 \in Nat
    BY ListAddresses DEF ListInv, InStates, Shared
  <2> QED BY <2>1, ListAddresses DEF List!Enters, List!Entrypoints
<1>2. <<entrypoint, n, Nobody>> \in DOMAIN ListShare
  BY <1>1, ListShares
<1>3. ListShare[<<entrypoint, n, Nobody>>] = 0
  BY <1>1, <1>2, ListShares
<1>4. CanCall(Contracts, a) /\ Called(a, entrypoint, amount, n)
  BY <1>1, ListOnChain
     DEF OnChain, List!Enter, List!CanCall, CanCall, List!Idle, Chain!Idle,
         List!Waiting, Chain!Waiting, List!Top, Chain!Top
<1>5. amount \in Nat /\ self_balance + amount <= MaxCCD /\ (amount = 0 \/ <<entrypoint, n>> \in ListArriving)
  BY <1>1, ListAddresses DEF ListInv, InStates, ListArriving
<1>6. a \in Addresses(Contracts)
  BY ListAddresses
<1> QED BY <1>2, <1>3, <1>4, <1>5, <1>6 DEF ListSteps, Receives

\* An entry point goes on: it pays or calls with `amount` and keeps its share.
LEMMA ListGoesOn ==
  ASSUME ListInv, NEW entrypoint, List!Reading(entrypoint),
         NEW new \in ListStates, NEW amount \in Nat, NEW callee \in Contracts \cup {Nobody},
         NEW left \in Nat, NEW local \in ListLocals,
         List!Continue(new, amount, callee, left, local),
         <<entrypoint, left, local>> \in DOMAIN ListShare, <<entrypoint, left>> \notin ListArriving,
         self_balance - amount = List!Top.held + ListShare[<<entrypoint, left, local>>]
  PROVE  ListSteps
<1>1. ~Chain!Idle /\ Chain!Top.entrypoint = entrypoint /\ List!Top = Chain!Top
  BY ListReads
<1>2. Chain!Continue(new, amount, callee, left, local)
  BY ListOnChain DEF OnChain
<1> QED BY <1>1, <1>2 DEF ListSteps, PassesOn

\* `list` and `unlist` change one token's listing.
LEMMA ListExecutes ==
  ASSUME ListInv, NEW entrypoint \in {"list", "unlist"}, List!Reading(entrypoint),
         NEW new \in ListStates, List!Execute(new)
  PROVE  ListSteps
<1> DEFINE left == List!Top.left - 1
<1>1. /\ <<entrypoint, List!Top.left, List!Top.local>> \in DOMAIN ListShare /\ left \in Nat
      /\ List!Top.held \in Nat
      /\ <<entrypoint, List!Top.left>> \notin ListArriving =>
           self_balance = List!Top.held + ListShare[<<entrypoint, List!Top.left, List!Top.local>>]
  BY ListReads
<1>2. entrypoint # "buy" /\ entrypoint \in List!Entrypoints
  BY DEF List!Entrypoints
<1>3. List!Top.local = Nobody /\ ListShare[<<entrypoint, List!Top.left, List!Top.local>>] = 0
  BY <1>1, <1>2, ListShares
<1>4. <<entrypoint, left, Nobody>> \in DOMAIN ListShare
  BY <1>1, <1>2, ListShares
<1>5. ListShare[<<entrypoint, left, Nobody>>] = 0
  BY <1>2, <1>4, ListShares
<1>6. /\ <<entrypoint, List!Top.left>> \notin ListArriving
      /\ <<entrypoint, left>> \notin ListArriving /\ Nobody \in ListLocals
  BY <1>2 DEF ListArriving, ListLocals
<1>7. self_balance - 0 = List!Top.held + ListShare[<<entrypoint, left, Nobody>>]
  BY <1>1, <1>3, <1>5, <1>6
<1>8. List!Continue(new, 0, Nobody, left, Nobody)
  BY <1>3 DEF List!Execute
<1> HIDE DEF left
<1> QED BY <1>1, <1>4, <1>6, <1>7, <1>8, ListGoesOn

\* A rejection is one of its steps.
LEMMA ListUndone ==
  ASSUME NEW entrypoint, List!Reading(entrypoint), NEW error, List!Reject(error)
  PROVE  ListSteps
BY ListOnChain DEF OnChain, Undone, Chain!Reading, Chain!Running, ListSteps

\* The operations are such steps.
LEMMA ListMoves == ASSUME ListInv, List!Next PROVE ListSteps
<1>0. state \in ListStates
  BY DEF ListInv, InStates
<1>1. CASE List!Enters
  BY <1>1, ListEnters
<1>2. CASE List!List
  <2>1. ASSUME NEW token \in Tokens, NEW listing \in List!Listings
        PROVE  List!list(token, listing) \in ListStates
    BY <1>0 DEF List!list, ListStates
  <2> QED BY <1>2, <2>1, ListExecutes, ListUndone DEF List!List, List!OnlyOwner
<1>3. CASE List!Unlist
  <2>1. ASSUME NEW token \in Tokens
        PROVE  List!unlist(token) \in ListStates
    BY <1>0 DEF List!unlist, ListStates
  <2> QED BY <1>3, <2>1, ListExecutes, ListUndone DEF List!Unlist, List!OnlyOwner
<1>4. CASE List!Buy
  <2>1. List!Reading("buy")
    BY <1>4 DEF List!Buy
  <2>2. PICK token \in Tokens, c \in Contracts :
          IF List!BuyError(token) = "none"
          THEN List!Continue(List!unlist(token), 0, c, 1, <<state[token].owner, List!Received>>)
          ELSE List!Reject(List!BuyError(token))
    BY <1>4 DEF List!Buy
  <2>3. CASE List!BuyError(token) # "none"
    BY <2>1, <2>2, <2>3, ListUndone
  <2>4. CASE List!BuyError(token) = "none"
    <3> DEFINE local == <<state[token].owner, List!Received>>
    <3>1. state[token].owner \in Accounts
      BY <1>0, <2>4 DEF List!BuyError, ListStates, List!Listings
    <3>2. /\ List!Received \in 0 .. MaxCCD /\ List!Received \in Nat
          /\ self_balance - List!Received = List!Top.held /\ List!Top.held \in Nat
          /\ self_balance \in Nat
      BY <2>1, ListReads, ListAddresses
    <3>3. local \in ListDues /\ local[2] = List!Received /\ local \in ListLocals
      BY <3>1, <3>2 DEF ListLocals, ListDues
    <3>4. List!unlist(token) \in ListStates
      BY <1>0 DEF List!unlist, ListStates
    <3>5. List!Continue(List!unlist(token), 0, c, 1, local)
      BY <2>2, <2>4
    <3> HIDE DEF local
    <3>6. <<"buy", 1, local>> \in DOMAIN ListShare
      BY <3>3, ListShares
    <3>7. ListShare[<<"buy", 1, local>>] = List!Received
      BY <3>3, <3>6, ListShares
    <3>8. self_balance - 0 = List!Top.held + ListShare[<<"buy", 1, local>>]
      BY <3>2, <3>7
    <3>9. <<"buy", 1>> \notin ListArriving
      BY DEF ListArriving
    <3> QED BY <2>1, <3>3, <3>4, <3>5, <3>6, <3>8, <3>9, ListGoesOn
  <2> QED BY <2>3, <2>4
<1>5. CASE List!PayOwner
  <2> DEFINE local == List!Top.local
             amount == local[2]
  <2>1. List!Reading("buy") /\ List!Top.left = 1 /\ List!Continue(state, amount, Nobody, 0, Nobody)
    BY <1>5 DEF List!PayOwner
  <2>2. <<"buy", 1>> \notin ListArriving /\ <<"buy", 0>> \notin ListArriving
    BY DEF ListArriving
  <2>3. /\ <<"buy", 1, local>> \in DOMAIN ListShare
        /\ self_balance = List!Top.held + ListShare[<<"buy", 1, local>>]
        /\ List!Top.held \in Nat
    BY <2>1, <2>2, ListReads
  <2>4. amount \in Nat /\ ListShare[<<"buy", 1, local>>] = amount
    <3>1. local \in ListDues /\ ListShare[<<"buy", 1, local>>] = local[2]
      BY <2>3, ListShares
    <3> QED BY <3>1, ListAddresses DEF ListDues
  <2>5. <<"buy", 0, Nobody>> \in DOMAIN ListShare /\ Nobody \in ListLocals
    BY ListShares DEF List!Entrypoints, ListLocals
  <2>6. ListShare[<<"buy", 0, Nobody>>] = 0
    BY <2>5, ListShares
  <2>7. self_balance - amount = List!Top.held + ListShare[<<"buy", 0, Nobody>>]
    BY <2>3, <2>4, <2>6
  <2> HIDE DEF local, amount
  <2> QED BY <1>0, <2>1, <2>2, <2>4, <2>5, <2>7, ListGoesOn
<1>6. CASE List!Callees \/ List!Finish
  BY <1>6, ListOnChain
     DEF OnChain, List!Callees, List!CalleeRejects, List!Waiting, List!Idle, Chain!Idle,
         Undone, ListSteps
<1> QED BY <1>1, <1>2, <1>3, <1>4, <1>5, <1>6 DEF List!Next

\* Between transactions it holds nothing, and it is well typed.
LEMMA ListHolds == ASSUME ListInv PROVE List!NothingKept /\ List!TypeOK
<1>1. List!NothingKept
  BY ListAddresses DEF ListInv, Shared, List!NothingKept
<1>2. \A i \in DOMAIN stack : stack[i] \in Frame(Contracts, List!Entrypoints, ListStates, ListLocals)
  BY StackOfMore DEF ListInv
<1>3. List!Frame(List!Entrypoints, ListStates, ListLocals) = Frame(Contracts, List!Entrypoints, ListStates, ListLocals)
  BY DEF List!Frame, Frame, List!Addresses, Addresses
<1> QED BY <1>1, <1>2, <1>3 DEF ListInv, InStates, List!TypeOK, ListStates, ListLocals, ListDues

-----------------------------------------------------------------------------
(* The piggy bank: a smashed one is empty, but for what an `insert` brings   *)
(* that is about to be rejected and for what an action is about to send.     *)
PiggyStates == {"Intact", "Smashed"}
PiggyLocals == {Nobody} \cup 0 .. MaxCCD
PiggyFrame(frame) ==
  /\ frame.callee = Nobody /\ frame.held <= MaxCCD
  /\ frame.saved = "Smashed" => frame.held = 0
Inserting(frame) == frame.entrypoint = "insert" /\ frame.left > 0
Sending(frame) == frame.entrypoint = "smash_action" /\ frame.left = 1
PiggyInv ==
  /\ InStates(Contracts, Piggy!Entrypoints, PiggyStates, PiggyLocals)
  /\ self_balance <= MaxCCD
  /\ ~Piggy!Idle => Len(stack) = 1 /\ PiggyFrame(Piggy!Top)
  /\ ~Piggy!Idle /\ Sending(Piggy!Top) => state = "Smashed" /\ Piggy!Top.local = self_balance
  /\ state = "Smashed" =>
       \/ self_balance = 0
       \/ ~Piggy!Idle /\ (Inserting(Piggy!Top) \/ Sending(Piggy!Top))

\* Its chain is that of Host, but for the bounds.
LEMMA PiggyOnChain ==
  OnChain(Piggy!Enter, Piggy!Continue, Piggy!Reject, Piggy!CalleeReturns, Piggy!Finish, Piggy!Reading, Piggy!Top)
BY DEF OnChain, Piggy!Enter, Called, Piggy!Continue, Chain!Continue, Piggy!Reject, Chain!Reject,
       Piggy!CalleeReturns, Chain!CalleeReturns, Piggy!Finish, Chain!Finish, Piggy!Reading,
       Chain!Reading, Piggy!Running, Chain!Running, Piggy!Waiting, Chain!Waiting, Piggy!Idle,
       Chain!Idle, Piggy!Top, Chain!Top, Piggy!Below, Chain!Below

\* Who calls it, and what it can be sent.
LEMMA PiggyAddresses ==
  /\ Accounts \cup Contracts \subseteq Addresses(Contracts)
  /\ MaxCCD \in Nat /\ 0 .. MaxCCD \subseteq Nat /\ (Piggy!Idle <=> Chain!Idle)
BY Deployable DEF Addresses, Wccd!WccdAssumption, Piggy!Idle, Chain!Idle

\* Deployment: the bank is intact.
LEMMA PiggyStarts == Piggy!piggy_init => PiggyInv
BY PiggyAddresses
   DEF Piggy!piggy_init, Piggy!HostInit, PiggyInv, PiggyStates, InStates, Piggy!Idle

\* What the running activation has.
LEMMA PiggyReads ==
  ASSUME PiggyInv, NEW entrypoint, Piggy!Reading(entrypoint)
  PROVE  /\ ~Piggy!Idle /\ Chain!Reading(entrypoint) /\ Piggy!Top = Chain!Top
         /\ Piggy!Top.entrypoint = entrypoint /\ Piggy!Top.left \in Nat /\ Piggy!Top.left > 0
         /\ Piggy!Top.left - 1 \in Nat /\ Piggy!Top.local \in PiggyLocals
         /\ Len(stack) = 1 /\ PiggyFrame(Piggy!Top) /\ Piggy!Top.held \in Nat
         /\ Piggy!Top = stack[1]
         /\ Piggy!Top \in Frame(Contracts, Piggy!Entrypoints, PiggyStates, PiggyLocals)
         /\ self_balance \in Nat /\ state \in PiggyStates
<1>1. Chain!Reading(entrypoint) /\ Piggy!Top = Chain!Top
  BY PiggyOnChain DEF OnChain
<1>2. /\ ~Chain!Idle /\ Chain!Top.left \in Nat /\ Chain!Top.left > 0 /\ Chain!Top.left - 1 \in Nat
      /\ Chain!Top.local \in PiggyLocals /\ Chain!Top.entrypoint = entrypoint
      /\ Chain!Top.held \in Nat
  BY <1>1, Reader DEF PiggyInv
<1>3. Chain!Top \in Frame(Contracts, Piggy!Entrypoints, PiggyStates, PiggyLocals)
  BY <1>2, TopFrame DEF PiggyInv
<1> QED BY <1>1, <1>2, <1>3, PiggyAddresses DEF PiggyInv, InStates, Piggy!Top

\* The activation goes on within the contract.
LEMMA PiggyContinues ==
  ASSUME PiggyInv, NEW entrypoint, Piggy!Reading(entrypoint),
         NEW new \in PiggyStates, NEW amount \in Nat, NEW left \in Nat, NEW local \in PiggyLocals,
         Piggy!Continue(new, amount, Nobody, left, local),
         entrypoint = "smash_action" /\ left = 1 =>
           new = "Smashed" /\ local = self_balance - amount,
         new = "Smashed" =>
           \/ self_balance - amount = 0
           \/ entrypoint = "insert" /\ left > 0
           \/ entrypoint = "smash_action" /\ left = 1
  PROVE  PiggyInv'
<1>1. InStates(Contracts, Piggy!Entrypoints, PiggyStates, PiggyLocals)'
  <2>1. GoesOn(Contracts, PiggyStates, PiggyLocals)
    BY PiggyReads, PiggyOnChain, PiggyAddresses DEF OnChain, GoesOn
  <2> QED BY <2>1, GoesKeeps DEF PiggyInv
<1> DEFINE frame == [Piggy!Top EXCEPT !.callee = Nobody, !.left = left, !.local = local]
<1>2. /\ stack' = [stack EXCEPT ![1] = frame] /\ state' = new
      /\ self_balance' = self_balance - amount /\ amount <= self_balance
  BY PiggyReads DEF Piggy!Continue, Piggy!Top
<1>3. /\ frame.entrypoint = entrypoint /\ frame.left = left /\ frame.local = local
      /\ PiggyFrame(frame)
  BY PiggyReads DEF Frame, PiggyFrame
<1>0. frame \in Frame(Contracts, Piggy!Entrypoints, PiggyStates, PiggyLocals)
  BY PiggyReads DEF Frame
<1> HIDE DEF frame
<1>4. Len(stack') = 1 /\ stack' # <<>> /\ stack'[1] = frame
  <2>1. stack \in Seq(Frame(Contracts, Piggy!Entrypoints, PiggyStates, PiggyLocals)) /\ Len(stack) = 1
    BY PiggyReads DEF PiggyInv, InStates
  <2>2. stack # <<>>
    BY PiggyReads DEF Piggy!Idle
  <2>3. stack' = [stack EXCEPT ![Len(stack)] = frame]
    BY <1>2, <2>1
  <2> QED BY <1>0, <2>1, <2>2, <2>3, Changed
<1>5. ~Piggy!Idle' /\ Piggy!Top' = frame
  BY <1>4 DEF Piggy!Idle, Piggy!Top
<1>6. self_balance' <= MaxCCD
  BY <1>2, PiggyReads, PiggyAddresses DEF PiggyInv
<1>7. /\ Sending(frame) <=> entrypoint = "smash_action" /\ left = 1
      /\ Inserting(frame) <=> entrypoint = "insert" /\ left > 0
  BY <1>3 DEF Sending, Inserting
<1> QED BY <1>1, <1>2, <1>3, <1>4, <1>5, <1>6, <1>7 DEF PiggyInv

\* The activation is over: it is undone or it returns.
LEMMA PiggyEnds ==
  ASSUME PiggyInv, ~Piggy!Idle, stack' = Piggy!Below,
         InStates(Contracts, Piggy!Entrypoints, PiggyStates, PiggyLocals)',
         self_balance' <= MaxCCD, state' = "Smashed" => self_balance' = 0
  PROVE  PiggyInv'
<1>1. Piggy!Idle'
  BY DEF PiggyInv, Piggy!Idle, Piggy!Below, InStates
<1> QED BY <1>1 DEF PiggyInv

\* A rejection takes back what had arrived.
LEMMA PiggyRejects ==
  ASSUME PiggyInv, NEW entrypoint, Piggy!Reading(entrypoint), NEW error, Piggy!Reject(error)
  PROVE  PiggyInv'
<1>1. Undone
  BY PiggyReads, PiggyOnChain, PiggyAddresses DEF OnChain, Undone
<1>2. InStates(Contracts, Piggy!Entrypoints, PiggyStates, PiggyLocals)'
  BY <1>1, UndoneKeeps DEF PiggyInv
<1> QED BY <1>2, PiggyReads, PiggyEnds DEF Piggy!Reject, PiggyFrame

\* The operations keep the invariant.
LEMMA PiggyKeeps == ASSUME PiggyInv, Piggy!Next PROVE PiggyInv'
<1>1. CASE Piggy!Enters
  <2>1. PICK entrypoint \in Piggy!Entrypoints, a \in Accounts \cup Contracts, amount \in 0 .. MaxCCD - self_balance, n \in Nat :
          /\ Piggy!Enter(a, entrypoint, amount, n)
          /\ entrypoint = "insert" => n = 1
          /\ entrypoint = "smash_action" => n = 2
          /\ entrypoint # "insert" => amount = 0
    <3>1. 0 \in 0 .. MaxCCD - self_balance /\ 1 \in Nat /\ 2 \in Nat
      BY PiggyAddresses DEF PiggyInv, InStates
    <3> QED BY <1>1, <3>1 DEF Piggy!Enters, Piggy!Entrypoints
  <2>2. Piggy!Idle
    BY <2>1 DEF Piggy!Enter, Piggy!CanCall, Piggy!Waiting, PiggyInv, PiggyFrame
  <2>3. amount \in Nat /\ self_balance \in Nat /\ self_balance + amount <= MaxCCD /\ self_balance <= MaxCCD
    BY PiggyAddresses DEF PiggyInv, InStates
  <2> DEFINE frame == [ by |-> a, entrypoint |-> entrypoint, callee |-> Nobody,
                        left |-> n, local |-> Nobody,
                        saved |-> state, held |-> self_balance ]
  <2>4. stack' = <<frame>> /\ self_balance' = self_balance + amount /\ state' = state
    BY <2>1, <2>2 DEF Piggy!Enter, Piggy!Idle
  <2>5. InStates(Contracts, Piggy!Entrypoints, PiggyStates, PiggyLocals)'
    <3>1. Called(a, entrypoint, amount, n)
      BY <2>1, PiggyOnChain DEF OnChain
    <3>2. Enters(Contracts, Piggy!Entrypoints) /\ Nobody \in PiggyLocals
      BY <2>3, <3>1, PiggyAddresses DEF Enters, PiggyLocals
    <3> QED BY <3>2, EntersKeeps DEF PiggyInv
  <2>6. ~Piggy!Idle' /\ Piggy!Top' = frame /\ Len(stack') = 1
    <3> HIDE DEF frame
    <3> QED BY <2>4 DEF Piggy!Idle, Piggy!Top
  <2>7. state = "Smashed" => self_balance = 0
    BY <2>2 DEF PiggyInv
  <2>8. PiggyFrame(frame)
    BY <2>3, <2>7 DEF PiggyFrame
  <2>9. ~Sending(frame) /\ (Inserting(frame) <=> entrypoint = "insert")
    BY <2>1 DEF Sending, Inserting
  <2>10. state' = "Smashed" => self_balance' = 0 \/ Inserting(frame)
    BY <2>1, <2>3, <2>4, <2>7, <2>9
  <2>11. self_balance' <= MaxCCD
    BY <2>3, <2>4
  <2> HIDE DEF frame
  <2> QED BY <2>5, <2>6, <2>8, <2>9, <2>10, <2>11 DEF PiggyInv
<1>2. CASE Piggy!piggy_insert
  <2>1. Piggy!Reading("insert")
    BY <1>2 DEF Piggy!piggy_insert
  <2>2. CASE state = "Intact"
    <3>1. Piggy!Continue(state, 0, Nobody, Piggy!Top.left - 1, Piggy!Top.local)
      BY <1>2, <2>2 DEF Piggy!piggy_insert, Piggy!Execute
    <3> QED BY <2>1, <2>2, <3>1, PiggyReads, PiggyContinues DEF PiggyStates
  <2>3. CASE state # "Intact"
    BY <1>2, <2>1, <2>3, PiggyRejects DEF Piggy!piggy_insert
  <2> QED BY <2>2, <2>3
<1>3. CASE Piggy!piggy_smash
  <2>1. Piggy!Reading("smash")
    BY <1>3 DEF Piggy!piggy_smash
  <2>2. CASE Piggy!SmashError = "none"
    <3>1. Piggy!Continue("Smashed", self_balance, Nobody, Piggy!Top.left - 1, Piggy!Top.local)
      BY <1>3, <2>2 DEF Piggy!piggy_smash, Piggy!Pay
    <3>2. self_balance \in Nat /\ self_balance - self_balance = 0
      BY <2>1, PiggyReads
    <3> QED BY <2>1, <3>1, <3>2, PiggyReads, PiggyContinues DEF PiggyStates
  <2>3. CASE Piggy!SmashError # "none"
    BY <1>3, <2>1, <2>3, PiggyRejects DEF Piggy!piggy_smash
  <2> QED BY <2>2, <2>3
<1>4. CASE Piggy!SmashAction
  <2>1. Piggy!Reading("smash_action")
    BY <1>4 DEF Piggy!SmashAction
  <2>2. CASE Piggy!SmashError = "none"
    <3>1. Piggy!Continue("Smashed", 0, Nobody, 1, self_balance)
      BY <1>4, <2>2 DEF Piggy!SmashAction
    <3>2. self_balance \in PiggyLocals /\ self_balance \in Nat
      BY <2>1, PiggyReads, PiggyAddresses DEF PiggyInv, PiggyLocals
    <3> QED BY <2>1, <3>1, <3>2, PiggyContinues DEF PiggyStates
  <2>3. CASE Piggy!SmashError # "none"
    BY <1>4, <2>1, <2>3, PiggyRejects DEF Piggy!SmashAction
  <2> QED BY <2>2, <2>3
<1>5. CASE Piggy!SimpleTransfer
  <2>1. Piggy!Reading("smash_action") /\ Sending(Piggy!Top)
    BY <1>5, PiggyReads DEF Piggy!SimpleTransfer, Sending
  <2>2. Piggy!Top.local = self_balance /\ self_balance \in Nat /\ state \in PiggyStates
    BY <2>1, PiggyReads DEF PiggyInv
  <2>3. Piggy!Continue(state, self_balance, Nobody, 0, Nobody)
    BY <1>5, <2>2 DEF Piggy!SimpleTransfer
  <2>4. self_balance - self_balance = 0 /\ Nobody \in PiggyLocals
    BY <2>2 DEF PiggyLocals
  <2> QED BY <2>1, <2>2, <2>3, <2>4, PiggyContinues
<1>6. CASE Piggy!piggy_view
  <2>1. /\ Piggy!Reading("view")
        /\ Piggy!Continue(state, 0, Nobody, Piggy!Top.left - 1, Piggy!Top.local)
    BY <1>6 DEF Piggy!piggy_view, Piggy!Execute
  <2>2. state = "Smashed" => self_balance - 0 = 0
    BY <2>1, PiggyReads DEF PiggyInv, Inserting, Sending
  <2> QED BY <2>1, <2>2, PiggyReads, PiggyContinues
<1>7. CASE Piggy!Finish
  <2>1. ~Piggy!Idle /\ ~Inserting(Piggy!Top) /\ ~Sending(Piggy!Top)
    BY <1>7 DEF Piggy!Finish, Piggy!Running, Inserting, Sending
  <2>2. InStates(Contracts, Piggy!Entrypoints, PiggyStates, PiggyLocals)'
    <3>1. Moves(Contracts, Piggy!Entrypoints, PiggyStates, PiggyLocals) /\ Nobody \in PiggyLocals
      BY <1>7, PiggyOnChain DEF OnChain, Moves, PiggyLocals
    <3> QED BY <3>1, MovesKeep DEF PiggyInv
  <2> QED BY <1>7, <2>1, <2>2, PiggyEnds DEF Piggy!Finish, PiggyInv
<1> QED BY <1>1, <1>2, <1>3, <1>4, <1>5, <1>6, <1>7 DEF Piggy!Next

\* A smashed bank is empty between transactions, and it is well typed.
LEMMA PiggyHolds == ASSUME PiggyInv PROVE Piggy!SmashedIsEmpty /\ Piggy!TypeOK
<1>1. Piggy!SmashedIsEmpty
  BY DEF PiggyInv, Piggy!SmashedIsEmpty
<1>2. \A i \in DOMAIN stack : stack[i] \in Frame(Contracts, Piggy!Entrypoints, PiggyStates, PiggyLocals)
  BY StackOfMore DEF PiggyInv
<1>3. Piggy!Frame(Piggy!Entrypoints, PiggyStates, PiggyLocals)
        = Frame(Contracts, Piggy!Entrypoints, PiggyStates, PiggyLocals)
  BY DEF Piggy!Frame, Frame, Piggy!Addresses, Addresses
<1> QED BY <1>1, <1>2, <1>3 DEF PiggyInv, InStates, Piggy!TypeOK, PiggyStates, PiggyLocals

-----------------------------------------------------------------------------
(* The two-step transfer contract: whoever supports a request has asked for  *)
(* that very payment, in the state and in what a rejection would bring back. *)
TwoStepGood ==
  {s \in TwoStep!States : \A id \in Tokens : \A h \in s.requests[id].supporters :
     <<h, id, s.requests[id].transfer_amount, s.requests[id].target_account,
       s.requests[id].times_out_at>> \in s.consents}
TwoStepInv == InStates(Contracts, TwoStep!Entrypoints, TwoStepGood, TwoStep!Targets)

\* The contract's chain is that of Host.
LEMMA TwoStepOnChain ==
  OnChain(TwoStep!Enter, TwoStep!Continue, TwoStep!Reject, TwoStep!CalleeReturns, TwoStep!Finish,
          TwoStep!Reading, TwoStep!Top)
BY DEF OnChain, TwoStep!Enter, Called, TwoStep!Continue, Chain!Continue, TwoStep!Reject,
       Chain!Reject, TwoStep!CalleeReturns, Chain!CalleeReturns, TwoStep!Finish, Chain!Finish,
       TwoStep!Reading, Chain!Reading, TwoStep!Running, Chain!Running, TwoStep!Waiting,
       Chain!Waiting, TwoStep!Idle, Chain!Idle, TwoStep!Top, Chain!Top, TwoStep!Below, Chain!Below

\* Its cardinalities are those of FiniteSets.
LEMMA TwoStepCardinality ==
  /\ \A S : TwoStep!Cardinality(S) = Cardinality(S)
  /\ IsFiniteSet(Holders)
<1>1. \A S : TwoStep!Cardinality(S) = Cardinality(S)
  BY DEF TwoStep!Cardinality, Cardinality
<1>2. IsFiniteSet(Holders)
  BY Deployable DEF TwoStep!TwoStepAssumption, TwoStep!IsFiniteSet, IsFiniteSet
<1> QED BY <1>1, <1>2

\* What the constants are.
LEMMA TwoStepConstants ==
  /\ LastTime \in Nat /\ TimeToLive \in Nat /\ MaxCCD \in Nat /\ Threshold \in Int
  /\ Accounts \cup Contracts \subseteq Addresses(Contracts) /\ Nobody \in TwoStep!Targets
  /\ TwoStep!Amount \subseteq Nat
<1>1. Threshold \in Int
  BY Deployable DEF TwoStep!TwoStepAssumption
<1> QED BY <1>1, Deployable
        DEF TwoStep!TwoStepAssumption, TwoStep!Targets, TwoStep!Amount, Addresses

\* What the states hold, one component at a time.
LEMMA TwoStepParts ==
  ASSUME state \in TwoStepGood
  PROVE  /\ state \in [ requests : [Tokens -> TwoStep!Requests], now : 0 .. LastTime,
                        consents : SUBSET TwoStep!Consents ]
         /\ state.requests \in [Tokens -> TwoStep!Requests]
         /\ state.now \in Nat /\ state.now <= LastTime
         /\ state.consents \subseteq TwoStep!Consents
         /\ \A id \in Tokens : \A h \in state.requests[id].supporters :
              <<h, id, state.requests[id].transfer_amount, state.requests[id].target_account,
                state.requests[id].times_out_at>> \in state.consents
BY TwoStepConstants DEF TwoStepGood, TwoStep!States

\* A state with these components is one of them.
LEMMA TwoStepWhole ==
  ASSUME NEW s, NEW requests \in [Tokens -> TwoStep!Requests], NEW now \in 0 .. LastTime,
         NEW consents \in SUBSET TwoStep!Consents,
         s = [requests |-> requests, now |-> now, consents |-> consents],
         \A id \in Tokens : \A h \in requests[id].supporters :
           <<h, id, requests[id].transfer_amount, requests[id].target_account,
             requests[id].times_out_at>> \in consents
  PROVE  s \in TwoStepGood
BY DEF TwoStepGood, TwoStep!States

\* Deployment: nothing is requested.
LEMMA TwoStepStarts == TwoStep!contract_init => TwoStepInv
<1> SUFFICES ASSUME TwoStep!contract_init PROVE TwoStepInv
  OBVIOUS
<1>1. TwoStep!NoRequest \in TwoStep!Requests /\ TwoStep!NoRequest.supporters = {}
  BY TwoStepConstants DEF TwoStep!NoRequest, TwoStep!Requests, TwoStep!Targets, TwoStep!Amount
<1> DEFINE none == [id \in Tokens |-> TwoStep!NoRequest]
<1>2. state \in TwoStepGood
  <2>1. state = [requests |-> none, now |-> 0, consents |-> {}]
    BY DEF TwoStep!contract_init
  <2>2. none \in [Tokens -> TwoStep!Requests] /\ \A id \in Tokens : none[id].supporters = {}
    BY <1>1
  <2>3. 0 \in 0 .. LastTime
    BY TwoStepConstants
  <2> HIDE DEF none
  <2> QED BY <2>1, <2>2, <2>3, TwoStepWhole
<1>3. self_balance \in Nat /\ stack = <<>>
  BY TwoStepConstants DEF TwoStep!contract_init
<1> QED BY <1>2, <1>3 DEF TwoStepInv, InStates

\* A new request has its maker's consent; the dropped ones had timed out.
LEMMA TwoStepRequests ==
  ASSUME state \in TwoStepGood, NEW id \in Tokens, NEW amount \in TwoStep!Amount,
         NEW target \in TwoStep!Targets, TwoStep!Top.by \in Holders
  PROVE  TwoStep!request(id, amount, target) \in TwoStepGood
<1> DEFINE until == state.now + TimeToLive
           new == [ transfer_amount |-> amount, target_account |-> target,
                    times_out_at |-> until, supporters |-> {TwoStep!Top.by} ]
           requests == [i \in Tokens |->
             CASE i = id -> new
               [] i # id /\ TwoStep!Active(i) -> state.requests[i]
               [] OTHER -> TwoStep!NoRequest]
           mine == <<TwoStep!Top.by, id, amount, target, until>>
           consents == {c \in state.consents : c[5] > state.now} \cup {mine}
<1>1. until \in 0 .. LastTime + TimeToLive
  BY TwoStepParts, TwoStepConstants
<1>2. new \in TwoStep!Requests /\ mine \in TwoStep!Consents
  BY <1>1 DEF TwoStep!Requests, TwoStep!Consents
<1>3. TwoStep!NoRequest \in TwoStep!Requests /\ TwoStep!NoRequest.supporters = {}
  BY TwoStepConstants DEF TwoStep!NoRequest, TwoStep!Requests, TwoStep!Targets, TwoStep!Amount
<1>4. requests \in [Tokens -> TwoStep!Requests]
  BY <1>2, <1>3, TwoStepParts
<1>5. consents \in SUBSET TwoStep!Consents
  BY <1>2, TwoStepParts
<1>6. ASSUME NEW i \in Tokens, NEW h \in requests[i].supporters
      PROVE  <<h, i, requests[i].transfer_amount, requests[i].target_account,
               requests[i].times_out_at>> \in consents
  <2>1. CASE i = id
    BY <2>1
  <2>2. CASE i # id /\ TwoStep!Active(i)
    BY <2>2, TwoStepParts DEF TwoStep!Active
  <2>3. CASE i # id /\ ~TwoStep!Active(i)
    BY <1>3, <2>3
  <2> QED BY <2>1, <2>2, <2>3
<1>7. TwoStep!request(id, amount, target) = [requests |-> requests, now |-> state.now, consents |-> consents]
  <2>1. TwoStep!request(id, amount, target) = [state EXCEPT !.requests = requests, !.consents = consents]
    BY DEF TwoStep!request
  <2> HIDE DEF requests, consents
  <2> QED BY <2>1, TwoStepParts
<1> HIDE DEF requests, consents
<1> QED BY <1>4, <1>5, <1>6, <1>7, TwoStepParts, TwoStepConstants, TwoStepWhole

\* A supporter's message asked for the payment as it is requested.
LEMMA TwoStepSupports ==
  ASSUME state \in TwoStepGood, NEW id \in Tokens, NEW amount \in TwoStep!Amount,
         NEW target \in TwoStep!Targets, TwoStep!SupportError(id, amount, target) = "none"
  PROVE  TwoStep!support(id, amount, target) \in TwoStepGood
<1> DEFINE r == state.requests[id]
           mine == <<TwoStep!Top.by, id, amount, target, r.times_out_at>>
           more == [r EXCEPT !.supporters = @ \cup {TwoStep!Top.by}]
           requests == [state.requests EXCEPT ![id] = more]
           consents == state.consents \cup {mine}
<1>1. TwoStep!Top.by \in Holders /\ amount = r.transfer_amount /\ target = r.target_account
  BY DEF TwoStep!SupportError
<1>2. r \in TwoStep!Requests
  BY TwoStepParts
<1>3. more \in TwoStep!Requests /\ mine \in TwoStep!Consents
  BY <1>1, <1>2 DEF TwoStep!Requests, TwoStep!Consents
<1>4. /\ more.transfer_amount = amount /\ more.target_account = target
      /\ more.times_out_at = r.times_out_at /\ more.supporters = r.supporters \cup {TwoStep!Top.by}
  BY <1>1, <1>2 DEF TwoStep!Requests
<1>5. TwoStep!support(id, amount, target) = [requests |-> requests, now |-> state.now, consents |-> consents]
  <2>1. TwoStep!support(id, amount, target) = [state EXCEPT !.requests = requests, !.consents = consents]
    BY DEF TwoStep!support
  <2> HIDE DEF requests, consents
  <2> QED BY <2>1, TwoStepParts
<1>6. \A h \in r.supporters : <<h, id, amount, target, r.times_out_at>> \in state.consents
  BY <1>1, TwoStepParts
<1> HIDE DEF more
<1>7. requests \in [Tokens -> TwoStep!Requests] /\ consents \in SUBSET TwoStep!Consents
  BY <1>3, TwoStepParts
<1>8. \A i \in Tokens : requests[i] = IF i = id THEN more ELSE state.requests[i]
  BY TwoStepParts
<1>9. ASSUME NEW i \in Tokens, NEW h \in requests[i].supporters
      PROVE  <<h, i, requests[i].transfer_amount, requests[i].target_account,
               requests[i].times_out_at>> \in consents
  <2>1. CASE i = id
    BY <1>4, <1>6, <1>8, <2>1
  <2>2. CASE i # id
    BY <1>8, <2>2, TwoStepParts
  <2> QED BY <2>1, <2>2
<1> HIDE DEF requests, consents
<1> QED BY <1>5, <1>7, <1>9, TwoStepParts, TwoStepConstants, TwoStepWhole

\* A paid request is gone and so are the consents to it.
LEMMA TwoStepCompletes ==
  ASSUME state \in TwoStepGood, NEW id \in Tokens
  PROVE  /\ TwoStep!complete(id) \in TwoStepGood
         /\ TwoStep!complete(id).requests[id] = TwoStep!NoRequest
<1> DEFINE requests == [state.requests EXCEPT ![id] = TwoStep!NoRequest]
           consents == {c \in state.consents : c[2] # id}
<1>1. TwoStep!NoRequest \in TwoStep!Requests /\ TwoStep!NoRequest.supporters = {}
  BY TwoStepConstants DEF TwoStep!NoRequest, TwoStep!Requests, TwoStep!Targets, TwoStep!Amount
<1>2. requests \in [Tokens -> TwoStep!Requests] /\ consents \in SUBSET TwoStep!Consents
  BY <1>1, TwoStepParts
<1>3. \A i \in Tokens : requests[i] = IF i = id THEN TwoStep!NoRequest ELSE state.requests[i]
  BY TwoStepParts
<1>4. ASSUME NEW i \in Tokens, NEW h \in requests[i].supporters
      PROVE  <<h, i, requests[i].transfer_amount, requests[i].target_account,
               requests[i].times_out_at>> \in consents
  BY <1>1, <1>3, TwoStepParts
<1>5. TwoStep!complete(id) = [requests |-> requests, now |-> state.now, consents |-> consents]
  <2>1. TwoStep!complete(id) = [state EXCEPT !.requests = requests, !.consents = consents]
    BY DEF TwoStep!complete
  <2> HIDE DEF requests, consents
  <2> QED BY <2>1, TwoStepParts
<1> HIDE DEF requests, consents
<1> QED BY <1>2, <1>3, <1>4, <1>5, TwoStepParts, TwoStepConstants, TwoStepWhole

\* Time passes and leaves the consents.
LEMMA TwoStepTicks ==
  ASSUME state \in TwoStepGood, TwoStep!Tick
  PROVE  state' \in TwoStepGood
<1>1. state.now + 1 \in 0 .. LastTime
  BY TwoStepParts, TwoStepConstants DEF TwoStep!Tick
<1>2. state' = [requests |-> state.requests, now |-> state.now + 1, consents |-> state.consents]
  BY TwoStepParts DEF TwoStep!Tick
<1> QED BY <1>1, <1>2, TwoStepParts, TwoStepWhole

\* The operations lead to such states.
LEMMA TwoStepMoves ==
  ASSUME TwoStepInv, TwoStep!Next
  PROVE  Moves(Contracts, TwoStep!Entrypoints, TwoStepGood, TwoStep!Targets)
<1> DEFINE Goes == GoesOn(Contracts, TwoStepGood, TwoStep!Targets)
<1> state \in TwoStepGood
  BY DEF TwoStepInv, InStates
<1>1. CASE TwoStep!Enters
  <2>1. 0 .. MaxCCD - self_balance \subseteq Nat /\ 1 \in Nat
    BY TwoStepConstants DEF TwoStepInv, InStates
  <2>2. \E a \in Addresses(Contracts), entrypoint \in TwoStep!Entrypoints, amount \in Nat, n \in Nat :
          TwoStep!Enter(a, entrypoint, amount, n)
    BY <1>1, <2>1, TwoStepConstants DEF TwoStep!Enters, TwoStep!Entrypoints
  <2> QED BY <2>2, TwoStepOnChain DEF OnChain, Enters, Moves
<1>2. ASSUME NEW entrypoint, TwoStep!Reading(entrypoint), NEW new \in TwoStepGood,
             TwoStep!Execute(new)
      PROVE  Goes
  <2>1. Chain!Reading(entrypoint) /\ TwoStep!Top = Chain!Top
    BY <1>2, TwoStepOnChain DEF OnChain
  <2>2. ~Chain!Idle /\ TwoStep!Top.left - 1 \in Nat /\ TwoStep!Top.local \in TwoStep!Targets
    BY <2>1, Reader DEF TwoStepInv
  <2>3. Chain!Continue(new, 0, Nobody, TwoStep!Top.left - 1, TwoStep!Top.local) /\ 0 \in Nat
    BY <1>2, TwoStepOnChain DEF OnChain, TwoStep!Execute
  <2> QED BY <2>2, <2>3 DEF GoesOn
<1>3. ASSUME NEW entrypoint, TwoStep!Reading(entrypoint), NEW error, TwoStep!Reject(error)
      PROVE  Undone
  BY <1>3, TwoStepOnChain DEF OnChain, Chain!Reading, Chain!Running, Undone
<1>4. CASE TwoStep!Deposit
  BY <1>2, <1>4 DEF TwoStep!Deposit, Moves
<1>5. CASE TwoStep!RequestTransfer
  <2>1. PICK id \in Tokens, amount \in TwoStep!Amount, target \in TwoStep!Targets :
          IF TwoStep!RequestError(id, amount) = "none"
          THEN TwoStep!Execute(TwoStep!request(id, amount, target))
          ELSE TwoStep!Reject(TwoStep!RequestError(id, amount))
    BY <1>5 DEF TwoStep!RequestTransfer
  <2>2. TwoStep!Reading("request")
    BY <1>5 DEF TwoStep!RequestTransfer
  <2>3. CASE TwoStep!RequestError(id, amount) = "none"
    <3>1. TwoStep!Top.by \in Holders
      BY <2>3 DEF TwoStep!RequestError
    <3>2. TwoStep!request(id, amount, target) \in TwoStepGood
      BY <3>1, TwoStepRequests
    <3> QED BY <1>2, <2>1, <2>2, <2>3, <3>2 DEF Moves
  <2>4. CASE TwoStep!RequestError(id, amount) # "none"
    BY <1>3, <2>1, <2>2, <2>4 DEF Moves
  <2> QED BY <2>3, <2>4
<1>6. CASE TwoStep!SupportTransfer
  <2>1. PICK id \in Tokens, amount \in TwoStep!Amount, target \in TwoStep!Targets :
          \/ \E error : TwoStep!Reject(error)
          \/ /\ TwoStep!SupportError(id, amount, target) = "none"
             /\ \/ TwoStep!Execute(TwoStep!support(id, amount, target))
                \/ TwoStep!Continue(TwoStep!complete(id), amount, Nobody, 0, target)
    BY <1>6 DEF TwoStep!SupportTransfer
  <2>2. TwoStep!Reading("support")
    BY <1>6 DEF TwoStep!SupportTransfer
  <2>3. CASE \E error : TwoStep!Reject(error)
    BY <1>3, <2>2, <2>3 DEF Moves
  <2>4. CASE /\ TwoStep!SupportError(id, amount, target) = "none"
             /\ TwoStep!Execute(TwoStep!support(id, amount, target))
    BY <1>2, <2>2, <2>4, TwoStepSupports DEF Moves
  <2>5. CASE TwoStep!Continue(TwoStep!complete(id), amount, Nobody, 0, target)
    <3>1. Chain!Continue(TwoStep!complete(id), amount, Nobody, 0, target)
      BY <2>5, TwoStepOnChain DEF OnChain
    <3>2. ~Chain!Idle /\ amount \in Nat
      BY <2>2, TwoStepOnChain, TwoStepConstants DEF OnChain, Chain!Reading, Chain!Running
    <3>3. TwoStep!complete(id) \in TwoStepGood
      BY TwoStepCompletes
    <3> QED BY <3>1, <3>2, <3>3 DEF GoesOn, Moves
  <2> QED BY <2>1, <2>3, <2>4, <2>5
<1>7. CASE TwoStep!Finish
  BY <1>7, TwoStepOnChain DEF OnChain, Moves
<1>8. CASE TwoStep!Tick
  BY <1>8, TwoStepTicks DEF TwoStep!Tick, TwoStep!hostVars, Moves
<1> QED BY <1>1, <1>4, <1>5, <1>6, <1>7, <1>8 DEF TwoStep!Next

\* CCD leave only in the call that completes a request, and all its supporters
\* have consented to the payment.
LEMMA TwoStepPays ==
  ASSUME TwoStepInv, TwoStep!Next
  PROVE  TwoStep!PaidAsAgreed
<1>0. SUFFICES ASSUME TwoStep!Running, self_balance' < self_balance, Len(stack') = Len(stack)
      PROVE  \E id \in Tokens :
               /\ state'.requests[id] = TwoStep!NoRequest /\ TwoStep!Active(id)
               /\ TwoStep!Cardinality(
                    {TwoStep!Top.by} \cup
                      TwoStep!Consenting(id, self_balance - self_balance', stack'[Len(stack)].local))
                    >= Threshold
  BY DEF TwoStep!PaidAsAgreed
<1>1. /\ state \in TwoStepGood /\ self_balance \in Nat /\ ~Chain!Idle
      /\ stack \in Seq(Frame(Contracts, TwoStep!Entrypoints, TwoStepGood, TwoStep!Targets))
      /\ TwoStep!Top = Chain!Top /\ TwoStep!Below = Chain!Below
  BY <1>0 DEF TwoStepInv, InStates, TwoStep!Running, TwoStep!Idle, Chain!Idle,
              TwoStep!Top, Chain!Top, TwoStep!Below, Chain!Below
<1>2. stack' # TwoStep!Below
  <2>1. Len(stack') >= Len(stack)
    BY <1>0, <1>1
  <2> QED BY <1>1, <2>1, EndShortens DEF TwoStepInv
<1>3. \A error : ~TwoStep!Reject(error)
  BY <1>2 DEF TwoStep!Reject
<1>4. \A new : ~TwoStep!Execute(new)
  BY <1>0, <1>1 DEF TwoStep!Execute, TwoStep!Continue
<1>5. ~TwoStep!Finish /\ ~TwoStep!Tick
  BY <1>0, <1>2 DEF TwoStep!Finish, TwoStep!Tick, TwoStep!Running
<1>6. ~TwoStep!Enters
  <2>1. \A a, entrypoint : \A amount \in 0 .. MaxCCD - self_balance : ~TwoStep!Enter(a, entrypoint, amount, 1)
    BY <1>0, <1>1, TwoStepConstants DEF TwoStep!Enter
  <2> QED BY <2>1 DEF TwoStep!Enters
<1>7. TwoStep!SupportTransfer
  BY <1>3, <1>4, <1>5, <1>6 DEF TwoStep!Next, TwoStep!Deposit, TwoStep!RequestTransfer
<1>8. PICK id \in Tokens, amount \in TwoStep!Amount, target \in TwoStep!Targets :
        /\ TwoStep!SupportError(id, amount, target) = "none" /\ TwoStep!Completes(id)
        /\ TwoStep!Continue(TwoStep!complete(id), amount, Nobody, 0, target)
  BY <1>3, <1>4, <1>7 DEF TwoStep!SupportTransfer
<1> DEFINE r == state.requests[id]
           asked == {TwoStep!Top.by} \cup TwoStep!Consenting(id, amount, target)
<1>9. /\ TwoStep!Active(id) /\ TwoStep!Top.by \in Holders
      /\ amount = r.transfer_amount /\ target = r.target_account
  BY <1>8 DEF TwoStep!SupportError
<1>10. state'.requests[id] = TwoStep!NoRequest
  BY <1>1, <1>8, TwoStepCompletes DEF TwoStep!Continue
<1>11. self_balance - self_balance' = amount
  BY <1>1, <1>8, TwoStepConstants DEF TwoStep!Continue
<1>12. stack'[Len(stack)].local = target
  <2> DEFINE frame == [TwoStep!Top EXCEPT !.callee = Nobody, !.left = 0, !.local = target]
  <2>1. TwoStep!Top \in Frame(Contracts, TwoStep!Entrypoints, TwoStepGood, TwoStep!Targets)
    BY <1>1, TopFrame DEF TwoStepInv
  <2>2. /\ frame \in Frame(Contracts, TwoStep!Entrypoints, TwoStepGood, TwoStep!Targets)
        /\ frame.local = target
    BY <2>1 DEF Frame
  <2>3. stack' = [stack EXCEPT ![Len(stack)] = frame]
    BY <1>8 DEF TwoStep!Continue, TwoStep!Top
  <2>4. stack # <<>>
    BY <1>1 DEF Chain!Idle
  <2> HIDE DEF frame
  <2> QED BY <1>1, <2>2, <2>3, <2>4, Changed
<1>13. TwoStep!Cardinality(asked) >= Threshold
  <2>1. r.supporters \cup {TwoStep!Top.by} \subseteq asked
    <3>1. r.supporters \subseteq Holders
      BY <1>1, TwoStepParts DEF TwoStep!Requests
    <3>2. \A h \in r.supporters : <<h, id, amount, target, r.times_out_at>> \in state.consents
      BY <1>1, <1>9, TwoStepParts
    <3> QED BY <3>1, <3>2 DEF TwoStep!Consenting
  <2>2. asked \in SUBSET Holders
    BY <1>9 DEF TwoStep!Consenting
  <2>3. IsFiniteSet(asked)
    BY <2>2, TwoStepCardinality, FS_Subset
  <2>4. Cardinality(r.supporters \cup {TwoStep!Top.by}) <= Cardinality(asked)
    <3> HIDE DEF asked, r
    <3> QED BY <2>1, <2>3, FS_Subset
  <2>5. Cardinality(asked) \in Nat /\ Cardinality(r.supporters \cup {TwoStep!Top.by}) \in Nat
    <3>1. IsFiniteSet(r.supporters \cup {TwoStep!Top.by})
      <4> HIDE DEF asked, r
      <4> QED BY <2>1, <2>3, FS_Subset
    <3> QED BY <2>3, <3>1, FS_CardinalityType
  <2>6. Cardinality(r.supporters \cup {TwoStep!Top.by}) >= Threshold
    BY <1>8, TwoStepCardinality DEF TwoStep!Completes
  <2>7. Cardinality(asked) >= Threshold
    BY <2>4, <2>5, <2>6, TwoStepConstants
  <2> QED BY <2>7, TwoStepCardinality
<1> QED BY <1>9, <1>10, <1>11, <1>12, <1>13

\* The contract is well typed.
LEMMA TwoStepHolds == ASSUME TwoStepInv PROVE TwoStep!TypeOK
<1>1. TwoStepGood \subseteq TwoStep!States
  BY DEF TwoStepGood
<1>2. \A i \in DOMAIN stack :
        stack[i] \in Frame(Contracts, TwoStep!Entrypoints, TwoStep!States, TwoStep!Targets)
  BY <1>1, StackOfMore DEF TwoStepInv
<1>3. TwoStep!Frame(TwoStep!Entrypoints, TwoStep!States, TwoStep!Targets)
        = Frame(Contracts, TwoStep!Entrypoints, TwoStep!States, TwoStep!Targets)
  BY DEF TwoStep!Frame, Frame, TwoStep!Addresses, Addresses
<1> QED BY <1>1, <1>2, <1>3 DEF TwoStepInv, InStates, TwoStep!TypeOK

-----------------------------------------------------------------------------
(* The recorder keeps accounts, and has visited accounts.                    *)
RecorderStates == SUBSET Accounts
RecorderLocals == {Nobody} \cup SUBSET Accounts
RecorderInv == InStates(Contracts, Rec!RecorderEntrypoints, RecorderStates, RecorderLocals)

\* The chain of both contracts is that of Host.
LEMMA RecOnChain ==
  OnChain(Rec!Enter, Rec!Continue, Rec!Reject, Rec!CalleeReturns, Rec!Finish, Rec!Reading, Rec!Top)
BY DEF OnChain, Rec!Enter, Called, Rec!Continue, Chain!Continue, Rec!Reject, Chain!Reject,
       Rec!CalleeReturns, Chain!CalleeReturns, Rec!Finish, Chain!Finish, Rec!Reading,
       Chain!Reading, Rec!Running, Chain!Running, Rec!Waiting, Chain!Waiting, Rec!Idle,
       Chain!Idle, Rec!Top, Chain!Top, Rec!Below, Chain!Below

\* Who may call them, and how often.
LEMMA RecAddresses ==
  /\ Accounts \cup Contracts \subseteq Addresses(Contracts) /\ MaxCalls \in Nat
  /\ (Rec!Idle <=> Chain!Idle) /\ (Rec!Waiting <=> Chain!Waiting)
BY Deployable DEF Addresses, Multi!HostAssumption, Rec!Idle, Chain!Idle, Rec!Waiting,
                  Chain!Waiting, Rec!Top, Chain!Top

\* Deployment: nothing is recorded.
LEMMA RecorderStarts == Rec!RecorderInit => RecorderInv
BY DEF Rec!RecorderInit, Rec!HostInit, RecorderInv, RecorderStates, InStates

\* Accounts are recorded, deleted, visited and forgotten.
LEMMA RecorderMoves ==
  ASSUME RecorderInv, Rec!RecorderNext
  PROVE  Moves(Contracts, Rec!RecorderEntrypoints, RecorderStates, RecorderLocals)
<1> DEFINE Goes == GoesOn(Contracts, RecorderStates, RecorderLocals)
<1> state \in RecorderStates
  BY DEF RecorderInv, InStates
<1>1. ASSUME NEW a \in Accounts \cup Contracts, NEW entrypoint \in Rec!RecorderEntrypoints,
             Rec!Enter(a, entrypoint, 0, 1)
      PROVE  Enters(Contracts, Rec!RecorderEntrypoints)
  BY <1>1, RecOnChain, RecAddresses DEF OnChain, Enters
<1>2. ASSUME NEW entrypoint, Rec!Reading(entrypoint), NEW new \in RecorderStates, Rec!Execute(new)
      PROVE  Goes
  BY <1>2, Reader, RecOnChain DEF OnChain, RecorderInv, Rec!Execute, GoesOn
<1>3. CASE Rec!receive_record \/ Rec!receive_delete \/ Rec!receive_list
  <2>1. \A a \in Accounts : state \cup {a} \in RecorderStates /\ state \ {a} \in RecorderStates
    BY DEF RecorderStates
  <2> QED BY <1>2, <1>3, <2>1
          DEF Rec!receive_record, Rec!receive_delete, Rec!receive_list, Moves
<1>4. CASE Rec!TransferTo
  <2> DEFINE visited == IF Rec!Top.local = Nobody THEN {} ELSE Rec!Top.local
  <2>1. ~Chain!Idle /\ visited \subseteq Accounts
    BY <1>4, Reader, RecOnChain DEF OnChain, RecorderInv, RecorderLocals, Rec!TransferTo
  <2>2. \A a \in state \ visited : visited \cup {a} \in RecorderLocals
    BY <2>1 DEF RecorderStates, RecorderLocals
  <2>3. {} \in RecorderStates /\ Nobody \in RecorderLocals
    BY DEF RecorderStates, RecorderLocals
  <2>4. \/ Rec!Continue({}, 0, Nobody, 0, Nobody)
        \/ \E a \in state \ visited : Rec!Continue(state, 0, Nobody, 1, visited \cup {a})
    BY <1>4 DEF Rec!TransferTo
  <2> HIDE DEF visited
  <2>5. PICK new \in RecorderStates, left \in Nat, local \in RecorderLocals :
          Rec!Continue(new, 0, Nobody, left, local)
    BY <2>2, <2>3, <2>4
  <2>6. Chain!Continue(new, 0, Nobody, left, local)
    BY <2>5, RecOnChain DEF OnChain
  <2>7. Goes
    BY <2>1, <2>6 DEF GoesOn
  <2> QED BY <2>7 DEF Moves
<1>5. CASE Rec!Finish
  BY <1>5, RecOnChain DEF OnChain, Moves
<1> QED BY <1>1, <1>3, <1>4, <1>5 DEF Rec!RecorderNext, Rec!RecorderEntrypoints, Moves

\* The recorder is well typed.
LEMMA RecorderHolds == ASSUME RecorderInv PROVE Rec!RecorderTypeOK
<1>1. \A i \in DOMAIN stack :
        stack[i] \in Frame(Contracts, Rec!RecorderEntrypoints, RecorderStates, RecorderLocals)
  BY StackOfMore DEF RecorderInv
<1>2. Rec!Frame(Rec!RecorderEntrypoints, RecorderStates, RecorderLocals)
        = Frame(Contracts, Rec!RecorderEntrypoints, RecorderStates, RecorderLocals)
  BY DEF Rec!Frame, Frame, Rec!Addresses, Addresses
<1> QED BY <1>1, <1>2
        DEF RecorderInv, InStates, Rec!RecorderTypeOK, RecorderStates, RecorderLocals

-----------------------------------------------------------------------------
(* counter-notify counts each call once at most: what is counted, with the   *)
(* activation that is about to count, is no more than the calls so far.      *)
CounterStates == 0 .. MaxCalls + 1
CounterLocals == {Nobody} \cup 0 .. MaxCalls + 1
AboutToCount(frame) ==
  \/ frame.entrypoint = "just-increment" /\ frame.left = 1
  \/ frame.entrypoint = "increment-and-notify" /\ frame.left = 2
InTurn(frame) == frame.entrypoint = "just-increment" => frame.left <= 1
CounterInv ==
  /\ InStates(Contracts, Rec!CounterEntrypoints, CounterStates, CounterLocals)
  /\ calls \in Nat /\ calls <= MaxCalls + 1 /\ state <= calls
  /\ ~Chain!Idle /\ AboutToCount(Chain!Top) => state < calls
  /\ \A i \in 1 .. Len(stack) :
       /\ stack[i].saved <= calls /\ InTurn(stack[i])
       /\ i # Len(stack) \/ stack[i].callee # Nobody => ~AboutToCount(stack[i])

\* Deployment: nothing is counted.
LEMMA CounterStarts == Rec!CounterInit => CounterInv
<1> SUFFICES ASSUME Rec!CounterInit PROVE CounterInv
  OBVIOUS
<1>1. /\ state = 0 /\ self_balance = 0 /\ stack = <<>> /\ calls = 0 /\ MaxCalls \in Nat
      /\ Len(stack) = 0 /\ Chain!Idle
  BY RecAddresses DEF Rec!CounterInit, Rec!HostInit, Chain!Idle
<1>2. InStates(Contracts, Rec!CounterEntrypoints, CounterStates, CounterLocals)
  BY <1>1 DEF InStates, CounterStates
<1> QED BY <1>1, <1>2 DEF CounterInv

\* What the running activation may go on with.
LEMMA CounterGoes ==
  ASSUME CounterInv, ~Chain!Idle, NEW new \in CounterStates, NEW callee \in Contracts \cup {Nobody},
         NEW left \in {0, 1}, NEW local \in CounterLocals,
         Rec!Continue(new, 0, callee, left, local), new <= calls,
         Rec!Top.entrypoint = "increment-and-notify" \/ left = 0
  PROVE  CounterInv'
<1>1. Chain!Continue(new, 0, callee, left, local) /\ Rec!Top = Chain!Top
  BY RecOnChain DEF OnChain
<1>2. InStates(Contracts, Rec!CounterEntrypoints, CounterStates, CounterLocals)'
  <2>1. GoesOn(Contracts, CounterStates, CounterLocals)
    BY <1>1 DEF GoesOn
  <2> QED BY <2>1, GoesKeeps DEF CounterInv
<1> DEFINE frame == [Chain!Top EXCEPT !.callee = callee, !.left = left, !.local = local]
           Frames == Frame(Contracts, Rec!CounterEntrypoints, CounterStates, CounterLocals)
<1>3. Chain!Top \in Frames /\ Len(stack) \in 1 .. Len(stack) /\ Chain!Top = stack[Len(stack)]
  BY TopFrame DEF CounterInv, Chain!Top
<1>4. frame \in Frames /\ ~AboutToCount(frame) /\ InTurn(frame) /\ frame.saved = Chain!Top.saved
  <2>1. frame \in Frames /\ frame.saved = Chain!Top.saved
    <3>1. left \in Nat
      OBVIOUS
    <3> HIDE DEF CounterLocals, CounterStates
    <3> QED BY <1>3, <3>1 DEF Frame
  <2>2. frame.entrypoint = Chain!Top.entrypoint /\ frame.left = left
    BY <1>3 DEF Frame
  <2> HIDE DEF frame
  <2> QED BY <1>1, <2>1, <2>2 DEF AboutToCount, InTurn
<1>5. stack' = [stack EXCEPT ![Len(stack)] = frame] /\ state' = new /\ calls' = calls
  BY <1>1 DEF Chain!Continue, Chain!Top
<1>6. stack \in Seq(Frames) /\ stack # <<>>
  BY DEF CounterInv, InStates, Chain!Idle
<1> HIDE DEF frame, Frames
<1>7. /\ Len(stack') = Len(stack) /\ stack'[Len(stack)] = frame
      /\ \A i \in 1 .. Len(stack) : i # Len(stack) => stack'[i] = stack[i]
  BY <1>4, <1>5, <1>6, Changed
<1>8. Chain!Top' = frame
  BY <1>7 DEF Chain!Top
<1>9. ASSUME NEW i \in 1 .. Len(stack')
      PROVE  /\ stack'[i].saved <= calls' /\ InTurn(stack'[i])
             /\ i # Len(stack') \/ stack'[i].callee # Nobody => ~AboutToCount(stack'[i])
  BY <1>3, <1>4, <1>5, <1>7 DEF CounterInv
<1> QED BY <1>2, <1>4, <1>5, <1>8, <1>9 DEF CounterInv

\* The activation leaves, and the state is the present one or the kept one.
LEMMA CounterLeaves ==
  ASSUME CounterInv, ~Chain!Idle, stack' = Chain!Below, calls' = calls,
         state' \in {state, Chain!Top.saved},
         InStates(Contracts, Rec!CounterEntrypoints, CounterStates, CounterLocals)'
  PROVE  CounterInv'
<1> DEFINE Frames == Frame(Contracts, Rec!CounterEntrypoints, CounterStates, CounterLocals)
<1>1. stack \in Seq(Frames) /\ stack # <<>>
  BY DEF CounterInv, InStates, Chain!Idle
<1> HIDE DEF Frames
<1>2. /\ Len(stack) \in Nat /\ Len(stack) > 0 /\ Len(stack') = Len(stack) - 1
      /\ \A i \in 1 .. Len(stack) - 1 : stack'[i] = stack[i]
  BY <1>1, Popped DEF Chain!Below
<1>3. state' <= calls'
  BY <1>2 DEF CounterInv, Chain!Top
<1>4. ASSUME NEW i \in 1 .. Len(stack')
      PROVE  stack'[i].saved <= calls' /\ InTurn(stack'[i]) /\ ~AboutToCount(stack'[i])
  BY <1>2 DEF CounterInv
<1>5. ~Chain!Idle' => Len(stack') \in 1 .. Len(stack')
  BY <1>2 DEF Chain!Idle, CounterInv, InStates
<1>6. ~Chain!Idle' => ~AboutToCount(Chain!Top')
  BY <1>4, <1>5 DEF Chain!Top
<1> QED BY <1>3, <1>4, <1>6 DEF CounterInv

\* Nothing counts twice: the steps keep the bound.
LEMMA CounterKeeps == ASSUME CounterInv, Rec!CounterNext PROVE CounterInv'
<1> DEFINE Frames == Frame(Contracts, Rec!CounterEntrypoints, CounterStates, CounterLocals)
<1>0. /\ state \in CounterStates /\ state \in Nat /\ calls \in Nat /\ calls <= MaxCalls + 1
      /\ MaxCalls \in Nat /\ stack \in Seq(Frames) /\ Len(stack) \in Nat
  BY RecAddresses DEF CounterInv, InStates, CounterStates
<1>1. ASSUME NEW a \in Accounts \cup Contracts, NEW entrypoint \in Rec!CounterEntrypoints,
             NEW n \in Nat, Rec!Enter(a, entrypoint, 0, n),
             entrypoint = "just-increment" => n = 1
      PROVE  CounterInv'
  <2>1. Called(a, entrypoint, 0, n)
    BY <1>1, RecOnChain DEF OnChain
  <2>2. InStates(Contracts, Rec!CounterEntrypoints, CounterStates, CounterLocals)'
    <3>1. Enters(Contracts, Rec!CounterEntrypoints) /\ Nobody \in CounterLocals
      BY <2>1, RecAddresses DEF Enters, CounterLocals
    <3> QED BY <3>1, EntersKeeps DEF CounterInv
  <2> DEFINE frame == [ by |-> a, entrypoint |-> entrypoint, callee |-> Nobody,
                        left |-> n, local |-> Nobody,
                        saved |-> state, held |-> self_balance ]
  <2>3. /\ stack' = Append(stack, frame) /\ state' = state /\ calls' = calls + 1
        /\ calls < MaxCalls + 1 /\ (Rec!Idle \/ Rec!Waiting)
    BY <1>1 DEF Rec!Enter, Rec!CanCall
  <2>4. frame \in Frames /\ frame.saved = state /\ frame.callee = Nobody
        /\ InTurn(frame)
    BY <1>0, <1>1, <2>1, RecAddresses DEF InTurn, Frame, CounterLocals, CounterInv, InStates
  <2> HIDE DEF frame, Frames
  <2>5. /\ Len(stack') = Len(stack) + 1 /\ stack'[Len(stack) + 1] = frame
        /\ \A i \in 1 .. Len(stack) : stack'[i] = stack[i]
    BY <1>0, <2>3, <2>4, Pushed
  <2>6. Len(stack) # 0 => stack[Len(stack)].callee # Nobody
    BY <1>0, <2>3, RecAddresses DEF Chain!Idle, Chain!Waiting, Chain!Top
  <2>7. state <= calls /\ state' < calls' /\ calls' \in Nat /\ calls' <= MaxCalls + 1
    BY <1>0, <2>3 DEF CounterInv
  <2>8. ASSUME NEW i \in 1 .. Len(stack')
        PROVE  /\ stack'[i].saved <= calls' /\ InTurn(stack'[i])
               /\ i # Len(stack') \/ stack'[i].callee # Nobody => ~AboutToCount(stack'[i])
    <3>1. CASE i = Len(stack')
      <4>1. stack'[i] = frame /\ frame.saved <= calls'
        <5>1. state <= calls'
          BY <1>0, <2>3, <2>7
        <5> QED BY <2>4, <2>5, <3>1, <5>1
      <4> QED BY <2>4, <3>1, <4>1
    <3>2. CASE i # Len(stack')
      <4>1. i \in 1 .. Len(stack) /\ stack'[i] = stack[i]
        BY <1>0, <2>5, <3>2
      <4>2. stack[i].saved \in Nat
        <5>1. stack[i] \in Frames
          BY <1>0, <4>1
        <5> QED BY <5>1, RecAddresses DEF Frames, Frame, CounterStates
      <4>3. stack[i].saved <= calls /\ InTurn(stack[i]) /\ ~AboutToCount(stack[i])
        BY <1>0, <2>6, <4>1 DEF CounterInv
      <4> QED BY <1>0, <2>3, <4>1, <4>2, <4>3
    <3> QED BY <3>1, <3>2
  <2>9. state' <= calls'
    BY <1>0, <2>3, <2>7
  <2> QED BY <2>2, <2>7, <2>8, <2>9 DEF CounterInv
<1>2. ASSUME NEW entrypoint, Rec!Reading(entrypoint)
      PROVE  /\ ~Chain!Idle /\ Rec!Top = Chain!Top /\ Rec!Top.entrypoint = entrypoint
             /\ Rec!Top.left \in Nat /\ Rec!Top.left > 0 /\ Rec!Top.local \in CounterLocals
  BY <1>2, Reader, RecOnChain DEF OnChain, CounterInv
<1>3. ASSUME NEW entrypoint, Rec!Reading(entrypoint)
      PROVE  /\ Chain!Top \in Frames /\ Len(stack) \in 1 .. Len(stack) /\ Chain!Top = stack[Len(stack)]
             /\ InTurn(Chain!Top)
  BY <1>2, <1>3, TopFrame DEF CounterInv, Chain!Top
<1>4. CASE Rec!just_increment
  <2>1. Rec!Reading("just-increment") /\ Rec!Continue(state + 1, 0, Nobody, Rec!Top.left - 1, Rec!Top.local)
    BY <1>4 DEF Rec!just_increment, Rec!Execute
  <2>2. Rec!Top.left = 1 /\ AboutToCount(Chain!Top) /\ Rec!Top.left - 1 = 0
    BY <1>2, <1>3, <2>1 DEF InTurn, AboutToCount
  <2>3. state + 1 <= calls /\ state + 1 \in CounterStates
    BY <1>0, <1>2, <2>1, <2>2 DEF CounterInv, CounterStates
  <2>4. Rec!Top.local \in CounterLocals /\ ~Chain!Idle
    BY <1>2, <2>1
  <2> QED BY <2>1, <2>2, <2>3, <2>4, CounterGoes
<1>5. CASE Rec!increment_and_notify
  <2>1. PICK c \in Contracts :
          Rec!Reading("increment-and-notify") /\ Rec!Top.left = 2
            /\ Rec!Continue(state + 1, 0, c, 1, state + 1)
    BY <1>5 DEF Rec!increment_and_notify
  <2>2. AboutToCount(Chain!Top) /\ ~Chain!Idle
    BY <1>2, <2>1 DEF AboutToCount
  <2>3. state + 1 <= calls /\ state + 1 \in CounterStates /\ state + 1 \in CounterLocals
    BY <1>0, <2>2 DEF CounterInv, CounterStates, CounterLocals
  <2> QED BY <1>2, <2>1, <2>2, <2>3, CounterGoes
<1>6. CASE Rec!Answer
  <2>1. PICK answer \in {0, 1} :
          Rec!Reading("increment-and-notify") /\ Rec!Continue(state, 0, Nobody, 0, answer)
    BY <1>6 DEF Rec!Answer
  <2>2. answer \in CounterLocals /\ state <= calls /\ ~Chain!Idle
    BY <1>0, <1>2, <2>1 DEF CounterInv, CounterLocals
  <2> QED BY <1>0, <2>1, <2>2, CounterGoes
<1>7. CASE Rec!CalleeRejects \/ Rec!Finish
  <2>1. Undone \/ Chain!Finish
    BY <1>7, RecOnChain, RecAddresses
       DEF OnChain, Rec!CalleeRejects, Rec!Waiting, Undone
  <2>2. InStates(Contracts, Rec!CounterEntrypoints, CounterStates, CounterLocals)'
    BY <2>1, MovesKeep DEF Moves, CounterInv, CounterLocals
  <2>3. ~Chain!Idle /\ stack' = Chain!Below /\ calls' = calls /\ state' \in {state, Chain!Top.saved}
    BY <2>1 DEF Undone, Chain!Reject, Chain!Finish, Chain!Running
  <2> QED BY <2>2, <2>3, CounterLeaves
<1>8. CASE Rec!CalleeReturns
  <2> DEFINE frame == [Chain!Top EXCEPT !.callee = Nobody]
  <2>1. Chain!CalleeReturns
    BY <1>8, RecOnChain DEF OnChain
  <2>2. InStates(Contracts, Rec!CounterEntrypoints, CounterStates, CounterLocals)'
    BY <2>1, MovesKeep DEF Moves, CounterInv, CounterLocals
  <2>3. /\ ~Chain!Idle /\ Chain!Top.callee # Nobody
        /\ Chain!Top \in Frames /\ Len(stack) \in 1 .. Len(stack) /\ Chain!Top = stack[Len(stack)]
    BY <2>1, TopFrame DEF Chain!CalleeReturns, Chain!Waiting, Chain!Top, CounterInv
  <2>4. /\ frame \in Frames /\ frame.saved = Chain!Top.saved
        /\ InTurn(frame) <=> InTurn(Chain!Top)
        /\ AboutToCount(frame) <=> AboutToCount(Chain!Top)
    BY <2>3 DEF Frame, InTurn, AboutToCount
  <2>5. stack' = [stack EXCEPT ![Len(stack)] = frame] /\ state' = state /\ calls' = calls
    BY <2>1 DEF Chain!CalleeReturns, Chain!Top
  <2>6. stack # <<>>
    BY <2>3 DEF Chain!Idle
  <2> HIDE DEF frame, Frames
  <2>7. /\ Len(stack') = Len(stack) /\ stack'[Len(stack)] = frame
        /\ \A i \in 1 .. Len(stack) : i # Len(stack) => stack'[i] = stack[i]
    BY <1>0, <2>4, <2>5, <2>6, Changed
  <2>8. Chain!Top' = frame /\ ~AboutToCount(Chain!Top)
    BY <2>3, <2>7 DEF Chain!Top, CounterInv
  <2>9. ASSUME NEW i \in 1 .. Len(stack')
        PROVE  /\ stack'[i].saved <= calls' /\ InTurn(stack'[i])
               /\ i # Len(stack') \/ stack'[i].callee # Nobody => ~AboutToCount(stack'[i])
    BY <2>3, <2>4, <2>5, <2>7, <2>8 DEF CounterInv
  <2> QED BY <2>2, <2>4, <2>5, <2>8, <2>9 DEF CounterInv
<1> QED
  <2>1. 1 \in Nat /\ 2 \in Nat
    OBVIOUS
  <2> QED BY <1>1, <1>4, <1>5, <1>6, <1>7, <1>8, <2>1
          DEF Rec!CounterNext, Rec!Callees, Rec!CounterEntrypoints

\* The counter is well typed, and never ahead of the calls.
LEMMA CounterHolds == ASSUME CounterInv PROVE Rec!CounterTypeOK
<1>1. \A i \in DOMAIN stack :
        stack[i] \in Frame(Contracts, Rec!CounterEntrypoints, CounterStates, CounterLocals)
  BY StackOfMore DEF CounterInv
<1>2. Rec!Frame(Rec!CounterEntrypoints, CounterStates, CounterLocals)
        = Frame(Contracts, Rec!CounterEntrypoints, CounterStates, CounterLocals)
  BY DEF Rec!Frame, Frame, Rec!Addresses, Addresses
<1> QED BY <1>1, <1>2
        DEF CounterInv, InStates, Rec!CounterTypeOK, CounterStates, CounterLocals

-----------------------------------------------------------------------------
(* The auction, payment by payment: a call stands between the stored state   *)
(* it began with and the one it leads to.                                    *)
SaleStates ==
  [ auction_state : Accounts \cup {Nobody}, highest_bid : Nat, bidders : SUBSET Accounts,
    bids : [Accounts -> Nat], paid : [Accounts -> Nat], now : Nat ]

\* The bidders among T whose bids go back.
SaleLosers(s, T) == {a \in T : s.bids[a] < s.highest_bid}

\* The transfers, once the owner and the accounts in L are paid.
SalePaid(s, L) ==
  [a \in Accounts |-> s.paid[a] + ((IF a = Owner THEN s.highest_bid ELSE 0)
                                     + (IF a \in L THEN s.bids[a] ELSE 0))]

\* A bid has arrived, or is stored.
SaleBidding(f) ==
  /\ f.entrypoint = "bid" /\ self_balance >= f.held
  /\ f.by \in Accounts => f.saved.bids[f.by] + (self_balance - f.held) <= MaxBid
  /\ self_balance - f.held <= MaxBid
  /\ \/ f.left = 1 /\ f.local = Nobody /\ state = f.saved
     \/ /\ f.left = 0 /\ f.by \in Accounts
        /\ f.saved.auction_state = Nobody /\ f.saved.now <= Expiry
        /\ LET bid == f.saved.bids[f.by] + (self_balance - f.held)
           IN  /\ bid > f.saved.highest_bid
               /\ state = [ f.saved EXCEPT
                              !.bidders = f.saved.bidders \cup {f.by},
                              !.bids = [f.saved.bids EXCEPT ![f.by] = bid],
                              !.highest_bid = bid ]

\* The owner and the losers among those looked at are paid; the account that
\* remains is the only other one.
SalePaying(f, todo, remaining) ==
  LET s == f.saved
      done == s.bidders \ todo
      losers == SaleLosers(s, done)
  IN  /\ s.auction_state = Nobody /\ s.now > Expiry /\ f.held # 0
      /\ todo \subseteq s.bidders
      /\ f.held = self_balance + (s.highest_bid + SumFunctionOnSet(s.bids, losers))
      /\ state.paid = SalePaid(s, losers)
      /\ \/ remaining = Nobody /\ done = losers
         \/ remaining \in done /\ done \ losers = {remaining}

SaleUntouched(f) == state = f.saved /\ self_balance = f.held
SaleBegun(f) ==
  /\ state = [f.saved EXCEPT !.paid = state.paid]
  /\ \E todo \in SUBSET Accounts, remaining \in Accounts \cup {Nobody} :
       f.local = [todo |-> todo, remaining |-> remaining] /\ SalePaying(f, todo, remaining)
SaleDone(f) ==
  \E winner \in Accounts :
    /\ SalePaying(f, {}, winner) /\ f.saved.bids[winner] = f.saved.highest_bid
    /\ state = [f.saved EXCEPT !.paid = state.paid, !.auction_state = winner]

\* A finalize is called, has nothing to do, is under way or done.
SaleFinalizing(f) ==
  /\ f.entrypoint = "finalize"
  /\ \/ f.left = 1 /\ f.local = Nobody /\ SaleUntouched(f)
     \/ f.left = 0 /\ SaleUntouched(f)
     \/ f.left = 1 /\ SaleBegun(f)
     \/ f.left = 0 /\ SaleDone(f)

SaleLocals == {Nobody} \cup [todo : SUBSET Accounts, remaining : Accounts \cup {Nobody}]
SaleFrames ==
  [ by : Accounts \cup Contracts, entrypoint : {"bid", "finalize"}, callee : {Nobody},
    left : {0, 1}, local : SaleLocals, saved : SaleStates, held : Nat ]

SaleInv ==
  /\ state \in SaleStates /\ self_balance \in Nat
  /\ \/ stack = <<>>
     \/ /\ Len(stack) = 1 /\ stack \in Seq(SaleFrames)
        /\ SaleBidding(stack[1]) \/ SaleFinalizing(stack[1])

\* A step inside a call.
SaleStill ==
  Sale!Stored' = Sale!Stored /\ Sale!StoredBalance' = Sale!StoredBalance

LEMMA SaleConstants ==
  /\ Expiry \in Nat /\ MaxBid \in Nat /\ MaxTime \in Nat /\ IsFiniteSet(Accounts)
  /\ \A todo \in SUBSET Accounts, remaining \in Accounts \cup {Nobody} :
       [todo |-> todo, remaining |-> remaining] # Nobody
  /\ Nobody \notin Accounts \cup Contracts
<1>1. Sale!HostedAuctionAssumption /\ Wccd!WccdAssumption /\ Multi!HostAssumption
  BY Deployable
<1>2. IsFiniteSet(Wccd!Addresses)
  BY <1>1 DEF Wccd!WccdAssumption, Wccd!IsFiniteSet, IsFiniteSet
<1>3. IsFiniteSet(Accounts)
  BY <1>2, FS_Subset DEF Wccd!Addresses
<1> QED BY <1>1, <1>3 DEF Sale!HostedAuctionAssumption, Sale!Progress, Multi!HostAssumption

\* What a state is made of.
LEMMA SaleParts ==
  ASSUME NEW s \in SaleStates
  PROVE  /\ s.auction_state \in Accounts \cup {Nobody} /\ s.highest_bid \in Nat
         /\ s.bidders \subseteq Accounts /\ IsFiniteSet(s.bidders)
         /\ s.bids \in [Accounts -> Nat] /\ s.paid \in [Accounts -> Nat] /\ s.now \in Nat
         /\ s = [ auction_state |-> s.auction_state, highest_bid |-> s.highest_bid,
                  bidders |-> s.bidders, bids |-> s.bids, paid |-> s.paid, now |-> s.now ]
BY SaleConstants, FS_Subset DEF SaleStates

LEMMA SaleStarts ==
  ASSUME Sale!auction_init
  PROVE  SaleInv
BY DEF Sale!auction_init, Sale!HostInit, SaleInv, SaleStates

\* The bids of some bidders are a natural number.
LEMMA SaleSums ==
  ASSUME NEW s \in SaleStates, NEW T \in SUBSET s.bidders
  PROVE  /\ IsFiniteSet(SaleLosers(s, T)) /\ SaleLosers(s, T) \subseteq T
         /\ SumFunctionOnSet(s.bids, SaleLosers(s, T)) \in Nat
         /\ SalePaid(s, SaleLosers(s, T)) \in [Accounts -> Nat]
<1> DEFINE L == SaleLosers(s, T)
<1>1. IsFiniteSet(L) /\ L \subseteq T /\ \A a \in L : s.bids[a] \in Nat
  BY SaleParts, FS_Subset DEF SaleLosers
<1> HIDE DEF L
<1>2. SumFunctionOnSet(s.bids, L) \in Nat
  BY <1>1, SumPart
<1>3. SalePaid(s, L) \in [Accounts -> Nat]
  BY SaleParts DEF SalePaid
<1> QED BY <1>1, <1>2, <1>3 DEF L

\* The one call.
LEMMA SaleTop ==
  ASSUME SaleInv, ~Sale!Idle
  PROVE  /\ Len(stack) = 1 /\ stack \in Seq(SaleFrames) /\ stack[1] \in SaleFrames
         /\ Sale!Top = stack[1] /\ Sale!Below = <<>>
         /\ Sale!Stored = stack[1].saved /\ Sale!StoredBalance = stack[1].held
         /\ stack[1].callee = Nobody /\ stack[1].saved \in SaleStates /\ stack[1].held \in Nat
         /\ SaleBidding(stack[1]) \/ SaleFinalizing(stack[1])
<1>1. /\ Len(stack) = 1 /\ stack \in Seq(SaleFrames)
      /\ SaleBidding(stack[1]) \/ SaleFinalizing(stack[1])
  BY DEF SaleInv, Sale!Idle
<1>2. stack[1] \in SaleFrames
  BY <1>1
<1>3. Sale!Top = stack[1] /\ Sale!Below = <<>>
  BY <1>1 DEF Sale!Top, Sale!Below
<1> QED BY <1>1, <1>2, <1>3 DEF SaleFrames, Sale!Stored, Sale!StoredBalance

\* The call goes on.
LEMMA SaleGoesOn ==
  ASSUME SaleInv, ~Sale!Idle, NEW new \in SaleStates, NEW amount \in Nat,
         NEW left \in {0, 1}, NEW local \in SaleLocals,
         Sale!Continue(new, amount, Nobody, left, local)
  PROVE  /\ Len(stack') = 1 /\ stack' \in Seq(SaleFrames)
         /\ stack'[1].by = stack[1].by /\ stack'[1].entrypoint = stack[1].entrypoint
         /\ stack'[1].saved = stack[1].saved /\ stack'[1].held = stack[1].held
         /\ stack'[1].left = left /\ stack'[1].local = local
         /\ state' = new /\ amount <= self_balance
         /\ self_balance' = self_balance - amount /\ self_balance' \in Nat
         /\ SaleStill
<1> DEFINE f == stack[1]
           g == [f EXCEPT !.callee = Nobody, !.left = left, !.local = local]
<1>1. /\ Len(stack) = 1 /\ f \in SaleFrames /\ stack \in Seq(SaleFrames)
      /\ Sale!Stored = f.saved /\ Sale!StoredBalance = f.held
  BY SaleTop
<1>2. stack' = [stack EXCEPT ![1] = g]
  BY <1>1 DEF Sale!Continue
<1>3. /\ g \in SaleFrames /\ g.by = f.by /\ g.entrypoint = f.entrypoint /\ g.saved = f.saved
      /\ g.held = f.held /\ g.left = left /\ g.local = local
  BY <1>1 DEF SaleFrames
<1>4. self_balance \in Nat
  BY DEF SaleInv
<1>5. /\ state' = new /\ amount <= self_balance /\ self_balance' = self_balance - amount
      /\ self_balance' \in Nat
  BY <1>4 DEF Sale!Continue
<1> HIDE DEF f, g
<1>6. Len(stack') = 1 /\ stack' \in Seq(SaleFrames) /\ stack'[1] = g
  <2>1. stack # <<>>
    BY DEF Sale!Idle
  <2>2. stack' = [stack EXCEPT ![Len(stack)] = g]
    BY <1>1, <1>2
  <2> QED BY <1>1, <1>3, <2>1, <2>2, Changed
<1>7. SaleStill
  <2>1. stack' # <<>>
    BY <1>6
  <2> QED BY <1>1, <1>3, <1>6, <2>1 DEF SaleStill, Sale!Stored, Sale!StoredBalance, Sale!Idle
<1> QED BY <1>3, <1>5, <1>6, <1>7 DEF f

\* The call is rejected.
LEMMA SaleRejects ==
  ASSUME SaleInv, ~Sale!Idle, NEW error, Sale!Reject(error)
  PROVE  SaleInv' /\ SaleStill
<1>1. stack' = <<>> /\ state' = stack[1].saved /\ self_balance' = stack[1].held
  BY SaleTop DEF Sale!Reject
<1> QED BY <1>1, SaleTop DEF SaleInv, SaleStill, Sale!Stored, Sale!StoredBalance, Sale!Idle

\* Somebody calls.
LEMMA SaleEnters ==
  ASSUME SaleInv, Sale!Enters
  PROVE  SaleInv' /\ SaleStill
<1>1. PICK a \in Accounts \cup Contracts, entrypoint \in {"bid", "finalize"}, amount \in Nat :
        /\ Sale!Enter(a, entrypoint, amount, 1)
        /\ amount <= MaxBid
        /\ entrypoint = "bid" /\ a \in Accounts => state.bids[a] + amount <= MaxBid
        /\ entrypoint = "finalize" => amount = 0
  BY SaleConstants DEF Sale!Enters
<1>2. ~Sale!Waiting
  <2> SUFFICES ASSUME ~Sale!Idle PROVE Sale!Top.callee = Nobody
    BY DEF Sale!Waiting
  <2> QED BY SaleTop
<1>3. Sale!Idle /\ stack = <<>>
  BY <1>1, <1>2 DEF Sale!Enter, Sale!CanCall, Sale!Idle
<1> DEFINE f == [ by |-> a, entrypoint |-> entrypoint, callee |-> Nobody, left |-> 1,
                  local |-> Nobody, saved |-> state, held |-> self_balance ]
<1>4. stack' = Append(stack, f) /\ state' = state /\ self_balance' = self_balance + amount
  BY <1>1 DEF Sale!Enter
<1>5. state \in SaleStates /\ self_balance \in Nat
  BY DEF SaleInv
<1>6. f \in SaleFrames
  BY <1>5 DEF SaleFrames, SaleLocals
<1>7. /\ f.by = a /\ f.entrypoint = entrypoint /\ f.left = 1 /\ f.local = Nobody
      /\ f.saved = state /\ f.held = self_balance
  OBVIOUS
<1> HIDE DEF f
<1>8. stack' = <<f>> /\ Len(stack') = 1 /\ stack' \in Seq(SaleFrames) /\ stack'[1] = f /\ stack' # <<>>
  BY <1>3, <1>4, <1>6
<1>9. SaleStill
  BY <1>3, <1>7, <1>8 DEF SaleStill, Sale!Stored, Sale!StoredBalance, Sale!Idle
<1>10. self_balance' \in Nat /\ self_balance' - self_balance = amount /\ self_balance' >= self_balance
  BY <1>4, <1>5
<1>11. CASE entrypoint = "bid"
  <2>1. SaleBidding(stack[1])'
    BY <1>1, <1>4, <1>7, <1>8, <1>10, <1>11 DEF SaleBidding
  <2> QED BY <1>4, <1>5, <1>8, <1>9, <1>10, <2>1 DEF SaleInv
<1>12. CASE entrypoint = "finalize"
  <2>1. self_balance' = self_balance
    BY <1>1, <1>4, <1>5, <1>12
  <2>2. SaleFinalizing(stack[1])'
    BY <1>4, <1>7, <1>8, <1>12, <2>1 DEF SaleFinalizing, SaleUntouched
  <2> QED BY <1>4, <1>5, <1>8, <1>9, <1>10, <2>2 DEF SaleInv
<1> QED BY <1>11, <1>12

\* A bid is stored or turned down.
LEMMA SaleBids ==
  ASSUME SaleInv, Sale!auction_bid
  PROVE  SaleInv' /\ SaleStill
<1> DEFINE f == stack[1]
           a == f.by
           bid == f.saved.bids[a] + (self_balance - f.held)
           new == [f.saved EXCEPT !.bidders = f.saved.bidders \cup {a},
                                  !.bids = [f.saved.bids EXCEPT ![a] = bid],
                                  !.highest_bid = bid]
<1>1. ~Sale!Idle /\ Sale!Top = f /\ f.entrypoint = "bid" /\ f.left > 0
  BY SaleTop DEF Sale!auction_bid, Sale!Reading, Sale!Running
<1>2. /\ f \in SaleFrames /\ f.left = 1 /\ f.local = Nobody /\ state = f.saved
      /\ self_balance >= f.held
      /\ f.by \in Accounts => bid <= MaxBid
      /\ self_balance - f.held <= MaxBid
  BY <1>1, SaleTop DEF SaleBidding, SaleFinalizing
<1>3. f.saved \in SaleStates /\ f.held \in Nat /\ self_balance \in Nat
  BY SaleTop, <1>1 DEF SaleInv
<1>4. CASE \E error : Sale!Reject(error)
  BY <1>1, <1>4, SaleRejects
<1>5. CASE /\ a \in Accounts /\ f.saved.auction_state = Nobody /\ f.saved.now <= Expiry
           /\ bid > f.saved.highest_bid
           /\ Sale!Continue(new, 0, Nobody, 0, Nobody)
  <2>1. bid \in Nat
    BY <1>2, <1>3, <1>5, SaleParts
  <2>2. new \in SaleStates
    BY <1>3, <1>5, <2>1, SaleParts DEF SaleStates
  <2>3. Nobody \in SaleLocals
    BY DEF SaleLocals
  <2> DEFINE g == stack'[1]
  <2>4. /\ Len(stack') = 1 /\ stack' \in Seq(SaleFrames)
        /\ g.by = f.by /\ g.entrypoint = f.entrypoint /\ g.saved = f.saved /\ g.held = f.held
        /\ g.left = 0 /\ g.local = Nobody /\ state' = new
        /\ self_balance' = self_balance - 0 /\ self_balance' \in Nat /\ SaleStill
    <3> HIDE DEF new, bid
    <3> QED BY <1>1, <1>5, <2>2, <2>3, SaleGoesOn
  <2>5. self_balance' = self_balance
    BY <1>3, <2>4
  <2>6. SaleBidding(stack[1])'
    BY <1>1, <1>2, <1>5, <2>4, <2>5 DEF SaleBidding
  <2> QED BY <2>2, <2>4, <2>6 DEF SaleInv
<1>6. Sale!Received = self_balance - f.held
  BY <1>1 DEF Sale!Received
<1> DEFINE b == Sale!Received + IF a \in Accounts THEN state.bids[a] ELSE 0
<1>7. \/ \E error : Sale!Reject(error)
      \/ /\ Sale!BidError(b) = "none"
         /\ Sale!Execute([state EXCEPT !.bidders = @ \cup {a}, !.bids[a] = b, !.highest_bid = b])
  BY <1>1 DEF Sale!auction_bid
<1>8. ASSUME Sale!BidError(b) = "none",
             Sale!Execute([state EXCEPT !.bidders = @ \cup {a}, !.bids[a] = b, !.highest_bid = b])
      PROVE  /\ a \in Accounts /\ f.saved.auction_state = Nobody /\ f.saved.now <= Expiry
             /\ bid > f.saved.highest_bid
             /\ Sale!Continue(new, 0, Nobody, 0, Nobody)
  <2>1. /\ f.saved.auction_state = Nobody /\ ~(f.saved.now > Expiry) /\ a \in Accounts
        /\ ~(b <= f.saved.highest_bid)
    BY <1>1, <1>2, <1>8 DEF Sale!BidError, Sale!NotSoldYet
  <2>2. b = bid /\ bid \in Nat
    <3>1. f.saved.bids[a] \in Nat
      BY <1>3, <2>1, SaleParts
    <3> QED BY <1>2, <1>3, <1>6, <2>1, <3>1
  <2>3. [state EXCEPT !.bidders = @ \cup {a}, !.bids[a] = b, !.highest_bid = b] = new
    BY <1>2, <1>3, <2>2 DEF SaleStates
  <2>4. Sale!Top.left - 1 = 0 /\ Sale!Top.local = Nobody
    BY <1>1, <1>2
  <2>5. Sale!Continue(new, 0, Nobody, 0, Nobody)
    BY <1>8, <2>3, <2>4 DEF Sale!Execute
  <2>6. f.saved.highest_bid \in Nat /\ f.saved.now \in Nat
    BY <1>3, SaleParts
  <2> QED BY <2>1, <2>2, <2>5, <2>6, SaleConstants
<1> QED BY <1>4, <1>5, <1>7, <1>8

\* The transfers one by one.
LEMMA SaleOwnerPaid ==
  ASSUME NEW s \in SaleStates
  PROVE  [s.paid EXCEPT ![Owner] = @ + s.highest_bid] = SalePaid(s, {})
BY SaleParts, Deployable DEF Multi!HostAssumption, SalePaid

LEMMA SaleLoserPaid ==
  ASSUME NEW s \in SaleStates, NEW L \in SUBSET Accounts, NEW a \in Accounts \ L
  PROVE  [SalePaid(s, L) EXCEPT ![a] = @ + s.bids[a]] = SalePaid(s, L \cup {a})
<1> DEFINE p == SalePaid(s, L)
           q == SalePaid(s, L \cup {a})
<1>1. /\ s.paid \in [Accounts -> Nat] /\ s.bids \in [Accounts -> Nat] /\ s.highest_bid \in Nat
      /\ Owner \in Accounts
  BY SaleParts, Deployable DEF Multi!HostAssumption
<1>2. p \in [Accounts -> Nat] /\ q \in [Accounts -> Nat]
  BY <1>1 DEF SalePaid
<1>3. \A c \in Accounts : c # a => p[c] = q[c]
  BY DEF SalePaid
<1>4. q[a] = p[a] + s.bids[a]
  BY <1>1 DEF SalePaid
<1> HIDE DEF p, q
<1>5. [p EXCEPT ![a] = @ + s.bids[a]] = q
  BY <1>2, <1>3, <1>4
<1> QED BY <1>5 DEF p, q

\* A finalize begins: the owner is paid.
LEMMA SaleFinalizes ==
  ASSUME SaleInv, Sale!auction_finalize
  PROVE  SaleInv' /\ SaleStill
<1> DEFINE f == stack[1]
           s == f.saved
           paid == SalePaid(s, {})
           new == [s EXCEPT !.paid = paid]
           local == [todo |-> s.bidders, remaining |-> Nobody]
<1>1. ~Sale!Idle /\ Sale!Top = f /\ f.entrypoint = "finalize" /\ f.left > 0 /\ f.local = Nobody
  BY SaleTop DEF Sale!auction_finalize, Sale!Reading, Sale!Running
<1>2. f \in SaleFrames /\ f.left = 1 /\ state = s /\ self_balance = f.held
  <2>1. f \in SaleFrames /\ SaleFinalizing(f)
    BY <1>1, SaleTop DEF SaleBidding
  <2>2. ~SaleBegun(f)
    BY <1>1, SaleConstants DEF SaleBegun
  <2> HIDE DEF f
  <2> QED BY <1>1, <2>1, <2>2 DEF SaleFinalizing, SaleUntouched
<1>3. s \in SaleStates /\ f.held \in Nat /\ self_balance \in Nat
  BY SaleTop, <1>1 DEF SaleInv
<1>4. CASE \E error : Sale!Reject(error)
  BY <1>1, <1>4, SaleRejects
<1>5. CASE Sale!Execute(state)
  <2>1. Nobody \in SaleLocals /\ Sale!Top.left - 1 = 0
    BY <1>1, <1>2 DEF SaleLocals
  <2>2. Sale!Continue(s, 0, Nobody, 0, Nobody)
    BY <1>1, <1>2, <1>5, <2>1 DEF Sale!Execute
  <2>3. /\ Len(stack') = 1 /\ stack' \in Seq(SaleFrames)
        /\ stack'[1].entrypoint = f.entrypoint /\ stack'[1].saved = s /\ stack'[1].held = f.held
        /\ stack'[1].left = 0 /\ state' = s
        /\ self_balance' = self_balance - 0 /\ self_balance' \in Nat /\ SaleStill
    BY <1>1, <1>3, <2>1, <2>2, SaleGoesOn
  <2>4. self_balance' = self_balance
    BY <1>3, <2>3
  <2>5. SaleFinalizing(stack[1])'
    BY <1>1, <1>2, <2>3, <2>4 DEF SaleFinalizing, SaleUntouched
  <2> QED BY <1>3, <2>3, <2>5 DEF SaleInv
<1>6. CASE /\ s.auction_state = Nobody /\ s.now > Expiry /\ self_balance # 0
           /\ Sale!Continue(new, s.highest_bid, Nobody, 1, local)
  <2>1. SaleLosers(s, {}) = {} /\ s.bidders \ s.bidders = {} /\ SumFunctionOnSet(s.bids, {}) = 0
    BY SumEmpty DEF SaleLosers
  <2>2. paid \in [Accounts -> Nat]
    BY <1>3, <2>1, SaleSums
  <2>3. new \in SaleStates /\ new.paid = paid /\ s.highest_bid \in Nat
    BY <1>3, <2>2 DEF SaleStates
  <2>4. local \in SaleLocals /\ s.bidders \in SUBSET Accounts
    BY <1>3 DEF SaleLocals, SaleStates
  <2> DEFINE g == stack'[1]
  <2>5. /\ Len(stack') = 1 /\ stack' \in Seq(SaleFrames)
        /\ g.entrypoint = f.entrypoint /\ g.saved = s /\ g.held = f.held
        /\ g.left = 1 /\ g.local = local /\ state' = new
        /\ self_balance' = self_balance - s.highest_bid /\ self_balance' \in Nat /\ SaleStill
    <3> HIDE DEF new, local
    <3> QED BY <1>1, <1>6, <2>3, <2>4, SaleGoesOn
  <2>6. f.held = self_balance' + (s.highest_bid + 0)
    BY <1>2, <1>3, <2>3, <2>5
  <2>7. SalePaying(stack[1], s.bidders, Nobody)'
    BY <1>2, <1>6, <2>1, <2>3, <2>5, <2>6 DEF SalePaying
  <2>8. SaleFinalizing(stack[1])'
    BY <1>1, <2>3, <2>4, <2>5, <2>7 DEF SaleFinalizing, SaleBegun
  <2> QED BY <2>3, <2>5, <2>8 DEF SaleInv
<1>7. \/ \E error : Sale!Reject(error)
      \/ Sale!Execute(state)
      \/ /\ Sale!FinalizeError = "none" /\ self_balance # 0
         /\ Sale!Continue(Sale!pay(Owner, state.highest_bid), state.highest_bid, Nobody, 1,
                          Sale!Progress(state.bidders, Nobody))
  BY DEF Sale!auction_finalize
<1>8. Sale!FinalizeError = "none" => s.auction_state = Nobody /\ s.now > Expiry
  <2>1. Sale!FinalizeError = "none" => s.auction_state = Nobody /\ ~(s.now <= Expiry)
    BY <1>2 DEF Sale!FinalizeError, Sale!NotSoldYet
  <2> QED BY <2>1, <1>3, SaleParts, SaleConstants
<1>9. Sale!pay(Owner, state.highest_bid) = new
  <2>1. Sale!pay(Owner, state.highest_bid) = [s EXCEPT !.paid = [s.paid EXCEPT ![Owner] = @ + s.highest_bid]]
    BY <1>2, <1>3 DEF Sale!pay, SaleStates
  <2> QED BY <1>3, <2>1, SaleOwnerPaid
<1>10. Sale!Progress(state.bidders, Nobody) = local /\ state.highest_bid = s.highest_bid
  BY <1>2 DEF Sale!Progress
<1> QED BY <1>4, <1>5, <1>6, <1>7, <1>8, <1>9, <1>10

\* A finalize that has begun.
LEMMA SaleOpen ==
  ASSUME SaleInv, Sale!Finalizing
  PROVE  /\ ~Sale!Idle /\ Sale!Top = stack[1] /\ stack[1].entrypoint = "finalize"
         /\ stack[1].left = 1 /\ stack[1].saved \in SaleStates /\ stack[1].held \in Nat
         /\ self_balance \in Nat /\ state \in SaleStates
         /\ state = [stack[1].saved EXCEPT !.paid = state.paid]
         /\ \E todo \in SUBSET Accounts, remaining \in Accounts \cup {Nobody} :
              /\ stack[1].local = [todo |-> todo, remaining |-> remaining]
              /\ SalePaying(stack[1], todo, remaining)
<1> DEFINE f == stack[1]
<1>1. ~Sale!Idle /\ Sale!Top = f /\ f.entrypoint = "finalize" /\ f.left > 0 /\ f.local # Nobody
  BY SaleTop DEF Sale!Finalizing, Sale!Reading, Sale!Running
<1>2. SaleFinalizing(f) /\ f.saved \in SaleStates /\ f.held \in Nat
  BY <1>1, SaleTop DEF SaleBidding
<1> HIDE DEF f
<1>3. f.left = 1 /\ SaleBegun(f)
  BY <1>1, <1>2 DEF SaleFinalizing
<1> QED BY <1>1, <1>2, <1>3 DEF f, SaleInv, SaleBegun

\* A bid goes back, or its bidder remains.
LEMMA SaleReturns ==
  ASSUME SaleInv, Sale!ReturnBid
  PROVE  SaleInv' /\ SaleStill
<1>0. PICK f : f = stack[1]
  OBVIOUS
<1> DEFINE s == f.saved
<1>1. /\ ~Sale!Idle /\ Sale!Top = f /\ f.entrypoint = "finalize" /\ f.left = 1
      /\ s \in SaleStates /\ f.held \in Nat /\ self_balance \in Nat /\ state \in SaleStates
      /\ state = [s EXCEPT !.paid = state.paid]
  BY <1>0, SaleOpen DEF Sale!ReturnBid
<1>2. PICK todo \in SUBSET Accounts, remaining \in Accounts \cup {Nobody} :
        /\ f.local = [todo |-> todo, remaining |-> remaining]
        /\ SalePaying(f, todo, remaining)
  BY <1>0, SaleOpen DEF Sale!ReturnBid
<1> DEFINE done == s.bidders \ todo
           losers == SaleLosers(s, done)
           sum == SumFunctionOnSet(s.bids, losers)
<1>3. /\ s.auction_state = Nobody /\ s.now > Expiry /\ f.held # 0 /\ todo \subseteq s.bidders
      /\ f.held = self_balance + (s.highest_bid + sum) /\ state.paid = SalePaid(s, losers)
      /\ \/ remaining = Nobody /\ done = losers
         \/ remaining \in done /\ done \ losers = {remaining}
  BY <1>2 DEF SalePaying
<1>4. state.bids = s.bids /\ state.highest_bid = s.highest_bid
  BY <1>1 DEF SaleStates
<1>5. PICK a \in todo :
        \/ \E error : Sale!Reject(error)
        \/ /\ s.bids[a] < s.highest_bid /\ s.bids[a] <= self_balance
           /\ Sale!Continue(Sale!pay(a, s.bids[a]), s.bids[a], Nobody, 1,
                            [todo |-> todo \ {a}, remaining |-> remaining])
        \/ /\ ~(s.bids[a] < s.highest_bid) /\ remaining = Nobody
           /\ Sale!Continue(state, 0, Nobody, 1, [todo |-> todo \ {a}, remaining |-> a])
  <2>1. f.local.todo = todo /\ f.local.remaining = remaining
    BY <1>2
  <2>2. PICK a \in todo :
          IF state.bids[a] < state.highest_bid
          THEN IF state.bids[a] > self_balance THEN Sale!Reject("BidMapError")
               ELSE Sale!Continue(Sale!pay(a, state.bids[a]), state.bids[a], Nobody, 1,
                                  Sale!Progress(todo \ {a}, remaining))
          ELSE IF remaining # Nobody THEN Sale!Reject("BidMapError")
               ELSE Sale!Continue(state, 0, Nobody, 1, Sale!Progress(todo \ {a}, a))
    BY <1>1, <2>1 DEF Sale!ReturnBid
  <2>3. s.bids[a] \in Nat
    BY <1>1, SaleParts
  <2>4. ~(s.bids[a] > self_balance) => s.bids[a] <= self_balance
    BY <1>1, <2>3
  <2> HIDE DEF s
  <2> QED BY <1>4, <2>2, <2>4 DEF Sale!Progress
<1>6. a \in s.bidders /\ a \in Accounts /\ a \notin done /\ s.bids[a] \in Nat /\ sum \in Nat
      /\ s.highest_bid \in Nat /\ done \subseteq Accounts /\ done \in SUBSET s.bidders
      /\ IsFiniteSet(losers) /\ losers \subseteq done
  BY <1>1, <1>3, SaleParts, SaleSums
<1>7. s.bidders \ (todo \ {a}) = done \cup {a} /\ todo \ {a} \in SUBSET Accounts
      /\ todo \ {a} \subseteq s.bidders
  BY <1>3, <1>6
<1> DEFINE more == SaleLosers(s, done \cup {a})
<1>8. CASE \E error : Sale!Reject(error)
  BY <1>1, <1>8, SaleRejects
<1>9. ASSUME NEW new \in SaleStates, NEW amount \in Nat, NEW remains \in Accounts \cup {Nobody},
             Sale!Continue(new, amount, Nobody, 1, [todo |-> todo \ {a}, remaining |-> remains]),
             new = [s EXCEPT !.paid = new.paid], new.paid = SalePaid(s, more),
             SumFunctionOnSet(s.bids, more) = sum + amount,
             \/ remains = Nobody /\ done \cup {a} = more
             \/ remains \in done \cup {a} /\ (done \cup {a}) \ more = {remains}
      PROVE  SaleInv' /\ SaleStill
  <2> DEFINE local == [todo |-> todo \ {a}, remaining |-> remains]
             g == stack'[1]
  <2>1. local \in SaleLocals
    BY <1>7 DEF SaleLocals
  <2>2. /\ Len(stack') = 1 /\ stack' \in Seq(SaleFrames)
        /\ g.entrypoint = f.entrypoint /\ g.saved = s /\ g.held = f.held
        /\ g.left = 1 /\ g.local = local /\ state' = new
        /\ self_balance' = self_balance - amount /\ self_balance' \in Nat /\ SaleStill
    <3> HIDE DEF local
    <3>1. Sale!Continue(new, amount, Nobody, 1, local)
      BY <1>9 DEF local
    <3> QED BY <1>0, <1>1, <1>9, <2>1, <3>1, SaleGoesOn
  <2>3. f.held = self_balance' + (s.highest_bid + (sum + amount))
    <3> HIDE DEF s, sum
    <3> QED BY <1>1, <1>3, <1>6, <1>9, <2>2
  <2>4. SalePaying(stack[1], todo \ {a}, remains)'
    <3>1. s.bidders \ (todo \ {a}) = done \cup {a}
      BY <1>7
    <3> HIDE DEF s, sum, done
    <3> QED BY <1>3, <1>7, <1>9, <2>2, <2>3, <3>1 DEF SalePaying
  <2>5. SaleFinalizing(stack[1])'
    BY <1>1, <1>7, <1>9, <2>2, <2>4 DEF SaleFinalizing, SaleBegun
  <2> QED BY <1>9, <2>2, <2>5 DEF SaleInv
<1>10. CASE /\ s.bids[a] < s.highest_bid /\ s.bids[a] <= self_balance
            /\ Sale!Continue(Sale!pay(a, s.bids[a]), s.bids[a], Nobody, 1,
                             [todo |-> todo \ {a}, remaining |-> remaining])
  <2> DEFINE new == Sale!pay(a, s.bids[a])
  <2>1. more = losers \cup {a} /\ a \notin losers
    BY <1>6, <1>10 DEF SaleLosers
  <2>2. SumFunctionOnSet(s.bids, more) = sum + s.bids[a]
    <3> HIDE DEF losers, more, s, done
    <3>1. \A y \in losers \cup {a} : s.bids[y] \in Int
      BY <1>1, <1>6, SaleParts
    <3> QED BY <1>6, <2>1, <3>1, SumInsert
  <2>3. new = [s EXCEPT !.paid = SalePaid(s, more)]
    <3>1. new = [s EXCEPT !.paid = [SalePaid(s, losers) EXCEPT ![a] = @ + s.bids[a]]]
      BY <1>1, <1>3 DEF Sale!pay, SaleStates
    <3>2. losers \in SUBSET Accounts /\ a \in Accounts \ losers
      BY <1>6, <2>1
    <3>3. [SalePaid(s, losers) EXCEPT ![a] = @ + s.bids[a]] = SalePaid(s, more)
      <4> HIDE DEF losers, more, s
      <4> QED BY <1>1, <2>1, <3>2, SaleLoserPaid
    <3> QED BY <3>1, <3>3
  <2>4. SalePaid(s, more) \in [Accounts -> Nat]
    BY <1>1, <1>6, SaleSums
  <2>5. new \in SaleStates /\ new.paid = SalePaid(s, more)
    <3> DEFINE p == SalePaid(s, more)
    <3> HIDE DEF p, new
    <3>1. new = [s EXCEPT !.paid = p] /\ p \in [Accounts -> Nat]
      BY <2>3, <2>4 DEF p
    <3> QED BY <1>1, <3>1 DEF SaleStates, p
  <2>6. \/ remaining = Nobody /\ done \cup {a} = more
        \/ remaining \in done \cup {a} /\ (done \cup {a}) \ more = {remaining}
    BY <1>3, <1>6, <2>1
  <2> HIDE DEF new, more, sum, done, losers, s
  <2> QED BY <1>6, <1>9, <1>10, <2>2, <2>3, <2>5, <2>6 DEF new
<1>11. CASE /\ ~(s.bids[a] < s.highest_bid) /\ remaining = Nobody
            /\ Sale!Continue(state, 0, Nobody, 1, [todo |-> todo \ {a}, remaining |-> a])
  <2>1. more = losers /\ remaining \notin Accounts
    BY <1>6, <1>11, SaleConstants DEF SaleLosers
  <2>2. done = losers
    BY <1>3, <1>6, <2>1
  <2>3. a \in done \cup {a} /\ (done \cup {a}) \ more = {a}
    BY <1>6, <2>1, <2>2
  <2>4. SumFunctionOnSet(s.bids, more) = sum + 0
    BY <1>6, <2>1
  <2> HIDE DEF more, sum, done, losers, s
  <2> QED BY <1>1, <1>3, <1>6, <1>9, <1>11, <2>1, <2>3, <2>4
<1> HIDE DEF s
<1> QED BY <1>5, <1>8, <1>10, <1>11

\* The item is sold to the account that remains.
LEMMA SaleSells ==
  ASSUME SaleInv, Sale!Sell
  PROVE  SaleInv' /\ SaleStill
<1> DEFINE f == stack[1]
           s == f.saved
<1>1. /\ ~Sale!Idle /\ Sale!Top = f /\ f.entrypoint = "finalize" /\ f.left = 1
      /\ s \in SaleStates /\ f.held \in Nat /\ self_balance \in Nat /\ state \in SaleStates
      /\ state = [s EXCEPT !.paid = state.paid]
  BY SaleOpen DEF Sale!Sell
<1>2. PICK todo \in SUBSET Accounts, remaining \in Accounts \cup {Nobody} :
        /\ f.local = [todo |-> todo, remaining |-> remaining]
        /\ SalePaying(f, todo, remaining)
  BY SaleOpen DEF Sale!Sell
<1>3. todo = {} /\ f.local.remaining = remaining /\ f.local \in SaleLocals
  <2>1. f.local.todo = todo /\ f.local.remaining = remaining
    BY <1>2
  <2> QED BY <1>1, <1>2, <2>1 DEF Sale!Sell, SaleLocals
<1>4. state.bids = s.bids /\ state.highest_bid = s.highest_bid
  BY <1>1 DEF SaleStates
<1> DEFINE new == [state EXCEPT !.auction_state = remaining]
<1>5. \/ \E error : Sale!Reject(error)
      \/ /\ remaining # Nobody /\ s.bids[remaining] = s.highest_bid
         /\ Sale!Continue(new, 0, Nobody, 0, f.local)
  <2>1. Sale!Top.left - 1 = 0
    BY <1>1
  <2> QED BY <1>1, <1>3, <1>4, <2>1 DEF Sale!Sell, Sale!Execute
<1>6. CASE \E error : Sale!Reject(error)
  BY <1>1, <1>6, SaleRejects
<1>7. CASE /\ remaining # Nobody /\ s.bids[remaining] = s.highest_bid
           /\ Sale!Continue(new, 0, Nobody, 0, f.local)
  <2>1. new \in SaleStates /\ new.paid = state.paid
        /\ new = [s EXCEPT !.paid = new.paid, !.auction_state = remaining]
    BY <1>1 DEF SaleStates
  <2> DEFINE g == stack'[1]
  <2>2. /\ Len(stack') = 1 /\ stack' \in Seq(SaleFrames)
        /\ g.entrypoint = f.entrypoint /\ g.saved = s /\ g.held = f.held
        /\ g.left = 0 /\ state' = new
        /\ self_balance' = self_balance - 0 /\ self_balance' \in Nat /\ SaleStill
    <3> HIDE DEF new
    <3> QED BY <1>1, <1>3, <1>7, <2>1, SaleGoesOn
  <2>3. self_balance' = self_balance
    BY <1>1, <2>2
  <2>4. SalePaying(stack[1], {}, remaining)'
    <3>1. SalePaying(f, {}, remaining) /\ state'.paid = state.paid
      BY <1>2, <1>3, <2>1, <2>2
    <3> HIDE DEF new
    <3> QED BY <2>2, <2>3, <3>1 DEF SalePaying, SaleLosers
  <2>5. SaleFinalizing(stack[1])'
    <3>1. remaining \in Accounts
      BY <1>7
    <3> HIDE DEF new
    <3> QED BY <1>1, <1>7, <2>1, <2>2, <2>4, <3>1 DEF SaleFinalizing, SaleDone
  <2> QED BY <2>1, <2>2, <2>5 DEF SaleInv
<1> QED BY <1>5, <1>6, <1>7

\* Auction's sums are the sums of SumProofs.
LEMMA SaleFolds ==
  ASSUME NEW f
  PROVE  Sold!SumFunction(f) = SumFunctionOnSet(f, DOMAIN f)
BY DEF SumFunctionOnSet, FoldFunctionOnSet, MapThenFoldSet, Sold!SumFunction,
       Sold!SumFunctionOnSet, Sold!FoldFunctionOnSet, Sold!MapThenFoldSet

\* What Auction sees.
SaleShows(s, h) == deployed = "auction" /\ Sale!Stored = s /\ Sale!StoredBalance = h

LEMMA SaleSees ==
  ASSUME NEW s, NEW h, SaleShows(s, h)
  PROVE  /\ Stored.auction_state = s.auction_state /\ Stored.highest_bid = s.highest_bid
         /\ Stored.bidders = s.bidders /\ Stored.bids = s.bids /\ Stored.paid = s.paid
         /\ Stored.now = s.now
         /\ (IF deployed = "auction" THEN Sale!StoredBalance ELSE 0) = h
BY DEF SaleShows, Stored

LEMMA SaleSeesNext ==
  ASSUME NEW t, NEW b, SaleShows(t, b)'
  PROVE  /\ Stored'.auction_state = t.auction_state /\ Stored'.highest_bid = t.highest_bid
         /\ Stored'.bidders = t.bidders /\ Stored'.bids = t.bids /\ Stored'.paid = t.paid
         /\ Stored'.now = t.now
         /\ (IF deployed = "auction" THEN Sale!StoredBalance ELSE 0)' = b
BY DEF SaleShows, Stored

\* A bid is one.
LEMMA SaleBidShows ==
  ASSUME NEW s \in SaleStates, NEW h \in Nat, SaleShows(s, h),
         NEW t \in SaleStates, NEW b \in Nat, SaleShows(t, b)',
         NEW a \in Accounts, b >= h, b - h <= MaxBid,
         s.auction_state = Nobody, s.now <= Expiry,
         s.bids[a] + (b - h) <= MaxBid, s.bids[a] + (b - h) > s.highest_bid,
         t = [s EXCEPT !.bidders = s.bidders \cup {a},
                       !.bids = [s.bids EXCEPT ![a] = s.bids[a] + (b - h)],
                       !.highest_bid = s.bids[a] + (b - h)]
  PROVE  Sold!Next
<1> DEFINE bid == s.bids[a] + (b - h)
<1>1. /\ t.bidders = s.bidders \cup {a} /\ t.bids = [s.bids EXCEPT ![a] = bid]
      /\ t.highest_bid = bid
      /\ t.auction_state = s.auction_state /\ t.paid = s.paid /\ t.now = s.now
  BY DEF SaleStates
<1>2. b - h \in 0 .. MaxBid /\ b = h + (b - h)
  BY SaleConstants
<1>3. Sold!auction_bid(a, b - h)
  <2>1. Sold!NewBid(a, b - h) = bid
    BY SaleSees DEF Sold!NewBid
  <2>2. Sold!Open
    BY SaleSees DEF Sold!Open, Sold!NotSoldYet
  <2> HIDE DEF bid
  <2>3. bid <= MaxBid /\ Sold!Outbids(bid)
    BY SaleSees DEF bid, Sold!Outbids
  <2>4. /\ Stored'.auction_state = Stored.auction_state /\ Stored'.highest_bid = bid
        /\ Stored'.bidders = Stored.bidders \cup {a}
        /\ Stored'.bids = [Stored.bids EXCEPT ![a] = bid]
        /\ Stored'.paid = Stored.paid /\ Stored'.now = Stored.now
        /\ (IF deployed = "auction" THEN Sale!StoredBalance ELSE 0)'
             = (IF deployed = "auction" THEN Sale!StoredBalance ELSE 0) + (b - h)
    <3>1. /\ Stored.auction_state = s.auction_state /\ Stored.bidders = s.bidders
          /\ Stored.bids = s.bids /\ Stored.paid = s.paid /\ Stored.now = s.now
          /\ (IF deployed = "auction" THEN Sale!StoredBalance ELSE 0) = h
      BY SaleSees
    <3>2. /\ Stored'.auction_state = t.auction_state /\ Stored'.highest_bid = t.highest_bid
          /\ Stored'.bidders = t.bidders /\ Stored'.bids = t.bids /\ Stored'.paid = t.paid
          /\ Stored'.now = t.now
          /\ (IF deployed = "auction" THEN Sale!StoredBalance ELSE 0)' = b
      BY SaleSeesNext
    <3> QED BY <1>1, <1>2, <3>1, <3>2
  <2> QED BY <2>1, <2>2, <2>3, <2>4 DEF Sold!auction_bid
<1> QED BY <1>2, <1>3 DEF Sold!Next

\* A finalize is one.
LEMMA SaleSettlementShows ==
  ASSUME NEW s \in SaleStates, NEW h \in Nat, SaleShows(s, h),
         NEW t \in SaleStates, NEW b \in Nat, SaleShows(t, b)',
         NEW winner \in Accounts, h # 0,
         s.auction_state = Nobody, s.now > Expiry,
         s.bids[winner] = s.highest_bid,
         h = b + (s.highest_bid + SumFunctionOnSet(s.bids, SaleLosers(s, s.bidders))),
         s.bidders \ SaleLosers(s, s.bidders) = {winner},
         t = [s EXCEPT !.paid = SalePaid(s, SaleLosers(s, s.bidders)), !.auction_state = winner]
  PROVE  Sold!Next
<1> DEFINE L == SaleLosers(s, s.bidders)
<1>1. /\ t.bidders = s.bidders /\ t.bids = s.bids /\ t.highest_bid = s.highest_bid
      /\ t.auction_state = winner /\ t.paid = SalePaid(s, L) /\ t.now = s.now
  BY DEF SaleStates
<1>2. Sold!Losers = L
  BY SaleSees DEF Sold!Losers, SaleLosers
<1>3. IsFiniteSet(L) /\ SumFunctionOnSet(s.bids, L) \in Nat /\ s.highest_bid \in Nat
  BY SaleSums, SaleParts
<1>4. Sold!SumFunction([a \in Sold!Losers |-> Sold!Refund(a)]) = SumFunctionOnSet(s.bids, L)
  <2> DEFINE refunds == [a \in Sold!Losers |-> Sold!Refund(a)]
  <2>1. DOMAIN refunds = L /\ \A a \in L : refunds[a] = s.bids[a]
    BY <1>2, SaleSees DEF Sold!Refund
  <2> HIDE DEF refunds, L
  <2>2. SumFunctionOnSet(refunds, L) = SumFunctionOnSet(s.bids, L)
    BY <1>3, <2>1, SumSame
  <2>3. Sold!SumFunction(refunds) = SumFunctionOnSet(refunds, DOMAIN refunds)
    BY SaleFolds
  <2> QED BY <2>1, <2>2, <2>3 DEF refunds
<1>5. /\ Stored'.auction_state = winner /\ Stored'.paid = SalePaid(s, L)
      /\ Stored'.highest_bid = Stored.highest_bid /\ Stored'.bidders = Stored.bidders
      /\ Stored'.bids = Stored.bids /\ Stored'.now = Stored.now
      /\ (IF deployed = "auction" THEN Sale!StoredBalance ELSE 0)' = b
  BY <1>1, SaleSees, SaleSeesNext
<1>6. /\ Stored.auction_state = Nobody /\ Stored.now > Expiry /\ Stored.highest_bid = s.highest_bid
      /\ Stored.bidders = s.bidders /\ Stored.bids = s.bids /\ Stored.paid = s.paid
      /\ (IF deployed = "auction" THEN Sale!StoredBalance ELSE 0) = h
  BY SaleSees
<1>7. winner \in s.bidders /\ s.bidders \ L = {winner}
  OBVIOUS
<1> HIDE DEF L
<1>8. Sold!Settle
  <2> DEFINE total == s.highest_bid + SumFunctionOnSet(s.bids, L)
  <2>1. total \in Nat /\ total <= h /\ b = h - total
    BY <1>3 DEF L
  <2>2. SalePaid(s, L) = [a \in Accounts |-> Stored.paid[a]
           + ((IF a = Owner THEN Stored.highest_bid ELSE 0)
                + (IF a \in L THEN Sold!Refund(a) ELSE 0))]
    BY <1>6 DEF SalePaid, Sold!Refund
  <2> QED BY <1>2, <1>4, <1>5, <1>6, <1>7, <2>1, <2>2 DEF Sold!Settle
<1>9. Sold!auction_finalize
  BY <1>5, <1>6, <1>8 DEF Sold!auction_finalize, Sold!NotSoldYet
<1> QED BY <1>9 DEF Sold!Next

\* The call ends well, and what it did is seen.
LEMMA SaleEnds ==
  ASSUME SaleInv, Sale!Finish, deployed = "auction", deployed' = "auction"
  PROVE  /\ SaleInv'
         /\ Sold!Next \/ SaleStill
<1>0. PICK f, t, b : f = stack[1] /\ t = state /\ b = self_balance
  OBVIOUS
<1>1. ~Sale!Idle /\ f.left = 0 /\ stack' = <<>> /\ state' = t /\ self_balance' = b
  BY <1>0, SaleTop DEF Sale!Finish, Sale!Running
<1>2. /\ t \in SaleStates /\ b \in Nat /\ f.saved \in SaleStates /\ f.held \in Nat
      /\ f \in SaleFrames /\ (SaleBidding(f) \/ SaleFinalizing(f))
  BY <1>0, <1>1, SaleTop DEF SaleInv
<1>3. SaleInv'
  BY <1>1, <1>2 DEF SaleInv
<1>4. SaleShows(f.saved, f.held) /\ SaleShows(t, b)'
  BY <1>0, <1>1, SaleTop DEF SaleShows, Sale!Stored, Sale!StoredBalance, Sale!Idle
<1>5. CASE SaleBidding(f)
  <2>1. /\ f.by \in Accounts /\ b >= f.held /\ b - f.held <= MaxBid
        /\ f.saved.auction_state = Nobody /\ f.saved.now <= Expiry
        /\ f.saved.bids[f.by] + (b - f.held) <= MaxBid
        /\ f.saved.bids[f.by] + (b - f.held) > f.saved.highest_bid
        /\ t = [ f.saved EXCEPT
                   !.bidders = f.saved.bidders \cup {f.by},
                   !.bids = [f.saved.bids EXCEPT ![f.by] = f.saved.bids[f.by] + (b - f.held)],
                   !.highest_bid = f.saved.bids[f.by] + (b - f.held) ]
    <3>1. self_balance = b /\ state = t /\ f.left = 0
      BY <1>0, <1>1
    <3>2. f.left # 1
      BY <3>1
    <3> QED BY <1>5, <3>1, <3>2 DEF SaleBidding
  <2> QED BY <1>2, <1>3, <1>4, <2>1, SaleBidShows
<1>6. CASE SaleFinalizing(f)
  <2>1. SaleUntouched(f) \/ SaleDone(f)
    BY <1>1, <1>6 DEF SaleFinalizing
  <2>2. CASE SaleUntouched(f)
    BY <1>0, <1>3, <1>4, <2>2 DEF SaleUntouched, SaleShows, SaleStill
  <2>3. CASE SaleDone(f)
    <3>1. PICK winner \in Accounts :
            /\ SalePaying(f, {}, winner) /\ f.saved.bids[winner] = f.saved.highest_bid
            /\ t = [f.saved EXCEPT !.paid = t.paid, !.auction_state = winner]
      BY <1>0, <2>3 DEF SaleDone
    <3> DEFINE s == f.saved
               L == SaleLosers(s, s.bidders)
    <3>2. s.bidders \ {} = s.bidders /\ winner # Nobody
      BY SaleConstants
    <3>3. /\ s.auction_state = Nobody /\ s.now > Expiry /\ f.held # 0
          /\ f.held = b + (s.highest_bid + SumFunctionOnSet(s.bids, L))
          /\ t.paid = SalePaid(s, L) /\ s.bidders \ L = {winner}
      BY <1>0, <3>1, <3>2 DEF SalePaying
    <3>4. /\ s \in SaleStates /\ f.held \in Nat /\ t \in SaleStates /\ b \in Nat
          /\ SaleShows(s, f.held) /\ SaleShows(t, b)' /\ s.bids[winner] = s.highest_bid
          /\ t = [s EXCEPT !.paid = SalePaid(s, L), !.auction_state = winner]
      BY <1>2, <1>4, <3>1, <3>3
    <3>5. Sold!Next
      <4> HIDE DEF s
      <4> QED BY <3>3, <3>4, SaleSettlementShows
    <3> QED BY <1>3, <3>5
  <2> QED BY <2>1, <2>2, <2>3
<1> QED BY <1>2, <1>5, <1>6

\* Time passes.
LEMMA SaleTicks ==
  ASSUME SaleInv, Sale!Tick, deployed = "auction", deployed' = "auction"
  PROVE  SaleInv' /\ Sold!Next
<1>0. PICK s, t, h : s = state /\ t = state' /\ h = self_balance
  OBVIOUS
<1>1. /\ stack = <<>> /\ stack' = <<>> /\ self_balance' = h /\ s.now < MaxTime
      /\ t = [s EXCEPT !.now = @ + 1] /\ s \in SaleStates /\ h \in Nat
  BY <1>0 DEF Sale!Tick, Sale!Idle, Sale!hostVars, SaleInv
<1>2. /\ t \in SaleStates /\ t.auction_state = s.auction_state /\ t.highest_bid = s.highest_bid
      /\ t.bidders = s.bidders /\ t.bids = s.bids /\ t.paid = s.paid /\ t.now = s.now + 1
  <2>1. /\ t.auction_state = s.auction_state /\ t.highest_bid = s.highest_bid
        /\ t.bidders = s.bidders /\ t.bids = s.bids /\ t.paid = s.paid
    BY <1>1 DEF SaleStates
  <2>2. s.now \in Nat /\ t = [s EXCEPT !.now = s.now + 1]
    BY <1>1, SaleParts
  <2>3. s.now + 1 \in Nat
    BY <2>2
  <2>4. t \in SaleStates /\ t.now = s.now + 1
    BY <1>1, <2>2, <2>3 DEF SaleStates
  <2> QED BY <2>1, <2>4
<1>3. SaleShows(s, h) /\ SaleShows(t, h)'
  BY <1>0, <1>1 DEF SaleShows, Sale!Stored, Sale!StoredBalance, Sale!Idle
<1>4. Sold!Tick
  BY <1>1, <1>2, <1>3, SaleSees, SaleSeesNext DEF Sold!Tick
<1>5. SaleInv'
  BY <1>0, <1>1, <1>2 DEF SaleInv
<1> QED BY <1>4, <1>5 DEF Sold!Next

\* Each step of the contract is seen as a step of Auction or not at all.
LEMMA SaleKeeps ==
  ASSUME SaleInv, Sale!Next, deployed = "auction", deployed' = "auction"
  PROVE  /\ SaleInv'
         /\ Sold!Next \/ SaleStill
BY SaleEnters, SaleBids, SaleFinalizes, SaleReturns, SaleSells, SaleEnds, SaleTicks DEF Sale!Next

\* What is not seen to change.
LEMMA SaleRests ==
  ASSUME \/ deployed = "auction" /\ deployed' = "auction" /\ SaleStill
         \/ deployed # "auction" /\ deployed' # "auction"
  PROVE  UNCHANGED Sold!vars
BY DEF SaleStill, Stored, Sold!vars

-----------------------------------------------------------------------------
(* The Fibonacci contracts.                                                  *)

\* There is a function that satisfies the recursion.
LEMMA FibNumbers ==
  /\ \A n \in Nat : Fib!fib[n] \in Nat
  /\ \A n \in Nat : Fib!fib[n] = IF n <= 1 THEN 1 ELSE Fib!fib[n - 1] + Fib!fib[n - 2]
<1> DEFINE S == Nat \X Nat
           a == <<1, 1>>
           step == [p \in S |-> <<p[2], p[1] + p[2]>>]
<1>1. a \in S /\ step \in [S -> S]
  OBVIOUS
<1>2. PICK h \in [Nat -> S] : h[0] = a /\ \A n \in Nat : h[n + 1] = step[h[n]]
  <2> HIDE DEF S, a, step
  <2> QED BY <1>1, Repetition
<1>3. \A n \in Nat : h[n + 1] = <<h[n][2], h[n][1] + h[n][2]>>
  BY <1>2
<1> DEFINE f == [n \in Nat |-> h[n][1]]
<1>4. f[0] = 1 /\ f[1] = 1
  <2>1. h[0 + 1] = <<1, 1 + 1>>
    BY <1>2, <1>3
  <2> QED BY <1>2, <2>1
<1>5. ASSUME NEW n \in Nat, n > 1 PROVE f[n] = f[n - 1] + f[n - 2]
  <2> DEFINE m == n - 2
  <2>1. m \in Nat /\ m + 1 \in Nat /\ m + 1 = n - 1 /\ (m + 1) + 1 = n
    BY <1>5
  <2> HIDE DEF m
  <2>2. /\ h[m + 1] = <<h[m][2], h[m][1] + h[m][2]>>
        /\ h[(m + 1) + 1] = <<h[m + 1][2], h[m + 1][1] + h[m + 1][2]>>
    BY <1>3, <2>1
  <2>3. h[(m + 1) + 1][1] = h[m][1] + h[m + 1][1] /\ h[m][1] \in Nat /\ h[m + 1][1] \in Nat
    BY <1>2, <2>1, <2>2
  <2> QED BY <2>1, <2>3 DEF m
<1>6. f = [n \in Nat |-> IF n <= 1 THEN 1 ELSE f[n - 1] + f[n - 2]]
  <2>1. ASSUME NEW n \in Nat PROVE f[n] = IF n <= 1 THEN 1 ELSE f[n - 1] + f[n - 2]
    <3>1. CASE n <= 1
      <4>1. n = 0 \/ n = 1
        BY <3>1
      <4> QED BY <1>4, <4>1
    <3> QED BY <1>5, <3>1
  <2>2. f = [n \in Nat |-> f[n]]
    OBVIOUS
  <2> HIDE DEF f
  <2> QED BY <2>1, <2>2
<1>7. Fib!fib = [n \in Nat |-> IF n <= 1 THEN 1 ELSE Fib!fib[n - 1] + Fib!fib[n - 2]]
  <2> HIDE DEF f
  <2> QED BY <1>6 DEF Fib!fib
<1>8. \A n \in Nat : Fib!fib[n] = IF n <= 1 THEN 1 ELSE Fib!fib[n - 1] + Fib!fib[n - 2]
  BY <1>7
<1> DEFINE G == {n \in Nat : Fib!fib[n] \in Nat /\ Fib!fib[n + 1] \in Nat}
<1>9. 0 \in G
  BY <1>8
<1>10. ASSUME NEW n \in Nat, n \in G PROVE n + 1 \in G
  <2>1. n + 1 \in Nat /\ (n + 1) + 1 \in Nat /\ (n + 1) + 1 > 1
        /\ ((n + 1) + 1) - 1 = n + 1 /\ ((n + 1) + 1) - 2 = n
    OBVIOUS
  <2>2. Fib!fib[(n + 1) + 1] = Fib!fib[n + 1] + Fib!fib[n]
    BY <1>8, <2>1
  <2> QED BY <1>10, <2>1, <2>2
<1> HIDE DEF G
<1>11. Nat \subseteq G
  BY <1>9, <1>10, NumberInduction
<1> QED BY <1>8, <1>11 DEF G

LEMMA FibConstants == FibW \in Nat /\ FibW > 1 /\ MaxN \in Nat
BY Deployable DEF Fib!FibonacciAssumption

\* What the calls to come add.
FibPending(st) == SumFunctionOnSet([i \in 1 .. Len(st) |-> Fib!fib[st[i]]], 1 .. Len(st))

LEMMA FibFolds ==
  ASSUME NEW st \in Seq(Nat)
  PROVE  Fib!SumFunction([i \in DOMAIN st |-> Fib!fib[st[i]]]) = FibPending(st)
<1> DEFINE f == [i \in 1 .. Len(st) |-> Fib!fib[st[i]]]
<1>1. [i \in DOMAIN st |-> Fib!fib[st[i]]] = f /\ DOMAIN f = 1 .. Len(st)
  OBVIOUS
<1> HIDE DEF f
<1>2. Fib!SumFunction(f) = SumFunctionOnSet(f, DOMAIN f)
  BY DEF SumFunctionOnSet, FoldFunctionOnSet, MapThenFoldSet, Fib!SumFunction,
         Fib!SumFunctionOnSet, Fib!FoldFunctionOnSet, Fib!MapThenFoldSet
<1> QED BY <1>1, <1>2 DEF FibPending, f

LEMMA FibNone == FibPending(<<>>) = 0
<1>1. 1 .. Len(<<>>) = {}
  OBVIOUS
<1> QED BY <1>1, SumEmpty DEF FibPending

LEMMA FibMore ==
  ASSUME NEW st \in Seq(Nat), NEW x \in Nat
  PROVE  /\ FibPending(st) \in Nat
         /\ FibPending(Append(st, x)) = FibPending(st) + Fib!fib[x]
<1> DEFINE n == Len(st)
           S == 1 .. n
           f == [i \in 1 .. Len(st) |-> Fib!fib[st[i]]]
           t == Append(st, x)
           g == [i \in 1 .. Len(t) |-> Fib!fib[t[i]]]
<1>1. /\ n \in Nat /\ IsFiniteSet(S) /\ n + 1 \notin S /\ 1 .. Len(t) = S \cup {n + 1}
      /\ \A i \in S : t[i] = st[i] /\ st[i] \in Nat
      /\ t[n + 1] = x
  <2>1. n \in Nat /\ Len(t) = n + 1 /\ t[n + 1] = x /\ \A i \in S : t[i] = st[i] /\ st[i] \in Nat
    OBVIOUS
  <2> HIDE DEF n, t
  <2>2. n + 1 \notin S /\ 1 .. Len(t) = S \cup {n + 1}
    BY <2>1
  <2>3. IsFiniteSet(S)
    BY <2>1, FS_Interval
  <2> QED BY <2>1, <2>2, <2>3
<1>2. \A i \in S : f[i] = Fib!fib[st[i]] /\ g[i] = f[i] /\ f[i] \in Nat
  BY <1>1, FibNumbers
<1>3. g[n + 1] = Fib!fib[x] /\ g[n + 1] \in Nat
  BY <1>1, FibNumbers
<1>4. FibPending(st) = SumFunctionOnSet(f, S) /\ FibPending(t) = SumFunctionOnSet(g, S \cup {n + 1})
  BY <1>1 DEF FibPending
<1> HIDE DEF f, g, t, S, n
<1>5. SumFunctionOnSet(f, S) \in Nat
  BY <1>1, <1>2, SumPart
<1>6. SumFunctionOnSet(g, S \cup {n + 1}) = SumFunctionOnSet(g, S) + g[n + 1]
  <2>1. \A i \in S \cup {n + 1} : g[i] \in Int
    BY <1>2, <1>3
  <2> DEFINE m == n + 1
  <2>2. m \notin S /\ \A i \in S \cup {m} : g[i] \in Int
    BY <1>1, <2>1
  <2> HIDE DEF m
  <2>3. SumFunctionOnSet(g, S \cup {m}) = SumFunctionOnSet(g, S) + g[m]
    BY <1>1, <2>2, SumInsert
  <2> QED BY <2>3 DEF m
<1>7. SumFunctionOnSet(f, S) = SumFunctionOnSet(g, S)
  BY <1>1, <1>2, SumSame
<1> QED BY <1>3, <1>4, <1>5, <1>6, <1>7 DEF t

\* A stack is what is below its top, and the top.
LEMMA FibTop ==
  ASSUME NEW T, NEW st \in Seq(T), st # <<>>
  PROVE  /\ Len(st) \in Nat /\ Len(st) > 0 /\ Fib!Last(st) = st[Len(st)] /\ Fib!Last(st) \in T
         /\ Fib!Front(st) \in Seq(T) /\ Len(Fib!Front(st)) = Len(st) - 1
         /\ \A i \in 1 .. Len(st) - 1 : Fib!Front(st)[i] = st[i]
         /\ st = Append(Fib!Front(st), Fib!Last(st))
<1>1. Len(st) \in Nat /\ Len(st) > 0
  OBVIOUS
<1> DEFINE n == Len(st) - 1
           s == SubSeq(st, 1, n)
<1>2. n \in Nat /\ n < Len(st) /\ n + 1 = Len(st)
  BY <1>1
<1> HIDE DEF n
<1>3. s \in Seq(T) /\ Len(s) = n /\ \A i \in 1 .. n : s[i] = st[i]
  BY <1>2
<1>4. Fib!Last(st) = st[Len(st)] /\ Fib!Last(st) \in T
  BY <1>1 DEF Fib!Last
<1>5. Fib!Front(st) = s
  BY DEF Fib!Front, n
<1> HIDE DEF s
<1>6. st = Append(s, st[Len(st)])
  <2> DEFINE t == Append(s, st[Len(st)])
  <2>1. t \in Seq(T) /\ Len(t) = n + 1 /\ t[n + 1] = st[Len(st)] /\ \A i \in 1 .. n : t[i] = s[i]
    BY <1>3, <1>4
  <2> HIDE DEF t
  <2>2. \A i \in 1 .. Len(st) : t[i] = st[i]
    BY <1>2, <1>3, <2>1
  <2>3. t = st
    BY <1>2, <2>1, <2>2
  <2> QED BY <2>3 DEF t
<1> QED BY <1>1, <1>2, <1>3, <1>4, <1>5, <1>6 DEF n

\* The older contract.
LeafInv ==
  /\ state \in [result : Nat, from : Nat, n : Nat] /\ calls \in Nat /\ stack \in Seq(Nat)
  /\ calls = 0 => stack = <<>>
  /\ calls > 0 =>
       (state.result + FibPending(stack)) % FibW = (state.from + Fib!fib[state.n]) % FibW

LEMMA LeafStarts == ASSUME Fib!Init PROVE LeafInv
BY DEF Fib!Init, LeafInv

LEMMA LeafHolds == ASSUME LeafInv PROVE Fib!LeavesAddUp
BY FibFolds DEF LeafInv, Fib!LeavesAddUp

LEMMA LeafKeeps == ASSUME LeafInv, Fib!RecursiveNext PROVE LeafInv'
<1>0. PICK r, from, n, c \in Nat :
        state = [result |-> r, from |-> from, n |-> n] /\ c = calls /\ r \in Nat /\ from \in Nat /\ n \in Nat
  BY DEF LeafInv
<1>1. ASSUME NEW m \in 0 .. MaxN, Fib!Start(m, m) PROVE LeafInv'
  <2>1. m \in Nat /\ stack' = Append(<<>>, m) /\ calls' = calls + 1
        /\ state' = [result |-> r, from |-> r, n |-> m]
    <3>1. m \in Nat
      BY FibConstants
    <3>2. /\ stack' = <<m>> /\ calls' = calls + 1
          /\ state' = [state EXCEPT !.from = state.result, !.n = m]
      BY <1>1 DEF Fib!Start
    <3>3. <<m>> = Append(<<>>, m) /\ state.result = r
      BY <1>0, <3>1
    <3>4. [state EXCEPT !.from = r, !.n = m] = [result |-> r, from |-> r, n |-> m]
      <4> DEFINE s == [result |-> r, from |-> from, n |-> n]
                 t == [s EXCEPT !.from = r]
      <4>1. [s EXCEPT !.from = r, !.n = m] = [result |-> r, from |-> r, n |-> m]
        <5>1. t = [result |-> r, from |-> r, n |-> n]
          OBVIOUS
        <5> HIDE DEF t
        <5>2. [t EXCEPT !.n = m] = [result |-> r, from |-> r, n |-> m]
          BY <5>1
        <5> QED BY <5>2 DEF t
      <4>2. state = s
        BY <1>0
      <4> HIDE DEF s
      <4> QED BY <4>1, <4>2
    <3> QED BY <3>1, <3>2, <3>3, <3>4
  <2>2. stack' \in Seq(Nat) /\ FibPending(stack') = 0 + Fib!fib[m]
    <3> DEFINE e == <<>>
    <3>1. e \in Seq(Nat) /\ Append(e, m) \in Seq(Nat)
      BY <2>1
    <3> HIDE DEF e
    <3>2. FibPending(Append(e, m)) = FibPending(e) + Fib!fib[m]
      BY <2>1, <3>1, FibMore
    <3> QED BY <2>1, <3>1, <3>2, FibNone DEF e
  <2>3. FibPending(stack') = Fib!fib[m]
    BY <2>1, <2>2, FibNumbers
  <2> QED BY <1>0, <2>1, <2>2, <2>3 DEF LeafInv
<1>2. CASE Fib!contract_receive
  <2> DEFINE top == Fib!Last(stack)
             below == Fib!Front(stack)
  <2>1. /\ stack \in Seq(Nat) /\ stack # <<>> /\ calls > 0 /\ calls' = calls /\ calls \in Nat
        /\ (r + FibPending(stack)) % FibW = (from + Fib!fib[n]) % FibW
    BY <1>0, <1>2 DEF Fib!contract_receive, Fib!Idle, LeafInv
  <2>2. top \in Nat /\ below \in Seq(Nat) /\ stack = Append(below, top)
    BY <2>1, FibTop
  <2>3. \/ top <= 1 /\ state' = [state EXCEPT !.result = (@ + 1) % FibW] /\ stack' = below
        \/ top > 1 /\ stack' = below \o <<top - 2, top - 1>> /\ state' = state
    <3>1. Fib!Top = top
      BY DEF Fib!Top
    <3>2. CASE top <= 1
      BY <1>2, <3>1, <3>2 DEF Fib!contract_receive
    <3>3. CASE ~(top <= 1)
      <4>1. stack' = below \o <<top - 2, top - 1>> /\ state' = state
        BY <1>2, <3>1, <3>3 DEF Fib!contract_receive
      <4>2. top > 1
        <5> HIDE DEF top, below
        <5> QED BY <2>2, <3>3
      <4> QED BY <4>1, <4>2
    <3> QED BY <3>2, <3>3
  <2> HIDE DEF top, below
  <2>4. FibPending(below) \in Nat /\ FibPending(stack) = FibPending(below) + Fib!fib[top]
    BY <2>2, FibMore
  <2>5. CASE top <= 1 /\ state' = [state EXCEPT !.result = (@ + 1) % FibW] /\ stack' = below
    <3>1. state' = [result |-> (r + 1) % FibW, from |-> from, n |-> n]
      BY <1>0, <2>5
    <3>2. FibPending(stack) = FibPending(below) + 1
      BY <2>2, <2>4, <2>5, FibNumbers
    <3>3. /\ (r + 1) % FibW \in Nat
          /\ (((r + 1) % FibW) + FibPending(below)) % FibW = ((r + 1) + FibPending(below)) % FibW
      <4> DEFINE m == r + 1
                 k == FibPending(below)
      <4>1. m \in Nat /\ k \in Nat /\ FibW \in Nat \ {0}
        BY <1>0, <2>4, FibConstants
      <4> HIDE DEF m, k
      <4>2. m % FibW \in Nat /\ ((m % FibW) + k) % FibW = (m + k) % FibW
        BY <4>1, ModSum
      <4> QED BY <4>2 DEF m, k
    <3>4. (r + 1) + FibPending(below) = r + FibPending(stack)
      BY <1>0, <2>4, <3>2
    <3> QED BY <1>0, <2>1, <2>2, <2>5, <3>1, <3>3, <3>4 DEF LeafInv
  <2>6. CASE top > 1 /\ stack' = below \o <<top - 2, top - 1>> /\ state' = state
    <3> DEFINE next == Append(below, top - 2)
    <3>1. top - 2 \in Nat /\ top - 1 \in Nat /\ next \in Seq(Nat)
      BY <2>2, <2>6
    <3>2. stack' = Append(next, top - 1)
      BY <2>2, <2>6, <3>1
    <3>3. FibPending(next) = FibPending(below) + Fib!fib[top - 2]
      BY <2>2, <3>1, FibMore
    <3> HIDE DEF next
    <3>4. stack' \in Seq(Nat) /\ FibPending(stack') = FibPending(next) + Fib!fib[top - 1]
      BY <3>1, <3>2, FibMore
    <3>5. FibPending(stack') = FibPending(stack)
      <4>1. Fib!fib[top] = Fib!fib[top - 1] + Fib!fib[top - 2]
        BY <2>2, <2>6, FibNumbers
      <4>2. Fib!fib[top - 1] \in Nat /\ Fib!fib[top - 2] \in Nat
        BY <3>1, FibNumbers
      <4> QED BY <2>4, <3>3, <3>4, <4>1, <4>2
    <3> QED BY <1>0, <2>1, <2>6, <3>4, <3>5 DEF LeafInv
  <2> QED BY <2>3, <2>5, <2>6
<1>3. CASE Fib!contract_receive_calc_fib
  <2>1. PICK amount \in 0 .. MaxN :
          state' = [result |-> Fib!fib[amount] % FibW, from |-> 0, n |-> amount]
    BY <1>3 DEF Fib!contract_receive_calc_fib
  <2>2. stack' = <<>> /\ calls' = calls + 1
    BY <1>3 DEF Fib!contract_receive_calc_fib, Fib!Idle
  <2>3. amount \in Nat /\ Fib!fib[amount] \in Nat
    BY FibConstants, FibNumbers
  <2>4. /\ Fib!fib[amount] % FibW \in Nat
        /\ ((Fib!fib[amount] % FibW) + 0) % FibW = (Fib!fib[amount] + 0) % FibW
    <3> DEFINE m == Fib!fib[amount]
    <3>1. m \in Nat /\ 0 \in Nat /\ FibW \in Nat \ {0}
      BY <2>3, FibConstants
    <3> HIDE DEF m
    <3>2. m % FibW \in Nat /\ ((m % FibW) + 0) % FibW = (m + 0) % FibW
      BY <3>1, ModSum
    <3> QED BY <3>2 DEF m
  <2>5. Fib!fib[amount] + 0 = 0 + Fib!fib[amount]
    BY <2>3
  <2>6. stack' \in Seq(Nat) /\ calls' \in Nat /\ FibPending(stack') = 0
    BY <1>0, <2>2, FibNone
  <2> QED BY <2>1, <2>2, <2>3, <2>4, <2>5, <2>6 DEF LeafInv
<1> QED BY <1>1, <1>2, <1>3 DEF Fib!RecursiveNext

\* The newer contract: each call asks for the n that its caller waits for, and
\* the one on top has just been answered with what the state holds.
FibFrames == [n : Nat, at : {"start", "n2", "n1"}, answer : Nat, cv2 : Nat]
Low(n) == Fib!fib[n] % FibW
Asked(f) == IF f.at = "n2" THEN f.n - 2 ELSE f.n - 1

FibFrame(f) == (f.at # "start" => f.n > 1) /\ (f.at = "n1" => f.cv2 = Low(f.n - 2))
FibLink(f, g) == f.at # "start" /\ g.n = Asked(f)
FibAnswered(f, result) == f.at # "start" => f.answer = result /\ result = Low(Asked(f))

CallsInv ==
  /\ state \in [result : Nat, from : Nat, n : Nat] /\ stack \in Seq(FibFrames)
  /\ outcome \in {"none", "ok"}
  /\ outcome = "ok" => stack = <<>> /\ state.result = Low(state.n)
  /\ stack # <<>> => stack[1].n = state.n /\ FibAnswered(stack[Len(stack)], state.result)
  /\ \A i \in 1 .. Len(stack) : FibFrame(stack[i])
  /\ \A i \in 1 .. Len(stack) - 1 : FibLink(stack[i], stack[i + 1])

LEMMA CallsStart == ASSUME Fib!Init PROVE CallsInv
BY DEF Fib!Init, CallsInv

LEMMA CallsHold == ASSUME CallsInv PROVE Fib!CallsAddUp
BY DEF CallsInv, Fib!CallsAddUp, FibFrame, Low

LEMMA LowTyped ==
  ASSUME NEW n \in Nat
  PROVE  /\ Low(n) \in Nat /\ (n <= 1 => Low(n) = 1)
         /\ n > 1 => Low(n) = (Low(n - 1) + Low(n - 2)) % FibW
<1>1. Fib!fib[n] \in Nat /\ FibW \in Nat \ {0} /\ FibW > 1
  BY FibNumbers, FibConstants
<1>2. Low(n) \in Nat
  BY <1>1, ModSum DEF Low
<1>3. n <= 1 => Low(n) = 1
  <2>1. 1 \in 0 .. FibW - 1
    BY <1>1
  <2>2. 1 % FibW = 1
    BY <1>1, <2>1, ModSmall
  <2> QED BY <2>2, FibNumbers DEF Low
<1>4. ASSUME n > 1 PROVE Low(n) = (Low(n - 1) + Low(n - 2)) % FibW
  <2> DEFINE a == Fib!fib[n - 1]
             b == Fib!fib[n - 2]
  <2>1. n - 1 \in Nat /\ n - 2 \in Nat
    BY <1>4
  <2>2. a \in Nat /\ b \in Nat /\ Fib!fib[n] = a + b
    BY <1>4, <2>1, FibNumbers
  <2>3. Low(n - 1) = a % FibW /\ Low(n - 2) = b % FibW
    BY DEF Low
  <2> HIDE DEF a, b
  <2> DEFINE c == b % FibW
  <2>4. c \in Nat /\ (c + a) % FibW = (b + a) % FibW
    BY <1>1, <2>2, ModSum
  <2> HIDE DEF c
  <2>5. ((a % FibW) + c) % FibW = (a + c) % FibW /\ a % FibW \in Nat
    BY <1>1, <2>2, <2>4, ModSum
  <2>6. a + c = c + a /\ a + b = b + a
    BY <2>2, <2>4
  <2> QED BY <2>2, <2>3, <2>4, <2>5, <2>6 DEF Low, c
<1> QED BY <1>2, <1>3, <1>4

\* Somebody calls.
LEMMA CallsEnter ==
  ASSUME CallsInv, NEW n \in 0 .. MaxN, Fib!Start(n, Fib!Call(n))
  PROVE  CallsInv'
<1> DEFINE c == Fib!Call(n)
<1>1. n \in Nat
  BY FibConstants
<1>2. c \in FibFrames /\ c.n = n /\ c.at = "start"
  BY <1>1 DEF Fib!Call, FibFrames
<1>3. stack' = <<c>> /\ outcome' = "none" /\ state' = [state EXCEPT !.from = state.result, !.n = n]
  BY DEF Fib!Start
<1>4. state' \in [result : Nat, from : Nat, n : Nat] /\ state'.n = n
  <2> DEFINE t == [state EXCEPT !.from = state.result]
  <2>1. t \in [result : Nat, from : Nat, n : Nat]
    BY DEF CallsInv
  <2> HIDE DEF t
  <2>2. [t EXCEPT !.n = n] \in [result : Nat, from : Nat, n : Nat] /\ [t EXCEPT !.n = n].n = n
    BY <1>1, <2>1
  <2> QED BY <1>3, <2>2 DEF t
<1> HIDE DEF c
<1>5. stack' \in Seq(FibFrames) /\ Len(stack') = 1 /\ stack'[1] = c
  BY <1>2, <1>3
<1>6. FibFrame(c) /\ FibAnswered(c, state'.result)
  BY <1>2 DEF FibFrame, FibAnswered
<1> QED BY <1>2, <1>3, <1>4, <1>5, <1>6 DEF CallsInv

\* A call makes another.
LEMMA CallsInvoke ==
  ASSUME CallsInv, stack # <<>>, NEW f \in FibFrames, NEW m \in Nat,
         f.n = Fib!Top.n, FibFrame(f), f.at # "start", m = Asked(f), Fib!Invoke(f, m)
  PROVE  CallsInv'
<1> DEFINE k == Len(stack)
           c == Fib!Call(m)
           below == Fib!Front(stack)
<1>1. /\ stack \in Seq(FibFrames) /\ k \in Nat /\ k > 0 /\ Fib!Top = stack[k]
      /\ below \in Seq(FibFrames) /\ Len(below) = k - 1 /\ \A i \in 1 .. k - 1 : below[i] = stack[i]
  BY FibTop DEF CallsInv, Fib!Top
<1>2. c \in FibFrames /\ c.n = m /\ c.at = "start"
  BY DEF Fib!Call, FibFrames
<1>3. stack' = Append(below \o <<f>>, c) /\ state' = state /\ outcome' = outcome
  BY DEF Fib!Invoke
<1> HIDE DEF below, c
<1>4. /\ stack' \in Seq(FibFrames) /\ Len(stack') = k + 1 /\ stack'[k + 1] = c /\ stack'[k] = f
      /\ \A i \in 1 .. k - 1 : stack'[i] = stack[i]
  <2> DEFINE s == below \o <<f>>
  <2>1. s \in Seq(FibFrames) /\ Len(s) = k /\ s[k] = f /\ \A i \in 1 .. k - 1 : s[i] = below[i]
    BY <1>1
  <2> HIDE DEF s, k
  <2>2. /\ Append(s, c) \in Seq(FibFrames) /\ Len(Append(s, c)) = k + 1 /\ Append(s, c)[k + 1] = c
        /\ \A i \in 1 .. k : Append(s, c)[i] = s[i]
    BY <1>1, <1>2, <2>1
  <2>3. k \in 1 .. k /\ \A i \in 1 .. k - 1 : i \in 1 .. k
    BY <1>1
  <2> QED BY <1>1, <1>3, <2>1, <2>2, <2>3 DEF s
<1> HIDE DEF k
<1>5. FibFrame(c) /\ FibAnswered(c, state'.result) /\ FibLink(f, c)
  BY <1>2 DEF FibFrame, FibAnswered, FibLink
<1>6. \A i \in 1 .. k + 1 : FibFrame(stack'[i])
  <2>1. \A i \in 1 .. k + 1 : i = k + 1 \/ i = k \/ i \in 1 .. k - 1
    BY <1>1
  <2>2. \A i \in 1 .. k - 1 : FibFrame(stack[i])
    BY <1>1 DEF CallsInv, k
  <2> QED BY <1>4, <1>5, <2>1, <2>2
<1>7. \A i \in 1 .. k : FibLink(stack'[i], stack'[i + 1])
  <2>1. \A i \in 1 .. k - 1 : FibLink(stack[i], stack[i + 1])
    BY DEF CallsInv, k
  <2>2. ASSUME NEW i \in 1 .. k PROVE FibLink(stack'[i], stack'[i + 1])
    <3>1. CASE i = k
      BY <1>4, <1>5, <3>1
    <3>2. CASE i # k
      <4>1. i \in 1 .. k - 1 /\ (i + 1 = k \/ i + 1 \in 1 .. k - 1)
        BY <1>1, <3>2
      <4>2. i + 1 = k => FibLink(stack[i], f)
        BY <1>1, <2>1, <4>1 DEF FibLink
      <4> QED BY <1>4, <2>1, <4>1, <4>2
    <3> QED BY <3>1, <3>2
  <2> QED BY <2>2
<1>8. stack'[1].n = state.n
  <2>1. k = 1 \/ 1 \in 1 .. k - 1
    BY <1>1
  <2>2. stack[1].n = state.n
    BY DEF CallsInv
  <2> QED BY <1>1, <1>4, <2>1, <2>2
<1>9. (k + 1) - 1 = k /\ stack' # <<>>
  BY <1>1, <1>4
<1>10. outcome # "ok"
  BY DEF CallsInv
<1> QED BY <1>3, <1>4, <1>5, <1>6, <1>7, <1>8, <1>9, <1>10 DEF CallsInv

\* A call returns what its caller asked for.
LEMMA CallsReturn ==
  ASSUME CallsInv, stack # <<>>, NEW v \in Nat, v = Low(Fib!Top.n), Fib!Return(v)
  PROVE  CallsInv'
<1> DEFINE k == Len(stack)
           below == Fib!Front(stack)
<1>1. /\ stack \in Seq(FibFrames) /\ k \in Nat /\ k > 0 /\ Fib!Top = stack[k]
      /\ below \in Seq(FibFrames) /\ Len(below) = k - 1 /\ \A i \in 1 .. k - 1 : below[i] = stack[i]
  BY FibTop DEF CallsInv, Fib!Top
<1>2. /\ state \in [result : Nat, from : Nat, n : Nat] /\ state' = [state EXCEPT !.result = v]
      /\ outcome \in {"none", "ok"} /\ stack[1].n = state.n
  BY DEF Fib!Return, CallsInv
<1>3. state' \in [result : Nat, from : Nat, n : Nat] /\ state'.result = v /\ state'.n = state.n
  BY <1>2
<1>4. CASE k = 1
  <2>1. stack' = <<>> /\ outcome' = "ok"
    BY <1>4 DEF Fib!Return
  <2>2. v = Low(state'.n)
    BY <1>1, <1>2, <1>3, <1>4
  <2>3. stack' \in Seq(FibFrames) /\ Len(stack') = 0
    BY <2>1
  <2> QED BY <1>3, <2>1, <2>2, <2>3 DEF CallsInv
<1>5. CASE k # 1
  <2> DEFINE g == stack[k - 1]
             f == [g EXCEPT !.answer = v]
  <2>1. k - 1 \in 1 .. k - 1 /\ k - 1 \in Nat /\ (k - 1) + 1 = k /\ k - 1 \in 1 .. k
    BY <1>1, <1>5
  <2>2. below[k - 1] = g /\ g \in FibFrames
    BY <1>1, <2>1
  <2>3. /\ f \in FibFrames /\ f.n = g.n /\ f.at = g.at /\ f.cv2 = g.cv2 /\ f.answer = v
    BY <2>2 DEF FibFrames
  <2>4. stack' = [below EXCEPT ![k - 1] = f] /\ outcome' = outcome
    BY <1>5, <2>2 DEF Fib!Return
  <2>5. FibFrame(g) /\ FibLink(g, stack[k])
    BY <1>1, <2>1 DEF CallsInv
  <2> HIDE DEF below, g, f
  <2>6. /\ stack' \in Seq(FibFrames) /\ Len(stack') = k - 1 /\ stack'[k - 1] = f
        /\ \A i \in 1 .. (k - 1) - 1 : stack'[i] = stack[i]
    <3> DEFINE j == k - 1
    <3>1. j \in 1 .. j /\ j \in Nat /\ below \in Seq(FibFrames) /\ Len(below) = j
          /\ stack' = [below EXCEPT ![j] = f] /\ \A i \in 1 .. j : below[i] = stack[i]
      BY <1>1, <2>1, <2>4
    <3> HIDE DEF j
    <3>2. stack' \in Seq(FibFrames) /\ Len(stack') = j /\ stack'[j] = f
          /\ \A i \in 1 .. j - 1 : stack'[i] = below[i]
      BY <2>3, <3>1
    <3>3. \A i \in 1 .. j - 1 : i \in 1 .. j
      BY <3>1
    <3> QED BY <3>1, <3>2, <3>3 DEF j
  <2>7. FibFrame(f) /\ FibAnswered(f, v)
    BY <1>1, <2>3, <2>5 DEF FibFrame, FibAnswered, FibLink, Asked
  <2> HIDE DEF k
  <2>8. \A i \in 1 .. k - 1 : FibFrame(stack'[i])
    <3>1. \A i \in 1 .. k - 1 : FibFrame(stack[i])
      BY <1>1 DEF CallsInv, k
    <3>2. \A i \in 1 .. k - 1 : i = k - 1 \/ i \in 1 .. (k - 1) - 1
      BY <1>1
    <3> QED BY <2>6, <2>7, <3>1, <3>2
  <2>9. \A i \in 1 .. (k - 1) - 1 : FibLink(stack'[i], stack'[i + 1])
    <3>1. \A i \in 1 .. (k - 1) - 1 : FibLink(stack[i], stack[i + 1])
      BY <1>1 DEF CallsInv, k
    <3>2. ASSUME NEW i \in 1 .. (k - 1) - 1 PROVE FibLink(stack'[i], stack'[i + 1])
      <4>1. i + 1 = k - 1 \/ i + 1 \in 1 .. (k - 1) - 1
        BY <1>1
      <4>2. i + 1 = k - 1 => FibLink(stack[i], f)
        BY <2>3, <3>1 DEF FibLink, g
      <4> QED BY <2>6, <3>1, <4>1, <4>2
    <3> QED BY <3>2
  <2>10. stack'[1].n = state.n
    <3>1. k - 1 = 1 \/ 1 \in 1 .. (k - 1) - 1
      BY <1>1, <2>1
    <3> QED BY <1>2, <2>3, <2>6, <3>1 DEF g
  <2>11. outcome # "ok" /\ stack' # <<>>
    BY <2>1, <2>6 DEF CallsInv
  <2> QED BY <1>2, <1>3, <2>4, <2>6, <2>7, <2>8, <2>9, <2>10, <2>11 DEF CallsInv
<1> QED BY <1>4, <1>5

\* The calls go on.
LEMMA CallsKeep == ASSUME CallsInv, Fib!ChainNext PROVE CallsInv'
<1> DEFINE top == Fib!Top
<1>1. ASSUME stack # <<>>
      PROVE  /\ top \in FibFrames /\ FibFrame(top) /\ FibAnswered(top, state.result)
             /\ top.n \in Nat /\ top.answer \in Nat /\ top.cv2 \in Nat /\ state.result \in Nat
  <2>1. top = stack[Len(stack)] /\ top \in FibFrames /\ Len(stack) \in 1 .. Len(stack)
    BY <1>1, FibTop DEF CallsInv, Fib!Top
  <2> HIDE DEF top
  <2> QED BY <1>1, <2>1 DEF CallsInv, FibFrames
<1>2. ASSUME stack # <<>>, Fib!Base PROVE CallsInv'
  <2>1. top.n <= 1 /\ Fib!Return(1)
    BY <1>2 DEF Fib!Base
  <2>2. 1 = Low(top.n) /\ 1 \in Nat
    BY <1>1, <1>2, <2>1, LowTyped
  <2> QED BY <1>2, <2>1, <2>2, CallsReturn
<1>3. ASSUME stack # <<>>, Fib!First PROVE CallsInv'
  <2> DEFINE f == [top EXCEPT !.at = "n2"]
  <2>1. top.n > 1 /\ Fib!Invoke(f, top.n - 2) /\ top.n - 2 \in Nat
    BY <1>1, <1>3 DEF Fib!First
  <2>2. f \in FibFrames /\ f.n = top.n /\ f.at = "n2"
    BY <1>1, <1>3 DEF FibFrames
  <2>3. FibFrame(f) /\ top.n - 2 = Asked(f)
    BY <2>1, <2>2 DEF FibFrame, Asked
  <2> HIDE DEF f
  <2> QED BY <1>3, <2>1, <2>2, <2>3, CallsInvoke
<1>4. ASSUME stack # <<>>, Fib!Second PROVE CallsInv'
  <2> DEFINE f == [top EXCEPT !.at = "n1", !.cv2 = state.result]
             g == [top EXCEPT !.at = "n1"]
  <2>1. /\ top.at = "n2" /\ top.n > 1 /\ top.answer = state.result /\ state.result = Low(top.n - 2)
    BY <1>1, <1>4 DEF Fib!Second, FibFrame, FibAnswered, Asked
  <2>2. Fib!Invoke(f, top.n - 1) /\ top.n - 1 \in Nat
    BY <1>1, <1>4, <2>1 DEF Fib!Second
  <2>3. f \in FibFrames /\ f.n = top.n /\ f.at = "n1" /\ f.cv2 = state.result
    <3>1. g \in FibFrames /\ g.n = top.n /\ g.at = "n1"
      BY <1>1, <1>4 DEF FibFrames
    <3> DEFINE h == [g EXCEPT !.cv2 = state.result]
    <3>2. f = h
      OBVIOUS
    <3> HIDE DEF g, f
    <3>3. h \in FibFrames /\ h.n = g.n /\ h.at = "n1" /\ h.cv2 = state.result
      BY <1>1, <1>4, <3>1 DEF FibFrames
    <3> QED BY <3>1, <3>2, <3>3
  <2>4. FibFrame(f) /\ top.n - 1 = Asked(f)
    BY <2>1, <2>3 DEF FibFrame, Asked
  <2> HIDE DEF f
  <2> QED BY <1>4, <2>2, <2>3, <2>4, CallsInvoke
<1>5. ASSUME stack # <<>>, Fib!Add PROVE CallsInv'
  <2>1. /\ top.at = "n1" /\ top.n > 1 /\ top.answer = state.result /\ state.result = Low(top.n - 1)
        /\ top.cv2 = Low(top.n - 2)
    BY <1>1, <1>5 DEF Fib!Add, FibFrame, FibAnswered, Asked
  <2>2. Fib!Return(Fib!Sum)
    BY <1>5, <2>1 DEF Fib!Add
  <2>3. Fib!Sum = Low(top.n)
    BY <1>1, <1>5, <2>1, LowTyped DEF Fib!Sum
  <2>4. Fib!Sum \in Nat
    BY <1>1, <1>5, <2>3, LowTyped
  <2> HIDE DEF top
  <2> QED BY <1>5, <2>2, <2>3, <2>4, CallsReturn DEF top
<1>6. ASSUME NEW n \in 0 .. MaxN, Fib!Start(n, Fib!Call(n)) PROVE CallsInv'
  BY <1>6, CallsEnter
<1> QED BY <1>2, <1>3, <1>4, <1>5, <1>6 DEF Fib!ChainNext, Fib!Idle

-----------------------------------------------------------------------------
(* The deployed contracts: whichever it is, its invariant holds.             *)
DeployedInv ==
  /\ deployed = "multi" => MultiInv
  /\ deployed = "nft" => NftInv
  /\ deployed = "single" => SingleInv
  /\ deployed = "wccd" => WccdInv
  /\ deployed = "erc721" => ErcInv
  /\ deployed = "two-step-transfer" => TwoStepInv
  /\ deployed = "memo" => MemoInv
  /\ deployed = "proxy" => ProxyInv
  /\ deployed = "icecream" => IcecreamInv
  /\ deployed = "weather" => WeatherInv
  /\ deployed = "piggy" => PiggyInv
  /\ deployed = "listing" => ListInv
  /\ deployed = "recorder" => RecorderInv
  /\ deployed = "counter-notify" => CounterInv
  /\ deployed = "auction" => SaleInv
  /\ deployed = "fibonacci" => LeafInv
  /\ deployed = "fib" => CallsInv

\* Deployment.
LEMMA DeployedStarts == ASSUME Init PROVE DeployedInv
BY MultiInit, NftInit, SingleInit, WccdInit, ErcInit, TwoStepStarts, MemoStarts, ProxyStarts, IcecreamStarts, WeatherStarts, PiggyStarts, ListStarts, RecorderStarts, CounterStarts, SaleStarts, LeafStarts, CallsStart
   DEF Init, DeployedInv

\* Each operation of each contract.
LEMMA DeployedKeeps == ASSUME DeployedInv, Next PROVE DeployedInv'
<1>0. deployed' = deployed
  BY DEF Next
<1>1. ASSUME deployed = "multi" PROVE MultiInv'
  <2>1. MultiInv /\ Multi!Next
    BY <1>1 DEF DeployedInv, Next
  <2>2. Moves(Contracts, Multi!Entrypoints, MultiGood, {Nobody})
    BY <2>1, MultiMoves
  <2> QED BY <2>1, <2>2, MovesKeep DEF MultiInv
<1>2. ASSUME deployed = "nft" PROVE NftInv'
  <2>1. NftInv /\ Nft!Next
    BY <1>2 DEF DeployedInv, Next
  <2>2. Moves(Contracts, Nft!Entrypoints, NftGood, {Nobody})
    BY <2>1, NftMoves
  <2> QED BY <2>1, <2>2, MovesKeep DEF NftInv
<1>3. ASSUME deployed = "single" PROVE SingleInv'
  <2>1. SingleInv /\ Single!Next
    BY <1>3 DEF DeployedInv, Next
  <2>2. Moves(Contracts, Single!Entrypoints, Single!States, {Nobody})
    BY <2>1, SingleMoves
  <2> QED BY <2>1, <2>2, MovesKeep DEF SingleInv
<1>4. ASSUME deployed = "wccd" PROVE WccdInv'
  <2>1. WccdInv /\ Wccd!Next
    BY <1>4 DEF DeployedInv, Next
  <2> QED BY <2>1, WccdKeeps
<1>5. ASSUME deployed = "erc721" PROVE ErcInv'
  <2>1. ErcInv /\ Erc!Next
    BY <1>5 DEF DeployedInv, Next
  <2>2. Moves(Contracts, ErcCalls, ErcGood, {Nobody})
    BY <2>1, ErcMoves
  <2> QED BY <2>1, <2>2, MovesKeep DEF ErcInv
<1>6. ASSUME deployed = "two-step-transfer" PROVE TwoStepInv'
  <2>1. TwoStepInv /\ TwoStep!Next
    BY <1>6 DEF DeployedInv, Next
  <2>2. Moves(Contracts, TwoStep!Entrypoints, TwoStepGood, TwoStep!Targets)
    BY <2>1, TwoStepMoves
  <2> QED BY <2>1, <2>2, MovesKeep, TwoStepConstants DEF TwoStepInv
<1>7. ASSUME deployed = "memo" PROVE MemoInv'
  <2>1. MemoInv /\ Relay!MemoNext
    BY <1>7 DEF DeployedInv, Next
  <2> QED BY <2>1, MemoKeeps
<1>8. ASSUME deployed = "proxy" PROVE ProxyInv'
  <2>1. ProxyInv /\ Relay!ProxyNext
    BY <1>8 DEF DeployedInv, Next
  <2> QED BY <2>1, ProxyKeeps
<1>9. ASSUME deployed = "icecream" PROVE IcecreamInv'
  <2>1. IcecreamInv /\ Relay!IcecreamNext
    BY <1>9 DEF DeployedInv, Next
  <2> QED BY <2>1, IcecreamKeeps
<1>10. ASSUME deployed = "weather" PROVE WeatherInv'
  <2>1. WeatherInv /\ Relay!WeatherNext
    BY <1>10 DEF DeployedInv, Next
  <2> QED BY <2>1, WeatherKeeps
<1>11. ASSUME deployed = "piggy" PROVE PiggyInv'
  <2>1. PiggyInv /\ Piggy!Next
    BY <1>11 DEF DeployedInv, Next
  <2> QED BY <2>1, PiggyKeeps
<1>12. ASSUME deployed = "listing" PROVE ListInv'
  <2>1. ListInv /\ List!Next
    BY <1>12 DEF DeployedInv, Next
  <2> QED BY <2>1, ListMoves, ListKeeps
<1>13. ASSUME deployed = "recorder" PROVE RecorderInv'
  <2>1. RecorderInv /\ Rec!RecorderNext
    BY <1>13 DEF DeployedInv, Next
  <2>2. Moves(Contracts, Rec!RecorderEntrypoints, RecorderStates, RecorderLocals)
    BY <2>1, RecorderMoves
  <2> QED BY <2>1, <2>2, MovesKeep DEF RecorderInv, RecorderLocals
<1>14. ASSUME deployed = "counter-notify" PROVE CounterInv'
  <2>1. CounterInv /\ Rec!CounterNext
    BY <1>14 DEF DeployedInv, Next
  <2> QED BY <2>1, CounterKeeps
<1>15. ASSUME deployed = "auction" PROVE SaleInv'
  <2>1. SaleInv /\ Sale!Next
    BY <1>15 DEF DeployedInv, Next
  <2> QED BY <1>0, <1>15, <2>1, SaleKeeps
<1>16. /\ deployed = "fibonacci" => LeafInv'
       /\ deployed = "fib" => CallsInv'
  <2>1. /\ deployed = "fibonacci" => LeafInv /\ Fib!RecursiveNext
        /\ deployed = "fib" => CallsInv /\ Fib!ChainNext
    BY DEF DeployedInv, Next
  <2> QED BY <2>1, LeafKeeps, CallsKeep
<1> QED BY <1>0, <1>1, <1>2, <1>3, <1>4, <1>5, <1>6, <1>7, <1>8, <1>9, <1>10, <1>11, <1>12, <1>13, <1>14, <1>15, <1>16 DEF DeployedInv

\* A step that changes nothing.
LEMMA DeployedStays == ASSUME DeployedInv, UNCHANGED vars PROVE DeployedInv'
<1>0. UNCHANGED <<deployed, state, self_balance, stack, calls, outcome>>
  BY DEF vars
<1>1. /\ (MultiInv => MultiInv') /\ (NftInv => NftInv') /\ (SingleInv => SingleInv')
      /\ (ErcInv => ErcInv') /\ (TwoStepInv => TwoStepInv') /\ (RecorderInv => RecorderInv')
  BY <1>0 DEF MultiInv, NftInv, SingleInv, ErcInv, TwoStepInv, RecorderInv, InStates
<1>2. WccdInv => WccdInv'
  BY <1>0 DEF WccdInv, WccdArriving, Wccd!Idle, Wccd!Top
<1>3. ASSUME NEW E, NEW S, NEW L, NEW share, NEW arriving,
             RelayInv(E, S, L, share, arriving)
      PROVE  RelayInv(E, S, L, share, arriving)'
  BY <1>0, <1>3
     DEF RelayInv, InStates, Shared, Chain!Idle, Chain!Top,
         Sharing
<1>4. /\ (MemoInv => MemoInv') /\ (ProxyInv => ProxyInv')
      /\ (IcecreamInv => IcecreamInv') /\ (WeatherInv => WeatherInv')
  BY <1>3 DEF MemoInv, ProxyInv, IcecreamInv, WeatherInv
<1>5. ListInv => ListInv'
  BY <1>0 DEF ListInv, InStates, Shared, Chain!Idle, Chain!Top
<1>6. PiggyInv => PiggyInv'
  BY <1>0 DEF PiggyInv, InStates, Piggy!Idle, Piggy!Top
<1>7. CounterInv => CounterInv'
  BY <1>0 DEF CounterInv, InStates, Chain!Idle, Chain!Top
<1>8. SaleInv => SaleInv'
  <2>1. ASSUME NEW f, NEW todo, NEW remaining, SalePaying(f, todo, remaining)
        PROVE  SalePaying(f, todo, remaining)'
    BY <1>0, <2>1 DEF SalePaying
  <2>2. ASSUME NEW f, SaleBidding(f) PROVE SaleBidding(f)'
    BY <1>0, <2>2 DEF SaleBidding
  <2>3. ASSUME NEW f, SaleFinalizing(f) PROVE SaleFinalizing(f)'
    <3>1. SaleUntouched(f) => SaleUntouched(f)'
      BY <1>0 DEF SaleUntouched
    <3>2. SaleBegun(f) => SaleBegun(f)'
      BY <1>0, <2>1 DEF SaleBegun
    <3>3. SaleDone(f) => SaleDone(f)'
      BY <1>0, <2>1 DEF SaleDone
    <3> QED BY <2>3, <3>1, <3>2, <3>3 DEF SaleFinalizing
  <2> QED BY <1>0, <2>2, <2>3 DEF SaleInv
<1>9. (LeafInv => LeafInv') /\ (CallsInv => CallsInv')
  BY <1>0 DEF LeafInv, CallsInv
<1> QED BY <1>0, <1>1, <1>2, <1>4, <1>5, <1>6, <1>7, <1>8, <1>9 DEF DeployedInv

\* So in every behaviour.
LEMMA DeployedAlways == Spec => []DeployedInv
<1>1. Init => DeployedInv
  BY DeployedStarts
<1>2. DeployedInv /\ [Next]_vars => DeployedInv'
  BY DeployedKeeps, DeployedStays
<1> QED BY <1>1, <1>2, PTL DEF Spec

\* The four relaying contracts hold nothing between transactions.
LEMMA DeployedRelays ==
  ASSUME DeployedInv, deployed \in {"memo", "proxy", "icecream", "weather"}
  PROVE  Relay!NothingKept /\ Relay!TypeOK
<1>1. Services \subseteq Services \cup {"()", "Rainy", "Sunny"}
  OBVIOUS
<1>2. {"receive"} \subseteq Relay!Entrypoints /\ ProxyCalls \subseteq Relay!Entrypoints
      /\ IcecreamCalls \subseteq Relay!Entrypoints /\ WeatherCalls \subseteq Relay!Entrypoints
  BY DEF Relay!Entrypoints, ProxyCalls, IcecreamCalls, WeatherCalls
<1>3. /\ {Nobody} \subseteq {Nobody} \cup 0 .. MaxCCD
      /\ IcecreamLocals \subseteq {Nobody} \cup 0 .. MaxCCD
      /\ {"()"} \subseteq Services \cup {"()", "Rainy", "Sunny"}
      /\ Weathers \subseteq Services \cup {"()", "Rainy", "Sunny"}
  BY DEF IcecreamLocals, Weathers
<1>4. CASE deployed = "memo"
  BY <1>2, <1>3, <1>4, RelayHolds DEF DeployedInv, MemoInv
<1>5. CASE deployed = "proxy"
  BY <1>1, <1>2, <1>3, <1>5, RelayHolds DEF DeployedInv, ProxyInv
<1>6. CASE deployed = "icecream"
  BY <1>1, <1>2, <1>3, <1>6, RelayHolds DEF DeployedInv, IcecreamInv
<1>7. CASE deployed = "weather"
  BY <1>2, <1>3, <1>7, RelayHolds DEF DeployedInv, WeatherInv
<1> QED BY <1>4, <1>5, <1>6, <1>7

\* Whichever contract is deployed, its state, and every state that a rejection
\* would bring back, is well typed, at any depth of calls back.
THEOREM TypeCorrect == Spec => []TypeOK
<1>1. DeployedInv => TypeOK
  <2> SUFFICES ASSUME DeployedInv PROVE TypeOK
    OBVIOUS
  <2>1. ASSUME deployed = "multi" PROVE Multi!TypeOK
    <3>1. \A i \in DOMAIN stack : stack[i] \in Frame(Contracts, Multi!Entrypoints, Multi!States, {Nobody})
      BY <2>1, StackOfMore DEF DeployedInv, MultiInv, MultiGood
    <3> QED BY <2>1, <3>1
            DEF DeployedInv, MultiInv, MultiGood, InStates, Multi!TypeOK, Multi!Frame,
                Frame, Multi!Addresses, Addresses
  <2>2. ASSUME deployed = "nft" PROVE Nft!TypeOK
    <3>1. stack \in Seq(Frame(Contracts, Nft!Entrypoints, Nft!States, {Nobody}))
      BY <2>2, StackOfMore DEF DeployedInv, NftInv, NftGood
    <3> QED BY <2>2, <3>1
            DEF DeployedInv, NftInv, NftGood, InStates, Nft!TypeOK, Nft!Frame,
                Frame, Nft!Addresses, Addresses
  <2>3. ASSUME deployed = "single" PROVE Single!TypeOK
    <3>1. \A i \in DOMAIN stack : stack[i] \in Frame(Contracts, Single!Entrypoints, Single!States, {Nobody})
      BY <2>3, StackOfMore DEF DeployedInv, SingleInv
    <3> QED BY <2>3, <3>1
            DEF DeployedInv, SingleInv, InStates, Single!TypeOK, Single!Frame,
                Frame, Single!Addresses, Addresses
  <2>4. ASSUME deployed = "wccd" PROVE Wccd!TypeOK
    <3>1. \A i \in DOMAIN stack : stack[i] \in Frame(Contracts, Wccd!Entrypoints, Wccd!States, {Nobody})
      <4>1. stack \in Seq(WccdFrames)
        BY <2>4 DEF DeployedInv, WccdInv
      <4>2. \A i \in DOMAIN stack : stack[i] \in WccdFrames
        BY <4>1
      <4> QED BY <4>2 DEF WccdFrames
    <3> QED BY <2>4, <3>1
            DEF DeployedInv, WccdInv, Wccd!TypeOK, Wccd!Frame, Frame, Wccd!Addresses,
                Addresses
  <2>5. ASSUME deployed = "erc721" PROVE Erc!TypeOK
    <3>1. stack \in Seq(Frame(Contracts, ErcCalls, Erc!States, {Nobody}))
      BY <2>5, StackOfMore DEF DeployedInv, ErcInv, ErcGood
    <3> QED BY <2>5, <3>1
            DEF DeployedInv, ErcInv, ErcGood, ErcCalls, InStates, Erc!TypeOK, Erc!Frame,
                Frame, Erc!Addresses, Addresses
  <2>6. ASSUME deployed \in {"memo", "proxy", "icecream", "weather"}
        PROVE  Relay!TypeOK /\ Relay!NothingKept
    BY <2>6, DeployedRelays DEF DeployedInv
  <2> QED BY <2>1, <2>2, <2>3, <2>4, <2>5, <2>6, TwoStepHolds, PiggyHolds, ListHolds,
             RecorderHolds, CounterHolds
          DEF DeployedInv, TypeOK
<1> QED BY <1>1, DeployedAlways, PTL

\* A minted NFT has one holder, and no other token has any.
THEOREM OneHolder == Spec => []UniqueHolder
<1>1. DeployedInv => UniqueHolder
  BY DEF DeployedInv, NftInv, NftGood, InStates, UniqueHolder, Nft!UniqueHolder
<1> QED BY <1>1, DeployedAlways, PTL

\* No ERC721 approval outlives the ownership it was given under.
THEOREM ApprovalsLapse == Spec => []ApprovalsCurrent
<1>1. DeployedInv => ApprovalsCurrent
  BY DEF DeployedInv, ErcInv, ErcGood, InStates, ApprovalsCurrent, Erc!ApprovalsCurrent
<1> QED BY <1>1, DeployedAlways, PTL

\* The tokens of the multi token contract are those that were minted, and the
\* wrapped CCD are those the contract holds.
THEOREM SuppliesKept == Spec => []SupplyKept
<1>1. DeployedInv => SupplyKept
  <2> SUFFICES ASSUME DeployedInv PROVE SupplyKept
    OBVIOUS
  <2>1. deployed = "multi" => Multi!SupplyKept
    BY MultiSupply DEF DeployedInv, MultiInv, InStates, Multi!SupplyKept
  <2> QED BY <2>1, WccdBacked DEF DeployedInv, SupplyKept
<1> QED BY <1>1, DeployedAlways, PTL

\* The contracts that forward CCD, the listing contract and a smashed piggy
\* bank hold nothing between transactions, however calls nest and fail.
THEOREM EverythingForwarded == Spec => []NothingKept
<1>1. DeployedInv => NothingKept
  BY DeployedRelays, ListHolds, PiggyHolds DEF DeployedInv, NothingKept
<1> QED BY <1>1, DeployedAlways, PTL

\* Both Fibonacci contracts compute the Fibonacci numbers, the newer one by calls
\* to itself that share its state and find there what they returned.
THEOREM FibonacciRight == Spec => []FibAddsUp
<1>1. DeployedInv => FibAddsUp
  BY LeafHolds, CallsHold DEF DeployedInv, FibAddsUp
<1> QED BY <1>1, DeployedAlways, PTL

\* Tokens leave a holder in a transfer of the holder or of someone the holder
\* trusted with them, whatever the contracts that are called do.
THEOREM TransfersAuthorised == Spec => Consent
<1> DEFINE A == /\ deployed = "multi" => Multi!HolderConsents
                /\ deployed = "nft" => Nft!HolderConsents
                /\ deployed = "single" => Single!HolderConsents
                /\ deployed = "wccd" => Wccd!HolderConsents
                /\ deployed = "erc721" => Erc!OwnerConsents
<1>1. DeployedInv /\ [Next]_vars => [A]_vars
  <2> SUFFICES ASSUME DeployedInv, Next PROVE A
    OBVIOUS
  <2>1. /\ deployed = "multi" => MultiInv /\ Multi!Next
        /\ deployed = "nft" => NftInv /\ Nft!Next
        /\ deployed = "single" => SingleInv /\ Single!Next
        /\ deployed = "wccd" => WccdInv /\ Wccd!Next
        /\ deployed = "erc721" => ErcInv /\ Erc!Next
    BY DEF DeployedInv, Next
  <2> QED BY <2>1, MultiConsents, NftConsents, SingleConsents, WccdConsents, ErcConsents
<1> QED BY <1>1, DeployedAlways, PTL DEF Spec, Consent

\* CCD leave the two-step transfer contract only for a payment that enough
\* different holders have asked for.
THEOREM PaymentsAgreed == Spec => PaidAsAgreed
<1>1. DeployedInv /\ [Next]_vars => [deployed = "two-step-transfer" => TwoStep!PaidAsAgreed]_vars
  <2> SUFFICES ASSUME DeployedInv, Next, deployed = "two-step-transfer" PROVE TwoStep!PaidAsAgreed
    OBVIOUS
  <2>1. TwoStepInv /\ TwoStep!Next
    BY DEF DeployedInv, Next
  <2> QED BY <2>1, TwoStepPays
<1> QED BY <1>1, DeployedAlways, PTL DEF Spec, PaidAsAgreed

\* The auction that pays one account after another, each payment a call of its
\* own, does no more and no less than the auction that settles in one step: a
\* finalize that fails half-way has paid nobody.
THEOREM HostedImplements == Spec => ImplementsAuction
<1>1. Init => Sold!auction_init
  <2>1. ASSUME Init, deployed # "auction" PROVE Sold!auction_init
    BY <2>1 DEF Sold!auction_init, Sold!NotSoldYet, Stored, NoBids
  <2>2. ASSUME Init, deployed = "auction" PROVE Sold!auction_init
    <3>1. Sale!auction_init
      BY <2>2 DEF Init
    <3>2. stack = <<>> /\ self_balance = 0
      BY <3>1 DEF Sale!auction_init, Sale!HostInit
    <3>3. Stored = state /\ Sale!StoredBalance = 0
      BY <2>2, <3>2 DEF Stored, Sale!Stored, Sale!StoredBalance, Sale!Idle
    <3> QED BY <2>2, <3>1, <3>3 DEF Sale!auction_init, Sold!auction_init, Sold!NotSoldYet
  <2> QED BY <2>1, <2>2
<1>2. DeployedInv /\ [Next]_vars => [Sold!Next]_(Sold!vars)
  <2>1. ASSUME DeployedInv, Next, deployed = "auction" PROVE [Sold!Next]_(Sold!vars)
    <3>1. SaleInv /\ Sale!Next /\ deployed' = "auction"
      BY <2>1 DEF DeployedInv, Next
    <3> QED BY <2>1, <3>1, SaleKeeps, SaleRests
  <2>2. ASSUME Next, deployed # "auction" PROVE UNCHANGED Sold!vars
    BY <2>2, SaleRests DEF Next
  <2>3. ASSUME UNCHANGED vars PROVE UNCHANGED Sold!vars
    BY <2>3 DEF vars, Sold!vars, Stored, Sale!Stored, Sale!StoredBalance, Sale!Idle
  <2> QED BY <2>1, <2>2, <2>3
<1> QED BY <1>1, <1>2, DeployedAlways, PTL DEF Spec, ImplementsAuction, Sold!Spec
=============================================================================
