----------------------------- MODULE ExternHost -----------------------------
(***************************************************************************)
(* An instance between its memory and the node's state.  A call into the   *)
(* instance reads the root of the state, works on it in memory and, when   *)
(* it may change it, writes the root back at the end and before a call to  *)
(* another contract, which may call in again.  The root has a plain field  *)
(* and a StateBox field, whose content has an entry of its own and is      *)
(* cached in the box.                                                       *)
(***************************************************************************)
EXTENDS Lists

CONSTANTS
  Values,   \* values of both fields
  First,    \* the value of both after init
  MaxDepth  \* bound on the calls into the instance that are open

ExternHostAssumption == First \in Values /\ MaxDepth \in Nat

VARIABLES
  store,   \* the entries of the node: the plain field in the root, the box
  frames,  \* the open calls into the instance
  latest,  \* the last value given to each field, a record
  unsaved  \* a call was made with changes that were not written out, a record

vars == <<store, frames, latest, unsaved>>

State == [plain : Values, box : Values]

Init ==
  /\ store = [plain |-> First, box |-> First] /\ latest = store
  /\ frames = <<>> /\ unsaved = FALSE

\* StateBoxInner.
Reference == [loaded |-> FALSE]
Loaded(v, modified) == [loaded |-> TRUE, value |-> v, modified |-> modified]
Dirty(box) == box.loaded /\ box.modified

top == Last(frames)
Top(frame) == Append(Front(frames), frame)
Running == frames # <<>> /\ top.status = "running"
Calling == frames # <<>> /\ top.status \in {"calling", "reading"}

\* What a failed call is undone to, and the record with it.
Mark == [store |-> store, latest |-> latest]
Undo(mark) == store' = mark.store /\ latest' = mark.latest

-----------------------------------------------------------------------------
\* A call comes in: the box is a reference until it is used.  The record
\* starts anew with a call from outside.
Enter(mutable) ==
  /\ frames = <<>> \/ Calling
  /\ Len(frames) < MaxDepth
  /\ latest' = (IF frames = <<>> THEN store ELSE latest)
  /\ unsaved' = (frames # <<>> /\ unsaved)
  /\ frames' = Append(frames,
       [ mutable |-> mutable, status |-> "running", plain |-> store.plain, box |-> Reference,
         entered |-> [store |-> store, latest |-> latest'],
         called |-> [store |-> store, latest |-> latest'], changed |-> FALSE ])
  /\ UNCHANGED store

\* state_mut().
SetPlain(v) ==
  /\ Running /\ top.mutable
  /\ frames' = Top([top EXCEPT !.plain = v])
  /\ latest' = [latest EXCEPT !.plain = v]
  /\ UNCHANGED <<store, unsaved>>

Cached(box) == IF box.loaded THEN box ELSE Loaded(store.box, FALSE)

BoxGet ==
  /\ Running
  /\ frames' = Top([top EXCEPT !.box = Cached(@)])
  /\ UNCHANGED <<store, latest, unsaved>>

\* The new value stays in memory until the box is dropped.
BoxGetMut(v) ==
  /\ Running /\ top.mutable
  /\ frames' = Top([top EXCEPT !.box = Loaded(v, TRUE)])
  /\ latest' = [latest EXCEPT !.box = v]
  /\ UNCHANGED <<store, unsaved>>

\* replace and update write it to the entry too.
BoxUpdate(v) ==
  /\ Running /\ top.mutable
  /\ frames' = Top([top EXCEPT !.box = [Cached(@) EXCEPT !.value = v]])
  /\ store' = [store EXCEPT !.box = v]
  /\ latest' = [latest EXCEPT !.box = v]
  /\ UNCHANGED unsaved

-----------------------------------------------------------------------------
\* commit_state writes the root, where the box is no more than its location.
Committed_not(frame) == store
Committed(frame) == [store EXCEPT !.plain = frame.plain]

invoke_contract_raw ==
  /\ Running /\ top.mutable
  /\ store' = Committed(top)
  /\ frames' = Top([top EXCEPT !.status = "calling", !.changed = FALSE,
                               !.called = [store |-> store', latest |-> latest]])
  /\ unsaved' = (unsaved \/ Dirty(top.box))
  /\ UNCHANGED latest

\* A read-only call commits nothing.
invoke_contract_raw_read_only ==
  /\ Running
  /\ frames' = Top([top EXCEPT !.status = "reading", !.changed = FALSE, !.called = Mark])
  /\ unsaved' = (unsaved \/ store # latest)
  /\ UNCHANGED <<store, latest>>

\* The call failed.
ReturnErr ==
  /\ Calling
  /\ Undo(top.called)
  /\ frames' = Top([top EXCEPT !.status = "running"])
  /\ UNCHANGED unsaved

Unchanged ==
  /\ Calling /\ ~top.changed
  /\ frames' = Top([top EXCEPT !.status = "running"])
  /\ UNCHANGED <<store, latest, unsaved>>

\* The instance was changed meanwhile: the state is read anew, and the old one
\* is dropped, with its box.
Refresh ==
  /\ Calling /\ top.status = "calling" /\ top.changed
  /\ frames' = Top([top EXCEPT !.status = "running", !.plain = store.plain, !.box = Reference])
  /\ store' = IF Dirty(top.box) THEN [store EXCEPT !.box = top.box.value] ELSE store
  /\ UNCHANGED <<latest, unsaved>>

-----------------------------------------------------------------------------
\* The end of a call.  The caller, if it is this instance, learns of it.
Leave(changed) ==
  frames' = IF Len(frames) = 1 THEN <<>>
            ELSE [Front(frames) EXCEPT ![Len(frames) - 1].changed = @ \/ changed]

\* The state is written when the entry point is mutable, and the box is
\* dropped after that.
Exit ==
  LET written == IF top.mutable THEN Committed(top) ELSE store
  IN  /\ Running
      /\ store' = IF Dirty(top.box) THEN [written EXCEPT !.box = top.box.value] ELSE written
      /\ Leave(top.mutable)
      /\ UNCHANGED <<latest, unsaved>>

\* The contract rejects, or traps at any time.  What was dropped meanwhile is
\* undone with the rest.
Fail ==
  /\ Running
  /\ Undo(top.entered)
  /\ Leave(FALSE)
  /\ UNCHANGED unsaved

\* A trap on the way back from a call: a read-only call that changed the
\* instance, or a box dropped onto an entry of the state before the call,
\* which the node may have invalidated.
TrapOnReturn ==
  /\ Calling /\ top.changed
  /\ top.status = "reading" \/ Dirty(top.box)
  /\ Undo(top.entered)
  /\ Leave(FALSE)
  /\ UNCHANGED unsaved

Next ==
  \/ \E mutable \in BOOLEAN : Enter(mutable)
  \/ \E v \in Values : SetPlain(v) \/ BoxGetMut(v) \/ BoxUpdate(v)
  \/ BoxGet \/ invoke_contract_raw \/ invoke_contract_raw_read_only
  \/ Unchanged \/ Refresh \/ ReturnErr \/ Exit \/ Fail \/ TrapOnReturn

Spec == Init /\ [][Next]_vars

-----------------------------------------------------------------------------
Boxes == {Reference} \cup [loaded : {TRUE}, value : Values, modified : BOOLEAN]
Marks == [store : State, latest : State]
Frames == [ mutable : BOOLEAN, status : {"running", "calling", "reading"}, plain : Values,
            box : Boxes, entered : Marks, called : Marks, changed : BOOLEAN ]

TypeOK ==
  /\ store \in State /\ latest \in State /\ unsaved \in BOOLEAN
  /\ Len(frames) <= MaxDepth /\ \A i \in DOMAIN frames : frames[i] \in Frames

\* A call in, between two calls or while a call out is on its way, finds what
\* was last assigned, through failed calls, calls back into the instance and
\* traps, provided that no call out is made with a change that is only in a
\* box's memory, and no read-only one with a change that is not committed.
CallsSeeLatest == (frames = <<>> \/ Calling) /\ ~unsaved => store = latest
=============================================================================
