---------------------------- MODULE LibraryProofs ----------------------------
(***************************************************************************)
(* Theorems about the libraries for all their parameters: a section for    *)
(* each library, and their invariants on the composed specification.       *)
(***************************************************************************)
EXTENDS DataProofs

\* Each library takes its own steps or rests.
LEMMA Steps ==
  ASSUME [Next]_vars
  PROVE  /\ [Ext!Next]_extern /\ [Mocked!Next]_mocked /\ [Entry!Next]_entry
         /\ [Value!Next]_value /\ [Tree!Next]_tree /\ [Builder!Next]_builder
         /\ [Wire!Next]_wire
<1>1. CASE Next
  BY <1>1 DEF Next
<1>2. CASE UNCHANGED vars
  BY <1>2 DEF vars
<1> QED BY <1>1, <1>2

-----------------------------------------------------------------------------
(* An instance between memory and the node: a call finds what was assigned   *)
(* last, however deep the calls nest.                                        *)

\* A call was undone to, or began, with everything assigned written out.
Settled(mark) == mark.store = mark.latest

\* What the call holds in memory is what the node has.
Sees(plain, box, s) == plain = s.plain /\ (box.loaded => box.value = s.box)

\* What is known of a call wherever it is in the stack; u is `unsaved`.
CallInv(mutable, status, plain, box, began, called, u) ==
  /\ mutable \/ (~Ext!Dirty(box) /\ status # "calling")
  /\ ~u => /\ Settled(began)
           /\ status # "running" =>
                /\ Settled(called) /\ Sees(plain, box, called.store)
                /\ status = "calling" => ~Ext!Dirty(box)
                /\ ~mutable => called.store = began.store
FrameInv(f, u) ==
  CallInv(f.mutable, f.status, f.plain, f.box, f.entered, f.called, u)

\* A call and the one it led to: undoing the second leaves what the first knows.
PairInv(f, g, u) ==
  /\ f.status # "running"
  /\ ~u /\ ~f.changed => g.entered.store = f.called.store

\* The call on top accounts for the node's state s and the record l.
TopInv(f, s, l) ==
  IF f.status # "running" THEN s = l /\ (~f.changed => s = f.called.store)
  ELSE IF ~f.mutable THEN s = l /\ s = f.entered.store /\ Sees(f.plain, f.box, s)
  ELSE /\ l.plain = f.plain
       /\ l.box = IF Ext!Dirty(f.box) THEN f.box.value ELSE s.box
       /\ f.box.loaded /\ ~Ext!Dirty(f.box) => f.box.value = s.box

HostTyped ==
  /\ saved \in Ext!State /\ assigned \in Ext!State /\ unsaved \in BOOLEAN
  /\ frames \in Seq(Ext!Frames)

StackInv(fs, s, l, u) ==
  /\ \A i \in 1 .. Len(fs) : FrameInv(fs[i], u)
  /\ \A i \in 1 .. Len(fs) - 1 : PairInv(fs[i], fs[i + 1], u)
  /\ ~u => IF fs = <<>> THEN s = l ELSE TopInv(fs[Len(fs)], s, l)

HostInv == HostTyped /\ StackInv(frames, saved, assigned, unsaved)

\* Sequences whose last element is dropped or replaced.
LEMMA FrontLast ==
  ASSUME NEW T, NEW s \in Seq(T), s # <<>>
  PROVE  /\ Len(s) \in Nat /\ Len(s) > 0 /\ Last(s) = s[Len(s)] /\ Last(s) \in T
         /\ Front(s) \in Seq(T) /\ Len(Front(s)) = Len(s) - 1
         /\ \A i \in 1 .. Len(s) - 1 : Front(s)[i] = s[i]
<1>1. Len(s) \in Nat /\ Len(s) > 0
  OBVIOUS
<1> DEFINE n == Len(s) - 1
<1>2. n \in Nat /\ n < Len(s)
  BY <1>1
<1> HIDE DEF n
<1>3. /\ SubSeq(s, 1, n) \in Seq(T) /\ Len(SubSeq(s, 1, n)) = n
      /\ \A i \in 1 .. n : SubSeq(s, 1, n)[i] = s[i]
  BY <1>2
<1>4. Front(s) = SubSeq(s, 1, n)
  BY DEF Front, n
<1>5. Front(s) \in Seq(T) /\ Len(Front(s)) = n /\ \A i \in 1 .. n : Front(s)[i] = s[i]
  BY <1>3, <1>4
<1>6. Last(s) = s[Len(s)] /\ Last(s) \in T
  BY <1>1 DEF Last
<1> QED BY <1>1, <1>5, <1>6 DEF n

Replaced(s, x) == Append(Front(s), x)

\* A sequence whose last element is replaced.
LEMMA ReplaceLast ==
  ASSUME NEW T, NEW s \in Seq(T), s # <<>>, NEW x \in T
  PROVE  /\ Replaced(s, x) \in Seq(T) /\ Replaced(s, x) # <<>>
         /\ Len(Replaced(s, x)) = Len(s) /\ Replaced(s, x)[Len(s)] = x
         /\ \A i \in 1 .. Len(s) - 1 : Replaced(s, x)[i] = s[i]
<1>1. /\ Front(s) \in Seq(T) /\ Len(Front(s)) = Len(s) - 1 /\ Len(s) \in Nat /\ Len(s) > 0
      /\ \A i \in 1 .. Len(s) - 1 : Front(s)[i] = s[i]
  BY FrontLast
<1> DEFINE f == Front(s)
           r == Replaced(s, x)
<1> HIDE DEF f, r
<1>2. f \in Seq(T) /\ Len(f) = Len(s) - 1 /\ \A i \in 1 .. Len(s) - 1 : f[i] = s[i]
  BY <1>1 DEF f
<1>3. r = Append(f, x)
  BY DEF f, r, Replaced
<1>4. r \in Seq(T) /\ Len(r) = Len(f) + 1 /\ r[Len(f) + 1] = x
      /\ \A i \in 1 .. Len(f) : r[i] = f[i]
  BY <1>2, <1>3
<1> QED BY <1>1, <1>2, <1>4 DEF r

\* What the module of the host takes from that of the sequences.
LEMMA HostSequences ==
  /\ \A s : Ext!Last(s) = Last(s) /\ Ext!Front(s) = Front(s)
  /\ Ext!top = Last(frames) /\ \A f : Ext!Top(f) = Append(Front(frames), f)
<1>1. \A s : Ext!Last(s) = Last(s) /\ Ext!Front(s) = Front(s)
  BY DEF Ext!Last, Ext!Front, Last, Front
<1> QED BY <1>1 DEF Ext!top, Ext!Top

\* The running or waiting call on top.
LEMMA TopFrame ==
  ASSUME HostInv, frames # <<>>
  PROVE  /\ Ext!top \in Ext!Frames /\ FrameInv(Ext!top, unsaved)
         /\ ~unsaved => TopInv(Ext!top, saved, assigned)
<1>1. Ext!top = frames[Len(frames)] /\ Len(frames) \in 1 .. Len(frames) /\ Ext!top \in Ext!Frames
  <2>1. /\ Len(frames) \in Nat /\ Len(frames) > 0
        /\ Last(frames) = frames[Len(frames)] /\ Last(frames) \in Ext!Frames
    BY FrontLast DEF HostInv, HostTyped
  <2> QED BY <2>1, HostSequences
<1> QED BY <1>1 DEF HostInv, StackInv

\* A step of the call on top, to the frame f.
LEMMA TopKeeps ==
  ASSUME HostInv, frames # <<>>, NEW f \in Ext!Frames, frames' = Ext!Top(f),
         saved' \in Ext!State, assigned' \in Ext!State, unsaved' \in BOOLEAN, unsaved => unsaved',
         f.entered = Ext!top.entered, FrameInv(f, unsaved'),
         ~unsaved' => TopInv(f, saved', assigned')
  PROVE  HostInv'
<1>1. /\ frames' \in Seq(Ext!Frames) /\ frames' # <<>> /\ Len(frames') = Len(frames)
      /\ frames'[Len(frames')] = f
      /\ \A i \in 1 .. Len(frames) - 1 : frames'[i] = frames[i]
  <2>1. frames \in Seq(Ext!Frames) /\ frames' = Append(Front(frames), f)
    BY HostSequences DEF HostInv, HostTyped
  <2>2. frames' = Replaced(frames, f)
    BY <2>1 DEF Replaced
  <2>3. frames \in Seq(Ext!Frames) /\ frames # <<>> /\ f \in Ext!Frames
    BY <2>1
  <2>4. /\ Replaced(frames, f) \in Seq(Ext!Frames) /\ Replaced(frames, f) # <<>>
        /\ Len(Replaced(frames, f)) = Len(frames) /\ Replaced(frames, f)[Len(frames)] = f
        /\ \A i \in 1 .. Len(frames) - 1 : Replaced(frames, f)[i] = frames[i]
    BY <2>3, ReplaceLast
  <2> QED BY <2>2, <2>4, Zenon
<1>2. /\ Len(frames) \in Nat /\ Len(frames) > 0 /\ Ext!top = frames[Len(frames)]
  BY FrontLast, HostSequences DEF HostInv, HostTyped
<1>3. HostTyped'
  BY <1>1 DEF HostTyped
<1>4. ASSUME NEW i \in 1 .. Len(frames') PROVE FrameInv(frames'[i], unsaved')
  <2>1. CASE i = Len(frames)
    BY <1>1, <2>1
  <2>2. CASE i # Len(frames)
    <3>1. i \in 1 .. Len(frames) /\ frames'[i] = frames[i]
      BY <1>1, <1>2, <2>2
    <3>2. FrameInv(frames[i], unsaved)
      BY <3>1 DEF HostInv, StackInv
    <3> QED BY <3>1, <3>2 DEF FrameInv, CallInv
  <2> QED BY <2>1, <2>2
<1>5. ASSUME NEW i \in 1 .. Len(frames') - 1
      PROVE  PairInv(frames'[i], frames'[i + 1], unsaved')
  <2>1. i \in 1 .. Len(frames) - 1 /\ frames'[i] = frames[i]
    BY <1>1
  <2>2. frames'[i + 1].entered = frames[i + 1].entered
    <3>1. CASE i + 1 = Len(frames)
      BY <1>1, <1>2, <3>1
    <3>2. CASE i + 1 # Len(frames)
      BY <1>1, <1>2, <2>1, <3>2
    <3> QED BY <3>1, <3>2
  <2>3. PairInv(frames[i], frames[i + 1], unsaved)
    BY <2>1 DEF HostInv, StackInv
  <2> QED BY <2>1, <2>2, <2>3 DEF PairInv
<1> QED BY <1>1, <1>3, <1>4, <1>5 DEF HostInv, StackInv

\* A call ends, undone or not, and the call that led to it is told.
LEMMA LeaveKeeps ==
  ASSUME HostInv, frames # <<>>, NEW changed \in BOOLEAN, Ext!Leave(changed),
         saved' \in Ext!State, assigned' \in Ext!State, unsaved' = unsaved,
         ~unsaved => saved' = assigned' /\ (changed \/ saved' = Ext!top.entered.store)
  PROVE  HostInv'
<1>1. /\ frames \in Seq(Ext!Frames) /\ Len(frames) \in Nat /\ Len(frames) > 0
      /\ Ext!top = frames[Len(frames)]
      /\ Front(frames) \in Seq(Ext!Frames) /\ Len(Front(frames)) = Len(frames) - 1
      /\ \A i \in 1 .. Len(frames) - 1 : Front(frames)[i] = frames[i]
  BY FrontLast, HostSequences DEF HostInv, HostTyped
<1>2. CASE Len(frames) = 1
  <2>1. frames' = <<>>
    BY <1>2 DEF Ext!Leave
  <2>2. HostTyped'
    BY <2>1 DEF HostInv, HostTyped
  <2> QED BY <2>1, <2>2 DEF HostInv, StackInv
<1>3. CASE Len(frames) # 1
  <2> DEFINE n == Len(frames) - 1
             front == Front(frames)
             below == [frames[n] EXCEPT !.changed = @ \/ changed]
  <2>1. n \in Nat /\ n > 0 /\ n \in 1 .. n /\ n < Len(frames) /\ n + 1 = Len(frames)
    BY <1>1, <1>3
  <2>2. frames' = [front EXCEPT ![n] = [front[n] EXCEPT !.changed = @ \/ changed]]
    BY <1>3, HostSequences DEF Ext!Leave
  <2>3. front \in Seq(Ext!Frames) /\ Len(front) = n /\ \A i \in 1 .. n : front[i] = frames[i]
    BY <1>1
  <2>4. frames[n] \in Ext!Frames
    BY <1>1, <2>1
  <2> HIDE DEF n, front
  <2>5. frames' = [front EXCEPT ![n] = below]
    BY <2>1, <2>2, <2>3
  <2>6. /\ below \in Ext!Frames /\ below.entered = frames[n].entered /\ below.called = frames[n].called
        /\ below.mutable = frames[n].mutable /\ below.status = frames[n].status
        /\ below.plain = frames[n].plain /\ below.box = frames[n].box
        /\ below.changed = (frames[n].changed \/ changed)
    BY <2>4 DEF Ext!Frames
  <2> HIDE DEF below
  <2>7. /\ frames' \in Seq(Ext!Frames) /\ Len(frames') = n /\ frames'[n] = below /\ frames' # <<>>
        /\ \A i \in 1 .. n - 1 : frames'[i] = frames[i]
    BY <2>1, <2>3, <2>5, <2>6
  <2>8. HostTyped'
    BY <2>7 DEF HostInv, HostTyped
  <2>9. ASSUME NEW i \in 1 .. n PROVE FrameInv(frames'[i], unsaved')
    <3>1. FrameInv(frames[i], unsaved)
      BY <2>1 DEF HostInv, StackInv
    <3>2. CASE i = n
      <4>1. FrameInv(frames[n], unsaved)
        BY <3>1, <3>2
      <4>2. FrameInv(below, unsaved)
        BY <2>6, <4>1 DEF FrameInv
      <4> QED BY <2>7, <3>2, <4>2
    <3>3. CASE i # n
      <4>1. frames'[i] = frames[i]
        BY <2>1, <2>7, <3>3
      <4> QED BY <3>1, <4>1
    <3> QED BY <3>2, <3>3
  <2>10. ASSUME NEW i \in 1 .. n - 1 PROVE PairInv(frames'[i], frames'[i + 1], unsaved')
    <3>1. PairInv(frames[i], frames[i + 1], unsaved)
      BY <2>1 DEF HostInv, StackInv
    <3>2. frames'[i] = frames[i]
      BY <2>7
    <3>3. frames'[i + 1].entered = frames[i + 1].entered
      <4>1. CASE i + 1 = n
        BY <2>6, <2>7, <4>1
      <4>2. CASE i + 1 # n
        BY <2>1, <2>7, <4>2
      <4> QED BY <4>1, <4>2
    <3> QED BY <3>1, <3>2, <3>3 DEF PairInv
  <2>11. ~unsaved => TopInv(below, saved', assigned')
    <3>1. PairInv(frames[n], Ext!top, unsaved)
      BY <1>1, <2>1 DEF HostInv, StackInv
    <3> QED BY <2>6, <3>1 DEF PairInv, TopInv
  <2> QED BY <2>7, <2>8, <2>9, <2>10, <2>11 DEF HostInv, StackInv
<1> QED BY <1>2, <1>3

\* A call comes in and finds the node's state.
LEMMA CallKeeps ==
  ASSUME HostInv, NEW mutable \in BOOLEAN, Ext!Enter(mutable)
  PROVE  HostInv'
<1> DEFINE f == [ mutable |-> mutable, status |-> "running", plain |-> saved.plain,
                  box |-> Ext!Reference, entered |-> [store |-> saved, latest |-> assigned'],
                  called |-> [store |-> saved, latest |-> assigned'], changed |-> FALSE ]
<1>1. /\ saved' = saved /\ frames' = Append(frames, f)
      /\ assigned' = (IF frames = <<>> THEN saved ELSE assigned)
      /\ unsaved' = (frames # <<>> /\ unsaved)
      /\ frames = <<>> \/ Ext!Calling
  BY DEF Ext!Enter
<1>2. /\ saved \in Ext!State /\ assigned \in Ext!State /\ unsaved \in BOOLEAN /\ frames \in Seq(Ext!Frames)
  BY DEF HostInv, HostTyped
<1>3. assigned' \in Ext!State /\ unsaved' \in BOOLEAN
  BY <1>1, <1>2
<1>4. f \in Ext!Frames
  BY <1>2, <1>3 DEF Ext!Frames, Ext!Boxes, Ext!Marks, Ext!State
<1>5. ~unsaved' => assigned' = saved /\ (frames # <<>> /\ ~Ext!top.changed => saved = Ext!top.called.store)
  <2>1. CASE frames = <<>>
    BY <1>1, <2>1
  <2>2. CASE frames # <<>>
    <3>1. Ext!top.status # "running"
      BY <1>1, <2>2 DEF Ext!Calling
    <3> QED BY <1>1, <2>2, <3>1, TopFrame DEF TopInv
  <2> QED BY <2>1, <2>2
<1>6. /\ f.mutable = mutable /\ f.status = "running" /\ f.plain = saved.plain /\ f.box = Ext!Reference
      /\ f.entered = [store |-> saved, latest |-> assigned'] /\ f.called = f.entered
  OBVIOUS
<1> HIDE DEF f
<1>7. ~Ext!Reference.loaded /\ ~Ext!Dirty(Ext!Reference)
  BY DEF Ext!Reference, Ext!Dirty
<1>8. FrameInv(f, unsaved')
  <2>1. ~unsaved' => Settled(f.entered)
    BY <1>5, <1>6 DEF Settled
  <2> QED BY <1>6, <1>7, <2>1 DEF FrameInv, CallInv
<1>9. ~unsaved' => TopInv(f, saved', assigned')
  <2>1. Sees(f.plain, f.box, saved)
    BY <1>6, <1>7 DEF Sees
  <2>2. f.entered.store = saved
    BY <1>6
  <2> QED BY <1>1, <1>5, <1>6, <1>7, <2>1, <2>2 DEF TopInv
<1> DEFINE n == Len(frames)
<1>10. /\ frames' \in Seq(Ext!Frames) /\ Len(frames') = n + 1 /\ frames'[n + 1] = f /\ n \in Nat
       /\ \A i \in 1 .. n : frames'[i] = frames[i] /\ frames' # <<>>
  BY <1>1, <1>2, <1>4
<1>11. frames' # <<>>
  BY <1>1, <1>2, <1>4
<1>12. HostTyped'
  BY <1>1, <1>2, <1>3, <1>10 DEF HostTyped
<1> HIDE DEF n
<1>13. n > 0 => frames # <<>> /\ unsaved' = unsaved /\ Ext!top = frames[n]
  <2>1. n > 0 => frames # <<>>
    BY <1>2 DEF n
  <2>2. frames # <<>> => Ext!top = frames[n]
    BY <1>2, FrontLast, HostSequences DEF n
  <2>3. frames # <<>> => unsaved' = unsaved
    BY <1>1, <1>2
  <2> QED BY <2>1, <2>2, <2>3
<1>14. ASSUME NEW i \in 1 .. n + 1 PROVE FrameInv(frames'[i], unsaved')
  <2>1. CASE i = n + 1
    BY <1>8, <1>10, <2>1
  <2>2. CASE i # n + 1
    <3>1. i \in 1 .. n /\ n > 0 /\ frames'[i] = frames[i]
      BY <1>10, <2>2
    <3>2. FrameInv(frames[i], unsaved)
      BY <3>1 DEF HostInv, StackInv, n
    <3> QED BY <1>13, <3>1, <3>2
  <2> QED BY <2>1, <2>2
<1>15. ASSUME NEW i \in 1 .. n PROVE PairInv(frames'[i], frames'[i + 1], unsaved')
  <2>1. n > 0 /\ frames'[i] = frames[i]
    BY <1>10
  <2>2. CASE i = n
    <3>1. frames'[i] = Ext!top /\ frames'[i + 1] = f
      BY <1>10, <1>13, <2>1, <2>2
    <3>2. Ext!top.status # "running"
      BY <1>1, <1>13, <2>1 DEF Ext!Calling
    <3>3. f.entered.store = saved
      BY <1>6
    <3>4. ~unsaved' /\ ~Ext!top.changed => f.entered.store = Ext!top.called.store
      BY <1>5, <1>13, <2>1, <3>3
    <3> QED BY <3>1, <3>2, <3>4 DEF PairInv
  <2>3. CASE i # n
    <3>1. i \in 1 .. n - 1 /\ frames'[i + 1] = frames[i + 1]
      BY <1>10, <2>3
    <3>2. PairInv(frames[i], frames[i + 1], unsaved)
      BY <3>1 DEF HostInv, StackInv, n
    <3> QED BY <1>13, <2>1, <3>1, <3>2
  <2> QED BY <2>2, <2>3
<1>16. /\ Len(frames') - 1 = n /\ frames'[Len(frames')] = f
  BY <1>10
<1> QED BY <1>9, <1>10, <1>11, <1>12, <1>14, <1>15, <1>16 DEF HostInv, StackInv

\* The root as commit_state writes it.
LEMMA CommittedState ==
  ASSUME NEW s \in Ext!State, NEW f \in Ext!Frames, s = saved
  PROVE  /\ Ext!Committed(f) \in Ext!State /\ Ext!Committed(f).plain = f.plain
         /\ Ext!Committed(f).box = s.box
BY DEF Ext!Committed, Ext!State, Ext!Frames

\* A state is its two fields.
LEMMA SameState ==
  ASSUME NEW s \in Ext!State, NEW t \in Ext!State, s.plain = t.plain, s.box = t.box
  PROVE  s = t
BY DEF Ext!State

\* A box that was changed has a value.
LEMMA DirtyValue ==
  ASSUME NEW box \in Ext!Boxes, Ext!Dirty(box)
  PROVE  box.value \in FieldValues
<1>1. CASE box = Ext!Reference
  <2>1. ~box.loaded
    BY <1>1 DEF Ext!Reference
  <2> QED BY <2>1 DEF Ext!Dirty
<1>2. CASE box \in [loaded : {TRUE}, value : FieldValues, modified : BOOLEAN]
  BY <1>2
<1> QED BY <1>1, <1>2 DEF Ext!Boxes

\* Using a box loads it.
LEMMA CachedBox ==
  ASSUME NEW box \in Ext!Boxes, saved \in Ext!State
  PROVE  /\ Ext!Cached(box) \in [loaded : {TRUE}, value : FieldValues, modified : BOOLEAN]
         /\ Ext!Cached(box).loaded /\ (Ext!Dirty(Ext!Cached(box)) <=> Ext!Dirty(box))
         /\ box.loaded => Ext!Cached(box) = box
         /\ ~box.loaded => Ext!Cached(box).value = saved.box
<1>1. CASE box = Ext!Reference
  <2>1. ~box.loaded /\ ~Ext!Dirty(box)
    BY <1>1 DEF Ext!Reference, Ext!Dirty
  <2>2. Ext!Cached(box) = [loaded |-> TRUE, value |-> saved.box, modified |-> FALSE]
    BY <2>1 DEF Ext!Cached, Ext!Loaded
  <2> QED BY <2>1, <2>2 DEF Ext!Dirty, Ext!State
<1>2. CASE box \in [loaded : {TRUE}, value : FieldValues, modified : BOOLEAN]
  <2>1. box.loaded
    BY <1>2
  <2>2. Ext!Cached(box) = box
    BY <2>1 DEF Ext!Cached
  <2> QED BY <1>2, <2>1, <2>2
<1> QED BY <1>1, <1>2 DEF Ext!Boxes

\* Assignments and reads of the running call.
LEMMA AssignKeeps ==
  ASSUME HostInv, NEW v \in FieldValues, Ext!SetPlain(v) \/ Ext!BoxGetMut(v) \/ Ext!BoxUpdate(v) \/ Ext!BoxGet
  PROVE  HostInv'
<1>1. /\ frames # <<>> /\ Ext!top \in Ext!Frames /\ FrameInv(Ext!top, unsaved) /\ Ext!top.status = "running"
      /\ ~unsaved => TopInv(Ext!top, saved, assigned)
      /\ saved \in Ext!State /\ assigned \in Ext!State /\ unsaved \in BOOLEAN
  BY TopFrame DEF Ext!SetPlain, Ext!BoxGetMut, Ext!BoxUpdate, Ext!BoxGet, Ext!Running, HostInv, HostTyped
<1>2. Ext!top.box \in Ext!Boxes
  BY <1>1 DEF Ext!Frames
<1>3. CASE Ext!SetPlain(v)
  <2> DEFINE f == [Ext!top EXCEPT !.plain = v]
             l == [assigned EXCEPT !.plain = v]
  <2>1. /\ f \in Ext!Frames /\ f.plain = v /\ f.box = Ext!top.box /\ f.entered = Ext!top.entered
        /\ f.status = Ext!top.status /\ f.mutable = Ext!top.mutable /\ f.called = Ext!top.called
    BY <1>1 DEF Ext!Frames
  <2>2. l \in Ext!State /\ l.plain = v /\ l.box = assigned.box
    BY <1>1 DEF Ext!State
  <2>3. frames' = Ext!Top(f) /\ assigned' = l /\ saved' = saved /\ unsaved' = unsaved /\ Ext!top.mutable
    BY <1>3 DEF Ext!SetPlain
  <2> HIDE DEF f, l
  <2>4. FrameInv(f, unsaved)
    BY <1>1, <2>1, <2>3 DEF FrameInv, CallInv
  <2>5. ~unsaved => TopInv(f, saved, l)
    BY <1>1, <2>1, <2>2, <2>3 DEF TopInv
  <2> QED BY <1>1, <2>1, <2>2, <2>3, <2>4, <2>5, TopKeeps
<1>4. CASE Ext!BoxGetMut(v)
  <2> DEFINE box == Ext!Loaded(v, TRUE)
             f == [Ext!top EXCEPT !.box = box]
             l == [assigned EXCEPT !.box = v]
  <2>1. box \in Ext!Boxes /\ box.value = v /\ Ext!Dirty(box)
    BY DEF Ext!Boxes, Ext!Loaded, Ext!Dirty
  <2> HIDE DEF box
  <2>2. /\ f \in Ext!Frames /\ f.plain = Ext!top.plain /\ f.box = box /\ f.entered = Ext!top.entered
        /\ f.status = Ext!top.status /\ f.mutable = Ext!top.mutable /\ f.called = Ext!top.called
    BY <1>1, <2>1 DEF Ext!Frames
  <2>3. l \in Ext!State /\ l.plain = assigned.plain /\ l.box = v
    BY <1>1 DEF Ext!State
  <2>4. frames' = Ext!Top(f) /\ assigned' = l /\ saved' = saved /\ unsaved' = unsaved /\ Ext!top.mutable
    BY <1>4 DEF Ext!BoxGetMut, box
  <2> HIDE DEF f, l
  <2>5. FrameInv(f, unsaved)
    BY <1>1, <2>2, <2>4 DEF FrameInv, CallInv
  <2>6. ~unsaved => TopInv(f, saved, l)
    BY <1>1, <2>1, <2>2, <2>3, <2>4 DEF TopInv
  <2> QED BY <1>1, <2>2, <2>3, <2>4, <2>5, <2>6, TopKeeps
<1>5. CASE Ext!BoxGet
  <2> DEFINE box == Ext!Cached(Ext!top.box)
             f == [Ext!top EXCEPT !.box = box]
  <2>1. /\ box \in [loaded : {TRUE}, value : FieldValues, modified : BOOLEAN]
        /\ box.loaded /\ (Ext!Dirty(box) <=> Ext!Dirty(Ext!top.box))
        /\ Ext!top.box.loaded => box = Ext!top.box
        /\ ~Ext!top.box.loaded => box.value = saved.box
    BY <1>1, <1>2, CachedBox
  <2>2. frames' = Ext!Top(f) /\ assigned' = assigned /\ saved' = saved /\ unsaved' = unsaved
    BY <1>5 DEF Ext!BoxGet
  <2> HIDE DEF box
  <2>3. /\ f \in Ext!Frames /\ f.plain = Ext!top.plain /\ f.box = box /\ f.entered = Ext!top.entered
        /\ f.status = Ext!top.status /\ f.mutable = Ext!top.mutable /\ f.called = Ext!top.called
    BY <1>1, <2>1 DEF Ext!Frames, Ext!Boxes
  <2> HIDE DEF f
  <2>4. FrameInv(f, unsaved)
    BY <1>1, <2>1, <2>3 DEF FrameInv, CallInv
  <2>5. ~unsaved => TopInv(f, saved, assigned)
    <3>1. ~Ext!top.box.loaded => ~Ext!Dirty(box)
      BY <2>1 DEF Ext!Dirty
    <3>2. CASE Ext!top.mutable
      BY <1>1, <2>1, <2>3, <3>1, <3>2 DEF TopInv
    <3>3. CASE ~Ext!top.mutable
      BY <1>1, <2>1, <2>3, <3>3 DEF TopInv, Sees
    <3> QED BY <3>2, <3>3
  <2> QED BY <1>1, <2>2, <2>3, <2>4, <2>5, TopKeeps
<1>6. CASE Ext!BoxUpdate(v)
  <2> DEFINE cached == Ext!Cached(Ext!top.box)
             box == [cached EXCEPT !.value = v]
             f == [Ext!top EXCEPT !.box = box]
             s == [saved EXCEPT !.box = v]
             l == [assigned EXCEPT !.box = v]
  <2>1. /\ cached \in [loaded : {TRUE}, value : FieldValues, modified : BOOLEAN]
        /\ Ext!Dirty(cached) <=> Ext!Dirty(Ext!top.box)
    BY <1>1, <1>2, CachedBox
  <2>2. /\ frames' = Ext!Top(f) /\ assigned' = l /\ saved' = s /\ unsaved' = unsaved /\ Ext!top.mutable
    BY <1>6 DEF Ext!BoxUpdate
  <2> HIDE DEF cached
  <2>3. box \in Ext!Boxes /\ box.value = v
    BY <2>1 DEF Ext!Boxes
  <2> HIDE DEF box
  <2>4. /\ f \in Ext!Frames /\ f.plain = Ext!top.plain /\ f.box = box /\ f.entered = Ext!top.entered
        /\ f.status = Ext!top.status /\ f.mutable = Ext!top.mutable /\ f.called = Ext!top.called
    BY <1>1, <2>3 DEF Ext!Frames
  <2>5. /\ l \in Ext!State /\ l.plain = assigned.plain /\ l.box = v
        /\ s \in Ext!State /\ s.box = v
    BY <1>1 DEF Ext!State
  <2> HIDE DEF f, s, l
  <2>6. FrameInv(f, unsaved)
    BY <1>1, <2>2, <2>4 DEF FrameInv, CallInv
  <2>7. ~unsaved => TopInv(f, s, l)
    BY <1>1, <2>2, <2>3, <2>4, <2>5 DEF TopInv
  <2> QED BY <1>1, <2>2, <2>4, <2>5, <2>6, <2>7, TopKeeps
<1> QED BY <1>3, <1>4, <1>5, <1>6

\* A call out.  The record of what was assigned is what the node has.
LEMMA InvokeKeeps ==
  ASSUME HostInv, Ext!invoke_contract_raw
  PROVE  HostInv'
<1>1. /\ frames # <<>> /\ Ext!top \in Ext!Frames /\ FrameInv(Ext!top, unsaved) /\ Ext!top.status = "running"
      /\ ~unsaved => TopInv(Ext!top, saved, assigned)
      /\ saved \in Ext!State /\ assigned \in Ext!State /\ unsaved \in BOOLEAN /\ Ext!top.mutable
  BY TopFrame DEF Ext!invoke_contract_raw, Ext!Running, HostInv, HostTyped
<1> DEFINE mark == [store |-> saved', latest |-> assigned]
           f == [Ext!top EXCEPT !.status = "calling", !.changed = FALSE, !.called = mark]
<1>2. /\ frames' = Ext!Top(f) /\ assigned' = assigned /\ saved' = Ext!Committed(Ext!top)
      /\ unsaved' = (unsaved \/ Ext!Dirty(Ext!top.box))
  BY DEF Ext!invoke_contract_raw
<1>3. saved' \in Ext!State /\ saved'.plain = Ext!top.plain /\ saved'.box = saved.box
  BY <1>1, <1>2, CommittedState
<1>4. mark \in Ext!Marks /\ mark.store = saved' /\ mark.latest = assigned
  BY <1>1, <1>3 DEF Ext!Marks
<1> HIDE DEF mark
<1>5. /\ f \in Ext!Frames /\ f.plain = Ext!top.plain /\ f.box = Ext!top.box /\ f.entered = Ext!top.entered
      /\ f.status = "calling" /\ f.mutable = Ext!top.mutable /\ f.called = mark /\ f.changed = FALSE
  BY <1>1, <1>4 DEF Ext!Frames
<1> HIDE DEF f
<1>6. ~unsaved' => ~unsaved /\ ~Ext!Dirty(Ext!top.box)
  BY <1>2
<1>7. ~unsaved' => saved' = assigned /\ (Ext!top.box.loaded => Ext!top.box.value = saved'.box)
  BY <1>1, <1>3, <1>6, SameState DEF TopInv
<1>8. FrameInv(f, unsaved')
  <2>1. ~unsaved' => Settled(mark) /\ Sees(Ext!top.plain, Ext!top.box, mark.store) /\ Settled(Ext!top.entered)
    BY <1>1, <1>3, <1>4, <1>6, <1>7 DEF Settled, Sees, FrameInv, CallInv
  <2> QED BY <1>1, <1>5, <1>6, <2>1 DEF FrameInv, CallInv
<1>9. ~unsaved' => TopInv(f, saved', assigned')
  BY <1>2, <1>4, <1>5, <1>7 DEF TopInv
<1>10. unsaved' \in BOOLEAN /\ (unsaved => unsaved')
  BY <1>2
<1> QED BY <1>1, <1>2, <1>3, <1>5, <1>8, <1>9, <1>10, TopKeeps

\* A read-only call out.
LEMMA ReadOnlyKeeps ==
  ASSUME HostInv, Ext!invoke_contract_raw_read_only
  PROVE  HostInv'
<1>1. /\ frames # <<>> /\ Ext!top \in Ext!Frames /\ FrameInv(Ext!top, unsaved) /\ Ext!top.status = "running"
      /\ ~unsaved => TopInv(Ext!top, saved, assigned)
      /\ saved \in Ext!State /\ assigned \in Ext!State /\ unsaved \in BOOLEAN
  BY TopFrame DEF Ext!invoke_contract_raw_read_only, Ext!Running, HostInv, HostTyped
<1> DEFINE f == [Ext!top EXCEPT !.status = "reading", !.changed = FALSE, !.called = Ext!Mark]
<1>2. /\ frames' = Ext!Top(f) /\ assigned' = assigned /\ saved' = saved
      /\ unsaved' = (unsaved \/ saved # assigned)
  BY DEF Ext!invoke_contract_raw_read_only
<1>3. Ext!Mark \in Ext!Marks /\ Ext!Mark.store = saved /\ Ext!Mark.latest = assigned
  BY <1>1 DEF Ext!Mark, Ext!Marks
<1>4. /\ f \in Ext!Frames /\ f.plain = Ext!top.plain /\ f.box = Ext!top.box /\ f.entered = Ext!top.entered
      /\ f.status = "reading" /\ f.mutable = Ext!top.mutable /\ f.called = Ext!Mark /\ f.changed = FALSE
  BY <1>1, <1>3 DEF Ext!Frames
<1> HIDE DEF f
<1>5. ~unsaved' => ~unsaved /\ saved = assigned
  BY <1>2
<1>6. ~unsaved' => /\ Sees(Ext!top.plain, Ext!top.box, saved)
                   /\ ~Ext!top.mutable => saved = Ext!top.entered.store
  <2>1. Ext!Dirty(Ext!top.box) => Ext!top.box.loaded
    BY DEF Ext!Dirty
  <2>2. CASE Ext!top.mutable
    BY <1>1, <1>5, <2>1, <2>2 DEF TopInv, Sees
  <2>3. CASE ~Ext!top.mutable
    BY <1>1, <1>5, <2>3 DEF TopInv
  <2> QED BY <2>2, <2>3
<1>7. FrameInv(f, unsaved')
  <2>1. ~unsaved' => Settled(Ext!Mark) /\ Settled(Ext!top.entered)
    BY <1>1, <1>3, <1>5 DEF Settled, FrameInv, CallInv
  <2>2. f.mutable \/ (~Ext!Dirty(f.box) /\ f.status # "calling")
    BY <1>1, <1>4 DEF FrameInv, CallInv
  <2>3. f.status # "calling"
    BY <1>4
  <2> QED BY <1>3, <1>4, <1>6, <2>1, <2>2, <2>3 DEF FrameInv, CallInv
<1>8. ~unsaved' => TopInv(f, saved', assigned')
  BY <1>2, <1>3, <1>4, <1>5 DEF TopInv
<1>9. unsaved' \in BOOLEAN /\ (unsaved => unsaved')
  BY <1>2
<1> QED BY <1>1, <1>2, <1>4, <1>7, <1>8, <1>9, TopKeeps

\* What the call on top knows when its call out returns.
LEMMA Waits ==
  ASSUME HostInv, Ext!Calling
  PROVE  /\ frames # <<>> /\ Ext!top \in Ext!Frames /\ FrameInv(Ext!top, unsaved) /\ Ext!top.status # "running"
         /\ ~unsaved => /\ TopInv(Ext!top, saved, assigned)
                        /\ Settled(Ext!top.entered) /\ Settled(Ext!top.called)
                        /\ Sees(Ext!top.plain, Ext!top.box, Ext!top.called.store)
                        /\ ~Ext!top.mutable => Ext!top.called.store = Ext!top.entered.store
         /\ saved \in Ext!State /\ assigned \in Ext!State /\ unsaved \in BOOLEAN
         /\ Ext!top.entered \in Ext!Marks /\ Ext!top.called \in Ext!Marks /\ Ext!top.box \in Ext!Boxes
<1>1. frames # <<>> /\ Ext!top.status # "running"
  BY DEF Ext!Calling
<1>2. /\ Ext!top \in Ext!Frames /\ FrameInv(Ext!top, unsaved) /\ (~unsaved => TopInv(Ext!top, saved, assigned))
  BY <1>1, TopFrame
<1>3. Ext!top.entered \in Ext!Marks /\ Ext!top.called \in Ext!Marks /\ Ext!top.box \in Ext!Boxes
  BY <1>2 DEF Ext!Frames
<1> QED BY <1>1, <1>2, <1>3 DEF FrameInv, CallInv, HostInv, HostTyped

\* A call out has returned, to a frame that sees the node's state.
LEMMA RunsOn ==
  ASSUME HostInv, Ext!Calling, NEW f \in Ext!Frames, frames' = Ext!Top(f), unsaved' = unsaved,
         saved' \in Ext!State, assigned' \in Ext!State,
         f.status = "running", f.mutable = Ext!top.mutable, f.entered = Ext!top.entered,
         Ext!Dirty(f.box) => Ext!Dirty(Ext!top.box),
         ~unsaved => /\ saved' = assigned' /\ Sees(f.plain, f.box, saved')
                     /\ ~Ext!top.mutable => saved' = Ext!top.entered.store
  PROVE  HostInv'
<1>1. FrameInv(f, unsaved')
  BY Waits DEF FrameInv, CallInv
<1>2. ~unsaved' => TopInv(f, saved', assigned')
  <2>1. Ext!Dirty(f.box) => f.box.loaded
    BY DEF Ext!Dirty
  <2> QED BY <2>1 DEF TopInv, Sees
<1>3. frames # <<>> /\ unsaved' \in BOOLEAN
  BY Waits
<1> QED BY <1>1, <1>2, <1>3, TopKeeps

\* A call out has returned, and the state is loaded again where it changed.
LEMMA ReturnKeeps ==
  ASSUME HostInv, Ext!ReturnErr \/ Ext!Unchanged \/ Ext!Refresh
  PROVE  HostInv'
<1>1. Ext!Calling
  BY DEF Ext!ReturnErr, Ext!Unchanged, Ext!Refresh
<1>2. Ext!top \in Ext!Frames
  BY <1>1, Waits
<1> DEFINE f == [Ext!top EXCEPT !.status = "running"]
<1>3. /\ f \in Ext!Frames /\ f.plain = Ext!top.plain /\ f.box = Ext!top.box /\ f.entered = Ext!top.entered
      /\ f.status = "running" /\ f.mutable = Ext!top.mutable
  BY <1>2 DEF Ext!Frames
<1>4. CASE Ext!ReturnErr
  <2>1. /\ frames' = Ext!Top(f) /\ unsaved' = unsaved
        /\ saved' = Ext!top.called.store /\ assigned' = Ext!top.called.latest
    BY <1>4 DEF Ext!ReturnErr, Ext!Undo
  <2> HIDE DEF f
  <2>2. saved' \in Ext!State /\ assigned' \in Ext!State
    BY <1>1, <2>1, Waits DEF Ext!Marks
  <2>3. ~unsaved => /\ saved' = assigned' /\ Sees(f.plain, f.box, saved')
                    /\ ~Ext!top.mutable => saved' = Ext!top.entered.store
    BY <1>1, <1>3, <2>1, Waits DEF Settled
  <2> QED BY <1>1, <1>3, <2>1, <2>2, <2>3, RunsOn
<1>5. CASE Ext!Unchanged
  <2>1. /\ frames' = Ext!Top(f) /\ unsaved' = unsaved /\ saved' = saved /\ assigned' = assigned
        /\ ~Ext!top.changed
    BY <1>5 DEF Ext!Unchanged
  <2> HIDE DEF f
  <2>2. ~unsaved => saved = assigned /\ saved = Ext!top.called.store
    BY <1>1, <2>1, Waits DEF TopInv
  <2>3. ~unsaved => /\ saved' = assigned' /\ Sees(f.plain, f.box, saved')
                    /\ ~Ext!top.mutable => saved' = Ext!top.entered.store
    BY <1>1, <1>3, <2>1, <2>2, Waits
  <2>4. saved' \in Ext!State /\ assigned' \in Ext!State
    BY <1>1, <2>1, Waits
  <2> QED BY <1>1, <1>3, <2>1, <2>3, <2>4, RunsOn
<1>6. CASE Ext!Refresh
  <2> DEFINE g == [Ext!top EXCEPT !.status = "running", !.plain = saved.plain, !.box = Ext!Reference]
  <2>1. /\ frames' = Ext!Top(g) /\ unsaved' = unsaved /\ assigned' = assigned /\ Ext!top.status = "calling"
        /\ saved' = IF Ext!Dirty(Ext!top.box) THEN [saved EXCEPT !.box = Ext!top.box.value] ELSE saved
    BY <1>6 DEF Ext!Refresh
  <2>2. ~Ext!Reference.loaded /\ ~Ext!Dirty(Ext!Reference) /\ Ext!Reference \in Ext!Boxes
    BY DEF Ext!Reference, Ext!Dirty, Ext!Boxes
  <2>3. saved \in Ext!State /\ saved.plain \in FieldValues /\ assigned \in Ext!State
    BY <1>1, Waits DEF Ext!State
  <2>4. /\ g \in Ext!Frames /\ g.plain = saved.plain /\ g.box = Ext!Reference /\ g.entered = Ext!top.entered
        /\ g.status = "running" /\ g.mutable = Ext!top.mutable
    BY <1>2, <2>2, <2>3 DEF Ext!Frames
  <2> HIDE DEF g
  <2>5. Ext!top.mutable /\ (~unsaved => ~Ext!Dirty(Ext!top.box) /\ saved = assigned)
    BY <1>1, <2>1, Waits DEF FrameInv, CallInv, TopInv
  <2>6. saved' \in Ext!State /\ assigned' \in Ext!State
    <3>1. Ext!Dirty(Ext!top.box) => Ext!top.box.value \in FieldValues
      BY <1>1, Waits, DirtyValue
    <3> QED BY <2>1, <2>3, <3>1 DEF Ext!State
  <2>7. ~unsaved => saved' = assigned' /\ Sees(g.plain, g.box, saved')
    BY <2>1, <2>2, <2>4, <2>5 DEF Sees
  <2> QED BY <1>1, <2>1, <2>2, <2>4, <2>5, <2>6, <2>7, RunsOn
<1> QED BY <1>4, <1>5, <1>6

\* A call that is undone, at its end or on the way back from a call out.
LEMMA FailKeeps ==
  ASSUME HostInv, Ext!Fail \/ Ext!TrapOnReturn
  PROVE  HostInv'
<1>1. /\ frames # <<>> /\ unsaved' = unsaved /\ Ext!Leave(FALSE)
      /\ saved' = Ext!top.entered.store /\ assigned' = Ext!top.entered.latest
  BY DEF Ext!Fail, Ext!TrapOnReturn, Ext!Running, Ext!Calling, Ext!Undo
<1>2. Ext!top \in Ext!Frames /\ FrameInv(Ext!top, unsaved)
  BY <1>1, TopFrame
<1>3. saved' \in Ext!State /\ assigned' \in Ext!State
  BY <1>1, <1>2 DEF Ext!Frames, Ext!Marks
<1>4. ~unsaved => saved' = assigned'
  BY <1>1, <1>2 DEF FrameInv, CallInv, Settled
<1> QED BY <1>1, <1>3, <1>4, LeaveKeeps

\* A call that ends well writes what it has assigned.
LEMMA ExitKeeps ==
  ASSUME HostInv, Ext!Exit
  PROVE  HostInv'
<1>1. /\ frames # <<>> /\ Ext!top \in Ext!Frames /\ FrameInv(Ext!top, unsaved) /\ Ext!top.status = "running"
      /\ ~unsaved => TopInv(Ext!top, saved, assigned)
      /\ saved \in Ext!State /\ assigned \in Ext!State /\ unsaved \in BOOLEAN
  BY TopFrame DEF Ext!Exit, Ext!Running, HostInv, HostTyped
<1>2. Ext!top.mutable \in BOOLEAN /\ Ext!top.box \in Ext!Boxes
  BY <1>1 DEF Ext!Frames
<1> DEFINE written == IF Ext!top.mutable THEN Ext!Committed(Ext!top) ELSE saved
<1>3. /\ Ext!Leave(Ext!top.mutable) /\ assigned' = assigned /\ unsaved' = unsaved
      /\ saved' = IF Ext!Dirty(Ext!top.box) THEN [written EXCEPT !.box = Ext!top.box.value] ELSE written
  BY DEF Ext!Exit
<1>4. /\ written \in Ext!State /\ written.box = saved.box
      /\ Ext!top.mutable => written.plain = Ext!top.plain
      /\ ~Ext!top.mutable => written = saved
  BY <1>1, CommittedState
<1> HIDE DEF written
<1>5. Ext!Dirty(Ext!top.box) => Ext!top.box.value \in FieldValues
  BY <1>2, DirtyValue
<1>6. /\ saved' \in Ext!State /\ saved'.plain = written.plain
      /\ saved'.box = IF Ext!Dirty(Ext!top.box) THEN Ext!top.box.value ELSE written.box
  BY <1>3, <1>4, <1>5 DEF Ext!State
<1>7. ~unsaved => saved' = assigned' /\ (Ext!top.mutable \/ saved' = Ext!top.entered.store)
  <2>1. CASE Ext!top.mutable
    <3>1. ~unsaved => saved'.plain = assigned.plain /\ saved'.box = assigned.box
      BY <1>1, <1>4, <1>6, <2>1 DEF TopInv
    <3> QED BY <1>1, <1>3, <1>6, <2>1, <3>1, SameState
  <2>2. CASE ~Ext!top.mutable
    <3>1. ~Ext!Dirty(Ext!top.box)
      BY <1>1, <2>2 DEF FrameInv, CallInv
    <3>2. saved' = saved
      BY <1>3, <1>4, <2>2, <3>1
    <3> QED BY <1>1, <1>3, <2>2, <3>2 DEF TopInv
  <2> QED BY <2>1, <2>2
<1> QED BY <1>1, <1>2, <1>3, <1>6, <1>7, LeaveKeeps

\* At first the memory has what the chain has.
LEMMA HostStarts ==
  ASSUME Ext!ExternHostAssumption, Ext!Init
  PROVE  HostInv
<1>1. saved \in Ext!State /\ assigned = saved /\ frames = <<>> /\ unsaved = FALSE
  BY DEF Ext!Init, Ext!State, Ext!ExternHostAssumption
<1>2. HostTyped
  <2>1. assigned \in Ext!State /\ unsaved \in BOOLEAN
    BY <1>1
  <2>2. frames \in Seq(Ext!Frames)
    BY <1>1
  <2> QED BY <1>1, <2>1, <2>2 DEF HostTyped
<1>3. Len(frames) = 0
  BY <1>1
<1>4. StackInv(frames, saved, assigned, unsaved)
  BY <1>1, <1>3 DEF StackInv
<1> QED BY <1>2, <1>4 DEF HostInv

\* Every step keeps the invariant.
LEMMA HostKeeps ==
  ASSUME HostInv, [Ext!Next]_extern
  PROVE  HostInv'
<1>1. CASE \E mutable \in BOOLEAN : Ext!Enter(mutable)
  BY <1>1, CallKeeps
<1>2. CASE \E v \in FieldValues : Ext!SetPlain(v) \/ Ext!BoxGetMut(v) \/ Ext!BoxUpdate(v)
  BY <1>2, AssignKeeps
<1>3. CASE Ext!BoxGet
  <2>1. \E v \in FieldValues : TRUE
    BY DEF HostInv, HostTyped, Ext!State
  <2> QED BY <1>3, <2>1, AssignKeeps
<1>4. CASE Ext!invoke_contract_raw \/ Ext!invoke_contract_raw_read_only
  BY <1>4, InvokeKeeps, ReadOnlyKeeps
<1>5. CASE Ext!Unchanged \/ Ext!Refresh \/ Ext!ReturnErr
  BY <1>5, ReturnKeeps
<1>6. CASE Ext!Exit
  BY <1>6, ExitKeeps
<1>7. CASE Ext!Fail \/ Ext!TrapOnReturn
  BY <1>7, FailKeeps
<1>8. CASE UNCHANGED extern
  BY <1>8 DEF extern, HostInv, HostTyped
<1> QED BY <1>1, <1>2, <1>3, <1>4, <1>5, <1>6, <1>7, <1>8 DEF Ext!Next

\* What a call into the instance, or one that waits, finds.
LEMMA HostSees == ASSUME HostInv PROVE Ext!CallsSeeLatest
<1>1. CASE frames = <<>>
  BY <1>1 DEF HostInv, StackInv, Ext!CallsSeeLatest
<1>2. CASE frames # <<>> /\ Ext!Calling
  <2>1. ASSUME ~unsaved PROVE saved = assigned
    BY <1>2, <2>1, Waits DEF TopInv
  <2> QED BY <2>1 DEF Ext!CallsSeeLatest
<1>3. CASE frames # <<>> /\ ~Ext!Calling
  BY <1>3 DEF Ext!CallsSeeLatest
<1> QED BY <1>1, <1>2, <1>3

-----------------------------------------------------------------------------
(* A unit test beside the chain: it sees what the chain will do, until it    *)
(* goes on from a rejected call or from what only the chain has stored.      *)

Instance ==
  [ balance : 0 .. MaxCCD, state : FieldValues, stored : FieldValues,
    transfers : Seq(Accounts \X (0 .. MaxCCD)) ]

\* Both sides hold and have paid the same while an entry point runs, whether or
\* not the test has strayed; the node is back where it was stored in between.
TestTyped ==
  /\ node \in Instance /\ test \in Instance /\ entered \in Instance
  /\ running \in BOOLEAN /\ diverged \in BOOLEAN

TestAlike ==
  /\ running => /\ node.balance = test.balance /\ node.transfers = test.transfers
                /\ entered.stored = entered.state
  /\ ~diverged =>
       /\ host_answers[1] = host_answers[2]
       /\ running => node = test
       /\ ~running => /\ node.stored = node.state
                      /\ test.state = node.state /\ test.transfers = node.transfers

TestInv == TestTyped /\ TestAlike

\* A call out leaves both instances with the same balance and transfers, and
\* it makes no difference between equal instances.
Matches(node_result, test_result) ==
  /\ node_result.instance \in Instance /\ test_result.instance \in Instance
  /\ node_result.instance.balance = test_result.instance.balance
  /\ node_result.instance.transfers = test_result.instance.transfers
  /\ node = test => node_result = test_result

\* Equal steps on both sides keep them alike.
LEMMA BothKeeps ==
  ASSUME TestInv, running, NEW n, NEW t, Mocked!Both(n, t), Matches(n, t)
  PROVE  TestInv'
<1>1. TestTyped'
  BY DEF TestInv, TestTyped, Mocked!Both, Matches
<1>2. ~diverged => n = t
  BY DEF TestInv, TestAlike, Matches
<1>3. TestAlike'
  <2>1. host_answers' = <<n.answer, t.answer>>
    BY DEF Mocked!Both
  <2>2. ~diverged' => host_answers'[1] = host_answers'[2]
    BY <1>2, <2>1 DEF Mocked!Both
  <2>3. running' => /\ node'.balance = test'.balance /\ node'.transfers = test'.transfers
                    /\ entered'.stored = entered'.state
    BY DEF TestInv, TestAlike, Mocked!Both, Matches
  <2>4. running' /\ (~diverged' => node' = test')
    BY <1>2 DEF Mocked!Both
  <2> QED BY <2>2, <2>3, <2>4 DEF TestAlike
<1> QED BY <1>1, <1>3 DEF TestInv

\* Changing one field of an instance.
LEMMA Fields ==
  ASSUME NEW i \in Instance
  PROVE  /\ i = [ balance |-> i.balance, state |-> i.state, stored |-> i.stored,
                  transfers |-> i.transfers ]
         /\ \A b \in 0 .. MaxCCD : [i EXCEPT !.balance = b] =
              [ balance |-> b, state |-> i.state, stored |-> i.stored, transfers |-> i.transfers ]
         /\ \A v \in FieldValues : [i EXCEPT !.state = v] =
              [ balance |-> i.balance, state |-> v, stored |-> i.stored, transfers |-> i.transfers ]
         /\ \A v \in FieldValues : [i EXCEPT !.stored = v] =
              [ balance |-> i.balance, state |-> i.state, stored |-> v, transfers |-> i.transfers ]
         /\ \A p \in Seq(Accounts \X (0 .. MaxCCD)) : [i EXCEPT !.transfers = p] =
              [ balance |-> i.balance, state |-> i.state, stored |-> i.stored, transfers |-> p ]
BY DEF Instance

\* A payment out of the balance.
LEMMA PaidInstance ==
  ASSUME Mocked!TestHostAssumption, NEW i \in Instance, NEW receiver \in Accounts,
         NEW amount \in 0 .. MaxCCD, amount <= i.balance
  PROVE  /\ Mocked!Paid(i, receiver, amount) \in Instance
         /\ Mocked!Paid(i, receiver, amount).balance = i.balance - amount
         /\ Mocked!Paid(i, receiver, amount).transfers = Append(i.transfers, <<receiver, amount>>)
<1>1. i.balance - amount \in 0 .. MaxCCD
  BY DEF Instance, Mocked!TestHostAssumption
<1>2. Append(i.transfers, <<receiver, amount>>) \in Seq(Accounts \X (0 .. MaxCCD))
  BY DEF Instance
<1>3. Mocked!Paid(i, receiver, amount) =
        [ balance |-> i.balance - amount, state |-> i.state, stored |-> i.stored,
          transfers |-> Append(i.transfers, <<receiver, amount>>) ]
  <2> DEFINE less == [i EXCEPT !.balance = i.balance - amount]
             list == Append(i.transfers, <<receiver, amount>>)
  <2>1. less = [ balance |-> i.balance - amount, state |-> i.state, stored |-> i.stored,
                 transfers |-> i.transfers ]
    BY <1>1, Fields
  <2>2. less \in Instance /\ less.transfers = i.transfers
    BY <1>1, <2>1 DEF Instance
  <2>3. Mocked!Paid(i, receiver, amount) = [less EXCEPT !.transfers = Append(less.transfers, <<receiver, amount>>)]
    BY Zenon DEF Mocked!Paid
  <2> HIDE DEF less
  <2>4. Mocked!Paid(i, receiver, amount) = [less EXCEPT !.transfers = list]
    BY <2>2, <2>3, Zenon
  <2> HIDE DEF list
  <2>5. list \in Seq(Accounts \X (0 .. MaxCCD))
    BY <1>2 DEF list
  <2>6. [less EXCEPT !.transfers = list] =
          [ balance |-> less.balance, state |-> less.state, stored |-> less.stored, transfers |-> list ]
    BY <2>2, <2>5, Fields
  <2> QED BY <2>1, <2>4, <2>6 DEF list
<1> QED BY <1>1, <1>2, <1>3 DEF Instance

\* A payment is the same on both sides.
LEMMA TransfersMatch ==
  ASSUME Mocked!TestHostAssumption, TestInv, running,
         NEW receiver \in Accounts, NEW amount \in 0 .. MaxCCD
  PROVE  Matches(Mocked!NodeTransfer(receiver, amount), Mocked!TestTransfer(receiver, amount))
<1>1. /\ node \in Instance /\ test \in Instance
      /\ node.balance = test.balance /\ node.transfers = test.transfers
      /\ node.balance \in Nat /\ amount \in Nat
  BY DEF TestInv, TestTyped, TestAlike, Instance, Mocked!TestHostAssumption
<1>2. CASE receiver \in missing_accounts \/ amount > node.balance
  <2>1. Mocked!NodeTransfer(receiver, amount) = Mocked!Answer(node, "Err")
    BY <1>2 DEF Mocked!NodeTransfer
  <2>2. Mocked!TestTransfer(receiver, amount) = Mocked!Answer(test, "Err")
    BY <1>1, <1>2 DEF Mocked!TestTransfer
  <2> QED BY <1>1, <2>1, <2>2 DEF Matches, Mocked!Answer
<1>3. CASE receiver \notin missing_accounts /\ ~(amount > node.balance)
  <2>1. Mocked!NodeTransfer(receiver, amount) = Mocked!Answer(Mocked!Paid(node, receiver, amount), "Ok")
    BY <1>3 DEF Mocked!NodeTransfer
  <2>2. Mocked!TestTransfer(receiver, amount) = Mocked!Answer(Mocked!Paid(test, receiver, amount), "Ok")
    BY <1>1, <1>3 DEF Mocked!TestTransfer
  <2>3. amount <= node.balance /\ amount <= test.balance
    BY <1>1, <1>3
  <2>4. /\ Mocked!Paid(node, receiver, amount) \in Instance
        /\ Mocked!Paid(node, receiver, amount).balance = node.balance - amount
        /\ Mocked!Paid(node, receiver, amount).transfers = Append(node.transfers, <<receiver, amount>>)
    BY <1>1, <2>3, PaidInstance
  <2>5. /\ Mocked!Paid(test, receiver, amount) \in Instance
        /\ Mocked!Paid(test, receiver, amount).balance = test.balance - amount
        /\ Mocked!Paid(test, receiver, amount).transfers = Append(test.transfers, <<receiver, amount>>)
    BY <1>1, <2>3, PaidInstance
  <2> DEFINE on_node == Mocked!Paid(node, receiver, amount)
             in_test == Mocked!Paid(test, receiver, amount)
  <2>6. node = test => on_node = in_test
    OBVIOUS
  <2>7. on_node.balance = in_test.balance /\ on_node.transfers = in_test.transfers
    BY <1>1, <2>4, <2>5
  <2> HIDE DEF on_node, in_test
  <2>8. Mocked!NodeTransfer(receiver, amount) = Mocked!Answer(on_node, "Ok")
    BY <2>1 DEF on_node
  <2>9. Mocked!TestTransfer(receiver, amount) = Mocked!Answer(in_test, "Ok")
    BY <2>2 DEF in_test
  <2>10. on_node \in Instance /\ in_test \in Instance
    BY <2>4, <2>5 DEF on_node, in_test
  <2> QED BY <2>6, <2>7, <2>8, <2>9, <2>10 DEF Matches, Mocked!Answer
<1> QED BY <1>2, <1>3

\* commit_state stores the state.
LEMMA CommittedInstance ==
  ASSUME NEW i \in Instance
  PROVE  /\ Mocked!commit_state(i) \in Instance
         /\ Mocked!commit_state(i).balance = i.balance /\ Mocked!commit_state(i).transfers = i.transfers
         /\ Mocked!commit_state(i).state = i.state
BY DEF Mocked!commit_state, Instance

\* The instance after a call that succeeded.
AfterCall(i, callee, amount) ==
  [ balance |-> i.balance - amount + callee.gain - callee.spend,
    state |-> Mocked!Set(callee, i.state),
    stored |-> IF callee.sets = {} THEN i.stored ELSE Mocked!Set(callee, i.state),
    transfers |-> i.transfers ]

\* What a callee leaves is an instance again.
LEMMA CalledInstance ==
  ASSUME Mocked!TestHostAssumption, NEW i \in Instance, NEW callee \in Mocked!Callees,
         NEW amount \in 0 .. MaxCCD, amount <= i.balance,
         callee.spend <= i.balance - amount + callee.gain,
         i.balance + callee.gain <= MaxCCD
  PROVE  /\ AfterCall(i, callee, amount) \in Instance
         /\ i.balance - amount + callee.gain - callee.spend \in 0 .. MaxCCD
         /\ Mocked!Set(callee, i.state) \in FieldValues
<1>1. i.balance - amount + callee.gain - callee.spend \in 0 .. MaxCCD
  BY DEF Instance, Mocked!Callees, Mocked!TestHostAssumption
<1>2. Mocked!Set(callee, i.state) \in FieldValues
  <2>1. CASE callee.sets = {}
    BY <2>1 DEF Mocked!Set, Instance
  <2>2. CASE callee.sets # {}
    <3>1. (CHOOSE w \in callee.sets : TRUE) \in callee.sets
      BY <2>2
    <3> QED BY <2>2, <3>1 DEF Mocked!Set, Mocked!Callees
  <2> QED BY <2>1, <2>2
<1>3. AfterCall(i, callee, amount) \in Instance
  BY <1>1, <1>2 DEF AfterCall, Instance
<1> QED BY <1>1, <1>2, <1>3

\* The three fields that a call sets, one after the other.
LEMMA NodeCalled ==
  ASSUME Mocked!TestHostAssumption, NEW i \in Instance, i.stored = i.state,
         NEW callee \in Mocked!Callees, NEW amount \in 0 .. MaxCCD, amount <= i.balance,
         callee.spend <= i.balance - amount + callee.gain,
         i.balance + callee.gain <= MaxCCD
  PROVE  [i EXCEPT !.balance = @ - amount + callee.gain - callee.spend,
                   !.state = Mocked!Set(callee, @), !.stored = Mocked!Set(callee, @)]
           = AfterCall(i, callee, amount)
<1> DEFINE b == i.balance - amount + callee.gain - callee.spend
           v == Mocked!Set(callee, i.state)
           i1 == [i EXCEPT !.balance = b]
           i2 == [i1 EXCEPT !.state = v]
           i3 == [i2 EXCEPT !.stored = v]
<1>1. b \in 0 .. MaxCCD /\ v \in FieldValues
  BY CalledInstance
<1> HIDE DEF b, v
<1>2. i1 = [ balance |-> b, state |-> i.state, stored |-> i.stored, transfers |-> i.transfers ]
  BY <1>1, Fields
<1>3. i1 \in Instance /\ i1.state = i.state /\ i1.stored = i.stored /\ i1.balance = b
      /\ i1.transfers = i.transfers
  BY <1>1, <1>2 DEF Instance
<1> HIDE DEF i1
<1>4. i2 = [ balance |-> b, state |-> v, stored |-> i.stored, transfers |-> i.transfers ]
  BY <1>1, <1>3, Fields
<1>5. i2 \in Instance /\ i2.state = v /\ i2.stored = i.stored /\ i2.balance = b
      /\ i2.transfers = i.transfers
  BY <1>1, <1>4 DEF Instance
<1> HIDE DEF i2
<1>6. i3 = [ balance |-> b, state |-> v, stored |-> v, transfers |-> i.transfers ]
  BY <1>1, <1>5, Fields
<1>7. v = IF callee.sets = {} THEN i.stored ELSE v
  BY DEF v, Mocked!Set
<1>8. i3 = AfterCall(i, callee, amount)
  BY <1>6, <1>7 DEF AfterCall, b, v
<1>9. i1.state = i.state /\ i2.stored = i.state
  BY <1>3, <1>5
<1>10. i3 = [i EXCEPT !.balance = @ - amount + callee.gain - callee.spend,
                      !.state = Mocked!Set(callee, @), !.stored = Mocked!Set(callee, @)]
  <2>1. i3 = [[[i EXCEPT !.balance = b] EXCEPT !.state = Mocked!Set(callee, i1.state)]
                EXCEPT !.stored = Mocked!Set(callee, i2.stored)]
    BY <1>9, Zenon DEF i1, i2, v
  <2> QED BY <2>1, Zenon DEF i1, i2, b, v
<1> QED BY <1>8, <1>10

AfterMock(i, callee) ==
  [i EXCEPT !.balance = @ + callee.gain - callee.spend, !.state = Mocked!Set(callee, @)]
AfterPayment(i, callee, amount) == [AfterMock(i, callee) EXCEPT !.balance = @ - amount]

\* The mock changes the balance and the state; the amount goes afterwards, and
\* the state is stored if it was changed.
LEMMA MockCalled ==
  ASSUME Mocked!TestHostAssumption, NEW i \in Instance, i.stored = i.state,
         NEW callee \in Mocked!Callees, NEW amount \in 0 .. MaxCCD, amount <= i.balance,
         callee.spend <= i.balance - amount + callee.gain,
         i.balance + callee.gain <= MaxCCD
  PROVE  (IF callee.sets = {} THEN AfterPayment(i, callee, amount)
          ELSE Mocked!commit_state(AfterPayment(i, callee, amount))) = AfterCall(i, callee, amount)
<1> DEFINE so_far == AfterMock(i, callee)
           after == AfterPayment(i, callee, amount)
           m == i.balance + callee.gain - callee.spend
           b == i.balance - amount + callee.gain - callee.spend
           v == Mocked!Set(callee, i.state)
           i1 == [i EXCEPT !.balance = m]
<1>1. m \in 0 .. MaxCCD /\ m - amount = b
  BY DEF Instance, Mocked!Callees, Mocked!TestHostAssumption
<1>2. b \in 0 .. MaxCCD /\ v \in FieldValues
  BY CalledInstance
<1>3. i1 = [ balance |-> m, state |-> i.state, stored |-> i.stored, transfers |-> i.transfers ]
  <2> HIDE DEF m
  <2> QED BY <1>1, Fields
<1>4. i1 \in Instance /\ i1.state = i.state /\ i1.stored = i.stored /\ i1.balance = m
      /\ i1.transfers = i.transfers
  <2> HIDE DEF m
  <2> QED BY <1>1, <1>3 DEF Instance
<1>5. so_far = [i1 EXCEPT !.state = Mocked!Set(callee, i1.state)]
  BY Zenon DEF i1, m, AfterMock
<1> HIDE DEF i1, m, so_far
<1>6. so_far = [i1 EXCEPT !.state = v]
  BY <1>4, <1>5, Zenon DEF v
<1> HIDE DEF v
<1>7. so_far = [ balance |-> m, state |-> v, stored |-> i.stored, transfers |-> i.transfers ]
  BY <1>2, <1>4, <1>6, Fields
<1>8. so_far \in Instance
  BY <1>1, <1>2, <1>7 DEF Instance
<1>9. so_far.balance - amount = b
  BY <1>1, <1>7 DEF b
<1> HIDE DEF b
<1>10. after = [so_far EXCEPT !.balance = b]
  BY <1>9, Zenon DEF AfterPayment, so_far
<1> HIDE DEF after
<1>11. after = [ balance |-> b, state |-> v, stored |-> i.stored, transfers |-> i.transfers ]
  BY <1>2, <1>7, <1>8, <1>10, Fields
<1>12. after \in Instance /\ after.state = v
  BY <1>2, <1>11 DEF Instance
<1>13. Mocked!commit_state(after) = [ balance |-> b, state |-> v, stored |-> v, transfers |-> i.transfers ]
  <2>1. Mocked!commit_state(after) = [after EXCEPT !.stored = v]
    BY <1>12, Zenon DEF Mocked!commit_state
  <2> QED BY <1>2, <1>11, <1>12, <2>1, Fields
<1> QED BY <1>11, <1>13 DEF AfterCall, b, v, after

\* A call out is the same on both sides.
LEMMA InvokesMatch ==
  ASSUME Mocked!TestHostAssumption, TestInv, running,
         NEW callee \in Mocked!Callees, NEW amount \in 0 .. MaxCCD, Mocked!Can(callee, amount)
  PROVE  Matches(Mocked!NodeInvoke(callee, amount), Mocked!TestInvoke(callee, amount))
<1> DEFINE at_node == Mocked!commit_state(node)
           at_test == Mocked!commit_state(test)
<1>1. /\ node \in Instance /\ test \in Instance
      /\ node.balance = test.balance /\ node.transfers = test.transfers
      /\ node.balance \in Nat /\ amount \in Nat
  BY DEF TestInv, TestTyped, TestAlike, Instance, Mocked!TestHostAssumption
<1>2. /\ at_node \in Instance /\ at_test \in Instance
      /\ at_node.balance = node.balance /\ at_test.balance = node.balance
      /\ at_node.transfers = node.transfers /\ at_test.transfers = node.transfers
      /\ node = test => at_node = at_test
  BY <1>1, CommittedInstance
<1>3. at_node.stored = at_node.state /\ at_test.stored = at_test.state
  BY <1>1 DEF Mocked!commit_state, Instance
<1>4. CASE amount > node.balance \/ ~callee.ok
  <2>1. Mocked!NodeInvoke(callee, amount) = Mocked!Answer(at_node, "Err")
    BY <1>4 DEF Mocked!NodeInvoke
  <2>2. Mocked!TestInvoke(callee, amount) = Mocked!Answer(at_test, "Err")
    BY <1>1, <1>4 DEF Mocked!TestInvoke
  <2> HIDE DEF at_node, at_test
  <2> QED BY <1>2, <2>1, <2>2 DEF Matches, Mocked!Answer
<1>5. CASE ~(amount > node.balance \/ ~callee.ok)
  <2>1. /\ amount <= node.balance
        /\ callee.spend <= node.balance - amount + callee.gain
        /\ node.balance + callee.gain <= MaxCCD
    BY <1>1, <1>5 DEF Mocked!Can
  <2> DEFINE on_node == AfterCall(at_node, callee, amount)
             in_test == AfterCall(at_test, callee, amount)
             after == AfterPayment(at_test, callee, amount)
             stored == [at_node EXCEPT !.balance = @ - amount + callee.gain - callee.spend,
                                       !.state = Mocked!Set(callee, @), !.stored = Mocked!Set(callee, @)]
             kept == IF callee.sets = {} THEN after ELSE Mocked!commit_state(after)
  <2>2. Mocked!NodeInvoke(callee, amount) = Mocked!Answer(stored, "Ok")
    BY <1>5 DEF Mocked!NodeInvoke
  <2>3. Mocked!TestInvoke(callee, amount) = Mocked!Answer(kept, "Ok")
    BY <1>1, <1>5 DEF Mocked!TestInvoke, AfterPayment, AfterMock
  <2> HIDE DEF at_node, at_test
  <2>4. stored = on_node
    BY <1>2, <1>3, <2>1, NodeCalled
  <2>5. kept = in_test
    BY <1>2, <1>3, <2>1, MockCalled
  <2>6. on_node \in Instance /\ in_test \in Instance
    BY <1>2, <2>1, CalledInstance
  <2>7. /\ on_node.balance = in_test.balance /\ on_node.transfers = in_test.transfers
        /\ node = test => on_node = in_test
    BY <1>2 DEF AfterCall
  <2> HIDE DEF on_node, in_test, stored, kept
  <2> QED BY <2>2, <2>3, <2>4, <2>5, <2>6, <2>7 DEF Matches, Mocked!Answer
<1> QED BY <1>4, <1>5

\* A read-only call out is the same on both sides.
LEMMA ReadOnlyMatch ==
  ASSUME Mocked!TestHostAssumption, TestInv, running, NEW callee \in Mocked!Callees,
         NEW amount \in 0 .. MaxCCD, Mocked!Can(callee, amount)
  PROVE  Matches(Mocked!NodeReadOnly(callee, amount), Mocked!TestReadOnly(callee, amount))
<1>1. /\ node \in Instance /\ test \in Instance
      /\ node.balance = test.balance /\ node.transfers = test.transfers
      /\ node.balance \in Nat /\ amount \in Nat
  BY DEF TestInv, TestTyped, TestAlike, Instance, Mocked!TestHostAssumption
<1>2. CASE amount > node.balance \/ ~callee.ok
  <2>1. Mocked!NodeReadOnly(callee, amount) = Mocked!Answer(node, "Err")
    BY <1>2 DEF Mocked!NodeReadOnly
  <2>2. Mocked!TestReadOnly(callee, amount) = Mocked!Answer(test, "Err")
    BY <1>1, <1>2 DEF Mocked!TestReadOnly
  <2> QED BY <1>1, <2>1, <2>2 DEF Matches, Mocked!Answer
<1>3. CASE ~(amount > node.balance \/ ~callee.ok)
  <2> DEFINE b == node.balance - amount + callee.gain - callee.spend
             on_node == [node EXCEPT !.balance = b]
             in_test == [test EXCEPT !.balance = b]
  <2>1. b \in 0 .. MaxCCD /\ test.balance + callee.gain - callee.spend - amount = b
    BY <1>1, <1>3 DEF Mocked!Can, Mocked!Callees, Mocked!TestHostAssumption
  <2>2. Mocked!NodeReadOnly(callee, amount) = Mocked!Answer(on_node, node.stored)
    BY <1>3 DEF Mocked!NodeReadOnly
  <2>3. Mocked!TestReadOnly(callee, amount)
          = Mocked!Answer([test EXCEPT !.balance = test.balance + callee.gain - callee.spend - amount],
                   test.stored)
    BY <1>1, <1>3 DEF Mocked!TestReadOnly
  <2>4. Mocked!TestReadOnly(callee, amount) = Mocked!Answer(in_test, test.stored)
    BY <2>1, <2>3
  <2> HIDE DEF b
  <2>5. /\ on_node \in Instance /\ in_test \in Instance
        /\ on_node.balance = in_test.balance /\ on_node.transfers = in_test.transfers
        /\ node = test => on_node = in_test
    BY <1>1, <2>1, Fields DEF Instance
  <2> HIDE DEF on_node, in_test
  <2> QED BY <2>2, <2>4, <2>5 DEF Matches, Mocked!Answer
<1> QED BY <1>2, <1>3

\* Both sides start alike.
LEMMA TestStarts ==
  ASSUME Mocked!TestHostAssumption, Mocked!Init
  PROVE  TestInv
<1>1. test \in Instance /\ test.stored = test.state
  BY DEF Mocked!Init, Instance, Mocked!TestHostAssumption
<1>2. node = test /\ entered = test /\ running = FALSE /\ diverged = FALSE
      /\ host_answers = <<"Ok", "Ok">>
  BY DEF Mocked!Init
<1> QED BY <1>1, <1>2 DEF TestInv, TestTyped, TestAlike

\* A call comes in: the test host is given the node's balance.
LEMMA TestEnters ==
  ASSUME Mocked!TestHostAssumption, TestInv, NEW amount \in 0 .. MaxCCD, Mocked!Enter(amount)
  PROVE  TestInv'
<1> DEFINE b == node.balance + amount
           on_node == [node EXCEPT !.balance = b]
           in_test == [test EXCEPT !.balance = b]
<1>1. /\ node \in Instance /\ test \in Instance /\ b \in 0 .. MaxCCD /\ ~running /\ ~diverged
      /\ node.stored = node.state /\ test.state = node.state /\ test.transfers = node.transfers
  BY DEF TestInv, TestTyped, TestAlike, Mocked!Enter, Instance, Mocked!TestHostAssumption
<1>2. node' = on_node /\ test' = in_test
  BY DEF Mocked!Enter
<1>3. /\ entered' = node /\ running' = TRUE /\ diverged' = (test.stored # test.state)
      /\ host_answers' = host_answers
  BY <1>1 DEF Mocked!Enter
<1> HIDE DEF b
<1>4. /\ on_node = [ balance |-> b, state |-> node.state, stored |-> node.stored,
                     transfers |-> node.transfers ]
      /\ in_test = [ balance |-> b, state |-> test.state, stored |-> test.stored,
                     transfers |-> test.transfers ]
  BY <1>1, Fields
<1>5. on_node \in Instance /\ in_test \in Instance
  BY <1>1, <1>4 DEF Instance
<1>6. on_node.balance = in_test.balance /\ on_node.transfers = in_test.transfers
  BY <1>1, <1>4
<1>7. test.stored = test.state => on_node = in_test
  BY <1>1, <1>4
<1> HIDE DEF on_node, in_test
<1>8. TestTyped'
  BY <1>1, <1>2, <1>3, <1>5 DEF TestTyped
<1>9. TestAlike'
  <2>1. host_answers[1] = host_answers[2]
    BY <1>1 DEF TestInv, TestAlike
  <2> QED BY <1>1, <1>2, <1>3, <1>6, <1>7, <2>1 DEF TestAlike
<1> QED BY <1>8, <1>9 DEF TestInv

\* An assignment to the state is the same on both sides.
LEMMA SetStateKeeps ==
  ASSUME TestInv, NEW v \in FieldValues, Mocked!SetState(v)
  PROVE  TestInv'
<1> DEFINE on_node == [node EXCEPT !.state = v]
           in_test == [test EXCEPT !.state = v]
<1>1. on_node \in Instance /\ in_test \in Instance
  BY DEF TestInv, TestTyped, Instance
<1>2. /\ on_node.balance = node.balance /\ in_test.balance = test.balance
      /\ on_node.transfers = node.transfers /\ in_test.transfers = test.transfers
  BY DEF TestInv, TestTyped, Instance
<1>3. node = test => on_node = in_test
  OBVIOUS
<1>4. node' = on_node /\ test' = in_test /\ running
      /\ UNCHANGED <<running, entered, host_answers, diverged>>
  BY DEF Mocked!SetState
<1> HIDE DEF on_node, in_test
<1> QED BY <1>1, <1>2, <1>3, <1>4 DEF TestInv, TestTyped, TestAlike

\* The end of a call.
LEMMA AcceptKeeps ==
  ASSUME TestInv, Mocked!Accept
  PROVE  TestInv'
<1> DEFINE on_node == [node EXCEPT !.stored = node.state]
<1>1. on_node \in Instance /\ on_node.stored = on_node.state
      /\ on_node.state = node.state /\ on_node.transfers = node.transfers
  BY DEF TestInv, TestTyped, Instance
<1>2. node' = on_node /\ ~running' /\ running' \in BOOLEAN /\ running
      /\ UNCHANGED <<test, entered, host_answers, diverged>>
  BY DEF Mocked!Accept
<1> HIDE DEF on_node
<1> QED BY <1>1, <1>2 DEF TestInv, TestTyped, TestAlike

\* After a rejection only the test goes on, and has strayed if it changed
\* anything.
LEMMA RejectKeeps ==
  ASSUME TestInv, Mocked!RejectCall
  PROVE  TestInv'
<1>1. /\ node' = entered /\ ~running' /\ running' \in BOOLEAN /\ running
      /\ UNCHANGED <<test, entered, host_answers>>
      /\ diverged' = (diverged \/ test # [entered EXCEPT !.balance = test.balance])
  BY DEF Mocked!RejectCall
<1>2. TestTyped'
  BY <1>1 DEF TestInv, TestTyped
<1>3. ASSUME ~diverged'
      PROVE  test.state = entered.state /\ test.transfers = entered.transfers
  <2>1. test = [entered EXCEPT !.balance = test.balance]
    BY <1>1, <1>3
  <2> QED BY <2>1 DEF TestInv, TestTyped, Instance
<1>4. entered.stored = entered.state /\ (~diverged => host_answers[1] = host_answers[2])
  BY <1>1 DEF TestInv, TestAlike
<1>5. ~diverged' => ~diverged
  BY <1>1
<1> QED BY <1>1, <1>2, <1>3, <1>4, <1>5 DEF TestInv, TestAlike

\* Every step keeps the invariant.
LEMMA TestKeeps ==
  ASSUME Mocked!TestHostAssumption, TestInv, [Mocked!Next]_mocked
  PROVE  TestInv'
<1>1. CASE Mocked!Accept
  BY <1>1, AcceptKeeps
<1>2. CASE Mocked!RejectCall
  BY <1>2, RejectKeeps
<1>3. CASE \E amount \in 0 .. MaxCCD : Mocked!Enter(amount)
  BY <1>3, TestEnters
<1>4. ASSUME NEW amount \in 0 .. MaxCCD, NEW receiver \in Accounts,
             Mocked!invoke_transfer(receiver, amount)
      PROVE  TestInv'
  <2>1. running /\ Mocked!Both(Mocked!NodeTransfer(receiver, amount), Mocked!TestTransfer(receiver, amount))
    BY <1>4 DEF Mocked!invoke_transfer
  <2> QED BY <2>1, TransfersMatch, BothKeeps
<1>5. ASSUME NEW amount \in 0 .. MaxCCD, NEW callee \in Mocked!Callees,
             Mocked!invoke_contract_raw(callee, amount)
      PROVE  TestInv'
  <2>1. running /\ Mocked!Can(callee, amount)
        /\ Mocked!Both(Mocked!NodeInvoke(callee, amount), Mocked!TestInvoke(callee, amount))
    BY <1>5 DEF Mocked!invoke_contract_raw
  <2> QED BY <2>1, InvokesMatch, BothKeeps
<1>6. ASSUME NEW amount \in 0 .. MaxCCD, NEW callee \in Mocked!Callees,
             Mocked!invoke_contract_raw_read_only(callee, amount)
      PROVE  TestInv'
  <2>1. running /\ Mocked!Can(callee, amount)
        /\ Mocked!Both(Mocked!NodeReadOnly(callee, amount), Mocked!TestReadOnly(callee, amount))
    BY <1>6 DEF Mocked!invoke_contract_raw_read_only
  <2> QED BY <2>1, ReadOnlyMatch, BothKeeps
<1>7. CASE \E v \in FieldValues : Mocked!SetState(v)
  BY <1>7, SetStateKeeps
<1>8. CASE \E account \in Accounts : Mocked!make_account_missing(account)
  BY <1>8 DEF Mocked!make_account_missing, TestInv, TestTyped, TestAlike
<1>9. CASE UNCHANGED mocked
  BY <1>9 DEF mocked, TestInv, TestTyped, TestAlike
<1> QED BY <1>1, <1>2, <1>3, <1>4, <1>5, <1>6, <1>7, <1>8, <1>9 DEF Mocked!Next

-----------------------------------------------------------------------------
(* A state entry in both builds: until a handle strays, sizes, positions and *)
(* answers are equal.                                                        *)
EntryInv ==
  ~strayed =>
    /\ size["host"] = size["test"] /\ size["host"] \in 0 .. MaxSize \cup {Entry!Gone}
    /\ position["host"] = position["test"] /\ position["host"] \in [Openers -> 0 .. MaxSize]
    /\ answers["host"] = answers["test"]

\* An operation that gives the same in both builds keeps them alike.
LEMMA BuildsAlike ==
  ASSUME EntryInv, ~strayed, ~strayed', NEW h \in Openers, NEW g, Entry!Both(h, g, g),
         g.size \in 0 .. MaxSize, g.position \in 0 .. MaxSize
  PROVE  EntryInv'
<1> DEFINE p == position["host"]
<1>1. p \in [Openers -> 0 .. MaxSize] /\ position["test"] = p
  BY DEF EntryInv
<1>2. /\ position'["host"] = [p EXCEPT ![h] = g.position]
      /\ position'["test"] = [p EXCEPT ![h] = g.position]
  BY <1>1 DEF Entry!Both, Entry!Builds
<1>3. size'["host"] = g.size /\ size'["test"] = g.size
  BY DEF Entry!Both
<1>4. answers'["host"] = answers'["test"]
  BY DEF Entry!Both
<1>5. [p EXCEPT ![h] = g.position] \in [Openers -> 0 .. MaxSize]
  BY <1>1
<1> QED BY <1>2, <1>3, <1>4, <1>5 DEF EntryInv

\* What an operation finds, and that it may be the same operation.
LEMMA Operation ==
  ASSUME EntryInv, ~strayed, size["host"] # Entry!Gone, NEW h \in Openers
  PROVE  /\ size["host"] \in 0 .. MaxSize /\ size["test"] = size["host"]
         /\ position["host"][h] \in 0 .. MaxSize /\ position["test"][h] = position["host"][h]
         /\ ~Entry!Beyond(h) => position["host"][h] <= size["host"]
<1>1. /\ size["host"] \in 0 .. MaxSize /\ size["test"] = size["host"]
      /\ position["host"][h] \in 0 .. MaxSize /\ position["test"][h] = position["host"][h]
  BY DEF EntryInv
<1>2. ~Entry!Beyond(h) => ~(position["host"][h] > size["host"])
  BY DEF Entry!Beyond, Entry!Builds
<1> QED BY <1>1, <1>2

\* Reading and writing give the same at a position within the data.
LEMMA SameReads ==
  ASSUME Entry!EntriesAssumption, NEW n \in 0 .. MaxSize, NEW pos \in 0 .. n, NEW len \in Nat
  PROVE  /\ Entry!HostRead(n, pos, len) = Entry!TestRead(n, pos, len)
         /\ Entry!HostReadExact(n, pos, len) = Entry!TestReadExact(n, pos, len)
         /\ Entry!HostRead(n, pos, len).size = n /\ Entry!HostReadExact(n, pos, len).size = n
         /\ Entry!HostRead(n, pos, len).position \in 0 .. MaxSize
         /\ Entry!HostReadExact(n, pos, len).position \in 0 .. MaxSize
<1> DEFINE m == IF len <= n - pos THEN len ELSE n - pos
<1>1. /\ m \in Nat /\ pos + m \in 0 .. MaxSize /\ ~(pos > n) /\ ~(n - pos < 0)
      /\ m = (IF n - pos > len THEN len ELSE n - pos) /\ (m = len <=> n - pos >= len)
  BY DEF Entry!EntriesAssumption
<1>2. Entry!state_entry_read(n, len, pos) = m
  BY <1>1 DEF Entry!state_entry_read
<1> HIDE DEF m
<1>3. Entry!HostRead(n, pos, len) = Entry!Gives(n, pos + m, Entry!Ok(m))
  BY <1>2 DEF Entry!HostRead
<1>4. Entry!TestRead(n, pos, len) = Entry!Gives(n, pos + m, Entry!Ok(m))
  BY <1>1 DEF Entry!TestRead
<1>5. Entry!HostReadExact(n, pos, len)
        = Entry!Gives(n, pos + m, IF m = len THEN Entry!Ok(len) ELSE Entry!Err)
  BY <1>2 DEF Entry!HostReadExact
<1>6. Entry!TestReadExact(n, pos, len)
        = Entry!Gives(n, pos + m, IF m = len THEN Entry!Ok(len) ELSE Entry!Err)
  <2>1. (Entry!Ok(m) = Entry!Ok(len)) <=> m = len
    BY DEF Entry!Ok
  <2>2. Entry!Gives(n, pos + m, Entry!Ok(m)).answer = Entry!Ok(m)
    BY DEF Entry!Gives
  <2>3. [Entry!Gives(n, pos + m, Entry!Ok(m)) EXCEPT !.answer = Entry!Err]
          = Entry!Gives(n, pos + m, Entry!Err)
    BY DEF Entry!Gives
  <2> QED BY <1>4, <2>1, <2>2, <2>3 DEF Entry!TestReadExact
<1> QED BY <1>1, <1>3, <1>4, <1>5, <1>6 DEF Entry!Gives

\* Below the size limit, both builds write the same.
LEMMA SameWrites ==
  ASSUME Entry!EntriesAssumption, NEW n \in 0 .. MaxSize, NEW pos \in 0 .. n, NEW len \in Nat,
         Entry!TestWrite(n, pos, len).size <= MaxSize
  PROVE  /\ Entry!HostWrite(n, pos, len) = Entry!TestWrite(n, pos, len)
         /\ Entry!HostWrite(n, pos, len).size \in 0 .. MaxSize
         /\ Entry!HostWrite(n, pos, len).position \in 0 .. MaxSize
<1>1. Entry!TestWrite(n, pos, len).size = Entry!Larger(n, pos + len)
  BY DEF Entry!TestWrite, Entry!Gives
<1>2. /\ pos + len \in 0 .. MaxSize /\ pos + len < W
      /\ Entry!Larger(n, pos + len) \in 0 .. MaxSize
      /\ len = 0 => Entry!Larger(n, pos + len) = n
  BY <1>1 DEF Entry!Larger, Entry!EntriesAssumption
<1>3. Entry!state_entry_write(n, len, pos) = len
  BY DEF Entry!state_entry_write
<1>4. Entry!HostWrite(n, pos, len)
        = Entry!Gives(Entry!Larger(n, pos + len), pos + len, Entry!Ok(len))
  <2>1. ~(pos + len >= W)
    BY <1>2 DEF Entry!EntriesAssumption
  <2>2. (IF len = 0 THEN n ELSE Entry!Larger(n, pos + len)) = Entry!Larger(n, pos + len)
    BY <1>2
  <2> QED BY <1>3, <2>1, <2>2 DEF Entry!HostWrite
<1> QED BY <1>2, <1>4 DEF Entry!TestWrite, Entry!Gives

\* A displacement that is negative, as a word of W.
LEMMA Words ==
  ASSUME W \in Nat \ {0}, NEW n \in Nat, NEW x \in Int, n < W, x < W, -W <= x, -W <= n + x
  PROVE  /\ n + x < W => (n + (x % W)) % W = IF n + x < 0 THEN n + x + W ELSE n + x
         /\ (n + (x % W)) % W \in 0 .. W - 1
<1>1. x % W = IF x < 0 THEN x + W ELSE x
  OBVIOUS
<1> QED OBVIOUS

\* A displacement of a position within the data, as either build reckons.
LEMMA SameMoves ==
  ASSUME Entry!EntriesAssumption,
         NEW n \in 0 .. MaxSize, NEW p \in 0 .. n, NEW x \in Entry!i32,
         ~(x = Entry!Min_i32 /\ 2 * n = W /\ p \in {0, n})
  PROVE  /\ (p + Entry!as_u32(x)) % W <= n <=> x # Entry!Min_i32 /\ p + x \in 0 .. n
         /\ p + x \in 0 .. n => (p + Entry!as_u32(x)) % W = p + x
<1> DEFINE h == W \div 2
<1>1. /\ W \in Nat \ {0} /\ h \in Nat /\ 2 * h = W /\ MaxSize <= h /\ MaxSize \in Nat
      /\ x \in Int /\ -h <= x /\ x < h /\ Entry!Min_i32 = -h
  <2>1. W \in Nat \ {0} /\ MaxSize \in Nat /\ W = 2 * h /\ 2 * MaxSize <= W
    BY DEF Entry!EntriesAssumption
  <2>2. h \in Nat /\ 2 * h = W /\ MaxSize <= h
    BY <2>1
  <2>3. Entry!Min_i32 = -h
    BY DEF Entry!Min_i32
  <2>4. x \in -h .. h - 1
    BY <2>3 DEF Entry!i32
  <2> QED BY <2>1, <2>2, <2>3, <2>4
<1> HIDE DEF h
<1>2. p \in Nat /\ p <= n /\ n <= h /\ n \in Nat /\ p < W /\ x < W /\ -W <= x /\ -W <= p + x
      /\ p + x < W /\ p + x \in Int /\ ~(x = -h /\ n = h /\ (p = 0 \/ p = n))
  BY <1>1
<1>3. (p + Entry!as_u32(x)) % W = IF p + x < 0 THEN p + x + W ELSE p + x
  BY <1>1, <1>2, Words DEF Entry!as_u32
<1> QED BY <1>1, <1>2, <1>3

\* Seeking gives the same, but for a move from a position beyond the data and
\* a move by half a word.
LEMMA SameSeeks ==
  ASSUME Entry!EntriesAssumption,
         NEW n \in 0 .. MaxSize, NEW pos \in 0 .. MaxSize, NEW from, NEW x \in Int,
         \/ from = "Start" /\ x \in Nat
         \/ from = "End" /\ x \in Entry!i32
         \/ from = "Current" /\ x \in Entry!i32 /\ pos <= n,
         from = "End" => ~(x = Entry!Min_i32 /\ 2 * n = W),
         from = "Current" => ~(x = Entry!Min_i32 /\ 2 * n = W /\ pos \in {0, n})
  PROVE  /\ Entry!HostSeek(n, pos, from, x) = Entry!TestSeek(n, pos, from, x)
         /\ Entry!HostSeek(n, pos, from, x).size = n
         /\ Entry!HostSeek(n, pos, from, x).position \in 0 .. MaxSize
<1> DEFINE to(p) == Entry!Gives(n, p, Entry!Ok(p))
           stay == Entry!Gives(n, pos, Entry!Err)
<1>1. MaxSize \in Nat /\ n \in Nat /\ pos \in Nat
  BY DEF Entry!EntriesAssumption
<1>2. /\ stay.size = n /\ stay.position \in 0 .. MaxSize
      /\ \A p \in 0 .. n : to(p).size = n /\ to(p).position \in 0 .. MaxSize
  BY <1>1 DEF Entry!Gives
<1>3. CASE from = "Start"
  <2>1. Entry!HostSeek(n, pos, from, x) = IF x <= n THEN to(x) ELSE stay
    BY <1>3 DEF Entry!HostSeek, Entry!Fails
  <2>2. Entry!TestSeek(n, pos, from, x) = IF x <= n THEN to(x) ELSE stay
    BY <1>3 DEF Entry!TestSeek, Entry!Fails
  <2>3. x \in Nat
    BY <1>3
  <2> HIDE DEF to, stay
  <2>4. x <= n => x \in 0 .. n
    BY <1>1, <2>3
  <2> QED BY <1>2, <2>1, <2>2, <2>4
<1>4. CASE from = "End"
  <2> DEFINE w == (n + Entry!as_u32(x)) % W
  <2>1. Entry!HostSeek(n, pos, from, x) = IF w <= n /\ ~(x > 0) THEN to(w) ELSE stay
    BY <1>4 DEF Entry!HostSeek, Entry!Fails
  <2>2. Entry!TestSeek(n, pos, from, x)
          = IF x <= 0 /\ x # Entry!Min_i32 /\ n + x >= 0 THEN to(n + x) ELSE stay
    BY <1>4 DEF Entry!TestSeek, Entry!Fails
  <2>3. /\ w <= n <=> x # Entry!Min_i32 /\ n + x \in 0 .. n
        /\ n + x \in 0 .. n => w = n + x
    BY <1>1, <1>4, SameMoves
  <2> HIDE DEF to, stay, w
  <2>4. CASE x <= 0 /\ x # Entry!Min_i32 /\ n + x >= 0
    <3>1. n + x \in 0 .. n /\ w = n + x /\ w <= n /\ ~(x > 0)
      BY <1>1, <2>3, <2>4
    <3> QED BY <1>2, <2>1, <2>2, <2>4, <3>1
  <2>5. CASE ~(x <= 0 /\ x # Entry!Min_i32 /\ n + x >= 0)
    <3>1. ~(w <= n /\ ~(x > 0))
      BY <1>1, <2>3, <2>5
    <3> QED BY <1>2, <2>1, <2>2, <2>5, <3>1
  <2> QED BY <2>4, <2>5
<1>5. CASE from = "Current"
  <2> DEFINE w == (pos + Entry!as_u32(x)) % W
  <2>1. Entry!HostSeek(n, pos, from, x) = IF w <= n THEN to(w) ELSE stay
    BY <1>5 DEF Entry!HostSeek, Entry!Fails
  <2>2. Entry!TestSeek(n, pos, from, x)
          = IF x = 0 THEN to(pos)
            ELSE IF x > 0 THEN IF pos + x <= n THEN to(pos + x) ELSE stay
            ELSE IF x # Entry!Min_i32 /\ pos + x >= 0 THEN to(pos + x) ELSE stay
    BY <1>5 DEF Entry!TestSeek, Entry!Fails
  <2>3. pos <= n /\ x \in Entry!i32
    BY <1>5
  <2>4. /\ w <= n <=> x # Entry!Min_i32 /\ pos + x \in 0 .. n
        /\ pos + x \in 0 .. n => w = pos + x
    <3>1. ~(x = Entry!Min_i32 /\ 2 * n = W /\ (pos = 0 \/ pos = n))
      BY <1>5
    <3> QED BY <1>1, <2>3, <3>1, SameMoves
  <2>5. x >= 0 => x # Entry!Min_i32
    <3>1. W \in Nat \ {0} /\ W \div 2 \in Nat /\ W = 2 * (W \div 2)
      BY DEF Entry!EntriesAssumption
    <3>2. Entry!Min_i32 = -(W \div 2) /\ W \div 2 > 0
      BY <1>1, <3>1 DEF Entry!Min_i32
    <3> QED BY <3>1, <3>2
  <2> HIDE DEF to, stay, w
  <2>6. CASE x # Entry!Min_i32 /\ pos + x \in 0 .. n
    <3>1. w = pos + x /\ w \in 0 .. n /\ w <= n
      BY <1>1, <2>4, <2>6
    <3>2. Entry!HostSeek(n, pos, from, x) = to(w)
      BY <2>1, <3>1
    <3>3. Entry!TestSeek(n, pos, from, x) = to(w)
      <4>1. x = 0 => pos = w
        BY <1>1, <3>1
      <4>2. pos + x <= n /\ pos + x >= 0
        BY <1>1, <2>6
      <4> QED BY <2>2, <2>6, <3>1, <4>1, <4>2
    <3> QED BY <1>2, <3>1, <3>2, <3>3
  <2>7. CASE ~(x # Entry!Min_i32 /\ pos + x \in 0 .. n)
    <3>1. ~(w <= n)
      BY <2>4, <2>7
    <3>2. x # 0 /\ (x > 0 => ~(pos + x <= n)) /\ (~(x > 0) => ~(x # Entry!Min_i32 /\ pos + x >= 0))
      BY <1>1, <2>3, <2>5, <2>7
    <3> QED BY <1>2, <2>1, <2>2, <3>1, <3>2
  <2> QED BY <2>6, <2>7
<1> QED BY <1>3, <1>4, <1>5

\* Resizing gives the same whatever the position.
LEMMA SameSizes ==
  ASSUME NEW n \in 0 .. MaxSize, NEW pos \in 0 .. MaxSize, NEW m \in 0 .. MaxSize
  PROVE  /\ Entry!HostResize(n, pos, m) = Entry!TestResize(n, pos, m)
         /\ Entry!HostResize(n, pos, m).size \in 0 .. MaxSize
         /\ Entry!HostResize(n, pos, m).position \in 0 .. MaxSize
         /\ Entry!Gives(n, pos, Entry!Ok(0)).size \in 0 .. MaxSize
         /\ Entry!Gives(n, pos, Entry!Ok(0)).position \in 0 .. MaxSize
BY DEF Entry!HostResize, Entry!TestResize, Entry!Gives

\* Every step keeps the agreement of the two builds.
LEMMA EntryKeeps ==
  ASSUME EntryInv, [Entry!Next]_entry
  PROVE  EntryInv'
<1> DEFINE n == size["host"]
           pos(h) == position["host"][h]
<1>0. SUFFICES ASSUME ~strayed'
               PROVE  EntryInv'
  BY DEF EntryInv
<1>a. Entry!EntriesAssumption /\ MaxSize \in Nat
  BY Limits DEF Entry!EntriesAssumption
<1>1. ASSUME NEW h \in Openers, NEW len \in 0 .. MaxBuf,
             Entry!read(h, len) \/ Entry!read_exact(h, len) \/ Entry!write(h, len)
      PROVE  EntryInv'
  <2>1. n # Entry!Gone /\ ~strayed /\ Entry!Strays(h) /\ len \in Nat
    BY <1>1, <1>a DEF Entry!read, Entry!read_exact, Entry!write, Entry!Does, Entry!EntriesAssumption
  <2>2. /\ n \in 0 .. MaxSize /\ size["test"] = n /\ pos(h) \in 0 .. n
        /\ position["test"][h] = pos(h)
    <3>1. ~Entry!Beyond(h)
      BY <1>0, <2>1 DEF Entry!Strays
    <3> QED BY <1>a, <2>1, <3>1, Operation
  <2> HIDE DEF n, pos
  <2>3. CASE Entry!read(h, len)
    <3>1. Entry!Both(h, Entry!HostRead(n, pos(h), len), Entry!TestRead(n, pos(h), len))
      BY <2>2, <2>3 DEF Entry!read, Entry!Does, n, pos
    <3>2. /\ Entry!HostRead(n, pos(h), len) = Entry!TestRead(n, pos(h), len)
          /\ Entry!HostRead(n, pos(h), len).size \in 0 .. MaxSize
          /\ Entry!HostRead(n, pos(h), len).position \in 0 .. MaxSize
      BY <1>a, <2>1, <2>2, SameReads
    <3> QED BY <1>0, <2>1, <3>1, <3>2, BuildsAlike
  <2>4. CASE Entry!read_exact(h, len)
    <3>1. Entry!Both(h, Entry!HostReadExact(n, pos(h), len), Entry!TestReadExact(n, pos(h), len))
      BY <2>2, <2>4 DEF Entry!read_exact, Entry!Does, n, pos
    <3>2. /\ Entry!HostReadExact(n, pos(h), len) = Entry!TestReadExact(n, pos(h), len)
          /\ Entry!HostReadExact(n, pos(h), len).size \in 0 .. MaxSize
          /\ Entry!HostReadExact(n, pos(h), len).position \in 0 .. MaxSize
      BY <1>a, <2>1, <2>2, SameReads
    <3> QED BY <1>0, <2>1, <3>1, <3>2, BuildsAlike
  <2>5. CASE Entry!write(h, len)
    <3>1. /\ Entry!Both(h, Entry!HostWrite(n, pos(h), len), Entry!TestWrite(n, pos(h), len))
          /\ size'["test"] <= MaxSize
      BY <2>2, <2>5 DEF Entry!write, Entry!Does, Entry!Builds, n, pos
    <3>2. Entry!TestWrite(n, pos(h), len).size <= MaxSize
      BY <3>1 DEF Entry!Both
    <3> QED BY <1>0, <1>a, <2>1, <2>2, <3>1, <3>2, SameWrites, BuildsAlike
  <2> QED BY <1>1, <2>3, <2>4, <2>5
<1>2. ASSUME NEW h \in Openers, NEW m \in 0 .. MaxSize,
             Entry!resize(h, m) \/ Entry!truncate(h, m) \/ Entry!reserve(h, m)
      PROVE  EntryInv'
  <2>1. n # Entry!Gone /\ ~strayed
    BY <1>2 DEF Entry!resize, Entry!truncate, Entry!reserve, Entry!Does
  <2>2. /\ n \in 0 .. MaxSize /\ size["test"] = n /\ pos(h) \in 0 .. MaxSize
        /\ position["test"][h] = pos(h)
    BY <2>1, Operation
  <2> DEFINE moved == Entry!HostResize(n, pos(h), m)
             stays == Entry!Gives(n, pos(h), Entry!Ok(0))
  <2>3. Entry!TestResize(n, pos(h), m) = moved
    BY <2>2, SameSizes
  <2>4. \A g \in {moved, stays} : g.size \in 0 .. MaxSize /\ g.position \in 0 .. MaxSize
    BY <2>2, SameSizes
  <2> HIDE DEF n, pos, moved, stays
  <2>5. \/ Entry!Both(h, moved, moved)
        \/ Entry!Both(h, stays, stays)
    <3>1. CASE Entry!resize(h, m)
      BY <2>2, <2>3, <3>1 DEF Entry!resize, Entry!Does, n, pos, moved
    <3>2. CASE Entry!truncate(h, m)
      <4>1. CASE n > m
        BY <2>2, <2>3, <3>2, <4>1 DEF Entry!truncate, Entry!Does, n, pos, moved
      <4>2. CASE ~(n > m)
        BY <2>2, <3>2, <4>2 DEF Entry!truncate, Entry!Does, n, pos, stays
      <4> QED BY <4>1, <4>2
    <3>3. CASE Entry!reserve(h, m)
      <4>1. CASE n < m
        BY <2>2, <2>3, <3>3, <4>1 DEF Entry!reserve, Entry!Does, n, pos, moved
      <4>2. CASE ~(n < m)
        BY <2>2, <3>3, <4>2 DEF Entry!reserve, Entry!Does, n, pos, stays
      <4> QED BY <4>1, <4>2
    <3> QED BY <1>2, <3>1, <3>2, <3>3
  <2> QED BY <1>0, <2>1, <2>4, <2>5, BuildsAlike
<1>3. ASSUME NEW h \in Openers, NEW from, NEW x \in Int,
             \/ from = "Start" /\ x \in Nat
             \/ from \in {"End", "Current"} /\ x \in Entry!i32,
             Entry!seek(h, from, x)
      PROVE  EntryInv'
  <2>1. /\ n # Entry!Gone /\ ~strayed
        /\ ~Entry!HalfWord(h, from, x) /\ (from = "Current" => ~Entry!Beyond(h))
    BY <1>0, <1>3 DEF Entry!seek, Entry!Does
  <2>2. /\ n \in 0 .. MaxSize /\ size["test"] = n /\ pos(h) \in 0 .. MaxSize
        /\ position["test"][h] = pos(h) /\ (from = "Current" => pos(h) <= n)
        /\ from = "End" => ~(x = Entry!Min_i32 /\ 2 * n = W)
        /\ from = "Current" => ~(x = Entry!Min_i32 /\ 2 * n = W /\ pos(h) \in {0, n})
    BY <2>1, Operation DEF Entry!HalfWord
  <2> HIDE DEF n, pos
  <2>3. Entry!Both(h, Entry!HostSeek(n, pos(h), from, x), Entry!TestSeek(n, pos(h), from, x))
    BY <1>3, <2>2 DEF Entry!seek, Entry!Does, n, pos
  <2>4. /\ Entry!HostSeek(n, pos(h), from, x) = Entry!TestSeek(n, pos(h), from, x)
        /\ Entry!HostSeek(n, pos(h), from, x).size \in 0 .. MaxSize
        /\ Entry!HostSeek(n, pos(h), from, x).position \in 0 .. MaxSize
    BY <1>3, <1>a, <2>2, SameSeeks
  <2> QED BY <1>0, <2>1, <2>3, <2>4, BuildsAlike
<1>4. ASSUME NEW h \in Openers, Entry!move_to_start(h)
      PROVE  EntryInv'
  <2> DEFINE p == position["host"]
  <2>1. /\ ~strayed /\ size' = size /\ answers' = answers
        /\ position'["host"] = [p EXCEPT ![h] = 0]
        /\ position'["test"] = [position["test"] EXCEPT ![h] = 0]
    BY <1>0, <1>4 DEF Entry!move_to_start, Entry!Builds
  <2>2. p \in [Openers -> 0 .. MaxSize] /\ position["test"] = p
    BY <2>1 DEF EntryInv
  <2>3. [p EXCEPT ![h] = 0] \in [Openers -> 0 .. MaxSize]
    BY <1>a, <2>2
  <2> QED BY <2>1, <2>2, <2>3 DEF EntryInv
<1>5. CASE Entry!delete_prefix \/ Entry!UseDeleted
  BY <1>0, <1>5 DEF Entry!delete_prefix, Entry!UseDeleted, Entry!Builds, EntryInv
<1>6. CASE UNCHANGED entry
  BY <1>6 DEF entry, EntryInv
<1>7. /\ 0 .. W - 1 \subseteq Int \cap Nat
      /\ Entry!i32 \subseteq Int
  BY DEF Entry!i32
<1> HIDE DEF n, pos
<1>8. CASE Entry!Next
  BY <1>1, <1>2, <1>3, <1>4, <1>5, <1>7, <1>8 DEF Entry!Next
<1> QED BY <1>6, <1>8

\* The two builds agree at the start.
LEMMA EntryStarts ==
  ASSUME Entry!EntriesAssumption, Entry!Init
  PROVE  EntryInv
BY DEF Entry!Init, Entry!EntriesAssumption, Entry!Builds, EntryInv

-----------------------------------------------------------------------------
(* A value of a map: its bytes begin with the value stored last, and every   *)
(* open way to it knows that value or will read it.                          *)
Holds(bytes, v) ==
  bytes \in Seq(Nat) /\ Len(bytes) > v /\ \A i \in 1 .. v + 1 : bytes[i] = v

\* A serialised value holds the value.
LEMMA Serials ==
  ASSUME NEW v \in Nat
  PROVE  Holds(Value!serial(v), v) /\ Len(Value!serial(v)) = v + 1
<1> DEFINE tail == [i \in 1 .. v |-> v]
           s == <<v>> \o tail
<1>1. tail \in Seq(Nat) /\ Len(tail) = v /\ \A i \in 1 .. v : tail[i] = v
  OBVIOUS
<1> HIDE DEF tail
<1>2. s \in Seq(Nat) /\ Len(s) = v + 1 /\ s[1] = v
      /\ \A i \in 2 .. v + 1 : s[i] = tail[i - 1]
  BY <1>1
<1>3. \A i \in 1 .. v + 1 : s[i] = v
  <2> SUFFICES ASSUME NEW i \in 1 .. v + 1
               PROVE  s[i] = v
    OBVIOUS
  <2>1. CASE i = 1
    BY <1>2, <2>1
  <2>2. CASE i # 1
    <3>1. i \in 2 .. v + 1 /\ i - 1 \in 1 .. v
      BY <2>2
    <3> QED BY <1>1, <1>2, <3>1
  <2> QED BY <2>1, <2>2
<1>4. Value!serial(v) = s
  BY DEF Value!serial, tail
<1> HIDE DEF s
<1> QED BY <1>2, <1>3, <1>4 DEF Holds

\* Bytes that hold a value read as that value.
LEMMA Deserials ==
  ASSUME NEW v \in Nat, NEW bytes, Holds(bytes, v)
  PROVE  Value!deserial(bytes) = v
<1>1. bytes \in Seq(Nat) /\ Len(bytes) \in Nat /\ Len(bytes) > v /\ bytes[1] = v
  BY DEF Holds
<1> DEFINE n == v + 1
           s == SubSeq(bytes, 1, n)
<1>2. s \in Seq(Nat) /\ Len(s) = n /\ \A i \in 1 .. n : s[i] = bytes[i]
  BY <1>1
<1>3. s = Value!serial(v)
  <2>1. /\ Value!serial(v) \in Seq(Nat) /\ Len(Value!serial(v)) = n
        /\ \A i \in 1 .. n : Value!serial(v)[i] = v
    BY Serials DEF Holds
  <2> HIDE DEF s
  <2>2. \A i \in 1 .. Len(s) : s[i] = Value!serial(v)[i]
    BY <1>2, <2>1 DEF Holds
  <2> QED BY <1>2, <2>1, <2>2, SameNumbers
<1> QED BY <1>1, <1>3 DEF Value!deserial

\* What is written at the start is what is read, whatever was there.
LEMMA Writes ==
  ASSUME NEW v \in Nat, NEW bytes \in Seq(Nat)
  PROVE  /\ Holds(Value!Written(bytes, 0, v), v)
         /\ Holds(SubSeq(Value!Written(bytes, 0, v), 1, Len(Value!serial(v))), v)
<1> DEFINE new == Value!serial(v)
           n == IF v + 1 > Len(bytes) THEN v + 1 ELSE Len(bytes)
           w == [i \in 1 .. n |-> IF i \in 1 .. v + 1 THEN new[i] ELSE bytes[i]]
<1>1. new \in Seq(Nat) /\ Len(new) = v + 1 /\ \A i \in 1 .. v + 1 : new[i] = v
  BY Serials DEF Holds
<1>2. n \in Nat /\ n >= v + 1 /\ Len(bytes) \in Nat
      /\ \A i \in 1 .. n : i \in 1 .. v + 1 \/ i \in 1 .. Len(bytes)
  OBVIOUS
<1> HIDE DEF new
<1>3. Value!Written(bytes, 0, v) = w
  <2>1. Value!Written(bytes, 0, v)
          = [i \in 1 .. n |-> IF i \in 1 .. v + 1 THEN new[i - 0] ELSE bytes[i]]
    BY <1>1, <1>2 DEF Value!Written, new
  <2> QED BY <1>2, <2>1
<1> HIDE DEF n
<1>4. w \in Seq(Nat) /\ Len(w) = n /\ \A i \in 1 .. v + 1 : w[i] = v
  <2>1. \A i \in 1 .. n : (IF i \in 1 .. v + 1 THEN new[i] ELSE bytes[i]) \in Nat
    BY <1>1, <1>2
  <2>2. w \in [1 .. n -> Nat]
    BY <2>1
  <2> QED BY <1>1, <1>2, <2>2
<1> HIDE DEF w
<1>5. Holds(w, v)
  BY <1>2, <1>4 DEF Holds
<1>6. Holds(SubSeq(w, 1, v + 1), v)
  <2>1. v + 1 \in Nat /\ v + 1 <= Len(w)
    BY <1>2, <1>4
  <2>2. /\ SubSeq(w, 1, v + 1) \in Seq(Nat) /\ Len(SubSeq(w, 1, v + 1)) = v + 1
        /\ \A i \in 1 .. v + 1 : SubSeq(w, 1, v + 1)[i] = w[i]
    BY <1>4, <2>1
  <2> QED BY <1>4, <2>2 DEF Holds
<1> QED BY <1>1, <1>3, <1>5, <1>6 DEF new

Reference == [open : {TRUE}, lazy_value : Value!Values \cup {Value!None}]
Occupied == [open : {TRUE}, pos : Nat, value : Value!Values, modified : BOOLEAN]

ValueTyped ==
  /\ data = Value!Absent \/ \E v \in Value!Values : Holds(data, v)
  /\ refs \in [Refs -> {Value!Closed} \cup Reference]
  /\ occ \in {Value!Closed} \cup Occupied
  /\ stale \in BOOLEAN /\ aliased \in BOOLEAN

\* What is open is open on a value, the occupied entry alone.
ValueOpen ==
  /\ data = Value!Absent => Value!NoRefs /\ occ = Value!Closed
  /\ occ # Value!Closed => Value!NoRefs

\* A reference has the latest value, or will read it.
Knows(ref) ==
  IF ref.lazy_value = Value!None THEN Holds(data, latest) ELSE ref.lazy_value = latest

ValueLatest ==
  ~aliased =>
    /\ ~stale
    /\ data # Value!Absent => latest \in Value!Values
    /\ Value!Exclusive /\ data # Value!Absent => Holds(data, latest)
    /\ \A r, s \in Refs : refs[r].open /\ refs[s].open => r = s
    /\ \A r \in Refs : refs[r].open => Knows(refs[r])
    /\ occ.open => occ.value = latest /\ (~occ.modified => Holds(data, latest))

ValueInv == ValueTyped /\ ValueOpen /\ ValueLatest

\* What the invariant says of the bytes in the map.
LEMMA ValueFacts ==
  /\ \A v \in Value!Values : v \in Nat /\ v # Value!None
  /\ \A v \in Value!Values : Holds(data, v) => data # Value!Absent /\ data \in Seq(Nat)
  /\ ValueInv => data \in Seq(Nat)
  /\ ValueInv /\ data # Value!Absent => Value!deserial(data) \in Value!Values
  /\ \A v \in Value!Values : Holds(data, v) => Value!deserial(data) = v
<1>0. MaxLen \in Nat
  BY Limits DEF Value!MapEntryAssumption
<1>1. \A v \in Value!Values : v \in Nat /\ v # Value!None
  BY <1>0 DEF Value!Values, Value!None
<1>2. ASSUME NEW v \in Value!Values, Holds(data, v)
      PROVE  data # Value!Absent /\ data \in Seq(Nat)
  BY <1>1, <1>2 DEF Holds, Value!Absent
<1>3. \A v \in Value!Values : Holds(data, v) => Value!deserial(data) = v
  BY <1>1, Deserials
<1>4. ValueInv => data \in Seq(Nat)
  <2>1. Value!Absent \in Seq(Nat)
    BY DEF Value!Absent
  <2>2. \A v : Holds(data, v) => data \in Seq(Nat)
    BY DEF Holds
  <2> QED BY <2>1, <2>2 DEF ValueInv, ValueTyped
<1>5. ValueInv /\ data # Value!Absent => Value!deserial(data) \in Value!Values
  BY <1>3 DEF ValueInv, ValueTyped
<1> QED BY <1>1, <1>2, <1>3, <1>4, <1>5

\* The invariant of the map entry holds at the start.
LEMMA ValueStarts ==
  ASSUME Value!Init
  PROVE  ValueInv
<1>1. Value!Exclusive /\ data = Value!Absent /\ ~stale /\ aliased = FALSE
  BY DEF Value!Init, Value!Exclusive, Value!NoRefs
<1>2. \A r \in Refs : ~refs[r].open
  BY DEF Value!Init, Value!Closed
<1>3. ~occ.open
  BY DEF Value!Init, Value!Closed
<1>4. ValueTyped
  BY DEF Value!Init, ValueTyped
<1> QED BY <1>1, <1>2, <1>3, <1>4 DEF ValueInv, ValueOpen, ValueLatest, Value!Exclusive

\* What is open and what is not.
LEMMA Ways ==
  ASSUME ValueInv
  PROVE  /\ \A r \in Refs : /\ ~(refs[r].open) <=> refs[r] = Value!Closed
                            /\ refs[r].open => refs[r] \in Reference
         /\ ~occ.open <=> occ = Value!Closed
         /\ occ.open => occ \in Occupied
         /\ Value!NoRefs <=> \A r \in Refs : ~(refs[r].open)
<1>1. ~Value!Closed.open
  BY DEF Value!Closed
<1>2. \A x \in Reference \cup Occupied : x.open
  BY DEF Reference, Occupied
<1>3. \A r \in Refs : refs[r] \in {Value!Closed} \cup Reference
  BY DEF ValueInv, ValueTyped
<1>4. occ \in {Value!Closed} \cup Occupied
  BY DEF ValueInv, ValueTyped
<1> QED BY <1>1, <1>2, <1>3, <1>4 DEF Value!NoRefs

\* A value given or assigned with nothing open.
LEMMA ClosedKeeps ==
  ASSUME ValueInv, Value!Exclusive, UNCHANGED <<refs, occ, aliased>>,
         stale' = stale \/ (Value!Returns(Value!deserial(data)) /\ data # Value!Absent),
         \/ data' = Value!Absent
         \/ latest' \in Value!Values /\ Holds(data', latest')
  PROVE  ValueInv'
<1>1. ~aliased => stale' = stale
  <2>1. ~aliased /\ data # Value!Absent => ~(Value!deserial(data) # latest)
    BY ValueFacts DEF ValueInv, ValueLatest
  <2>2. stale \in BOOLEAN
    BY DEF ValueInv, ValueTyped
  <2> QED BY <2>1, <2>2 DEF Value!Returns
<1>2. \A r \in Refs : ~(refs[r].open)
  BY Ways DEF Value!Exclusive
<1>3. ~occ.open /\ occ = Value!Closed
  BY Ways DEF Value!Exclusive
<1>4. ValueTyped'
  BY DEF ValueInv, ValueTyped, Value!Returns
<1>5. ValueOpen'
  BY <1>3 DEF Value!Exclusive, Value!NoRefs, ValueOpen
<1>6. ValueLatest'
  <2>1. ~aliased => ~stale'
    BY <1>1 DEF ValueInv, ValueLatest, ValueTyped
  <2>2. /\ data' # Value!Absent => latest' \in Value!Values /\ Holds(data', latest')
        /\ refs' = refs /\ occ' = occ /\ aliased' = aliased
    OBVIOUS
  <2> QED BY <1>2, <1>3, <2>1, <2>2 DEF ValueLatest
<1> QED BY <1>4, <1>5, <1>6 DEF ValueInv

\* What a reference gives.
LEMMA Loads ==
  ASSUME ValueInv, NEW r \in Refs, refs[r].open
  PROVE  /\ Value!load_value(r) \in Value!Values
         /\ ~aliased => Value!load_value(r) = latest
         /\ refs[r] \in Reference /\ data # Value!Absent /\ occ = Value!Closed /\ ~occ.open
<1>1. refs[r] \in Reference
  BY Ways
<1>2. data # Value!Absent /\ occ = Value!Closed /\ ~occ.open
  BY Ways DEF ValueInv, ValueOpen
<1>3. ~aliased => Knows(refs[r]) /\ latest \in Value!Values
  BY <1>2 DEF ValueInv, ValueLatest
<1>4. refs[r].lazy_value \in Value!Values \cup {Value!None}
  BY <1>1 DEF Reference
<1> QED BY <1>1, <1>2, <1>3, <1>4, ValueFacts DEF Value!load_value, Knows

\* A reference is used.
LEMMA RefKeeps ==
  ASSUME ValueInv, NEW r \in Refs, refs[r].open, NEW v \in Value!Values,
         refs' = [refs EXCEPT ![r].lazy_value = v], UNCHANGED <<occ, aliased>>,
         stale' = stale \/ Value!Returns(Value!load_value(r)),
         ~aliased => latest' = v,
         data' = data \/ Holds(data', v)
  PROVE  ValueInv'
<1> DEFINE ref == refs[r]
           x == [ref EXCEPT !.lazy_value = v]
<1>2. ref \in Reference /\ refs \in [Refs -> {Value!Closed} \cup Reference]
  BY Loads DEF ValueInv, ValueTyped
<1>3. refs' = [refs EXCEPT ![r] = x]
  OBVIOUS
<1> HIDE DEF ref
<1>1. x \in Reference /\ x.open /\ x.lazy_value = v /\ v # Value!None
  BY <1>2, ValueFacts DEF Reference
<1> HIDE DEF x
<1>4. refs' \in [Refs -> {Value!Closed} \cup Reference] /\ refs'[r] = x
      /\ \A s \in Refs : s # r => refs'[s] = refs[s]
  BY <1>1, <1>2, <1>3
<1>5. \E u \in Value!Values : Holds(data', u)
  BY Loads DEF ValueInv, ValueTyped
<1>6. data' # Value!Absent /\ occ' = Value!Closed /\ ~occ'.open
  <2>1. \A u \in Value!Values : Holds(data', u) => data' # Value!Absent
    BY ValueFacts DEF Holds, Value!Absent
  <2> QED BY <1>5, <2>1, Loads
<1>7. stale \in BOOLEAN /\ stale' \in BOOLEAN /\ (~aliased => stale' = stale)
  <2>1. stale \in BOOLEAN
    BY DEF ValueInv, ValueTyped
  <2>2. ~aliased => ~(Value!load_value(r) # latest)
    BY Loads
  <2> QED BY <2>1, <2>2 DEF Value!Returns
<1>8. ValueTyped'
  BY <1>4, <1>5, <1>6, <1>7 DEF ValueInv, ValueTyped
<1>9. ValueOpen'
  BY <1>6 DEF ValueOpen
<1>10. ValueLatest'
  <2> SUFFICES ASSUME ~aliased'
               PROVE  ValueLatest'
    BY DEF ValueLatest
  <2>1. ~stale'
    BY <1>7 DEF ValueInv, ValueLatest
  <2>2. latest' \in Value!Values
    OBVIOUS
  <2>3. ~Value!Exclusive'
    <3>1. refs'[r] # Value!Closed
      BY <1>1, <1>4 DEF Value!Closed
    <3> QED BY <3>1 DEF Value!Exclusive, Value!NoRefs
  <2>4. \A s \in Refs : refs[s].open => s = r
    BY DEF ValueInv, ValueLatest
  <2>5. \A s \in Refs : refs'[s].open => s = r
    BY <1>4, <2>4
  <2>6. Knows(refs[r])'
    BY <1>1, <1>4 DEF Knows
  <2> QED BY <1>6, <2>1, <2>2, <2>3, <2>5, <2>6 DEF ValueLatest
<1> QED BY <1>8, <1>9, <1>10 DEF ValueInv

\* A reference is taken.
LEMMA TakeKeeps ==
  ASSUME ValueInv, NEW r \in Refs, Value!get_mut(r)
  PROVE  ValueInv'
<1> DEFINE x == [open |-> TRUE, lazy_value |-> Value!None]
<1>1. x \in Reference /\ x.open /\ x.lazy_value = Value!None
  BY DEF Reference
<1>2. /\ refs' = [refs EXCEPT ![r] = x] /\ data # Value!Absent /\ occ = Value!Closed
      /\ aliased' = (aliased \/ ~Value!NoRefs) /\ UNCHANGED <<data, occ, latest, stale>>
  BY DEF Value!get_mut
<1> HIDE DEF x
<1>3. refs \in [Refs -> {Value!Closed} \cup Reference]
  BY DEF ValueInv, ValueTyped
<1>4. refs' \in [Refs -> {Value!Closed} \cup Reference] /\ refs'[r] = x
      /\ \A s \in Refs : s # r => refs'[s] = refs[s]
  BY <1>1, <1>2, <1>3
<1>5. ValueTyped'
  <2>1. aliased' \in BOOLEAN
    BY <1>2 DEF ValueInv, ValueTyped
  <2> QED BY <1>2, <1>4, <2>1 DEF ValueInv, ValueTyped
<1>6. ValueOpen'
  BY <1>2 DEF ValueOpen
<1>7. ValueLatest'
  <2> SUFFICES ASSUME ~aliased'
               PROVE  ValueLatest'
    BY DEF ValueLatest
  <2>1. ~aliased /\ Value!NoRefs
    BY <1>2
  <2>2. Holds(data, latest) /\ ~stale /\ latest \in Value!Values
    BY <1>2, <2>1 DEF ValueInv, ValueLatest, Value!Exclusive
  <2>3. \A s \in Refs : refs'[s].open => s = r
    BY <1>4, <2>1, Ways
  <2>4. Knows(refs[r])'
    BY <1>1, <1>2, <1>4, <2>2 DEF Knows
  <2>5. ~occ'.open
    BY <1>2, Ways
  <2> QED BY <1>2, <2>2, <2>3, <2>4, <2>5 DEF ValueLatest
<1> QED BY <1>5, <1>6, <1>7 DEF ValueInv

\* A reference is dropped, and stores what it loaded.
LEMMA DropKeeps ==
  ASSUME ValueInv, NEW r \in Refs, Value!RefDrop(r)
  PROVE  ValueInv'
<1> DEFINE lazy == refs[r].lazy_value
<1>1. /\ refs[r].open /\ refs' = [refs EXCEPT ![r] = Value!Closed]
      /\ data' = IF lazy = Value!None THEN data ELSE Value!Written(data, 0, lazy)
      /\ UNCHANGED <<occ, latest, stale, aliased>>
  BY DEF Value!RefDrop
<1>2. /\ refs[r] \in Reference /\ data # Value!Absent /\ occ = Value!Closed /\ ~occ.open
      /\ refs \in [Refs -> {Value!Closed} \cup Reference]
  BY <1>1, Loads DEF ValueInv, ValueTyped
<1>3. lazy \in Value!Values \cup {Value!None}
  BY <1>2 DEF Reference
<1> HIDE DEF lazy
<1>4. lazy # Value!None => Holds(data', lazy)
  BY <1>1, <1>3, ValueFacts, Writes
<1>5. \E u \in Value!Values : Holds(data', u)
  BY <1>1, <1>2, <1>3, <1>4 DEF ValueInv, ValueTyped
<1>6. data' # Value!Absent
  <2>1. \A u \in Value!Values : Holds(data', u) => data' # Value!Absent
    BY ValueFacts DEF Holds, Value!Absent
  <2> QED BY <1>5, <2>1
<1>7. refs' \in [Refs -> {Value!Closed} \cup Reference] /\ refs'[r] = Value!Closed
      /\ \A s \in Refs : s # r => refs'[s] = refs[s]
  BY <1>1, <1>2
<1>8. ValueTyped'
  BY <1>1, <1>5, <1>7 DEF ValueInv, ValueTyped
<1>9. ValueOpen'
  BY <1>1, <1>2, <1>6 DEF ValueOpen
<1>10. ValueLatest'
  <2> SUFFICES ASSUME ~aliased
               PROVE  ValueLatest'
    BY <1>1 DEF ValueLatest
  <2>1. /\ Knows(refs[r]) /\ ~stale /\ latest \in Value!Values
        /\ \A s \in Refs : refs[s].open => s = r
    BY <1>1, <1>2 DEF ValueInv, ValueLatest
  <2>2. Holds(data', latest)
    BY <1>1, <1>4, <2>1 DEF Knows, lazy
  <2>3. \A s \in Refs : ~(refs'[s].open)
    BY <1>7, <2>1 DEF Value!Closed
  <2> QED BY <1>1, <1>2, <2>1, <2>2, <2>3 DEF ValueLatest
<1> QED BY <1>8, <1>9, <1>10 DEF ValueInv

\* An occupied entry is made or used.
LEMMA OccupiedKeeps ==
  ASSUME ValueInv, Value!NoRefs, UNCHANGED <<refs, aliased>>, NEW o \in Occupied, occ' = o,
         \E v \in Value!Values : Holds(data', v), stale' \in BOOLEAN,
         ~aliased => /\ ~stale' /\ latest' \in Value!Values /\ o.value = latest'
                     /\ ~o.modified => Holds(data', latest')
  PROVE  ValueInv'
<1>1. data' # Value!Absent
  <2>1. \A u \in Value!Values : Holds(data', u) => data' # Value!Absent
    BY ValueFacts DEF Holds, Value!Absent
  <2> QED BY <2>1
<1>2. o # Value!Closed /\ o.open
  <2>1. o.open
    BY DEF Occupied
  <2>2. ~Value!Closed.open
    BY DEF Value!Closed
  <2> QED BY <2>1, <2>2
<1>3. ValueTyped'
  BY DEF ValueInv, ValueTyped
<1>4. ValueOpen'
  BY <1>1 DEF ValueOpen, Value!NoRefs
<1>5. \A r \in Refs : ~(refs'[r].open)
  BY Ways
<1>6. ValueLatest'
  BY <1>1, <1>2, <1>5 DEF ValueLatest, Value!Exclusive
<1> QED BY <1>3, <1>4, <1>6 DEF ValueInv

\* What the program is given is what it assigned last.
LEMMA ReturnsLatest ==
  ASSUME ValueInv, NEW v, ~aliased => v = latest, Value!Returns(v)
  PROVE  stale' \in BOOLEAN /\ (~aliased => ~stale')
<1>1. stale \in BOOLEAN /\ (~aliased => ~stale)
  BY DEF ValueInv, ValueTyped, ValueLatest
<1>2. ~aliased => ~(v # latest)
  OBVIOUS
<1> QED BY <1>1, <1>2 DEF Value!Returns

\* Opening the entry keeps the invariant.
LEMMA OpenKeeps ==
  ASSUME ValueInv, NEW v \in Value!Values,
         Value!EntryOccupied \/ Value!EntryVacant(v)
  PROVE  ValueInv'
<1>1. CASE Value!EntryOccupied
  <2> DEFINE w == Value!deserial(data)
             o == Value!OccupiedEntry(Len(Value!serial(w)), w, FALSE)
  <2>1. /\ Value!NoRefs /\ Value!Exclusive /\ data # Value!Absent /\ w \in Value!Values
        /\ occ' = o /\ Value!Returns(w) /\ UNCHANGED <<data, refs, latest, aliased>>
    BY <1>1, ValueFacts DEF Value!EntryOccupied, Value!Exclusive
  <2> HIDE DEF w
  <2>2. o \in Occupied /\ o.value = w /\ ~o.modified
    <3>1. Len(Value!serial(w)) \in Nat
      BY <2>1, ValueFacts, Serials
    <3> QED BY <2>1, <3>1 DEF Value!OccupiedEntry, Occupied
  <2>3. ~aliased => latest = w /\ Holds(data, latest) /\ latest \in Value!Values
    BY <2>1, ValueFacts DEF ValueInv, ValueLatest, w
  <2>4. stale' \in BOOLEAN /\ (~aliased => ~stale')
    BY <2>1, <2>3, ReturnsLatest
  <2>5. \E u \in Value!Values : Holds(data', u)
    BY <2>1 DEF ValueInv, ValueTyped
  <2> HIDE DEF o
  <2> QED BY <2>1, <2>2, <2>3, <2>4, <2>5, OccupiedKeeps
<1>2. CASE Value!EntryVacant(v)
  <2> DEFINE o == Value!OccupiedEntry(0, v, FALSE)
  <2>1. /\ Value!NoRefs /\ occ' = o /\ data' = Value!serial(v) /\ latest' = v
        /\ UNCHANGED <<refs, stale, aliased>>
    BY <1>2 DEF Value!EntryVacant, Value!Exclusive, Value!Assigns
  <2>2. o \in Occupied /\ o.value = v /\ ~o.modified
    BY DEF Value!OccupiedEntry, Occupied
  <2>3. Holds(data', v)
    BY <2>1, ValueFacts, Serials
  <2>4. stale' \in BOOLEAN /\ (~aliased => ~stale')
    BY <2>1 DEF ValueInv, ValueTyped, ValueLatest
  <2> HIDE DEF o
  <2> QED BY <2>1, <2>2, <2>3, <2>4, OccupiedKeeps
<1> QED BY <1>1, <1>2

\* What is written over nothing holds the value written.
LEMMA Rewrites == \A v \in Value!Values : Holds(Value!Written(<<>>, 0, v), v)
<1>1. <<>> \in Seq(Nat)
  OBVIOUS
<1>2. \A v \in Value!Values : v \in Nat
  BY ValueFacts
<1> DEFINE empty == <<>>
<1>3. empty \in Seq(Nat)
  BY <1>1
<1> HIDE DEF empty
<1>4. \A v \in Value!Values : Holds(Value!Written(empty, 0, v), v)
  BY <1>2, <1>3, Writes
<1> QED BY <1>4 DEF empty

\* Using the open entry keeps the invariant.
LEMMA UseKeeps ==
  ASSUME ValueInv, NEW v \in Value!Values,
         Value!OccDerefMut(v) \/ Value!modify(v)
  PROVE  ValueInv'
<1> DEFINE o == occ
<1>1. o \in Occupied /\ Value!NoRefs /\ data # Value!Absent
  <2>1. occ.open
    BY DEF Value!OccDerefMut, Value!modify
  <2> QED BY <2>1, Ways DEF ValueInv, ValueOpen
<1>2. /\ o.pos \in Nat /\ o.value \in Value!Values
      /\ ~aliased => o.value = latest
  BY <1>1, Ways DEF Occupied, ValueInv, ValueLatest
<1>3. CASE Value!OccDerefMut(v)
  <2> DEFINE p == [o EXCEPT !.value = v, !.modified = TRUE]
  <2>1. /\ occ' = p /\ latest' = v /\ UNCHANGED <<data, refs, stale, aliased>>
    BY <1>3 DEF Value!OccDerefMut, Value!Assigns
  <2> HIDE DEF o
  <2>2. p \in Occupied /\ p.value = v /\ p.modified
    BY <1>1 DEF Occupied
  <2>3. \E u \in Value!Values : Holds(data', u)
    BY <1>1, <2>1 DEF ValueInv, ValueTyped
  <2>4. stale' \in BOOLEAN /\ (~aliased => ~stale')
    BY <2>1 DEF ValueInv, ValueTyped, ValueLatest
  <2> HIDE DEF p
  <2> QED BY <1>1, <2>1, <2>2, <2>3, <2>4, OccupiedKeeps
<1>4. CASE Value!modify(v)
  <2> DEFINE n == Value!Clamped(o.pos, 0) + Len(Value!serial(v))
             p == [o EXCEPT !.value = v, !.pos = n]
  <2>1. /\ Value!Returns(o.value) /\ data' = Value!Written(<<>>, Value!Clamped(o.pos, 0), v)
        /\ occ' = p /\ latest' = v /\ UNCHANGED <<refs, aliased>>
    BY <1>4 DEF Value!modify, Value!store_value, Value!Assigns
  <2>2. Value!Clamped(o.pos, 0) = 0
    BY <1>2 DEF Value!Clamped
  <2>3. n \in Nat
    <3>1. v \in Nat
      BY ValueFacts
    <3>2. Len(Value!serial(v)) = v + 1
      BY <3>1, Serials
    <3> QED BY <2>2, <3>1, <3>2
  <2> HIDE DEF o, n
  <2>4. p \in Occupied /\ p.value = v
    BY <1>1, <2>3 DEF Occupied
  <2>5. Holds(data', v)
    BY <2>1, <2>2, Rewrites
  <2>6. stale' \in BOOLEAN /\ (~aliased => ~stale')
    BY <1>2, <2>1, ReturnsLatest
  <2> HIDE DEF p
  <2> QED BY <1>1, <2>1, <2>4, <2>5, <2>6, OccupiedKeeps
<1> QED BY <1>3, <1>4

\* Dropping the entry writes the value back.
LEMMA CloseKeeps ==
  ASSUME ValueInv, Value!OccDrop
  PROVE  ValueInv'
<1>1. /\ occ \in Occupied /\ Value!NoRefs /\ data # Value!Absent
      /\ occ' = Value!Closed /\ UNCHANGED <<refs, latest, stale, aliased>>
      /\ IF occ.modified THEN data' = Value!Written(<<>>, Value!Clamped(occ.pos, 0), occ.value)
                         ELSE data' = data
  <2>1. occ.open
    BY DEF Value!OccDrop
  <2>2. occ # Value!Closed /\ occ \in Occupied
    BY <2>1, Ways
  <2> QED BY <2>2 DEF ValueInv, ValueOpen, Value!OccDrop, Value!store_value
<1>2. /\ occ.value \in Value!Values /\ occ.pos \in Nat /\ occ.modified \in BOOLEAN
      /\ Value!Clamped(occ.pos, 0) = 0
  BY <1>1 DEF Occupied, Value!Clamped
<1>3. ~aliased => /\ ~stale /\ occ.value = latest
                  /\ ~occ.modified => Holds(data, latest)
  BY <1>1, Ways DEF ValueInv, ValueLatest, Occupied
<1>4. occ.modified => Holds(data', occ.value)
  BY <1>1, <1>2, Rewrites
<1>5. \E u \in Value!Values : Holds(data', u)
  BY <1>1, <1>2, <1>4 DEF ValueInv, ValueTyped
<1>6. ValueTyped'
  BY <1>1, <1>5 DEF ValueInv, ValueTyped
<1>7. ValueOpen'
  BY <1>1 DEF ValueOpen, Value!NoRefs
<1>8. \A r \in Refs : ~(refs'[r].open)
  BY <1>1, Ways
<1>9. ValueLatest'
  BY <1>1, <1>2, <1>3, <1>4, <1>8 DEF ValueLatest, Value!Closed
<1> QED BY <1>6, <1>7, <1>9 DEF ValueInv

\* What the map does with nothing open.
LEMMA MapKeeps ==
  ASSUME ValueInv, NEW v \in Value!Values,
         Value!insert(v) \/ Value!remove_and_get \/ Value!insert_raw(v)
  PROVE  ValueInv'
<1>1. /\ Value!Exclusive /\ UNCHANGED <<refs, occ, aliased>>
      /\ stale' = stale \/ (Value!Returns(Value!deserial(data)) /\ data # Value!Absent)
  BY DEF Value!insert, Value!remove_and_get, Value!insert_raw
<1>2. CASE Value!insert(v)
  <2>1. data' = Value!serial(v) /\ latest' = v
    BY <1>2 DEF Value!insert, Value!Assigns
  <2> QED BY <1>1, <2>1, ValueFacts, Serials, ClosedKeeps
<1>3. CASE Value!remove_and_get
  BY <1>1, <1>3, ClosedKeeps DEF Value!remove_and_get
<1>4. CASE Value!insert_raw(v)
  <2>1. /\ data' = SubSeq(Value!Written(data, 0, v), 1, Len(Value!serial(v))) /\ latest' = v
    BY <1>4 DEF Value!insert_raw, Value!Assigns
  <2> QED BY <1>1, <2>1, ValueFacts, Writes, ClosedKeeps
<1> QED BY <1>2, <1>3, <1>4

\* A read of the map keeps the invariant.
LEMMA GetKeeps ==
  ASSUME ValueInv, Value!get
  PROVE  ValueInv'
<1>1. /\ data # Value!Absent /\ occ = Value!Closed /\ Value!Returns(Value!deserial(data))
      /\ aliased' = (aliased \/ ~Value!NoRefs) /\ UNCHANGED <<data, refs, occ, latest>>
  BY DEF Value!get
<1>2. stale \in BOOLEAN /\ stale' \in BOOLEAN /\ aliased' \in BOOLEAN
  BY <1>1 DEF ValueInv, ValueTyped, Value!Returns
<1>3. ValueTyped' /\ ValueOpen'
  BY <1>1, <1>2 DEF ValueInv, ValueTyped, ValueOpen, Value!NoRefs
<1>4. ValueLatest'
  <2> SUFFICES ASSUME ~aliased'
               PROVE  ValueLatest'
    BY DEF ValueLatest
  <2>1. ~aliased /\ Value!NoRefs /\ Value!Exclusive
    BY <1>1 DEF Value!Exclusive
  <2>2. ~stale /\ Holds(data, latest) /\ latest \in Value!Values
    BY <1>1, <2>1 DEF ValueInv, ValueLatest
  <2>3. ~stale'
    <3>1. ~(Value!deserial(data) # latest)
      BY <2>2, ValueFacts
    <3> QED BY <1>1, <2>2, <3>1 DEF Value!Returns
  <2> QED BY <1>1, <2>1, <2>2, <2>3 DEF ValueInv, ValueLatest, Value!Exclusive, Value!NoRefs, Knows
<1> QED BY <1>3, <1>4 DEF ValueInv

\* Every step keeps the invariant of the map entry.
LEMMA ValueKeeps ==
  ASSUME ValueInv, [Value!Next]_value
  PROVE  ValueInv'
<1>1. CASE Value!get \/ Value!OccDrop
  BY <1>1, GetKeeps, CloseKeeps
<1>2. CASE Value!remove_and_get
  <2>1. 0 \in Value!Values
    BY Limits DEF Value!MapEntryAssumption, Value!Values
  <2> QED BY <1>2, <2>1, MapKeeps
<1>3. ASSUME NEW v \in Value!Values,
             \/ Value!insert(v) \/ Value!or_insert(v) \/ Value!OccDerefMut(v)
             \/ Value!modify(v) \/ Value!insert_raw(v)
      PROVE  ValueInv'
  BY <1>3, MapKeeps, OpenKeeps, UseKeeps DEF Value!or_insert
<1>4. ASSUME NEW r \in Refs, Value!get_mut(r) \/ Value!RefGet(r) \/ Value!RefDrop(r)
      PROVE  ValueInv'
  <2>1. CASE Value!RefGet(r)
    <3>1. /\ refs[r].open /\ refs' = [refs EXCEPT ![r].lazy_value = Value!load_value(r)]
          /\ Value!Returns(Value!load_value(r)) /\ UNCHANGED <<data, occ, latest, aliased>>
      BY <2>1 DEF Value!RefGet
    <3>2. Value!load_value(r) \in Value!Values /\ (~aliased => latest' = Value!load_value(r))
      BY <3>1, Loads
    <3> QED BY <3>1, <3>2, RefKeeps
  <2> QED BY <1>4, <2>1, TakeKeeps, DropKeeps
<1>5. ASSUME NEW r \in Refs, NEW v \in Value!Values,
             Value!RefGetMut(r, v) \/ Value!set(r, v) \/ Value!update(r, v)
      PROVE  ValueInv'
  <2>1. /\ refs[r].open /\ refs' = [refs EXCEPT ![r].lazy_value = v] /\ latest' = v
        /\ UNCHANGED <<occ, aliased>>
        /\ stale' = stale \/ Value!Returns(Value!load_value(r))
        /\ data' = data \/ data' = Value!Written(data, 0, v)
    BY <1>5 DEF Value!RefGetMut, Value!set, Value!update, Value!Assigns
  <2>2. data' = data \/ Holds(data', v)
    BY <2>1, ValueFacts, Writes
  <2> QED BY <2>1, <2>2, RefKeeps
<1>6. CASE UNCHANGED value
  BY <1>6 DEF value, ValueInv, ValueTyped, ValueOpen, ValueLatest, Knows, Value!NoRefs, Value!Exclusive
<1>7. CASE Value!Next
  BY <1>1, <1>2, <1>3, <1>4, <1>5, <1>7 DEF Value!Next
<1> QED BY <1>6, <1>7

\* The invariant says that the last write wins.
LEMMA ValueWrites == ValueInv => Value!LastWriteWins
BY ValueFacts DEF ValueInv, ValueLatest, Value!LastWriteWins, Value!Stored

-----------------------------------------------------------------------------
(* An iterator over a trie: the subtree below its prefix stays as it is, for *)
(* the prefix is counted as long as the iterator is open.                    *)

\* The byte of a key at a place, so that the end of a key comes before all.
At(k, i) == IF i <= Len(k) THEN k[i] + 1 ELSE 0

\* The walk's order: keys are equal up to where they differ.
Differ(k, n, i) ==
  At(k, i) < At(n, i) /\ \A j \in 1 .. i - 1 : At(k, j) = At(n, j)

\* The place of a key that orders it: 0 beyond its end.
LEMMA AtTyped ==
  ASSUME NEW k \in Seq(Nat), NEW i \in Nat \ {0}
  PROVE  At(k, i) \in Nat /\ (At(k, i) = 0 <=> i > Len(k))
         /\ (i <= Len(k) => At(k, i) = k[i] + 1 /\ k[i] \in Nat)
<1>1. Len(k) \in Nat /\ (i <= Len(k) => i \in 1 .. Len(k))
  OBVIOUS
<1>2. i <= Len(k) => k[i] \in Nat
  BY <1>1
<1> QED BY <1>1, <1>2 DEF At

\* The first elements of a key.
LEMMA StartOfKey ==
  ASSUME NEW s \in Seq(Nat), NEW m \in Nat, m <= Len(s)
  PROVE  /\ SubSeq(s, 1, m) \in Seq(Nat) /\ Len(SubSeq(s, 1, m)) = m
         /\ \A j \in 1 .. m : SubSeq(s, 1, m)[j] = s[j]
<1>1. SubSeq(s, 1, m) \in Seq(Nat) /\ Len(SubSeq(s, 1, m)) = m
  OBVIOUS
<1>2. \A j \in 1 .. m : SubSeq(s, 1, m)[j] = s[j]
  OBVIOUS
<1> QED BY <1>1, <1>2

\* Keys that agree up to a place.
LEMMA SameStart ==
  ASSUME NEW k \in Seq(Nat), NEW n \in Seq(Nat), NEW m \in Nat, m <= Len(k), m <= Len(n)
  PROVE  SubSeq(k, 1, m) = SubSeq(n, 1, m) <=> \A j \in 1 .. m : k[j] = n[j]
<1> DEFINE a == SubSeq(k, 1, m)
           b == SubSeq(n, 1, m)
<1>1. /\ a \in Seq(Nat) /\ Len(a) = m /\ \A j \in 1 .. m : a[j] = k[j]
      /\ b \in Seq(Nat) /\ Len(b) = m /\ \A j \in 1 .. m : b[j] = n[j]
  BY StartOfKey
<1> HIDE DEF a, b
<1>2. ASSUME \A j \in 1 .. m : k[j] = n[j]
      PROVE  a = b
  <2>1. \A j \in 1 .. Len(a) : a[j] = b[j]
    BY <1>1, <1>2
  <2> QED BY <1>1, <2>1, SameNumbers
<1>3. ASSUME a = b
      PROVE  \A j \in 1 .. m : k[j] = n[j]
  BY <1>1, <1>3
<1> QED BY <1>2, <1>3 DEF a, b

\* Prefixes, place by place.
LEMMA PrefixAt ==
  ASSUME NEW k \in Seq(Nat), NEW n \in Seq(Nat)
  PROVE  Tree!IsPrefix(k, n) <=> Len(k) <= Len(n) /\ \A j \in 1 .. Len(k) : k[j] = n[j]
<1> DOMAIN k = 1 .. Len(k)
  OBVIOUS
<1> QED BY DEF Tree!IsPrefix

\* Keys that are equal everywhere are the same.
LEMMA AtDecides ==
  ASSUME NEW k \in Seq(Nat), NEW n \in Seq(Nat), \A i \in Nat \ {0} : At(k, i) = At(n, i)
  PROVE  k = n
<1>1. Len(k) \in Nat /\ Len(n) \in Nat
  OBVIOUS
<1>2. \A i \in Nat \ {0} : i > Len(k) <=> i > Len(n)
  BY AtTyped
<1>3. Len(k) = Len(n)
  <2>1. Len(k) + 1 > Len(n)
    BY <1>1, <1>2
  <2>2. Len(n) + 1 > Len(k)
    BY <1>1, <1>2
  <2> QED BY <1>1, <2>1, <2>2
<1>4. ASSUME NEW i \in 1 .. Len(k)
      PROVE  k[i] = n[i]
  <2>1. i \in Nat \ {0} /\ i <= Len(k) /\ i <= Len(n)
    BY <1>1, <1>3
  <2>2. k[i] + 1 = n[i] + 1 /\ k[i] \in Nat /\ n[i] \in Nat
    BY <2>1, AtTyped
  <2> QED BY <2>2
<1> QED BY <1>3, <1>4, SameNumbers

\* A key comes before another at the first place they differ.
LEMMA BeforeDiffers ==
  ASSUME NEW k \in Seq(Nat), NEW n \in Seq(Nat)
  PROVE  Tree!Before(k, n) <=> \E i \in Nat \ {0} : Differ(k, n, i)
<1>1. Len(k) \in Nat /\ Len(n) \in Nat /\ DOMAIN k = 1 .. Len(k) /\ DOMAIN n = 1 .. Len(n)
  OBVIOUS
<1>2. ASSUME Tree!IsStrictPrefix(k, n)
      PROVE  Differ(k, n, Len(k) + 1)
  <2>1. Len(k) <= Len(n) /\ \A j \in 1 .. Len(k) : k[j] = n[j]
    BY <1>2, PrefixAt DEF Tree!IsStrictPrefix
  <2>2. Len(k) < Len(n)
    <3>1. k # n
      BY <1>2 DEF Tree!IsStrictPrefix
    <3>2. Len(k) # Len(n)
      BY <2>1, <3>1, SameNumbers
    <3>3. \A a, b \in Nat : a <= b /\ a # b => a < b
      OBVIOUS
    <3>4. Len(k) \in Nat /\ Len(n) \in Nat /\ Len(k) <= Len(n)
      BY <2>1
    <3> QED BY <3>2, <3>3, <3>4
  <2>3. At(k, Len(k) + 1) = 0 /\ At(n, Len(k) + 1) \in Nat /\ At(n, Len(k) + 1) # 0
    BY <1>1, <2>2, AtTyped
  <2>4. \A j \in 1 .. Len(k) : At(k, j) = At(n, j)
    BY <1>1, <2>1, AtTyped DEF At
  <2> QED BY <1>1, <2>3, <2>4 DEF Differ
<1>3. ASSUME NEW i \in DOMAIN k \cap DOMAIN n, k[i] < n[i],
             SubSeq(k, 1, i - 1) = SubSeq(n, 1, i - 1)
      PROVE  Differ(k, n, i) /\ i \in Nat \ {0}
  <2>1. /\ i \in Nat \ {0} /\ i <= Len(k) /\ i <= Len(n)
        /\ i - 1 \in Nat /\ i - 1 <= Len(k) /\ i - 1 <= Len(n)
    BY <1>1
  <2>2. \A j \in 1 .. i - 1 : k[j] = n[j]
    BY <1>3, <2>1, SameStart
  <2>3. \A j \in 1 .. i - 1 : At(k, j) = At(n, j)
    BY <1>1, <2>1, <2>2 DEF At
  <2>4. At(k, i) < At(n, i)
    <3>1. k[i] \in Nat /\ n[i] \in Nat /\ At(k, i) = k[i] + 1 /\ At(n, i) = n[i] + 1
      BY <2>1, AtTyped
    <3> QED BY <1>3, <3>1
  <2> QED BY <2>1, <2>3, <2>4 DEF Differ
<1>4. ASSUME NEW i \in Nat \ {0}, Differ(k, n, i)
      PROVE  Tree!Before(k, n)
  <2>1. /\ At(k, i) < At(n, i) /\ At(k, i) \in Nat /\ At(n, i) \in Nat
        /\ i <= Len(n) /\ i - 1 \in Nat
    <3>1. At(k, i) < At(n, i) /\ At(k, i) \in Nat /\ At(n, i) \in Nat
      BY <1>4, AtTyped DEF Differ
    <3>2. At(n, i) # 0
      BY <3>1
    <3> QED BY <1>1, <3>1, <3>2, AtTyped
  <2>2. ASSUME NEW j \in 1 .. i - 1
        PROVE  j <= Len(k) /\ k[j] = n[j]
    <3>1. j \in Nat \ {0} /\ j <= Len(n)
      BY <1>1, <2>1
    <3>2. At(k, j) = At(n, j)
      BY <1>4 DEF Differ
    <3>3. At(n, j) # 0 /\ At(n, j) = n[j] + 1 /\ n[j] \in Nat
      BY <1>1, <3>1, AtTyped
    <3>4. j <= Len(k) /\ At(k, j) = k[j] + 1 /\ k[j] \in Nat
      <4>1. At(k, j) # 0
        BY <3>2, <3>3
      <4>2. ~(j > Len(k))
        BY <3>1, <4>1, AtTyped
      <4>3. j <= Len(k)
        BY <1>1, <3>1, <4>2
      <4> QED BY <3>1, <4>3, AtTyped
    <3> QED BY <3>2, <3>3, <3>4
  <2>3. i - 1 <= Len(k)
    <3>1. CASE i = 1
      BY <1>1, <3>1
    <3>2. CASE i # 1
      <4>1. i - 1 \in 1 .. i - 1
        BY <2>1, <3>2
      <4> QED BY <2>2, <4>1
    <3> QED BY <3>1, <3>2
  <2>4. CASE i <= Len(k)
    <3>1. k[i] < n[i]
      <4>1. At(k, i) = k[i] + 1 /\ At(n, i) = n[i] + 1 /\ k[i] \in Nat /\ n[i] \in Nat
        BY <2>1, <2>4, AtTyped
      <4> QED BY <2>1, <4>1
    <3>2. SubSeq(k, 1, i - 1) = SubSeq(n, 1, i - 1)
      BY <1>1, <2>1, <2>2, <2>3, SameStart
    <3>3. i \in DOMAIN k \cap DOMAIN n
      BY <1>1, <2>1, <2>4
    <3> QED BY <3>1, <3>2, <3>3 DEF Tree!Before
  <2>5. CASE i > Len(k)
    <3> DEFINE a == Len(k)
               b == Len(n)
    <3>0. a \in Nat /\ b \in Nat /\ i - 1 <= a /\ i > a /\ i <= b
      BY <1>1, <2>1, <2>3, <2>5
    <3> HIDE DEF a, b
    <3>1. a = i - 1 /\ a < b /\ a <= b
      BY <3>0
    <3>2. Tree!IsPrefix(k, n)
      <4>1. \A j \in 1 .. a : k[j] = n[j]
        BY <2>2, <3>1
      <4> QED BY <3>1, <4>1, PrefixAt DEF a, b
    <3>3. k # n
      BY <3>0, <3>1 DEF a, b
    <3> QED BY <3>2, <3>3 DEF Tree!Before, Tree!IsStrictPrefix
  <2> QED BY <1>1, <2>4, <2>5
<1>5. Len(k) + 1 \in Nat \ {0}
  BY <1>1
<1> QED BY <1>2, <1>3, <1>4, <1>5 DEF Tree!Before

\* The walk's order is a strict and total one.
LEMMA Ordered ==
  ASSUME NEW k \in Seq(Nat), NEW n \in Seq(Nat)
  PROVE  /\ ~Tree!Before(k, k)
         /\ k # n => Tree!Before(k, n) \/ Tree!Before(n, k)
         /\ \A m \in Seq(Nat) : Tree!Before(k, n) /\ Tree!Before(n, m) => Tree!Before(k, m)
<1>1. ~Tree!Before(k, k)
  <2>1. \A i \in Nat \ {0} : ~Differ(k, k, i)
    BY AtTyped DEF Differ
  <2> QED BY <2>1, BeforeDiffers
<1>2. ASSUME k # n
      PROVE  Tree!Before(k, n) \/ Tree!Before(n, k)
  <2> DEFINE D == {i \in Nat \ {0} : At(k, i) # At(n, i)}
  <2>1. D # {} /\ D \subseteq Nat
    BY <1>2, AtDecides
  <2>2. PICK i \in D : \A j \in D : i <= j
    BY <2>1, SmallestOf
  <2>3. i \in Nat \ {0} /\ At(k, i) # At(n, i) /\ At(k, i) \in Nat /\ At(n, i) \in Nat
    BY AtTyped
  <2>4. ASSUME NEW j \in 1 .. i - 1
        PROVE  At(k, j) = At(n, j)
    <3>1. j \in Nat \ {0} /\ ~(i <= j)
      BY <2>3
    <3>2. j \notin D
      BY <2>2, <3>1
    <3> QED BY <3>1, <3>2
  <2>5. Differ(k, n, i) \/ Differ(n, k, i)
    BY <2>3, <2>4 DEF Differ
  <2> QED BY <2>3, <2>5, BeforeDiffers
<1>3. ASSUME NEW m \in Seq(Nat), Tree!Before(k, n), Tree!Before(n, m)
      PROVE  Tree!Before(k, m)
  <2>1. PICK i \in Nat \ {0} : Differ(k, n, i)
    BY <1>3, BeforeDiffers
  <2>2. PICK j \in Nat \ {0} : Differ(n, m, j)
    BY <1>3, BeforeDiffers
  <2>3. \A l \in Nat \ {0} : At(k, l) \in Nat /\ At(n, l) \in Nat /\ At(m, l) \in Nat
    BY AtTyped
  <2>4. \E l \in Nat \ {0} : Differ(k, m, l)
    <3>1. CASE i <= j
      <4>1. /\ At(k, i) < At(n, i) /\ (At(n, i) < At(m, i) \/ At(n, i) = At(m, i))
            /\ \A l \in 1 .. i - 1 : At(k, l) = At(n, l) /\ At(n, l) = At(m, l)
        <5>1. i \in 1 .. j - 1 \/ i = j
          BY <3>1
        <5>2. 1 .. i - 1 \subseteq 1 .. j - 1
          BY <3>1
        <5> QED BY <2>1, <2>2, <5>1, <5>2 DEF Differ
      <4>2. Differ(k, m, i)
        BY <2>3, <4>1 DEF Differ
      <4> QED BY <4>2
    <3>2. CASE j < i
      <4>1. Differ(k, m, j)
        BY <2>1, <2>2, <2>3, <3>2 DEF Differ
      <4> QED BY <4>1
    <3> QED BY <3>1, <3>2
  <2> QED BY <2>4, BeforeDiffers
<1> QED BY <1>1, <1>2, <1>3

\* The numbers of elements that Trie counts.
LEMMA TreeCounts == \A S : Tree!Cardinality(S) = Cardinality(S)
BY DEF Tree!Cardinality, Cardinality, Tree!IsFiniteSet, IsFiniteSet

\* The entries below a prefix.
Below(prefix) ==
  {Tree!Handle(k) : k \in {n \in DOMAIN nodes : Tree!IsStrictPrefix(prefix, n)}}
Earlier(prefix, e) == {d \in Below(prefix) : Tree!Before(d.key, e.key)}

TrieNodes ==
  /\ IsFiniteSet(DOMAIN nodes) /\ DOMAIN nodes \subseteq Seq(Nat)
  /\ nodes \in [DOMAIN nodes -> Nat]

\* The nodes below a prefix are finitely many, one to a key.
LEMMA BelowTyped ==
  ASSUME TrieNodes, NEW prefix
  PROVE  /\ IsFiniteSet(Below(prefix)) /\ Cardinality(Below(prefix)) \in Nat
         /\ Below(prefix) \subseteq [key : Seq(Nat), cell : Nat]
         /\ \A d, e \in Below(prefix) : d.key = e.key => d = e
<1> DEFINE K == {n \in DOMAIN nodes : Tree!IsStrictPrefix(prefix, n)}
           f == [k \in K |-> Tree!Handle(k)]
<1>1. IsFiniteSet(K)
  BY FS_Subset DEF TrieNodes
<1>2. f \in [K -> Below(prefix)] /\ \A e \in Below(prefix) : \E k \in K : f[k] = e
  BY DEF Below
<1>3. f \in Surjection(K, Below(prefix))
  BY <1>2, Fun_IsSurj
<1>4. IsFiniteSet(Below(prefix))
  BY <1>1, <1>3, FS_Surjection
<1>5. \A e \in Below(prefix) : /\ e \in [key : Seq(Nat), cell : Nat] /\ e.key \in K
                               /\ e = Tree!Handle(e.key)
  BY DEF Below, Tree!Handle, TrieNodes
<1> QED BY <1>4, <1>5, FS_CardinalityType

\* An earlier node has fewer nodes before it.
LEMMA EarlierFewer ==
  ASSUME TrieNodes, NEW prefix, NEW d \in Below(prefix), NEW e \in Below(prefix),
         Tree!Before(d.key, e.key)
  PROVE  Cardinality(Earlier(prefix, d)) < Cardinality(Earlier(prefix, e))
<1> DEFINE D == Earlier(prefix, d)
           E == Earlier(prefix, e)
<1>1. IsFiniteSet(Below(prefix)) /\ \A f \in Below(prefix) : f.key \in Seq(Nat)
  BY BelowTyped
<1>2. IsFiniteSet(D) /\ IsFiniteSet(E)
  <2>1. D \subseteq Below(prefix) /\ E \subseteq Below(prefix)
    BY DEF Earlier
  <2> QED BY <1>1, <2>1, FS_Subset
<1>3. d \notin D
  BY <1>1, Ordered DEF Earlier
<1>4. D \cup {d} \subseteq E
  BY <1>1, Ordered DEF Earlier
<1> HIDE DEF D, E
<1>5. Cardinality(D) \in Nat /\ Cardinality(E) \in Nat
  BY <1>2, FS_CardinalityType
<1>6. Cardinality(D \cup {d}) = Cardinality(D) + 1
  BY <1>2, <1>3, FS_AddElement
<1>7. Cardinality(D \cup {d}) <= Cardinality(E)
  BY <1>2, <1>4, FS_Subset
<1> QED BY <1>5, <1>6, <1>7 DEF D, E

\* Every place is taken.
LEMMA Places ==
  ASSUME TrieNodes, NEW prefix
  PROVE  \A i \in 1 .. Cardinality(Below(prefix)) :
           \E e \in Below(prefix) : 1 + Cardinality(Earlier(prefix, e)) = i
<1> DEFINE S == Below(prefix)
           c(e) == Cardinality(Earlier(prefix, e))
           r == [e \in S |-> 1 + c(e)]
<1>1. IsFiniteSet(S) /\ \A e \in S : e.key \in Seq(Nat)
  BY BelowTyped
<1>2. ASSUME NEW e \in S
      PROVE  IsFiniteSet(Earlier(prefix, e)) /\ c(e) \in Nat
  <2>1. Earlier(prefix, e) \subseteq S
    BY DEF Earlier
  <2>2. IsFiniteSet(Earlier(prefix, e))
    BY <1>1, <2>1, FS_Subset
  <2> QED BY <2>2, FS_CardinalityType
<1>3. ASSUME NEW e \in S
      PROVE  1 + c(e) \in 1 .. Cardinality(S)
  <2>1. e \notin Earlier(prefix, e)
    BY <1>1, Ordered DEF Earlier
  <2>2. Earlier(prefix, e) \subseteq S \ {e}
    BY <2>1 DEF Earlier
  <2>3. IsFiniteSet(S \ {e}) /\ Cardinality(S \ {e}) = Cardinality(S) - 1
    BY <1>1, FS_RemoveElement
  <2>4. c(e) <= Cardinality(S) - 1 /\ c(e) \in Nat /\ Cardinality(S) \in Nat
    BY <1>1, <1>2, <2>2, <2>3, FS_Subset, FS_CardinalityType
  <2> QED BY <2>4
<1>4. \A d, e \in S : Tree!Before(d.key, e.key) => c(d) < c(e)
  BY EarlierFewer
<1>5. ASSUME NEW d \in S, NEW e \in S, d # e
      PROVE  c(d) # c(e)
  <2>1. d.key # e.key
    BY <1>5, BelowTyped
  <2>2. Tree!Before(d.key, e.key) \/ Tree!Before(e.key, d.key)
    BY <1>1, <2>1, Ordered
  <2>3. c(d) \in Nat /\ c(e) \in Nat
    BY <1>2
  <2> QED BY <1>4, <2>2, <2>3
<1>6. r \in [S -> 1 .. Cardinality(S)] /\ \A d, e \in S : r[d] = r[e] => d = e
  <2>1. \A d, e \in S : 1 + c(d) = 1 + c(e) => d = e
    BY <1>2, <1>5
  <2> HIDE DEF c
  <2> QED BY <1>3, <2>1
<1> HIDE DEF S, r
<1>7. \A i \in 1 .. Cardinality(S) : \E e \in S : r[e] = i
  BY <1>1, <1>6, Ranking
<1> QED BY <1>7 DEF S, r

\* The walk, with the entries at their places.
LEMMA Walk ==
  ASSUME TrieNodes, NEW prefix
  PROVE  /\ Tree!build_queue(prefix) \in Seq(Below(prefix))
         /\ Len(Tree!build_queue(prefix)) = Cardinality(Below(prefix))
         /\ \A i \in 1 .. Cardinality(Below(prefix)) :
              1 + Cardinality(Earlier(prefix, Tree!build_queue(prefix)[i])) = i
<1> DEFINE S == Below(prefix)
           n == Cardinality(S)
           q == [i \in 1 .. n |-> CHOOSE e \in S : 1 + Cardinality(Earlier(prefix, e)) = i]
<1>1. n \in Nat
  BY BelowTyped
<1>2. Tree!build_queue(prefix) = q
  <2> DEFINE t == [i \in 1 .. n |->
                     CHOOSE e \in S : 1 + Tree!Cardinality(Earlier(prefix, e)) = i]
  <2>1. Tree!build_queue(prefix) = t
    <3>1. Tree!Cardinality(S) = n
      BY TreeCounts
    <3> QED BY <3>1 DEF Tree!build_queue, Below, Earlier
  <2>2. t = q
    BY TreeCounts
  <2> QED BY <2>1, <2>2
<1>3. \A i \in 1 .. n : q[i] \in S /\ 1 + Cardinality(Earlier(prefix, q[i])) = i
  <2> SUFFICES ASSUME NEW i \in 1 .. n
               PROVE  q[i] \in S /\ 1 + Cardinality(Earlier(prefix, q[i])) = i
    OBVIOUS
  <2>1. \E e \in S : 1 + Cardinality(Earlier(prefix, e)) = i
    BY Places
  <2>2. q[i] = CHOOSE e \in S : 1 + Cardinality(Earlier(prefix, e)) = i
    OBVIOUS
  <2> HIDE DEF q, S
  <2> QED BY <2>1, <2>2
<1>4. q \in [1 .. n -> S]
  BY <1>3
<1> HIDE DEF q, n, S
<1>5. q \in Seq(S) /\ Len(q) = n
  BY <1>1, <1>4
<1> QED BY <1>2, <1>3, <1>5 DEF n, S

\* The walk of a subtree: all its entries, each once, in the order of keys.
InOrder(queue, S) ==
  /\ queue \in Seq(S) /\ {queue[i] : i \in 1 .. Len(queue)} = S
  /\ \A i, j \in 1 .. Len(queue) : i < j => Tree!Before(queue[i].key, queue[j].key)

\* build_queue lists the nodes below a prefix in order.
LEMMA WalkInOrder ==
  ASSUME TrieNodes, NEW prefix
  PROVE  InOrder(Tree!build_queue(prefix), Below(prefix))
<1> DEFINE S == Below(prefix)
           n == Cardinality(S)
           q == Tree!build_queue(prefix)
           c(e) == Cardinality(Earlier(prefix, e))
<1>1. n \in Nat /\ IsFiniteSet(S) /\ \A e \in S : e.key \in Seq(Nat)
  BY BelowTyped
<1>2. q \in Seq(S) /\ Len(q) = n /\ \A i \in 1 .. n : 1 + c(q[i]) = i
  BY Walk
<1>3. \A d, e \in S : Tree!Before(d.key, e.key) => c(d) < c(e)
  BY EarlierFewer
<1>4. \A d, e \in S : d # e => d.key # e.key
  BY BelowTyped
<1> HIDE DEF q, n, S, c
<1>5. q \in [1 .. n -> S] /\ \A i, j \in 1 .. n : q[i] = q[j] => i = j
  BY <1>2
<1>6. \A e \in S : \E i \in 1 .. n : q[i] = e
  <2>1. q \in Injection(1 .. n, S)
    BY <1>5, Fun_IsInj
  <2>2. Cardinality(1 .. n) = Cardinality(S)
    BY <1>1, FS_Interval DEF n
  <2>3. q \in Surjection(1 .. n, S)
    BY <1>1, <2>1, <2>2, FS_Injection
  <2> QED BY <2>3 DEF Surjection
<1>7. ASSUME NEW i \in 1 .. n, NEW j \in 1 .. n, i < j
      PROVE  Tree!Before(q[i].key, q[j].key)
  <2>1. q[i] \in S /\ q[j] \in S /\ q[i] # q[j] /\ c(q[i]) = i - 1 /\ c(q[j]) = j - 1
    <3>1. q[i] \in S /\ q[j] \in S /\ q[i] # q[j]
      BY <1>5, <1>7
    <3>2. c(q[i]) \in Nat /\ c(q[j]) \in Nat
      <4>1. \A e \in S : IsFiniteSet(Earlier(prefix, e))
        BY <1>1, FS_Subset DEF Earlier, S
      <4> QED BY <3>1, <4>1, FS_CardinalityType DEF c
    <3> QED BY <1>2, <3>1, <3>2
  <2>2. Tree!Before(q[i].key, q[j].key) \/ Tree!Before(q[j].key, q[i].key)
    BY <1>1, <1>4, <2>1, Ordered
  <2> QED BY <1>3, <1>7, <2>1, <2>2
<1>8. {q[i] : i \in 1 .. n} = S
  BY <1>5, <1>6
<1> QED BY <1>2, <1>7, <1>8 DEF InOrder, q, S

Iterators == [prefix : Seq(Nat), queue : Seq([key : Seq(Nat), cell : Nat])]

\* What is left of a walk.
Rest(queue, now) ==
  Len(queue) <= Len(now) /\ queue = SubSeq(now, Len(now) - Len(queue) + 1, Len(now))

Walks == [p \in Seq(Nat) |-> Tree!build_queue(p)]

\* The open iterators of a prefix are as many as it counts.
Of(prefix) == {i \in DOMAIN iters : iters[i].prefix = prefix}
Counted ==
  /\ DOMAIN iterator_counts = {iters[i].prefix : i \in DOMAIN iters}
  /\ \A p \in DOMAIN iterator_counts : iterator_counts[p] = Cardinality(Of(p))

TrieInv ==
  /\ TrieNodes /\ cells \in Seq({Tree!EntryExists, Tree!EntryDeleted})
  /\ iters \in Seq(Iterators)
  /\ Counted
  /\ \A i \in DOMAIN iters : Rest(iters[i].queue, Walks[iters[i].prefix])

\* The invariant of the trie holds at the start.
LEMMA TrieStarts ==
  ASSUME Tree!Init
  PROVE  TrieInv
<1>1. DOMAIN nodes = {} /\ DOMAIN iters = {} /\ DOMAIN iterator_counts = {}
  BY DEF Tree!Init
<1>2. TrieNodes
  BY <1>1, FS_EmptySet DEF TrieNodes, Tree!Init
<1>3. cells \in Seq({Tree!EntryExists, Tree!EntryDeleted}) /\ iters \in Seq(Iterators)
  BY DEF Tree!Init
<1> QED BY <1>1, <1>2, <1>3 DEF TrieInv, Counted

\* A walk whose subtree is not touched is the same.
LEMMA SameWalk ==
  ASSUME NEW p,
         \A k : Tree!IsStrictPrefix(p, k) =>
                  /\ k \in DOMAIN nodes' <=> k \in DOMAIN nodes
                  /\ k \in DOMAIN nodes => nodes'[k] = nodes[k]
  PROVE  Tree!build_queue(p)' = Tree!build_queue(p)
<1>1. Below(p)' = Below(p)
  BY DEF Below, Tree!Handle
<1> DEFINE q(S) == [i \in 1 .. Tree!Cardinality(S) |->
                      CHOOSE e \in S :
                        1 + Tree!Cardinality({d \in S : Tree!Before(d.key, e.key)}) = i]
<1>2. Tree!build_queue(p) = q(Below(p))
  BY DEF Tree!build_queue, Below
<1>3. Tree!build_queue(p)' = q(Below(p)')
  BY DEF Tree!build_queue, Below
<1> QED BY <1>1, <1>2, <1>3

\* A step that leaves what is below the counted prefixes alone.
LEMMA Undisturbed ==
  ASSUME TrieInv, TrieNodes', cells' \in Seq({Tree!EntryExists, Tree!EntryDeleted}),
         UNCHANGED <<iterator_counts, iters>>,
         \A p \in DOMAIN iterator_counts : \A k : Tree!IsStrictPrefix(p, k) =>
           /\ k \in DOMAIN nodes' <=> k \in DOMAIN nodes
           /\ k \in DOMAIN nodes => nodes'[k] = nodes[k]
  PROVE  TrieInv'
<1>1. ASSUME NEW i \in DOMAIN iters
      PROVE  Walks'[iters[i].prefix] = Walks[iters[i].prefix]
  <2> DEFINE p == iters[i].prefix
  <2>1. p \in DOMAIN iterator_counts
    BY DEF TrieInv, Counted
  <2>2. p \in Seq(Nat)
    <3>1. iters[i] \in Iterators
      BY DEF TrieInv
    <3> QED BY <3>1 DEF Iterators
  <2> HIDE DEF p
  <2>3. PICK r \in Seq(Nat) : r = p
    BY <2>2
  <2>4. Tree!build_queue(r)' = Tree!build_queue(r)
    BY <2>1, <2>3, SameWalk
  <2>5. Walks'[r] = Walks[r]
    BY <2>4 DEF Walks
  <2> QED BY <2>3, <2>5 DEF p
<1>2. Counted'
  BY DEF TrieInv, Counted, Of
<1>3. \A i \in DOMAIN iters' : Rest(iters'[i].queue, Walks'[iters'[i].prefix])
  BY <1>1 DEF TrieInv
<1> QED BY <1>2, <1>3 DEF TrieInv

\* A step that leaves the nodes alone.
LEMMA SameWalks ==
  ASSUME UNCHANGED nodes
  PROVE  Walks' = Walks
<1>1. \A p \in Seq(Nat) : Tree!build_queue(p)' = Tree!build_queue(p)
  BY SameWalk
<1> QED BY <1>1 DEF Walks

\* Of two prefixes of a key, one continues the other.
LEMMA PrefixesMeet ==
  ASSUME NEW a \in Seq(Nat), NEW b \in Seq(Nat), NEW k \in Seq(Nat),
         Tree!IsPrefix(a, k), Tree!IsPrefix(b, k)
  PROVE  Tree!Comparable(a, b)
<1>1. Len(a) \in Nat /\ Len(b) \in Nat
  OBVIOUS
<1>2. /\ \A j \in 1 .. Len(a) : a[j] = k[j]
      /\ \A j \in 1 .. Len(b) : b[j] = k[j]
  BY PrefixAt
<1>3. CASE Len(a) <= Len(b)
  <2>1. \A j \in 1 .. Len(a) : a[j] = b[j]
    BY <1>1, <1>2, <1>3
  <2> QED BY <1>3, <2>1, PrefixAt DEF Tree!Comparable
<1>4. CASE Len(b) <= Len(a)
  <2>1. \A j \in 1 .. Len(b) : b[j] = a[j]
    BY <1>1, <1>2, <1>4
  <2> QED BY <1>4, <2>1, PrefixAt DEF Tree!Comparable
<1> QED BY <1>1, <1>3, <1>4

\* Keys are sequences of numbers.
LEMMA KeysTyped == Tree!Keys \subseteq Seq(Nat)
<1>1. Bytes \subseteq Nat /\ MaxKey \in Nat
  BY Limits DEF Tree!TrieAssumption
<1>2. ASSUME NEW m \in Nat, NEW f \in [1 .. m -> Bytes]
      PROVE  f \in Seq(Nat)
  <2>1. f \in [1 .. m -> Nat]
    BY <1>1
  <2> QED BY <2>1
<1> QED BY <1>1, <1>2 DEF Tree!Keys, Tree!SeqOf

\* create_entry keeps the invariant.
LEMMA CreateKeeps ==
  ASSUME TrieInv, NEW k \in Tree!Keys, Tree!create_entry(k)
  PROVE  TrieInv'
<1> DEFINE y == Len(cells')
<1>1. /\ ~Tree!is_locked(k) /\ cells' = Append(cells, Tree!EntryExists)
      /\ nodes' = Tree!With(nodes, k, y) /\ UNCHANGED <<iterator_counts, iters>>
  BY DEF Tree!create_entry
<1>2. cells' \in Seq({Tree!EntryExists, Tree!EntryDeleted}) /\ y \in Nat
  BY <1>1 DEF TrieInv
<1> HIDE DEF y
<1>3. /\ DOMAIN nodes' = DOMAIN nodes \cup {k} /\ nodes'[k] = y
      /\ \A n \in DOMAIN nodes : n # k => nodes'[n] = nodes[n]
      /\ nodes' = [n \in DOMAIN nodes' |-> nodes'[n]]
  BY <1>1 DEF Tree!With
<1>4. TrieNodes'
  <2>1. IsFiniteSet(DOMAIN nodes')
    <3>1. IsFiniteSet(DOMAIN nodes)
      BY DEF TrieInv, TrieNodes
    <3>2. IsFiniteSet(DOMAIN nodes \cup {k})
      BY <3>1, FS_AddElement
    <3> QED BY <1>3, <3>2
  <2>2. \A n \in DOMAIN nodes' : nodes'[n] \in Nat
    BY <1>2, <1>3 DEF TrieInv, TrieNodes
  <2>3. DOMAIN nodes' \subseteq Seq(Nat)
    BY <1>3, KeysTyped DEF TrieInv, TrieNodes
  <2>4. nodes' \in [DOMAIN nodes' -> Nat]
    BY <1>3, <2>2
  <2> QED BY <2>1, <2>3, <2>4 DEF TrieNodes
<1>5. ASSUME NEW p \in DOMAIN iterator_counts, NEW n, Tree!IsStrictPrefix(p, n)
      PROVE  n # k
  BY <1>1, <1>5 DEF Tree!is_locked, Tree!Comparable, Tree!IsStrictPrefix
<1> QED BY <1>1, <1>2, <1>3, <1>4, <1>5, Undisturbed

\* Some keys lose their data.
LEMMA WithoutKeeps ==
  ASSUME TrieInv, NEW S, nodes' = Tree!Without(nodes, S),
         cells' \in Seq({Tree!EntryExists, Tree!EntryDeleted}),
         UNCHANGED <<iterator_counts, iters>>,
         \A p \in DOMAIN iterator_counts : \A k \in S \cap DOMAIN nodes : ~Tree!IsStrictPrefix(p, k)
  PROVE  TrieInv'
<1>1. /\ DOMAIN nodes' = DOMAIN nodes \ S /\ \A n \in DOMAIN nodes \ S : nodes'[n] = nodes[n]
      /\ nodes' = [n \in DOMAIN nodes' |-> nodes'[n]]
  BY DEF Tree!Without
<1>2. IsFiniteSet(DOMAIN nodes')
  BY <1>1, FS_Subset DEF TrieInv, TrieNodes
<1>3. \A n \in DOMAIN nodes' : nodes'[n] \in Nat
  BY <1>1 DEF TrieInv, TrieNodes
<1>4. nodes' \in [DOMAIN nodes' -> Nat] /\ DOMAIN nodes' \subseteq Seq(Nat)
  BY <1>1, <1>3 DEF TrieInv, TrieNodes
<1> QED BY <1>1, <1>2, <1>4, Undisturbed DEF TrieNodes

\* delete_entry keeps the invariant.
LEMMA DeleteKeeps ==
  ASSUME TrieInv, NEW e, Tree!delete_entry(e)
  PROVE  TrieInv'
<1>1. /\ ~Tree!is_locked(e.key) /\ nodes' = Tree!Without(nodes, {e.key})
      /\ UNCHANGED <<cells, iterator_counts, iters>>
  BY DEF Tree!delete_entry
<1>2. \A p \in DOMAIN iterator_counts : ~Tree!IsStrictPrefix(p, e.key)
  BY <1>1 DEF Tree!is_locked, Tree!Comparable, Tree!IsStrictPrefix
<1> QED BY <1>1, <1>2, WithoutKeeps DEF TrieInv

\* delete_prefix keeps the invariant.
LEMMA DeletePrefixKeeps ==
  ASSUME TrieInv, NEW prefix \in Tree!Keys, Tree!delete_prefix(prefix)
  PROVE  TrieInv'
<1> DEFINE S == {k \in DOMAIN nodes : Tree!IsPrefix(prefix, k)}
<1>1. PICK W0 : cells' = [c \in DOMAIN cells |-> IF c \in W0 THEN Tree!EntryDeleted ELSE cells[c]]
  BY DEF Tree!delete_prefix
<1>2. /\ ~Tree!is_locked(prefix) /\ nodes' = Tree!Without(nodes, S)
      /\ UNCHANGED <<iterator_counts, iters>>
  BY DEF Tree!delete_prefix
<1>3. cells' \in Seq({Tree!EntryExists, Tree!EntryDeleted})
  BY <1>1 DEF TrieInv
<1>4. ASSUME NEW p \in DOMAIN iterator_counts, NEW k \in S, Tree!IsStrictPrefix(p, k)
      PROVE  FALSE
  <2>1. p \in Seq(Nat)
    <3>1. PICK i \in DOMAIN iters : p = iters[i].prefix
      BY DEF TrieInv, Counted
    <3>2. iters[i] \in Iterators
      BY DEF TrieInv
    <3> QED BY <3>1, <3>2 DEF Iterators
  <2>2. k \in Seq(Nat) /\ Tree!IsPrefix(prefix, k) /\ Tree!IsPrefix(p, k) /\ prefix \in Seq(Nat)
    BY <1>4, KeysTyped DEF TrieInv, TrieNodes, Tree!IsStrictPrefix
  <2>3. Tree!Comparable(prefix, p)
    BY <2>1, <2>2, PrefixesMeet
  <2> QED BY <1>2, <2>3 DEF Tree!is_locked
<1> HIDE DEF S
<1> QED BY <1>2, <1>3, <1>4, WithoutKeeps

\* What is left of a walk when it begins, and after a step of it.
LEMMA Rests ==
  ASSUME NEW T, NEW now \in Seq(T)
  PROVE  /\ Rest(now, now)
         /\ \A queue \in Seq(T) : queue # <<>> /\ Rest(queue, now) =>
              Tail(queue) \in Seq(T) /\ Rest(Tail(queue), now)
<1> DEFINE n == Len(now)
<1>1. n \in Nat
  OBVIOUS
<1>2. Rest(now, now)
  <2>1. SubSeq(now, n - n + 1, n) = now
    <3>1. n - n + 1 = 1 /\ SubSeq(now, 1, n) = now
      BY <1>1
    <3> QED BY <3>1
  <2> QED BY <1>1, <2>1 DEF Rest
<1>3. ASSUME NEW queue \in Seq(T), queue # <<>>, Rest(queue, now)
      PROVE  Tail(queue) \in Seq(T) /\ Rest(Tail(queue), now)
  <2> DEFINE m == Len(queue)
             t == Tail(queue)
             a == n - m + 1
             s == SubSeq(now, a + 1, n)
  <2>1. /\ m \in Nat /\ m > 0 /\ t \in Seq(T) /\ Len(t) = m - 1
        /\ \A j \in 1 .. m - 1 : t[j] = queue[j + 1]
    <3>1. m \in Nat /\ m > 0
      BY <1>3
    <3>2. t \in Seq(T) /\ Len(t) = m - 1
      BY <1>3, <3>1
    <3>3. \A j \in 1 .. m - 1 : t[j] = queue[j + 1]
      BY <1>3, <3>1
    <3> QED BY <3>1, <3>2, <3>3
  <2>2. m <= n /\ queue = SubSeq(now, a, n)
    BY <1>3 DEF Rest
  <2>3. a \in 1 .. n /\ n - (m - 1) + 1 = a + 1
    BY <1>1, <2>1, <2>2
  <2> HIDE DEF a, m, n, t
  <2>4. \A j \in 1 .. m : queue[j] = now[a + j - 1]
    <3>1. Len(SubSeq(now, a, n)) = n - a + 1 /\ n - a + 1 = m
      BY <1>1, <2>1, <2>2, <2>3 DEF a, n
    <3>2. \A j \in 1 .. m : SubSeq(now, a, n)[j] = now[a + j - 1]
      BY <1>1, <2>1, <2>3, <3>1 DEF n
    <3> QED BY <2>2, <3>2
  <2>5. s \in Seq(T) /\ Len(s) = m - 1 /\ \A j \in 1 .. m - 1 : s[j] = now[a + j]
    <3>1. n - (a + 1) + 1 = m - 1 /\ a + 1 \in 1 .. n + 1
      BY <1>1, <2>1, <2>3 DEF a
    <3>2. s \in Seq(T)
      BY <1>1, <2>3, <3>1 DEF n
    <3>3. Len(s) = m - 1
      BY <1>1, <2>1, <2>3, <3>1 DEF n
    <3>4. \A j \in 1 .. m - 1 : s[j] = now[a + 1 + j - 1]
      BY <1>1, <2>1, <2>3, <3>1 DEF n
    <3>5. \A j \in 1 .. m - 1 : a + 1 + j - 1 = a + j
      BY <2>3
    <3> HIDE DEF s
    <3> QED BY <3>2, <3>3, <3>4, <3>5
  <2> HIDE DEF s
  <2>6. t = s
    <3>1. ASSUME NEW j \in 1 .. m - 1
          PROVE  t[j] = s[j]
      <4>1. j + 1 \in 1 .. m /\ a + (j + 1) - 1 = a + j
        BY <2>1, <2>3
      <4> QED BY <2>1, <2>4, <2>5, <4>1
    <3> QED BY <2>1, <2>5, <3>1
  <2> QED BY <1>1, <2>1, <2>2, <2>3, <2>6 DEF Rest, t, s, n, m
<1> QED BY <1>2, <1>3

\* Sequences over a set are sequences over a larger one.
LEMMA SeqSubset ==
  ASSUME NEW S, NEW T, S \subseteq T, NEW s \in Seq(S)
  PROVE  s \in Seq(T)
OBVIOUS

\* The iterators of a prefix are finitely many.
LEMMA OfFinite ==
  ASSUME TrieInv, NEW p
  PROVE  Of(p) \subseteq 1 .. Len(iters) /\ IsFiniteSet(Of(p)) /\ Cardinality(Of(p)) \in Nat
<1>1. Len(iters) \in Nat /\ DOMAIN iters = 1 .. Len(iters)
  BY DEF TrieInv
<1>2. Of(p) \subseteq 1 .. Len(iters) /\ IsFiniteSet(1 .. Len(iters))
  BY <1>1, FS_Interval DEF Of
<1> QED BY <1>2, FS_Subset, FS_CardinalityType

\* iterator keeps the invariant.
LEMMA IteratorKeeps ==
  ASSUME TrieInv, NEW prefix \in Tree!Keys, Tree!iterator(prefix)
  PROVE  TrieInv'
<1> DEFINE n == Len(iters)
           now == Tree!build_queue(prefix)
           x == [prefix |-> prefix, queue |-> now]
           count == IF prefix \in DOMAIN iterator_counts THEN iterator_counts[prefix] + 1 ELSE 1
<1>1. /\ iterator_counts' = Tree!With(iterator_counts, prefix, count)
      /\ iters' = Append(iters, x) /\ UNCHANGED <<nodes, cells>>
  BY DEF Tree!iterator
<1>2. n \in Nat /\ iters \in Seq(Iterators) /\ prefix \in Seq(Nat) /\ DOMAIN iters = 1 .. n
  BY KeysTyped DEF TrieInv
<1>3. x \in Iterators /\ now \in Seq([key : Seq(Nat), cell : Nat]) /\ x.prefix = prefix
  <2>1. now \in Seq(Below(prefix)) /\ Below(prefix) \subseteq [key : Seq(Nat), cell : Nat]
    BY Walk, BelowTyped DEF TrieInv
  <2> HIDE DEF now
  <2>2. now \in Seq([key : Seq(Nat), cell : Nat])
    BY <2>1, SeqSubset
  <2> QED BY <1>2, <2>2 DEF Iterators
<1> HIDE DEF x, now, count
<1>4. /\ iters' \in Seq(Iterators) /\ Len(iters') = n + 1 /\ DOMAIN iters' = 1 .. n + 1
      /\ iters'[n + 1] = x /\ \A i \in 1 .. n : iters'[i] = iters[i]
  BY <1>1, <1>2, <1>3
<1> HIDE DEF n
<1>5. \A p : Of(p)' = IF p = prefix THEN Of(p) \cup {n + 1} ELSE Of(p)
  BY <1>2, <1>3, <1>4 DEF Of
<1>6. /\ DOMAIN iterator_counts' = DOMAIN iterator_counts \cup {prefix}
      /\ iterator_counts'[prefix] = count
      /\ \A p \in DOMAIN iterator_counts : p # prefix => iterator_counts'[p] = iterator_counts[p]
  BY <1>1 DEF Tree!With
<1>7. count = Cardinality(Of(prefix)')
  <2>1. IsFiniteSet(Of(prefix)) /\ n + 1 \notin Of(prefix)
    <3>1. Of(prefix) \subseteq 1 .. n /\ IsFiniteSet(Of(prefix))
      BY OfFinite DEF n
    <3> QED BY <1>2, <3>1
  <2>2. Cardinality(Of(prefix)') = Cardinality(Of(prefix)) + 1
    BY <1>5, <2>1, FS_AddElement
  <2>3. CASE prefix \in DOMAIN iterator_counts
    BY <2>2, <2>3 DEF count, TrieInv, Counted
  <2>4. CASE prefix \notin DOMAIN iterator_counts
    <3>1. Of(prefix) = {}
      BY <2>4 DEF TrieInv, Counted, Of
    <3> QED BY <2>2, <2>4, <3>1, FS_EmptySet DEF count
  <2> QED BY <2>3, <2>4
<1>8. Counted'
  <2>1. DOMAIN iterator_counts' = {iters'[i].prefix : i \in DOMAIN iters'}
    <3>1. DOMAIN iterator_counts = {iters[i].prefix : i \in 1 .. n}
      BY <1>2 DEF TrieInv, Counted
    <3>2. \A i \in 1 .. n : iters'[i].prefix = iters[i].prefix
      BY <1>4
    <3>3. 1 .. n + 1 = 1 .. n \cup {n + 1} /\ iters'[n + 1].prefix = prefix
      BY <1>2, <1>3, <1>4
    <3> QED BY <1>4, <1>6, <3>1, <3>2, <3>3
  <2>2. \A p \in DOMAIN iterator_counts' : iterator_counts'[p] = Cardinality(Of(p)')
    BY <1>5, <1>6, <1>7 DEF TrieInv, Counted
  <2> QED BY <2>1, <2>2 DEF Counted
<1>9. ASSUME NEW i \in 1 .. n + 1
      PROVE  Rest(iters'[i].queue, Walks'[iters'[i].prefix])
  <2>1. CASE i \in 1 .. n
    BY <1>1, <1>2, <1>4, <2>1, SameWalks DEF TrieInv
  <2>2. CASE i = n + 1
    <3>1. iters'[i].queue = now /\ iters'[i].prefix = prefix
      BY <1>4, <2>2 DEF x
    <3>2. Rest(now, now)
      BY <1>3, Rests
    <3>3. Walks'[prefix] = now
      BY <1>1, <1>2, SameWalks DEF Walks, now
    <3> QED BY <3>1, <3>2, <3>3
  <2> QED BY <1>2, <2>1, <2>2
<1>10. TrieNodes'
  BY <1>1 DEF TrieInv, TrieNodes
<1> QED BY <1>1, <1>4, <1>8, <1>9, <1>10 DEF TrieInv

\* next keeps the invariant.
LEMMA NextKeeps ==
  ASSUME TrieInv, NEW i \in DOMAIN iters, Tree!next(i)
  PROVE  TrieInv'
<1> DEFINE it == iters[i]
           x == [it EXCEPT !.queue = Tail(@)]
           H == [key : Seq(Nat), cell : Nat]
<1>1. /\ it.queue # <<>> /\ iters' = [iters EXCEPT ![i] = x]
      /\ UNCHANGED <<nodes, cells, iterator_counts>>
  BY DEF Tree!next
<1>2. it \in Iterators /\ iters \in Seq(Iterators) /\ Rest(it.queue, Walks[it.prefix])
  BY DEF TrieInv
<1> HIDE DEF it
<1>3. it.prefix \in Seq(Nat) /\ it.queue \in Seq(H)
  BY <1>2 DEF Iterators
<1>4. x.prefix = it.prefix /\ x.queue = Tail(it.queue)
  BY <1>2 DEF Iterators
<1>5. Tail(it.queue) \in Seq(H) /\ Rest(Tail(it.queue), Walks[it.prefix])
  <2> DEFINE now == Tree!build_queue(it.prefix)
  <2>1. now \in Seq(Below(it.prefix)) /\ Below(it.prefix) \subseteq H
    BY <1>3, Walk, BelowTyped DEF TrieInv
  <2>2. Walks[it.prefix] = now
    BY <1>3 DEF Walks
  <2> HIDE DEF now, H
  <2>3. now \in Seq(H)
    BY <2>1, SeqSubset
  <2> QED BY <1>1, <1>2, <1>3, <2>2, <2>3, Rests
<1>6. x \in Iterators
  BY <1>2, <1>5 DEF Iterators
<1> HIDE DEF x
<1>7. /\ iters' \in Seq(Iterators) /\ DOMAIN iters' = DOMAIN iters /\ iters'[i] = x
      /\ \A j \in DOMAIN iters : j # i => iters'[j] = iters[j]
  BY <1>1, <1>2, <1>6
<1>8. \A j \in DOMAIN iters : iters'[j].prefix = iters[j].prefix
  BY <1>4, <1>7 DEF it
<1>9. Counted'
  <2>1. \A p : Of(p)' = Of(p)
    BY <1>7, <1>8 DEF Of
  <2>2. {iters'[j].prefix : j \in DOMAIN iters'} = {iters[j].prefix : j \in DOMAIN iters}
    BY <1>7, <1>8
  <2> QED BY <1>1, <2>1, <2>2 DEF TrieInv, Counted
<1>10. ASSUME NEW j \in DOMAIN iters
       PROVE  Rest(iters'[j].queue, Walks'[iters'[j].prefix])
  <2>1. Walks' = Walks
    BY <1>1, SameWalks
  <2>2. CASE j = i
    BY <1>4, <1>5, <1>7, <2>1, <2>2
  <2>3. CASE j # i
    BY <1>7, <2>1, <2>3 DEF TrieInv
  <2> QED BY <2>2, <2>3
<1>11. TrieNodes'
  BY <1>1 DEF TrieInv, TrieNodes
<1> QED BY <1>1, <1>7, <1>9, <1>10, <1>11 DEF TrieInv

\* A sequence without its i-th element.
LEMMA RemovedAt ==
  ASSUME NEW T, NEW s \in Seq(T), NEW i \in 1 .. Len(s)
  PROVE  /\ Tree!RemoveAt(s, i) \in Seq(T) /\ Len(Tree!RemoveAt(s, i)) = Len(s) - 1
         /\ \A j \in 1 .. Len(s) - 1 : Tree!RemoveAt(s, i)[j] = IF j < i THEN s[j] ELSE s[j + 1]
<1> DEFINE n == Len(s)
           a == SubSeq(s, 1, i - 1)
           b == SubSeq(s, i + 1, n)
<1>1. n \in Nat /\ i - 1 \in Nat /\ i - 1 <= n /\ i \in Nat /\ i <= n
  OBVIOUS
<1>2. a \in Seq(T) /\ Len(a) = i - 1 /\ \A j \in 1 .. i - 1 : a[j] = s[j]
  BY <1>1
<1>3. b \in Seq(T) /\ Len(b) = n - i /\ \A j \in 1 .. n - i : b[j] = s[j + i]
  <2>1. b \in Seq(T)
    BY <1>1
  <2>2. Len(b) = n - i
    BY <1>1
  <2>3. \A j \in 1 .. n - i : b[j] = s[i + 1 + j - 1]
    BY <1>1
  <2>4. \A j \in 1 .. n - i : i + 1 + j - 1 = j + i
    BY <1>1
  <2> HIDE DEF b
  <2> QED BY <2>1, <2>2, <2>3, <2>4
<1> HIDE DEF a, b, n
<1>4. /\ a \o b \in Seq(T) /\ Len(a \o b) = n - 1
      /\ \A j \in 1 .. n - 1 : (a \o b)[j] = IF j < i THEN a[j] ELSE b[j - (i - 1)]
  <2>1. Len(a \o b) = Len(a) + Len(b) /\ Len(a) + Len(b) = n - 1 /\ a \o b \in Seq(T)
    <3>1. a \in Seq(T) /\ b \in Seq(T)
      BY <1>2, <1>3
    <3>2. Len(a \o b) = Len(a) + Len(b) /\ a \o b \in Seq(T)
      BY <3>1
    <3>3. Len(a) = i - 1 /\ Len(b) = n - i
      BY <1>2, <1>3
    <3>4. i - 1 + (n - i) = n - 1
      BY <1>1
    <3> QED BY <3>2, <3>3, <3>4
  <2>2. \A j \in 1 .. n - 1 : (a \o b)[j] = IF j <= Len(a) THEN a[j] ELSE b[j - Len(a)]
    BY <1>1, <1>2, <1>3, <2>1
  <2>3. \A j \in 1 .. n - 1 : j <= Len(a) <=> j < i
    BY <1>1, <1>2
  <2> QED BY <1>2, <2>1, <2>2, <2>3
<1>5. ASSUME NEW j \in 1 .. n - 1
      PROVE  (a \o b)[j] = IF j < i THEN s[j] ELSE s[j + 1]
  <2>1. CASE j < i
    BY <1>1, <1>2, <1>4, <2>1
  <2>2. CASE ~(j < i)
    <3>1. j - (i - 1) \in 1 .. n - i /\ (j - (i - 1)) + i = j + 1
      BY <1>1, <2>2
    <3>2. b[j - (i - 1)] = s[j + 1]
      BY <1>3, <3>1
    <3> QED BY <1>4, <2>2, <3>2
  <2> QED BY <2>1, <2>2
<1>6. Tree!RemoveAt(s, i) = a \o b
  BY DEF Tree!RemoveAt, a, b, n
<1> QED BY <1>4, <1>5, <1>6 DEF n

\* delete_iterator keeps the invariant.
LEMMA CloseIteratorKeeps ==
  ASSUME TrieInv, NEW i \in DOMAIN iters, Tree!delete_iterator(i)
  PROVE  TrieInv'
<1>0. PICK prefix : prefix = iters[i].prefix
  OBVIOUS
<1> DEFINE n == Len(iters)
           to(j) == IF j < i THEN j ELSE j - 1
           from(j) == IF j < i THEN j ELSE j + 1
<1>1. /\ iterator_counts' = IF iterator_counts[prefix] = 1
                            THEN Tree!Without(iterator_counts, {prefix})
                            ELSE [iterator_counts EXCEPT ![prefix] = @ - 1]
      /\ iters' = Tree!RemoveAt(iters, i) /\ UNCHANGED <<nodes, cells>>
  BY <1>0 DEF Tree!delete_iterator
<1>2. n \in Nat /\ iters \in Seq(Iterators) /\ DOMAIN iters = 1 .. n /\ i \in 1 .. n
  BY DEF TrieInv
<1>3. /\ iters' \in Seq(Iterators) /\ DOMAIN iters' = 1 .. n - 1
      /\ \A j \in 1 .. n - 1 : iters'[j] = iters[from(j)]
  <2>1. /\ iters' \in Seq(Iterators) /\ Len(iters') = n - 1
        /\ \A j \in 1 .. n - 1 : iters'[j] = IF j < i THEN iters[j] ELSE iters[j + 1]
    BY <1>1, <1>2, RemovedAt
  <2> QED BY <2>1
<1> HIDE DEF n
<1>4. /\ \A j \in 1 .. n - 1 : from(j) \in 1 .. n /\ from(j) # i /\ to(from(j)) = j
      /\ \A j \in 1 .. n : j # i => to(j) \in 1 .. n - 1 /\ from(to(j)) = j
  BY <1>2
<1> HIDE DEF from, to
<1>5. \A p : Of(p)' = {j \in 1 .. n - 1 : iters[from(j)].prefix = p}
  BY <1>3 DEF Of
<1>6. ASSUME NEW p
      PROVE  Cardinality(Of(p)') = Cardinality(Of(p) \ {i})
  <2> DEFINE A == Of(p) \ {i}
             B == Of(p)'
             f == [j \in A |-> to(j)]
  <2>1. IsFiniteSet(A)
    BY OfFinite, FS_RemoveElement
  <2>a. \A j : j \in A <=> j \in 1 .. n /\ j # i /\ iters[j].prefix = p
    BY <1>2 DEF Of
  <2>b. \A j : j \in B <=> j \in 1 .. n - 1 /\ iters[from(j)].prefix = p
    BY <1>5
  <2>2. \A j \in A : j \in 1 .. n /\ j # i /\ to(j) \in B
    BY <1>4, <2>a, <2>b
  <2>3. \A j \in B : from(j) \in A /\ to(from(j)) = j
    BY <1>4, <2>a, <2>b
  <2> HIDE DEF A, B
  <2>4. f \in [A -> B] /\ \A j, k \in A : f[j] = f[k] => j = k
    <3>1. \A j, k \in A : to(j) = to(k) => j = k
      BY <1>4, <2>2
    <3> QED BY <2>2, <3>1
  <2>5. \A k \in B : \E j \in A : f[j] = k
    BY <2>3
  <2> HIDE DEF f
  <2>6. f \in Bijection(A, B)
    BY <2>4, <2>5, Fun_IsInj, Fun_IsSurj DEF Bijection
  <2>7. ExistsBijection(A, B)
    BY <2>6, Fun_ExistsBij
  <2> QED BY <2>1, <2>7, FS_Bijection DEF A, B
<1>7. \A p : Cardinality(Of(p)') = IF p = prefix THEN Cardinality(Of(p)) - 1 ELSE Cardinality(Of(p))
  <2>1. \A p : i \in Of(p) <=> p = prefix
    BY <1>0 DEF Of
  <2> QED BY <1>6, <2>1, OfFinite, FS_RemoveElement
<1>8. prefix \in DOMAIN iterator_counts /\ iterator_counts[prefix] = Cardinality(Of(prefix))
  BY <1>0 DEF TrieInv, Counted
<1>9. DOMAIN iterator_counts' = {iters'[j].prefix : j \in DOMAIN iters'}
  <2>1. \A p : p \in {iters'[j].prefix : j \in DOMAIN iters'} <=> Of(p)' # {}
    BY <1>3, <1>5
  <2>2. \A p : p \in DOMAIN iterator_counts <=> Of(p) # {}
    BY DEF TrieInv, Counted, Of
  <2>3. \A p : IsFiniteSet(Of(p)) /\ IsFiniteSet(Of(p)')
    <3>1. \A p : Of(p)' \subseteq 1 .. n - 1 /\ IsFiniteSet(1 .. n - 1)
      BY <1>2, <1>5, FS_Interval
    <3> QED BY <3>1, OfFinite, FS_Subset
  <2>4. \A p : p # prefix => (Of(p)' # {} <=> Of(p) # {})
    BY <1>7, <2>3, FS_EmptySet
  <2>5. Of(prefix)' # {} <=> iterator_counts[prefix] # 1
    <3> DEFINE c == Cardinality(Of(prefix))
               d == Cardinality(Of(prefix)')
    <3>1. c \in Nat /\ d = c - 1 /\ iterator_counts[prefix] = c
      BY <1>7, <1>8, OfFinite
    <3> HIDE DEF c, d
    <3>2. d = 0 <=> iterator_counts[prefix] = 1
      BY <3>1
    <3> USE DEF c, d
    <3> QED BY <2>3, <3>2, FS_EmptySet
  <2>6. DOMAIN iterator_counts' = IF iterator_counts[prefix] = 1
                                  THEN DOMAIN iterator_counts \ {prefix}
                                  ELSE DOMAIN iterator_counts
    BY <1>1 DEF Tree!Without
  <2>7. ASSUME NEW p
        PROVE  p \in DOMAIN iterator_counts' <=> Of(p)' # {}
    <3>1. CASE p = prefix
      BY <1>8, <2>5, <2>6, <3>1
    <3>2. CASE p # prefix
      BY <2>2, <2>4, <2>6, <3>2
    <3> QED BY <3>1, <3>2
  <2> QED BY <2>1, <2>7
<1>10. ASSUME NEW p \in DOMAIN iterator_counts'
       PROVE  iterator_counts'[p] = Cardinality(Of(p)')
  <2>1. CASE iterator_counts[prefix] = 1
    <3>1. p # prefix /\ p \in DOMAIN iterator_counts /\ iterator_counts'[p] = iterator_counts[p]
      BY <1>1, <2>1 DEF Tree!Without
    <3> QED BY <1>7, <3>1 DEF TrieInv, Counted
  <2>2. CASE iterator_counts[prefix] # 1
    <3>1. p \in DOMAIN iterator_counts
          /\ iterator_counts'[p] = IF p = prefix THEN iterator_counts[p] - 1 ELSE iterator_counts[p]
      BY <1>1, <2>2
    <3> QED BY <1>7, <3>1 DEF TrieInv, Counted
  <2> QED BY <2>1, <2>2
<1>11. \A j \in DOMAIN iters' : Rest(iters'[j].queue, Walks'[iters'[j].prefix])
  BY <1>1, <1>2, <1>3, <1>4, SameWalks DEF TrieInv
<1>12. TrieNodes'
  BY <1>1 DEF TrieInv, TrieNodes
<1> QED BY <1>1, <1>3, <1>9, <1>10, <1>11, <1>12 DEF TrieInv, Counted

\* Handles may come and go.
LEMMA StillKeeps ==
  ASSUME TrieInv, UNCHANGED <<nodes, cells, iterator_counts, iters>>
  PROVE  TrieInv'
<1>1. Walks' = Walks
  BY SameWalks
<1>2. Counted'
  BY DEF TrieInv, Counted, Of
<1> QED BY <1>1, <1>2 DEF TrieInv, TrieNodes

\* Every step keeps the invariant of the trie.
LEMMA TrieKeeps ==
  ASSUME TrieInv, [Tree!Next]_tree
  PROVE  TrieInv'
<1>1. ASSUME NEW k \in Tree!Keys,
             \/ Tree!create_entry(k) \/ Tree!lookup(k) \/ Tree!delete_prefix(k) \/ Tree!iterator(k)
      PROVE  TrieInv'
  <2>1. CASE Tree!lookup(k)
    BY <2>1, StillKeeps DEF Tree!lookup
  <2> QED BY <1>1, <2>1, CreateKeeps, DeletePrefixKeeps, IteratorKeeps
<1>2. ASSUME NEW e \in entries, Tree!delete_entry(e) \/ Tree!close(e)
      PROVE  TrieInv'
  <2>1. CASE Tree!close(e)
    BY <2>1, StillKeeps DEF Tree!close
  <2> QED BY <1>2, <2>1, DeleteKeeps
<1>3. ASSUME NEW i \in DOMAIN iters, Tree!next(i) \/ Tree!delete_iterator(i)
      PROVE  TrieInv'
  BY <1>3, NextKeeps, CloseIteratorKeeps
<1>4. CASE UNCHANGED tree
  BY <1>4, StillKeeps DEF tree
<1>5. CASE Tree!Next
  BY <1>1, <1>2, <1>3, <1>5 DEF Tree!Next
<1> QED BY <1>4, <1>5

\* The invariant says that iterators walk the nodes exactly.
LEMMA TrieWalks == TrieInv => Tree!IteratorsExact
<1> SUFFICES ASSUME TrieInv, NEW i \in DOMAIN iters
             PROVE  Rest(iters[i].queue, Tree!build_queue(iters[i].prefix))
  BY DEF Tree!IteratorsExact, Rest
<1>1. iters[i] \in Iterators
  BY DEF TrieInv
<1>2. iters[i].prefix \in Seq(Nat)
  BY <1>1 DEF Iterators
<1> QED BY <1>2 DEF TrieInv, Walks

-----------------------------------------------------------------------------
(* Nested collections: every entry is in a collection, and every collection  *)
(* in one place.                                                             *)
HeapColls == [kind : {"box", "map", "set"}, prefix : Nat]

\* The collections that are named in an entry, by the program, or by the contract.
HeapNamed == ({store[l] : l \in DOMAIN store} \cup held \cup {Builder!Root}) \ {Builder!Plain}

HeapTyped ==
  /\ \A c \in HeapNamed : c \in HeapColls /\ 2 <= c.prefix /\ c.prefix < next_prefix
  /\ next_prefix \in Nat /\ 2 < next_prefix /\ next_prefix <= 2 + MaxPrefixes
  /\ Builder!Plain \notin held /\ Builder!Root \notin held

\* A collection is in one place.
HeapOnce ==
  /\ \A l, k \in DOMAIN store : store[l] = store[k] /\ store[l] # Builder!Plain => l = k
  /\ \A l \in DOMAIN store : store[l] \notin held \cup {Builder!Root}
  /\ \A c, d \in HeapNamed : c.prefix = d.prefix => c = d

\* A box has one entry, at its prefix; a map or a set has its entries below, and
\* those of a set are plain.
HeapShaped ==
  /\ \A l \in DOMAIN store : Len(l) \in {1, 2}
  /\ \A l \in DOMAIN store : \E c \in HeapNamed : c.prefix = l[1]
  /\ \A c \in HeapNamed : c.kind = "box" => Builder!At(c.prefix) \in DOMAIN store
  /\ \A l \in DOMAIN store, c \in HeapNamed :
       c.prefix = l[1] => /\ Len(l) = 1 <=> c.kind = "box"
                          /\ c.kind = "set" => store[l] = Builder!Plain

HeapInv == HeapTyped /\ HeapOnce /\ HeapShaped

\* The collections there are, and their prefixes.
LEMMA HeapConstants ==
  /\ MaxPrefixes \in Nat /\ MaxPrefixes > 0
  /\ Builder!Plain \notin HeapColls /\ Builder!Plain.kind = "plain"
  /\ Builder!Root \in HeapColls /\ Builder!Root.kind = "map" /\ Builder!Root.prefix = 2
  /\ Builder!Root # Builder!Plain
  /\ \A p : Builder!At(p)[1] = p /\ Len(Builder!At(p)) = 1
  /\ \A p, k : Builder!Item(p, k)[1] = p /\ Len(Builder!Item(p, k)) = 2
<1>1. MaxPrefixes \in Nat /\ MaxPrefixes > 0
  BY Limits DEF Builder!StateBuilderAssumption
<1>2. Builder!Plain.kind = "plain" /\ Builder!Plain \notin HeapColls
  BY DEF Builder!Plain, HeapColls
<1>3. Builder!Root \in HeapColls /\ Builder!Root.kind = "map" /\ Builder!Root.prefix = 2
  BY DEF Builder!Root, Builder!StateMap, Builder!INITIAL_NEXT_ITEM_PREFIX, HeapColls
<1>4. \A p : Builder!At(p)[1] = p /\ Len(Builder!At(p)) = 1
  BY DEF Builder!At
<1>5. \A p, k : Builder!Item(p, k)[1] = p /\ Len(Builder!Item(p, k)) = 2
  BY DEF Builder!Item
<1> QED BY <1>1, <1>2, <1>3, <1>4, <1>5

\* The invariant of the state builder holds at the start.
LEMMA HeapStarts == ASSUME Builder!Init PROVE HeapInv
<1>1. store = <<>> /\ held = {} /\ next_prefix = 3
  BY DEF Builder!Init, Builder!INITIAL_NEXT_ITEM_PREFIX
<1>2. DOMAIN store = {} /\ HeapNamed = {Builder!Root}
  BY <1>1, HeapConstants DEF HeapNamed
<1> QED BY <1>1, <1>2, HeapConstants DEF HeapInv, HeapTyped, HeapOnce, HeapShaped

\* A named collection is in one place.
LEMMA HeapCounts == \A S : Builder!Cardinality(S) = Cardinality(S)
BY DEF Builder!Cardinality, Cardinality

\* The invariant says that the store holds what is in use.
LEMMA HeapHolds == ASSUME HeapInv PROVE Builder!HeapExact
<1> DEFINE named == {store[l] : l \in DOMAIN store} \cup held \cup {Builder!Root}
<1>1. named \ {Builder!Plain} = HeapNamed
  BY DEF HeapNamed
<1>2. ASSUME NEW c \in HeapNamed PROVE Builder!Owners(c) = 1
  <2> DEFINE P == {l \in DOMAIN store : store[l] = c}
             H == {c} \cap (held \cup {Builder!Root})
  <2>1. Builder!Owners(c) = Cardinality(P) + Cardinality(H)
    BY HeapCounts DEF Builder!Owners
  <2>2. c # Builder!Plain
    BY DEF HeapNamed
  <2>3. CASE \E l \in DOMAIN store : store[l] = c
    <3>1. PICK l \in DOMAIN store : store[l] = c
      BY <2>3
    <3>2. P = {l} /\ H = {}
      BY <2>2, <3>1 DEF HeapInv, HeapOnce
    <3> HIDE DEF P, H
    <3>3. Cardinality(P) = 1 /\ Cardinality(H) = 0
      BY <3>2, FS_Singleton, FS_EmptySet
    <3> QED BY <2>1, <3>3
  <2>4. CASE ~ \E l \in DOMAIN store : store[l] = c
    <3>1. P = {} /\ H = {c}
      BY <2>4 DEF HeapNamed
    <3> HIDE DEF P, H
    <3>2. Cardinality(P) = 0 /\ Cardinality(H) = 1
      BY <3>1, FS_Singleton, FS_EmptySet
    <3> QED BY <2>1, <3>2
  <2> QED BY <2>3, <2>4
<1>3. \A c \in named : c.kind = "box" => Builder!At(c.prefix) \in DOMAIN store
  <2> SUFFICES ASSUME NEW c \in named, c.kind = "box" PROVE Builder!At(c.prefix) \in DOMAIN store
    OBVIOUS
  <2>1. c # Builder!Plain
    BY HeapConstants
  <2> HIDE DEF named
  <2>2. c \in HeapNamed
    BY <1>1, <2>1
  <2> QED BY <2>2 DEF HeapInv, HeapShaped
<1>4. \A l \in DOMAIN store : \E c \in named \ {Builder!Plain} : c.prefix = l[1]
  BY <1>1 DEF HeapInv, HeapShaped
<1>5. \A c, d \in named \ {Builder!Plain} : c.prefix = d.prefix => c = d /\ Builder!Owners(c) = 1
  BY <1>1, <1>2 DEF HeapInv, HeapOnce
<1> QED BY <1>3, <1>4, <1>5 DEF Builder!HeapExact

\* A new collection at a new prefix.
LEMMA HeapNews ==
  ASSUME HeapInv, Builder!new_map \/ Builder!new_set
  PROVE  HeapInv'
<1>1. PICK c : /\ c.kind \in {"map", "set"} /\ c \in HeapColls /\ c.prefix = next_prefix
               /\ held' = held \cup {c} /\ store' = store
               /\ next_prefix' = next_prefix + 1 /\ next_prefix' <= 2 + MaxPrefixes
  <2>1. /\ next_prefix < 2 + MaxPrefixes /\ next_prefix' = next_prefix + 1 /\ store' = store
        /\ \/ held' = held \cup {[kind |-> "map", prefix |-> next_prefix]}
           \/ held' = held \cup {[kind |-> "set", prefix |-> next_prefix]}
    BY DEF Builder!new_map, Builder!new_set, Builder!get_and_update_item_prefix,
           Builder!INITIAL_NEXT_ITEM_PREFIX, Builder!StateMap, Builder!StateSet
  <2>2. next_prefix \in Nat
    BY DEF HeapInv, HeapTyped
  <2>3. next_prefix' <= 2 + MaxPrefixes
    BY <2>1, <2>2, HeapConstants
  <2> QED BY <2>1, <2>2, <2>3 DEF HeapColls
<1>2. /\ c # Builder!Plain /\ c # Builder!Root /\ c \notin HeapNamed
      /\ \A d \in HeapNamed : d.prefix # c.prefix
  BY <1>1, HeapConstants DEF HeapInv, HeapTyped
<1>3. HeapNamed' = HeapNamed \cup {c}
  BY <1>1, <1>2 DEF HeapNamed
<1>4. \A l \in DOMAIN store : store[l] # c /\ l[1] # c.prefix
  <2>1. \A l \in DOMAIN store : store[l] # Builder!Plain => store[l] \in HeapNamed
    BY DEF HeapNamed
  <2> QED BY <1>2, <2>1 DEF HeapInv, HeapShaped
<1>5. HeapTyped'
  <2>1. /\ next_prefix \in Nat /\ 2 < next_prefix
        /\ \A d \in HeapNamed : d \in HeapColls /\ 2 <= d.prefix /\ d.prefix < next_prefix
        /\ Builder!Plain \notin held /\ Builder!Root \notin held
    BY DEF HeapInv, HeapTyped
  <2>2. ASSUME NEW d \in HeapNamed'
        PROVE  d \in HeapColls /\ 2 <= d.prefix /\ d.prefix < next_prefix'
    <3>1. CASE d = c
      BY <1>1, <2>1, <3>1
    <3>2. CASE d \in HeapNamed
      <4>1. d.prefix \in Nat /\ d.prefix < next_prefix
        BY <2>1, <3>2 DEF HeapColls
      <4> QED BY <1>1, <2>1, <3>2, <4>1
    <3> QED BY <1>3, <2>2, <3>1, <3>2
  <2>3. next_prefix' \in Nat /\ 2 < next_prefix'
    BY <1>1, <2>1
  <2> QED BY <1>1, <1>2, <2>1, <2>2, <2>3 DEF HeapTyped
<1>6. HeapOnce'
  BY <1>1, <1>2, <1>3, <1>4 DEF HeapInv, HeapOnce
<1>7. HeapShaped'
  BY <1>1, <1>2, <1>3, <1>4 DEF HeapInv, HeapShaped
<1> QED BY <1>5, <1>6, <1>7 DEF HeapInv

\* An entry with a value, plain or owned by the program, in a collection; what
\* was there is the program's.
HeapPut(c, l, v) ==
  /\ store' = Builder!With(l, v)
  /\ held' = (held \ {v}) \cup (IF l \in DOMAIN store THEN Builder!Owned(store[l]) ELSE {})
  /\ next_prefix' = next_prefix
  /\ c.prefix = l[1] /\ v # c /\ v \in held \cup {Builder!Plain}
  /\ Len(l) \in {1, 2} /\ (Len(l) = 1 <=> c.kind = "box")
  /\ c.kind = "set" => v = Builder!Plain

\* Putting a value in a collection keeps the invariant.
LEMMA HeapPuts ==
  ASSUME HeapInv, NEW c \in HeapNamed, NEW l, NEW v, HeapPut(c, l, v)
  PROVE  HeapInv'
<1>1. /\ DOMAIN store' = DOMAIN store \cup {l} /\ store'[l] = v
      /\ \A k \in DOMAIN store \ {l} : store'[k] = store[k]
  BY DEF HeapPut, Builder!With
<1>2. /\ l \in DOMAIN store /\ store[l] # Builder!Plain => held' = (held \ {v}) \cup {store[l]}
      /\ ~(l \in DOMAIN store /\ store[l] # Builder!Plain) => held' = held \ {v}
  BY DEF HeapPut, Builder!Owned
<1>3. /\ v = Builder!Plain \/ (v \in held /\ v \in HeapNamed)
      /\ \A k \in DOMAIN store : store[k] \notin held /\ store[k] # Builder!Root
      /\ Builder!Plain \notin held /\ Builder!Root \notin held
  BY DEF HeapPut, HeapInv, HeapOnce, HeapTyped, HeapNamed
<1>4. HeapNamed' = HeapNamed
  <2>1. ASSUME NEW d \in HeapNamed PROVE d \in HeapNamed'
    <3>1. d # Builder!Plain
      BY DEF HeapNamed
    <3>2. CASE d = Builder!Root
      BY <3>1, <3>2 DEF HeapNamed
    <3>3. CASE d \in held
      <4>1. d = v \/ d \in held'
        BY <1>2, <3>3
      <4> QED BY <1>1, <3>1, <4>1 DEF HeapNamed
    <3>4. CASE \E k \in DOMAIN store : store[k] = d
      BY <1>1, <1>2, <3>1, <3>4 DEF HeapNamed
    <3> QED BY <3>2, <3>3, <3>4 DEF HeapNamed
  <2>2. ASSUME NEW d \in HeapNamed' PROVE d \in HeapNamed
    <3>1. d # Builder!Plain
      BY <2>2 DEF HeapNamed
    <3>2. CASE d = Builder!Root
      BY <3>1, <3>2 DEF HeapNamed
    <3>3. CASE d \in held'
      BY <1>2, <3>1, <3>3 DEF HeapNamed
    <3>4. CASE \E k \in DOMAIN store' : store'[k] = d
      BY <1>1, <1>3, <3>1, <3>4 DEF HeapNamed
    <3> QED BY <2>2, <3>2, <3>3, <3>4 DEF HeapNamed
  <2> QED BY <2>1, <2>2
<1>5. HeapTyped'
  BY <1>2, <1>3, <1>4 DEF HeapInv, HeapTyped, HeapPut
<1>6. HeapOnce'
  <2>1. ASSUME NEW j \in DOMAIN store', NEW k \in DOMAIN store', store'[j] = store'[k],
               store'[j] # Builder!Plain
        PROVE  j = k
    BY <1>1, <1>3, <2>1 DEF HeapInv, HeapOnce
  <2>2. ASSUME NEW j \in DOMAIN store' PROVE store'[j] \notin held' \cup {Builder!Root}
    <3>1. CASE j = l
      <4>1. v \notin held' /\ v # Builder!Root
        BY <1>2, <1>3, HeapConstants
      <4> QED BY <1>1, <3>1, <4>1
    <3>2. CASE j # l
      <4>1. j \in DOMAIN store /\ store'[j] = store[j]
        BY <1>1, <3>2
      <4>2. l \in DOMAIN store /\ store[l] # Builder!Plain => store[j] # store[l]
        BY <3>2, <4>1 DEF HeapInv, HeapOnce
      <4> QED BY <1>2, <1>3, <4>1, <4>2
    <3> QED BY <3>1, <3>2
  <2>3. \A d, e \in HeapNamed' : d.prefix = e.prefix => d = e
    BY <1>4 DEF HeapInv, HeapOnce
  <2> QED BY <2>1, <2>2, <2>3 DEF HeapOnce
<1>7. HeapShaped'
  <2>1. \A k \in DOMAIN store' : \E d \in HeapNamed : d.prefix = k[1]
    BY <1>1 DEF HeapInv, HeapShaped, HeapPut
  <2>2. \A d \in HeapNamed : d.kind = "box" => Builder!At(d.prefix) \in DOMAIN store'
    BY <1>1 DEF HeapInv, HeapShaped
  <2>3. ASSUME NEW k \in DOMAIN store', NEW d \in HeapNamed, d.prefix = k[1]
        PROVE  /\ Len(k) = 1 <=> d.kind = "box"
               /\ d.kind = "set" => store'[k] = Builder!Plain
    <3>1. CASE k = l
      <4>1. d = c
        BY <2>3, <3>1 DEF HeapInv, HeapOnce, HeapPut
      <4> QED BY <1>1, <3>1, <4>1 DEF HeapPut
    <3>2. CASE k # l
      BY <1>1, <2>3, <3>2 DEF HeapInv, HeapShaped
    <3> QED BY <3>1, <3>2
  <2>4. \A k \in DOMAIN store' : Len(k) \in {1, 2}
    BY <1>1 DEF HeapInv, HeapShaped, HeapPut
  <2> QED BY <1>4, <2>1, <2>2, <2>3, <2>4 DEF HeapShaped
<1> QED BY <1>5, <1>6, <1>7 DEF HeapInv

\* A box at a new prefix.
LEMMA HeapBoxes ==
  ASSUME HeapInv, NEW v \in {Builder!Plain} \cup held, Builder!new_box(v)
  PROVE  HeapInv'
<1> DEFINE p == next_prefix
           l == Builder!At(p)
           c == Builder!StateBox(p)
<1>1. /\ p \in Nat /\ 2 < p /\ p < 2 + MaxPrefixes /\ next_prefix' = p + 1
      /\ store' = Builder!With(l, v) /\ held' = (held \ {v}) \cup {c}
      /\ \A d \in HeapNamed : d \in HeapColls /\ 2 <= d.prefix /\ d.prefix < p
      /\ Builder!Plain \notin held /\ Builder!Root \notin held
  BY DEF Builder!new_box, Builder!get_and_update_item_prefix,
         Builder!INITIAL_NEXT_ITEM_PREFIX, HeapInv, HeapTyped
<1>2. c \in HeapColls /\ c.kind = "box" /\ c.prefix = p /\ l[1] = p /\ Len(l) = 1
  BY <1>1, HeapConstants DEF Builder!StateBox, HeapColls
<1> HIDE DEF l, c
<1>3. /\ c # Builder!Plain /\ c # Builder!Root /\ c \notin HeapNamed
      /\ \A d \in HeapNamed : d.prefix # p
  <2>1. \A d \in HeapNamed : d.prefix \in Nat /\ d.prefix < p
    BY <1>1 DEF HeapColls
  <2>2. \A d \in HeapNamed : d.prefix # p
    <3> HIDE DEF p
    <3> QED BY <1>1, <2>1
  <2>3. Builder!Root \in HeapNamed
    BY HeapConstants DEF HeapNamed
  <2> QED BY <1>2, <2>2, <2>3, HeapConstants
<1>4. l \notin DOMAIN store /\ \A k \in DOMAIN store : store[k] # c /\ k[1] # p
  <2>1. \A k \in DOMAIN store : store[k] # Builder!Plain => store[k] \in HeapNamed
    BY DEF HeapNamed
  <2>2. \A k \in DOMAIN store : \E d \in HeapNamed : d.prefix = k[1]
    BY DEF HeapInv, HeapShaped
  <2>3. \A k \in DOMAIN store : k[1] # p
    BY <1>3, <2>2
  <2> QED BY <1>2, <1>3, <2>1, <2>3
<1>5. /\ DOMAIN store' = DOMAIN store \cup {l} /\ store'[l] = v
      /\ \A k \in DOMAIN store : store'[k] = store[k]
  BY <1>1, <1>4 DEF Builder!With
<1>6. /\ v = Builder!Plain \/ (v \in held /\ v \in HeapNamed)
      /\ \A k \in DOMAIN store : store[k] \notin held /\ store[k] # Builder!Root
      /\ v # Builder!Root /\ v # c
  BY <1>1, <1>3, HeapConstants DEF HeapInv, HeapOnce, HeapNamed
<1> HIDE DEF p
<1>7. HeapNamed' = HeapNamed \cup {c}
  <2>1. ASSUME NEW d \in HeapNamed PROVE d \in HeapNamed'
    <3>1. d # Builder!Plain
      BY DEF HeapNamed
    <3>2. CASE d \in held
      <4>1. d = v \/ d \in held'
        BY <1>1, <3>2
      <4> QED BY <1>5, <3>1, <4>1 DEF HeapNamed
    <3>3. CASE d = Builder!Root \/ \E k \in DOMAIN store : store[k] = d
      BY <1>5, <3>1, <3>3 DEF HeapNamed
    <3> QED BY <3>2, <3>3 DEF HeapNamed
  <2>2. c \in HeapNamed'
    BY <1>1, <1>3 DEF HeapNamed
  <2>3. ASSUME NEW d \in HeapNamed', d # c PROVE d \in HeapNamed
    BY <1>1, <1>5, <1>6, <2>3 DEF HeapNamed
  <2> QED BY <2>1, <2>2, <2>3
<1>8. HeapTyped'
  <2>1. ASSUME NEW d \in HeapNamed'
        PROVE  d \in HeapColls /\ 2 <= d.prefix /\ d.prefix < next_prefix'
    <3>1. CASE d = c
      BY <1>1, <1>2, <3>1
    <3>2. CASE d \in HeapNamed
      <4>1. d.prefix \in Nat /\ d.prefix < p
        BY <1>1, <3>2 DEF HeapColls
      <4> QED BY <1>1, <3>2, <4>1
    <3> QED BY <1>7, <2>1, <3>1, <3>2
  <2>2. next_prefix' \in Nat /\ 2 < next_prefix' /\ next_prefix' <= 2 + MaxPrefixes
    BY <1>1, HeapConstants
  <2> QED BY <1>1, <1>3, <2>1, <2>2 DEF HeapTyped
<1>9. HeapOnce'
  <2>1. ASSUME NEW j \in DOMAIN store', NEW k \in DOMAIN store', store'[j] = store'[k],
               store'[j] # Builder!Plain
        PROVE  j = k
    BY <1>5, <1>6, <2>1 DEF HeapInv, HeapOnce
  <2>2. ASSUME NEW j \in DOMAIN store' PROVE store'[j] \notin held' \cup {Builder!Root}
    BY <1>1, <1>4, <1>5, <1>6, <2>2
  <2>3. \A d, e \in HeapNamed' : d.prefix = e.prefix => d = e
    BY <1>2, <1>3, <1>7 DEF HeapInv, HeapOnce
  <2> QED BY <2>1, <2>2, <2>3 DEF HeapOnce
<1>10. HeapShaped'
  <2>1. \A k \in DOMAIN store' : \E d \in HeapNamed' : d.prefix = k[1]
    BY <1>2, <1>5, <1>7 DEF HeapInv, HeapShaped
  <2>2. \A d \in HeapNamed' : d.kind = "box" => Builder!At(d.prefix) \in DOMAIN store'
    BY <1>2, <1>5, <1>7 DEF HeapInv, HeapShaped, l
  <2>3. ASSUME NEW k \in DOMAIN store', NEW d \in HeapNamed', d.prefix = k[1]
        PROVE  /\ Len(k) = 1 <=> d.kind = "box"
               /\ d.kind = "set" => store'[k] = Builder!Plain
    <3>1. CASE k = l
      <4>1. d = c
        BY <1>2, <1>3, <1>7, <2>3, <3>1
      <4> QED BY <1>2, <3>1, <4>1
    <3>2. CASE k # l
      <4>1. k \in DOMAIN store /\ d \in HeapNamed
        BY <1>2, <1>4, <1>5, <1>7, <2>3, <3>2
      <4> QED BY <1>5, <2>3, <4>1 DEF HeapInv, HeapShaped
    <3> QED BY <3>1, <3>2
  <2>4. \A k \in DOMAIN store' : Len(k) \in {1, 2}
    BY <1>2, <1>5 DEF HeapInv, HeapShaped
  <2> QED BY <2>1, <2>2, <2>3, <2>4 DEF HeapShaped
<1> QED BY <1>8, <1>9, <1>10 DEF HeapInv

\* Entries X are deleted, with the collections G and all there is in them.
HeapCut(X, G) ==
  /\ X \subseteq DOMAIN store /\ store' = Builder!Without(X) /\ next_prefix' = next_prefix
  /\ held \subseteq held' \cup G
  /\ \A c \in held' \ held : c # Builder!Plain /\ \E l \in X : store[l] = c
  /\ \A l \in X : store[l] \in G \cup held' \cup {Builder!Plain}
  /\ \A c \in G, l \in DOMAIN store : c.prefix = l[1] => l \in X
  /\ \A c \in G : c.kind = "box" => c \in HeapNamed /\ c \notin held' /\ (c \in held \/ \E l \in X : store[l] = c)
  /\ \A l \in X : Len(l) = 1 => \E c \in G : c \in HeapNamed /\ c.prefix = l[1]

\* Removing what is no longer reachable keeps the invariant.
LEMMA HeapCuts ==
  ASSUME HeapInv, NEW X, NEW G, HeapCut(X, G)
  PROVE  HeapInv'
<1>1. /\ DOMAIN store' = DOMAIN store \ X /\ X \subseteq DOMAIN store
      /\ \A l \in DOMAIN store' : store'[l] = store[l]
  BY DEF HeapCut, Builder!Without
<1>2. /\ \A l \in DOMAIN store : store[l] \notin held /\ store[l] # Builder!Root
      /\ \A l, k \in DOMAIN store : store[l] = store[k] /\ store[l] # Builder!Plain => l = k
      /\ \A c, d \in HeapNamed : c.prefix = d.prefix => c = d
  BY DEF HeapInv, HeapOnce
<1>3. HeapNamed' \subseteq HeapNamed
  BY <1>1 DEF HeapCut, HeapNamed
<1>4. ASSUME NEW c \in HeapNamed, c \notin HeapNamed' PROVE c \in G
  <2>1. c # Builder!Plain /\ c # Builder!Root /\ c \notin held'
    BY <1>4 DEF HeapNamed
  <2>2. CASE c \in held
    BY <2>1, <2>2 DEF HeapCut
  <2>3. CASE \E l \in DOMAIN store : store[l] = c
    <3>1. PICK l \in DOMAIN store : store[l] = c
      BY <2>3
    <3>2. l \in X
      <4>1. l \notin DOMAIN store'
        BY <1>1, <1>4, <2>1, <3>1 DEF HeapNamed
      <4> QED BY <1>1, <4>1
    <3> QED BY <2>1, <3>1, <3>2 DEF HeapCut
  <2> QED BY <2>1, <2>2, <2>3 DEF HeapNamed
<1>5. ASSUME NEW c \in G, c.kind = "box" PROVE c \notin HeapNamed'
  <2>1. c \in HeapNamed /\ c \notin held' /\ (c \in held \/ \E l \in X : store[l] = c)
    BY <1>5 DEF HeapCut
  <2>2. c # Builder!Root
    BY <1>5, HeapConstants
  <2>3. \A l \in DOMAIN store' : store'[l] # c
    <3> SUFFICES ASSUME NEW l \in DOMAIN store', store'[l] = c PROVE FALSE
      OBVIOUS
    <3>1. l \in DOMAIN store /\ l \notin X /\ store[l] = c /\ c # Builder!Plain
      BY <1>1, <2>1 DEF HeapNamed
    <3> QED BY <1>1, <1>2, <2>1, <3>1
  <2> QED BY <2>1, <2>2, <2>3 DEF HeapNamed
<1>6. HeapTyped'
  <2>1. Builder!Plain \notin held'
    BY DEF HeapInv, HeapTyped, HeapCut
  <2>2. Builder!Root \notin held'
    BY <1>1, <1>2 DEF HeapInv, HeapTyped, HeapCut
  <2> QED BY <1>3, <2>1, <2>2 DEF HeapInv, HeapTyped, HeapCut
<1>7. HeapOnce'
  <2>1. \A j, k \in DOMAIN store' : store'[j] = store'[k] /\ store'[j] # Builder!Plain => j = k
    BY <1>1, <1>2
  <2>2. ASSUME NEW j \in DOMAIN store' PROVE store'[j] \notin held' \cup {Builder!Root}
    <3>1. j \in DOMAIN store /\ j \notin X /\ store'[j] = store[j]
      BY <1>1
    <3>2. store[j] \notin held'
      <4> SUFFICES ASSUME store[j] \in held' PROVE FALSE
        OBVIOUS
      <4>1. store[j] \in held' \ held
        BY <1>2, <3>1
      <4>2. store[j] # Builder!Plain /\ \E l \in X : store[l] = store[j]
        BY <4>1 DEF HeapCut
      <4> QED BY <1>1, <1>2, <3>1, <4>2
    <3> QED BY <1>2, <3>1, <3>2
  <2>3. \A d, e \in HeapNamed' : d.prefix = e.prefix => d = e
    BY <1>2, <1>3
  <2> QED BY <2>1, <2>2, <2>3 DEF HeapOnce
<1>8. HeapShaped'
  <2>1. ASSUME NEW k \in DOMAIN store' PROVE \E d \in HeapNamed' : d.prefix = k[1]
    <3>1. k \in DOMAIN store /\ k \notin X
      BY <1>1
    <3>2. PICK d \in HeapNamed : d.prefix = k[1]
      BY <3>1 DEF HeapInv, HeapShaped
    <3>3. d \notin G
      BY <3>1, <3>2 DEF HeapCut
    <3> QED BY <1>4, <3>2, <3>3
  <2>2. ASSUME NEW d \in HeapNamed', d.kind = "box" PROVE Builder!At(d.prefix) \in DOMAIN store'
    <3> DEFINE l == Builder!At(d.prefix)
    <3>1. l \in DOMAIN store /\ Len(l) = 1 /\ l[1] = d.prefix /\ d \in HeapNamed
      BY <1>3, <2>2, HeapConstants DEF HeapInv, HeapShaped
    <3> HIDE DEF l
    <3>2. ASSUME l \in X PROVE FALSE
      <4>1. PICK c \in G : c \in HeapNamed /\ c.prefix = l[1]
        BY <3>1, <3>2 DEF HeapCut
      <4>2. c = d
        BY <1>2, <3>1, <4>1
      <4> QED BY <1>5, <2>2, <4>1, <4>2
    <3> QED BY <1>1, <3>1, <3>2 DEF l
  <2>3. \A k \in DOMAIN store', d \in HeapNamed' :
          d.prefix = k[1] => /\ Len(k) = 1 <=> d.kind = "box"
                             /\ d.kind = "set" => store'[k] = Builder!Plain
    BY <1>1, <1>3 DEF HeapInv, HeapShaped
  <2>4. \A k \in DOMAIN store' : Len(k) \in {1, 2}
    BY <1>1 DEF HeapInv, HeapShaped
  <2> QED BY <2>1, <2>2, <2>3, <2>4 DEF HeapShaped
<1> QED BY <1>6, <1>7, <1>8 DEF HeapInv

\* Different collections have different prefixes, so they are not many.
LEMMA HeapFew ==
  ASSUME HeapInv, NEW G \in SUBSET HeapNamed
  PROVE  IsFiniteSet(G) /\ Cardinality(G) <= MaxPrefixes
<1> DEFINE T == 2 .. MaxPrefixes + 1
           f == [c \in G |-> c.prefix]
<1>1. IsFiniteSet(T) /\ Cardinality(T) = MaxPrefixes
  <2>1. 2 \in Int /\ MaxPrefixes + 1 \in Int /\ ~(2 > MaxPrefixes + 1) /\ (MaxPrefixes + 1) - 2 + 1 = MaxPrefixes
    BY HeapConstants
  <2> QED BY <2>1, FS_Interval
<1>2. \A c \in G : c.prefix \in T
  <2> SUFFICES ASSUME NEW c \in G PROVE c.prefix \in T
    OBVIOUS
  <2>1. c.prefix \in Nat /\ 2 <= c.prefix /\ c.prefix < next_prefix
        /\ next_prefix \in Nat /\ next_prefix <= 2 + MaxPrefixes
    BY DEF HeapInv, HeapTyped, HeapColls
  <2> QED BY <2>1, HeapConstants
<1>3. \A c, d \in G : c.prefix = d.prefix => c = d
  BY DEF HeapInv, HeapOnce
<1>4. f \in Injection(G, T)
  <2> HIDE DEF T
  <2> QED BY <1>2, <1>3 DEF Injection, IsInjective
<1> HIDE DEF T, f
<1> QED BY <1>1, <1>4, FS_Injection

\* What the entries of the collections hold.
HeapBelow(G) == {l \in DOMAIN store : \E c \in G : c.prefix = l[1]}
HeapContents(G) == {store[l] : l \in HeapBelow(G)}

\* What is freed with a value, level by level.
LEMMA HeapNests ==
  ASSUME NEW v
  PROVE  \E N : /\ N[0] = {v}
                /\ \A n \in Nat : N[n + 1] = N[n] \cup HeapContents(N[n] \ {Builder!Plain})
                /\ Builder!Freed(v) = HeapBelow(N[MaxPrefixes] \ {Builder!Plain})
<1> DEFINE V == {v} \cup {store[l] : l \in DOMAIN store}
           S == SUBSET V
           a == {v}
           Contents(vs) == UNION {{store[l] : l \in Builder!Subtree(u.prefix)} : u \in vs \ {Builder!Plain}}
           step == [vs \in S |-> vs \cup HeapContents(vs \ {Builder!Plain})]
<1>1. a \in S /\ step \in [S -> S]
  BY DEF HeapContents, HeapBelow
<1>2. PICK h \in [Nat -> S] : h[0] = a /\ \A n \in Nat : h[n + 1] = step[h[n]]
  <2> HIDE DEF S, a, step
  <2> QED BY <1>1, Repetition
<1>3. \A vs : HeapContents(vs \ {Builder!Plain}) = Contents(vs)
  BY DEF HeapContents, HeapBelow, Builder!Subtree
<1>4. \A n \in Nat : h[n + 1] = h[n] \cup Contents(h[n])
  BY <1>2, <1>3
<1> HIDE DEF Contents, step, S
<1>5. h = [n \in Nat |-> IF n = 0 THEN {v} ELSE h[n - 1] \cup Contents(h[n - 1])]
  <2>1. ASSUME NEW n \in Nat PROVE h[n] = IF n = 0 THEN {v} ELSE h[n - 1] \cup Contents(h[n - 1])
    <3>1. CASE n = 0
      BY <1>2, <3>1
    <3>2. CASE n # 0
      <4> DEFINE m == n - 1
      <4>1. m \in Nat /\ m + 1 = n
        BY <3>2
      <4> HIDE DEF m
      <4>2. h[m + 1] = h[m] \cup Contents(h[m])
        BY <1>4, <4>1
      <4> QED BY <3>2, <4>1, <4>2 DEF m
    <3> QED BY <3>1, <3>2
  <2>2. h = [n \in Nat |-> h[n]]
    BY <1>2
  <2> QED BY <2>1, <2>2
<1> DEFINE N == CHOOSE f : f = [n \in Nat |-> IF n = 0 THEN {v} ELSE f[n - 1] \cup Contents(f[n - 1])]
<1>6. N = [n \in Nat |-> IF n = 0 THEN {v} ELSE N[n - 1] \cup Contents(N[n - 1])]
  BY <1>5
<1>7. Builder!Freed(v) = UNION {Builder!Subtree(u.prefix) : u \in N[MaxPrefixes] \ {Builder!Plain}}
  BY DEF Builder!Freed, Contents
<1> HIDE DEF N
<1>8. N[0] = {v}
  BY <1>6
<1>9. ASSUME NEW n \in Nat PROVE N[n + 1] = N[n] \cup Contents(N[n])
  <2>1. n + 1 \in Nat /\ n + 1 # 0 /\ (n + 1) - 1 = n
    OBVIOUS
  <2>2. N[n + 1] = N[(n + 1) - 1] \cup Contents(N[(n + 1) - 1])
    BY <1>6, <2>1
  <2> QED BY <2>1, <2>2
<1>10. Builder!Freed(v) = HeapBelow(N[MaxPrefixes] \ {Builder!Plain})
  BY <1>7 DEF HeapBelow, Builder!Subtree
<1> QED BY <1>3, <1>8, <1>9, <1>10

\* A deletion frees whole collections: the one it is of, and all that is in them.
LEMMA HeapFrees ==
  ASSUME HeapInv, NEW v \in HeapNamed \cup {Builder!Plain}
  PROVE  \E G \in SUBSET HeapNamed :
           /\ Builder!Freed(v) = HeapBelow(G)
           /\ v \in G \cup {Builder!Plain}
           /\ HeapContents(G) \subseteq G \cup {Builder!Plain}
           /\ \A c \in G : c = v \/ c \in HeapContents(G)
<1>1. PICK N : /\ N[0] = {v}
               /\ \A n \in Nat : N[n + 1] = N[n] \cup HeapContents(N[n] \ {Builder!Plain})
               /\ Builder!Freed(v) = HeapBelow(N[MaxPrefixes] \ {Builder!Plain})
  BY HeapNests
<1> DEFINE C(n) == N[n] \ {Builder!Plain}
           Full(n) == HeapContents(C(n)) \subseteq C(n) \cup {Builder!Plain}
           Q == {n \in Nat : /\ C(n) \in SUBSET HeapNamed
                             /\ v \in C(n) \cup {Builder!Plain}
                             /\ \A c \in C(n) : c = v \/ c \in HeapContents(C(n))
                             /\ Full(n) \/ n + 1 <= Cardinality(C(n))}
<1>2. 0 \in Q
  <2>1. CASE v = Builder!Plain
    <3>1. C(0) = {}
      BY <1>1, <2>1
    <3>2. HeapContents({}) = {}
      BY DEF HeapContents, HeapBelow
    <3> QED BY <2>1, <3>1, <3>2
  <2>2. CASE v # Builder!Plain
    <3>1. C(0) = {v}
      BY <1>1, <2>2
    <3>2. Cardinality({v}) = 1
      BY FS_Singleton
    <3> QED BY <2>2, <3>1, <3>2
  <2> QED BY <2>1, <2>2
<1>3. ASSUME NEW n \in Nat, n \in Q PROVE n + 1 \in Q
  <2> DEFINE K == C(n)
             L == C(n + 1)
  <2>1. L = K \cup (HeapContents(K) \ {Builder!Plain})
    BY <1>1
  <2>2. /\ K \in SUBSET HeapNamed /\ v \in K \cup {Builder!Plain}
        /\ \A c \in K : c = v \/ c \in HeapContents(K)
        /\ (HeapContents(K) \subseteq K \cup {Builder!Plain}) \/ n + 1 <= Cardinality(K)
    BY <1>3
  <2>3. SUFFICES /\ L \in SUBSET HeapNamed /\ v \in L \cup {Builder!Plain}
                 /\ \A c \in L : c = v \/ c \in HeapContents(L)
                 /\ (HeapContents(L) \subseteq L \cup {Builder!Plain})
                      \/ (n + 1) + 1 <= Cardinality(L)
    OBVIOUS
  <2> HIDE DEF K, L
  <2>4. L \in SUBSET HeapNamed
    BY <2>1, <2>2 DEF HeapContents, HeapBelow, HeapNamed
  <2>5. HeapContents(K) \subseteq HeapContents(L)
    BY <2>1 DEF HeapContents, HeapBelow
  <2>6. CASE HeapContents(K) \subseteq K \cup {Builder!Plain}
    <3>1. K = L
      BY <2>1, <2>6
    <3> QED BY <2>2, <2>6, <3>1
  <2>7. CASE ~ (HeapContents(K) \subseteq K \cup {Builder!Plain})
    <3>1. K \subseteq L /\ K # L /\ n + 1 <= Cardinality(K)
      BY <2>1, <2>2, <2>7
    <3>2. IsFiniteSet(K) /\ IsFiniteSet(L)
      BY <2>2, <2>4, HeapFew
    <3>3. Cardinality(K) \in Nat /\ Cardinality(L) \in Nat
      BY <3>2, FS_CardinalityType
    <3>4. Cardinality(K) <= Cardinality(L) /\ Cardinality(K) # Cardinality(L)
      BY <3>1, <3>2, FS_Subset
    <3>5. (n + 1) + 1 <= Cardinality(L)
      BY <3>1, <3>3, <3>4
    <3> QED BY <2>1, <2>2, <2>4, <2>5, <3>5
  <2> QED BY <2>6, <2>7
<1>4. MaxPrefixes \in Q
  <2> HIDE DEF Q
  <2>1. Nat \subseteq Q
    BY <1>2, <1>3, NumberInduction
  <2> QED BY <2>1, HeapConstants
<1>5. C(MaxPrefixes) \in SUBSET HeapNamed
  BY <1>4
<1>6. Full(MaxPrefixes)
  <2> DEFINE K == C(MaxPrefixes)
  <2>1. K \in SUBSET HeapNamed /\ (Full(MaxPrefixes) \/ MaxPrefixes + 1 <= Cardinality(K))
    BY <1>4
  <2> HIDE DEF K
  <2>2. IsFiniteSet(K) /\ Cardinality(K) <= MaxPrefixes
    BY <2>1, HeapFew
  <2>3. Cardinality(K) \in Nat
    BY <2>2, FS_CardinalityType
  <2> QED BY <2>1, <2>2, <2>3, HeapConstants
<1> QED BY <1>1, <1>4, <1>5, <1>6

\* The collections that an operation is of.
LEMMA HeapAtHand ==
  ASSUME HeapInv, NEW sort \in {"box", "map", "set"}, NEW c \in Builder!OfKind(sort)
  PROVE  c \in HeapNamed /\ c.kind = sort /\ c # Builder!Plain
<1>1. c \in {Builder!Root} \cup held \cup {store[l] : l \in Builder!Items(Builder!Root.prefix)}
  BY DEF Builder!OfKind, Builder!AtHand
<1>2. c.kind = sort /\ c # Builder!Plain
  BY HeapConstants DEF Builder!OfKind
<1> QED BY <1>1, <1>2 DEF HeapNamed, Builder!Items

\* Only a box has its value at its own prefix.
LEMMA HeapItems ==
  ASSUME HeapInv, NEW c \in HeapNamed, c.kind # "box"
  PROVE  \A l \in HeapBelow({c}) : Len(l) # 1
BY DEF HeapInv, HeapShaped, HeapBelow

\* Entries are added or replaced.
LEMMA HeapInserts ==
  ASSUME HeapInv,
         \/ \E m \in Builder!OfKind("map"), k \in MapKeys :
              \E v \in {Builder!Plain} \cup (held \ {m}) : Builder!insert(m, k, v)
         \/ \E b \in Builder!OfKind("box") :
              \E v \in {Builder!Plain} \cup (held \ {b}) : Builder!replace(b, v)
         \/ \E s \in Builder!OfKind("set"), k \in MapKeys : Builder!SetInsert(s, k)
  PROVE  HeapInv'
<1>1. ASSUME NEW m \in Builder!OfKind("map"), NEW k \in MapKeys,
             NEW v \in {Builder!Plain} \cup (held \ {m}), Builder!insert(m, k, v)
      PROVE  HeapInv'
  <2> DEFINE l == Builder!Item(m.prefix, k)
  <2>1. m \in HeapNamed /\ m.kind = "map" /\ m # Builder!Plain
    BY HeapAtHand
  <2>2. l[1] = m.prefix /\ Len(l) = 2
    BY HeapConstants
  <2>3. /\ store' = Builder!With(l, v) /\ next_prefix' = next_prefix
        /\ held' = (held \ {v}) \cup (IF l \in DOMAIN store THEN Builder!Owned(store[l]) ELSE {})
    BY <1>1 DEF Builder!insert
  <2> HIDE DEF l
  <2>4. HeapPut(m, l, v)
    BY <1>1, <2>1, <2>2, <2>3 DEF HeapPut
  <2> QED BY <2>1, <2>4, HeapPuts
<1>2. ASSUME NEW b \in Builder!OfKind("box"),
             NEW v \in {Builder!Plain} \cup (held \ {b}), Builder!replace(b, v)
      PROVE  HeapInv'
  <2> DEFINE l == Builder!At(b.prefix)
  <2>1. b \in HeapNamed /\ b.kind = "box" /\ b # Builder!Plain
    BY HeapAtHand
  <2>2. l[1] = b.prefix /\ Len(l) = 1 /\ l \in DOMAIN store
    BY <2>1, HeapConstants DEF HeapInv, HeapShaped
  <2>3. /\ store' = Builder!With(l, v) /\ next_prefix' = next_prefix
        /\ held' = (held \ {v}) \cup Builder!Owned(store[l])
    BY <1>2 DEF Builder!replace
  <2> HIDE DEF l
  <2>4. HeapPut(b, l, v)
    BY <1>2, <2>1, <2>2, <2>3 DEF HeapPut
  <2> QED BY <2>1, <2>4, HeapPuts
<1>3. ASSUME NEW s \in Builder!OfKind("set"), NEW k \in MapKeys, Builder!SetInsert(s, k)
      PROVE  HeapInv'
  <2> DEFINE l == Builder!Item(s.prefix, k)
             v == Builder!Plain
  <2>1. s \in HeapNamed /\ s.kind = "set" /\ s # v
    BY HeapAtHand
  <2>2. l[1] = s.prefix /\ Len(l) = 2
    BY HeapConstants
  <2>3. /\ store' = Builder!With(l, v) /\ next_prefix' = next_prefix
        /\ l \notin DOMAIN store /\ held' = held /\ v \notin held
    BY <1>3 DEF Builder!SetInsert, HeapInv, HeapTyped
  <2> HIDE DEF l
  <2>4. held' = (held \ {v}) \cup (IF l \in DOMAIN store THEN Builder!Owned(store[l]) ELSE {})
    BY <2>3
  <2>5. HeapPut(s, l, v)
    BY <2>1, <2>2, <2>3, <2>4 DEF HeapPut
  <2> HIDE DEF v
  <2> QED BY <2>1, <2>5, HeapPuts
<1> QED BY <1>1, <1>2, <1>3

\* Values are taken out, or deleted with all they name.
LEMMA HeapRemoves ==
  ASSUME HeapInv,
         \/ \E m \in Builder!OfKind("map"), k \in MapKeys :
              Builder!remove_and_get(m, k) \/ Builder!remove(m, k)
         \/ \E s \in Builder!OfKind("set"), k \in MapKeys : Builder!SetRemove(s, k)
  PROVE  HeapInv'
<1>1. PICK c \in HeapNamed, k \in MapKeys :
        /\ c.kind \in {"map", "set"}
        /\ \/ Builder!remove_and_get(c, k)
           \/ Builder!remove(c, k)
           \/ c.kind = "set" /\ Builder!SetRemove(c, k)
  BY HeapAtHand
<1> DEFINE l == Builder!Item(c.prefix, k)
           v == store[l]
<1>2. l[1] = c.prefix /\ Len(l) = 2
  BY HeapConstants
<1>3. l \in DOMAIN store /\ next_prefix' = next_prefix
  BY <1>1 DEF Builder!remove_and_get, Builder!remove, Builder!SetRemove
<1>4. /\ v \in HeapNamed \cup {Builder!Plain} /\ v \notin held /\ Builder!Plain \notin held
      /\ c.kind = "set" => v = Builder!Plain
  <2> HIDE DEF l
  <2> QED BY <1>2, <1>3 DEF HeapInv, HeapOnce, HeapTyped, HeapShaped, HeapNamed
<1>5. CASE Builder!remove_and_get(c, k) \/ (c.kind = "set" /\ Builder!SetRemove(c, k))
  <2>1. store' = Builder!Without({l}) /\ held' = held \cup Builder!Owned(v)
    BY <1>4, <1>5 DEF Builder!remove_and_get, Builder!SetRemove, Builder!Owned
  <2> HIDE DEF l
  <2>2. HeapCut({l}, {})
    BY <1>2, <1>3, <2>1 DEF HeapCut, Builder!Owned
  <2> QED BY <2>2, HeapCuts
<1>6. CASE Builder!remove(c, k)
  <2>1. store' = Builder!Without({l} \cup Builder!Freed(v)) /\ held' = held
    BY <1>6 DEF Builder!remove
  <2> HIDE DEF l, v
  <2>2. PICK G \in SUBSET HeapNamed :
          /\ Builder!Freed(v) = HeapBelow(G)
          /\ v \in G \cup {Builder!Plain}
          /\ HeapContents(G) \subseteq G \cup {Builder!Plain}
          /\ \A d \in G : d = v \/ d \in HeapContents(G)
    BY <1>4, HeapFrees
  <2> DEFINE X == {l} \cup HeapBelow(G)
  <2>3. X \subseteq DOMAIN store /\ store' = Builder!Without(X) /\ next_prefix' = next_prefix
    BY <1>3, <2>1, <2>2 DEF HeapBelow
  <2>4. \A j \in X : store[j] \in G \cup {Builder!Plain}
    BY <2>2 DEF v, HeapContents
  <2>5. \A d \in G, j \in DOMAIN store : d.prefix = j[1] => j \in X
    BY DEF HeapBelow
  <2>6. \A d \in G : \E j \in X : store[j] = d
    BY <1>3, <2>2 DEF v, HeapContents
  <2>7. \A j \in X : Len(j) = 1 => \E d \in G : d \in HeapNamed /\ d.prefix = j[1]
    BY <1>2 DEF HeapBelow
  <2>8. \A d \in G : d \notin held
    BY <2>3, <2>6 DEF HeapInv, HeapOnce
  <2> HIDE DEF X
  <2>9. HeapCut(X, G)
    BY <2>1, <2>3, <2>4, <2>5, <2>6, <2>7, <2>8 DEF HeapCut
  <2> QED BY <2>9, HeapCuts
<1> QED BY <1>1, <1>5, <1>6

\* A collection is emptied, or deleted.
LEMMA HeapClears ==
  ASSUME HeapInv,
         \/ \E m \in Builder!OfKind("map") : Builder!clear(m) \/ Builder!clear_flat(m)
         \/ \E s \in Builder!OfKind("set") : Builder!SetClear(s)
         \/ \E v \in held : Builder!delete(v)
  PROVE  HeapInv'
<1>1. ASSUME NEW c \in HeapNamed, c.kind \in {"map", "set"},
             \/ c.kind = "map" /\ Builder!clear_flat(c)
             \/ c.kind = "set" /\ Builder!SetClear(c)
      PROVE  HeapInv'
  <2> DEFINE X == HeapBelow({c})
  <2>1. /\ store' = Builder!Without(X) /\ held' = held /\ next_prefix' = next_prefix
        /\ X \subseteq DOMAIN store
    <3>1. Builder!Subtree(c.prefix) = X
      BY DEF Builder!Subtree, HeapBelow
    <3> QED BY <1>1, <3>1 DEF Builder!clear_flat, Builder!SetClear, HeapBelow
  <2>2. \A l \in X : Len(l) # 1
    BY <1>1, HeapItems
  <2>3. \A l \in X : store[l] = Builder!Plain
    <3>1. CASE c.kind = "set"
      BY <3>1 DEF HeapInv, HeapShaped, HeapBelow
    <3>2. CASE c.kind = "map" /\ Builder!clear_flat(c)
      <4> SUFFICES ASSUME NEW l \in X PROVE store[l] = Builder!Plain
        OBVIOUS
      <4>1. PICK q : q \in DOMAIN store /\ q[1] = c.prefix /\ q = l
        BY DEF HeapBelow
      <4>2. Len(l) > 1
        <5>1. Len(l) \in {1, 2}
          BY <4>1 DEF HeapInv, HeapShaped
        <5> QED BY <2>2, <5>1
      <4>3. l \in Builder!Items(c.prefix)
        BY <4>1, <4>2 DEF Builder!Items
      <4> QED BY <3>2, <4>3 DEF Builder!clear_flat
    <3> QED BY <1>1, <3>1, <3>2
  <2> HIDE DEF X
  <2>4. HeapCut(X, {})
    BY <2>1, <2>2, <2>3 DEF HeapCut
  <2> QED BY <2>4, HeapCuts
<1>2. ASSUME NEW v \in HeapNamed, store' = Builder!Without(Builder!Freed(v)), next_prefix' = next_prefix,
             \/ v.kind # "box" /\ held' = held
             \/ v \in held /\ held' = held \ {v}
      PROVE  HeapInv'
  <2>1. PICK G \in SUBSET HeapNamed :
          /\ Builder!Freed(v) = HeapBelow(G)
          /\ v \in G \cup {Builder!Plain}
          /\ HeapContents(G) \subseteq G \cup {Builder!Plain}
          /\ \A d \in G : d = v \/ d \in HeapContents(G)
    BY <1>2, HeapFrees
  <2> DEFINE X == HeapBelow(G)
  <2>2. v \in G /\ held \subseteq held' \cup G /\ held' \subseteq held
    BY <1>2, <2>1 DEF HeapNamed
  <2>3. X \subseteq DOMAIN store /\ store' = Builder!Without(X) /\ next_prefix' = next_prefix
    BY <1>2, <2>1 DEF HeapBelow
  <2>4. \A j \in X : store[j] \in G \cup {Builder!Plain}
    BY <2>1 DEF HeapContents
  <2>5. \A d \in G, j \in DOMAIN store : d.prefix = j[1] => j \in X
    BY DEF HeapBelow
  <2>6. \A j \in X : Len(j) = 1 => \E d \in G : d \in HeapNamed /\ d.prefix = j[1]
    BY DEF HeapBelow
  <2>7. ASSUME NEW d \in G, d.kind = "box"
        PROVE  d \in HeapNamed /\ d \notin held' /\ (d \in held \/ \E l \in X : store[l] = d)
    <3>1. CASE d = v
      BY <1>2, <2>7, <3>1
    <3>2. CASE d # v
      <4>1. PICK l \in X : store[l] = d
        BY <2>1, <3>2 DEF HeapContents
      <4> QED BY <2>2, <2>3, <4>1 DEF HeapInv, HeapOnce
    <3> QED BY <3>1, <3>2
  <2> HIDE DEF X
  <2>8. HeapCut(X, G)
    BY <2>2, <2>3, <2>4, <2>5, <2>6, <2>7 DEF HeapCut
  <2> QED BY <2>8, HeapCuts
<1>3. CASE \E m \in Builder!OfKind("map") : Builder!clear(m) \/ Builder!clear_flat(m)
  <2>1. PICK m \in Builder!OfKind("map") : Builder!clear(m) \/ Builder!clear_flat(m)
    BY <1>3
  <2>2. m \in HeapNamed /\ m.kind = "map"
    BY HeapAtHand
  <2>3. CASE Builder!clear(m)
    BY <1>2, <2>2, <2>3 DEF Builder!clear
  <2> QED BY <1>1, <2>1, <2>2, <2>3
<1>4. CASE \E s \in Builder!OfKind("set") : Builder!SetClear(s)
  BY <1>1, <1>4, HeapAtHand
<1>5. CASE \E v \in held : Builder!delete(v)
  <2>1. PICK v \in held : Builder!delete(v)
    BY <1>5
  <2>2. v \in HeapNamed
    BY DEF HeapInv, HeapTyped, HeapNamed
  <2> QED BY <1>2, <2>1, <2>2 DEF Builder!delete
<1> QED BY <1>3, <1>4, <1>5

\* Every step keeps the invariant of the state builder.
LEMMA HeapKeeps ==
  ASSUME HeapInv, [Builder!Next]_builder
  PROVE  HeapInv'
<1>1. CASE UNCHANGED builder
  BY <1>1 DEF builder, HeapInv, HeapTyped, HeapOnce, HeapShaped, HeapNamed
<1>2. CASE Builder!Next
  BY <1>2, HeapNews, HeapBoxes, HeapInserts, HeapRemoves, HeapClears DEF Builder!Next
<1> QED BY <1>1, <1>2

-----------------------------------------------------------------------------
\* A call into an instance finds what was assigned last, through failed calls,
\* calls back into the instance and traps, however deep they nest.
THEOREM FreshState == Spec => []CallsSeeLatest
<1>1. Init => HostInv
  BY Limits, HostStarts DEF Init
<1>2. HostInv /\ [Next]_vars => HostInv'
  BY Steps, HostKeeps
<1>3. HostInv => CallsSeeLatest
  BY HostSees DEF CallsSeeLatest
<1> QED BY <1>1, <1>2, <1>3, PTL DEF Spec

\* A unit test sees of the state and of the host what the contract will see.
THEOREM TestsAreFaithful == Spec => []SameAnswers
<1>1. Init => EntryInv /\ TestInv
  BY Limits, EntryStarts, TestStarts DEF Init
<1>2. EntryInv /\ TestInv /\ [Next]_vars => (EntryInv /\ TestInv)'
  BY Limits, Steps, EntryKeeps, TestKeeps
<1>3. EntryInv /\ TestInv => SameAnswers
  BY DEF SameAnswers, EntryInv, Entry!SameAnswers, TestInv, TestTyped, TestAlike, Mocked!SameOutcome
<1> QED BY <1>1, <1>2, <1>3, PTL DEF Spec

\* A value of a map is the one assigned last, whichever way it was stored.
THEOREM LatestRead == Spec => []LastWriteWins
<1>1. Init => ValueInv
  BY ValueStarts DEF Init
<1>2. ValueInv /\ [Next]_vars => ValueInv'
  BY Steps, ValueKeeps
<1>3. ValueInv => LastWriteWins
  BY ValueWrites DEF LastWriteWins
<1> QED BY <1>1, <1>2, <1>3, PTL DEF Spec

\* What an iterator has yet to give is the rest of its subtree, however many
\* iterators share or overlap a prefix and whichever were closed.
THEOREM WalksExact == Spec => []IteratorsExact
<1>1. Init => TrieInv
  BY TrieStarts DEF Init
<1>2. TrieInv /\ [Next]_vars => TrieInv'
  BY Steps, TrieKeeps
<1>3. TrieInv => IteratorsExact
  BY TrieWalks DEF IteratorsExact
<1> QED BY <1>1, <1>2, <1>3, PTL DEF Spec

\* And that subtree is walked in the order of keys, each entry once.
THEOREM WalksInOrder ==
  Spec => [](\A p \in Seq(Nat) : InOrder(Tree!build_queue(p), Below(p)))
<1>1. Init => TrieInv
  BY TrieStarts DEF Init
<1>2. TrieInv /\ [Next]_vars => TrieInv'
  BY Steps, TrieKeeps
<1>3. TrieInv => \A p \in Seq(Nat) : InOrder(Tree!build_queue(p), Below(p))
  BY WalkInOrder DEF TrieInv
<1> QED BY <1>1, <1>2, <1>3, PTL DEF Spec

\* However collections are nested, emptied, replaced and deleted, nothing is left
\* behind in the state, nothing is in two places, and no box has lost its value.
THEOREM HeapOwned == Spec => []HeapExact
<1>1. Init => HeapInv
  BY HeapStarts DEF Init
<1>2. HeapInv /\ [Next]_vars => HeapInv'
  BY Steps, HeapKeeps
<1>3. HeapInv => HeapExact
  BY HeapHolds DEF HeapExact
<1> QED BY <1>1, <1>2, <1>3, PTL DEF Spec

-----------------------------------------------------------------------------
(* Serialization: what is read of the bytes so far, and what writes them.     *)

\* The numbers of elements that Serialization counts.
LEMMA WireCounts ==
  ASSUME NEW S
  PROVE  /\ Wire!Cardinality(S) = Cardinality(S)
         /\ Wire!IsFiniteSet(S) <=> IsFiniteSet(S)
BY DEF Wire!Cardinality, Cardinality, Wire!IsFiniteSet, IsFiniteSet

\* The keys that are read, in the order of their bytes; w items make an
\* element, n elements are still to come; a reader may check the order.
Distinct(ks) == \A i, j \in 1 .. Len(ks) : i < j => ks[i] # ks[j]
Ascends(ks) == \A i, j \in 1 .. Len(ks) : i < j => ks[i] < ks[j]

KeysAt(w, d, ks) == \A i \in 1 .. Len(ks) : ks[i] = d[w * (i - 1) + 2]

Collected(w, checks, d, o, n, p, ks) ==
  /\ d \in Seq(WireItems) /\ Len(d) \in Nat /\ n \in Nat
  /\ ks \in Seq(WireItems) /\ Len(ks) \in Nat /\ o = w * Len(ks) + 1
  /\ d # <<>> /\ d[1] = Len(ks) + n /\ o <= Len(d)
  /\ KeysAt(w, d, ks) /\ Distinct(ks) /\ (checks => Ascends(ks))
  /\ p = IF Len(ks) = 0 THEN <<>> ELSE <<ks[Len(ks)]>>

\* What is written for the keys S: their number and, w items apart, each key.
Written(w, S, bytes, ks) ==
  /\ ks \in Wire!Orders(S) /\ Wire!Cardinality(S) \in Nat /\ Len(bytes) = 1 + w * Wire!Cardinality(S)
  /\ bytes[1] = Wire!Cardinality(S) /\ \A i \in 1 .. Wire!Cardinality(S) : bytes[w * (i - 1) + 2] = ks[i]

\* A key is one of the items that were read for it.
LEMMA KeyItem ==
  ASSUME NEW w \in {1, 2}, NEW d \in Seq(WireItems), NEW m \in Nat, NEW i \in 1 .. m,
         w * m + 1 <= Len(d)
  PROVE  w * (i - 1) + 2 \in 1 .. Len(d) /\ d[w * (i - 1) + 2] \in WireItems
<1>1. CASE w = 1
  BY <1>1
<1>2. CASE w = 2
  BY <1>2
<1> QED BY <1>1, <1>2

\* A reader that checks the order takes a key that is above all it has.
LEMMA AboveAll ==
  ASSUME Wire!SerializationAssumption, NEW ks \in Seq(WireItems), NEW x \in WireItems, Ascends(ks),
         Len(ks) # 0 => x > ks[Len(ks)]
  PROVE  /\ Ascends(Append(ks, x))
         /\ x \notin Wire!ToSet(ks)
<1> DEFINE m == Len(ks)
<1>1. m \in Nat /\ \A i \in 1 .. m : ks[i] \in WireItems /\ ks[i] \in Nat
  <2>1. m \in Nat /\ \A i \in 1 .. m : ks[i] \in WireItems
    OBVIOUS
  <2> QED BY <2>1 DEF Wire!SerializationAssumption
<1>2. x \in Nat
  BY DEF Wire!SerializationAssumption
<1>3. ASSUME NEW i \in 1 .. m PROVE ks[i] < x
  <2>1. ks[m] < x /\ ks[m] \in Nat
    BY <1>1, <1>2
  <2>2. i = m \/ ks[i] < ks[m]
    BY <1>1 DEF Ascends
  <2> QED BY <1>1, <1>2, <2>1, <2>2
<1>4. Len(Append(ks, x)) = m + 1 /\ Append(ks, x)[m + 1] = x
      /\ \A i \in 1 .. m : Append(ks, x)[i] = ks[i]
  BY <1>1
<1>5. Ascends(Append(ks, x))
  <2> SUFFICES ASSUME NEW i \in 1 .. m + 1, NEW j \in 1 .. m + 1, i < j
               PROVE  Append(ks, x)[i] < Append(ks, x)[j]
    BY <1>4 DEF Ascends
  <2>1. CASE j = m + 1
    BY <1>1, <1>3, <1>4, <2>1
  <2>2. CASE j # m + 1
    BY <1>1, <1>4, <2>2 DEF Ascends
  <2> QED BY <2>1, <2>2
<1>6. x \notin Wire!ToSet(ks)
  BY <1>1, <1>2, <1>3 DEF Wire!ToSet
<1> QED BY <1>5, <1>6

\* A key that is new keeps the keys distinct.
LEMMA DistinctMore ==
  ASSUME NEW ks \in Seq(WireItems), NEW x \in WireItems, Distinct(ks), x \notin Wire!ToSet(ks)
  PROVE  Distinct(Append(ks, x)) /\ Wire!ToSet(Append(ks, x)) = Wire!ToSet(ks) \cup {x}
<1> DEFINE m == Len(ks)
           t == Append(ks, x)
<1>1. m \in Nat /\ DOMAIN ks = 1 .. m /\ \A i \in 1 .. m : ks[i] # x
  BY DEF Wire!ToSet
<1>2. Len(t) = m + 1 /\ DOMAIN t = 1 .. m + 1 /\ t[m + 1] = x /\ \A i \in 1 .. m : t[i] = ks[i]
  BY <1>1
<1> HIDE DEF t, m
<1>3. Distinct(t)
  <2> SUFFICES ASSUME NEW i \in 1 .. m + 1, NEW j \in 1 .. m + 1, i < j PROVE t[i] # t[j]
    BY <1>2 DEF Distinct
  <2>1. CASE j = m + 1
    BY <1>1, <1>2, <2>1
  <2>2. CASE j # m + 1
    <3>1. i \in 1 .. m /\ j \in 1 .. m
      BY <1>1, <2>2
    <3> QED BY <1>2, <3>1 DEF Distinct, m
  <2> QED BY <2>1, <2>2
<1>4. Wire!ToSet(t) = Wire!ToSet(ks) \cup {x}
  <2>1. ASSUME NEW y \in Wire!ToSet(t) PROVE y \in Wire!ToSet(ks) \cup {x}
    <3>1. PICK i \in 1 .. m + 1 : y = t[i]
      BY <1>2, <2>1 DEF Wire!ToSet
    <3>2. i = m + 1 \/ i \in 1 .. m
      BY <1>1
    <3> QED BY <1>1, <1>2, <3>1, <3>2 DEF Wire!ToSet
  <2>2. ASSUME NEW y \in Wire!ToSet(ks) PROVE y \in Wire!ToSet(t)
    <3>1. PICK i \in 1 .. m : y = ks[i]
      BY <1>1, <2>2 DEF Wire!ToSet
    <3>2. i \in 1 .. m + 1 /\ t[i] = y
      BY <1>1, <1>2, <3>1
    <3> QED BY <1>2, <3>2 DEF Wire!ToSet
  <2>3. x \in Wire!ToSet(t)
    <3>1. m + 1 \in 1 .. m + 1
      BY <1>1
    <3> QED BY <1>2, <3>1 DEF Wire!ToSet
  <2> QED BY <2>1, <2>2, <2>3
<1> QED BY <1>3, <1>4 DEF t

\* A reader may take the next element, and has taken it.
MayTake(w, checks, d, o, p, ks) ==
  /\ o + w <= Len(d)
  /\ checks => (p # <<>> => d[o + 1] > p[1])
  /\ ~checks => d[o + 1] \notin Wire!ToSet(ks)

Takes(w, checks, d, o, n, ks) ==
  /\ Collected(w, checks, d, o + w, n - 1, <<d[o + 1]>>, Append(ks, d[o + 1]))
  /\ Wire!ToSet(Append(ks, d[o + 1])) = Wire!ToSet(ks) \cup {d[o + 1]}

\* One more element is read: the keys are those before and its key.
LEMMA KeyAdded ==
  ASSUME Wire!SerializationAssumption, NEW w \in {1, 2}, NEW checks \in BOOLEAN, NEW d, NEW o, NEW n, NEW p, NEW ks,
         Collected(w, checks, d, o, n, p, ks), n # 0,
         MayTake(w, checks, d, o, p, ks)
  PROVE  Takes(w, checks, d, o, n, ks)
<1>0. /\ o + w <= Len(d)
      /\ checks => (p # <<>> => d[o + 1] > p[1])
      /\ ~checks => d[o + 1] \notin Wire!ToSet(ks)
  BY DEF MayTake
<1> DEFINE m == Len(ks)
           x == d[o + 1]
           t == Append(ks, x)
<1>1. /\ m \in Nat /\ ks \in Seq(WireItems) /\ d \in Seq(WireItems) /\ Len(d) \in Nat /\ n \in Nat
      /\ o = w * m + 1 /\ d[1] = m + n /\ d # <<>>
      /\ KeysAt(w, d, ks) /\ Distinct(ks) /\ (checks => Ascends(ks))
      /\ p = IF m = 0 THEN <<>> ELSE <<ks[m]>>
  BY DEF Collected
<1>2. o \in Nat /\ o + w = w * (m + 1) + 1 /\ o + 1 \in 1 .. Len(d) /\ o + 1 = w * ((m + 1) - 1) + 2
  <2>1. CASE w = 1
    BY <1>0, <1>1, <2>1
  <2>2. CASE w = 2
    BY <1>0, <1>1, <2>2
  <2> QED BY <2>1, <2>2
<1>3. x \in WireItems
  BY <1>1, <1>2
<1>4. x \notin Wire!ToSet(ks) /\ (checks => Ascends(t))
  <2>1. CASE checks
    <3>1. m # 0 => x > ks[m]
      BY <1>0, <1>1, <2>1
    <3> QED BY <1>1, <1>3, <2>1, <3>1, AboveAll
  <2> QED BY <1>0, <2>1
<1>5. Distinct(t) /\ Wire!ToSet(t) = Wire!ToSet(ks) \cup {x}
  BY <1>1, <1>3, <1>4, DistinctMore
<1>6. /\ t \in Seq(WireItems) /\ Len(t) = m + 1 /\ m + 1 \in Nat /\ m + 1 # 0 /\ t[m + 1] = x
      /\ \A i \in 1 .. m : t[i] = ks[i]
  BY <1>1, <1>3
<1> HIDE DEF t, x
<1>7. KeysAt(w, d, t)
  <2> SUFFICES ASSUME NEW i \in 1 .. m + 1 PROVE t[i] = d[w * (i - 1) + 2]
    BY <1>6 DEF KeysAt
  <2>1. CASE i = m + 1
    BY <1>2, <1>6, <2>1 DEF x
  <2>2. CASE i # m + 1
    <3>1. i \in 1 .. m
      BY <1>1, <2>2
    <3> QED BY <1>1, <1>6, <3>1 DEF KeysAt
  <2> QED BY <2>1, <2>2
<1>8. n - 1 \in Nat /\ d[1] = (m + 1) + (n - 1) /\ o + w <= Len(d)
  BY <1>0, <1>1
<1>9. Collected(w, checks, d, o + w, n - 1, <<x>>, t)
  BY <1>1, <1>2, <1>4, <1>5, <1>6, <1>7, <1>8 DEF Collected
<1> QED BY <1>5, <1>9 DEF t, x, Takes

\* Keys that are distinct are as many as there are places.
LEMMA DistinctOrder ==
  ASSUME NEW ks \in Seq(WireItems), Distinct(ks)
  PROVE  /\ Wire!IsFiniteSet(Wire!ToSet(ks)) /\ Wire!Cardinality(Wire!ToSet(ks)) = Len(ks)
         /\ ks \in Wire!Orders(Wire!ToSet(ks)) /\ Wire!ToSet(ks) \subseteq WireItems
<1> DEFINE m == Len(ks)
           S == Wire!ToSet(ks)
<1>1. m \in Nat /\ DOMAIN ks = 1 .. m /\ ks = [i \in 1 .. m |-> ks[i]] /\ \A i \in 1 .. m : ks[i] \in WireItems
  OBVIOUS
<1>2. ks \in [1 .. m -> S]
  BY <1>1 DEF Wire!ToSet
<1>3. \A y \in S : \E i \in 1 .. m : ks[i] = y
  BY <1>1 DEF Wire!ToSet
<1>4. ks \in Bijection(1 .. m, S)
  <2>1. ASSUME NEW i \in 1 .. m, NEW j \in 1 .. m, ks[i] = ks[j] PROVE i = j
    <3>1. ~(i < j) /\ ~(j < i)
      BY <2>1 DEF Distinct
    <3> QED BY <1>1, <3>1
  <2> QED BY <1>2, <1>3, <2>1 DEF Bijection, Injection, Surjection, IsInjective
<1>5. Wire!IsFiniteSet(1 .. m) /\ Wire!Cardinality(1 .. m) = m
  BY <1>1, FS_Interval, WireCounts
<1>6. Wire!IsFiniteSet(S) /\ Wire!Cardinality(S) = m
  BY <1>4, <1>5, FS_Bijection, WireCounts DEF ExistsBijection
<1>7. S \subseteq WireItems
  BY <1>1 DEF Wire!ToSet
<1> QED BY <1>2, <1>6, <1>7 DEF Wire!Orders

\* The keys that are written are distinct.
LEMMA OrderDistinct ==
  ASSUME NEW S, Wire!IsFiniteSet(S), NEW ks \in Wire!Orders(S)
  PROVE  /\ Wire!Cardinality(S) \in Nat /\ Len(ks) = Wire!Cardinality(S) /\ DOMAIN ks = 1 .. Len(ks)
         /\ ks \in Seq(S) /\ Distinct(ks)
<1> DEFINE n == Wire!Cardinality(S)
<1>1. n \in Nat
  BY FS_CardinalityType, WireCounts
<1>2. ks \in [1 .. n -> S] /\ Wire!ToSet(ks) = S
  BY DEF Wire!Orders
<1> HIDE DEF n
<1>3. Len(ks) = n /\ DOMAIN ks = 1 .. n /\ ks \in Seq(S)
  BY <1>1, <1>2
<1>4. \A y \in S : \E i \in 1 .. n : ks[i] = y
  BY <1>2, <1>3 DEF Wire!ToSet
<1>5. ks \in Surjection(1 .. n, S)
  BY <1>2, <1>4 DEF Surjection
<1>6. Wire!IsFiniteSet(1 .. n) /\ Wire!Cardinality(1 .. n) = n
  BY <1>1, FS_Interval, WireCounts
<1>7. ks \in Injection(1 .. n, S)
  BY <1>5, <1>6, FS_SurjSameCardinalityImpliesInj, WireCounts DEF n
<1>8. Distinct(ks)
  <2> SUFFICES ASSUME NEW i \in 1 .. n, NEW j \in 1 .. n, i < j PROVE ks[i] # ks[j]
    BY <1>3 DEF Distinct
  <2> QED BY <1>1, <1>7 DEF Injection, IsInjective
<1> QED BY <1>1, <1>3, <1>8 DEF n

\* What a reader turns down is not the beginning of what is written.
LEMMA Refused ==
  ASSUME Wire!SerializationAssumption, NEW w \in {1, 2}, NEW checks \in BOOLEAN, NEW d, NEW o, NEW n, NEW p, NEW ks,
         Collected(w, checks, d, o, n, p, ks), n # 0,
         \/ o + w > Len(d)
         \/ checks /\ ~(p # <<>> => d[o + 1] > p[1])
         \/ ~checks /\ d[o + 1] \in Wire!ToSet(ks),
         NEW S, Wire!IsFiniteSet(S), NEW bytes, NEW order, Written(w, S, bytes, order),
         checks => Ascends(order), DOMAIN bytes = 1 .. Len(bytes), Wire!IsPrefix(bytes, d)
  PROVE  FALSE
<1> DEFINE m == Len(ks)
           x == d[o + 1]
           z == Wire!Cardinality(S)
<1>1. /\ m \in Nat /\ ks \in Seq(WireItems) /\ d \in Seq(WireItems) /\ Len(d) \in Nat /\ n \in Nat
      /\ o = w * m + 1 /\ d[1] = m + n /\ d # <<>> /\ KeysAt(w, d, ks)
      /\ p = IF m = 0 THEN <<>> ELSE <<ks[m]>>
  BY DEF Collected
<1>2. /\ z \in Nat /\ order \in Wire!Orders(S) /\ Len(bytes) = 1 + w * z /\ bytes[1] = z
      /\ \A i \in 1 .. z : bytes[w * (i - 1) + 2] = order[i]
  BY DEF Written
<1>3. Len(order) = z /\ Distinct(order)
  BY <1>2, OrderDistinct
<1>4. Len(bytes) <= Len(d) /\ \A i \in 1 .. Len(bytes) : bytes[i] = d[i]
  BY DEF Wire!IsPrefix
<1> HIDE DEF m, z
<1>5. 1 \in 1 .. 1 + w * z /\ \A i \in 1 .. z : w * (i - 1) + 2 \in 1 .. 1 + w * z
  <2>1. CASE w = 1
    BY <1>2, <2>1
  <2>2. CASE w = 2
    BY <1>2, <2>2
  <2> QED BY <2>1, <2>2
<1>6. z = m + n
  BY <1>1, <1>2, <1>4, <1>5
<1>7. \A i \in 1 .. z : order[i] = d[w * (i - 1) + 2]
  BY <1>2, <1>4, <1>5
<1>8. /\ o + w <= Len(d) /\ m + 1 \in 1 .. z /\ o + 1 = w * ((m + 1) - 1) + 2
      /\ \A i \in 1 .. m : i \in 1 .. z /\ i < m + 1
  <2>1. CASE w = 1
    BY <1>1, <1>2, <1>4, <1>6, <2>1
  <2>2. CASE w = 2
    BY <1>1, <1>2, <1>4, <1>6, <2>2
  <2> QED BY <2>1, <2>2
<1>9. order[m + 1] = x /\ \A i \in 1 .. m : order[i] = ks[i]
  BY <1>1, <1>7, <1>8 DEF KeysAt, m
<1>10. CASE checks /\ ~(p # <<>> => x > p[1])
  <2>1. m # 0 /\ p[1] = ks[m] /\ ~(x > ks[m])
    BY <1>1, <1>10
  <2>2. m \in 1 .. m
    BY <1>1, <2>1
  <2>3. order[m] < order[m + 1]
    BY <1>3, <1>8, <1>10, <2>2 DEF Ascends
  <2>4. ks[m] \in Nat /\ x \in Nat
    <3>1. o + 1 \in 1 .. Len(d)
      <4>1. CASE w = 1
        BY <1>1, <1>8, <4>1
      <4>2. CASE w = 2
        BY <1>1, <1>8, <4>2
      <4> QED BY <4>1, <4>2
    <3>2. d[o + 1] \in WireItems
      BY <1>1, <3>1
    <3>3. ks[m] \in WireItems
      BY <1>1, <2>2 DEF m
    <3> QED BY <3>2, <3>3 DEF Wire!SerializationAssumption
  <2>5. ks[m] < x
    BY <1>9, <2>2, <2>3
  <2> QED BY <2>1, <2>4, <2>5
<1>11. CASE ~checks /\ x \in Wire!ToSet(ks)
  <2>0. DOMAIN ks = 1 .. m
    BY <1>1 DEF m
  <2>1. PICK i \in 1 .. m : x = ks[i]
    BY <2>0, <1>11 DEF Wire!ToSet
  <2> QED BY <1>3, <1>8, <1>9, <2>1 DEF Distinct
<1>12. ~(o + w > Len(d))
  <2>1. CASE w = 1
    BY <1>1, <1>8, <2>1
  <2>2. CASE w = 2
    BY <1>1, <1>8, <2>2
  <2> QED BY <2>1, <2>2
<1> QED BY <1>10, <1>11, <1>12

\* The values of the collections and sums.
LEMMA ValuesOf ==
  /\ Wire!Values("vector") = Wire!SeqOf(WireItems, MaxWire)
  /\ Wire!Values("array") = [1 .. ArrayLen -> WireItems]
  /\ Wire!Values("text") = Wire!SeqOf(WireItems, MaxWire) \cap Legible
  /\ \A t \in Wire!Maps : Wire!Values(t) = UNION {[K -> WireItems] : K \in SUBSET WireItems}
  /\ \A t \in Wire!Sets : Wire!Values(t) = SUBSET WireItems
  /\ Wire!Values("bool") = BOOLEAN
  /\ Wire!Values("option") = {<<>>} \cup {<<x>> : x \in WireItems}
  /\ Wire!Values("address") = {<<x>> : x \in WireItems} \cup (WireItems \X WireItems)
BY DEF Wire!Values, Wire!Maps, Wire!Sets

\* A map is written as its keys, each with its value.
LEMMA PairsAt ==
  ASSUME Wire!SerializationAssumption, NEW S, S \subseteq WireItems, NEW f, f \in [S -> WireItems],
         NEW ks \in Seq(S)
  PROVE  /\ Wire!Pairs(f, ks) \in Seq(Nat) /\ Len(Wire!Pairs(f, ks)) = 2 * Len(ks)
         /\ \A i \in 1 .. Len(ks) : /\ Wire!Pairs(f, ks)[2 * (i - 1) + 1] = ks[i]
                                    /\ Wire!Pairs(f, ks)[2 * i] = f[ks[i]]
<1> DEFINE m == Len(ks)
           e == Wire!Pairs(f, ks)
<1>1. m \in Nat /\ \A i \in 1 .. m : ks[i] \in S
  OBVIOUS
<1> HIDE DEF m
<1>2. \A i \in 1 .. 2 * m : (i % 2 = 1 => (i + 1) \div 2 \in 1 .. m) /\ (i % 2 # 1 => i \div 2 \in 1 .. m)
  BY <1>1
<1>3. \A i \in 1 .. m : f[ks[i]] \in Nat /\ ks[i] \in Nat
  BY <1>1 DEF Wire!SerializationAssumption
<1>4. e = [i \in 1 .. 2 * m |-> IF i % 2 = 1 THEN ks[(i + 1) \div 2] ELSE f[ks[i \div 2]]]
  BY DEF Wire!Pairs, m
<1> HIDE DEF e
<1>5. ASSUME NEW i \in 1 .. 2 * m PROVE e[i] \in Nat
  <2>1. CASE i % 2 = 1
    BY <1>2, <1>3, <1>4, <2>1
  <2>2. CASE i % 2 # 1
    BY <1>2, <1>3, <1>4, <2>2
  <2> QED BY <2>1, <2>2
<1>6. e \in Seq(Nat) /\ Len(e) = 2 * m
  <2>1. 2 * m \in Nat /\ e \in [1 .. 2 * m -> Nat]
    BY <1>1, <1>4, <1>5
  <2> QED BY <2>1
<1>7. ASSUME NEW i \in 1 .. m PROVE e[2 * (i - 1) + 1] = ks[i] /\ e[2 * i] = f[ks[i]]
  <2>1. /\ 2 * (i - 1) + 1 \in 1 .. 2 * m /\ (2 * (i - 1) + 1) % 2 = 1
        /\ ((2 * (i - 1) + 1) + 1) \div 2 = i
    BY <1>1
  <2>2. 2 * i \in 1 .. 2 * m /\ (2 * i) % 2 = 0 /\ (2 * i) \div 2 = i
    BY <1>1
  <2>3. e[2 * (i - 1) + 1] = ks[((2 * (i - 1) + 1) + 1) \div 2]
    BY <1>4, <2>1
  <2>4. e[2 * i] = f[ks[(2 * i) \div 2]]
    BY <1>4, <2>2
  <2> QED BY <2>1, <2>2, <2>3, <2>4
<1> QED BY <1>6, <1>7 DEF e, m

\* What is written for a set has its number of elements and its keys.
LEMMA SetWritten ==
  ASSUME Wire!SerializationAssumption, NEW S, S \subseteq WireItems, NEW ks \in Wire!Orders(S)
  PROVE  /\ Written(1, S, <<Wire!Cardinality(S)>> \o ks, ks)
         /\ <<Wire!Cardinality(S)>> \o ks \in Seq(Nat)
<1>0. Wire!IsFiniteSet(S)
  BY FS_Subset, WireCounts DEF Wire!SerializationAssumption
<1>1. Wire!Cardinality(S) \in Nat /\ Len(ks) = Wire!Cardinality(S) /\ ks \in Seq(S)
  BY <1>0, OrderDistinct
<1>2. ks \in Seq(Nat)
  <2>1. S \subseteq Nat
    BY DEF Wire!SerializationAssumption
  <2> QED BY <1>1, <2>1, NumberSeq
<1> DEFINE z == Wire!Cardinality(S)
           b == <<z>> \o ks
<1>3. b \in Seq(Nat) /\ Len(b) = 1 + z /\ b[1] = z /\ \A i \in 1 .. z : b[i + 1] = ks[i]
  BY <1>1, <1>2, InFront
<1> HIDE DEF b, z
<1>4. 1 * z = z /\ \A i \in 1 .. z : 1 * (i - 1) + 2 = i + 1
  BY <1>1 DEF z
<1>5. Written(1, S, b, ks)
  BY <1>1, <1>3, <1>4 DEF Written, z
<1> QED BY <1>3, <1>5 DEF b, z

\* What is written for a map has its number of elements and its keys.
LEMMA MapWritten ==
  ASSUME Wire!SerializationAssumption, NEW S, S \subseteq WireItems, NEW f, f \in [S -> WireItems], NEW ks \in Wire!Orders(S)
  PROVE  /\ Written(2, S, <<Wire!Cardinality(S)>> \o Wire!Pairs(f, ks), ks)
         /\ <<Wire!Cardinality(S)>> \o Wire!Pairs(f, ks) \in Seq(Nat)
<1>0. Wire!IsFiniteSet(S)
  BY FS_Subset, WireCounts DEF Wire!SerializationAssumption
<1>1. Wire!Cardinality(S) \in Nat /\ Len(ks) = Wire!Cardinality(S) /\ ks \in Seq(S)
  BY <1>0, OrderDistinct
<1>2. ks \in Seq(S)
  BY <1>1
<1>3. /\ Wire!Pairs(f, ks) \in Seq(Nat) /\ Len(Wire!Pairs(f, ks)) = 2 * Len(ks)
      /\ \A i \in 1 .. Len(ks) : /\ Wire!Pairs(f, ks)[2 * (i - 1) + 1] = ks[i]
                                 /\ Wire!Pairs(f, ks)[2 * i] = f[ks[i]]
  BY <1>2, PairsAt
<1> DEFINE z == Wire!Cardinality(S)
           e == Wire!Pairs(f, ks)
           b == <<z>> \o e
<1>4. /\ e \in Seq(Nat) /\ Len(e) = 2 * z /\ \A i \in 1 .. z : e[2 * (i - 1) + 1] = ks[i]
  <2>1. Len(ks) = z
    BY <1>1
  <2> HIDE DEF z
  <2> QED BY <1>3, <2>1
<1> HIDE DEF e
<1>5. b \in Seq(Nat) /\ Len(b) = 1 + 2 * z /\ b[1] = z /\ \A i \in 1 .. 2 * z : b[i + 1] = e[i]
  BY <1>1, <1>4, InFront
<1> HIDE DEF b, z
<1>6. ASSUME NEW i \in 1 .. z PROVE b[2 * (i - 1) + 2] = ks[i]
  <2>1. 2 * (i - 1) + 1 \in 1 .. 2 * z /\ (2 * (i - 1) + 1) + 1 = 2 * (i - 1) + 2
    BY <1>1 DEF z
  <2> QED BY <1>4, <1>5, <2>1
<1>7. Written(2, S, b, ks)
  BY <1>1, <1>5, <1>6 DEF Written, z
<1> QED BY <1>5, <1>7 DEF b, z, e

SetRead(checks, d, o, n, p, s) ==
  \E ks : Collected(1, checks, d, o, n, p, ks) /\ s = Wire!ToSet(ks)

MapRead(checks, d, o, n, p, f) ==
  \E ks : /\ Collected(2, checks, d, o, n, p, ks) /\ f \in [Wire!ToSet(ks) -> WireItems]
          /\ \A i \in 1 .. Len(ks) : f[ks[i]] = d[2 * i + 1]

\* The orders a reader that checks and one that does not may see.
Seen(checks, S) == IF checks THEN Wire!InOrder(S) ELSE Wire!Orders(S)

\* The orders in which the keys of a set can have been read.
LEMMA SeenOrder ==
  ASSUME NEW checks \in BOOLEAN, NEW S, Wire!IsFiniteSet(S), NEW ks
  PROVE  ks \in Seen(checks, S) <=> ks \in Wire!Orders(S) /\ (checks => Ascends(ks))
<1>1. ASSUME ks \in Wire!Orders(S) PROVE ks \in Wire!InOrder(S) <=> Ascends(ks)
  BY <1>1, OrderDistinct DEF Wire!InOrder, Ascends
<1>2. ks \in Wire!InOrder(S) => ks \in Wire!Orders(S)
  BY DEF Wire!InOrder
<1> QED BY <1>1, <1>2 DEF Seen

\* A set that has been read was written with just these bytes.
LEMMA SetTaken ==
  ASSUME Wire!SerializationAssumption, NEW checks \in BOOLEAN, NEW d, NEW o, NEW p, NEW s,
         SetRead(checks, d, o, 0, p, s)
  PROVE  /\ s \in SUBSET WireItems
         /\ SubSeq(d, 1, o) \in Wire!WithLength(Wire!Cardinality(s), Seen(checks, s))
<1>1. PICK ks : Collected(1, checks, d, o, 0, p, ks) /\ s = Wire!ToSet(ks)
  BY DEF SetRead
<1> DEFINE m == Len(ks)
           b == <<Wire!Cardinality(s)>> \o ks
<1>2. /\ m \in Nat /\ ks \in Seq(WireItems) /\ d \in Seq(WireItems) /\ Len(d) \in Nat
      /\ o = 1 * m + 1 /\ d[1] = m + 0 /\ o <= Len(d) /\ KeysAt(1, d, ks) /\ Distinct(ks)
      /\ (checks => Ascends(ks))
  BY <1>1 DEF Collected
<1>3. Wire!IsFiniteSet(s) /\ Wire!Cardinality(s) = m /\ ks \in Wire!Orders(s) /\ s \subseteq WireItems
  BY <1>1, <1>2, DistinctOrder
<1>4. Written(1, s, b, ks) /\ b \in Seq(Nat)
  BY <1>3, SetWritten
<1>5. Len(b) = 1 + 1 * m /\ b[1] = m /\ \A i \in 1 .. m : b[1 * (i - 1) + 2] = ks[i]
  BY <1>3, <1>4 DEF Written
<1>6. d \in Seq(Nat)
  <2>1. WireItems \subseteq Nat
    BY DEF Wire!SerializationAssumption
  <2> QED BY <1>2, <2>1, NumberSeq
<1> HIDE DEF b, m
<1> DEFINE t == SubSeq(d, 1, o)
<1>7. o \in Nat /\ o = m + 1 /\ t \in Seq(Nat) /\ Len(t) = o /\ \A i \in 1 .. o : t[i] = d[i]
  BY <1>2, <1>6
<1> HIDE DEF t
<1>8. ASSUME NEW i \in 1 .. o PROVE t[i] = b[i]
  <2>1. CASE i = 1
    BY <1>2, <1>5, <1>7, <2>1
  <2>2. CASE i # 1
    <3>1. i - 1 \in 1 .. m /\ 1 * ((i - 1) - 1) + 2 = i
      BY <1>2, <1>7, <2>2
    <3>2. ks[i - 1] = d[1 * ((i - 1) - 1) + 2]
      BY <1>2, <3>1 DEF KeysAt, m
    <3>3. b[1 * ((i - 1) - 1) + 2] = ks[i - 1]
      BY <1>5, <3>1
    <3> QED BY <1>7, <3>1, <3>2, <3>3
  <2> QED BY <2>1, <2>2
<1>9. t = b
  <2>1. Len(t) = Len(b)
    BY <1>2, <1>5, <1>7
  <2> QED BY <1>4, <1>7, <1>8, <2>1, SameNumbers
<1>10. ks \in Seen(checks, s)
  BY <1>2, <1>3, SeenOrder
<1> QED BY <1>3, <1>9, <1>10 DEF Wire!WithLength, t, b

\* A map that has been read was written with just these bytes.
LEMMA MapTaken ==
  ASSUME Wire!SerializationAssumption, NEW checks \in BOOLEAN, NEW d, NEW o, NEW p, NEW f,
         MapRead(checks, d, o, 0, p, f)
  PROVE  /\ f \in Wire!Values("map") /\ DOMAIN f \subseteq WireItems
         /\ SubSeq(d, 1, o) \in
              Wire!WithLength(Wire!Cardinality(DOMAIN f), Wire!serial_map_no_length(f, Seen(checks, DOMAIN f)))
<1>1. PICK ks : /\ Collected(2, checks, d, o, 0, p, ks) /\ f \in [Wire!ToSet(ks) -> WireItems]
                /\ \A i \in 1 .. Len(ks) : f[ks[i]] = d[2 * i + 1]
  BY DEF MapRead
<1> DEFINE m == Len(ks)
           s == Wire!ToSet(ks)
           e == Wire!Pairs(f, ks)
           b == <<Wire!Cardinality(s)>> \o e
<1>2. /\ m \in Nat /\ ks \in Seq(WireItems) /\ d \in Seq(WireItems) /\ Len(d) \in Nat
      /\ o = 2 * m + 1 /\ d[1] = m + 0 /\ o <= Len(d) /\ KeysAt(2, d, ks) /\ Distinct(ks)
      /\ (checks => Ascends(ks))
  BY <1>1 DEF Collected
<1>3. Wire!IsFiniteSet(s) /\ Wire!Cardinality(s) = m /\ ks \in Wire!Orders(s) /\ s \subseteq WireItems
  BY <1>2, DistinctOrder
<1>4. DOMAIN f = s /\ f \in Wire!Values("map")
  <2>1. DOMAIN f = s
    BY <1>1
  <2>2. f \in UNION {[K -> WireItems] : K \in SUBSET WireItems}
    BY <1>1, <1>3
  <2>3. "map" \in Wire!Maps
    BY DEF Wire!Maps
  <2> QED BY <2>1, <2>2, <2>3, ValuesOf
<1>5. ks \in Seq(s)
  BY <1>3, OrderDistinct
<1> HIDE DEF s
<1>6. f \in [s -> WireItems]
  BY <1>1 DEF s
<1>7. e \in Seq(Nat) /\ Len(e) = 2 * m
      /\ \A i \in 1 .. m : e[2 * (i - 1) + 1] = ks[i] /\ e[2 * i] = f[ks[i]]
  <2>1. Len(ks) = m
    OBVIOUS
  <2> HIDE DEF m
  <2>2. s \subseteq WireItems
    BY <1>3
  <2>3. /\ Wire!Pairs(f, ks) \in Seq(Nat) /\ Len(Wire!Pairs(f, ks)) = 2 * Len(ks)
        /\ \A i \in 1 .. Len(ks) : /\ Wire!Pairs(f, ks)[2 * (i - 1) + 1] = ks[i]
                                   /\ Wire!Pairs(f, ks)[2 * i] = f[ks[i]]
    BY <1>5, <1>6, <2>2, PairsAt
  <2>4. e = Wire!Pairs(f, ks)
    OBVIOUS
  <2> HIDE DEF e
  <2> QED BY <2>1, <2>3, <2>4
<1> HIDE DEF e
<1>8. b \in Seq(Nat) /\ Len(b) = 1 + 2 * m /\ b[1] = m /\ \A i \in 1 .. 2 * m : b[i + 1] = e[i]
  <2>1. Wire!Cardinality(s) = m /\ m \in Nat
    BY <1>2, <1>3
  <2> HIDE DEF m
  <2>2. b = <<m>> \o e
    BY <2>1
  <2> HIDE DEF b
  <2> QED BY <1>7, <2>1, <2>2, InFront
<1>9. d \in Seq(Nat)
  <2>1. WireItems \subseteq Nat
    BY DEF Wire!SerializationAssumption
  <2> QED BY <1>2, <2>1, NumberSeq
<1>10. \A i \in 1 .. m : ks[i] = d[2 * (i - 1) + 2] /\ f[ks[i]] = d[2 * i + 1]
  BY <1>1, <1>2 DEF KeysAt
<1> HIDE DEF b, m
<1> DEFINE t == SubSeq(d, 1, o)
<1>11. o \in Nat /\ t \in Seq(Nat) /\ Len(t) = o /\ \A i \in 1 .. o : t[i] = d[i]
  BY <1>2, <1>9
<1> HIDE DEF t
<1>12. ASSUME NEW i \in 1 .. o PROVE t[i] = b[i]
  <2>1. CASE i = 1
    BY <1>2, <1>8, <1>11, <2>1
  <2>2. CASE i # 1 /\ i % 2 = 0
    <3> DEFINE j == i \div 2
    <3>1. j \in 1 .. m /\ i = 2 * (j - 1) + 2 /\ i - 1 = 2 * (j - 1) + 1 /\ i - 1 \in 1 .. 2 * m
      BY <1>2, <2>2
    <3> HIDE DEF j
    <3>2. t[i] = ks[j]
      BY <1>10, <1>11, <3>1
    <3>3. b[(i - 1) + 1] = e[i - 1] /\ (i - 1) + 1 = i
      BY <1>8, <3>1
    <3>4. e[i - 1] = ks[j]
      BY <1>7, <3>1
    <3> QED BY <3>2, <3>3, <3>4
  <2>3. CASE i # 1 /\ i % 2 # 0
    <3> DEFINE j == i \div 2
    <3>1. j \in 1 .. m /\ i = 2 * j + 1 /\ i - 1 = 2 * j /\ i - 1 \in 1 .. 2 * m
      BY <1>2, <2>3
    <3> HIDE DEF j
    <3>2. t[i] = f[ks[j]]
      BY <1>10, <1>11, <3>1
    <3>3. b[(i - 1) + 1] = e[i - 1] /\ (i - 1) + 1 = i
      BY <1>8, <3>1
    <3>4. e[i - 1] = f[ks[j]]
      BY <1>7, <3>1
    <3> QED BY <3>2, <3>3, <3>4
  <2> QED BY <2>1, <2>2, <2>3
<1>13. t = b
  <2>1. Len(t) = Len(b)
    BY <1>2, <1>8, <1>11
  <2> QED BY <1>8, <1>11, <1>12, <2>1, SameNumbers
<1>14. ks \in Seen(checks, s)
  BY <1>2, <1>3, SeenOrder
<1>15. e \in Wire!serial_map_no_length(f, Seen(checks, s))
  BY <1>14 DEF Wire!serial_map_no_length, e
<1>16. b \in Wire!WithLength(Wire!Cardinality(s), Wire!serial_map_no_length(f, Seen(checks, s)))
  BY <1>15 DEF Wire!WithLength, b
<1> QED BY <1>3, <1>4, <1>13, <1>16 DEF t

Checks(t) == t \in {"map", "set"}

\* What has been read is a value, and was written with the bytes taken.
Done(t, d, o, v) ==
  /\ v \in Wire!Values(t)
  /\ SubSeq(d, 1, o) \in
       IF t \in {"map_no_order_check", "set_no_order_check"} THEN Wire!serial_hash(t, v) ELSE Wire!serial(t, v)

\* Nothing that is written begins the source.
Refuses(t, d) == \A v \in Wire!Values(t) : \A bytes \in Wire!serial(t, v) : ~Wire!IsPrefix(bytes, d)

\* The types are read by different functions.
LEMMA TypesDiffer ==
  /\ \A t \in Wire!Maps : t \notin Wire!Sets /\ t \notin Wire!Sums /\ t \in Wire!Types /\ t \notin Wire!Vectors
  /\ \A t \in Wire!Sets : t \notin Wire!Maps /\ t \notin Wire!Sums /\ t \in Wire!Types /\ t \notin Wire!Vectors
  /\ \A t \in Wire!Vectors : t \notin Wire!Maps /\ t \notin Wire!Sets /\ t \notin Wire!Sums /\ t \in Wire!Types
  /\ \A t \in Wire!Sums : t \notin Wire!Maps /\ t \notin Wire!Sets /\ t \notin Wire!Vectors /\ t \in Wire!Types
  /\ {"vector", "text", "array"} = Wire!Vectors
  /\ Wire!None \notin Wire!Types
BY DEF Wire!Maps, Wire!Sets, Wire!Sums, Wire!Vectors, Wire!Types, Wire!None

\* The bytes of each type.
LEMMA SerialOf ==
  ASSUME NEW v
  PROVE  /\ Wire!serial("vector", v) = {<<Len(v)>> \o v}
         /\ Wire!serial("text", v) = {<<Len(v)>> \o v}
         /\ Wire!serial("array", v) = {v}
         /\ Wire!serial("bool", v) = {Wire!serial_bool(v)}
         /\ Wire!serial("option", v) = {Wire!serial_option(v)}
         /\ Wire!serial("address", v) = {Wire!serial_address(v)}
BY DEF Wire!serial, Wire!serial_text, Wire!Maps, Wire!Sets

\* The bytes that a map is written with.
LEMMA SerialOfMap ==
  ASSUME NEW v
  PROVE  /\ Wire!serial("hashmap", v) =
              Wire!WithLength(Wire!Cardinality(DOMAIN v), Wire!serial_map_no_length(v, Wire!Orders(DOMAIN v)))
         /\ \A t \in {"map", "map_no_order_check"} : Wire!serial(t, v) =
              Wire!WithLength(Wire!Cardinality(DOMAIN v), Wire!serial_map_no_length(v, Wire!InOrder(DOMAIN v)))
<1>1. Wire!serial("hashmap", v) = Wire!serial_hash("hashmap", v)
  BY DEF Wire!serial, Wire!Maps, Wire!Sets
<1>2. Wire!serial_hash("hashmap", v) =
        Wire!WithLength(Wire!Cardinality(DOMAIN v), Wire!serial_map_no_length(v, Wire!Orders(DOMAIN v)))
  BY DEF Wire!serial_hash, Wire!Maps
<1>3. ASSUME NEW t \in {"map", "map_no_order_check"}
      PROVE  Wire!serial(t, v) =
               Wire!WithLength(Wire!Cardinality(DOMAIN v), Wire!serial_map_no_length(v, Wire!InOrder(DOMAIN v)))
  <2> DEFINE b == Wire!WithLength(Wire!Cardinality(DOMAIN v), Wire!serial_map_no_length(v, Wire!InOrder(DOMAIN v)))
  <2>1. t \in Wire!Maps \ {"hashmap"} /\ t \notin {"vector", "array"} /\ t \notin {"hashmap", "hashset"}
        /\ t \notin Wire!Sets
    BY DEF Wire!Maps, Wire!Sets
  <2>2. Wire!serial(t, v) = b
    BY <2>1 DEF Wire!serial
  <2> QED BY <2>2
<1> QED BY <1>1, <1>2, <1>3

\* The bytes that a set is written with.
LEMMA SerialOfSet ==
  ASSUME NEW t \in Wire!Sets, NEW v
  PROVE  Wire!serial(t, v) = Wire!WithLength(Wire!Cardinality(v), IF t = "hashset" THEN Wire!Orders(v) ELSE Wire!InOrder(v))
<1>1. CASE t = "hashset"
  BY <1>1 DEF Wire!serial, Wire!serial_hash, Wire!Maps, Wire!Sets
<1>2. CASE t = "set"
  BY <1>2 DEF Wire!serial, Wire!Maps, Wire!Sets
<1>3. CASE t = "set_no_order_check"
  BY <1>3 DEF Wire!serial, Wire!Maps, Wire!Sets
<1> QED BY <1>1, <1>2, <1>3 DEF Wire!Sets

\* A map read to its end is one, written with the bytes taken.
LEMMA MapDone ==
  ASSUME Wire!SerializationAssumption, NEW t \in Wire!Maps, NEW d, NEW o, NEW p, NEW f,
         MapRead(Checks(t), d, o, 0, p, f)
  PROVE  Done(t, d, o, f)
<1>1. Checks(t) \in BOOLEAN
  BY DEF Checks
<1>2. /\ f \in Wire!Values("map")
      /\ SubSeq(d, 1, o) \in
           Wire!WithLength(Wire!Cardinality(DOMAIN f), Wire!serial_map_no_length(f, Seen(Checks(t), DOMAIN f)))
  BY <1>1, MapTaken
<1>3. f \in Wire!Values(t)
  <2>1. "map" \in Wire!Maps
    BY DEF Wire!Maps
  <2> QED BY <1>2, <2>1, ValuesOf
<1>4. CASE t = "map"
  <2>1. Seen(Checks(t), DOMAIN f) = Wire!InOrder(DOMAIN f)
    BY <1>4 DEF Checks, Seen
  <2>2. Wire!serial(t, f) = Wire!WithLength(Wire!Cardinality(DOMAIN f), Wire!serial_map_no_length(f, Wire!InOrder(DOMAIN f)))
    BY <1>4, SerialOfMap
  <2> QED BY <1>2, <1>3, <1>4, <2>1, <2>2 DEF Done
<1>5. CASE t = "hashmap"
  <2>1. Seen(Checks(t), DOMAIN f) = Wire!Orders(DOMAIN f)
    BY <1>5 DEF Checks, Seen
  <2>2. Wire!serial(t, f) = Wire!WithLength(Wire!Cardinality(DOMAIN f), Wire!serial_map_no_length(f, Wire!Orders(DOMAIN f)))
    BY <1>5, SerialOfMap
  <2> QED BY <1>2, <1>3, <1>5, <2>1, <2>2 DEF Done
<1>6. CASE t = "map_no_order_check"
  <2>1. Seen(Checks(t), DOMAIN f) = Wire!Orders(DOMAIN f)
    BY <1>6 DEF Checks, Seen
  <2>2. Wire!serial_hash(t, f) = Wire!WithLength(Wire!Cardinality(DOMAIN f), Wire!serial_map_no_length(f, Wire!Orders(DOMAIN f)))
    BY DEF Wire!serial_hash
  <2> QED BY <1>2, <1>3, <1>6, <2>1, <2>2 DEF Done
<1> QED BY <1>4, <1>5, <1>6 DEF Wire!Maps

\* A set read to its end is one, written with the bytes taken.
LEMMA SetDone ==
  ASSUME Wire!SerializationAssumption, NEW t \in Wire!Sets, NEW d, NEW o, NEW p, NEW s,
         SetRead(Checks(t), d, o, 0, p, s)
  PROVE  Done(t, d, o, s)
<1>1. Checks(t) \in BOOLEAN
  BY DEF Checks
<1>2. /\ s \in SUBSET WireItems
      /\ SubSeq(d, 1, o) \in Wire!WithLength(Wire!Cardinality(s), Seen(Checks(t), s))
  BY <1>1, SetTaken
<1>3. s \in Wire!Values(t)
  BY <1>2, ValuesOf
<1>4. CASE t = "set"
  <2>1. Seen(Checks(t), s) = Wire!InOrder(s)
    BY <1>4 DEF Checks, Seen
  <2>2. Wire!serial(t, s) = Wire!WithLength(Wire!Cardinality(s), Wire!InOrder(s))
    BY <1>4, SerialOfSet
  <2> QED BY <1>2, <1>3, <1>4, <2>1, <2>2 DEF Done
<1>5. CASE t = "hashset"
  <2>1. Seen(Checks(t), s) = Wire!Orders(s)
    BY <1>5 DEF Checks, Seen
  <2>2. Wire!serial(t, s) = Wire!WithLength(Wire!Cardinality(s), Wire!Orders(s))
    BY <1>5, SerialOfSet
  <2> QED BY <1>2, <1>3, <1>5, <2>1, <2>2 DEF Done
<1>6. CASE t = "set_no_order_check"
  <2>1. Seen(Checks(t), s) = Wire!Orders(s)
    BY <1>6 DEF Checks, Seen
  <2>2. Wire!serial_hash(t, s) = Wire!WithLength(Wire!Cardinality(s), Wire!Orders(s))
    <3>1. t \notin Wire!Maps
      BY TypesDiffer
    <3> QED BY <3>1 DEF Wire!serial_hash
  <2> QED BY <1>2, <1>3, <1>6, <2>1, <2>2 DEF Done
<1> QED BY <1>4, <1>5, <1>6 DEF Wire!Sets

\* What is written for a map or a set, in an order that its reader may see.
LEMMA MapBytes ==
  ASSUME Wire!SerializationAssumption, NEW t \in Wire!Maps, NEW v \in Wire!Values(t), NEW bytes \in Wire!serial(t, v)
  PROVE  /\ Wire!IsFiniteSet(DOMAIN v) /\ bytes \in Seq(Nat)
         /\ \E ks : Written(2, DOMAIN v, bytes, ks) /\ (Checks(t) => Ascends(ks))
<1>1. PICK S \in SUBSET WireItems : v \in [S -> WireItems]
  BY ValuesOf
<1>2. DOMAIN v = S /\ S \subseteq WireItems
  BY <1>1
<1>3. Wire!IsFiniteSet(S)
  BY <1>2, FS_Subset, WireCounts DEF Wire!SerializationAssumption
<1> DEFINE order == IF t = "hashmap" THEN Wire!Orders(S) ELSE Wire!InOrder(S)
<1>4. bytes \in Wire!WithLength(Wire!Cardinality(S), Wire!serial_map_no_length(v, order))
  <2>1. CASE t = "hashmap"
    BY <1>2, <2>1, SerialOfMap
  <2>2. CASE t # "hashmap"
    <3>1. t \in {"map", "map_no_order_check"}
      BY <2>2 DEF Wire!Maps
    <3> QED BY <1>2, <2>2, <3>1, SerialOfMap
  <2> QED BY <2>1, <2>2
<1> HIDE DEF order
<1>5. PICK e \in Wire!serial_map_no_length(v, order) : bytes = <<Wire!Cardinality(S)>> \o e
  BY <1>4 DEF Wire!WithLength
<1>6. PICK ks \in order : e = Wire!Pairs(v, ks)
  BY <1>5 DEF Wire!serial_map_no_length
<1>7. ks \in Wire!Orders(S) /\ (Checks(t) => Ascends(ks))
  <2>1. CASE t = "hashmap"
    BY <1>6, <2>1 DEF order, Checks
  <2>2. CASE t # "hashmap"
    <3>1. ks \in Seen(TRUE, S)
      BY <1>6, <2>2 DEF order, Seen
    <3> QED BY <1>3, <3>1, SeenOrder
  <2> QED BY <2>1, <2>2
<1>8. Written(2, S, bytes, ks) /\ bytes \in Seq(Nat)
  BY <1>1, <1>2, <1>5, <1>6, <1>7, MapWritten
<1> QED BY <1>2, <1>3, <1>7, <1>8

\* The bytes of a set are its length and its elements.
LEMMA SetBytes ==
  ASSUME Wire!SerializationAssumption, NEW t \in Wire!Sets, NEW v \in Wire!Values(t), NEW bytes \in Wire!serial(t, v)
  PROVE  /\ Wire!IsFiniteSet(v) /\ bytes \in Seq(Nat)
         /\ \E ks : Written(1, v, bytes, ks) /\ (Checks(t) => Ascends(ks))
<1>1. v \subseteq WireItems
  BY ValuesOf
<1>3. Wire!IsFiniteSet(v)
  BY <1>1, FS_Subset, WireCounts DEF Wire!SerializationAssumption
<1> DEFINE order == IF t = "hashset" THEN Wire!Orders(v) ELSE Wire!InOrder(v)
<1>4. bytes \in Wire!WithLength(Wire!Cardinality(v), order)
  BY SerialOfSet
<1> HIDE DEF order
<1>6. PICK ks \in order : bytes = <<Wire!Cardinality(v)>> \o ks
  BY <1>4 DEF Wire!WithLength
<1>7. ks \in Wire!Orders(v) /\ (Checks(t) => Ascends(ks))
  <2>1. CASE t = "hashset"
    BY <1>6, <2>1 DEF order, Checks
  <2>2. CASE t # "hashset"
    <3>1. ks \in Seen(TRUE, v)
      BY <1>6, <2>2 DEF order, Seen
    <3> QED BY <1>3, <3>1, SeenOrder
  <2> QED BY <2>1, <2>2
<1>8. Written(1, v, bytes, ks) /\ bytes \in Seq(Nat)
  BY <1>1, <1>6, <1>7, SetWritten
<1> QED BY <1>3, <1>7, <1>8

\* No map is written with bytes that are refused here.
LEMMA MapRefused ==
  ASSUME Wire!SerializationAssumption, NEW t \in Wire!Maps, NEW d, NEW o, NEW n, NEW p, NEW f,
         MapRead(Checks(t), d, o, n, p, f), n # 0,
         \/ o + 2 > Len(d)
         \/ Checks(t) /\ ~(p # <<>> => d[o + 1] > p[1])
         \/ ~Checks(t) /\ d[o + 1] \in DOMAIN f
  PROVE  Refuses(t, d)
<1> SUFFICES ASSUME NEW v \in Wire!Values(t), NEW bytes \in Wire!serial(t, v), Wire!IsPrefix(bytes, d) PROVE FALSE
  BY DEF Refuses
<1>1. PICK ks : Collected(2, Checks(t), d, o, n, p, ks) /\ DOMAIN f = Wire!ToSet(ks)
  BY DEF MapRead
<1>2. Wire!IsFiniteSet(DOMAIN v) /\ bytes \in Seq(Nat)
  BY MapBytes
<1>3. PICK order : Written(2, DOMAIN v, bytes, order) /\ (Checks(t) => Ascends(order))
  BY MapBytes
<1>4. DOMAIN bytes = 1 .. Len(bytes) /\ Checks(t) \in BOOLEAN /\ 2 \in {1, 2}
  BY <1>2 DEF Checks
<1> QED BY <1>1, <1>2, <1>3, <1>4, Refused

\* No set is written with bytes that are refused here.
LEMMA SetRefused ==
  ASSUME Wire!SerializationAssumption, NEW t \in Wire!Sets, NEW d, NEW o, NEW n, NEW p, NEW s,
         SetRead(Checks(t), d, o, n, p, s), n # 0,
         \/ o + 1 > Len(d)
         \/ Checks(t) /\ ~(p # <<>> => d[o + 1] > p[1])
         \/ ~Checks(t) /\ d[o + 1] \in s
  PROVE  Refuses(t, d)
<1> SUFFICES ASSUME NEW v \in Wire!Values(t), NEW bytes \in Wire!serial(t, v), Wire!IsPrefix(bytes, d) PROVE FALSE
  BY DEF Refuses
<1>1. PICK ks : Collected(1, Checks(t), d, o, n, p, ks) /\ s = Wire!ToSet(ks)
  BY DEF SetRead
<1>2. Wire!IsFiniteSet(v) /\ bytes \in Seq(Nat)
  BY SetBytes
<1>3. PICK order : Written(1, v, bytes, order) /\ (Checks(t) => Ascends(order))
  BY SetBytes
<1>4. DOMAIN bytes = 1 .. Len(bytes) /\ Checks(t) \in BOOLEAN /\ 1 \in {1, 2}
  BY <1>2 DEF Checks
<1> QED BY <1>1, <1>2, <1>3, <1>4, Refused

VectorRead(d, o, n, s) ==
  /\ d \in Seq(WireItems) /\ Len(d) \in Nat /\ s \in Seq(WireItems) /\ Len(s) \in Nat /\ n \in Nat
  /\ o = Len(s) + 1 /\ o <= Len(d) /\ Len(d) <= MaxWire /\ d[1] = Len(s) + n
  /\ \A i \in 1 .. Len(s) : s[i] = d[i + 1]

ArrayRead(d, o, n, s) ==
  /\ d \in Seq(WireItems) /\ Len(d) \in Nat /\ s \in Seq(WireItems) /\ Len(s) \in Nat /\ n \in Nat
  /\ o = Len(s) /\ o <= Len(d) /\ ArrayLen = Len(s) + n
  /\ \A i \in 1 .. Len(s) : s[i] = d[i]

\* One more element of a vector.
LEMMA VectorStep ==
  ASSUME Wire!SerializationAssumption, NEW d, NEW o, NEW n, NEW s, VectorRead(d, o, n, s), n # 0, o + 1 <= Len(d)
  PROVE  VectorRead(d, o + 1, n - 1, Append(s, d[o + 1]))
<1> DEFINE m == Len(s)
           x == d[o + 1]
           t == Append(s, x)
<1>1. /\ d \in Seq(WireItems) /\ Len(d) \in Nat /\ s \in Seq(WireItems) /\ m \in Nat /\ n \in Nat
      /\ o = m + 1 /\ Len(d) <= MaxWire /\ d[1] = m + n /\ \A i \in 1 .. m : s[i] = d[i + 1]
  BY DEF VectorRead
<1>2. o + 1 \in 1 .. Len(d) /\ x \in WireItems
  BY <1>1
<1>3. t \in Seq(WireItems) /\ Len(t) = m + 1 /\ t[m + 1] = x /\ \A i \in 1 .. m : t[i] = s[i]
  BY <1>1, <1>2
<1> HIDE DEF t, m
<1>4. ASSUME NEW i \in 1 .. m + 1 PROVE t[i] = d[i + 1]
  BY <1>1, <1>3
<1>5. m + 1 \in Nat /\ n - 1 \in Nat /\ d[1] = (m + 1) + (n - 1) /\ o + 1 = (m + 1) + 1
  BY <1>1
<1> HIDE DEF x
<1>6. VectorRead(d, o + 1, n - 1, t)
  BY <1>1, <1>3, <1>4, <1>5 DEF VectorRead
<1> QED BY <1>6 DEF t, x

\* One more element of an array.
LEMMA ArrayStep ==
  ASSUME Wire!SerializationAssumption, NEW d, NEW o, NEW n, NEW s, ArrayRead(d, o, n, s), n # 0, o + 1 <= Len(d)
  PROVE  ArrayRead(d, o + 1, n - 1, Append(s, d[o + 1]))
<1> DEFINE m == Len(s)
           x == d[o + 1]
           t == Append(s, x)
<1>1. /\ d \in Seq(WireItems) /\ Len(d) \in Nat /\ s \in Seq(WireItems) /\ m \in Nat /\ n \in Nat
      /\ o = m /\ ArrayLen = m + n /\ \A i \in 1 .. m : s[i] = d[i]
  BY DEF ArrayRead
<1>2. o + 1 \in 1 .. Len(d) /\ x \in WireItems
  BY <1>1
<1>3. t \in Seq(WireItems) /\ Len(t) = m + 1 /\ t[m + 1] = x /\ \A i \in 1 .. m : t[i] = s[i]
  BY <1>1, <1>2
<1> HIDE DEF t, m
<1>4. ASSUME NEW i \in 1 .. m + 1 PROVE t[i] = d[i]
  BY <1>1, <1>3
<1>5. m + 1 \in Nat /\ n - 1 \in Nat /\ ArrayLen = (m + 1) + (n - 1) /\ o + 1 = m + 1
  BY <1>1 DEF Wire!SerializationAssumption
<1> HIDE DEF x
<1>6. ArrayRead(d, o + 1, n - 1, t)
  BY <1>1, <1>3, <1>4, <1>5 DEF ArrayRead
<1> QED BY <1>6 DEF t, x

\* A vector read to its end, or a text that is legible, is written with the
\* bytes taken.
LEMMA VectorDone ==
  ASSUME Wire!SerializationAssumption, NEW shape \in {"vector", "text"}, NEW d, NEW o, NEW s,
         VectorRead(d, o, 0, s), shape = "text" => s \in Legible
  PROVE  Done(shape, d, o, s)
<1> DEFINE m == Len(s)
           b == <<m>> \o s
           t == SubSeq(d, 1, o)
<1>1. /\ d \in Seq(WireItems) /\ Len(d) \in Nat /\ s \in Seq(WireItems) /\ m \in Nat
      /\ o = m + 1 /\ o <= Len(d) /\ Len(d) <= MaxWire /\ d[1] = m + 0
      /\ \A i \in 1 .. m : s[i] = d[i + 1]
  BY DEF VectorRead
<1>2. WireItems \subseteq Nat /\ MaxWire \in Nat
  BY DEF Wire!SerializationAssumption
<1>3. d \in Seq(Nat) /\ s \in Seq(Nat)
  BY <1>1, <1>2, NumberSeq
<1>4. b \in Seq(Nat) /\ Len(b) = 1 + m /\ b[1] = m /\ \A i \in 1 .. m : b[i + 1] = s[i]
  BY <1>1, <1>3, InFront
<1>5. t \in Seq(Nat) /\ Len(t) = o /\ \A i \in 1 .. o : t[i] = d[i]
  BY <1>1, <1>3
<1>6. s \in Wire!SeqOf(WireItems, MaxWire)
  <2>1. m \in 0 .. MaxWire /\ s \in [1 .. m -> WireItems]
    BY <1>1, <1>2
  <2> QED BY <2>1 DEF Wire!SeqOf
<1> HIDE DEF m, b, t
<1>7. ASSUME NEW i \in 1 .. o PROVE t[i] = b[i]
  <2>1. CASE i = 1
    BY <1>1, <1>4, <1>5, <2>1
  <2>2. CASE i # 1
    <3>1. i - 1 \in 1 .. m /\ (i - 1) + 1 = i
      BY <1>1, <2>2
    <3> QED BY <1>1, <1>4, <1>5, <3>1
  <2> QED BY <2>1, <2>2
<1>8. t = b
  <2>1. Len(t) = Len(b)
    BY <1>1, <1>4, <1>5
  <2> QED BY <1>4, <1>5, <1>7, <2>1, SameNumbers
<1>9. t \in Wire!serial(shape, s)
  BY <1>8, SerialOf DEF b, m
<1>10. s \in Wire!Values(shape)
  BY <1>6, ValuesOf
<1> QED BY <1>9, <1>10 DEF Done, t

\* An array read to its end is written with the bytes taken.
LEMMA ArrayDone ==
  ASSUME Wire!SerializationAssumption, NEW d, NEW o, NEW s, ArrayRead(d, o, 0, s)
  PROVE  Done("array", d, o, s)
<1> DEFINE m == Len(s)
           t == SubSeq(d, 1, o)
<1>1. /\ d \in Seq(WireItems) /\ Len(d) \in Nat /\ s \in Seq(WireItems) /\ m \in Nat
      /\ o = m /\ o <= Len(d) /\ ArrayLen = m + 0
      /\ \A i \in 1 .. m : s[i] = d[i]
  BY DEF ArrayRead
<1>2. WireItems \subseteq Nat
  BY DEF Wire!SerializationAssumption
<1>3. d \in Seq(Nat) /\ s \in Seq(Nat)
  BY <1>1, <1>2, NumberSeq
<1>5. t \in Seq(Nat) /\ Len(t) = o /\ \A i \in 1 .. o : t[i] = d[i]
  BY <1>1, <1>3
<1>6. s \in [1 .. ArrayLen -> WireItems]
  BY <1>1
<1>8. t = s
  <2> HIDE DEF m, t
  <2>1. Len(t) = Len(s) /\ \A i \in 1 .. Len(t) : t[i] = s[i]
    BY <1>1, <1>5 DEF m
  <2> QED BY <1>3, <1>5, <2>1, SameNumbers
<1> HIDE DEF t
<1>9. t \in Wire!serial("array", s)
  BY <1>8, SerialOf
<1>10. s \in Wire!Values("array")
  BY <1>6, ValuesOf
<1> QED BY <1>9, <1>10 DEF Done, t

\* The values of a vector or a text, as they are written.
LEMMA VectorBytes ==
  ASSUME Wire!SerializationAssumption, NEW shape \in {"vector", "text"},
         NEW v \in Wire!Values(shape), NEW bytes \in Wire!serial(shape, v)
  PROVE  /\ Len(v) \in Nat /\ Len(bytes) = 1 + Len(v) /\ bytes[1] = Len(v)
         /\ DOMAIN bytes = 1 .. 1 + Len(v)
         /\ v \in Seq(Nat) /\ \A i \in 1 .. Len(v) : bytes[i + 1] = v[i]
<1>1. PICK m \in 0 .. MaxWire : v \in [1 .. m -> WireItems]
  BY ValuesOf DEF Wire!SeqOf
<1>2. m \in Nat /\ v \in Seq(WireItems) /\ Len(v) = m /\ WireItems \subseteq Nat
  BY <1>1 DEF Wire!SerializationAssumption
<1>3. v \in Seq(Nat)
  BY <1>2, NumberSeq
<1>4. bytes = <<m>> \o v
  BY <1>2, SerialOf
<1>5. bytes \in Seq(Nat) /\ Len(bytes) = 1 + m /\ bytes[1] = m /\ \A i \in 1 .. m : bytes[i + 1] = v[i]
  BY <1>2, <1>3, <1>4, InFront
<1> QED BY <1>2, <1>3, <1>5

\* No vector is written with bytes that end too early.
LEMMA VectorRefused ==
  ASSUME Wire!SerializationAssumption, NEW shape \in {"vector", "text"}, NEW d, NEW o, NEW n, NEW s,
         VectorRead(d, o, n, s), n # 0, ~(o + 1 <= Len(d))
  PROVE  Refuses(shape, d)
<1> SUFFICES ASSUME NEW v \in Wire!Values(shape), NEW bytes \in Wire!serial(shape, v), Wire!IsPrefix(bytes, d)
             PROVE  FALSE
  BY DEF Refuses
<1>1. /\ Len(d) \in Nat /\ Len(s) \in Nat /\ n \in Nat
      /\ o = Len(s) + 1 /\ d[1] = Len(s) + n
  BY DEF VectorRead
<1>2. Len(v) \in Nat /\ Len(bytes) = 1 + Len(v) /\ bytes[1] = Len(v) /\ DOMAIN bytes = 1 .. 1 + Len(v)
  BY VectorBytes
<1> DEFINE a == Len(v)
           e == Len(d)
           m == Len(s)
<1>3. 1 + a <= e /\ \A i \in 1 .. 1 + a : bytes[i] = d[i]
  BY <1>2 DEF Wire!IsPrefix
<1> HIDE DEF a, e, m
<1>4. a = m + n
  BY <1>1, <1>2, <1>3 DEF a, m
<1> QED BY <1>1, <1>2, <1>3, <1>4 DEF a, e, m

\* No text is written with bytes that are not legible.
LEMMA TextRefused ==
  ASSUME Wire!SerializationAssumption, NEW d, NEW o, NEW s, VectorRead(d, o, 0, s), s \notin Legible
  PROVE  Refuses("text", d)
<1> SUFFICES ASSUME NEW v \in Wire!Values("text"), NEW bytes \in Wire!serial("text", v), Wire!IsPrefix(bytes, d)
             PROVE  FALSE
  BY DEF Refuses
<1>1. /\ Len(s) \in Nat /\ s \in Seq(WireItems) /\ d[1] = Len(s) + 0
      /\ \A i \in 1 .. Len(s) : s[i] = d[i + 1]
  BY DEF VectorRead
<1>2. /\ Len(v) \in Nat /\ Len(bytes) = 1 + Len(v) /\ bytes[1] = Len(v) /\ DOMAIN bytes = 1 .. 1 + Len(v)
      /\ v \in Seq(Nat) /\ \A i \in 1 .. Len(v) : bytes[i + 1] = v[i]
  BY VectorBytes
<1> DEFINE a == Len(v)
           m == Len(s)
<1>3. \A i \in 1 .. 1 + a : bytes[i] = d[i]
  BY <1>2 DEF Wire!IsPrefix
<1> HIDE DEF a, m
<1>4. a = m /\ \A i \in 1 .. m : v[i] = s[i]
  <2>1. a \in Nat /\ m \in Nat /\ bytes[1] = a /\ d[1] = m
    BY <1>1, <1>2 DEF a, m
  <2>2. a = m
    BY <1>3, <2>1
  <2>3. ASSUME NEW i \in 1 .. m PROVE v[i] = s[i]
    <3>1. bytes[i + 1] = d[i + 1]
      BY <1>3, <2>1, <2>2, <2>3
    <3>2. bytes[i + 1] = v[i]
      BY <1>2, <2>2, <2>3 DEF a
    <3>3. s[i] = d[i + 1]
      BY <1>1, <2>3 DEF m
    <3> QED BY <3>1, <3>2, <3>3
  <2> QED BY <2>2, <2>3
<1>5. s \in Seq(Nat)
  BY <1>1, NumberSeq DEF Wire!SerializationAssumption
<1>6. v = s
  <2>1. Len(v) = Len(s) /\ \A i \in 1 .. Len(v) : v[i] = s[i]
    BY <1>4 DEF a, m
  <2> QED BY <1>2, <1>5, <2>1, SameNumbers
<1> QED BY <1>6, ValuesOf

\* No array is written with bytes that end too early.
LEMMA ArrayRefused ==
  ASSUME Wire!SerializationAssumption, NEW d, NEW o, NEW n, NEW s, ArrayRead(d, o, n, s), n # 0, ~(o + 1 <= Len(d))
  PROVE  Refuses("array", d)
<1> SUFFICES ASSUME NEW v \in Wire!Values("array"), NEW bytes \in Wire!serial("array", v), Wire!IsPrefix(bytes, d)
             PROVE  FALSE
  BY DEF Refuses
<1>1. /\ Len(d) \in Nat /\ Len(s) \in Nat /\ n \in Nat
      /\ o = Len(s) /\ ArrayLen = Len(s) + n
  BY DEF ArrayRead
<1>2. bytes \in [1 .. ArrayLen -> WireItems] /\ ArrayLen \in Nat
  <2>1. bytes = v /\ v \in [1 .. ArrayLen -> WireItems]
    BY SerialOf, ValuesOf
  <2> QED BY <2>1 DEF Wire!SerializationAssumption
<1>3. Len(bytes) = ArrayLen
  BY <1>2
<1>4. Len(bytes) <= Len(d)
  BY DEF Wire!IsPrefix
<1> QED BY <1>1, <1>2, <1>3, <1>4

\* Nothing but an array or a sum is written without a byte.
LEMMA NoLengthRefused ==
  ASSUME Wire!SerializationAssumption, NEW t \in Wire!Types, t \notin Wire!Sums, t # "array", NEW d \in Seq(WireItems), ~(0 + 1 <= Len(d))
  PROVE  Refuses(t, d)
<1> SUFFICES ASSUME NEW v \in Wire!Values(t), NEW bytes \in Wire!serial(t, v), Wire!IsPrefix(bytes, d) PROVE FALSE
  BY DEF Refuses
<1>1. Len(bytes) \in Nat /\ Len(bytes) >= 1
  <2>1. CASE t \in {"vector", "text"}
    BY <2>1, VectorBytes
  <2>2. CASE t \in Wire!Maps
    <3>1. PICK ks : Written(2, DOMAIN v, bytes, ks)
      BY <2>2, MapBytes
    <3>2. Len(bytes) = 1 + 2 * Wire!Cardinality(DOMAIN v) /\ Wire!Cardinality(DOMAIN v) \in Nat
      BY <3>1 DEF Written
    <3> QED BY <3>2
  <2>3. CASE t \in Wire!Sets
    <3>1. PICK ks : Written(1, v, bytes, ks)
      BY <2>3, SetBytes
    <3>2. Len(bytes) = 1 + 1 * Wire!Cardinality(v) /\ Wire!Cardinality(v) \in Nat
      BY <3>1 DEF Written
    <3> QED BY <3>2
  <2> QED BY <2>1, <2>2, <2>3 DEF Wire!Types, Wire!Vectors
<1>2. Len(bytes) <= Len(d) /\ Len(d) \in Nat
  BY DEF Wire!IsPrefix
<1> QED BY <1>1, <1>2

\* One more pair of a map.
LEMMA MapStep ==
  ASSUME Wire!SerializationAssumption, NEW t \in Wire!Maps, NEW d, NEW o, NEW n, NEW p, NEW f,
         MapRead(Checks(t), d, o, n, p, f), n # 0, o + 2 <= Len(d),
         Checks(t) => (p # <<>> => d[o + 1] > p[1]), ~Checks(t) => d[o + 1] \notin DOMAIN f,
         NEW g, g = [k \in DOMAIN f \cup {d[o + 1]} |-> IF k = d[o + 1] THEN d[o + 2] ELSE f[k]]
  PROVE  MapRead(Checks(t), d, o + 2, n - 1, <<d[o + 1]>>, g)
<1>1. PICK ks : /\ Collected(2, Checks(t), d, o, n, p, ks) /\ f \in [Wire!ToSet(ks) -> WireItems]
                /\ \A i \in 1 .. Len(ks) : f[ks[i]] = d[2 * i + 1]
  BY DEF MapRead
<1> DEFINE m == Len(ks)
           x == d[o + 1]
           r == Append(ks, x)
<1>2. DOMAIN f = Wire!ToSet(ks) /\ Checks(t) \in BOOLEAN /\ 2 \in {1, 2}
  BY <1>1 DEF Checks
<1>3. Collected(2, Checks(t), d, o + 2, n - 1, <<x>>, r) /\ Wire!ToSet(r) = Wire!ToSet(ks) \cup {x}
  <2>1. MayTake(2, Checks(t), d, o, p, ks)
    BY <1>2 DEF MayTake
  <2>2. Takes(2, Checks(t), d, o, n, ks)
    BY <1>1, <1>2, <2>1, KeyAdded
  <2> QED BY <2>2 DEF Takes
<1>4. /\ m \in Nat /\ ks \in Seq(WireItems) /\ d \in Seq(WireItems) /\ Len(d) \in Nat
      /\ o = 2 * m + 1 /\ Distinct(ks) /\ (Checks(t) => Ascends(ks))
      /\ p = IF m = 0 THEN <<>> ELSE <<ks[m]>>
  BY <1>1 DEF Collected
<1>5. o + 1 \in 1 .. Len(d) /\ o + 2 \in 1 .. Len(d)
  BY <1>4
<1>6. x \in WireItems /\ d[o + 2] \in WireItems
  BY <1>4, <1>5
<1>7. /\ r \in Seq(WireItems) /\ Len(r) = m + 1 /\ r[m + 1] = x /\ \A i \in 1 .. m : r[i] = ks[i]
  BY <1>4, <1>6
<1>8. Distinct(r)
  BY <1>3 DEF Collected
<1> HIDE DEF m, x, r
<1>9. g \in [Wire!ToSet(r) -> WireItems] /\ g[x] = d[o + 2] /\ \A k \in Wire!ToSet(ks) : k # x => g[k] = f[k]
  <2>1. g = [k \in Wire!ToSet(r) |-> IF k = x THEN d[o + 2] ELSE f[k]]
    BY <1>2, <1>3 DEF x
  <2> QED BY <1>1, <1>3, <1>6, <2>1
<1>10. ASSUME NEW i \in 1 .. m + 1 PROVE g[r[i]] = d[2 * i + 1]
  <2>1. CASE i = m + 1
    <3>1. 2 * i + 1 = o + 2
      BY <1>4, <2>1
    <3> QED BY <1>7, <1>9, <2>1, <3>1
  <2>2. CASE i # m + 1
    <3>1. i \in 1 .. m
      BY <1>4, <2>2
    <3>2. r[i] = ks[i] /\ ks[i] # x
      <4>1. i \in 1 .. Len(r) /\ m + 1 \in 1 .. Len(r) /\ i < m + 1
        BY <1>4, <1>7, <3>1
      <4>2. r[i] # r[m + 1]
        BY <1>8, <4>1 DEF Distinct
      <4> QED BY <1>7, <3>1, <4>2
    <3>3. ks[i] \in Wire!ToSet(ks)
      <4>1. DOMAIN ks = 1 .. m
        BY <1>4 DEF m
      <4> QED BY <3>1, <4>1 DEF Wire!ToSet
    <3>4. f[ks[i]] = d[2 * i + 1]
      BY <1>1, <3>1 DEF m
    <3> QED BY <1>9, <3>2, <3>3, <3>4
  <2> QED BY <2>1, <2>2
<1>11. Collected(2, Checks(t), d, o + 2, n - 1, <<d[o + 1]>>, r)
  BY <1>3 DEF x
<1>12. \A i \in 1 .. Len(r) : g[r[i]] = d[2 * i + 1]
  BY <1>7, <1>10
<1> QED BY <1>9, <1>11, <1>12 DEF MapRead

\* One more element of a set.
LEMMA SetStep ==
  ASSUME Wire!SerializationAssumption, NEW t \in Wire!Sets, NEW d, NEW o, NEW n, NEW p, NEW s,
         SetRead(Checks(t), d, o, n, p, s), n # 0, o + 1 <= Len(d),
         Checks(t) => (p # <<>> => d[o + 1] > p[1]), ~Checks(t) => d[o + 1] \notin s
  PROVE  SetRead(Checks(t), d, o + 1, n - 1, <<d[o + 1]>>, s \cup {d[o + 1]})
<1>1. PICK ks : Collected(1, Checks(t), d, o, n, p, ks) /\ s = Wire!ToSet(ks)
  BY DEF SetRead
<1>2. Checks(t) \in BOOLEAN /\ 1 \in {1, 2}
  BY DEF Checks
<1>3. MayTake(1, Checks(t), d, o, p, ks)
  BY <1>1 DEF MayTake
<1>4. Takes(1, Checks(t), d, o, n, ks)
  BY <1>1, <1>2, <1>3, KeyAdded
<1>5. /\ Collected(1, Checks(t), d, o + 1, n - 1, <<d[o + 1]>>, Append(ks, d[o + 1]))
      /\ Wire!ToSet(Append(ks, d[o + 1])) = s \cup {d[o + 1]}
  BY <1>1, <1>4 DEF Takes
<1> QED BY <1>5 DEF SetRead

\* The first items of a source.
LEMMA FirstItems ==
  ASSUME Wire!SerializationAssumption, NEW d \in Seq(WireItems)
  PROVE  /\ Len(d) \in Nat
         /\ 1 <= Len(d) => d[1] \in WireItems /\ d[1] \in Nat /\ SubSeq(d, 1, 1) = <<d[1]>>
         /\ 2 <= Len(d) => d[2] \in WireItems /\ SubSeq(d, 1, 2) = <<d[1], d[2]>>
         /\ 3 <= Len(d) => d[3] \in WireItems /\ SubSeq(d, 1, 3) = <<d[1], d[2], d[3]>>
<1>1. Len(d) \in Nat /\ \A i \in 1 .. Len(d) : d[i] \in WireItems
  OBVIOUS
<1>2. \A x \in WireItems : x \in Nat
  BY DEF Wire!SerializationAssumption
<1>3. d \in Seq(Nat)
  <2>1. WireItems \subseteq Nat
    BY <1>2
  <2> QED BY <2>1, NumberSeq
<1> DEFINE z == Len(d)
<1> HIDE DEF z
<1>4. z \in Nat /\ z = Len(d) /\ \A i \in 1 .. z : d[i] \in WireItems
  BY <1>1 DEF z
<1>5. ASSUME 1 <= z PROVE d[1] \in WireItems /\ d[1] \in Nat /\ SubSeq(d, 1, 1) = <<d[1]>>
  <2> DEFINE u == <<d[1]>>
  <2>1. d[1] \in WireItems /\ d[1] \in Nat
    BY <1>2, <1>4, <1>5
  <2>2. u \in Seq(Nat) /\ Len(u) = 1 /\ u[1] = d[1]
    BY <2>1
  <2> HIDE DEF u
  <2>3. \A i \in 1 .. Len(u) : u[i] = d[i]
    BY <2>2
  <2>4. SubSeq(d, 1, Len(u)) = u
    BY <1>3, <1>4, <1>5, <2>2, <2>3, Begins
  <2> QED BY <2>1, <2>2, <2>4 DEF u
<1>6. ASSUME 2 <= z PROVE d[2] \in WireItems /\ SubSeq(d, 1, 2) = <<d[1], d[2]>>
  <2> DEFINE u == <<d[1], d[2]>>
  <2>1. d[1] \in Nat /\ d[2] \in WireItems /\ d[2] \in Nat
    BY <1>2, <1>4, <1>6
  <2>2. u \in Seq(Nat) /\ Len(u) = 2 /\ u[1] = d[1] /\ u[2] = d[2]
    BY <2>1
  <2> HIDE DEF u
  <2>3. \A i \in 1 .. Len(u) : u[i] = d[i]
    <3>1. \A i \in 1 .. 2 : i = 1 \/ i = 2
      OBVIOUS
    <3> QED BY <2>2, <3>1
  <2>4. SubSeq(d, 1, Len(u)) = u
    BY <1>3, <1>4, <1>6, <2>2, <2>3, Begins
  <2> QED BY <2>1, <2>2, <2>4 DEF u
<1>7. ASSUME 3 <= z PROVE d[3] \in WireItems /\ SubSeq(d, 1, 3) = <<d[1], d[2], d[3]>>
  <2> DEFINE u == <<d[1], d[2], d[3]>>
  <2>1. d[1] \in Nat /\ d[2] \in Nat /\ d[3] \in WireItems /\ d[3] \in Nat
    BY <1>2, <1>4, <1>7
  <2>2. u \in Seq(Nat) /\ Len(u) = 3 /\ u[1] = d[1] /\ u[2] = d[2] /\ u[3] = d[3]
    BY <2>1
  <2> HIDE DEF u
  <2>3. \A i \in 1 .. Len(u) : u[i] = d[i]
    <3>1. \A i \in 1 .. 3 : i = 1 \/ i = 2 \/ i = 3
      OBVIOUS
    <3> QED BY <2>2, <3>1
  <2>4. SubSeq(d, 1, Len(u)) = u
    BY <1>3, <1>4, <1>7, <2>2, <2>3, Begins
  <2> QED BY <2>1, <2>2, <2>4 DEF u
<1> QED BY <1>4, <1>5, <1>6, <1>7

\* The bytes of the types that have no loop.
LEMMA ShortBytes ==
  /\ Wire!serial_bool(TRUE) = <<1>> /\ Wire!serial_bool(FALSE) = <<0>>
  /\ Wire!serial_option(<<>>) = <<0>>
  /\ \A x \in Nat : Wire!serial_option(<<x>>) = <<1, x>> /\ Wire!serial_address(<<x>>) = <<0, x>>
  /\ \A x, y \in Nat : Wire!serial_address(<<x, y>>) = <<1, x, y>>
<1>1. Wire!serial_option(<<>>) = <<0>>
  <2>1. Len(<< >>) = 0 /\ <<0>> \o << >> = <<0>>
    OBVIOUS
  <2> QED BY <2>1 DEF Wire!serial_option
<1>2. ASSUME NEW x \in Nat PROVE Wire!serial_option(<<x>>) = <<1, x>> /\ Wire!serial_address(<<x>>) = <<0, x>>
  <2>1. Len(<<x>>) = 1 /\ Len(<<x>>) - 1 = 0
    OBVIOUS
  <2>2. <<1>> \o <<x>> = <<1, x>> /\ <<0>> \o <<x>> = <<0, x>>
    BY OneAndOne
  <2> QED BY <2>1, <2>2 DEF Wire!serial_option, Wire!serial_address
<1>3. ASSUME NEW x \in Nat, NEW y \in Nat PROVE Wire!serial_address(<<x, y>>) = <<1, x, y>>
  <2>1. Len(<<x, y>>) - 1 = 1
    OBVIOUS
  <2>2. <<1>> \o <<x, y>> = <<1, x, y>>
    BY OneAndTwo
  <2> QED BY <2>1, <2>2 DEF Wire!serial_address
<1>4. Wire!serial_bool(TRUE) = <<1>> /\ Wire!serial_bool(FALSE) = <<0>>
  BY DEF Wire!serial_bool
<1> QED BY <1>1, <1>2, <1>3, <1>4

\* A bool that was read is written with the byte taken.
LEMMA BoolDone ==
  ASSUME Wire!SerializationAssumption, NEW d \in Seq(WireItems), 1 <= Len(d), d[1] \in {0, 1}
  PROVE  Done("bool", d, 1, d[1] = 1)
<1>1. SubSeq(d, 1, 1) = <<d[1]>>
  BY FirstItems
<1>2. Wire!serial("bool", d[1] = 1) = {<<d[1]>>}
  BY SerialOf DEF Wire!serial_bool
<1>3. (d[1] = 1) \in Wire!Values("bool")
  BY ValuesOf
<1> QED BY <1>1, <1>2, <1>3 DEF Done

\* No bool is written with another byte.
LEMMA BoolRefused ==
  ASSUME Wire!SerializationAssumption, NEW d \in Seq(WireItems), ~(1 <= Len(d) /\ d[1] \in {0, 1})
  PROVE  Refuses("bool", d)
<1> SUFFICES ASSUME NEW v \in Wire!Values("bool"), NEW bytes \in Wire!serial("bool", v), Wire!IsPrefix(bytes, d)
             PROVE  FALSE
  BY DEF Refuses
<1>1. bytes = <<0>> \/ bytes = <<1>>
  <2>1. v = TRUE \/ v = FALSE
    BY ValuesOf
  <2>2. Wire!serial("bool", v) = {Wire!serial_bool(v)}
    BY SerialOf
  <2>3. Wire!serial_bool(v) = <<0>> \/ Wire!serial_bool(v) = <<1>>
    BY <2>1 DEF Wire!serial_bool
  <2> QED BY <2>2, <2>3
<1> QED BY <1>1 DEF Wire!IsPrefix

\* An option that was read is written with the bytes taken.
LEMMA OptionDone ==
  ASSUME Wire!SerializationAssumption, NEW d \in Seq(WireItems), 1 <= Len(d)
  PROVE  /\ d[1] = 0 => Done("option", d, 1, <<>>)
         /\ d[1] = 1 /\ 2 <= Len(d) => Done("option", d, 2, <<d[2]>>)
<1>1. ASSUME d[1] = 0 PROVE Done("option", d, 1, <<>>)
  <2>1. SubSeq(d, 1, 1) = <<0>>
    BY <1>1, FirstItems
  <2>2. Wire!serial("option", <<>>) = {<<0>>}
    BY ShortBytes, SerialOf
  <2>3. <<>> \in Wire!Values("option")
    BY ValuesOf
  <2> QED BY <2>1, <2>2, <2>3 DEF Done
<1>2. ASSUME d[1] = 1, 2 <= Len(d) PROVE Done("option", d, 2, <<d[2]>>)
  <2>1. SubSeq(d, 1, 2) = <<1, d[2]>> /\ d[2] \in WireItems
    BY <1>2, FirstItems
  <2>2. Wire!serial("option", <<d[2]>>) = {<<1, d[2]>>}
    <3>1. WireItems \subseteq Nat
      BY DEF Wire!SerializationAssumption
    <3>2. Wire!serial_option(<<d[2]>>) = <<1, d[2]>>
      BY <2>1, <3>1, ShortBytes
    <3>3. Wire!serial("option", <<d[2]>>) = {Wire!serial_option(<<d[2]>>)}
      BY SerialOf
    <3> QED BY <2>1, <3>2, <3>3
  <2>3. <<d[2]>> \in Wire!Values("option")
    BY <2>1, ValuesOf
  <2> QED BY <2>1, <2>2, <2>3 DEF Done
<1> QED BY <1>1, <1>2

\* No option is written with bytes that are refused.
LEMMA OptionRefused ==
  ASSUME Wire!SerializationAssumption, NEW d \in Seq(WireItems),
         ~(1 <= Len(d)) \/ d[1] > 1 \/ (d[1] = 1 /\ ~(2 <= Len(d)))
  PROVE  Refuses("option", d)
<1> SUFFICES ASSUME NEW v \in Wire!Values("option"), NEW bytes \in Wire!serial("option", v), Wire!IsPrefix(bytes, d)
             PROVE  FALSE
  BY DEF Refuses
<1>1. CASE v = <<>>
  <2>1. bytes = <<0>>
    BY <1>1, ShortBytes, SerialOf
  <2> QED BY <2>1 DEF Wire!IsPrefix
<1>2. CASE v # <<>>
  <2>1. PICK x \in WireItems : v = <<x>>
    BY <1>2, ValuesOf
  <2>2. bytes = <<1, x>>
    <3>1. WireItems \subseteq Nat
      BY DEF Wire!SerializationAssumption
    <3>2. Wire!serial_option(<<x>>) = <<1, x>>
      BY <2>1, <3>1, ShortBytes
    <3>3. Wire!serial("option", <<x>>) = {Wire!serial_option(<<x>>)}
      BY SerialOf
    <3> QED BY <2>1, <3>2, <3>3
  <2> QED BY <2>2 DEF Wire!IsPrefix
<1> QED BY <1>1, <1>2

\* An address that was read is written with the bytes taken.
LEMMA AddressDone ==
  ASSUME Wire!SerializationAssumption, NEW d \in Seq(WireItems)
  PROVE  /\ 2 <= Len(d) /\ d[1] = 0 => Done("address", d, 2, <<d[2]>>)
         /\ 3 <= Len(d) /\ d[1] = 1 => Done("address", d, 3, <<d[2], d[3]>>)
<1>1. ASSUME d[1] = 0, 2 <= Len(d) PROVE Done("address", d, 2, <<d[2]>>)
  <2>1. SubSeq(d, 1, 2) = <<0, d[2]>> /\ d[2] \in WireItems
    BY <1>1, FirstItems
  <2>2. Wire!serial("address", <<d[2]>>) = {<<0, d[2]>>}
    <3>1. WireItems \subseteq Nat
      BY DEF Wire!SerializationAssumption
    <3>2. Wire!serial_address(<<d[2]>>) = <<0, d[2]>>
      BY <2>1, <3>1, ShortBytes
    <3>3. Wire!serial("address", <<d[2]>>) = {Wire!serial_address(<<d[2]>>)}
      BY SerialOf
    <3> QED BY <2>1, <3>2, <3>3
  <2>3. <<d[2]>> \in Wire!Values("address")
    BY <2>1, ValuesOf
  <2> QED BY <2>1, <2>2, <2>3 DEF Done
<1>2. ASSUME d[1] = 1, 3 <= Len(d) PROVE Done("address", d, 3, <<d[2], d[3]>>)
  <2>0. Len(d) \in Nat /\ 2 <= Len(d)
    BY <1>2, FirstItems
  <2>1. SubSeq(d, 1, 3) = <<1, d[2], d[3]>> /\ d[2] \in WireItems /\ d[3] \in WireItems
    BY <1>2, <2>0, FirstItems
  <2>2. Wire!serial("address", <<d[2], d[3]>>) = {<<1, d[2], d[3]>>}
    <3>1. WireItems \subseteq Nat
      BY DEF Wire!SerializationAssumption
    <3>2. Wire!serial_address(<<d[2], d[3]>>) = <<1, d[2], d[3]>>
      BY <2>1, <3>1, ShortBytes
    <3>3. Wire!serial("address", <<d[2], d[3]>>) = {Wire!serial_address(<<d[2], d[3]>>)}
      BY SerialOf
    <3> QED BY <2>1, <3>2, <3>3
  <2>3. <<d[2], d[3]>> \in Wire!Values("address")
    BY <2>1, ValuesOf
  <2> QED BY <2>1, <2>2, <2>3 DEF Done
<1> QED BY <1>1, <1>2

\* No address is written with bytes that are refused.
LEMMA AddressRefused ==
  ASSUME Wire!SerializationAssumption, NEW d \in Seq(WireItems),
         ~(1 <= Len(d)) \/ d[1] > 1 \/ ~(2 + d[1] <= Len(d))
  PROVE  Refuses("address", d)
<1> SUFFICES ASSUME NEW v \in Wire!Values("address"), NEW bytes \in Wire!serial("address", v), Wire!IsPrefix(bytes, d)
             PROVE  FALSE
  BY DEF Refuses
<1>1. CASE \E x \in WireItems : v = <<x>>
  <2>1. PICK x \in WireItems : v = <<x>>
    BY <1>1
  <2>2. bytes = <<0, x>>
    <3>1. WireItems \subseteq Nat
      BY DEF Wire!SerializationAssumption
    <3>2. Wire!serial_address(<<x>>) = <<0, x>>
      BY <2>1, <3>1, ShortBytes
    <3>3. Wire!serial("address", <<x>>) = {Wire!serial_address(<<x>>)}
      BY SerialOf
    <3> QED BY <2>1, <3>2, <3>3
  <2> QED BY <2>2 DEF Wire!IsPrefix
<1>2. CASE ~ \E x \in WireItems : v = <<x>>
  <2>1. PICK x \in WireItems, y \in WireItems : v = <<x, y>>
    BY <1>2, ValuesOf
  <2>2. bytes = <<1, x, y>>
    <3>1. WireItems \subseteq Nat
      BY DEF Wire!SerializationAssumption
    <3>2. Wire!serial_address(<<x, y>>) = <<1, x, y>>
      BY <2>1, <3>1, ShortBytes
    <3>3. Wire!serial("address", <<x, y>>) = {Wire!serial_address(<<x, y>>)}
      BY SerialOf
    <3> QED BY <2>1, <3>2, <3>3
  <2> QED BY <2>2 DEF Wire!IsPrefix
<1> QED BY <1>1, <1>2

-----------------------------------------------------------------------------
\* What the loop of each type has done, with n elements still to be read.
Going(t, d, o, n, p, s) ==
  /\ t \in {"vector", "text"} => VectorRead(d, o, n, s)
  /\ t = "array" => ArrayRead(d, o, n, s)
  /\ t \in Wire!Maps => MapRead(Checks(t), d, o, n, p, s)
  /\ t \in Wire!Sets => SetRead(Checks(t), d, o, n, p, s)

Reading(t, d, o, l, s, p) ==
  \/ l = <<>> /\ o = 0 /\ p = <<>> /\ t # "array" /\ s = IF t \in Wire!Sets THEN {} ELSE <<>>
  \/ \E n \in Nat : l = <<n>> /\ t \notin Wire!Sums /\ Going(t, d, o, n, p, s)

\* After the length, nothing has been read of the elements.
LEMMA GoingStarts ==
  ASSUME Wire!SerializationAssumption, NEW t \in Wire!Types, t \notin Wire!Sums, t # "array", NEW d \in Seq(WireItems),
         Len(d) <= MaxWire, 1 <= Len(d)
  PROVE  d[1] \in Nat /\ Going(t, d, 1, d[1], <<>>, IF t \in Wire!Sets THEN {} ELSE <<>>)
<1> DEFINE e == << >>
<1>1. d[1] \in Nat /\ Len(d) \in Nat
  BY FirstItems
<1>2. e \in Seq(WireItems) /\ Len(e) = 0 /\ Wire!ToSet(e) = {} /\ e \in [{} -> WireItems]
  BY DEF Wire!ToSet
<1>3. d # <<>>
  BY <1>1
<1>4. ASSUME NEW w \in {1, 2}, NEW b \in BOOLEAN PROVE Collected(w, b, d, 1, d[1], <<>>, e)
  <2>1. 1 = w * 0 + 1
    BY <1>4
  <2>2. KeysAt(w, d, e) /\ Distinct(e) /\ Ascends(e)
    BY <1>2 DEF KeysAt, Distinct, Ascends
  <2> QED BY <1>1, <1>2, <1>3, <2>1, <2>2 DEF Collected
<1>5. Checks(t) \in BOOLEAN
  BY DEF Checks
<1>6. VectorRead(d, 1, d[1], e)
  BY <1>1, <1>2 DEF VectorRead
<1>7. MapRead(Checks(t), d, 1, d[1], <<>>, e)
  <2>1. Collected(2, Checks(t), d, 1, d[1], <<>>, e)
    BY <1>4, <1>5
  <2> QED BY <1>2, <2>1 DEF MapRead
<1>8. SetRead(Checks(t), d, 1, d[1], <<>>, {})
  <2>1. Collected(1, Checks(t), d, 1, d[1], <<>>, e)
    BY <1>4, <1>5
  <2> QED BY <1>2, <2>1 DEF SetRead
<1> QED BY <1>1, <1>6, <1>7, <1>8, TypesDiffer DEF Going

\* A loop that has no round left has read its value.
LEMMA GoingEnds ==
  ASSUME Wire!SerializationAssumption, NEW t \in Wire!Types, t \notin Wire!Sums, NEW d, NEW o, NEW p, NEW s,
         Going(t, d, o, 0, p, s), t = "text" => s \in Legible
  PROVE  Done(t, d, o, s)
<1>1. CASE t \in {"vector", "text"}
  BY <1>1, VectorDone DEF Going
<1>2. CASE t = "array"
  BY <1>2, ArrayDone DEF Going
<1>3. CASE t \in Wire!Maps
  BY <1>3, MapDone DEF Going
<1>4. CASE t \in Wire!Sets
  BY <1>4, SetDone DEF Going
<1> QED BY <1>1, <1>2, <1>3, <1>4 DEF Wire!Types, Wire!Vectors

\* The loops have collected what they have read; what has been answered is
\* right for good.
WireInv ==
  /\ type \in Wire!Types \cup {Wire!None} /\ result \in {"Done", "Open", "Ok", "Err"}
  /\ source \in [data : Seq(WireItems), offset : Nat]
  /\ Len(source.data) <= MaxWire /\ source.offset <= Len(source.data)
  /\ left = <<>> \/ \E n \in Nat : left = <<n>>
  /\ type = Wire!None => result = "Done"
  /\ result = "Open" => type \in Wire!Types /\ Reading(type, source.data, source.offset, left, out, prev)
  /\ result = "Ok" => Done(type, source.data, source.offset, out)
  /\ result = "Err" => Refuses(type, source.data)

\* The sequences of at most k elements.
LEMMA WireSeqOf ==
  ASSUME NEW A, NEW k \in Nat, NEW s
  PROVE  s \in Wire!SeqOf(A, k) <=> s \in Seq(A) /\ Len(s) <= k
<1>1. ASSUME s \in Wire!SeqOf(A, k) PROVE s \in Seq(A) /\ Len(s) <= k
  <2>1. PICK m \in 0 .. k : s \in [1 .. m -> A]
    BY <1>1 DEF Wire!SeqOf
  <2> QED BY <2>1
<1>2. ASSUME s \in Seq(A), Len(s) <= k PROVE s \in Wire!SeqOf(A, k)
  <2>1. Len(s) \in 0 .. k /\ s \in [1 .. Len(s) -> A]
    BY <1>2
  <2> QED BY <2>1 DEF Wire!SeqOf
<1> QED BY <1>1, <1>2

\* The invariant of the serialization holds at the start.
LEMMA WireStarts == ASSUME Wire!SerializationAssumption, Wire!Init PROVE WireInv
<1>1. source \in [data : Seq(WireItems), offset : Nat] /\ Len(source.data) = 0 /\ source.offset = 0
  <2>1. source = [data |-> << >>, offset |-> 0] /\ << >> \in Seq(WireItems) /\ Len(<< >>) = 0
    BY DEF Wire!Init
  <2> QED BY <2>1
<1> QED BY <1>1 DEF Wire!Init, WireInv, Wire!SerializationAssumption

\* New bytes keep the invariant.
LEMMA FromBytesKeeps ==
  ASSUME Wire!SerializationAssumption, WireInv, NEW t \in Wire!Types, NEW bytes \in Wire!SeqOf(WireItems, MaxWire),
         Wire!from_bytes(t, bytes)
  PROVE  WireInv'
<1>1. bytes \in Seq(WireItems) /\ Len(bytes) <= MaxWire /\ Len(bytes) \in Nat
  <2>1. MaxWire \in Nat
    BY DEF Wire!SerializationAssumption
  <2> QED BY <2>1, WireSeqOf
<1>2. source' = [data |-> bytes, offset |-> 0] /\ type' = t /\ result' = "Open" /\ prev' = <<>>
  BY DEF Wire!from_bytes
<1>3. source' \in [data : Seq(WireItems), offset : Nat] /\ source'.data = bytes /\ source'.offset = 0
  BY <1>1, <1>2
<1>4. left' = <<>> \/ \E n \in Nat : left' = <<n>>
  BY DEF Wire!from_bytes, Wire!SerializationAssumption
<1>5. Reading(t, bytes, 0, left', out', <<>>)
  <2>1. CASE t = "array"
    <3>1. left' = <<ArrayLen>> /\ out' = <<>> /\ t \notin Wire!Sums /\ t \notin Wire!Maps /\ t \notin Wire!Sets
      BY <2>1, TypesDiffer DEF Wire!from_bytes
    <3>2. ArrayLen \in Nat
      BY DEF Wire!SerializationAssumption
    <3>3. ArrayRead(bytes, 0, ArrayLen, << >>)
      BY <1>1, <3>2 DEF ArrayRead
    <3>4. Going(t, bytes, 0, ArrayLen, <<>>, <<>>)
      BY <2>1, <3>1, <3>3 DEF Going
    <3> QED BY <3>1, <3>2, <3>4 DEF Reading
  <2>2. CASE t # "array"
    BY <2>2 DEF Wire!from_bytes, Reading
  <2> QED BY <2>1, <2>2
<1>6. t # Wire!None
  BY TypesDiffer
<1> QED BY <1>1, <1>2, <1>3, <1>4, <1>5, <1>6 DEF WireInv

\* What an answer leaves.
LEMMA WireErr ==
  ASSUME WireInv, Wire!Err, type \in Wire!Types, Refuses(type, source.data)
  PROVE  WireInv'
<1>1. type' = type /\ source' = source /\ left' = left /\ result' = "Err"
  BY DEF Wire!Err
<1>2. Refuses(type', source'.data)
  BY <1>1
<1>3. type' # Wire!None
  BY <1>1, TypesDiffer
<1> QED BY <1>1, <1>2, <1>3 DEF WireInv

\* Returning the value that the bytes hold keeps the invariant.
LEMMA WireReturns ==
  ASSUME WireInv, NEW v, NEW n \in Nat, Wire!Return(v, n), type \in Wire!Types,
         source.offset + n <= Len(source.data), Done(type, source.data, source.offset + n, v)
  PROVE  WireInv'
<1>1. /\ type' = type /\ left' = left /\ result' = "Ok" /\ out' = v
      /\ source' = [source EXCEPT !.offset = source.offset + n]
  BY DEF Wire!Return
<1>2. source \in [data : Seq(WireItems), offset : Nat]
  BY DEF WireInv
<1>3. /\ source' \in [data : Seq(WireItems), offset : Nat] /\ source'.data = source.data
      /\ source'.offset = source.offset + n
  BY <1>1, <1>2
<1>4. type' # Wire!None
  BY <1>1, TypesDiffer
<1> QED BY <1>1, <1>3, <1>4 DEF WireInv

\* What is true as long as elements are read.
LEMMA Open ==
  ASSUME Wire!SerializationAssumption, WireInv, result = "Open"
  PROVE  /\ type \in Wire!Types /\ source.data \in Seq(WireItems) /\ Len(source.data) \in Nat
         /\ source.offset \in Nat /\ source = [data |-> source.data, offset |-> source.offset]
         /\ source.offset <= Len(source.data) /\ Len(source.data) <= MaxWire
         /\ Reading(type, source.data, source.offset, left, out, prev)
         /\ source.offset + 0 = source.offset
<1>1. source \in [data : Seq(WireItems), offset : Nat]
  BY DEF WireInv
<1>2. source.data \in Seq(WireItems) /\ source.offset \in Nat /\ source = [data |-> source.data, offset |-> source.offset]
  BY <1>1
<1>3. Len(source.data) \in Nat
  BY <1>2
<1> QED BY <1>2, <1>3 DEF WireInv

\* A round of a loop fails or reads one more element.
LEMMA RoundIs ==
  ASSUME Wire!SerializationAssumption, WireInv, result = "Open", NEW n \in {1, 2}, NEW may, NEW collected,
         Wire!Round(n, may, collected)
  PROVE  \E k \in Nat : /\ k # 0 /\ left = <<k>> /\ type \notin Wire!Sums
                        /\ Going(type, source.data, source.offset, k, prev, out)
                        /\ \/ Wire!Err /\ (~(source.offset + n <= Len(source.data)) \/ ~may)
                           \/ /\ source.offset + n <= Len(source.data) /\ may
                              /\ type' = type /\ result' = "Open" /\ left' = <<k - 1>>
                              /\ source' = [data |-> source.data, offset |-> source.offset + n]
                              /\ prev' = <<source.data[source.offset + 1]>> /\ out' = collected
<1>1. left \notin {<<>>, <<0>>}
  BY DEF Wire!Round
<1>2. PICK k \in Nat : left = <<k>> /\ type \notin Wire!Sums
                       /\ Going(type, source.data, source.offset, k, prev, out)
  BY <1>1, Open DEF Reading
<1>3. k # 0 /\ left[1] = k
  BY <1>1, <1>2
<1>4. [source EXCEPT !.offset = source.offset + n] = [data |-> source.data, offset |-> source.offset + n]
  <2>1. source = [data |-> source.data, offset |-> source.offset]
    BY Open
  <2> QED BY <2>1
<1>5. \/ Wire!Err /\ (~Wire!read_exact(n) \/ ~may)
      \/ /\ Wire!read_exact(n) /\ may
         /\ left' = <<left[1] - 1>> /\ source' = [source EXCEPT !.offset = source.offset + n]
         /\ prev' = <<Wire!item(1)>> /\ out' = collected /\ UNCHANGED <<type, result>>
  BY DEF Wire!Round
<1>6. CASE Wire!Err /\ (~Wire!read_exact(n) \/ ~may)
  BY <1>2, <1>3, <1>6 DEF Wire!read_exact
<1>7. CASE /\ Wire!read_exact(n) /\ may
           /\ left' = <<left[1] - 1>> /\ source' = [source EXCEPT !.offset = source.offset + n]
           /\ prev' = <<Wire!item(1)>> /\ out' = collected /\ UNCHANGED <<type, result>>
  BY <1>2, <1>3, <1>4, <1>7 DEF Wire!read_exact, Wire!item
<1> QED BY <1>5, <1>6, <1>7

\* A round of a loop that read one more element keeps it.
LEMMA RoundKeeps ==
  ASSUME Wire!SerializationAssumption, WireInv, result = "Open", NEW n \in {1, 2}, NEW k \in Nat, k # 0, type \notin Wire!Sums,
         source.offset + n <= Len(source.data), type' = type, result' = "Open", left' = <<k - 1>>,
         source' = [data |-> source.data, offset |-> source.offset + n],
         Going(type, source.data, source.offset + n, k - 1, prev', out')
  PROVE  WireInv'
<1>1. k - 1 \in Nat /\ source.offset + n \in Nat
  BY Open
<1>2. source'.data = source.data /\ source'.offset = source.offset + n
      /\ source' \in [data : Seq(WireItems), offset : Nat]
  BY <1>1, Open
<1>3. Reading(type', source'.data, source'.offset, left', out', prev')
  BY <1>1, <1>2 DEF Reading
<1>4. type' \in Wire!Types /\ type' # Wire!None /\ Len(source.data) <= MaxWire
  BY Open, TypesDiffer
<1> QED BY <1>1, <1>2, <1>3, <1>4 DEF WireInv

\* A round of the loop of a vector, a text or an array keeps it.
LEMMA VectorKeeps ==
  ASSUME Wire!SerializationAssumption, WireInv, result = "Open", type \in Wire!Vectors, Wire!deserial_vector_no_length
  PROVE  WireInv'
<1> DEFINE d == source.data
           o == source.offset
<1>1. Wire!Round(1, TRUE, Append(out, d[o + 1]))
  BY DEF Wire!deserial_vector_no_length, Wire!item
<1>2. PICK k \in Nat : /\ k # 0 /\ left = <<k>> /\ type \notin Wire!Sums
                       /\ Going(type, d, o, k, prev, out)
                       /\ \/ Wire!Err /\ ~(o + 1 <= Len(d))
                          \/ /\ o + 1 <= Len(d)
                             /\ type' = type /\ result' = "Open" /\ left' = <<k - 1>>
                             /\ source' = [data |-> d, offset |-> o + 1]
                             /\ prev' = <<d[o + 1]>> /\ out' = Append(out, d[o + 1])
  BY <1>1, RoundIs
<1>3. type \in Wire!Types /\ type \notin Wire!Maps /\ type \notin Wire!Sets
  BY TypesDiffer
<1>4. CASE type \in {"vector", "text"}
  <2>1. VectorRead(d, o, k, out)
    BY <1>2, <1>4 DEF Going
  <2>2. CASE Wire!Err /\ ~(o + 1 <= Len(d))
    <3>1. Refuses(type, d)
      BY <1>2, <1>4, <2>1, <2>2, VectorRefused
    <3> QED BY <1>3, <2>2, <3>1, WireErr
  <2>3. CASE o + 1 <= Len(d) /\ out' = Append(out, d[o + 1])
    <3>1. VectorRead(d, o + 1, k - 1, out')
      BY <1>2, <2>1, <2>3, VectorStep
    <3>2. Going(type, d, o + 1, k - 1, prev', out')
      BY <1>3, <1>4, <3>1 DEF Going
    <3>3. ~(~(o + 1 <= Len(d)))
      BY <2>3
    <3> QED BY <1>2, <2>3, <3>2, <3>3, RoundKeeps
  <2> QED BY <1>2, <2>2, <2>3
<1>5. CASE type = "array"
  <2>1. ArrayRead(d, o, k, out)
    BY <1>2, <1>5 DEF Going
  <2>2. CASE Wire!Err /\ ~(o + 1 <= Len(d))
    <3>1. Refuses(type, d)
      BY <1>2, <1>5, <2>1, <2>2, ArrayRefused
    <3> QED BY <1>3, <2>2, <3>1, WireErr
  <2>3. CASE o + 1 <= Len(d) /\ out' = Append(out, d[o + 1])
    <3>1. ArrayRead(d, o + 1, k - 1, out')
      BY <1>2, <2>1, <2>3, ArrayStep
    <3>2. Going(type, d, o + 1, k - 1, prev', out')
      BY <1>3, <1>5, <3>1 DEF Going
    <3> QED BY <1>2, <2>3, <3>2, RoundKeeps
  <2> QED BY <1>2, <2>2, <2>3
<1> QED BY <1>4, <1>5 DEF Wire!Vectors

\* A round of a map's loop keeps it.
LEMMA WireMapKeeps ==
  ASSUME Wire!SerializationAssumption, WireInv, result = "Open", type \in Wire!Maps, NEW may,
         Wire!Round(2, may, Wire!Inserted(out)),
         Checks(type) => (may <=> (prev # <<>> => source.data[source.offset + 1] > prev[1])),
         ~Checks(type) => (may <=> source.data[source.offset + 1] \notin DOMAIN out)
  PROVE  WireInv'
<1> DEFINE d == source.data
           o == source.offset
           g == [x \in DOMAIN out \cup {d[o + 1]} |-> IF x = d[o + 1] THEN d[o + 2] ELSE out[x]]
<1>1. Wire!Inserted(out) = g
  BY DEF Wire!Inserted, Wire!item
<1> HIDE DEF g
<1>2. PICK k \in Nat : /\ k # 0 /\ left = <<k>> /\ type \notin Wire!Sums
                       /\ Going(type, d, o, k, prev, out)
                       /\ \/ Wire!Err /\ (~(o + 2 <= Len(d)) \/ ~may)
                          \/ /\ o + 2 <= Len(d) /\ may
                             /\ type' = type /\ result' = "Open" /\ left' = <<k - 1>>
                             /\ source' = [data |-> d, offset |-> o + 2]
                             /\ prev' = <<d[o + 1]>> /\ out' = Wire!Inserted(out)
  BY RoundIs
<1>3. /\ type \in Wire!Types /\ type \notin Wire!Sets /\ type \notin Wire!Vectors
      /\ MapRead(Checks(type), d, o, k, prev, out)
  BY <1>2, TypesDiffer DEF Going
<1>4. o \in Nat /\ Len(d) \in Nat
  BY Open
<1>5. CASE Wire!Err /\ (~(o + 2 <= Len(d)) \/ ~may)
  <2>1. \/ o + 2 > Len(d)
        \/ Checks(type) /\ ~(prev # <<>> => d[o + 1] > prev[1])
        \/ ~Checks(type) /\ d[o + 1] \in DOMAIN out
    BY <1>4, <1>5
  <2>2. Refuses(type, d)
    BY <1>2, <1>3, <2>1, MapRefused
  <2> QED BY <1>3, <1>5, <2>2, WireErr
<1>6. CASE /\ o + 2 <= Len(d) /\ may
           /\ type' = type /\ result' = "Open" /\ left' = <<k - 1>>
           /\ source' = [data |-> d, offset |-> o + 2]
           /\ prev' = <<d[o + 1]>> /\ out' = Wire!Inserted(out)
  <2>1. Checks(type) => (prev # <<>> => d[o + 1] > prev[1])
    BY <1>6
  <2>2. ~Checks(type) => d[o + 1] \notin DOMAIN out
    BY <1>6
  <2>3. MapRead(Checks(type), d, o + 2, k - 1, <<d[o + 1]>>, g)
    BY <1>2, <1>3, <1>6, <2>1, <2>2, MapStep DEF g
  <2>4. Going(type, d, o + 2, k - 1, prev', out')
    <3>1. prev' = <<d[o + 1]>> /\ out' = g
      BY <1>1, <1>6
    <3>2. type \in Wire!Maps /\ type \notin Wire!Sets /\ type \notin Wire!Vectors
      BY <1>3
    <3> QED BY <2>3, <3>1, <3>2, TypesDiffer DEF Going
  <2> QED BY <1>2, <1>6, <2>4, RoundKeeps
<1> QED BY <1>2, <1>5, <1>6

\* A round of a set's loop keeps it.
LEMMA SetKeeps ==
  ASSUME Wire!SerializationAssumption, WireInv, result = "Open", type \in Wire!Sets, NEW may,
         Wire!Round(1, may, out \cup {Wire!item(1)}),
         Checks(type) => (may <=> (prev # <<>> => source.data[source.offset + 1] > prev[1])),
         ~Checks(type) => (may <=> source.data[source.offset + 1] \notin out)
  PROVE  WireInv'
<1> DEFINE d == source.data
           o == source.offset
<1>1. out \cup {Wire!item(1)} = out \cup {d[o + 1]}
  BY DEF Wire!item
<1>2. PICK k \in Nat : /\ k # 0 /\ left = <<k>> /\ type \notin Wire!Sums
                       /\ Going(type, d, o, k, prev, out)
                       /\ \/ Wire!Err /\ (~(o + 1 <= Len(d)) \/ ~may)
                          \/ /\ o + 1 <= Len(d) /\ may
                             /\ type' = type /\ result' = "Open" /\ left' = <<k - 1>>
                             /\ source' = [data |-> d, offset |-> o + 1]
                             /\ prev' = <<d[o + 1]>> /\ out' = out \cup {Wire!item(1)}
  BY RoundIs
<1>3. /\ type \in Wire!Types /\ type \notin Wire!Maps /\ type \notin Wire!Vectors
      /\ SetRead(Checks(type), d, o, k, prev, out)
  BY <1>2, TypesDiffer DEF Going
<1>4. o \in Nat /\ Len(d) \in Nat
  BY Open
<1>5. CASE Wire!Err /\ (~(o + 1 <= Len(d)) \/ ~may)
  <2>1. \/ o + 1 > Len(d)
        \/ Checks(type) /\ ~(prev # <<>> => d[o + 1] > prev[1])
        \/ ~Checks(type) /\ d[o + 1] \in out
    BY <1>4, <1>5
  <2>2. Refuses(type, d)
    BY <1>2, <1>3, <2>1, SetRefused
  <2> QED BY <1>3, <1>5, <2>2, WireErr
<1>6. CASE /\ o + 1 <= Len(d) /\ may
           /\ type' = type /\ result' = "Open" /\ left' = <<k - 1>>
           /\ source' = [data |-> d, offset |-> o + 1]
           /\ prev' = <<d[o + 1]>> /\ out' = out \cup {Wire!item(1)}
  <2>1. Checks(type) => (prev # <<>> => d[o + 1] > prev[1])
    BY <1>6
  <2>2. ~Checks(type) => d[o + 1] \notin out
    BY <1>6
  <2>3. SetRead(Checks(type), d, o + 1, k - 1, <<d[o + 1]>>, out \cup {d[o + 1]})
    BY <1>2, <1>3, <1>6, <2>1, <2>2, SetStep
  <2>4. Going(type, d, o + 1, k - 1, prev', out')
    <3>1. prev' = <<d[o + 1]>> /\ out' = out \cup {d[o + 1]}
      BY <1>1, <1>6
    <3>2. type \in Wire!Sets /\ type \notin Wire!Maps /\ type \notin Wire!Vectors
      BY <1>3
    <3> QED BY <2>3, <3>1, <3>2, TypesDiffer DEF Going
  <2> QED BY <1>2, <1>6, <2>4, RoundKeeps
<1> QED BY <1>2, <1>5, <1>6

\* Reading the length keeps it.
LEMMA LenKeeps ==
  ASSUME Wire!SerializationAssumption, WireInv, result = "Open", type \notin Wire!Sums, Wire!deserial_len
  PROVE  WireInv'
<1> DEFINE d == source.data
           o == source.offset
<1>1. left = <<>>
  BY DEF Wire!deserial_len
<1>2. o = 0 /\ prev = <<>> /\ type # "array" /\ out = IF type \in Wire!Sets THEN {} ELSE <<>>
  BY <1>1, Open DEF Reading
<1>3. type \in Wire!Types /\ d \in Seq(WireItems) /\ Len(d) \in Nat /\ Len(d) <= MaxWire
  BY Open
<1>4. CASE ~(1 <= Len(d))
  <2>1. ~Wire!read_exact(1)
    BY <1>2, <1>4 DEF Wire!read_exact
  <2>2. Wire!Err
    BY <2>1 DEF Wire!deserial_len
  <2>3. Refuses(type, d)
    BY <1>2, <1>3, <1>4, NoLengthRefused
  <2> QED BY <1>3, <2>2, <2>3, WireErr
<1>5. CASE 1 <= Len(d)
  <2>1. Wire!read_exact(1) /\ Wire!item(1) = d[1]
    BY <1>2, <1>5 DEF Wire!read_exact, Wire!item
  <2>2. /\ left' = <<d[1]>> /\ type' = type /\ out' = out /\ prev' = prev /\ result' = result
        /\ source' = [source EXCEPT !.offset = source.offset + 1]
    BY <2>1 DEF Wire!deserial_len
  <2>3. d[1] \in Nat /\ Going(type, d, 1, d[1], prev, out)
    BY <1>2, <1>3, <1>5, GoingStarts
  <2>4. source' = [data |-> d, offset |-> 1]
    <3>1. source = [data |-> d, offset |-> 0]
      BY <1>2, Open
    <3> QED BY <2>2, <3>1
  <2>5. source' \in [data : Seq(WireItems), offset : Nat] /\ source'.data = d /\ source'.offset = 1
    BY <1>3, <2>4
  <2>6. Reading(type', source'.data, source'.offset, left', out', prev')
    BY <2>2, <2>3, <2>5 DEF Reading
  <2>7. type' # Wire!None
    BY <1>3, <2>2, TypesDiffer
  <2> QED BY <1>3, <1>5, <2>2, <2>3, <2>5, <2>6, <2>7 DEF WireInv
<1> QED BY <1>4, <1>5

\* The end of a loop keeps it.
LEMMA LoopEndsKeeps ==
  ASSUME Wire!SerializationAssumption, WireInv, result = "Open", type \notin Wire!Sums,
         Wire!LoopEnds \/ Wire!TextEnds
  PROVE  WireInv'
<1>1. /\ left = <<0>>
      /\ \/ Wire!Return(out, 0) /\ (type = "text" => out \in Legible)
         \/ Wire!Err /\ type = "text" /\ out \notin Legible
  BY DEF Wire!LoopEnds, Wire!TextEnds
<1>2. PICK n \in Nat : left = <<n>> /\ Going(type, source.data, source.offset, n, prev, out)
  BY <1>1, Open DEF Reading
<1>3. n = 0
  BY <1>1, <1>2
<1>4. type \in Wire!Types /\ source.offset + 0 = source.offset /\ source.offset <= Len(source.data)
  BY Open
<1>5. CASE Wire!Return(out, 0) /\ (type = "text" => out \in Legible)
  <2>1. Done(type, source.data, source.offset, out)
    BY <1>2, <1>3, <1>4, <1>5, GoingEnds
  <2> QED BY <1>4, <1>5, <2>1, WireReturns
<1>6. CASE Wire!Err /\ type = "text" /\ out \notin Legible
  <2>1. VectorRead(source.data, source.offset, 0, out)
    BY <1>2, <1>3, <1>6 DEF Going
  <2>2. Refuses(type, source.data)
    BY <1>6, <2>1, TextRefused
  <2> QED BY <1>4, <1>6, <2>2, WireErr
<1> QED BY <1>1, <1>5, <1>6

\* The types without a loop keep it.
LEMMA SumKeeps ==
  ASSUME Wire!SerializationAssumption, WireInv, result = "Open",
         \/ type = "bool" /\ Wire!deserial_bool
         \/ type = "option" /\ Wire!deserial_option
         \/ type = "address" /\ Wire!deserial_address
  PROVE  WireInv'
<1> DEFINE d == source.data
           o == source.offset
<1>1. type \in Wire!Sums /\ type \in Wire!Types
  BY DEF Wire!Sums, Wire!Types
<1>2. o = 0
  BY <1>1, Open DEF Reading
<1>3. d \in Seq(WireItems) /\ Len(d) \in Nat
  BY Open
<1>4. /\ \A n \in Nat : Wire!read_exact(n) <=> n <= Len(d)
      /\ \A i \in Nat : Wire!item(i) = d[i]
  BY <1>2 DEF Wire!read_exact, Wire!item
<1>5. 1 <= Len(d) => d[1] \in Nat
  BY <1>3, FirstItems
<1>6. ASSUME Wire!Err, Refuses(type, d) PROVE WireInv'
  BY <1>1, <1>6, WireErr
<1>7. ASSUME NEW v, NEW n \in Nat, Wire!Return(v, n), n <= Len(d), Done(type, d, n, v) PROVE WireInv'
  <2>1. source.offset + n = n
    BY <1>2
  <2> QED BY <1>1, <1>7, <2>1, WireReturns
<1>8. CASE type = "bool" /\ Wire!deserial_bool
  <2>1. CASE 1 <= Len(d) /\ d[1] \in {0, 1}
    <3>1. Wire!Return(d[1] = 1, 1)
      BY <1>4, <1>8, <2>1 DEF Wire!deserial_bool
    <3>2. Done(type, d, 1, d[1] = 1)
      BY <1>3, <1>8, <2>1, BoolDone
    <3> QED BY <1>7, <2>1, <3>1, <3>2
  <2>2. CASE ~(1 <= Len(d) /\ d[1] \in {0, 1})
    <3>1. Wire!Err
      BY <1>4, <1>8, <2>2 DEF Wire!deserial_bool
    <3> QED BY <1>3, <1>6, <1>8, <2>2, <3>1, BoolRefused
  <2> QED BY <2>1, <2>2
<1>9. CASE type = "option" /\ Wire!deserial_option
  <2>1. \/ 1 <= Len(d) /\ d[1] = 0 /\ Wire!Return(<<>>, 1)
        \/ 2 <= Len(d) /\ d[1] = 1 /\ Wire!Return(<<d[2]>>, 2)
        \/ ~(1 <= Len(d)) /\ Wire!Err
        \/ 1 <= Len(d) /\ (d[1] > 1 \/ (d[1] = 1 /\ ~(2 <= Len(d)))) /\ Wire!Err
    BY <1>4, <1>9 DEF Wire!deserial_option
  <2>2. CASE 1 <= Len(d) /\ d[1] = 0 /\ Wire!Return(<<>>, 1)
    BY <1>3, <1>7, <1>9, <2>2, OptionDone
  <2>3. CASE 2 <= Len(d) /\ d[1] = 1 /\ Wire!Return(<<d[2]>>, 2)
    <3>1. 1 <= Len(d)
      BY <1>3, <2>3
    <3>2. Done(type, d, 2, <<d[2]>>)
      BY <1>3, <1>9, <2>3, <3>1, OptionDone
    <3> QED BY <1>7, <2>3, <3>2
  <2>4. CASE Wire!Err /\ (~(1 <= Len(d)) \/ d[1] > 1 \/ (d[1] = 1 /\ ~(2 <= Len(d))))
    BY <1>3, <1>6, <1>9, <2>4, OptionRefused
  <2> QED BY <2>1, <2>2, <2>3, <2>4
<1>10. CASE type = "address" /\ Wire!deserial_address
  <2>1. \/ 2 <= Len(d) /\ d[1] = 0 /\ Wire!Return(<<d[2]>>, 2)
        \/ 3 <= Len(d) /\ d[1] = 1 /\ Wire!Return(<<d[2], d[3]>>, 3)
        \/ ~(1 <= Len(d)) /\ Wire!Err
        \/ 1 <= Len(d) /\ (d[1] > 1 \/ ~Wire!read_exact(2 + d[1])) /\ Wire!Err
    BY <1>4, <1>10 DEF Wire!deserial_address
  <2>2. CASE 2 <= Len(d) /\ d[1] = 0 /\ Wire!Return(<<d[2]>>, 2)
    BY <1>3, <1>7, <1>10, <2>2, AddressDone
  <2>3. CASE 3 <= Len(d) /\ d[1] = 1 /\ Wire!Return(<<d[2], d[3]>>, 3)
    BY <1>3, <1>7, <1>10, <2>3, AddressDone
  <2>4. CASE Wire!Err /\ (~(1 <= Len(d)) \/ (1 <= Len(d) /\ (d[1] > 1 \/ ~Wire!read_exact(2 + d[1]))))
    <3>1. ~(1 <= Len(d)) \/ d[1] > 1 \/ ~(2 + d[1] <= Len(d))
      BY <1>4, <1>5, <2>4
    <3> QED BY <1>3, <1>6, <1>10, <2>4, <3>1, AddressRefused
  <2> QED BY <2>1, <2>2, <2>3, <2>4
<1> QED BY <1>8, <1>9, <1>10

\* Every step of a reading keeps the invariant.
LEMMA ReadKeeps ==
  ASSUME Wire!SerializationAssumption, WireInv, result = "Open", Wire!Read
  PROVE  WireInv'
<1>1. CASE type \notin Wire!Sums /\ (Wire!deserial_len \/ Wire!LoopEnds \/ Wire!TextEnds)
  BY <1>1, LenKeeps, LoopEndsKeeps
<1>2. CASE type \in Wire!Vectors /\ Wire!deserial_vector_no_length
  BY <1>2, VectorKeeps
<1>3. CASE type = "map" /\ Wire!deserial_map_no_length
  <2> DEFINE may == Wire!Above(Wire!item(1))
  <2>1. Wire!Round(2, may, Wire!Inserted(out)) /\ type \in Wire!Maps /\ Checks(type)
    BY <1>3 DEF Wire!deserial_map_no_length, Wire!Maps, Checks
  <2>2. may <=> (prev # <<>> => source.data[source.offset + 1] > prev[1])
    BY DEF Wire!Above, Wire!item
  <2> HIDE DEF may
  <2> QED BY <2>1, <2>2, WireMapKeeps
<1>4. CASE type \in {"map_no_order_check", "hashmap"} /\ Wire!deserial_map_no_length_no_order_check
  <2> DEFINE may == Wire!item(1) \notin DOMAIN out
  <2>1. Wire!Round(2, may, Wire!Inserted(out)) /\ type \in Wire!Maps /\ ~Checks(type)
    BY <1>4 DEF Wire!deserial_map_no_length_no_order_check, Wire!Maps, Checks
  <2>2. may <=> source.data[source.offset + 1] \notin DOMAIN out
    BY DEF Wire!item
  <2> HIDE DEF may
  <2> QED BY <2>1, <2>2, WireMapKeeps
<1>5. CASE type = "set" /\ Wire!deserial_set_no_length
  <2> DEFINE may == Wire!Above(Wire!item(1))
  <2>1. Wire!Round(1, may, out \cup {Wire!item(1)}) /\ type \in Wire!Sets /\ Checks(type)
    BY <1>5 DEF Wire!deserial_set_no_length, Wire!Sets, Checks
  <2>2. may <=> (prev # <<>> => source.data[source.offset + 1] > prev[1])
    BY DEF Wire!Above, Wire!item
  <2> HIDE DEF may
  <2> QED BY <2>1, <2>2, SetKeeps
<1>6. CASE type \in {"set_no_order_check", "hashset"} /\ Wire!deserial_set_no_length_no_order_check
  <2> DEFINE may == Wire!item(1) \notin out
  <2>1. Wire!Round(1, may, out \cup {Wire!item(1)}) /\ type \in Wire!Sets /\ ~Checks(type)
    BY <1>6 DEF Wire!deserial_set_no_length_no_order_check, Wire!Sets, Checks
  <2>2. may <=> source.data[source.offset + 1] \notin out
    BY DEF Wire!item
  <2> HIDE DEF may
  <2> QED BY <2>1, <2>2, SetKeeps
<1>7. CASE \/ type = "bool" /\ Wire!deserial_bool
           \/ type = "option" /\ Wire!deserial_option
           \/ type = "address" /\ Wire!deserial_address
  BY <1>7, SumKeeps
<1> QED BY <1>1, <1>2, <1>3, <1>4, <1>5, <1>6, <1>7 DEF Wire!Read

\* Every step keeps the invariant of the serialization.
LEMMA WireKeeps ==
  ASSUME Wire!SerializationAssumption, WireInv, [Wire!Next]_wire PROVE WireInv'
<1>1. CASE UNCHANGED wire
  BY <1>1 DEF wire, WireInv
<1>2. CASE Wire!Next
  BY <1>2, FromBytesKeeps, ReadKeeps DEF Wire!Next
<1> QED BY <1>1, <1>2

\* What the invariant says of the answers, and of the types.
LEMMA WireRight ==
  ASSUME Wire!SerializationAssumption, WireInv PROVE Wire!RoundTrips
<1>1. result = "Ok" => Done(type, source.data, source.offset, out)
  BY DEF WireInv
<1>2. result = "Err" => Refuses(type, source.data)
  BY DEF WireInv
<1>3. type # "map_no_order_check" /\ type # "set_no_order_check" <=> type \notin {"map_no_order_check", "set_no_order_check"}
  OBVIOUS
<1> QED BY <1>1, <1>2 DEF Wire!RoundTrips, Done, Refuses

\* The invariant holds the types of the serialization.
LEMMA WireTyped ==
  ASSUME Wire!SerializationAssumption, WireInv PROVE Wire!TypeOK
<1>1. source \in [data : Seq(WireItems), offset : Nat] /\ Len(source.data) <= MaxWire /\ source.offset <= Len(source.data)
  BY DEF WireInv
<1>2. source.data \in Seq(WireItems) /\ source.offset \in Nat /\ Len(source.data) \in Nat /\ MaxWire \in Nat
  BY <1>1 DEF Wire!SerializationAssumption
<1>3. source.data \in Wire!SeqOf(WireItems, MaxWire) /\ source.offset \in 0 .. Len(source.data)
  BY <1>1, <1>2, WireSeqOf
<1>4. left \in Seq(Nat) /\ Len(left) <= 1
  <2>1. left = << >> \/ \E n \in Nat : left = <<n>>
    BY DEF WireInv
  <2>2. << >> \in Seq(Nat) /\ Len(<< >>) <= 1
    OBVIOUS
  <2>3. \A n \in Nat : <<n>> \in Seq(Nat) /\ Len(<<n>>) <= 1
    OBVIOUS
  <2> QED BY <2>1, <2>2, <2>3
<1> QED BY <1>3, <1>4 DEF Wire!TypeOK, WireInv, Done

-----------------------------------------------------------------------------
(* Every library within its bounds: what is added to the invariants above.    *)

\* What both builds make of an entry is of the right kinds, strayed or not.
EntryTyped ==
  /\ size \in [Entry!Builds -> 0 .. MaxSize \cup {Entry!Gone}]
  /\ size["host"] = Entry!Gone <=> size["test"] = Entry!Gone
  /\ position \in [Entry!Builds -> [Openers -> 0 .. W - 1]]
  /\ answers \in [Entry!Builds -> {Entry!Err} \cup {Entry!Ok(n) : n \in 0 .. W - 1}]
  /\ strayed \in BOOLEAN

\* What an operation may give.
Given(g) ==
  /\ g.size \in Nat /\ g.position \in 0 .. W - 1
  /\ g.answer = Entry!Err \/ \E k \in 0 .. W - 1 : g.answer = Entry!Ok(k)

\* The sizes of an entry fit a word.
LEMMA EntryWord ==
  ASSUME Entry!EntriesAssumption
  PROVE  W \in Nat /\ MaxSize \in Nat /\ MaxSize < W /\ 0 < W
BY DEF Entry!EntriesAssumption

\* The types of the entries hold at the start.
LEMMA EntryTypedStarts ==
  ASSUME Entry!EntriesAssumption, Entry!Init
  PROVE  EntryTyped
<1>1. W \in Nat /\ MaxSize \in Nat /\ 0 \in 0 .. W - 1 /\ 0 \in 0 .. MaxSize
  BY EntryWord
<1>2. Entry!Ok(0) \in {Entry!Ok(n) : n \in 0 .. W - 1}
  BY <1>1
<1> QED BY <1>1, <1>2 DEF Entry!Init, EntryTyped, Entry!Gone, Entry!Builds

\* What an operation gives, from any size and any position.
LEMMA GivesTyped ==
  ASSUME NEW n \in Nat, NEW pos \in 0 .. W - 1, NEW a
  PROVE  /\ a = Entry!Err => Given(Entry!Gives(n, pos, a))
         /\ (\E k \in 0 .. W - 1 : a = Entry!Ok(k)) => Given(Entry!Gives(n, pos, a))
         /\ Given(Entry!Fails(n, pos))
BY DEF Given, Entry!Gives, Entry!Fails

\* What the host's reads and writes give is typed.
LEMMA HostTakes ==
  ASSUME Entry!EntriesAssumption, NEW n \in 0 .. MaxSize, NEW pos \in 0 .. W - 1, NEW len \in Nat
  PROVE  /\ Given(Entry!HostRead(n, pos, len)) /\ Given(Entry!HostReadExact(n, pos, len))
         /\ Given(Entry!HostWrite(n, pos, len))
<1>1. W \in Nat /\ MaxSize \in Nat /\ MaxSize < W /\ 0 < W /\ n \in Nat /\ n <= MaxSize /\ pos \in Nat /\ pos < W
  BY EntryWord
<1> DEFINE m == Entry!state_entry_read(n, len, pos)
           w == Entry!state_entry_write(n, len, pos)
<1>2. m \in 0 .. W - 1 /\ pos + m \in 0 .. W - 1
  BY <1>1 DEF Entry!state_entry_read
<1>3. w \in Nat /\ w <= len
  BY <1>1 DEF Entry!state_entry_write
<1> HIDE DEF m, w
<1>4. Given(Entry!HostRead(n, pos, len))
  BY <1>1, <1>2, GivesTyped DEF Entry!HostRead, m
<1>5. Given(Entry!HostReadExact(n, pos, len))
  <2>1. Entry!HostReadExact(n, pos, len) = Entry!Gives(n, pos + m, IF m = len THEN Entry!Ok(len) ELSE Entry!Err)
    BY DEF Entry!HostReadExact, m
  <2>2. CASE m = len
    <3>1. Entry!HostReadExact(n, pos, len) = Entry!Gives(n, pos + m, Entry!Ok(m))
      BY <2>1, <2>2
    <3> QED BY <1>1, <1>2, <3>1, GivesTyped
  <2>3. CASE m # len
    <3>1. Entry!HostReadExact(n, pos, len) = Entry!Gives(n, pos + m, Entry!Err)
      BY <2>1, <2>3
    <3> QED BY <1>1, <1>2, <3>1, GivesTyped
  <2> QED BY <2>2, <2>3
<1>6. Given(Entry!HostWrite(n, pos, len))
  <2> DEFINE z == IF w = 0 THEN n ELSE Entry!Larger(n, pos + w)
  <2>1. z \in Nat
    BY <1>1, <1>3 DEF Entry!Larger
  <2> HIDE DEF z
  <2>2. Entry!HostWrite(n, pos, len)
          = IF pos + len >= W THEN Entry!Fails(n, pos) ELSE Entry!Gives(z, pos + w, Entry!Ok(w))
    BY DEF Entry!HostWrite, w, z
  <2>3. CASE pos + len >= W
    <3>1. Entry!HostWrite(n, pos, len) = Entry!Fails(n, pos)
      BY <2>2, <2>3
    <3> QED BY <1>1, <3>1, GivesTyped
  <2>4. CASE ~(pos + len >= W)
    <3>1. Entry!HostWrite(n, pos, len) = Entry!Gives(z, pos + w, Entry!Ok(w))
      BY <2>2, <2>4
    <3>2. pos + w \in 0 .. W - 1 /\ w \in 0 .. W - 1
      BY <1>1, <1>3, <2>4
    <3> QED BY <2>1, <3>1, <3>2, GivesTyped
  <2> QED BY <2>3, <2>4
<1> QED BY <1>4, <1>5, <1>6

\* What the test build's reads and writes give is typed.
LEMMA TestTakes ==
  ASSUME Entry!EntriesAssumption, NEW n \in 0 .. MaxSize, NEW pos \in 0 .. W - 1, NEW len \in Nat
  PROVE  /\ Given(Entry!TestRead(n, pos, len)) /\ Given(Entry!TestReadExact(n, pos, len))
         /\ Entry!TestWrite(n, pos, len).size <= MaxSize => Given(Entry!TestWrite(n, pos, len))
<1>1. W \in Nat /\ MaxSize \in Nat /\ MaxSize < W /\ 0 < W /\ n \in Nat /\ n <= MaxSize /\ pos \in Nat /\ pos < W
  BY EntryWord
<1> DEFINE rest == n - pos
           m == IF rest > len THEN len ELSE rest
           read == Entry!TestRead(n, pos, len)
<1>2. read = IF rest < 0 THEN Entry!Fails(n, pos) ELSE Entry!Gives(n, pos + m, Entry!Ok(m))
  BY DEF Entry!TestRead
<1>3. ~(rest < 0) => m \in 0 .. W - 1 /\ pos + m \in 0 .. W - 1
  BY <1>1
<1> HIDE DEF m, rest, read
<1>4. Given(read) /\ (read = Entry!Fails(n, pos) \/ read = Entry!Gives(n, pos + m, Entry!Ok(m)))
  <2>1. CASE rest < 0
    BY <1>1, <1>2, <2>1, GivesTyped
  <2>2. CASE ~(rest < 0)
    <3>1. read = Entry!Gives(n, pos + m, Entry!Ok(m))
      BY <1>2, <2>2
    <3> QED BY <1>1, <1>3, <2>2, <3>1, GivesTyped
  <2> QED BY <2>1, <2>2
<1>5. Given(Entry!TestReadExact(n, pos, len))
  <2>1. Entry!TestReadExact(n, pos, len) = read \/ Entry!TestReadExact(n, pos, len) = [read EXCEPT !.answer = Entry!Err]
    BY DEF Entry!TestReadExact, read
  <2>2. \E q \in 0 .. W - 1 : \E a : read = Entry!Gives(n, q, a)
    <3>1. (rest < 0 /\ read = Entry!Gives(n, pos, Entry!Err)) \/ (~(rest < 0) /\ read = Entry!Gives(n, pos + m, Entry!Ok(m)))
      BY <1>2 DEF Entry!Fails
    <3> QED BY <1>1, <1>3, <3>1
  <2>3. Given([read EXCEPT !.answer = Entry!Err])
    <3>1. PICK q \in 0 .. W - 1 : \E a : read = Entry!Gives(n, q, a)
      BY <2>2
    <3>2. [read EXCEPT !.answer = Entry!Err] = Entry!Gives(n, q, Entry!Err)
      BY <3>1 DEF Entry!Gives
    <3> QED BY <1>1, <3>2, GivesTyped
  <2> QED BY <1>4, <2>1, <2>3
<1>6. ASSUME Entry!TestWrite(n, pos, len).size <= MaxSize
      PROVE  Given(Entry!TestWrite(n, pos, len))
  <2> DEFINE z == Entry!Larger(n, pos + len)
  <2>1. z \in Nat /\ pos + len <= z
    BY <1>1 DEF Entry!Larger
  <2>2. Entry!TestWrite(n, pos, len) = Entry!Gives(z, pos + len, Entry!Ok(len))
    BY DEF Entry!TestWrite
  <2> HIDE DEF z
  <2>3. z <= MaxSize
    BY <1>6, <2>2 DEF Entry!Gives
  <2>4. pos + len \in 0 .. W - 1 /\ len \in 0 .. W - 1
    BY <1>1, <2>1, <2>3
  <2> QED BY <2>1, <2>2, <2>4, GivesTyped
<1> QED BY <1>4, <1>5, <1>6 DEF read

\* What seeking gives is typed.
LEMMA SeeksTyped ==
  ASSUME Entry!EntriesAssumption, NEW n \in 0 .. MaxSize, NEW pos \in 0 .. W - 1, NEW from, NEW x \in Int,
         from = "Start" => x \in Nat
  PROVE  /\ Given(Entry!HostSeek(n, pos, from, x))
         /\ Given(Entry!TestSeek(n, pos, from, x))
<1>1. W \in Nat /\ MaxSize \in Nat /\ MaxSize < W /\ 0 < W /\ n \in Nat /\ n <= MaxSize /\ pos \in Nat /\ pos < W
  BY EntryWord
<1> DEFINE to(p) == Entry!Gives(n, p, Entry!Ok(p))
           o == IF from = "Start" THEN x
                ELSE IF from = "End" THEN (n + Entry!as_u32(x)) % W
                ELSE (pos + Entry!as_u32(x)) % W
<1>2. \A p \in 0 .. W - 1 : Given(to(p))
  BY <1>1, GivesTyped
<1>3. Given(Entry!Fails(n, pos))
  BY <1>1, GivesTyped
<1>4. o \in Nat
  <2>1. Entry!as_u32(x) \in Nat
    BY <1>1 DEF Entry!as_u32
  <2>2. (n + Entry!as_u32(x)) % W \in Nat /\ (pos + Entry!as_u32(x)) % W \in Nat
    BY <1>1, <2>1
  <2> QED BY <2>2
<1>5. Given(Entry!HostSeek(n, pos, from, x))
  <2>1. Entry!HostSeek(n, pos, from, x) = IF o <= n /\ ~(from = "End" /\ x > 0) THEN to(o) ELSE Entry!Fails(n, pos)
    BY DEF Entry!HostSeek
  <2> HIDE DEF o, to
  <2>2. o <= n => o \in 0 .. W - 1
    BY <1>1, <1>4
  <2> QED BY <1>2, <1>3, <2>1, <2>2
<1>6. Given(Entry!TestSeek(n, pos, from, x))
  <2>1. \/ Entry!TestSeek(n, pos, from, x) = Entry!Fails(n, pos)
        \/ \E p \in {x, n + x, pos, pos + x} :
             p \in 0 .. W - 1 /\ Entry!TestSeek(n, pos, from, x) = to(p)
    <3>1. CASE from = "Start"
      <4>1. Entry!TestSeek(n, pos, from, x) = IF x <= n THEN to(x) ELSE Entry!Fails(n, pos)
        BY <3>1 DEF Entry!TestSeek
      <4> HIDE DEF to
      <4>2. x <= n => x \in 0 .. W - 1
        BY <1>1, <3>1
      <4> QED BY <4>1, <4>2
    <3>2. CASE from = "End"
      <4>1. Entry!TestSeek(n, pos, from, x)
              = IF x <= 0 /\ x # Entry!Min_i32 /\ n + x >= 0 THEN to(n + x) ELSE Entry!Fails(n, pos)
        BY <3>2 DEF Entry!TestSeek
      <4> HIDE DEF to
      <4>2. x <= 0 /\ n + x >= 0 => n + x \in 0 .. W - 1
        BY <1>1
      <4> QED BY <4>1, <4>2
    <3>3. CASE from # "Start" /\ from # "End"
      <4>1. Entry!TestSeek(n, pos, from, x)
              = IF x = 0 THEN to(pos)
                ELSE IF x > 0 THEN IF pos + x <= n THEN to(pos + x) ELSE Entry!Fails(n, pos)
                ELSE IF x # Entry!Min_i32 /\ pos + x >= 0 THEN to(pos + x) ELSE Entry!Fails(n, pos)
        BY <3>3 DEF Entry!TestSeek
      <4> HIDE DEF to
      <4>2. /\ x > 0 /\ pos + x <= n => pos + x \in 0 .. W - 1
            /\ ~(x > 0) /\ pos + x >= 0 => pos + x \in 0 .. W - 1
            /\ pos \in 0 .. W - 1
        BY <1>1
      <4> QED BY <4>1, <4>2
    <3> QED BY <3>1, <3>2, <3>3
  <2> HIDE DEF to
  <2> QED BY <1>2, <1>3, <2>1
<1> QED BY <1>5, <1>6

\* What resizing gives is typed.
LEMMA ResizesTyped ==
  ASSUME Entry!EntriesAssumption, NEW n \in 0 .. MaxSize, NEW pos \in 0 .. W - 1, NEW z \in 0 .. MaxSize
  PROVE  /\ Given(Entry!HostResize(n, pos, z)) /\ Given(Entry!TestResize(n, pos, z))
         /\ Given(Entry!Gives(n, pos, Entry!Ok(0)))
<1>1. W \in Nat /\ MaxSize \in Nat /\ MaxSize < W /\ 0 \in 0 .. W - 1 /\ n \in Nat /\ z \in Nat
  BY EntryWord
<1> DEFINE p == IF pos > z THEN z ELSE pos
<1>2. p \in 0 .. W - 1
  BY <1>1
<1> HIDE DEF p
<1>3. Entry!HostResize(n, pos, z) = Entry!Gives(z, p, Entry!Ok(0)) /\ Entry!TestResize(n, pos, z) = Entry!Gives(z, p, Entry!Ok(0))
  BY DEF Entry!HostResize, Entry!TestResize, p
<1> QED BY <1>1, <1>2, <1>3, GivesTyped

\* An operation leaves what it gives.
LEMMA BothTyped ==
  ASSUME Entry!EntriesAssumption, EntryTyped, NEW h \in Openers, NEW a, NEW b, Entry!Both(h, a, b),
         Given(a), Given(b), \A i \in Entry!Builds : size'[i] <= MaxSize, strayed' \in BOOLEAN
  PROVE  EntryTyped'
<1>1. size' = [host |-> a.size, test |-> b.size] /\ a.size \in 0 .. MaxSize /\ b.size \in 0 .. MaxSize
  BY EntryWord DEF Entry!Both, Given, Entry!Builds
<1>2. size' \in [Entry!Builds -> 0 .. MaxSize \cup {Entry!Gone}]
  BY <1>1 DEF Entry!Builds
<1>3. size'["host"] # Entry!Gone /\ size'["test"] # Entry!Gone
  BY <1>1, EntryWord DEF Entry!Gone
<1>4. position' \in [Entry!Builds -> [Openers -> 0 .. W - 1]]
  <2>1. position' = [i \in Entry!Builds |-> [position[i] EXCEPT ![h] = IF i = "host" THEN a.position ELSE b.position]]
    BY DEF Entry!Both
  <2>2. ASSUME NEW i \in Entry!Builds
        PROVE  [position[i] EXCEPT ![h] = IF i = "host" THEN a.position ELSE b.position] \in [Openers -> 0 .. W - 1]
    <3> DEFINE v == IF i = "host" THEN a.position ELSE b.position
    <3>1. v \in 0 .. W - 1
      BY DEF Given
    <3> HIDE DEF v
    <3>2. position[i] \in [Openers -> 0 .. W - 1]
      BY DEF EntryTyped
    <3>3. [position[i] EXCEPT ![h] = v] \in [Openers -> 0 .. W - 1]
      BY <3>1, <3>2
    <3> QED BY <3>3 DEF v
  <2> QED BY <2>1, <2>2
<1>5. answers' \in [Entry!Builds -> {Entry!Err} \cup {Entry!Ok(n) : n \in 0 .. W - 1}]
  <2>1. answers' = [host |-> a.answer, test |-> b.answer]
    BY DEF Entry!Both
  <2>2. /\ a.answer \in {Entry!Err} \cup {Entry!Ok(n) : n \in 0 .. W - 1}
        /\ b.answer \in {Entry!Err} \cup {Entry!Ok(n) : n \in 0 .. W - 1}
    BY DEF Given
  <2> QED BY <2>1, <2>2 DEF Entry!Builds
<1> QED BY <1>2, <1>3, <1>4, <1>5 DEF EntryTyped

\* Sizes and positions of an entry that is there.
LEMMA EntryFinds ==
  ASSUME EntryTyped, size["host"] # Entry!Gone, NEW h \in Openers
  PROVE  /\ size["host"] \in 0 .. MaxSize /\ size["test"] \in 0 .. MaxSize
         /\ position["host"][h] \in 0 .. W - 1 /\ position["test"][h] \in 0 .. W - 1
<1>1. "host" \in Entry!Builds /\ "test" \in Entry!Builds
  BY DEF Entry!Builds
<1> QED BY <1>1 DEF EntryTyped

\* Reads and writes keep the types.
LEMMA TakesKeepTyped ==
  ASSUME Entry!EntriesAssumption, EntryTyped, NEW h \in Openers, NEW len \in Nat,
         Entry!read(h, len) \/ Entry!read_exact(h, len) \/ Entry!write(h, len)
  PROVE  EntryTyped'
<1> DEFINE n == size["host"]
           m == size["test"]
           p == position["host"][h]
           q == position["test"][h]
<1>1. size["host"] # Entry!Gone /\ \A i \in Entry!Builds : size'[i] <= MaxSize
  BY DEF Entry!read, Entry!read_exact, Entry!write, Entry!Does
<1>2. strayed' \in BOOLEAN
  BY DEF Entry!read, Entry!read_exact, Entry!write, Entry!Strays, Entry!Beyond
<1>3. n \in 0 .. MaxSize /\ m \in 0 .. MaxSize /\ p \in 0 .. W - 1 /\ q \in 0 .. W - 1
  BY <1>1, EntryFinds
<1>4. CASE Entry!read(h, len)
  <2>1. Entry!Both(h, Entry!HostRead(n, p, len), Entry!TestRead(m, q, len))
    BY <1>4 DEF Entry!read, Entry!Does
  <2> QED BY <1>1, <1>2, <1>3, <2>1, HostTakes, TestTakes, BothTyped
<1>5. CASE Entry!read_exact(h, len)
  <2>1. Entry!Both(h, Entry!HostReadExact(n, p, len), Entry!TestReadExact(m, q, len))
    BY <1>5 DEF Entry!read_exact, Entry!Does
  <2> QED BY <1>1, <1>2, <1>3, <2>1, HostTakes, TestTakes, BothTyped
<1>6. CASE Entry!write(h, len)
  <2>1. Entry!Both(h, Entry!HostWrite(n, p, len), Entry!TestWrite(m, q, len))
    BY <1>6 DEF Entry!write, Entry!Does
  <2>2. Entry!TestWrite(m, q, len).size <= MaxSize
    BY <1>1, <2>1 DEF Entry!Both, Entry!Builds
  <2> QED BY <1>1, <1>2, <1>3, <2>1, <2>2, HostTakes, TestTakes, BothTyped
<1> QED BY <1>4, <1>5, <1>6

\* Seeking keeps the types.
LEMMA SeekKeepsTyped ==
  ASSUME Entry!EntriesAssumption, EntryTyped, NEW h \in Openers, NEW from, NEW x \in Int,
         from = "Start" => x \in Nat, Entry!seek(h, from, x)
  PROVE  EntryTyped'
<1> DEFINE n == size["host"]
           m == size["test"]
           p == position["host"][h]
           q == position["test"][h]
<1>1. size["host"] # Entry!Gone /\ \A i \in Entry!Builds : size'[i] <= MaxSize
  BY DEF Entry!seek, Entry!Does
<1>2. strayed' \in BOOLEAN
  <2>1. strayed' = (Entry!HalfWord(h, from, x) \/ (from = "Current" /\ Entry!Beyond(h)))
    BY DEF Entry!seek
  <2> QED BY <2>1 DEF Entry!HalfWord
<1>3. n \in 0 .. MaxSize /\ m \in 0 .. MaxSize /\ p \in 0 .. W - 1 /\ q \in 0 .. W - 1
  BY <1>1, EntryFinds
<1>4. Entry!Both(h, Entry!HostSeek(n, p, from, x), Entry!TestSeek(m, q, from, x))
  BY DEF Entry!seek, Entry!Does
<1>5. Given(Entry!HostSeek(n, p, from, x)) /\ Given(Entry!TestSeek(m, q, from, x))
  BY <1>3, SeeksTyped
<1> QED BY <1>1, <1>2, <1>4, <1>5, BothTyped

\* Resizing keeps the types.
LEMMA ResizeKeepsTyped ==
  ASSUME Entry!EntriesAssumption, EntryTyped, NEW h \in Openers, NEW z \in 0 .. MaxSize,
         Entry!resize(h, z) \/ Entry!truncate(h, z) \/ Entry!reserve(h, z)
  PROVE  EntryTyped'
<1> DEFINE n == size["host"]
           m == size["test"]
           p == position["host"][h]
           q == position["test"][h]
<1>1. size["host"] # Entry!Gone /\ \A i \in Entry!Builds : size'[i] <= MaxSize
  BY DEF Entry!resize, Entry!truncate, Entry!reserve, Entry!Does
<1>2. strayed' \in BOOLEAN
  BY DEF Entry!resize, Entry!truncate, Entry!reserve, EntryTyped
<1>3. n \in 0 .. MaxSize /\ m \in 0 .. MaxSize /\ p \in 0 .. W - 1 /\ q \in 0 .. W - 1
  BY <1>1, EntryFinds
<1>4. /\ Given(Entry!HostResize(n, p, z)) /\ Given(Entry!TestResize(m, q, z))
      /\ Given(Entry!Gives(n, p, Entry!Ok(0))) /\ Given(Entry!Gives(m, q, Entry!Ok(0)))
  BY <1>3, ResizesTyped
<1>5. \E a \in {Entry!HostResize(n, p, z), Entry!Gives(n, p, Entry!Ok(0))},
         b \in {Entry!TestResize(m, q, z), Entry!Gives(m, q, Entry!Ok(0))} : Entry!Both(h, a, b)
  <2>1. CASE Entry!resize(h, z)
    <3>1. Entry!Both(h, Entry!HostResize(n, p, z), Entry!TestResize(m, q, z))
      BY <2>1 DEF Entry!resize, Entry!Does
    <3> QED BY <3>1
  <2>2. CASE Entry!truncate(h, z)
    <3>1. Entry!Both(h, IF n > z THEN Entry!HostResize(n, p, z) ELSE Entry!Gives(n, p, Entry!Ok(0)),
                        IF m > z THEN Entry!TestResize(m, q, z) ELSE Entry!Gives(m, q, Entry!Ok(0)))
      BY <2>2 DEF Entry!truncate, Entry!Does
    <3> HIDE DEF n, m, p, q
    <3> QED BY <3>1
  <2>3. CASE Entry!reserve(h, z)
    <3>1. Entry!Both(h, IF n < z THEN Entry!HostResize(n, p, z) ELSE Entry!Gives(n, p, Entry!Ok(0)),
                        IF m < z THEN Entry!TestResize(m, q, z) ELSE Entry!Gives(m, q, Entry!Ok(0)))
      BY <2>3 DEF Entry!reserve, Entry!Does
    <3> HIDE DEF n, m, p, q
    <3> QED BY <3>1
  <2> QED BY <2>1, <2>2, <2>3
<1>6. PICK a \in {Entry!HostResize(n, p, z), Entry!Gives(n, p, Entry!Ok(0))},
           b \in {Entry!TestResize(m, q, z), Entry!Gives(m, q, Entry!Ok(0))} : Entry!Both(h, a, b)
  BY <1>5
<1> HIDE DEF n, m, p, q
<1>7. Given(a) /\ Given(b)
  BY <1>4, <1>6
<1> QED BY <1>1, <1>2, <1>6, <1>7, BothTyped

\* Every step keeps the types of the entries.
LEMMA EntryKeepsTyped ==
  ASSUME Entry!EntriesAssumption, EntryTyped, [Entry!Next]_entry
  PROVE  EntryTyped'
<1>1. W \in Nat /\ MaxSize \in Nat /\ 0 \in 0 .. W - 1 /\ MaxBuf \in Nat
  BY EntryWord DEF Entry!EntriesAssumption
<1>2. ASSUME NEW h \in Openers, Entry!move_to_start(h)
      PROVE  EntryTyped'
  <2>1. position' = [b \in Entry!Builds |-> [position[b] EXCEPT ![h] = 0]]
    BY <1>2 DEF Entry!move_to_start
  <2>2. \A b \in Entry!Builds : [position[b] EXCEPT ![h] = 0] \in [Openers -> 0 .. W - 1]
    BY <1>1 DEF EntryTyped
  <2>3. position' \in [Entry!Builds -> [Openers -> 0 .. W - 1]]
    BY <2>1, <2>2
  <2> QED BY <1>2, <2>3 DEF EntryTyped, Entry!move_to_start
<1>3. CASE Entry!delete_prefix
  BY <1>3 DEF EntryTyped, Entry!delete_prefix, Entry!Builds
<1>4. CASE Entry!UseDeleted
  BY <1>4 DEF EntryTyped, Entry!UseDeleted, Entry!Builds
<1>5. ASSUME NEW h \in Openers, NEW len \in 0 .. MaxBuf,
             Entry!read(h, len) \/ Entry!read_exact(h, len) \/ Entry!write(h, len)
      PROVE  EntryTyped'
  BY <1>1, <1>5, TakesKeepTyped
<1>6. ASSUME NEW h \in Openers, NEW z \in 0 .. MaxSize,
             Entry!resize(h, z) \/ Entry!truncate(h, z) \/ Entry!reserve(h, z)
      PROVE  EntryTyped'
  BY <1>6, ResizeKeepsTyped
<1>7. ASSUME NEW h \in Openers, NEW x \in 0 .. W - 1, Entry!seek(h, "Start", x)
      PROVE  EntryTyped'
  BY <1>1, <1>7, SeekKeepsTyped
<1>8. ASSUME NEW h \in Openers, NEW from \in {"End", "Current"}, NEW x \in Entry!i32, Entry!seek(h, from, x)
      PROVE  EntryTyped'
  <2>1. x \in Int
    <3>1. Entry!Min_i32 \in Int /\ W \div 2 - 1 \in Int
      BY <1>1 DEF Entry!Min_i32
    <3> QED BY <1>8, <3>1 DEF Entry!i32
  <2> QED BY <1>8, <2>1, SeekKeepsTyped
<1>9. CASE UNCHANGED entry
  BY <1>9 DEF entry, EntryTyped
<1> QED BY <1>2, <1>3, <1>4, <1>5, <1>6, <1>7, <1>8, <1>9 DEF Entry!Next

\* They are the type invariant of Entries.
LEMMA EntryRight == EntryTyped => Entry!TypeOK
BY DEF EntryTyped, Entry!TypeOK

\* Calls nest no deeper than MaxDepth.
LEMMA DepthKeeps ==
  ASSUME Ext!ExternHostAssumption, HostInv, Len(frames) <= MaxDepth, [Ext!Next]_extern
  PROVE  Len(frames') <= MaxDepth
<1>1. MaxDepth \in Nat /\ frames \in Seq(Ext!Frames) /\ Len(frames) \in Nat
  BY DEF Ext!ExternHostAssumption, HostInv, HostTyped
<1>2. frames # <<>> => /\ Front(frames) \in Seq(Ext!Frames) /\ Len(Front(frames)) = Len(frames) - 1
                       /\ Ext!Front(frames) = Front(frames)
  BY <1>1, FrontLast, HostSequences
<1>3. ASSUME NEW f, frames # <<>>, frames' = Ext!Top(f) PROVE Len(frames') <= MaxDepth
  <2>1. frames' = Append(Front(frames), f)
    BY <1>3, HostSequences
  <2>2. Front(frames) \in Seq(Ext!Frames \cup {f})
    BY <1>2, <1>3
  <2>3. Len(frames') = Len(Front(frames)) + 1
    BY <2>1, <2>2
  <2> QED BY <1>1, <1>2, <1>3, <2>3
<1>4. ASSUME NEW c, frames # <<>>, Ext!Leave(c) PROVE Len(frames') <= MaxDepth
  <2>1. CASE Len(frames) = 1
    <3>1. frames' = <<>>
      BY <1>4, <2>1 DEF Ext!Leave
    <3> QED BY <1>1, <3>1
  <2>2. CASE Len(frames) # 1
    <3> DEFINE r == Front(frames)
               k == Len(frames) - 1
               v == r[k].changed \/ c
    <3>1. frames' = [r EXCEPT ![k].changed = @ \/ c]
      BY <1>2, <1>4, <2>2 DEF Ext!Leave
    <3>2. r \in Seq(Ext!Frames) /\ DOMAIN r = 1 .. k /\ k \in Nat /\ k <= MaxDepth
      BY <1>1, <1>2, <1>4
    <3> HIDE DEF r, k
    <3>3. DOMAIN frames' = 1 .. k
      BY <3>1, <3>2
    <3>4. Len(frames') = k
      BY <3>1, <3>2, <3>3
    <3> QED BY <3>2, <3>4
  <2> QED BY <2>1, <2>2
<1>5. CASE \E mutable \in BOOLEAN : Ext!Enter(mutable)
  <2>1. PICK mutable \in BOOLEAN : Ext!Enter(mutable)
    BY <1>5
  <2>2. Len(frames) < MaxDepth /\ \E f : frames' = Append(frames, f)
    BY <2>1 DEF Ext!Enter
  <2>3. PICK f : frames' = Append(frames, f)
    BY <2>2
  <2>4. frames \in Seq(Ext!Frames \cup {f})
    BY <1>1
  <2>5. Len(frames') = Len(frames) + 1
    BY <2>3, <2>4
  <2> QED BY <1>1, <2>2, <2>5
<1>6. ASSUME \/ \E v \in FieldValues : Ext!SetPlain(v) \/ Ext!BoxGetMut(v) \/ Ext!BoxUpdate(v)
             \/ Ext!BoxGet \/ Ext!invoke_contract_raw \/ Ext!invoke_contract_raw_read_only
             \/ Ext!Unchanged \/ Ext!Refresh \/ Ext!ReturnErr
      PROVE  Len(frames') <= MaxDepth
  <2>1. frames # <<>> /\ \E f : frames' = Ext!Top(f)
    BY <1>6 DEF Ext!SetPlain, Ext!BoxGetMut, Ext!BoxUpdate, Ext!BoxGet, Ext!invoke_contract_raw,
                Ext!invoke_contract_raw_read_only, Ext!Unchanged, Ext!Refresh, Ext!ReturnErr,
                Ext!Running, Ext!Calling
  <2> QED BY <1>3, <2>1
<1>7. CASE Ext!Exit \/ Ext!Fail \/ Ext!TrapOnReturn
  <2>1. frames # <<>> /\ \E c : Ext!Leave(c)
    BY <1>7 DEF Ext!Exit, Ext!Fail, Ext!TrapOnReturn, Ext!Running, Ext!Calling
  <2> QED BY <1>4, <2>1
<1>8. CASE UNCHANGED extern
  BY <1>8 DEF extern
<1> QED BY <1>5, <1>6, <1>7, <1>8 DEF Ext!Next

\* The type invariant of the call's host.
LEMMA HostRight ==
  ASSUME HostInv, Len(frames) <= MaxDepth PROVE Ext!TypeOK
BY DEF HostInv, HostTyped, Ext!TypeOK

\* The type invariant of the test host.
LEMMA TestRight == ASSUME TestInv PROVE Mocked!TypeOK
BY DEF TestInv, TestTyped, Instance, Mocked!TypeOK

-----------------------------------------------------------------------------
\* Bytes that a value may have, whole or over the rest of a longer one.
Bounded(bytes) ==
  /\ bytes \in Seq(Value!Values) /\ Len(bytes) \in 1 .. MaxLen + 1

ValueBounded ==
  /\ data = Value!Absent \/ Bounded(data)
  /\ latest \in Value!Values \cup {Value!None}
  /\ occ = Value!Closed \/ occ.pos \in 0 .. MaxLen + 1

\* The bytes of a value are bounded.
LEMMA SerialBounded ==
  ASSUME MaxLen \in Nat, NEW v \in Value!Values
  PROVE  Bounded(Value!serial(v)) /\ Len(Value!serial(v)) = v + 1
<1> DEFINE s == Value!serial(v)
<1>1. v \in Nat /\ v <= MaxLen
  BY DEF Value!Values
<1>2. s \in Seq(Nat) /\ Len(s) = v + 1 /\ \A i \in 1 .. v + 1 : s[i] = v
  <2>1. Holds(s, v) /\ Len(s) = v + 1
    BY <1>1, Serials
  <2> HIDE DEF s
  <2> QED BY <2>1 DEF Holds
<1> HIDE DEF s
<1>3. s \in [1 .. v + 1 -> Value!Values]
  <2>1. \A i \in 1 .. v + 1 : s[i] \in Value!Values
    BY <1>2
  <2>2. DOMAIN s = 1 .. v + 1 /\ s = [i \in DOMAIN s |-> s[i]]
    BY <1>2
  <2> QED BY <2>1, <2>2
<1>4. s \in Seq(Value!Values)
  BY <1>1, <1>3
<1> QED BY <1>1, <1>2, <1>4 DEF Bounded, s

\* Writing over bounded bytes leaves bounded bytes.
LEMMA WrittenBounded ==
  ASSUME MaxLen \in Nat, NEW v \in Value!Values, NEW bytes \in Seq(Value!Values), Len(bytes) <= MaxLen + 1
  PROVE  /\ Bounded(Value!Written(bytes, 0, v))
         /\ Bounded(SubSeq(Value!Written(bytes, 0, v), 1, Len(Value!serial(v))))
<1> DEFINE new == Value!serial(v)
           n == IF v + 1 > Len(bytes) THEN v + 1 ELSE Len(bytes)
           w == [i \in 1 .. n |-> IF i \in 1 .. v + 1 THEN new[i] ELSE bytes[i]]
<1>1. new \in Seq(Value!Values) /\ Len(new) = v + 1 /\ v \in Nat /\ v <= MaxLen
  <2>1. Bounded(new) /\ Len(new) = v + 1
    BY SerialBounded
  <2>2. v \in Nat /\ v <= MaxLen
    BY DEF Value!Values
  <2> HIDE DEF new
  <2> QED BY <2>1, <2>2 DEF Bounded
<1>2. n \in Nat /\ n >= v + 1 /\ n <= MaxLen + 1 /\ Len(bytes) \in Nat
      /\ \A i \in 1 .. n : i \in 1 .. v + 1 \/ i \in 1 .. Len(bytes)
  BY <1>1
<1> HIDE DEF new
<1>3. Value!Written(bytes, 0, v) = w
  <2>1. Value!Written(bytes, 0, v)
          = [i \in 1 .. n |-> IF i \in 1 .. v + 1 THEN new[i - 0] ELSE bytes[i]]
    BY <1>1, <1>2 DEF Value!Written, new
  <2> QED BY <1>2, <2>1
<1> HIDE DEF n
<1>4. w \in Seq(Value!Values) /\ Len(w) = n
  <2>1. \A i \in 1 .. n : (IF i \in 1 .. v + 1 THEN new[i] ELSE bytes[i]) \in Value!Values
    BY <1>1, <1>2
  <2>2. w \in [1 .. n -> Value!Values]
    BY <2>1
  <2> QED BY <1>1, <1>2, <2>2
<1> HIDE DEF w
<1>5. Bounded(w)
  BY <1>1, <1>2, <1>4 DEF Bounded
<1>6. Bounded(SubSeq(w, 1, v + 1))
  <2>1. v + 1 \in Nat /\ v + 1 <= Len(w)
    BY <1>1, <1>2, <1>4
  <2>2. SubSeq(w, 1, v + 1) \in Seq(Value!Values) /\ Len(SubSeq(w, 1, v + 1)) = v + 1
    BY <1>4, <2>1
  <2> QED BY <1>1, <2>2 DEF Bounded
<1> QED BY <1>1, <1>3, <1>5, <1>6 DEF new

\* What is stored into the entry, over what is there or from its start.
LEMMA Stores ==
  ASSUME MaxLen \in Nat, ValueBounded, NEW v \in Value!Values
  PROVE  /\ Bounded(Value!serial(v))
         /\ Bounded(Value!Written(data, 0, v)) /\ Bounded(Value!Written(<<>>, 0, v))
         /\ Bounded(SubSeq(Value!Written(data, 0, v), 1, Len(Value!serial(v))))
<1> DEFINE empty == <<>>
<1>1. empty \in Seq(Value!Values) /\ Len(empty) <= MaxLen + 1
  OBVIOUS
<1>2. data \in Seq(Value!Values) /\ Len(data) <= MaxLen + 1
  <2>1. CASE data = empty
    BY <1>1, <2>1
  <2>2. CASE data # empty
    <3>1. Bounded(data)
      BY <2>2 DEF ValueBounded, Value!Absent
    <3> QED BY <3>1 DEF Bounded
  <2> QED BY <2>1, <2>2
<1> HIDE DEF empty
<1>3. Bounded(Value!Written(empty, 0, v))
  BY <1>1, WrittenBounded
<1> QED BY <1>2, <1>3, SerialBounded, WrittenBounded DEF empty

\* The bytes of the map entry stay bounded.
LEMMA BoundedKeeps ==
  ASSUME Value!MapEntryAssumption, ValueInv, ValueBounded, [Value!Next]_value
  PROVE  ValueBounded'
<1>1. MaxLen \in Nat
  BY DEF Value!MapEntryAssumption
<1>2. ASSUME UNCHANGED <<data, latest, occ>> PROVE ValueBounded'
  BY <1>2 DEF ValueBounded
<1>3. CASE Value!get \/ UNCHANGED value \/ \E r \in Refs : Value!get_mut(r) \/ Value!RefGet(r)
  BY <1>2, <1>3 DEF Value!get, value, Value!get_mut, Value!RefGet
<1>4. CASE Value!remove_and_get
  BY <1>4 DEF Value!remove_and_get, ValueBounded
<1>5. CASE Value!EntryOccupied
  <2> DEFINE w == Value!deserial(data)
             o == Value!OccupiedEntry(Len(Value!serial(w)), w, FALSE)
  <2>1. occ' = o /\ data # Value!Absent /\ UNCHANGED <<data, latest>>
    BY <1>5 DEF Value!EntryOccupied
  <2>2. w \in Value!Values
    BY <2>1, ValueFacts DEF ValueInv, ValueTyped
  <2> HIDE DEF w
  <2>3. Len(Value!serial(w)) \in 0 .. MaxLen + 1
    BY <1>1, <2>2, SerialBounded DEF Value!Values
  <2>4. o.pos \in 0 .. MaxLen + 1
    BY <2>3 DEF Value!OccupiedEntry
  <2> HIDE DEF o
  <2> QED BY <2>1, <2>4 DEF ValueBounded
<1>6. ASSUME NEW v \in Value!Values, Value!insert(v) \/ Value!insert_raw(v)
      PROVE  ValueBounded'
  <2>1. Bounded(data') /\ latest' = v /\ occ' = occ
    BY <1>1, <1>6, Stores DEF Value!insert, Value!insert_raw, Value!Assigns
  <2> QED BY <2>1 DEF ValueBounded
<1>7. ASSUME NEW v \in Value!Values, Value!EntryVacant(v)
      PROVE  ValueBounded'
  <2>1. Bounded(data') /\ latest' = v /\ occ' = Value!OccupiedEntry(0, v, FALSE)
    BY <1>1, <1>7, Stores DEF Value!EntryVacant, Value!Assigns
  <2>2. occ'.pos \in 0 .. MaxLen + 1
    BY <1>1, <2>1 DEF Value!OccupiedEntry
  <2> QED BY <2>1, <2>2 DEF ValueBounded
<1>8. ASSUME NEW v \in Value!Values, Value!OccDerefMut(v) \/ Value!modify(v)
      PROVE  ValueBounded'
  <2>1. occ.open /\ occ \in Occupied /\ occ.pos \in 0 .. MaxLen + 1
    <3>1. occ.open
      BY <1>8 DEF Value!OccDerefMut, Value!modify
    <3>2. occ # Value!Closed
      BY <3>1 DEF Value!Closed
    <3> QED BY <3>1, <3>2 DEF ValueInv, ValueTyped, ValueBounded
  <2>2. CASE Value!OccDerefMut(v)
    <3>1. occ' = [occ EXCEPT !.value = v, !.modified = TRUE] /\ latest' = v /\ data' = data
      BY <2>2 DEF Value!OccDerefMut, Value!Assigns
    <3>2. occ'.pos = occ.pos
      BY <2>1, <3>1 DEF Occupied
    <3> QED BY <2>1, <3>1, <3>2 DEF ValueBounded
  <2>3. CASE Value!modify(v)
    <3> DEFINE n == Value!Clamped(occ.pos, 0) + Len(Value!serial(v))
    <3>1. Value!Clamped(occ.pos, 0) = 0
      BY <2>1 DEF Value!Clamped
    <3>2. data' = Value!Written(<<>>, 0, v) /\ latest' = v /\ occ' = [occ EXCEPT !.value = v, !.pos = n]
      BY <2>3, <3>1 DEF Value!modify, Value!store_value, Value!Assigns
    <3>3. n \in 0 .. MaxLen + 1
      BY <1>1, <3>1, SerialBounded DEF Value!Values
    <3> HIDE DEF n
    <3>4. occ'.pos = n
      BY <2>1, <3>2 DEF Occupied
    <3>5. Bounded(data')
      BY <1>1, <3>2, Stores
    <3> QED BY <3>2, <3>3, <3>4, <3>5 DEF ValueBounded
  <2> QED BY <1>8, <2>2, <2>3
<1>9. CASE Value!OccDrop
  <2>1. occ.open /\ occ' = Value!Closed /\ latest' = latest
        /\ IF occ.modified THEN data' = Value!Written(<<>>, Value!Clamped(occ.pos, 0), occ.value) ELSE data' = data
    BY <1>9 DEF Value!OccDrop, Value!store_value
  <2>2. occ \in Occupied
    <3>1. occ # Value!Closed
      BY <2>1 DEF Value!Closed
    <3> QED BY <3>1 DEF ValueInv, ValueTyped
  <2>3. Value!Clamped(occ.pos, 0) = 0 /\ occ.value \in Value!Values
    BY <2>2 DEF Value!Clamped, Occupied
  <2>4. data' = data \/ Bounded(data')
    BY <1>1, <2>1, <2>3, Stores
  <2> QED BY <2>1, <2>4 DEF ValueBounded
<1>10. ASSUME NEW r \in Refs, Value!RefDrop(r) PROVE ValueBounded'
  <2>1. /\ refs[r].open /\ UNCHANGED <<occ, latest>>
        /\ data' = IF refs[r].lazy_value = Value!None THEN data ELSE Value!Written(data, 0, refs[r].lazy_value)
    BY <1>10 DEF Value!RefDrop
  <2>2. refs[r].lazy_value = Value!None \/ refs[r].lazy_value \in Value!Values
    <3>1. refs[r] # Value!Closed
      BY <2>1 DEF Value!Closed
    <3>2. refs[r] \in Reference
      BY <3>1 DEF ValueInv, ValueTyped
    <3> QED BY <3>2 DEF Reference
  <2>3. data' = data \/ Bounded(data')
    BY <1>1, <2>1, <2>2, Stores
  <2> QED BY <2>1, <2>3 DEF ValueBounded
<1>11. ASSUME NEW r \in Refs, NEW v \in Value!Values, Value!RefGetMut(r, v) \/ Value!set(r, v) \/ Value!update(r, v)
       PROVE  ValueBounded'
  <2>1. latest' = v /\ occ' = occ /\ (data' = data \/ data' = Value!Written(data, 0, v))
    BY <1>11 DEF Value!RefGetMut, Value!set, Value!update, Value!Assigns
  <2>2. data' = data \/ Bounded(data')
    BY <1>1, <2>1, Stores
  <2> QED BY <2>1, <2>2 DEF ValueBounded
<1> QED BY <1>3, <1>4, <1>5, <1>6, <1>7, <1>8, <1>9, <1>10, <1>11 DEF Value!Next, Value!or_insert

\* The type invariant of the map entry.
LEMMA ValueRight == ASSUME MaxLen \in Nat, ValueInv, ValueBounded PROVE Value!TypeOK
<1>1. data = Value!Absent \/ (Len(data) \in 1 .. MaxLen + 1 /\ \A i \in DOMAIN data : data[i] \in Value!Values)
  BY DEF ValueBounded, Bounded
<1>2. \A r \in Refs : refs[r] = Value!Closed \/ refs[r].lazy_value \in Value!Values \cup {Value!None}
  BY DEF ValueInv, ValueTyped, Reference
<1>3. occ = Value!Closed \/ occ \in [open : {TRUE}, pos : 0 .. MaxLen + 1, value : Value!Values, modified : BOOLEAN]
  BY DEF ValueInv, ValueTyped, ValueBounded, Occupied
<1> QED BY <1>1, <1>2, <1>3 DEF ValueInv, ValueTyped, ValueBounded, Value!TypeOK

-----------------------------------------------------------------------------
\* Keys, cells and iterators stay within their bounds, and handles have both.
TrieTyped ==
  /\ DOMAIN nodes \subseteq Tree!Keys
  /\ \A k \in DOMAIN nodes : nodes[k] \in 1 .. Len(cells)
  /\ Len(cells) <= MaxCells
  /\ entries \subseteq Tree!Handles
  /\ Len(iters) <= MaxIters
  /\ \A i \in DOMAIN iters : iters[i].prefix \in Tree!Keys

\* The types of the trie hold at the start.
LEMMA TrieTypedStarts ==
  ASSUME Tree!TrieAssumption, Tree!Init
  PROVE  TrieTyped
<1>1. MaxCells \in Nat /\ MaxIters \in Nat
  BY DEF Tree!TrieAssumption
<1> QED BY <1>1 DEF TrieTyped, Tree!Init

\* The handle of a node is typed.
LEMMA HandleTyped ==
  ASSUME Tree!TrieAssumption, TrieInv, TrieTyped, NEW k \in DOMAIN nodes
  PROVE  Tree!Handle(k) \in Tree!Handles
<1>1. k \in Tree!Keys /\ nodes[k] \in 1 .. Len(cells) /\ Len(cells) <= MaxCells
  BY DEF TrieTyped
<1>2. Len(cells) \in Nat /\ MaxCells \in Nat
  BY DEF TrieInv, Tree!TrieAssumption
<1>3. nodes[k] \in Tree!Cells
  BY <1>1, <1>2 DEF Tree!Cells
<1> QED BY <1>1, <1>3 DEF Tree!Handle, Tree!Handles

\* An iterator has handles of entries of the tree.
LEMMA QueueTyped ==
  ASSUME Tree!TrieAssumption, TrieInv, TrieTyped, NEW i \in DOMAIN iters
  PROVE  /\ iters[i].queue \in Seq([key : Seq(Nat), cell : Nat])
         /\ \A j \in 1 .. Len(iters[i].queue) : iters[i].queue[j] \in Tree!Handles
<1> DEFINE q == iters[i].queue
           p == iters[i].prefix
           now == Tree!build_queue(p)
<1>1. iters[i] \in Iterators /\ Rest(q, Walks[p])
  BY DEF TrieInv
<1>2. q \in Seq([key : Seq(Nat), cell : Nat]) /\ p \in Seq(Nat)
  BY <1>1 DEF Iterators
<1>3. Walks[p] = now
  BY <1>2 DEF Walks
<1>4. now \in Seq(Below(p))
  BY Walk DEF TrieInv
<1> HIDE DEF now
<1>5. Len(q) <= Len(now) /\ q = SubSeq(now, Len(now) - Len(q) + 1, Len(now))
  BY <1>1, <1>3 DEF Rest
<1> HIDE DEF q, p
<1>6. \A e \in Below(p) : e \in Tree!Handles
  BY HandleTyped DEF Below
<1>7. ASSUME NEW j \in 1 .. Len(q) PROVE q[j] \in Below(p)
  <2> DEFINE n == Len(now)
             m == Len(q)
  <2>1. n \in Nat /\ m \in Nat /\ m <= n /\ j \in 1 .. m
    BY <1>2, <1>4, <1>5, <1>7
  <2>2. q = SubSeq(now, n - m + 1, n)
    BY <1>5
  <2> HIDE DEF m
  <2>3. n - m + 1 \in 1 .. n + 1 /\ n - m + j \in 1 .. n
    BY <2>1
  <2>4. q[j] = now[n - m + j]
    <3> DEFINE a == n - m + 1
    <3>1. a \in Nat /\ 1 <= a /\ j \in 1 .. n - a + 1 /\ a + j - 1 = n - m + j
      BY <2>1
    <3> HIDE DEF a
    <3>2. SubSeq(now, a, n)[j] = now[a + j - 1]
      BY <1>4, <2>1, <3>1
    <3> QED BY <2>2, <3>1, <3>2 DEF a
  <2> QED BY <1>4, <2>3, <2>4
<1> QED BY <1>2, <1>6, <1>7 DEF q

\* Every step keeps the types of the trie.
LEMMA TrieKeepsTyped ==
  ASSUME Tree!TrieAssumption, TrieInv, TrieTyped, [Tree!Next]_tree
  PROVE  TrieTyped'
<1>1. /\ MaxCells \in Nat /\ MaxIters \in Nat /\ Len(cells) \in Nat /\ Len(iters) \in Nat
      /\ cells \in Seq({Tree!EntryExists, Tree!EntryDeleted}) /\ iters \in Seq(Iterators)
      /\ DOMAIN cells = 1 .. Len(cells) /\ DOMAIN iters = 1 .. Len(iters)
  BY DEF Tree!TrieAssumption, TrieInv
<1>2. /\ DOMAIN nodes \subseteq Tree!Keys /\ \A k \in DOMAIN nodes : nodes[k] \in 1 .. Len(cells)
      /\ Len(cells) <= MaxCells /\ entries \subseteq Tree!Handles
      /\ Len(iters) <= MaxIters /\ \A i \in DOMAIN iters : iters[i].prefix \in Tree!Keys
  BY DEF TrieTyped
<1>3. ASSUME NEW k \in Tree!Keys, Tree!create_entry(k) PROVE TrieTyped'
  <2> DEFINE n == Len(cells) + 1
  <2>1. n <= MaxCells /\ cells' = Append(cells, Tree!EntryExists)
        /\ nodes' = Tree!With(nodes, k, Len(cells'))
        /\ entries' = entries \cup {[key |-> k, cell |-> Len(cells')]} /\ iters' = iters
    BY <1>1, <1>3 DEF Tree!create_entry, Tree!Opens
  <2>2. Len(cells') = n
    BY <1>1, <2>1
  <2>3. n \in 1 .. MaxCells
    BY <1>1, <2>1
  <2>4. [key |-> k, cell |-> n] \in Tree!Handles
    BY <2>3 DEF Tree!Handles, Tree!Cells
  <2>5. DOMAIN nodes' = DOMAIN nodes \cup {k} /\ \A j \in DOMAIN nodes' : nodes'[j] = IF j = k THEN n ELSE nodes[j]
    BY <2>1, <2>2 DEF Tree!With
  <2>6. \A j \in DOMAIN nodes' : nodes'[j] \in 1 .. n
    <3>1. \A j \in DOMAIN nodes : nodes[j] \in 1 .. n
      BY <1>1, <1>2
    <3>2. n \in 1 .. n
      BY <1>1
    <3> HIDE DEF n
    <3> QED BY <2>5, <3>1, <3>2
  <2> HIDE DEF n
  <2> QED BY <1>2, <2>1, <2>2, <2>3, <2>4, <2>5, <2>6 DEF TrieTyped
<1>4. ASSUME NEW k \in Tree!Keys, Tree!lookup(k) PROVE TrieTyped'
  <2>1. k \in DOMAIN nodes /\ entries' = entries \cup {Tree!Handle(k)} /\ UNCHANGED <<nodes, cells, iters>>
    BY <1>4 DEF Tree!lookup, Tree!Opens
  <2>2. Tree!Handle(k) \in Tree!Handles
    BY <2>1, HandleTyped
  <2> QED BY <2>1, <2>2 DEF TrieTyped
<1>5. ASSUME NEW k \in Tree!Keys, Tree!delete_prefix(k) PROVE TrieTyped'
  <2>1. /\ \E C : cells' = [c \in DOMAIN cells |-> C[c]]
        /\ \E D : nodes' = Tree!Without(nodes, D)
        /\ UNCHANGED <<entries, iters>>
    <3> DEFINE walked == {e.cell : e \in Tree!ToSet(Tree!build_queue(k))}
               C == [c \in DOMAIN cells |-> IF c \in walked THEN Tree!EntryDeleted ELSE cells[c]]
    <3>1. cells' = C /\ UNCHANGED <<entries, iters>>
          /\ nodes' = Tree!Without(nodes, {j \in DOMAIN nodes : Tree!IsPrefix(k, j)})
      BY <1>5 DEF Tree!delete_prefix
    <3>2. C = [c \in DOMAIN cells |-> C[c]]
      OBVIOUS
    <3> QED BY <3>1, <3>2
  <2>2. DOMAIN cells' = 1 .. Len(cells)
    BY <1>1, <2>1
  <2>3. Len(cells') = Len(cells)
    <3>1. TrieInv'
      BY <1>5, DeletePrefixKeeps
    <3>2. cells' \in Seq({Tree!EntryExists, Tree!EntryDeleted})
      BY <3>1 DEF TrieInv
    <3>3. DOMAIN cells' = 1 .. Len(cells') /\ Len(cells') \in Nat
      BY <3>2
    <3> QED BY <1>1, <2>2, <3>3
  <2>4. DOMAIN nodes' \subseteq DOMAIN nodes /\ \A j \in DOMAIN nodes' : nodes'[j] = nodes[j]
    BY <2>1 DEF Tree!Without
  <2> QED BY <1>2, <2>1, <2>3, <2>4 DEF TrieTyped
<1>6. ASSUME NEW e \in entries, Tree!delete_entry(e) \/ Tree!close(e) PROVE TrieTyped'
  <2>1. /\ entries' \subseteq entries /\ UNCHANGED <<cells, iters>>
        /\ nodes' = nodes \/ nodes' = Tree!Without(nodes, {e.key})
    BY <1>6 DEF Tree!delete_entry, Tree!close
  <2>2. DOMAIN nodes' \subseteq DOMAIN nodes /\ \A j \in DOMAIN nodes' : nodes'[j] = nodes[j]
    BY <2>1 DEF Tree!Without
  <2> QED BY <1>2, <2>1, <2>2 DEF TrieTyped
<1>7. ASSUME NEW k \in Tree!Keys, Tree!iterator(k) PROVE TrieTyped'
  <2> DEFINE x == [prefix |-> k, queue |-> Tree!build_queue(k)]
             n == Len(iters)
  <2>1. n < MaxIters /\ iters' = Append(iters, x) /\ UNCHANGED <<nodes, cells, entries>>
    BY <1>7 DEF Tree!iterator
  <2>2. x.prefix = k
    OBVIOUS
  <2> HIDE DEF x
  <2>3. iters \in Seq(Iterators \cup {x})
    BY <1>1
  <2>4. Len(iters') = n + 1 /\ DOMAIN iters' = 1 .. n + 1 /\ iters'[n + 1] = x /\ \A i \in 1 .. n : iters'[i] = iters[i]
    BY <2>1, <2>3
  <2>5. \A i \in 1 .. n + 1 : i \in 1 .. n \/ i = n + 1
    BY <1>1
  <2>6. \A i \in DOMAIN iters' : iters'[i].prefix \in Tree!Keys
    BY <1>1, <1>2, <2>2, <2>4, <2>5
  <2>7. Len(iters') <= MaxIters
    BY <1>1, <2>1, <2>4
  <2> QED BY <1>2, <2>1, <2>6, <2>7 DEF TrieTyped
<1>8. ASSUME NEW i \in DOMAIN iters, Tree!next(i) PROVE TrieTyped'
  <2> DEFINE q == iters[i].queue
             x == [iters[i] EXCEPT !.queue = Tail(@)]
  <2>1. q # <<>> /\ entries' = entries \cup {Head(q)} /\ iters' = [iters EXCEPT ![i] = x] /\ UNCHANGED <<nodes, cells>>
    BY <1>8 DEF Tree!next, Tree!Opens
  <2>2. Head(q) \in Tree!Handles
    <3>1. q \in Seq([key : Seq(Nat), cell : Nat]) /\ \A j \in 1 .. Len(q) : q[j] \in Tree!Handles
      BY <1>8, QueueTyped
    <3> HIDE DEF q
    <3>2. Head(q) = q[1] /\ 1 \in 1 .. Len(q)
      BY <2>1, <3>1
    <3> QED BY <3>1, <3>2
  <2>3. x.prefix = iters[i].prefix /\ x \in [DOMAIN iters[i] -> {x[f] : f \in DOMAIN iters[i]}]
    <3>1. iters[i] \in Iterators
      BY <1>1
    <3> QED BY <3>1 DEF Iterators
  <2> HIDE DEF x
  <2>4. Len(iters') = Len(iters) /\ DOMAIN iters' = DOMAIN iters
        /\ \A j \in DOMAIN iters : iters'[j] = IF j = i THEN x ELSE iters[j]
    BY <1>1, <2>1
  <2> QED BY <1>2, <2>1, <2>2, <2>3, <2>4 DEF TrieTyped
<1>9. ASSUME NEW i \in DOMAIN iters, Tree!delete_iterator(i) PROVE TrieTyped'
  <2>1. iters' = Tree!RemoveAt(iters, i) /\ UNCHANGED <<nodes, cells, entries>>
    BY <1>9 DEF Tree!delete_iterator
  <2>2. /\ iters' \in Seq(Iterators) /\ Len(iters') = Len(iters) - 1
        /\ \A j \in 1 .. Len(iters) - 1 : iters'[j] = IF j < i THEN iters[j] ELSE iters[j + 1]
    BY <1>1, <1>9, <2>1, RemovedAt
  <2>3. \A j \in DOMAIN iters' : j \in DOMAIN iters /\ j + 1 \in DOMAIN iters
    <3>1. DOMAIN iters' = 1 .. Len(iters) - 1
      BY <2>2
    <3> QED BY <1>1, <3>1
  <2>4. \A j \in DOMAIN iters' : iters'[j] = iters[j] \/ iters'[j] = iters[j + 1]
    <3>1. DOMAIN iters' = 1 .. Len(iters) - 1
      BY <2>2
    <3> QED BY <2>2, <3>1
  <2>5. \A j \in DOMAIN iters' : iters'[j].prefix \in Tree!Keys
    BY <1>2, <2>3, <2>4
  <2>6. Len(iters') <= MaxIters
    BY <1>1, <1>2, <2>2
  <2> QED BY <1>2, <2>1, <2>5, <2>6 DEF TrieTyped
<1>10. CASE UNCHANGED tree
  BY <1>10 DEF tree, TrieTyped
<1> QED BY <1>3, <1>4, <1>5, <1>6, <1>7, <1>8, <1>9, <1>10 DEF Tree!Next

\* The type invariant of the trie.
LEMMA TrieRight ==
  ASSUME Tree!TrieAssumption, TrieInv, TrieTyped
  PROVE  Tree!TypeOK
<1>1. Len(iters) \in Nat /\ Len(iters) <= MaxIters /\ MaxIters \in Nat /\ DOMAIN iters = 1 .. Len(iters)
      /\ cells \in Seq({Tree!EntryExists, Tree!EntryDeleted}) /\ DOMAIN cells = 1 .. Len(cells)
  BY DEF TrieInv, TrieTyped, Tree!TrieAssumption
<1>2. ASSUME NEW p \in DOMAIN iterator_counts
      PROVE  iterator_counts[p] \in 1 .. MaxIters /\ p \in Tree!Keys
  <2>1. PICK i \in DOMAIN iters : iters[i].prefix = p
    BY <1>2 DEF TrieInv, Counted
  <2>2. i \in Of(p) /\ p \in Tree!Keys
    BY <2>1 DEF Of, TrieTyped
  <2>3. Of(p) \subseteq 1 .. Len(iters) /\ IsFiniteSet(Of(p)) /\ Cardinality(Of(p)) \in Nat
    BY OfFinite
  <2>4. IsFiniteSet(1 .. Len(iters)) /\ Cardinality(1 .. Len(iters)) = Len(iters)
    <3>1. 1 \in Int /\ Len(iters) \in Int
      BY <1>1
    <3>2. IsFiniteSet(1 .. Len(iters)) /\ Cardinality(1 .. Len(iters)) = IF 1 > Len(iters) THEN 0 ELSE Len(iters) - 1 + 1
      BY <3>1, FS_Interval
    <3> QED BY <1>1, <3>2
  <2>5. Cardinality(Of(p)) <= Len(iters)
    BY <2>3, <2>4, FS_Subset
  <2>6. Cardinality(Of(p)) # 0
    BY <2>2, <2>3, FS_EmptySet
  <2>7. iterator_counts[p] = Cardinality(Of(p))
    BY <1>2 DEF TrieInv, Counted
  <2> QED BY <1>1, <2>2, <2>3, <2>5, <2>6, <2>7
<1>3. ASSUME NEW i \in DOMAIN iters PROVE Tree!ToSet(iters[i].queue) \subseteq Tree!Handles
  <2>1. /\ iters[i].queue \in Seq([key : Seq(Nat), cell : Nat])
        /\ \A j \in 1 .. Len(iters[i].queue) : iters[i].queue[j] \in Tree!Handles
    BY <1>3, QueueTyped
  <2>2. DOMAIN iters[i].queue = 1 .. Len(iters[i].queue)
    BY <2>1
  <2> QED BY <2>1, <2>2 DEF Tree!ToSet
<1>4. \A k \in DOMAIN nodes : nodes[k] \in DOMAIN cells
  BY <1>1 DEF TrieTyped
<1> QED BY <1>1, <1>2, <1>3, <1>4 DEF Tree!TypeOK, TrieTyped

-----------------------------------------------------------------------------
\* Where entries may be: boxes at their prefix, items under one.
StorePlaces == {Builder!At(p) : p \in Builder!Prefixes} \cup {Builder!Item(p, k) : p \in Builder!Prefixes, k \in MapKeys}

\* The collections that have a name are typed.
LEMMA NamedTyped ==
  ASSUME HeapInv, NEW c \in HeapNamed
  PROVE  c \in Builder!Collections /\ c.prefix \in Builder!Prefixes
<1>1. /\ c.prefix \in Nat /\ 2 <= c.prefix /\ c.prefix < next_prefix /\ next_prefix <= 2 + MaxPrefixes
      /\ next_prefix \in Nat /\ c \in HeapColls
  BY DEF HeapInv, HeapTyped, HeapColls
<1>2. MaxPrefixes \in Nat
  BY HeapConstants
<1>3. c.prefix \in Builder!Prefixes
  BY <1>1, <1>2 DEF Builder!Prefixes, Builder!INITIAL_NEXT_ITEM_PREFIX
<1> QED BY <1>1, <1>3 DEF Builder!Collections, HeapColls

\* Values are stored at places of the store only.
LEMMA PlacesKeep ==
  ASSUME HeapInv, DOMAIN store \subseteq StorePlaces, [Builder!Next]_builder
  PROVE  DOMAIN store' \subseteq StorePlaces
<1>1. ASSUME NEW l \in StorePlaces, NEW v, store' = Builder!With(l, v) PROVE DOMAIN store' \subseteq StorePlaces
  BY <1>1 DEF Builder!With
<1>2. ASSUME NEW X, store' = Builder!Without(X) PROVE DOMAIN store' \subseteq StorePlaces
  BY <1>2 DEF Builder!Without
<1>3. \A sort \in {"box", "map", "set"} : \A c \in Builder!OfKind(sort) : c.prefix \in Builder!Prefixes
  BY HeapAtHand, NamedTyped
<1>4. CASE Builder!new_map \/ Builder!new_set \/ UNCHANGED builder
  BY <1>4 DEF Builder!new_map, Builder!new_set, builder
<1>5. CASE \E v \in {Builder!Plain} \cup held : Builder!new_box(v)
  <2>1. PICK v : Builder!new_box(v)
    BY <1>5
  <2>2. next_prefix \in Builder!Prefixes
    <3>1. next_prefix \in Nat /\ 2 < next_prefix /\ next_prefix <= 2 + MaxPrefixes /\ MaxPrefixes \in Nat
      BY HeapConstants DEF HeapInv, HeapTyped
    <3> QED BY <3>1 DEF Builder!Prefixes, Builder!INITIAL_NEXT_ITEM_PREFIX
  <2>3. store' = Builder!With(Builder!At(next_prefix), v)
    BY <2>1 DEF Builder!new_box
  <2>4. Builder!At(next_prefix) \in StorePlaces
    BY <2>2 DEF StorePlaces
  <2> QED BY <1>1, <2>3, <2>4
<1>6. ASSUME NEW m \in Builder!OfKind("map"), NEW k \in MapKeys,
             \/ \E v \in {Builder!Plain} \cup (held \ {m}) : Builder!insert(m, k, v)
             \/ Builder!remove_and_get(m, k) \/ Builder!remove(m, k)
      PROVE  DOMAIN store' \subseteq StorePlaces
  <2>1. (\E v : store' = Builder!With(Builder!Item(m.prefix, k), v)) \/ \E X : store' = Builder!Without(X)
    BY <1>6 DEF Builder!insert, Builder!remove_and_get, Builder!remove
  <2>2. Builder!Item(m.prefix, k) \in StorePlaces
    BY <1>3 DEF StorePlaces
  <2> QED BY <1>1, <1>2, <2>1, <2>2
<1>7. ASSUME NEW m \in Builder!OfKind("map"), Builder!clear(m) \/ Builder!clear_flat(m)
      PROVE  DOMAIN store' \subseteq StorePlaces
  BY <1>2, <1>7 DEF Builder!clear, Builder!clear_flat
<1>8. ASSUME NEW s \in Builder!OfKind("set"),
             Builder!SetClear(s) \/ \E k \in MapKeys : Builder!SetInsert(s, k) \/ Builder!SetRemove(s, k)
      PROVE  DOMAIN store' \subseteq StorePlaces
  <2>1. CASE \E k \in MapKeys : Builder!SetInsert(s, k)
    <3>1. PICK k \in MapKeys : Builder!SetInsert(s, k)
      BY <2>1
    <3>2. Builder!Item(s.prefix, k) \in StorePlaces
      BY <1>3 DEF StorePlaces
    <3> QED BY <1>1, <3>1, <3>2 DEF Builder!SetInsert
  <2>2. CASE Builder!SetClear(s) \/ \E k \in MapKeys : Builder!SetRemove(s, k)
    BY <1>2, <2>2 DEF Builder!SetClear, Builder!SetRemove
  <2> QED BY <1>8, <2>1, <2>2
<1>9. ASSUME NEW b \in Builder!OfKind("box"), NEW v, Builder!replace(b, v)
      PROVE  DOMAIN store' \subseteq StorePlaces
  <2>1. Builder!At(b.prefix) \in StorePlaces
    BY <1>3 DEF StorePlaces
  <2> QED BY <1>1, <1>9, <2>1 DEF Builder!replace
<1>10. ASSUME NEW v \in held, Builder!delete(v) PROVE DOMAIN store' \subseteq StorePlaces
  BY <1>2, <1>10 DEF Builder!delete
<1> QED BY <1>4, <1>5, <1>6, <1>7, <1>8, <1>9, <1>10 DEF Builder!Next

\* The type invariant of the state builder.
LEMMA HeapRight ==
  ASSUME HeapInv, DOMAIN store \subseteq StorePlaces
  PROVE  Builder!TypeOK
<1>1. \A l \in DOMAIN store : store[l] = Builder!Plain \/ store[l] \in HeapNamed
  BY DEF HeapNamed
<1>2. held \subseteq HeapNamed
  BY DEF HeapNamed, HeapInv, HeapTyped
<1>3. next_prefix \in Builder!Prefixes
  <2>1. next_prefix \in Nat /\ 2 < next_prefix /\ next_prefix <= 2 + MaxPrefixes /\ MaxPrefixes \in Nat
    BY HeapConstants DEF HeapInv, HeapTyped
  <2> QED BY <2>1 DEF Builder!Prefixes, Builder!INITIAL_NEXT_ITEM_PREFIX
<1>4. \A c \in HeapNamed : c \in Builder!Collections
  BY NamedTyped
<1> QED BY <1>1, <1>2, <1>3, <1>4 DEF Builder!TypeOK, StorePlaces

-----------------------------------------------------------------------------
\* Values are read from bytes and from text as they were written, by every
\* reader, and whatever is not written for a value is turned down.
THEOREM ReadBack == Spec => []RoundTrips
<1>1. Init => WireInv /\ CommonInv
  BY Limits, WireStarts, CommonStarts DEF Init
<1>2. WireInv /\ CommonInv /\ [Next]_vars => (WireInv /\ CommonInv)'
  BY Limits, Steps, DataSteps, WireKeeps, CommonKeeps
<1>3. WireInv /\ CommonInv => RoundTrips
  BY Limits, WireRight, CommonRight DEF RoundTrips
<1> QED BY <1>1, <1>2, <1>3, PTL DEF Spec

\* All that is known of the libraries, whichever of them runs.
Typed ==
  /\ HostInv /\ Len(frames) <= MaxDepth
  /\ TestInv /\ EntryTyped
  /\ ValueInv /\ ValueBounded
  /\ TrieInv /\ TrieTyped
  /\ HeapInv /\ DOMAIN store \subseteq StorePlaces
  /\ WireInv /\ CommonInv /\ LeafInv

\* All of the types hold at the start.
LEMMA TypedStarts == ASSUME Init PROVE Typed
<1>1. HostInv /\ Len(frames) <= MaxDepth
  <2>1. Ext!ExternHostAssumption /\ Ext!Init
    BY Limits DEF Init
  <2>2. frames = <<>> /\ MaxDepth \in Nat
    BY <2>1 DEF Ext!Init, Ext!ExternHostAssumption
  <2>3. Len(frames) = 0
    BY <2>2
  <2> QED BY <2>1, <2>2, <2>3, HostStarts
<1>2. TestInv /\ EntryTyped
  BY Limits, TestStarts, EntryTypedStarts DEF Init
<1>3. ValueInv
  BY ValueStarts DEF Init
<1>4. ValueBounded
  BY DEF Init, Value!Init, ValueBounded
<1>5. TrieInv /\ TrieTyped
  BY Limits, TrieStarts, TrieTypedStarts DEF Init
<1>6. HeapInv
  BY HeapStarts DEF Init
<1>7. DOMAIN store \subseteq StorePlaces
  BY DEF Init, Builder!Init
<1>8. WireInv /\ CommonInv
  BY Limits, WireStarts, CommonStarts DEF Init
<1>9. LeafInv
  BY Limits, LeafsStart DEF Init
<1> QED BY <1>1, <1>2, <1>3, <1>4, <1>5, <1>6, <1>7, <1>8, <1>9 DEF Typed

\* Every step of every library keeps all of the types.
LEMMA TypedKeeps == ASSUME Typed, [Next]_vars PROVE Typed'
<1>1. /\ HostInv /\ Len(frames) <= MaxDepth /\ TestInv /\ EntryTyped /\ ValueInv /\ ValueBounded
      /\ TrieInv /\ TrieTyped /\ HeapInv /\ DOMAIN store \subseteq StorePlaces
      /\ WireInv /\ CommonInv /\ LeafInv
  BY DEF Typed
<1>2. HostInv' /\ Len(frames') <= MaxDepth
  BY <1>1, Limits, Steps, HostKeeps, DepthKeeps
<1>3. TestInv' /\ EntryTyped'
  BY <1>1, Limits, Steps, TestKeeps, EntryKeepsTyped
<1>4. ValueInv' /\ ValueBounded'
  BY <1>1, Limits, Steps, ValueKeeps, BoundedKeeps
<1>5. TrieInv' /\ TrieTyped'
  BY <1>1, Limits, Steps, TrieKeeps, TrieKeepsTyped
<1>6. HeapInv' /\ DOMAIN store' \subseteq StorePlaces
  BY <1>1, Steps, HeapKeeps, PlacesKeep
<1>7. WireInv' /\ CommonInv'
  BY <1>1, Limits, Steps, DataSteps, WireKeeps, CommonKeeps
<1>8. LeafInv'
  BY <1>1, DataSteps, LeafsKeep
<1> QED BY <1>2, <1>3, <1>4, <1>5, <1>6, <1>7, <1>8 DEF Typed

\* Every library stays within its bounds, and its state is of the right kinds:
\* positions are words, keys and handles those of the tree, prefixes those that
\* were given out, and nothing has more elements than it may.
THEOREM InBounds == Spec => []TypeOK
<1>1. Init => Typed
  BY TypedStarts
<1>2. Typed /\ [Next]_vars => Typed'
  BY TypedKeeps
<1>3. Typed => TypeOK
  <2> SUFFICES ASSUME Typed PROVE TypeOK
    OBVIOUS
  <2>1. Tree!TypeOK /\ Builder!TypeOK
    BY Limits, TrieRight, HeapRight DEF Typed
  <2>2. Entry!TypeOK /\ Mocked!TypeOK
    BY EntryRight, TestRight DEF Typed
  <2>3. Value!TypeOK
    <3>1. MaxLen \in Nat
      BY Limits DEF Value!MapEntryAssumption
    <3> QED BY <3>1, ValueRight DEF Typed
  <2>4. Ext!TypeOK
    BY HostRight DEF Typed
  <2>5. Leafs!TypeOK /\ Common!TypeOK
    BY LeafsTyped, CommonTyped DEF Typed
  <2>6. Wire!TypeOK
    BY Limits, WireTyped DEF Typed
  <2> QED BY <2>1, <2>2, <2>3, <2>4, <2>5, <2>6 DEF TypeOK
<1> QED BY <1>1, <1>2, <1>3, PTL DEF Spec
=============================================================================
