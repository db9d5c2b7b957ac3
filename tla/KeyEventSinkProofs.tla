-------------------------- MODULE KeyEventSinkProofs --------------------------
(***************************************************************************)
(* The Shift-tap gesture, for any sets of Shift keys, chords and letters.  *)
(*                                                                         *)
(* The gesture and the truth about a tap (the history variable clean) are  *)
(* related between messages only; while a message is being delivered, the  *)
(* sink may not have seen it yet.  The invariant says for each stage of a  *)
(* delivery what the sink has still to learn.                              *)
(***************************************************************************)
EXTENDS KeyEventSink, TLAPS

USE KeysAssumption

Delivering(kind) == msg # NoMsg /\ msg.kind = kind
JustPressed(k) == Delivering("down") /\ msg.key = k /\ ~msg.repeat
Released(k) == Delivering("up") /\ msg.key = k

TwoHeld == \E j, k \in Shifts \cap down : j # k

(* The message, the keyboard and the pending toggle: it belongs to the     *)
(* release under way or to one the host dropped.                           *)
MsgInv ==
    /\ Delivering("down") => msg.key \in down
    /\ ~focused => msg = NoMsg
    /\ togglePending =>
          \/ late
          \/ /\ Delivering("up") /\ msg.tested /\ msg.key \in Shifts
             /\ passesForTap

(* A tracked Shift is held, or its release is on its way. *)
HoldInv ==
    /\ track /\ ~moved =>
          /\ focused
          /\ \/ trackedKey = UnknownShift /\ shiftHeld
             \/ trackedKey = UnknownShift /\ Delivering("up") /\ msg.key \in Shifts
             \/ trackedKey \in down
             \/ Released(trackedKey)
    /\ Delivering("up") /\ msg.key \in Shifts /\ msg.tested => ~track

(* A press the sink has not seen is not the tracked one, nor the only      *)
(* Shift held; if nothing else is held, it is clean.                       *)
FreshInv ==
    \A k \in Shifts : JustPressed(k) =>
        /\ track /\ ~moved /\ ~msg.tested => trackedKey # k /\ anotherShiftHeld(k)
        /\ k = clean \/ anotherShiftHeld(k) \/ chordCtrlOrAltDown
        /\ alone \/ chordCtrlOrAltDown

(* A gesture that would toggle is a clean one, unless another Shift or the *)
(* message still to be seen spoils it.                                     *)
TapInv ==
    track /\ ~invalidated /\ ~moved =>
        \/ clean # NoKey
        \/ TwoHeld
        \/ Delivering("down") /\ msg.key \notin Shifts /\ ~msg.tested
        \/ Delivering("up") /\ msg.key \in Shifts /\ (due \/ anotherShiftHeld(msg.key))

(* It has seen nothing but Shift keys. *)
AloneInv ==
    track /\ ~invalidated /\ ~moved =>
        \/ alone
        \/ Delivering("down") /\ ~msg.tested /\ (msg.key \notin Shifts \/ ~msg.repeat)

(* A clean hold is tracked, once its press has been seen. *)
CleanInv ==
    clean # NoKey =>
        /\ Delivering("up") => msg.key \notin Shifts
        /\ Delivering("down") => msg.key \in Shifts
        /\ down \cap Shifts = {clean} /\ ~chordCtrlOrAltDown
        /\ ~moved => focused
        /\ ~moved => IF JustPressed(clean) /\ ~msg.tested THEN ~track
                     ELSE /\ track /\ ~invalidated
                          /\ trackedKey \in {clean, UnknownShift}
                          /\ JustPressed(clean) => trackedKey = shiftOf(msg)
                          /\ alone

(* The release that ends a tap finds the gesture that toggles. *)
DueInv ==
    due => /\ Delivering("up") /\ msg.key \in Shifts /\ clean = NoKey
           /\ ~moved /\ ~msg.tested =>
                 /\ track /\ ~invalidated
                 /\ ~chordCtrlOrAltDown /\ ~shiftHeld

GestureInv ==
    TypeOK /\ MsgInv /\ HoldInv /\ FreshInv /\ TapInv /\ AloneInv /\ CleanInv
    /\ DueInv

-----------------------------------------------------------------------------
(* What the two halves of the gesture do to its types. *)

LEMMA KeyDownType ==
    ASSUME TypeOK, msg # NoMsg, trackShiftToggleKeyDown(msg)
    PROVE  /\ track' \in BOOLEAN /\ invalidated' \in BOOLEAN
           /\ togglePending' \in BOOLEAN
           /\ trackedKey' \in Shifts \cup {NoKey, UnknownShift}
           /\ track' <=> trackedKey' # NoKey
  <1>1. CASE resetShiftToggleGesture
    BY <1>1 DEF Keys, resetShiftToggleGesture
  <1>2. CASE msg.key \in Shifts /\ startShiftTap(msg)
    BY <1>2 DEF TypeOK, Keys, startShiftTap, shiftOf
  <1>3. CASE UNCHANGED gesture
    BY <1>3 DEF TypeOK, gesture
  <1>4. CASE invalidated' = TRUE /\ UNCHANGED <<track, togglePending, trackedKey>>
    BY <1>4 DEF TypeOK
  <1> QED BY <1>1, <1>2, <1>3, <1>4 DEF trackShiftToggleKeyDown

LEMMA KeyUpType ==
    ASSUME TypeOK, NEW k \in Keys, trackShiftToggleKeyUp(k)
    PROVE  /\ track' \in BOOLEAN /\ invalidated' \in BOOLEAN
           /\ trackedKey' \in Shifts \cup {NoKey, UnknownShift}
           /\ track' <=> trackedKey' # NoKey
  BY DEF TypeOK, trackShiftToggleKeyUp

LEMMA MessageType ==
    ASSUME TypeOK, msg # NoMsg
    PROVE  /\ msg \in Messages
           /\ msg.key \in Keys /\ msg.kind \in {"down", "up"}
           /\ msg.repeat \in BOOLEAN /\ msg.tested \in BOOLEAN
           /\ msg.known \in BOOLEAN
           /\ [msg EXCEPT !.tested = TRUE] \in Messages
           /\ [msg EXCEPT !.tested = TRUE] # NoMsg
  BY DEF TypeOK, Messages

LEMMA TypeInvariant == TypeOK /\ [Next]_vars => TypeOK'
  <1> SUFFICES ASSUME TypeOK, [Next]_vars PROVE TypeOK'
    OBVIOUS
  <1>1. ASSUME NEW k \in Keys, NEW g \in BOOLEAN, Press(k, g) PROVE TypeOK'
    BY <1>1 DEF TypeOK, Press, Message, Messages, Keys, gesture
  <1>2. ASSUME NEW k \in Keys, NEW g \in BOOLEAN, AutoRepeat(k, g) PROVE TypeOK'
    BY <1>2 DEF TypeOK, AutoRepeat, Message, Messages, gesture
  <1>3. ASSUME NEW k \in Keys, NEW g \in BOOLEAN, Release(k, g) PROVE TypeOK'
    <2>1. due' \in BOOLEAN
      BY <1>3 DEF Release
    <2>2. msg' \in Messages \cup {NoMsg}
      BY <1>3 DEF Release, Message, Messages
    <2> QED BY <1>3, <2>1, <2>2 DEF TypeOK, Release, gesture
  <1>4. CASE FocusMoves
    BY <1>4 DEF TypeOK, FocusMoves, shiftHeld, gesture
  <1>5. CASE Deactivate
    BY <1>5 DEF TypeOK, Deactivate, resetShiftToggleGesture, shiftHeld
  <1>6. ASSUME NEW e \in BOOLEAN, OnTestKeyDown(e) PROVE TypeOK'
    <2>1. msg # NoMsg /\ trackShiftToggleKeyDown(msg)
      BY <1>6 DEF OnTestKeyDown
    <2>2. msg' \in Messages \cup {NoMsg}
      BY <1>6, <2>1, MessageType DEF OnTestKeyDown
    <2>3. moved' \in BOOLEAN
      BY <1>6 DEF OnTestKeyDown
    <2> QED BY <1>6, <2>1, <2>2, <2>3, MessageType, KeyDownType DEF TypeOK, OnTestKeyDown
  <1>7. ASSUME NEW e \in BOOLEAN, OnTestKeyUp(e) PROVE TypeOK'
    <2>1. msg # NoMsg /\ trackShiftToggleKeyUp(msg.key)
      BY <1>7 DEF OnTestKeyUp
    <2>2. msg' \in Messages \cup {NoMsg} /\ due' \in BOOLEAN
      BY <1>7, <2>1, MessageType DEF OnTestKeyUp
    <2>3. moved' \in BOOLEAN
      BY <1>7 DEF OnTestKeyUp
    <2>4. togglePending' \in BOOLEAN
      BY <1>7 DEF OnTestKeyUp, pendingAfterKeyUp, TypeOK
    <2> QED BY <1>7, <2>1, <2>2, <2>3, <2>4, MessageType, KeyUpType
            DEF TypeOK, OnTestKeyUp
  <1>8. CASE OnKeyDown
    <2>1. msg # NoMsg /\ trackShiftToggleKeyDown(msg)
      BY <1>8 DEF OnKeyDown
    <2>2. moved' \in BOOLEAN
      BY <1>8 DEF OnKeyDown
    <2> QED BY <1>8, <2>1, <2>2, MessageType, KeyDownType DEF TypeOK, OnKeyDown
  <1>9. CASE OnKeyUp
    <2>1. msg # NoMsg /\ trackShiftToggleKeyUp(msg.key)
      BY <1>9 DEF OnKeyUp
    <2>2. moved' \in BOOLEAN /\ chinese' \in BOOLEAN
      BY <1>9 DEF OnKeyUp, TypeOK
    <2> QED BY <1>9, <2>1, <2>2, MessageType, KeyUpType DEF TypeOK, OnKeyUp
  <1>10. CASE HostDrops
    BY <1>10 DEF TypeOK, HostDrops, gesture
  <1>11. CASE UNCHANGED vars
    BY <1>11 DEF TypeOK, vars, gesture
  <1> QED BY <1>1, <1>2, <1>3, <1>4, <1>5, <1>6, <1>7, <1>8, <1>9, <1>10, <1>11 DEF Next

-----------------------------------------------------------------------------
(* The user and the focus. *)

LEMMA PressStep ==
    ASSUME GestureInv, NEW k \in Keys, NEW g \in BOOLEAN, Press(k, g), TypeOK'
    PROVE  GestureInv'
  <1>1. /\ msg = NoMsg /\ k \notin down /\ down' = down \cup {k}
        /\ UNCHANGED <<track, invalidated, togglePending, trackedKey, focused, due, moved,
                      late>>
    BY DEF Press, gesture
  <1>2. (togglePending' => late') /\ ~due'
    BY <1>1 DEF GestureInv, MsgInv, DueInv, Delivering
  <1>3. track /\ ~moved => /\ focused /\ shiftHeld
                           /\ trackedKey \in down \/ trackedKey = UnknownShift
    BY <1>1 DEF GestureInv, HoldInv, Released, Delivering, TypeOK, shiftHeld
  <1>4. clean' # NoKey => focused /\ clean' = k /\ k \in Shifts
                          /\ ~shiftHeld /\ ~chordCtrlOrAltDown
    BY DEF Press
  <1>5. clean' = NoKey => ~focused \/ k \notin Shifts \/ shiftHeld \/ chordCtrlOrAltDown
    BY KeysAssumption DEF Press, Keys
  <1>6. CASE ~focused
    <2>1. msg' = NoMsg /\ clean' = NoKey
      BY <1>4, <1>6 DEF Press, Message
    <2>2. MsgInv' /\ HoldInv'
      BY <1>1, <1>2, <1>3, <1>6, <2>1 DEF MsgInv, HoldInv, Delivering
    <2>3. FreshInv' /\ CleanInv' /\ DueInv'
      BY <1>1, <1>2, <2>1 DEF FreshInv, CleanInv, DueInv, Delivering, JustPressed
    <2>4. TapInv' /\ AloneInv'
      BY <1>1, <1>3, <1>6 DEF TapInv, AloneInv
    <2> QED BY <2>2, <2>3, <2>4 DEF GestureInv
  <1>7. CASE focused
    <2>1. /\ msg' # NoMsg /\ msg'.kind = "down" /\ msg'.key = k
          /\ msg'.repeat = FALSE /\ msg'.tested = FALSE
      <3> DEFINE m == [kind |-> "down", key |-> k, known |-> g \/ k \notin Shifts,
                       repeat |-> FALSE, tested |-> FALSE]
      <3>1. msg' = m
        BY <1>7 DEF Press, Message
      <3>2. m \in Messages
        BY DEF Messages
      <3> QED BY <3>1, <3>2
    <2>2. MsgInv'
      BY <1>1, <1>2, <1>7, <2>1 DEF MsgInv, Delivering
    <2>7. DueInv'
      BY <1>2 DEF DueInv
    <2>8. AloneInv'
      BY <2>1 DEF AloneInv, Delivering
    <2>6. HoldInv'
      <3>1. shiftHeld => shiftHeld'
        BY <1>1 DEF shiftHeld
      <3> QED BY <1>1, <1>3, <1>7, <2>1, <3>1 DEF HoldInv, Delivering
    <2>3. FreshInv'
      <3>1. k \in Shifts => k = clean' \/ anotherShiftHeld(k)' \/ chordCtrlOrAltDown'
        <4>1. shiftHeld => anotherShiftHeld(k)'
          BY <1>1 DEF shiftHeld, anotherShiftHeld
        <4>2. chordCtrlOrAltDown => chordCtrlOrAltDown'
          BY <1>1 DEF chordCtrlOrAltDown
        <4> QED BY <1>4, <1>5, <1>7, <4>1, <4>2
      <3>2. k \in Shifts /\ track' /\ ~moved' => trackedKey' # k /\ anotherShiftHeld(k)'
        BY <1>1, <1>3 DEF shiftHeld, anotherShiftHeld, Keys
      <3>4. k \in Shifts => alone' \/ chordCtrlOrAltDown'
        BY <1>1, <1>7 DEF Press, chordCtrlOrAltDown
      <3>3. \A j : JustPressed(j)' => j = k
        BY <2>1 DEF JustPressed
      <3> QED BY <3>1, <3>2, <3>3, <3>4 DEF FreshInv
    <2>4. TapInv'
      <3>1. CASE k \notin Shifts
        BY <2>1, <3>1 DEF TapInv, Delivering
      <3>2. CASE k \in Shifts
        BY <1>1, <1>3, <3>2 DEF TapInv, TwoHeld, shiftHeld
      <3> QED BY <3>1, <3>2
    <2>5. CleanInv'
      <3> SUFFICES ASSUME clean' # NoKey PROVE CleanInv'
        BY DEF CleanInv
      <3>1. down' \cap Shifts = {clean'} /\ ~chordCtrlOrAltDown'
        BY <1>1, <1>4 DEF shiftHeld, chordCtrlOrAltDown
      <3>2. ~moved => ~track
        BY <1>3, <1>4, <1>1
      <3> QED BY <1>1, <1>4, <2>1, <3>1, <3>2 DEF CleanInv, Delivering, JustPressed
    <2> QED BY <2>2, <2>3, <2>4, <2>5, <2>6, <2>7, <2>8 DEF GestureInv
  <1> QED BY <1>6, <1>7

LEMMA AutoRepeatStep ==
    ASSUME GestureInv, NEW k \in Keys, NEW g \in BOOLEAN, AutoRepeat(k, g), TypeOK'
    PROVE  GestureInv'
  <1>1. /\ msg = NoMsg /\ k \in down /\ focused
        /\ UNCHANGED <<track, invalidated, togglePending, trackedKey, down, focused,
                      due, moved, late>>
    BY DEF AutoRepeat, gesture
  <1>2. (togglePending' => late') /\ ~due'
    BY <1>1 DEF GestureInv, MsgInv, DueInv, Delivering
  <1>3. track /\ ~moved => \/ trackedKey = UnknownShift /\ shiftHeld
                           \/ trackedKey \in down
    BY <1>1 DEF GestureInv, HoldInv, Released, Delivering
  <1>4. /\ msg' # NoMsg /\ msg'.kind = "down" /\ msg'.key = k
        /\ msg'.repeat = TRUE /\ msg'.tested = FALSE
    <2> DEFINE m == [kind |-> "down", key |-> k, known |-> g \/ k \notin Shifts,
                     repeat |-> TRUE, tested |-> FALSE]
    <2>1. msg' = m
      BY <1>1 DEF AutoRepeat, Message
    <2>2. m \in Messages
      BY DEF Messages
    <2> QED BY <2>1, <2>2
  <1>5. clean' = IF k \in Shifts THEN clean ELSE NoKey
    BY DEF AutoRepeat
  <1>6. MsgInv'
    BY <1>1, <1>2, <1>4 DEF MsgInv, Delivering
  <1>12. DueInv'
    BY <1>2 DEF DueInv
  <1>10. HoldInv'
    BY <1>1, <1>3, <1>4 DEF HoldInv, Delivering, shiftHeld
  <1>7. FreshInv'
    BY <1>4 DEF FreshInv, JustPressed
  <1>11. (alone' <=> alone /\ k \in Shifts)
    BY DEF AutoRepeat, GestureInv, TypeOK
  <1>8. TapInv' /\ AloneInv'
    <2>1. track /\ ~invalidated /\ ~moved => (clean # NoKey \/ TwoHeld) /\ alone
      BY <1>1 DEF GestureInv, TapInv, AloneInv, Delivering
    <2>2. TwoHeld' <=> TwoHeld
      BY <1>1 DEF TwoHeld
    <2>3. CASE k \in Shifts
      BY <1>1, <1>4, <1>5, <1>11, <2>1, <2>2, <2>3 DEF TapInv, AloneInv
    <2>4. CASE k \notin Shifts
      BY <1>4, <2>4 DEF TapInv, AloneInv, Delivering
    <2> QED BY <2>3, <2>4
  <1>9. CleanInv'
    <2>1. clean # NoKey =>
            /\ down \cap Shifts = {clean} /\ ~chordCtrlOrAltDown
            /\ ~moved => /\ track /\ ~invalidated /\ alone
                         /\ trackedKey \in {clean, UnknownShift}
      BY <1>1 DEF GestureInv, CleanInv, Delivering, JustPressed
    <2>2. chordCtrlOrAltDown' <=> chordCtrlOrAltDown
      BY <1>1 DEF chordCtrlOrAltDown
    <2> QED BY <1>1, <1>4, <1>5, <1>11, <2>1, <2>2 DEF CleanInv, Delivering, JustPressed
  <1> QED BY <1>6, <1>7, <1>8, <1>9, <1>10, <1>12 DEF GestureInv

LEMMA ReleaseStep ==
    ASSUME GestureInv, NEW k \in Keys, NEW g \in BOOLEAN, Release(k, g), TypeOK'
    PROVE  GestureInv'
  <1>1. /\ msg = NoMsg /\ k \in down /\ down' = down \ {k}
        /\ UNCHANGED <<track, invalidated, togglePending, trackedKey, focused, moved,
                      alone, late>>
    BY DEF Release, gesture
  <1>2. togglePending' => late'
    BY <1>1 DEF GestureInv, MsgInv, Delivering
  <1>3. track /\ ~moved => /\ focused
                           /\ \/ trackedKey = UnknownShift /\ shiftHeld
                              \/ trackedKey \in down
    BY <1>1 DEF GestureInv, HoldInv, Released, Delivering
  <1>9. AloneInv'
    BY <1>1 DEF GestureInv, AloneInv, Delivering
  <1>4. /\ due' <=> focused /\ k = clean
        /\ clean' = IF k \in Shifts THEN NoKey ELSE clean
    BY DEF Release
  <1>5. clean # NoKey =>
          /\ down \cap Shifts = {clean} /\ ~chordCtrlOrAltDown
          /\ ~moved => /\ focused /\ track /\ ~invalidated /\ alone
                       /\ trackedKey \in {clean, UnknownShift}
    BY <1>1 DEF GestureInv, CleanInv, JustPressed, Delivering
  <1>6. clean' # NoKey =>
          /\ clean' = clean
          /\ down' \cap Shifts = {clean'} /\ ~chordCtrlOrAltDown'
    BY <1>1, <1>4, <1>5 DEF chordCtrlOrAltDown
  <1>7. CASE ~focused
    <2>1. msg' = NoMsg
      BY <1>7 DEF Release, Message
    <2>2. MsgInv' /\ HoldInv' /\ DueInv' /\ FreshInv' /\ TapInv'
      BY <1>1, <1>2, <1>3, <1>4, <1>7, <2>1
         DEF MsgInv, HoldInv, DueInv, FreshInv, TapInv, Delivering, JustPressed
    <2>3. CleanInv'
      BY <1>1, <1>5, <1>6, <1>7, <2>1 DEF CleanInv, Delivering
    <2> QED BY <1>9, <2>2, <2>3 DEF GestureInv
  <1>8. CASE focused
    <2>1. /\ msg' # NoMsg /\ msg'.kind = "up" /\ msg'.key = k /\ msg'.tested = FALSE
      <3> DEFINE m == [kind |-> "up", key |-> k, known |-> g \/ k \notin Shifts,
                       repeat |-> FALSE, tested |-> FALSE]
      <3>1. msg' = m
        BY <1>8 DEF Release, Message
      <3>2. m \in Messages
        BY DEF Messages
      <3> QED BY <3>1, <3>2
    <2>2. MsgInv' /\ FreshInv'
      <3>1. MsgInv'
        BY <1>1, <1>2, <1>8, <2>1 DEF MsgInv, Delivering
      <3>2. FreshInv'
        BY <2>1 DEF FreshInv, Delivering, JustPressed
      <3> QED BY <3>1, <3>2
    <2>6. HoldInv'
      BY <1>1, <1>3, <1>8, <2>1 DEF HoldInv, Delivering, Released, shiftHeld
    <2>3. TapInv'
      <3> SUFFICES ASSUME track', ~invalidated', ~moved' PROVE TapInv'
        BY DEF TapInv
      <3>1. clean # NoKey \/ TwoHeld
        BY <1>1 DEF GestureInv, TapInv, Delivering
      <3>2. CASE k \notin Shifts
        BY <1>1, <1>4, <3>1, <3>2 DEF TapInv, TwoHeld
      <3>3. CASE k \in Shifts /\ TwoHeld
        BY <1>1, <2>1, <3>3 DEF TapInv, TwoHeld, Delivering, anotherShiftHeld
      <3>4. CASE k \in Shifts /\ clean # NoKey
        BY <1>1, <1>4, <1>5, <1>8, <2>1, <3>4 DEF TapInv, Delivering
      <3> QED BY <3>1, <3>2, <3>3, <3>4
    <2>4. CleanInv'
      BY <1>1, <1>4, <1>5, <1>6, <1>8, <2>1 DEF CleanInv, Delivering, JustPressed
    <2>5. DueInv'
      <3> SUFFICES ASSUME due' PROVE DueInv'
        BY DEF DueInv
      <3>1. k = clean /\ k \in Shifts /\ clean' = NoKey /\ clean # NoKey
        BY <1>4, KeysAssumption DEF GestureInv, TypeOK
      <3>2. ~chordCtrlOrAltDown' /\ ~shiftHeld'
        BY <1>1, <1>5, <3>1 DEF chordCtrlOrAltDown, shiftHeld
      <3> QED BY <1>1, <1>5, <2>1, <3>1, <3>2 DEF DueInv, Delivering
    <2> QED BY <1>9, <2>2, <2>3, <2>4, <2>5, <2>6 DEF GestureInv
  <1> QED BY <1>7, <1>8

LEMMA FocusStep ==
    ASSUME GestureInv, FocusMoves \/ Deactivate, TypeOK'
    PROVE  GestureInv'
  <1>1. /\ msg = NoMsg /\ moved' = (moved \/ shiftHeld)
        /\ UNCHANGED <<down, msg, clean, due, alone>>
    BY DEF FocusMoves, Deactivate
  <1>2. \/ UNCHANGED <<track, invalidated, togglePending, trackedKey, late>>
        \/ ~track' /\ ~togglePending'
    BY DEF FocusMoves, Deactivate, gesture, resetShiftToggleGesture
  <1>3. (togglePending => late) /\ ~due
    BY <1>1 DEF GestureInv, MsgInv, DueInv, Delivering
  <1>4. track /\ ~moved => shiftHeld
    BY <1>1 DEF GestureInv, HoldInv, TypeOK, Released, Delivering, shiftHeld
  <1>5. track' => moved'
    BY <1>1, <1>2, <1>4
  <1>6. MsgInv' /\ HoldInv' /\ FreshInv' /\ TapInv' /\ AloneInv' /\ DueInv'
    BY <1>1, <1>2, <1>3, <1>5 DEF MsgInv, HoldInv, FreshInv, TapInv, AloneInv, DueInv,
       Delivering, JustPressed
  <1>7. CleanInv'
    BY <1>1 DEF GestureInv, CleanInv, Delivering, chordCtrlOrAltDown, shiftHeld
  <1> QED BY <1>6, <1>7 DEF GestureInv

-----------------------------------------------------------------------------
(* The callbacks.  What the test callback and the On callback have in      *)
(* common is proved once: the message is over or it is now a tested one.   *)

LEMMA KeyDownStep ==
    ASSUME GestureInv, TypeOK', Delivering("down"),
           trackShiftToggleKeyDown(msg),
           msg' \in {NoMsg, [msg EXCEPT !.tested = TRUE]},
           moved' = (moved /\ ~seesEndOfHold(msg)),
           UNCHANGED <<down, focused, clean, due, alone, late>>
    PROVE  GestureInv'
  <1> DEFINE k == msg.key
  <1>1. /\ msg \in Messages /\ k \in Keys /\ msg.kind = "down"
        /\ k \in down /\ focused /\ (togglePending => late') /\ ~due
    BY MessageType DEF GestureInv, MsgInv, DueInv, Delivering
  <1>2. /\ Delivering("down")' => /\ msg'.key = k /\ msg'.tested = TRUE
                                  /\ msg'.repeat = msg.repeat
                                  /\ msg'.known = msg.known
        /\ ~Delivering("up")'
    BY <1>1 DEF Delivering, Messages
  <1>3. FreshInv'
    BY <1>1, <1>2 DEF GestureInv, FreshInv, Delivering, JustPressed,
       anotherShiftHeld, chordCtrlOrAltDown
  <1>4. (togglePending' => togglePending) => MsgInv'
    BY <1>1, <1>2 DEF MsgInv
  <1>5. DueInv'
    BY <1>1 DEF DueInv
  <1>6. clean # NoKey => k \in Shifts /\ down \cap Shifts = {clean} /\ ~chordCtrlOrAltDown
    BY DEF GestureInv, CleanInv
  <1>7. track /\ ~moved => \/ trackedKey = UnknownShift /\ shiftHeld
                           \/ trackedKey \in down
    BY <1>1 DEF GestureInv, HoldInv, Released, Delivering
  <1>8. ~track' /\ clean = NoKey => HoldInv' /\ TapInv' /\ AloneInv' /\ CleanInv'
    BY <1>2 DEF HoldInv, TapInv, AloneInv, CleanInv
  <1>9. k \in Shifts => moved' = moved
    BY <1>1 DEF seesEndOfHold, GestureInv, TypeOK
  <1>10. CASE (k \in Shifts => chordCtrlOrAltDown) /\ resetShiftToggleGesture
    <2>1. clean = NoKey /\ ~track' /\ ~togglePending'
      BY <1>6, <1>10 DEF resetShiftToggleGesture
    <2> QED BY <1>3, <1>4, <1>5, <1>8, <2>1 DEF GestureInv
  <1>11. CASE k \in Shifts /\ ~msg.repeat /\ ~chordCtrlOrAltDown /\ startShiftTap(msg)
    <2>1. /\ track' = TRUE
          /\ track => /\ trackedKey' = trackedKey
                      /\ ~invalidated' => ~invalidated /\ trackedKey = shiftOf(msg)
                      /\ ~invalidated /\ trackedKey = shiftOf(msg) => ~invalidated'
          /\ ~track => trackedKey' = shiftOf(msg) /\ ~invalidated'
          /\ togglePending' = togglePending
      BY <1>11 DEF startShiftTap
    <2>6. shiftOf(msg) \in {k, UnknownShift} /\ shiftHeld /\ JustPressed(k)
      BY <1>1, <1>11 DEF shiftOf, shiftHeld, JustPressed
    <2>2. HoldInv'
      <3>1. shiftHeld'
        BY <2>6 DEF shiftHeld
      <3> QED BY <1>1, <1>2, <1>7, <1>9, <1>11, <2>1, <2>6, <3>1 DEF HoldInv
    <2>3. TapInv' /\ AloneInv'
      <3> SUFFICES ASSUME ~invalidated', ~moved
                   PROVE  (clean # NoKey \/ TwoHeld) /\ alone
        BY <1>9, <1>11 DEF TapInv, AloneInv, TwoHeld
      <3>1. k = clean \/ anotherShiftHeld(k)
        BY <1>11, <2>6 DEF GestureInv, FreshInv
      <3>2. clean # NoKey \/ TwoHeld
        BY <1>1, <1>11, <3>1 DEF anotherShiftHeld, TwoHeld, Keys
      <3>3. alone
        BY <1>11, <2>6 DEF GestureInv, FreshInv
      <3> QED BY <3>2, <3>3
    <2>4. CleanInv'
      <3> SUFFICES ASSUME clean # NoKey, ~moved
                   PROVE  /\ track' /\ ~invalidated' /\ alone
                          /\ trackedKey' \in {clean, UnknownShift}
                          /\ trackedKey' = shiftOf(msg)
        BY <1>1, <1>2, <1>6, <1>9, <1>11
           DEF CleanInv, Delivering, JustPressed, chordCtrlOrAltDown, shiftOf
      <3>1. k = clean
        BY <1>1, <1>6, <1>11
      <3>2. ~track \/ (track /\ ~invalidated /\ trackedKey \in {clean, UnknownShift})
        BY DEF GestureInv, CleanInv
      <3>3. alone
        BY <1>11, <2>6 DEF GestureInv, FreshInv
      <3>4. track => trackedKey = shiftOf(msg)
        BY <2>6, <3>1 DEF GestureInv, CleanInv
      <3> QED BY <2>1, <2>6, <3>1, <3>2, <3>3, <3>4
    <2> QED BY <1>1, <1>3, <1>4, <1>5, <2>1, <2>2, <2>3, <2>4 DEF GestureInv
  <1>12. CASE /\ \/ k \in Shifts /\ msg.repeat
                 \/ k \notin Shifts /\ ~track
              /\ UNCHANGED gesture
    <2>1. UNCHANGED <<track, invalidated, togglePending, trackedKey>>
      BY <1>12 DEF gesture
    <2>2. CASE k \in Shifts /\ msg.repeat
      <3>1. HoldInv'
        BY <1>1, <1>2, <1>7, <1>9, <2>1, <2>2 DEF HoldInv, shiftHeld
      <3>2. TapInv' /\ AloneInv'
        BY <1>1, <1>9, <2>1, <2>2 DEF GestureInv, TapInv, AloneInv, Delivering, TwoHeld
      <3>3. CleanInv'
        BY <1>1, <1>2, <1>9, <2>1, <2>2 DEF GestureInv, CleanInv, JustPressed,
           chordCtrlOrAltDown
      <3> QED BY <1>1, <1>3, <1>4, <1>5, <2>1, <3>1, <3>2, <3>3 DEF GestureInv
    <2>3. CASE k \notin Shifts /\ ~track
      BY <1>1, <1>3, <1>4, <1>5, <1>6, <1>8, <2>1, <2>3 DEF GestureInv
    <2> QED BY <1>12, <2>2, <2>3
  <1>13. CASE /\ k \notin Shifts /\ track /\ shiftHeld
              /\ invalidated' = TRUE
              /\ UNCHANGED <<track, togglePending, trackedKey>>
    <2>1. moved' = moved
      BY <1>1, <1>13 DEF seesEndOfHold, GestureInv, TypeOK
    <2>2. HoldInv'
      BY <1>1, <1>2, <1>7, <1>13, <2>1 DEF HoldInv, shiftHeld
    <2>3. TapInv' /\ AloneInv' /\ CleanInv'
      BY <1>6, <1>13 DEF TapInv, AloneInv, CleanInv
    <2> QED BY <1>1, <1>3, <1>4, <1>5, <1>13, <2>2, <2>3 DEF GestureInv
  <1> QED BY <1>10, <1>11, <1>12, <1>13 DEF trackShiftToggleKeyDown

LEMMA KeyUpStep ==
    ASSUME GestureInv, TypeOK', Delivering("up"), trackShiftToggleKeyUp(msg.key),
           msg' \in {NoMsg, [msg EXCEPT !.tested = TRUE]},
           moved' = (moved /\ ~(msg' = NoMsg /\ seesEndOfHold(msg))),
           due' => due /\ msg' # NoMsg,
           togglePending' =>
               late' \/ (msg' # NoMsg /\ msg.key \in Shifts /\ passesForTap'),
           UNCHANGED <<down, focused, clean, alone>>
    PROVE  GestureInv'
  <1> DEFINE k == msg.key
  <1>1. msg \in Messages /\ k \in Keys /\ msg.kind = "up" /\ focused
    BY MessageType DEF GestureInv, MsgInv, Delivering
  <1>2. /\ msg' # NoMsg => Delivering("up")' /\ msg'.key = k /\ msg'.tested = TRUE
        /\ ~Delivering("down")'
    BY <1>1 DEF Delivering, Messages
  <1>3. MsgInv' /\ FreshInv'
    BY <1>1, <1>2 DEF MsgInv, FreshInv, JustPressed
  <1>7. (track' => track) /\ (invalidated' <=> invalidated) /\ ~moved => AloneInv'
    BY DEF GestureInv, AloneInv, Delivering
  <1>4. DueInv'
    BY <1>2 DEF GestureInv, DueInv
  <1>5. CASE k \in Shifts
    <2>1. ~track' /\ clean = NoKey
      BY <1>5 DEF trackShiftToggleKeyUp, GestureInv, CleanInv
    <2> QED BY <1>3, <1>4, <2>1 DEF GestureInv, HoldInv, TapInv, AloneInv, CleanInv
  <1>6. CASE k \notin Shifts
    <2>1. UNCHANGED <<track, invalidated, trackedKey, moved>>
      BY <1>1, <1>6 DEF trackShiftToggleKeyUp, seesEndOfHold, GestureInv, TypeOK
    <2>2. track => trackedKey \in Shifts \cup {UnknownShift}
      BY DEF GestureInv, TypeOK
    <2>6. shiftHeld' <=> shiftHeld
      BY DEF shiftHeld
    <2>7. AloneInv'
      BY <1>7, <2>1 DEF AloneInv
    <2>3. HoldInv'
      <3>1. track /\ ~moved => \/ trackedKey = UnknownShift /\ shiftHeld
                               \/ trackedKey \in down
        BY <1>1, <1>6, <2>2 DEF GestureInv, HoldInv, Released, Keys
      <3>2. ~(Delivering("up")' /\ msg'.key \in Shifts)
        BY <1>2, <1>6 DEF Delivering
      <3> QED BY <1>1, <2>1, <2>6, <3>1, <3>2 DEF HoldInv
    <2>4. TapInv'
      BY <1>1, <1>6, <2>1, <2>2 DEF GestureInv, TapInv, Delivering, TwoHeld
    <2>5. CleanInv'
      BY <1>1, <1>2, <1>6, <2>1 DEF GestureInv, CleanInv, JustPressed, Delivering,
         chordCtrlOrAltDown
    <2> QED BY <1>3, <1>4, <2>3, <2>4, <2>5, <2>7 DEF GestureInv
  <1> QED BY <1>5, <1>6

(* A gesture that toggles at this release is a clean tap, or passes for    *)
(* one.                                                                    *)
LEMMA PendingIsClean ==
    ASSUME GestureInv, Delivering("up"), msg.key \in Shifts, pendingAfterKeyUp(msg)
    PROVE  passesForTap
  <1> SUFFICES ASSUME ~moved, msg.known \/ ~alone PROVE due
    BY DEF passesForTap
  <1>1. track /\ ~invalidated /\ ~otherShiftStillHeld(msg)
    BY DEF pendingAfterKeyUp
  <1>2. alone
    BY <1>1 DEF GestureInv, AloneInv, Delivering
  <1>3. ~anotherShiftHeld(msg.key)
    BY <1>1, <1>2 DEF otherShiftStillHeld
  <1>4. ~TwoHeld
    BY <1>3 DEF TwoHeld, anotherShiftHeld
  <1>5. clean = NoKey
    BY DEF GestureInv, CleanInv
  <1> QED BY <1>1, <1>3, <1>4, <1>5 DEF GestureInv, TapInv, Delivering

(* A message the host does not deliver after its test: the sink keeps what *)
(* the test told it.                                                       *)
LEMMA DropStep ==
    ASSUME GestureInv, TypeOK', HostDrops
    PROVE  GestureInv'
  <1>1. /\ msg # NoMsg /\ msg.tested /\ msg' = NoMsg /\ ~due'
        /\ moved' = (moved /\ ~(msg.kind = "up" /\ msg.key \in Shifts))
        /\ UNCHANGED <<track, invalidated, togglePending, trackedKey, down, focused,
                      clean, alone>>
    BY DEF HostDrops, gesture
  <1>2. msg \in Messages /\ msg.key \in Keys /\ msg.kind \in {"down", "up"}
    BY <1>1, MessageType DEF GestureInv
  <1>3. focused
    BY <1>1 DEF GestureInv, MsgInv
  <1>4. MsgInv' /\ DueInv' /\ FreshInv'
    BY <1>1 DEF HostDrops, GestureInv, MsgInv, DueInv, FreshInv, Delivering, JustPressed
  <1>5. Delivering("up") /\ msg.key \in Shifts => ~track
    BY <1>1 DEF GestureInv, HoldInv
  <1>6. /\ track \/ clean # NoKey => moved' = moved
        /\ track => trackedKey \in Shifts \cup {UnknownShift}
    BY <1>1, <1>2, <1>5 DEF GestureInv, TypeOK, CleanInv, Delivering
  <1>7. HoldInv'
    <2> SUFFICES ASSUME track, ~moved
                 PROVE  \/ trackedKey = UnknownShift /\ shiftHeld
                        \/ trackedKey \in down
      BY <1>1, <1>3, <1>6 DEF HoldInv, Delivering, shiftHeld
    <2> QED BY <1>2, <1>5, <1>6 DEF GestureInv, HoldInv, Released, Delivering, Keys
  <1>8. TapInv' /\ AloneInv'
    <2> SUFFICES ASSUME track, ~invalidated, ~moved
                 PROVE  (clean # NoKey \/ TwoHeld) /\ alone
      BY <1>1, <1>6 DEF TapInv, AloneInv, TwoHeld
    <2> QED BY <1>1, <1>5 DEF GestureInv, TapInv, AloneInv, Delivering
  <1>9. CleanInv'
    BY <1>1, <1>6 DEF GestureInv, CleanInv, Delivering, JustPressed, chordCtrlOrAltDown
  <1> QED BY <1>4, <1>7, <1>8, <1>9 DEF GestureInv

LEMMA GestureInvariant == GestureInv /\ [Next]_vars => GestureInv'
  <1> SUFFICES ASSUME GestureInv, [Next]_vars PROVE GestureInv'
    OBVIOUS
  <1>0. TypeOK'
    BY TypeInvariant DEF GestureInv
  <1>1. ASSUME NEW k \in Keys, NEW g \in BOOLEAN,
               Press(k, g) \/ AutoRepeat(k, g) \/ Release(k, g)
        PROVE  GestureInv'
    BY <1>0, <1>1, PressStep, AutoRepeatStep, ReleaseStep
  <1>2. CASE FocusMoves \/ Deactivate
    BY <1>0, <1>2, FocusStep
  <1>3. ASSUME NEW e \in BOOLEAN, OnTestKeyDown(e) PROVE GestureInv'
    BY <1>0, <1>3, KeyDownStep DEF OnTestKeyDown, Delivering
  <1>4. ASSUME NEW e \in BOOLEAN, OnTestKeyUp(e) PROVE GestureInv'
    <2>1. /\ Delivering("up") /\ trackShiftToggleKeyUp(msg.key)
          /\ msg' \in {NoMsg, [msg EXCEPT !.tested = TRUE]}
          /\ moved' = (moved /\ ~(msg' = NoMsg /\ seesEndOfHold(msg)))
          /\ due' = (due /\ msg' # NoMsg)
          /\ late' = (late /\ msg.key \notin Shifts)
          /\ togglePending' = pendingAfterKeyUp(msg)
          /\ UNCHANGED <<down, focused, clean, alone>>
      BY <1>4 DEF OnTestKeyUp, Delivering
    <2>2. togglePending' => msg' # NoMsg
      BY <1>4, MessageType DEF OnTestKeyUp, claimsKeyUp, GestureInv
    <2>3. togglePending' /\ msg.key \notin Shifts => late'
      BY <2>1 DEF pendingAfterKeyUp, GestureInv, MsgInv, Delivering
    <2>4. togglePending' /\ msg.key \in Shifts => passesForTap'
      <3> SUFFICES ASSUME togglePending', msg.key \in Shifts PROVE passesForTap'
        OBVIOUS
      <3>1. passesForTap
        BY <2>1, PendingIsClean
      <3>2. msg' # NoMsg /\ msg' = [msg EXCEPT !.tested = TRUE] /\ msg'.known = msg.known
        BY <2>1, <2>2, MessageType DEF Messages, Delivering, GestureInv
      <3> QED BY <2>1, <3>1, <3>2 DEF passesForTap
    <2> QED BY <1>0, <2>1, <2>2, <2>3, <2>4, KeyUpStep
  <1>5. CASE OnKeyDown
    BY <1>0, <1>5, KeyDownStep DEF OnKeyDown, Delivering
  <1>6. CASE OnKeyUp
    BY <1>0, <1>6, KeyUpStep DEF OnKeyUp, Delivering
  <1>7. CASE HostDrops
    BY <1>0, <1>7, DropStep
  <1>8. CASE UNCHANGED vars
    BY <1>8 DEF vars, gesture, GestureInv, TypeOK, MsgInv, HoldInv, FreshInv, TapInv,
       AloneInv, CleanInv, DueInv, Delivering, JustPressed, Released, anotherShiftHeld,
       chordCtrlOrAltDown, shiftHeld, shiftOf, TwoHeld, passesForTap
  <1> QED BY <1>1, <1>2, <1>3, <1>4, <1>5, <1>6, <1>7, <1>8 DEF Next

LEMMA GestureAlways == Spec => []GestureInv
  <1>1. Init => GestureInv
    BY DEF Init, GestureInv, TypeOK, MsgInv, HoldInv, FreshInv, TapInv, AloneInv, CleanInv,
       DueInv, Delivering, JustPressed
  <1> QED BY <1>1, GestureInvariant, PTL DEF Spec

-----------------------------------------------------------------------------

(* Types, for any sets of keys: in particular the gesture names a key      *)
(* exactly while it is tracked.                                            *)
THEOREM GestureTypes == Spec => []TypeOK
  BY GestureAlways, PTL DEF GestureInv

(* Between two messages the tracked Shift is held, unless the focus moved. *)
THEOREM TrackedIsHeld == Spec => []TrackedShiftIsHeld
  <1>1. GestureInv => TrackedShiftIsHeld
    BY DEF GestureInv, TypeOK, HoldInv, TrackedShiftIsHeld, Released, Delivering
  <1> QED BY <1>1, GestureAlways, PTL

(* Chinese / English flips only at the release of a Shift held alone,      *)
(* whatever the host tests, repeats, drops or delivers twice, with the     *)
(* three exceptions ToggleOnlyAfterCleanTap names.                         *)
THEOREM CleanTapOnly == Spec => ToggleOnlyAfterCleanTap
  <1>1. GestureInv /\ [Next]_vars =>
          (chinese' # chinese => IF msg.key \in Shifts THEN passesForTap ELSE late)
    <2> SUFFICES ASSUME GestureInv, [Next]_vars, chinese' # chinese
                 PROVE  IF msg.key \in Shifts THEN passesForTap ELSE late
      OBVIOUS
    <2>1. OnKeyUp
      BY DEF Next, Press, AutoRepeat, Release, FocusMoves, Deactivate, OnTestKeyDown,
         OnKeyDown, OnTestKeyUp, HostDrops, vars
    <2>2. Delivering("up") /\ pendingAfterKeyUp(msg)
      BY <2>1 DEF OnKeyUp, Delivering
    <2>3. msg.key \notin Shifts => late
      BY <2>2 DEF pendingAfterKeyUp, GestureInv, MsgInv
    <2> QED BY <2>2, <2>3, PendingIsClean
  <1> QED BY <1>1, GestureAlways, PTL DEF Spec, ToggleOnlyAfterCleanTap

(* Every clean tap whose release the host did not test toggles. *)
THEOREM UntestedTap == Spec => UntestedTapToggles
  <1>1. GestureInv /\ [Next]_vars => (EndsTap /\ ~msg.tested => chinese' # chinese)
    <2> SUFFICES ASSUME GestureInv, [Next]_vars, EndsTap, ~msg.tested
                 PROVE  chinese' # chinese
      OBVIOUS
    <2>1. /\ msg # NoMsg /\ msg' = NoMsg /\ msg.kind = "up" /\ msg.key \in Shifts
          /\ track /\ ~invalidated /\ ~chordCtrlOrAltDown /\ ~shiftHeld
      BY DEF EndsTap, GestureInv, DueInv, Delivering
    <2>2. pendingAfterKeyUp(msg)
      BY <2>1 DEF pendingAfterKeyUp, shiftHeld, otherShiftStillHeld, anotherShiftHeld
    <2>3. ASSUME NEW e \in BOOLEAN, OnTestKeyUp(e) PROVE FALSE
      BY <2>1, <2>2, <2>3, MessageType DEF OnTestKeyUp, claimsKeyUp, GestureInv
    <2>4. OnKeyUp
      BY <2>1, <2>3 DEF Next, Press, AutoRepeat, Release, FocusMoves, Deactivate,
         OnTestKeyDown, OnKeyDown, EndsTap, vars
    <2> QED BY <2>2, <2>4 DEF OnKeyUp, GestureInv, TypeOK
  <1> QED BY <1>1, GestureAlways, PTL DEF Spec, UntestedTapToggles

=============================================================================
