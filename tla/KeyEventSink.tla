---------------------------- MODULE KeyEventSink ----------------------------
(***************************************************************************)
(* The Shift-tap gesture of the key event sink, win32/tsf/KeyEventSink.cpp.*)
(*                                                                         *)
(* A Shift key pressed and released on its own toggles Chinese / English.  *)
(* Nobody tells the sink that a tap happened: it infers it from the        *)
(* ITfKeyEventSink callbacks the host makes.  A host may call the OnTest*  *)
(* callback, the On* callback or both for one key message, and may drop a  *)
(* message the test callback claimed; it delivers auto-repeats of a held   *)
(* key; it may leave the scan code out of a message, so that both Shift    *)
(* keys look alike; and a key whose press it delivered may be released     *)
(* while another window has the focus.                                     *)
(*                                                                         *)
(* One action per callback.  What the callbacks do besides the gesture     *)
(* (answering for a key the input method wants, running its edit session,  *)
(* reading the tray's request files) is the subject of TextService; here   *)
(* it is the free answer "eaten" of a test callback.                       *)
(***************************************************************************)


CONSTANTS
    Shifts,    \* the physical Shift keys, told apart by wParam and scan code
    Chords,    \* Ctrl and Alt keys
    Letters,   \* every other key
    UnknownShift, \* VK_SHIFT with a scan code of neither Shift key
    NoKey,     \* no key: the zeroed shiftTapTrackedWParam_ / ScanCode_
    NoMsg      \* the host is delivering no key message

Keys == Shifts \cup Chords \cup Letters
Messages == [kind: {"down", "up"}, key: Keys, known: BOOLEAN, repeat: BOOLEAN,
             tested: BOOLEAN]

ASSUME KeysAssumption ==
    /\ Shifts \cap Letters = {}
    /\ Chords \cap (Shifts \cup Letters) = {}
    /\ NoKey \notin Keys /\ UnknownShift \notin Keys
    /\ NoKey # UnknownShift
    /\ NoMsg \notin Messages

VARIABLES
    track,          \* shiftTapTrack_
    invalidated,    \* shiftTapInvalidated_
    togglePending,  \* shiftTapTogglePending_
    trackedKey,     \* shiftTapTrackedWParam_ and shiftTapTrackedScanCode_
    chinese,        \* chineseActive_, flipped by langBarScheduleToggleChinese
    down,           \* the keys the user holds (GetKeyState, GetAsyncKeyState)
    focused,        \* key messages go to this text service
    msg,            \* the key message the host is delivering
    clean,          \* history: the Shift held alone since its press came here
    due,            \* history: the message is the release that ends a tap
    moved,          \* history: the focus moved while a Shift was held and
                    \* the sink has not seen the end of that hold yet
    alone,          \* history: no key but Shifts went down since the last
                    \* press of a Shift, and no chord was held at it
    late            \* history: the host dropped the release of a tap that
                    \* OnTestKeyUp had claimed, and no Shift release and no
                    \* toggle came since

gesture == <<track, invalidated, togglePending, trackedKey>>
vars == <<gesture, chinese, down, focused, msg, clean, due, moved, alone, late>>

-----------------------------------------------------------------------------
(* What the handlers read of the keyboard. *)

chordCtrlOrAltDown == down \cap Chords # {}
shiftHeld == down \cap Shifts # {}
anotherShiftHeld(k) == down \cap (Shifts \ {k}) # {}

(* The other Shift blocks the toggle, unless the message does not say      *)
(* which Shift it is about.                                                *)
otherShiftStillHeld(m) == m.known /\ anotherShiftHeld(m.key)

(* What wParam and scan code tell of the key. *)
shiftOf(m) == IF m.known THEN m.key ELSE UnknownShift

KeepsTheKey_resetShiftToggleGesture ==
    /\ track' = FALSE
    /\ invalidated' = FALSE
    /\ togglePending' = FALSE
    /\ UNCHANGED trackedKey

resetShiftToggleGesture ==
    /\ track' = FALSE
    /\ invalidated' = FALSE
    /\ togglePending' = FALSE
    /\ trackedKey' = NoKey

NoDedup_startShiftTap(m) ==
    /\ track' = TRUE
    /\ invalidated' = track
    /\ trackedKey' = IF track THEN trackedKey ELSE shiftOf(m)
    /\ UNCHANGED togglePending

(* The first KeyDown of a Shift starts the gesture; the test callback of   *)
(* the same press is recognised by its key.                                *)
startShiftTap(m) ==
    /\ track' = TRUE
    /\ invalidated' = IF track THEN invalidated \/ trackedKey # shiftOf(m)
                      ELSE FALSE
    /\ trackedKey' = IF track THEN trackedKey ELSE shiftOf(m)
    /\ UNCHANGED togglePending

trackShiftToggleKeyDown(m) ==
    \/ /\ m.key \in Shifts /\ chordCtrlOrAltDown
       /\ resetShiftToggleGesture
    \/ /\ m.key \in Shifts /\ ~chordCtrlOrAltDown /\ ~m.repeat
       /\ startShiftTap(m)
    \/ /\ m.key \in Shifts /\ ~chordCtrlOrAltDown /\ m.repeat
       /\ UNCHANGED gesture
    \/ /\ m.key \notin Shifts /\ track /\ ~shiftHeld
       /\ resetShiftToggleGesture
    \/ /\ m.key \notin Shifts /\ track /\ shiftHeld
       /\ invalidated' = TRUE
       /\ UNCHANGED <<track, togglePending, trackedKey>>
    \/ /\ m.key \notin Shifts /\ ~track
       /\ UNCHANGED gesture

OneHandOnly_pendingAfterKeyUp(m) ==
    IF m.key \in Shifts
    THEN track /\ ~invalidated /\ ~chordCtrlOrAltDown
    ELSE togglePending

(* What trackShiftToggleKeyUp leaves in shiftTapTogglePending_. *)
pendingAfterKeyUp(m) ==
    IF m.key \in Shifts
    THEN track /\ ~invalidated /\ ~chordCtrlOrAltDown /\ ~otherShiftStillHeld(m)
    ELSE togglePending

KeepsTracking_trackShiftToggleKeyUp(k) ==
    UNCHANGED <<track, invalidated, trackedKey>>

trackShiftToggleKeyUp(k) ==
    IF k \in Shifts
    THEN /\ track' = FALSE
         /\ invalidated' = FALSE
         /\ trackedKey' = NoKey
    ELSE UNCHANGED <<track, invalidated, trackedKey>>

-----------------------------------------------------------------------------
(* The user and the host. *)

Init ==
    /\ track = FALSE /\ invalidated = FALSE /\ togglePending = FALSE
    /\ trackedKey = NoKey
    /\ chinese = TRUE
    /\ down = {}
    /\ focused = TRUE
    /\ msg = NoMsg
    /\ clean = NoKey
    /\ due = FALSE
    /\ moved = FALSE
    /\ alone = FALSE
    /\ late = FALSE

(* Only a Shift can go without its scan code. *)
Message(kind, k, known, repeat) ==
    IF focused
    THEN [kind |-> kind, key |-> k, known |-> known \/ k \notin Shifts,
          repeat |-> repeat, tested |-> FALSE]
    ELSE NoMsg

Press(k, known) ==
    /\ msg = NoMsg
    /\ k \notin down
    /\ down' = down \cup {k}
    /\ msg' = Message("down", k, known, FALSE)
    /\ clean' = IF focused /\ k \in Shifts /\ ~shiftHeld /\ ~chordCtrlOrAltDown
                THEN k ELSE NoKey
    /\ alone' = (focused /\ k \in Shifts /\ ~chordCtrlOrAltDown)
    /\ UNCHANGED <<gesture, chinese, focused, due, moved, late>>

(* The keyboard repeats a key that stays down. *)
AutoRepeat(k, known) ==
    /\ msg = NoMsg
    /\ k \in down
    /\ focused
    /\ msg' = Message("down", k, known, TRUE)
    /\ clean' = IF k \in Shifts THEN clean ELSE NoKey
    /\ alone' = (alone /\ k \in Shifts)
    /\ UNCHANGED <<gesture, chinese, down, focused, due, moved, late>>

Release(k, known) ==
    /\ msg = NoMsg
    /\ k \in down
    /\ down' = down \ {k}
    /\ msg' = Message("up", k, known, FALSE)
    /\ due' = (focused /\ k = clean)
    /\ clean' = IF k \in Shifts THEN NoKey ELSE clean
    /\ UNCHANGED <<gesture, chinese, focused, moved, alone, late>>

(* Another window takes or returns the keyboard focus: no callback of the  *)
(* gesture runs.                                                           *)
FocusMoves ==
    /\ msg = NoMsg
    /\ focused' = ~focused
    /\ moved' = (moved \/ shiftHeld)
    /\ UNCHANGED <<gesture, chinese, down, msg, clean, due, alone, late>>

(* Tsf::Deactivate drops the gesture; a later ActivateEx is FocusMoves. *)
Deactivate ==
    /\ msg = NoMsg
    /\ focused
    /\ resetShiftToggleGesture
    /\ focused' = FALSE
    /\ moved' = (moved \/ shiftHeld)
    /\ late' = FALSE
    /\ UNCHANGED <<chinese, down, msg, clean, due, alone>>

-----------------------------------------------------------------------------
(* The callbacks.  A host that tests a key goes on to the On* callback     *)
(* only when the test callback claimed the key, and need not do so then.   *)

(* The sink has now seen the end of a hold the focus moved away from. *)
seesEndOfHold(m) ==
    \/ m.kind = "up" /\ m.key \in Shifts
    \/ m.kind = "down" /\ m.key \notin Shifts /\ ~shiftHeld

OnTestKeyDown(eaten) ==
    /\ msg # NoMsg
    /\ msg.kind = "down" /\ ~msg.tested
    /\ trackShiftToggleKeyDown(msg)
    /\ msg' = IF eaten THEN [msg EXCEPT !.tested = TRUE] ELSE NoMsg
    /\ moved' = (moved /\ ~seesEndOfHold(msg))
    /\ UNCHANGED <<chinese, down, focused, clean, due, alone, late>>

OnKeyDown ==
    /\ msg # NoMsg
    /\ msg.kind = "down"
    /\ trackShiftToggleKeyDown(msg)
    /\ msg' = NoMsg
    /\ moved' = (moved /\ ~seesEndOfHold(msg))
    /\ UNCHANGED <<chinese, down, focused, clean, due, alone, late>>

(* OnTestKeyUp claims the release of a tap, and any key the session wants. *)
claimsKeyUp(eaten) == togglePending' \/ eaten

OnTestKeyUp(eaten) ==
    /\ msg # NoMsg
    /\ msg.kind = "up" /\ ~msg.tested
    /\ trackShiftToggleKeyUp(msg.key)
    /\ togglePending' = pendingAfterKeyUp(msg)
    /\ msg' = IF claimsKeyUp(eaten)
              THEN [msg EXCEPT !.tested = TRUE] ELSE NoMsg
    /\ due' = (due /\ msg' # NoMsg)
    /\ moved' = (moved /\ ~(msg' = NoMsg /\ seesEndOfHold(msg)))
    /\ late' = (late /\ msg.key \notin Shifts)
    /\ UNCHANGED <<chinese, down, focused, clean, alone>>

OnKeyUp ==
    /\ msg # NoMsg
    /\ msg.kind = "up"
    /\ trackShiftToggleKeyUp(msg.key)
    /\ togglePending' = FALSE
    /\ chinese' = IF pendingAfterKeyUp(msg) THEN ~chinese ELSE chinese
    /\ msg' = NoMsg
    /\ due' = FALSE
    /\ moved' = (moved /\ ~seesEndOfHold(msg))
    /\ late' = (late /\ msg.key \notin Shifts /\ chinese' = chinese)
    /\ UNCHANGED <<down, focused, clean, alone>>

(* The truth about a release: it ends a tap, or what may pass for one.     *)
passesForTap ==
    \/ due                    \* the Shift was held alone
    \/ moved                  \* the hold was seen in part only
    \/ ~msg.known /\ alone    \* two Shifts the messages do not tell apart

(* The host does not deliver a message the test callback claimed. *)
HostDrops ==
    /\ msg # NoMsg
    /\ msg.tested
    /\ msg' = NoMsg
    /\ due' = FALSE
    /\ moved' = (moved /\ ~(msg.kind = "up" /\ msg.key \in Shifts))
    /\ late' = (late \/ (msg.kind = "up" /\ msg.key \in Shifts /\ passesForTap))
    /\ UNCHANGED <<gesture, chinese, down, focused, clean, alone>>

Next ==
    \/ \E k \in Keys, known \in BOOLEAN :
          Press(k, known) \/ AutoRepeat(k, known) \/ Release(k, known)
    \/ FocusMoves
    \/ Deactivate
    \/ \E eaten \in BOOLEAN : OnTestKeyDown(eaten) \/ OnTestKeyUp(eaten)
    \/ OnKeyDown
    \/ OnKeyUp
    \/ HostDrops

Spec == Init /\ [][Next]_vars

-----------------------------------------------------------------------------
(* Types, and the gesture names a key exactly while it is tracked: a reset *)
(* that forgot the key would make the next press of it look like a repeat. *)
TypeOK ==
    /\ track \in BOOLEAN /\ invalidated \in BOOLEAN
    /\ togglePending \in BOOLEAN
    /\ trackedKey \in Shifts \cup {NoKey, UnknownShift}
    /\ track <=> trackedKey # NoKey
    /\ chinese \in BOOLEAN
    /\ down \subseteq Keys
    /\ focused \in BOOLEAN
    /\ msg \in Messages \cup {NoMsg}
    /\ clean \in Shifts \cup {NoKey}
    /\ due \in BOOLEAN
    /\ moved \in BOOLEAN
    /\ alone \in BOOLEAN /\ late \in BOOLEAN

(* Between two messages the tracked Shift is one the user still holds (any *)
(* Shift, when the message that started the gesture did not say which),    *)
(* unless the focus moved during the hold: a missed release leaves at most *)
(* one stale gesture, and the next Shift release or plain key heals it     *)
(* (KeyEventSink.cpp:88-94).                                               *)
TrackedShiftIsHeld ==
    msg = NoMsg /\ track /\ ~moved =>
        IF trackedKey = UnknownShift THEN shiftHeld ELSE trackedKey \in down

(* Chinese / English flips only at the release of a Shift that was pressed *)
(* and held alone, whatever the host tests, repeats or delivers twice      *)
(* ("Plain Shift tap toggles Chinese / English (Shift+letter cancels)",    *)
(* tsf.h:232), with three exceptions the code cannot see: a hold the focus *)
(* moved away from, two Shifts whose messages carry no scan code, and a    *)
(* tap whose claimed release the host dropped: that one toggles at the     *)
(* next release of a plain key, once, and never after another Shift        *)
(* release or a deactivation.                                              *)
ToggleOnlyAfterCleanTap ==
    [][chinese' # chinese =>
           IF msg.key \in Shifts THEN passesForTap ELSE late]_vars

(* The delivery of a Shift release ends, and the host has dropped nothing. *)
EndsTap == msg # NoMsg /\ msg' = NoMsg /\ due /\ ~moved /\ ~HostDrops

(* Every clean tap toggles, however often its press was tested, repeated   *)
(* or delivered, when the host did not test its release.                   *)
UntestedTapToggles ==
    [][EndsTap /\ ~msg.tested => chinese' # chinese]_vars

(* Every clean tap toggles, for hosts that test the release as well: the   *)
(* double callback for one key message is recognised (TODO.md:60).         *)
EveryTapToggles ==
    [][EndsTap => chinese' # chinese]_vars

=============================================================================
