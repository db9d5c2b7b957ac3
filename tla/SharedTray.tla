------------------------------ MODULE SharedTray ------------------------------
(***************************************************************************)
(* The mode and the requests shared through files by the processes that    *)
(* have the text service loaded: the scheduling half of                    *)
(* win32/tsf/LangBarTray.cpp, the thread compartments of                   *)
(* win32/tsf/Compartment.cpp, the polls of KeyEventSink.cpp, the branches  *)
(* of DoEditSession (EditSession.cpp) that serve them, and the request     *)
(* the settings program writes (win32/configui/configui_main.cpp).         *)
(*                                                                         *)
(* A shell host (explorer, ctfmon, TextInputHost, ShellExperienceHost)     *)
(* shows the tray but edits no text, has a stub engine without an input    *)
(* method and no key event sink: its menu writes the mode the user asked   *)
(* for to a file.  An application polls the files at its key               *)
(* callbacks, applies what it reads, and removes the file.  The processes  *)
(* take no lock, so each access to a file is a step of its own; what a     *)
(* callback does to the state of its own process is part of such a step.   *)
(* Nobody writes the third request file, pending-tray-status-action.txt:   *)
(* it is always absent here.  The input method of an application is left   *)
(* out but for what it does to the mode the tray shows: English whenever   *)
(* it is keyboard-us.                                                      *)
(***************************************************************************)
EXTENDS Naturals

CONSTANTS
    Apps,          \* text services in applications
    Shells,        \* text services in shell hosts
    MaxRequests,   \* bound: mode requests written in a behaviour
    MaxSaves       \* bound: times the settings program saves

ASSUME SharedTrayAssumption ==
    /\ Apps \cap Shells = {}
    /\ MaxRequests \in Nat /\ MaxSaves \in Nat

Hosts == Apps \cup Shells

VARIABLES
    host,        \* the private state of each process: see Host
    poll,        \* the callback each process is in: see Poll
    throttle,    \* the clock of the focus polls: see Throttle
    modeFile,    \* pending-tray-chinese-mode.txt, ver = 0 when absent
    reloadFile,  \* pending-tray-pinyin-reload.txt: the version of the
                 \* configuration it announces, 0 when absent
    conf,        \* version of pinyin.conf on disk
    saving,      \* the settings program is between its two writes
    asked,       \* mode requests written so far
    owes         \* history: the applications focused since the present mode
                 \* request was written

files == <<modeFile, reloadFile, conf, saving, asked, owes>>
vars == <<host, poll, throttle, modeFile, reloadFile, conf, saving, asked, owes>>

(* chinese   chineseActive_                                                *)
(* native    TF_CONVERSIONMODE_NATIVE in the input mode compartment        *)
(* open      the keyboard-open compartment                                 *)
Host == [chinese: BOOLEAN, native: BOOLEAN, open: BOOLEAN]

(* "zero"      no focus event polled since ActivateEx                      *)
(* "polled"    sharedTrayFocusScheduleTick_ is set                         *)
(* "deferred"  and a later event came within 80 ms: SchedulePending_       *)
(* "inactive"  the text service is deactivated                             *)
Throttle == {"zero", "polled", "deferred", "inactive"}

(* pc      next step of the callback, "idle" between callbacks             *)
(* kind    "test" is OnTestKeyDown or OnTestKeyUp, "flush" is Deactivate   *)
(* want    the input method being activated is not keyboard-us             *)
(* granted the edit session was granted                                    *)
(* seen, reloadSeen   history: the request versions this callback has read *)
(* loaded  history: the version of pinyin.conf the engine has just read    *)
(* failed  history: the engine refused the reload                          *)
Poll == [pc: {"idle", "mode", "clearMode", "reload", "clearReload", "check",
              "leave", "activate"},
         kind: {"key", "test", "flush"}, want: BOOLEAN, granted: BOOLEAN,
         seen: 0..MaxRequests, reloadSeen: 0..MaxSaves, loaded: 0..MaxSaves,
         failed: BOOLEAN]

Idle == [pc |-> "idle", kind |-> "key", want |-> FALSE, granted |-> FALSE,
         seen |-> 0, reloadSeen |-> 0, loaded |-> 0, failed |-> FALSE]

ModeRequest == [ver: 0..MaxRequests, want: BOOLEAN]
NoRequest == [ver |-> 0, want |-> FALSE]

-----------------------------------------------------------------------------
(* The mode of one process and its compartments.                           *)

(* The modes the tray of h may be showing.                                 *)
langBarChineseMode(h) ==
    {host[h].chinese} \cup (IF h \in Apps THEN {FALSE} ELSE {})

syncInputModeConversionCompartment(s) == [s EXCEPT !.native = s.chinese]

UnlessSet_langBarNotifyIconUpdate(s) ==
    IF s.native THEN s ELSE syncInputModeConversionCompartment(s)

(* Every change of the mode ends here: the compartment is written (the     *)
(* notification of that write is suppressed) and the trays are told to     *)
(* redraw.                                                                 *)
langBarNotifyIconUpdate(s) == syncInputModeConversionCompartment(s)

(* langBarScheduleToggleChinese of an application: with an edit session or *)
(* without, the mode is flipped and announced.                             *)
toggleChinese(s) == langBarNotifyIconUpdate([s EXCEPT !.chinese = ~@])

Ready(h) == poll[h].pc = "idle" /\ throttle[h] # "inactive"

persistSharedTrayChineseModeRequest(want) ==
    /\ asked < MaxRequests
    /\ asked' = asked + 1 /\ owes' = {}
    /\ modeFile' = [ver |-> asked + 1, want |-> want]

-----------------------------------------------------------------------------
(* Callbacks that start from idle.                                         *)

(* A mode asked for in process h, whose state is s by then: a shell host   *)
(* sets its own mode, writes the request and announces the mode; an        *)
(* application toggles if its mode differs.                                *)
langBarScheduleSetChineseMode(h, s, want) ==
    /\ Ready(h)
    /\ \/ /\ h \in Shells
          /\ host' = [host EXCEPT ![h] =
                langBarNotifyIconUpdate([s EXCEPT !.chinese = want])]
          /\ persistSharedTrayChineseModeRequest(want)
       \/ /\ h \in Apps
          /\ host' = [host EXCEPT ![h] =
                IF s.chinese = want THEN langBarNotifyIconUpdate(s)
                                    ELSE toggleChinese(s)]
          /\ UNCHANGED <<asked, owes, modeFile>>
    /\ UNCHANGED <<poll, throttle, reloadFile, conf, saving>>

(* The mode submenu of the tray: only a change is scheduled.               *)
MenuSetsMode(h, want) ==
    /\ langBarChineseMode(h) # {want}
    /\ langBarScheduleSetChineseMode(h, host[h], want)

(* A click on the tray icon, or a Shift tap in an application.             *)
langBarScheduleToggleChinese(h) ==
    \/ h \in Shells /\ langBarScheduleSetChineseMode(h, host[h],
                                               ~host[h].chinese)
    \/ /\ h \in Apps /\ Ready(h)
       /\ host' = [host EXCEPT ![h] = toggleChinese(host[h])]
       /\ UNCHANGED <<poll, throttle, files>>

(* The input method submenu: the request file is written first, in every   *)
(* process.                                                                *)
langBarScheduleActivateInputMethod(h, want) ==
    /\ Ready(h)
    /\ persistSharedTrayChineseModeRequest(want)
    /\ poll' = [poll EXCEPT ![h] =
                  [Idle EXCEPT !.pc = "activate", !.want = want]]
    /\ UNCHANGED <<host, throttle, reloadFile, conf, saving>>

(* Then every process sets its mode, an application in an edit session or  *)
(* without one, whether or not its engine has such an input method.        *)
ActivateInputMethod(h) ==
    /\ poll[h].pc = "activate"
    /\ host' = [host EXCEPT ![h] =
                  langBarNotifyIconUpdate([@ EXCEPT !.chinese = poll[h].want])]
    /\ poll' = [poll EXCEPT ![h] = Idle]
    /\ UNCHANGED <<throttle, files>>

-----------------------------------------------------------------------------
(* Notifications of the thread manager.                                    *)

(* Somebody writes the conversion mode (or the notification of a write     *)
(* comes late: native is then what it was) and OnChange compares.          *)
OnChangeInputMode(h, native) ==
    LET s == [host[h] EXCEPT !.native = native] IN
    \/ /\ native # s.chinese
       /\ langBarScheduleSetChineseMode(h, s, native)
    \/ /\ native = s.chinese /\ Ready(h)
       /\ host' = [host EXCEPT ![h] = langBarNotifyIconUpdate(s)]
       /\ UNCHANGED <<poll, throttle, files>>

(* Somebody closes or opens the keyboard; OnChange opens it again.         *)
OnChangeKeyboardOpen(h, open) ==
    /\ Ready(h)
    /\ LET s == [host[h] EXCEPT !.open = open]
       IN  host' = [host EXCEPT ![h] = langBarNotifyIconUpdate(
                      IF s.open THEN s ELSE [s EXCEPT !.open = TRUE])]
    /\ UNCHANGED <<poll, throttle, files>>

handleProfileActivated(h, active) ==
    /\ Ready(h)
    /\ host' = [host EXCEPT ![h] = langBarNotifyIconUpdate(
                  [host[h] EXCEPT !.open = @ \/ active])]
    /\ UNCHANGED <<poll, throttle, files>>

-----------------------------------------------------------------------------
(* The polls of the key and focus callbacks.                               *)

RequestPending == modeFile.ver # 0 \/ reloadFile # 0

(* OnTestKeyDown and OnTestKeyUp poll when a request is pending; OnKeyDown *)
(* always does.                                                            *)
PollRequests(h, kind) ==
    /\ h \in Apps /\ Ready(h)
    /\ kind = "test" => RequestPending
    /\ poll' = [poll EXCEPT ![h] = [Idle EXCEPT !.kind = kind, !.pc = "mode"]]
    /\ UNCHANGED <<host, throttle, files>>

(* OnSetFocus of the thread manager polls too, but not within 80 ms of     *)
(* its last poll: then it notes that a poll is owed.                       *)
OnSetFocus(h) ==
    /\ h \in Apps /\ Ready(h)
    /\ owes' = IF modeFile.ver = 0 THEN owes ELSE owes \cup {h}
    /\ \/ /\ throttle' = [throttle EXCEPT ![h] = "polled"]
          /\ poll' = [poll EXCEPT ![h] = [Idle EXCEPT !.pc = "mode"]]
       \/ /\ throttle[h] # "zero"
          /\ throttle' = [throttle EXCEPT ![h] = "deferred"]
          /\ UNCHANGED poll
    /\ UNCHANGED <<host, modeFile, reloadFile, conf, saving, asked>>

DropsTheFlush_Deactivate(h) ==
    /\ Ready(h)
    /\ throttle' = [throttle EXCEPT ![h] = "inactive"]
    /\ UNCHANGED <<host, poll, files>>

(* Deactivate polls first when a poll is owed (the minimal branch of the   *)
(* shell hosts has none), then drops the clock with everything else.       *)
Deactivate(h) ==
    /\ Ready(h)
    /\ IF throttle[h] = "deferred"
       THEN /\ throttle' = [throttle EXCEPT ![h] = "polled"]
            /\ poll' = [poll EXCEPT ![h] =
                          [Idle EXCEPT !.kind = "flush", !.pc = "mode"]]
       ELSE /\ throttle' = [throttle EXCEPT ![h] = "inactive"]
            /\ UNCHANGED poll
    /\ UNCHANGED <<host, files>>

(* The rest of a Deactivate that polled.                                   *)
Leave(h) ==
    /\ poll[h].pc = "leave"
    /\ throttle' = [throttle EXCEPT ![h] = "inactive"]
    /\ poll' = [poll EXCEPT ![h] = Idle]
    /\ UNCHANGED <<host, files>>

(* The keyboard is opened and the mode announced, whatever the thread left *)
(* in the compartments meanwhile.                                          *)
ActivateEx(h) ==
    /\ throttle[h] = "inactive"
    /\ throttle' = [throttle EXCEPT ![h] = "zero"]
    /\ host' = [host EXCEPT ![h] =
                  langBarNotifyIconUpdate([@ EXCEPT !.open = TRUE])]
    /\ UNCHANGED <<poll, files>>

KeepsEqual_scheduleSharedTrayChineseModeRequest(h) ==
    /\ poll[h].pc = "mode"
    /\ LET req == modeFile
           equal == host[h].chinese = req.want
           seen == [poll[h] EXCEPT !.seen =
                      IF poll[h].kind = "key" THEN 0 ELSE req.ver]
       IN  IF req.ver = 0 \/ equal
           THEN /\ poll' = [poll EXCEPT ![h] = [seen EXCEPT !.pc = "reload"]]
                /\ UNCHANGED host
           ELSE \E granted \in BOOLEAN :
                /\ host' = [host EXCEPT ![h] =
                      IF granted THEN [@ EXCEPT !.chinese = req.want]
                                 ELSE toggleChinese(@)]
                /\ poll' = [poll EXCEPT ![h] =
                      [seen EXCEPT !.granted = granted, !.pc = "clearMode"]]
    /\ UNCHANGED <<throttle, files>>

(* The mode request is read.  If it asks for another mode, that mode is    *)
(* set in an edit session, which announces it last, or by the toggle that  *)
(* needs no context; then, and when the mode is already as asked, the file *)
(* is removed.                                                             *)
scheduleSharedTrayChineseModeRequest(h) ==
    /\ poll[h].pc = "mode"
    /\ LET req == modeFile
           seen == [poll[h] EXCEPT !.seen =
                      IF poll[h].kind = "key" THEN 0 ELSE req.ver]
       IN  \/ /\ req.ver = 0
              /\ poll' = [poll EXCEPT ![h] = [seen EXCEPT !.pc = "reload"]]
              /\ UNCHANGED host
           \/ /\ req.ver # 0 /\ host[h].chinese = req.want
              /\ poll' = [poll EXCEPT ![h] = [seen EXCEPT !.pc = "clearMode"]]
              /\ UNCHANGED host
           \/ /\ req.ver # 0 /\ host[h].chinese # req.want
              /\ \E granted \in BOOLEAN :
                    /\ host' = [host EXCEPT ![h] =
                          IF granted THEN [@ EXCEPT !.chinese = req.want]
                                     ELSE toggleChinese(@)]
                    /\ poll' = [poll EXCEPT ![h] =
                          [seen EXCEPT !.granted = granted,
                                       !.pc = "clearMode"]]
    /\ UNCHANGED <<throttle, files>>

(* Whatever the file holds by now is removed.  The granted session ends    *)
(* by announcing the mode.                                                 *)
clearSharedTrayChineseModeRequest(h) ==
    /\ poll[h].pc = "clearMode"
    /\ modeFile' = NoRequest /\ owes' = {}
    /\ host' = [host EXCEPT ![h] =
                  IF poll[h].granted THEN langBarNotifyIconUpdate(@) ELSE @]
    /\ poll' = [poll EXCEPT ![h].pc = "reload", ![h].granted = FALSE]
    /\ UNCHANGED <<throttle, reloadFile, conf, saving, asked>>

(* Where the callback goes on when it has polled.                          *)
afterPoll(p) ==
    CASE p.kind = "test"  -> [p EXCEPT !.pc = "check", !.loaded = 0]
      [] p.kind = "flush" -> [p EXCEPT !.pc = "leave", !.loaded = 0]
      [] OTHER            -> Idle

(* The reload request is read and the engine told to read its              *)
(* configuration, in an edit session or without; the engine refuses when   *)
(* it has no instance or cannot be reached.                                *)
scheduleSharedTrayPinyinReloadRequest(h) ==
    /\ poll[h].pc = "reload"
    /\ LET p == [poll[h] EXCEPT !.reloadSeen = reloadFile] IN
       \/ /\ reloadFile = 0
          /\ poll' = [poll EXCEPT ![h] = afterPoll(p)]
       \/ /\ reloadFile # 0
          /\ poll' = [poll EXCEPT ![h] = [p EXCEPT !.pc = "clearReload",
                                                  !.loaded = conf]]
       \/ /\ reloadFile # 0
          /\ poll' = [poll EXCEPT ![h] = afterPoll([p EXCEPT !.failed = TRUE])]
    /\ UNCHANGED <<host, throttle, files>>

clearSharedTrayPinyinReloadRequest(h) ==
    /\ poll[h].pc = "clearReload"
    /\ reloadFile' = 0
    /\ host' = [host EXCEPT ![h] = langBarNotifyIconUpdate(@)]
    /\ poll' = [poll EXCEPT ![h] = afterPoll(poll[h])]
    /\ UNCHANGED <<throttle, modeFile, conf, saving, asked, owes>>

(* A test callback claims its key if a request is (still) pending.         *)
CheckPending(h) ==
    /\ poll[h].pc = "check"
    /\ poll' = [poll EXCEPT ![h] = Idle]
    /\ UNCHANGED <<host, throttle, files>>

PollStep(h) ==
    \/ ActivateInputMethod(h)
    \/ scheduleSharedTrayChineseModeRequest(h)
    \/ clearSharedTrayChineseModeRequest(h)
    \/ scheduleSharedTrayPinyinReloadRequest(h)
    \/ clearSharedTrayPinyinReloadRequest(h)
    \/ CheckPending(h)
    \/ Leave(h)

-----------------------------------------------------------------------------
(* The settings program.                                                   *)

EarlyRequest_saveAll ==
    /\ ~saving /\ conf < MaxSaves
    /\ reloadFile' = conf + 1
    /\ saving' = TRUE
    /\ UNCHANGED <<host, poll, throttle, modeFile, conf, asked, owes>>

(* saveAll writes pinyin.conf ...                                          *)
saveAll ==
    /\ ~saving /\ conf < MaxSaves
    /\ conf' = conf + 1
    /\ saving' = TRUE
    /\ UNCHANGED <<host, poll, throttle, modeFile, reloadFile, asked, owes>>

(* ... and then asks for a reload.                                         *)
persistSharedTrayPinyinReloadRequest ==
    /\ saving
    /\ reloadFile' = conf
    /\ saving' = FALSE
    /\ UNCHANGED <<host, poll, throttle, modeFile, conf, asked, owes>>

-----------------------------------------------------------------------------
(* ActivateEx has opened the keyboard and announced the mode.              *)
Init ==
    /\ host = [h \in Hosts |-> [chinese |-> TRUE, native |-> TRUE, open |-> TRUE]]
    /\ poll = [h \in Hosts |-> Idle]
    /\ throttle = [h \in Hosts |-> "zero"]
    /\ modeFile = NoRequest /\ reloadFile = 0
    /\ conf = 0 /\ saving = FALSE /\ asked = 0 /\ owes = {}

Next ==
    \/ \E h \in Hosts, b \in BOOLEAN :
          \/ MenuSetsMode(h, b)
          \/ langBarScheduleActivateInputMethod(h, b)
          \/ OnChangeInputMode(h, b)
          \/ OnChangeKeyboardOpen(h, b)
          \/ handleProfileActivated(h, b)
    \/ \E h \in Hosts, kind \in {"key", "test"} : PollRequests(h, kind)
    \/ \E h \in Hosts :
          \/ langBarScheduleToggleChinese(h)
          \/ OnSetFocus(h)
          \/ Deactivate(h)
          \/ ActivateEx(h)
          \/ PollStep(h)
    \/ saveAll
    \/ persistSharedTrayPinyinReloadRequest

Spec == Init /\ [][Next]_vars

-----------------------------------------------------------------------------
(* The variables have the values they are declared to have; no file holds  *)
(* a request nobody has written, nor announces a configuration that is not *)
(* on disk yet.                                                            *)
TypeOK ==
    /\ host \in [Hosts -> Host]
    /\ poll \in [Hosts -> Poll]
    /\ throttle \in [Hosts -> Throttle]
    /\ modeFile \in ModeRequest /\ modeFile.ver <= asked
    /\ conf \in 0..MaxSaves /\ reloadFile \in 0..conf
    /\ saving \in BOOLEAN
    /\ asked \in 0..MaxRequests
    /\ owes \subseteq Apps

(* Outside an edit session the compartments of an active text service tell *)
(* Windows the mode it is in and that the keyboard is open, whoever        *)
(* changed the mode (tray, Shift, a request of another process, a foreign  *)
(* write) and whether or not an edit session was granted.                  *)
CompartmentFollowsMode ==
    \A h \in Hosts :
        throttle[h] # "inactive" /\ ~poll[h].granted =>
            host[h].open /\ host[h].native = host[h].chinese

(* When OnTestKeyDown or OnTestKeyUp claims a key for a pending request,   *)
(* or Deactivate leaves one behind, the request was written after this     *)
(* very callback read the file, or the engine has just refused it: an      *)
(* application never eats its user's keys for a request it has served.     *)
ServedRequestIsGone ==
    \A a \in Apps :
        poll[a].pc \in {"check", "leave"} =>
            /\ modeFile.ver # 0 => modeFile.ver > poll[a].seen
            /\ reloadFile # 0 => \/ reloadFile > poll[a].reloadSeen
                                 \/ poll[a].failed

(* A reload request is removed only by a process whose engine has read the *)
(* configuration the request announced: the settings program saves the     *)
(* file first, and the engine reads it after the request.                  *)
ReloadSeesItsConfig ==
    \A a \in Apps :
        poll[a].pc = "clearReload" => poll[a].loaded >= poll[a].reloadSeen

(* "tray sync is eventual. Deactivate() flushes if a burst ended while     *)
(* pending" (ThreadMgrEventSink.cpp:42): a mode request that was pending   *)
(* when an application got a focus event is not left behind when the       *)
(* application is deactivated, however the events were throttled.          *)
FocusedRequestIsTaken == \A a \in owes : throttle[a] # "inactive"

=============================================================================
