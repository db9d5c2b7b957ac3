--------------------------- MODULE SharedTrayProofs ---------------------------
(***************************************************************************)
(* The safety properties of SharedTray, for any number of applications,    *)
(* shell hosts, requests and saves.                                        *)
(***************************************************************************)
EXTENDS SharedTray, TLAPS

(* In an active text service the keyboard is open; its mode is announced   *)
(* but within the edit session a poll was granted, which is over before    *)
(* the callback goes on.                                                   *)
ModeInv ==
    \A h \in Hosts :
        /\ poll[h].granted => poll[h].pc = "clearMode"
        /\ throttle[h] # "inactive" =>
              /\ host[h].open
              /\ ~poll[h].granted => host[h].native = host[h].chinese

(* A callback that has passed the mode request left none it had seen.      *)
SeenInv ==
    \A h \in Hosts :
        /\ poll[h].seen <= asked
        /\ poll[h].pc \in {"reload", "clearReload", "check", "leave"} =>
              modeFile.ver = 0 \/ modeFile.ver > poll[h].seen

(* Until the settings program has asked for a reload of what it saved,     *)
(* nobody has seen a request for it; a callback that has passed the reload *)
(* request left none it had seen, but one the engine refused.              *)
ReloadInv ==
    /\ saving => reloadFile < conf
    /\ \A h \in Hosts :
          /\ poll[h].reloadSeen <= conf
          /\ saving => poll[h].reloadSeen < conf
          /\ poll[h].pc = "clearReload" => poll[h].loaded >= poll[h].reloadSeen
          /\ poll[h].pc \in {"check", "leave"} =>
                \/ reloadFile = 0
                \/ reloadFile > poll[h].reloadSeen
                \/ poll[h].failed

(* An application that owes a poll has noted it, or is about to take the   *)
(* request that is still there; a Deactivate that polls first has nothing  *)
(* noted any more.                                                         *)
FocusInv ==
    /\ owes # {} => modeFile.ver # 0
    /\ \A h \in Hosts :
          /\ poll[h].pc = "leave" => poll[h].kind = "flush"
          /\ poll[h].kind = "flush" /\ poll[h].pc # "idle" =>
                throttle[h] = "polled"
          /\ h \in owes =>
                /\ throttle[h] # "inactive"
                /\ \/ throttle[h] = "deferred"
                   \/ poll[h].pc \in {"mode", "clearMode"}

-----------------------------------------------------------------------------
(* The operators of SharedTray.                                            *)

LEMMA HostFields ==
    ASSUME NEW s \in Host
    PROVE  /\ s.chinese \in BOOLEAN
           /\ s.native \in BOOLEAN
           /\ s.open \in BOOLEAN
           /\ (~s.chinese) \in BOOLEAN
BY DEF Host

LEMMA HostExcept ==
    ASSUME NEW s \in Host, NEW b \in BOOLEAN
    PROVE  /\ [s EXCEPT !.chinese = b] \in Host
           /\ [s EXCEPT !.chinese = b].chinese = b
           /\ [s EXCEPT !.chinese = b].open = s.open
           /\ [s EXCEPT !.native = b] \in Host
           /\ [s EXCEPT !.native = b].chinese = s.chinese
           /\ [s EXCEPT !.native = b].open = s.open
           /\ [s EXCEPT !.open = b] \in Host
           /\ [s EXCEPT !.open = b].open = b
BY DEF Host

(* An announcement brings the compartment up to the mode and changes       *)
(* nothing else.                                                           *)
LEMMA Announced ==
    ASSUME NEW s \in Host
    PROVE  /\ langBarNotifyIconUpdate(s) \in Host
           /\ langBarNotifyIconUpdate(s).open = s.open
           /\ langBarNotifyIconUpdate(s).native
                = langBarNotifyIconUpdate(s).chinese
BY DEF Host, langBarNotifyIconUpdate, syncInputModeConversionCompartment

LEMMA Toggled ==
    ASSUME NEW s \in Host
    PROVE  /\ toggleChinese(s) \in Host
           /\ toggleChinese(s).open = s.open
           /\ toggleChinese(s).native = toggleChinese(s).chinese
<1> DEFINE c == ~s.chinese
           t == [s EXCEPT !.chinese = c]
<1>1. c \in BOOLEAN
  BY HostFields
<1>2. t \in Host /\ t.open = s.open
  <2> HIDE DEF c
  <2> QED
    BY <1>1, HostExcept
<1>3. toggleChinese(s) = langBarNotifyIconUpdate(t)
  BY DEF toggleChinese
<1> HIDE DEF t
<1> QED
  BY <1>2, <1>3, Announced

LEMMA PollIdle == Idle \in Poll
BY SharedTrayAssumption DEF Idle, Poll

LEMMA AfterPoll ==
    ASSUME NEW p \in Poll
    PROVE  /\ afterPoll(p) \in Poll
           /\ afterPoll(p).granted \in {p.granted, FALSE}
           /\ afterPoll(p).seen \in {p.seen, 0}
           /\ afterPoll(p).reloadSeen \in {p.reloadSeen, 0}
           /\ afterPoll(p).pc \in {"check", "leave"} =>
                 /\ afterPoll(p).seen = p.seen
                 /\ afterPoll(p).reloadSeen = p.reloadSeen
                 /\ afterPoll(p).failed = p.failed
           /\ afterPoll(p).pc \in {"check", "leave", "idle"}
           /\ afterPoll(p).pc = "leave" => afterPoll(p).kind = "flush"
           /\ afterPoll(p).kind = "flush" => p.kind = "flush"
<1>1. ASSUME NEW pc \in {"check", "leave"}
      PROVE  LET q == [p EXCEPT !.pc = pc, !.loaded = 0]
             IN  /\ q \in Poll /\ q.pc = pc /\ q.kind = p.kind
                 /\ q.granted = p.granted /\ q.seen = p.seen
                 /\ q.reloadSeen = p.reloadSeen /\ q.failed = p.failed
  <2> DEFINE q == [p EXCEPT !.pc = pc, !.loaded = 0]
  <2>0. 0 \in 0..MaxSaves
    BY SharedTrayAssumption
  <2>1. q \in Poll
    BY <2>0 DEF Poll
  <2>2. /\ q.pc = pc /\ q.kind = p.kind /\ q.granted = p.granted
        /\ q.seen = p.seen /\ q.reloadSeen = p.reloadSeen
        /\ q.failed = p.failed
    BY DEF Poll
  <2> QED
    BY <2>1, <2>2
<1>2. CASE p.kind \in {"test", "flush"}
  BY <1>1, <1>2 DEF afterPoll
<1>3. CASE p.kind \notin {"test", "flush"}
  <2>1. afterPoll(p) = Idle
    BY <1>3 DEF afterPoll
  <2> QED
    BY <2>1, PollIdle DEF Idle
<1> QED
  BY <1>2, <1>3

-----------------------------------------------------------------------------
(* What the callbacks that only change the mode do: one process announces  *)
(* its mode, and may have written a request.                               *)
ModeAnnounced(h) ==
    /\ host' \in [Hosts -> Host]
    /\ \A g \in Hosts \ {h} : host'[g] = host[g]
    /\ host[h].open => host'[h].open
    /\ host'[h].native = host'[h].chinese
    /\ UNCHANGED <<poll, throttle, reloadFile, conf, saving>>
    /\ \/ UNCHANGED <<asked, owes, modeFile>>
       \/ /\ asked < MaxRequests /\ asked' = asked + 1
          /\ owes' = {}
          /\ modeFile' \in ModeRequest /\ modeFile'.ver = asked + 1

LEMMA RequestWritten ==
    ASSUME TypeOK, NEW want \in BOOLEAN,
           persistSharedTrayChineseModeRequest(want)
    PROVE  /\ asked < MaxRequests /\ asked' = asked + 1
           /\ owes' = {}
           /\ modeFile' \in ModeRequest /\ modeFile'.ver = asked + 1
BY SharedTrayAssumption
   DEF TypeOK, persistSharedTrayChineseModeRequest, ModeRequest

(* The process that is updated to x is the only one.                       *)
LEMMA OneHost ==
    ASSUME TypeOK, NEW h \in Hosts, NEW x \in Host,
           host' = [host EXCEPT ![h] = x]
    PROVE  /\ host' \in [Hosts -> Host]
           /\ host'[h] = x
           /\ \A g \in Hosts \ {h} : host'[g] = host[g]
BY DEF TypeOK

LEMMA OnePoll ==
    ASSUME TypeOK, NEW h \in Hosts, NEW x \in Poll,
           poll' = [poll EXCEPT ![h] = x]
    PROVE  /\ poll' \in [Hosts -> Poll]
           /\ poll'[h] = x
           /\ \A g \in Hosts \ {h} : poll'[g] = poll[g]
BY DEF TypeOK

LEMMA ModeSet ==
    ASSUME TypeOK, NEW h \in Hosts, NEW s \in Host, NEW want \in BOOLEAN,
           host[h].open => s.open,
           langBarScheduleSetChineseMode(h, s, want)
    PROVE  ModeAnnounced(h)
<1>1. CASE h \in Shells /\ persistSharedTrayChineseModeRequest(want)
             /\ host' = [host EXCEPT ![h] =
                   langBarNotifyIconUpdate([s EXCEPT !.chinese = want])]
  <2> DEFINE y == [s EXCEPT !.chinese = want]
             x == langBarNotifyIconUpdate(y)
  <2>0. y \in Host /\ y.open = s.open
    BY DEF Host
  <2> HIDE DEF y
  <2>1. x \in Host /\ x.open = s.open /\ x.native = x.chinese
    BY <2>0, Announced
  <2> USE DEF y
  <2>2. /\ host' \in [Hosts -> Host] /\ host'[h] = x
        /\ \A g \in Hosts \ {h} : host'[g] = host[g]
    BY <1>1, <2>1, OneHost
  <2> QED
    BY <1>1, <2>1, <2>2, RequestWritten
       DEF ModeAnnounced, langBarScheduleSetChineseMode
<1>2. CASE h \in Apps /\ UNCHANGED <<asked, owes, modeFile>>
             /\ host' = [host EXCEPT ![h] =
                   IF s.chinese = want THEN langBarNotifyIconUpdate(s)
                                       ELSE toggleChinese(s)]
  <2> DEFINE x == IF s.chinese = want THEN langBarNotifyIconUpdate(s)
                                      ELSE toggleChinese(s)
  <2>1. x \in Host /\ x.open = s.open /\ x.native = x.chinese
    BY Announced, Toggled
  <2>2. /\ host' \in [Hosts -> Host] /\ host'[h] = x
        /\ \A g \in Hosts \ {h} : host'[g] = host[g]
    BY <1>2, <2>1, OneHost
  <2> QED
    BY <1>2, <2>1, <2>2 DEF ModeAnnounced, langBarScheduleSetChineseMode
<1> QED
  BY <1>1, <1>2 DEF langBarScheduleSetChineseMode

(* The callbacks from idle that only change the mode.                      *)
ModeCallback(h) ==
    \/ \E b \in BOOLEAN : \/ MenuSetsMode(h, b)
                          \/ OnChangeInputMode(h, b)
                          \/ OnChangeKeyboardOpen(h, b)
                          \/ handleProfileActivated(h, b)
    \/ langBarScheduleToggleChinese(h)

LEMMA ModeCallbackAnnounces ==
    ASSUME TypeOK, NEW h \in Hosts, ModeCallback(h)
    PROVE  ModeAnnounced(h)
<1> DEFINE s == host[h]
<1>0. s \in Host
  BY DEF TypeOK
<1>1. ASSUME NEW b \in BOOLEAN, MenuSetsMode(h, b) PROVE ModeAnnounced(h)
  BY <1>0, <1>1, ModeSet DEF MenuSetsMode
<1>2. ASSUME NEW b \in BOOLEAN, OnChangeInputMode(h, b)
      PROVE  ModeAnnounced(h)
  <2> DEFINE t == [host[h] EXCEPT !.native = b]
  <2>1. t \in Host /\ t.open = s.open
    BY <1>0, HostExcept
  <2>2. CASE langBarScheduleSetChineseMode(h, t, b)
    BY <2>1, <2>2, ModeSet
  <2>3. CASE /\ Ready(h)
             /\ host' = [host EXCEPT ![h] = langBarNotifyIconUpdate(t)]
             /\ UNCHANGED <<poll, throttle, files>>
    <3> DEFINE x == langBarNotifyIconUpdate(t)
    <3>1. x \in Host /\ x.open = s.open /\ x.native = x.chinese
      BY <2>1, Announced
    <3>2. /\ host' \in [Hosts -> Host] /\ host'[h] = x
          /\ \A g \in Hosts \ {h} : host'[g] = host[g]
      BY <2>3, <3>1, OneHost
    <3> QED
      BY <2>3, <3>1, <3>2 DEF ModeAnnounced, files
  <2> QED
    BY <1>2, <2>2, <2>3 DEF OnChangeInputMode
<1>3. ASSUME NEW x \in Host, x.open, x.native = x.chinese,
             host' = [host EXCEPT ![h] = x],
             UNCHANGED <<poll, throttle, files>>
      PROVE  ModeAnnounced(h)
  <2>1. /\ host' \in [Hosts -> Host] /\ host'[h] = x
        /\ \A g \in Hosts \ {h} : host'[g] = host[g]
    BY <1>3, OneHost
  <2> QED
    BY <1>3, <2>1 DEF ModeAnnounced, files
<1>4. ASSUME NEW b \in BOOLEAN, OnChangeKeyboardOpen(h, b)
      PROVE  ModeAnnounced(h)
  <2> DEFINE t == [host[h] EXCEPT !.open = b]
             u == IF t.open THEN t ELSE [t EXCEPT !.open = TRUE]
  <2>1. t \in Host
    BY <1>0, HostExcept
  <2>2. u \in Host /\ u.open
    BY <2>1, HostExcept
  <2> DEFINE x == langBarNotifyIconUpdate(u)
  <2>3. x \in Host /\ x.open = u.open /\ x.native = x.chinese
    BY <2>2, Announced
  <2>4. host' = [host EXCEPT ![h] = x] /\ UNCHANGED <<poll, throttle, files>>
    BY <1>4 DEF OnChangeKeyboardOpen
  <2> QED
    BY <2>2, <2>3, <2>4, <1>3
<1>5. ASSUME NEW b \in BOOLEAN, handleProfileActivated(h, b)
      PROVE  ModeAnnounced(h)
  <2> DEFINE c == s.open \/ b
             u == [s EXCEPT !.open = c]
             x == langBarNotifyIconUpdate(u)
  <2>1. c \in BOOLEAN
    OBVIOUS
  <2>2. u \in Host /\ u.open = c
    <3> HIDE DEF c
    <3> QED
      BY <1>0, <2>1, HostExcept
  <2>3. x \in Host /\ x.open = u.open /\ x.native = x.chinese
    BY <2>2, Announced
  <2>4. host' = [host EXCEPT ![h] = x] /\ UNCHANGED <<poll, throttle, files>>
    BY <1>5 DEF handleProfileActivated
  <2>5. /\ host' \in [Hosts -> Host] /\ host'[h] = x
        /\ \A g \in Hosts \ {h} : host'[g] = host[g]
    BY <2>3, <2>4, OneHost
  <2> QED
    BY <2>2, <2>3, <2>4, <2>5 DEF ModeAnnounced, files
<1>6. CASE langBarScheduleToggleChinese(h)
  <2>1. CASE langBarScheduleSetChineseMode(h, host[h], ~host[h].chinese)
    BY <1>0, <2>1, HostFields, ModeSet
  <2>2. CASE /\ host' = [host EXCEPT ![h] = toggleChinese(host[h])]
             /\ UNCHANGED <<poll, throttle, files>>
    <3> DEFINE x == toggleChinese(s)
    <3>1. x \in Host /\ x.open = s.open /\ x.native = x.chinese
      BY <1>0, Toggled
    <3>2. /\ host' \in [Hosts -> Host] /\ host'[h] = x
          /\ \A g \in Hosts \ {h} : host'[g] = host[g]
      BY <2>2, <3>1, OneHost
    <3> QED
      BY <2>2, <3>1, <3>2 DEF ModeAnnounced, files
  <2> QED
    BY <1>6, <2>1, <2>2 DEF langBarScheduleToggleChinese
<1> QED
  BY <1>1, <1>2, <1>4, <1>5, <1>6 DEF ModeCallback

-----------------------------------------------------------------------------
(* The inductive invariant.                                                *)

IInv == TypeOK /\ ModeInv /\ SeenInv /\ ReloadInv /\ FocusInv

LEMMA InitIInv == Init => IInv
<1> SUFFICES ASSUME Init PROVE IInv
  OBVIOUS
<1>1. TypeOK
  <2>1. poll \in [Hosts -> Poll]
    BY PollIdle DEF Init
  <2>2. host \in [Hosts -> Host] /\ throttle \in [Hosts -> Throttle]
    BY DEF Init, Host, Throttle
  <2>3. modeFile \in ModeRequest /\ modeFile.ver <= asked
    BY SharedTrayAssumption DEF Init, ModeRequest, NoRequest
  <2>4. /\ conf \in 0..MaxSaves /\ reloadFile \in 0..conf
        /\ saving \in BOOLEAN /\ asked \in 0..MaxRequests
        /\ owes \subseteq Apps
    <3>1. /\ conf = 0 /\ reloadFile = 0 /\ asked = 0
          /\ saving = FALSE /\ owes = {}
      BY DEF Init
    <3>2. conf \in 0..MaxSaves /\ asked \in 0..MaxRequests
      BY <3>1, SharedTrayAssumption
    <3>3. reloadFile \in 0..conf
      BY <3>1
    <3> QED
      BY <3>1, <3>2, <3>3
  <2> QED
    BY <2>1, <2>2, <2>3, <2>4 DEF TypeOK
<1>2. \A h \in Hosts : poll[h] = Idle
  BY DEF Init
<1>3. ModeInv
  BY <1>2 DEF Init, ModeInv, Idle
<1>4. SeenInv
  BY <1>2 DEF Init, SeenInv, Idle
<1>5. ReloadInv
  BY <1>2 DEF Init, ReloadInv, Idle
<1>6. FocusInv
  BY <1>2 DEF Init, FocusInv, Idle
<1> QED
  BY <1>1, <1>3, <1>4, <1>5, <1>6 DEF IInv

LEMMA StepIInv == IInv /\ [Next]_vars => IInv'
<1> SUFFICES ASSUME IInv, [Next]_vars PROVE IInv'
  OBVIOUS
<1> USE SharedTrayAssumption
<1>0. TypeOK /\ ModeInv /\ SeenInv /\ ReloadInv /\ FocusInv
  BY DEF IInv
<1>n. /\ asked \in Nat /\ conf \in Nat /\ reloadFile \in Nat
      /\ modeFile \in ModeRequest /\ modeFile.ver \in Nat
      /\ modeFile.ver <= asked /\ reloadFile <= conf
      /\ 0 \in 0..MaxRequests /\ 0 \in 0..MaxSaves
      /\ \A g \in Hosts : /\ host[g] \in Host
                          /\ poll[g] \in Poll
                          /\ throttle[g] \in Throttle
                          /\ poll[g].seen \in Nat
                          /\ poll[g].reloadSeen \in Nat
  BY <1>0 DEF TypeOK, ModeRequest, Poll
<1>1. ASSUME NEW h \in Hosts, ModeCallback(h) PROVE IInv'
  <2>0. ModeAnnounced(h)
    BY <1>0, <1>1, ModeCallbackAnnounces
  <2>1. TypeOK'
    BY <1>0, <1>n, <2>0 DEF TypeOK, ModeAnnounced
  <2>2. ModeInv'
    BY <1>0, <2>0 DEF ModeInv, ModeAnnounced
  <2>3. SeenInv'
    BY <1>0, <1>n, <2>0 DEF SeenInv, ModeAnnounced
  <2>4. ReloadInv'
    BY <1>0, <2>0 DEF ReloadInv, ModeAnnounced
  <2>5. FocusInv'
    BY <1>0, <2>0 DEF FocusInv, ModeAnnounced
  <2> QED
    BY <2>1, <2>2, <2>3, <2>4, <2>5 DEF IInv
<1>2. ASSUME NEW h \in Hosts, NEW b \in BOOLEAN,
             langBarScheduleActivateInputMethod(h, b)
      PROVE  IInv'
  <2> DEFINE p == [Idle EXCEPT !.pc = "activate", !.want = b]
  <2>1. /\ p \in Poll /\ p.pc = "activate" /\ ~p.granted
        /\ p.seen = 0 /\ p.reloadSeen = 0 /\ p.kind = "key"
    BY <1>n DEF Poll, Idle
  <2>2. /\ poll' \in [Hosts -> Poll] /\ poll'[h] = p
        /\ \A g \in Hosts \ {h} : poll'[g] = poll[g]
    BY <1>0, <1>2, <2>1, OnePoll DEF langBarScheduleActivateInputMethod
  <2>3. /\ asked < MaxRequests /\ asked' = asked + 1 /\ owes' = {}
        /\ modeFile' \in ModeRequest /\ modeFile'.ver = asked + 1
    BY <1>0, <1>2, RequestWritten DEF langBarScheduleActivateInputMethod
  <2>4. /\ UNCHANGED <<host, throttle, reloadFile, conf, saving>>
        /\ throttle[h] # "inactive" /\ poll[h].pc = "idle"
    BY <1>2 DEF langBarScheduleActivateInputMethod, Ready
  <2> HIDE DEF p
  <2>5. TypeOK'
    BY <1>0, <1>n, <2>2, <2>3, <2>4 DEF TypeOK
  <2>6. ModeInv'
    BY <1>0, <2>1, <2>2, <2>4 DEF ModeInv
  <2>7. SeenInv'
    BY <1>0, <1>n, <2>1, <2>2, <2>3 DEF SeenInv
  <2>8. ReloadInv'
    BY <1>0, <1>n, <2>1, <2>2, <2>4 DEF ReloadInv
  <2>9. FocusInv'
    BY <1>0, <2>1, <2>2, <2>3, <2>4 DEF FocusInv
  <2> QED
    BY <2>5, <2>6, <2>7, <2>8, <2>9 DEF IInv
<1>3. ASSUME NEW h \in Hosts, NEW kind \in {"key", "test"},
             PollRequests(h, kind)
      PROVE  IInv'
  <2> DEFINE p == [Idle EXCEPT !.kind = kind, !.pc = "mode"]
  <2>1. /\ p \in Poll /\ p.pc = "mode" /\ ~p.granted
        /\ p.seen = 0 /\ p.reloadSeen = 0 /\ p.kind = kind
    BY <1>n DEF Poll, Idle
  <2>2. /\ poll' \in [Hosts -> Poll] /\ poll'[h] = p
        /\ \A g \in Hosts \ {h} : poll'[g] = poll[g]
    BY <1>0, <1>3, <2>1, OnePoll DEF PollRequests
  <2>3. UNCHANGED <<host, throttle, files>> /\ Ready(h)
    BY <1>3 DEF PollRequests
  <2> HIDE DEF p
  <2>4. TypeOK'
    BY <1>0, <2>2, <2>3 DEF TypeOK, files
  <2>5. ModeInv'
    BY <1>0, <2>1, <2>2, <2>3 DEF ModeInv, Ready
  <2>6. SeenInv'
    BY <1>0, <1>n, <2>1, <2>2, <2>3 DEF SeenInv, files
  <2>7. ReloadInv'
    BY <1>0, <1>n, <2>1, <2>2, <2>3 DEF ReloadInv, files
  <2>8. FocusInv'
    BY <1>0, <2>1, <2>2, <2>3 DEF FocusInv, files
  <2> QED
    BY <2>4, <2>5, <2>6, <2>7, <2>8 DEF IInv
<1>4. ASSUME NEW h \in Hosts, OnSetFocus(h) PROVE IInv'
  <2> DEFINE p == [Idle EXCEPT !.pc = "mode"]
  <2>1. /\ p \in Poll /\ p.pc = "mode" /\ ~p.granted
        /\ p.seen = 0 /\ p.reloadSeen = 0 /\ p.kind = "key"
    BY <1>n DEF Poll, Idle
  <2>2. /\ Ready(h) /\ h \in Apps
        /\ UNCHANGED <<host, modeFile, reloadFile, conf, saving, asked>>
        /\ owes' = IF modeFile.ver = 0 THEN owes ELSE owes \cup {h}
    BY <1>4 DEF OnSetFocus
  <2>3. CASE /\ throttle' = [throttle EXCEPT ![h] = "polled"]
             /\ poll' = [poll EXCEPT ![h] = p]
    <3>1. /\ poll' \in [Hosts -> Poll] /\ poll'[h] = p
          /\ \A g \in Hosts \ {h} : poll'[g] = poll[g]
      BY <1>0, <2>1, <2>3, OnePoll
    <3>2. /\ throttle' \in [Hosts -> Throttle] /\ throttle'[h] = "polled"
          /\ \A g \in Hosts \ {h} : throttle'[g] = throttle[g]
      BY <1>0, <2>3 DEF TypeOK, Throttle
    <3> HIDE DEF p
    <3>3. TypeOK'
      BY <1>0, <2>2, <3>1, <3>2 DEF TypeOK
    <3>4. ModeInv'
      BY <1>0, <2>1, <2>2, <3>1, <3>2 DEF ModeInv, Ready
    <3>5. SeenInv'
      BY <1>0, <1>n, <2>1, <2>2, <3>1 DEF SeenInv
    <3>6. ReloadInv'
      BY <1>0, <1>n, <2>1, <2>2, <3>1 DEF ReloadInv
    <3>7. FocusInv'
      BY <1>0, <2>1, <2>2, <3>1, <3>2 DEF FocusInv
    <3> QED
      BY <3>3, <3>4, <3>5, <3>6, <3>7 DEF IInv
  <2>4. CASE /\ throttle' = [throttle EXCEPT ![h] = "deferred"]
             /\ UNCHANGED poll
    <3>1. /\ throttle' \in [Hosts -> Throttle] /\ throttle'[h] = "deferred"
          /\ \A g \in Hosts \ {h} : throttle'[g] = throttle[g]
      BY <1>0, <2>4 DEF TypeOK, Throttle
    <3>2. TypeOK'
      BY <1>0, <2>2, <2>4, <3>1 DEF TypeOK
    <3>3. ModeInv'
      BY <1>0, <2>2, <2>4, <3>1 DEF ModeInv, Ready
    <3>4. SeenInv' /\ ReloadInv'
      BY <1>0, <2>2, <2>4 DEF SeenInv, ReloadInv
    <3>5. FocusInv'
      BY <1>0, <2>2, <2>4, <3>1 DEF FocusInv, Ready
    <3> QED
      BY <3>2, <3>3, <3>4, <3>5 DEF IInv
  <2> QED
    BY <1>4, <2>3, <2>4 DEF OnSetFocus
<1>5. ASSUME NEW h \in Hosts, Deactivate(h) PROVE IInv'
  <2>1. Ready(h) /\ UNCHANGED <<host, files>>
    BY <1>5 DEF Deactivate
  <2>2. CASE throttle[h] = "deferred"
    <3> DEFINE p == [Idle EXCEPT !.kind = "flush", !.pc = "mode"]
    <3>1. /\ p \in Poll /\ p.pc = "mode" /\ ~p.granted
          /\ p.seen = 0 /\ p.reloadSeen = 0 /\ p.kind = "flush"
      BY <1>n DEF Poll, Idle
    <3>2. /\ poll' \in [Hosts -> Poll] /\ poll'[h] = p
          /\ \A g \in Hosts \ {h} : poll'[g] = poll[g]
      BY <1>0, <1>5, <2>2, <3>1, OnePoll DEF Deactivate
    <3>3. /\ throttle' \in [Hosts -> Throttle] /\ throttle'[h] = "polled"
          /\ \A g \in Hosts \ {h} : throttle'[g] = throttle[g]
      BY <1>0, <1>5, <2>2 DEF Deactivate, TypeOK, Throttle
    <3> HIDE DEF p
    <3>4. TypeOK'
      BY <1>0, <2>1, <3>2, <3>3 DEF TypeOK, files
    <3>5. ModeInv'
      BY <1>0, <2>1, <3>1, <3>2, <3>3 DEF ModeInv, Ready
    <3>6. SeenInv'
      BY <1>0, <1>n, <2>1, <3>1, <3>2 DEF SeenInv, files
    <3>7. ReloadInv'
      BY <1>0, <1>n, <2>1, <3>1, <3>2 DEF ReloadInv, files
    <3>8. FocusInv'
      BY <1>0, <2>1, <3>1, <3>2, <3>3 DEF FocusInv, files
    <3> QED
      BY <3>4, <3>5, <3>6, <3>7, <3>8 DEF IInv
  <2>3. CASE throttle[h] # "deferred"
    <3>1. /\ throttle' \in [Hosts -> Throttle] /\ throttle'[h] = "inactive"
          /\ \A g \in Hosts \ {h} : throttle'[g] = throttle[g]
          /\ UNCHANGED poll
      BY <1>0, <1>5, <2>3 DEF Deactivate, TypeOK, Throttle
    <3>2. TypeOK'
      BY <1>0, <2>1, <3>1 DEF TypeOK, files
    <3>3. ModeInv'
      BY <1>0, <2>1, <3>1 DEF ModeInv
    <3>4. SeenInv' /\ ReloadInv'
      BY <1>0, <2>1, <3>1 DEF SeenInv, ReloadInv, files
    <3>5. FocusInv'
      BY <1>0, <2>1, <2>3, <3>1 DEF FocusInv, files, Ready
    <3> QED
      BY <3>2, <3>3, <3>4, <3>5 DEF IInv
  <2> QED
    BY <2>2, <2>3
<1>6. ASSUME NEW h \in Hosts, ActivateEx(h) PROVE IInv'
  <2> DEFINE u == [host[h] EXCEPT !.open = TRUE]
             x == langBarNotifyIconUpdate(u)
  <2>1. u \in Host /\ u.open
    BY <1>n, HostExcept
  <2> HIDE DEF u
  <2>2. x \in Host /\ x.open = u.open /\ x.native = x.chinese
    BY <2>1, Announced
  <2>3. /\ host' = [host EXCEPT ![h] = x]
        /\ throttle[h] = "inactive"
        /\ throttle' = [throttle EXCEPT ![h] = "zero"]
        /\ UNCHANGED <<poll, files>>
    BY <1>6 DEF ActivateEx, u
  <2> HIDE DEF x
  <2>4. /\ host' \in [Hosts -> Host] /\ host'[h] = x
        /\ \A g \in Hosts \ {h} : host'[g] = host[g]
    BY <1>0, <2>2, <2>3, OneHost
  <2>5. /\ throttle' \in [Hosts -> Throttle] /\ throttle'[h] = "zero"
        /\ \A g \in Hosts \ {h} : throttle'[g] = throttle[g]
    BY <1>0, <2>3 DEF TypeOK, Throttle
  <2>6. TypeOK'
    BY <1>0, <2>3, <2>4, <2>5 DEF TypeOK, files
  <2>7. ModeInv'
    BY <1>0, <2>1, <2>2, <2>3, <2>4, <2>5 DEF ModeInv
  <2>8. SeenInv' /\ ReloadInv'
    BY <1>0, <2>3 DEF SeenInv, ReloadInv, files
  <2>9. FocusInv'
    BY <1>0, <2>3, <2>5 DEF FocusInv, files
  <2> QED
    BY <2>6, <2>7, <2>8, <2>9 DEF IInv
<1>7. ASSUME NEW h \in Hosts, ActivateInputMethod(h) PROVE IInv'
  <2> DEFINE u == [host[h] EXCEPT !.chinese = poll[h].want]
             x == langBarNotifyIconUpdate(u)
  <2>0. poll[h].want \in BOOLEAN
    BY <1>n DEF Poll
  <2>1. u \in Host /\ u.open = host[h].open
    BY <1>n, <2>0 DEF Host
  <2> HIDE DEF u
  <2>2. x \in Host /\ x.open = u.open /\ x.native = x.chinese
    BY <2>1, Announced
  <2>3. /\ host' = [host EXCEPT ![h] = x]
        /\ poll' = [poll EXCEPT ![h] = Idle]
        /\ UNCHANGED <<throttle, files>>
        /\ poll[h].pc = "activate"
    BY <1>7 DEF ActivateInputMethod, u
  <2> HIDE DEF x
  <2>4. /\ host' \in [Hosts -> Host] /\ host'[h] = x
        /\ \A g \in Hosts \ {h} : host'[g] = host[g]
    BY <1>0, <2>2, <2>3, OneHost
  <2>5. /\ poll' \in [Hosts -> Poll] /\ poll'[h] = Idle
        /\ \A g \in Hosts \ {h} : poll'[g] = poll[g]
    BY <1>0, <2>3, PollIdle, OnePoll
  <2>6. TypeOK'
    BY <1>0, <2>3, <2>4, <2>5 DEF TypeOK, files
  <2>7. ModeInv'
    BY <1>0, <2>1, <2>2, <2>3, <2>4, <2>5 DEF ModeInv, Idle
  <2>8. SeenInv'
    BY <1>0, <1>n, <2>3, <2>5 DEF SeenInv, Idle, files
  <2>9. ReloadInv'
    BY <1>0, <1>n, <2>3, <2>5 DEF ReloadInv, Idle, files
  <2>10. FocusInv'
    BY <1>0, <2>3, <2>5 DEF FocusInv, Idle, files
  <2> QED
    BY <2>6, <2>7, <2>8, <2>9, <2>10 DEF IInv
<1>8. ASSUME NEW h \in Hosts, scheduleSharedTrayChineseModeRequest(h)
      PROVE  IInv'
  <2> DEFINE req == modeFile
             seen == [poll[h] EXCEPT !.seen =
                        IF poll[h].kind = "key" THEN 0 ELSE req.ver]
  <2>1. /\ seen \in Poll /\ seen.seen <= req.ver /\ seen.seen \in Nat
        /\ seen.reloadSeen = poll[h].reloadSeen
        /\ seen.kind = poll[h].kind /\ seen.granted = poll[h].granted
    BY <1>n DEF Poll, ModeRequest
  <2>2. poll[h].pc = "mode" /\ ~poll[h].granted
    BY <1>0, <1>8 DEF scheduleSharedTrayChineseModeRequest, ModeInv
  <2>3. UNCHANGED <<throttle, files>>
    BY <1>8 DEF scheduleSharedTrayChineseModeRequest
  <2>4. CASE /\ req.ver = 0 /\ UNCHANGED host
             /\ poll' = [poll EXCEPT ![h] = [seen EXCEPT !.pc = "reload"]]
    <3> DEFINE p == [seen EXCEPT !.pc = "reload"]
    <3>1. /\ p \in Poll /\ p.pc = "reload" /\ ~p.granted
          /\ p.seen = 0 /\ p.reloadSeen = poll[h].reloadSeen
          /\ p.kind = poll[h].kind
      <4> HIDE DEF seen
      <4> QED
        BY <1>n, <2>1, <2>2, <2>4 DEF Poll
    <3>2. /\ poll' \in [Hosts -> Poll] /\ poll'[h] = p
          /\ \A g \in Hosts \ {h} : poll'[g] = poll[g]
      BY <1>0, <2>4, <3>1, OnePoll
    <3> HIDE DEF p
    <3>3. TypeOK'
      BY <1>0, <2>3, <2>4, <3>2 DEF TypeOK, files
    <3>4. ModeInv'
      BY <1>0, <2>2, <2>3, <2>4, <3>1, <3>2 DEF ModeInv
    <3>5. SeenInv'
      BY <1>0, <1>n, <2>3, <2>4, <3>1, <3>2 DEF SeenInv, files
    <3>6. ReloadInv'
      BY <1>0, <1>n, <2>3, <3>1, <3>2 DEF ReloadInv, files
    <3>7. FocusInv'
      BY <1>0, <2>2, <2>3, <2>4, <3>1, <3>2 DEF FocusInv, files
    <3> QED
      BY <3>3, <3>4, <3>5, <3>6, <3>7 DEF IInv
  <2>5. ASSUME NEW granted \in BOOLEAN, NEW x \in Host, req.ver # 0,
               x.open = host[h].open,
               ~granted /\ host[h].native = host[h].chinese =>
                  x.native = x.chinese,
               host' = [host EXCEPT ![h] = x],
               poll' = [poll EXCEPT ![h] =
                   [seen EXCEPT !.granted = granted, !.pc = "clearMode"]]
        PROVE  IInv'
    <3> DEFINE p == [seen EXCEPT !.granted = granted, !.pc = "clearMode"]
    <3>1. /\ p \in Poll /\ p.pc = "clearMode" /\ p.granted = granted
          /\ p.seen = seen.seen /\ p.reloadSeen = poll[h].reloadSeen
          /\ p.kind = poll[h].kind
      <4> HIDE DEF seen
      <4> QED
        BY <1>n, <2>1, <2>2 DEF Poll
    <3>2. /\ poll' \in [Hosts -> Poll] /\ poll'[h] = p
          /\ \A g \in Hosts \ {h} : poll'[g] = poll[g]
      BY <1>0, <2>5, <3>1, OnePoll
    <3> HIDE DEF p, seen
    <3>3. /\ host' \in [Hosts -> Host] /\ host'[h] = x
          /\ \A g \in Hosts \ {h} : host'[g] = host[g]
      BY <1>0, <2>5, OneHost
    <3>4. TypeOK'
      BY <1>0, <2>3, <3>2, <3>3 DEF TypeOK, files
    <3>5. ModeInv'
      BY <1>0, <2>2, <2>3, <2>5, <3>1, <3>2, <3>3 DEF ModeInv
    <3>6. SeenInv'
      BY <1>0, <1>n, <2>1, <2>3, <3>1, <3>2 DEF SeenInv, files
    <3>7. ReloadInv'
      BY <1>0, <1>n, <2>3, <3>1, <3>2 DEF ReloadInv, files
    <3>8. FocusInv'
      BY <1>0, <2>2, <2>3, <3>1, <3>2 DEF FocusInv, files
    <3> QED
      BY <3>4, <3>5, <3>6, <3>7, <3>8 DEF IInv
  <2>6. CASE /\ req.ver # 0 /\ host[h].chinese = req.want /\ UNCHANGED host
             /\ poll' = [poll EXCEPT ![h] = [seen EXCEPT !.pc = "clearMode"]]
    <3>1. host' = [host EXCEPT ![h] = host[h]]
      BY <1>0, <2>6 DEF TypeOK
    <3>2. [seen EXCEPT !.pc = "clearMode"]
            = [seen EXCEPT !.granted = FALSE, !.pc = "clearMode"]
      <4>1. seen.granted = FALSE
        BY <1>n, <2>1, <2>2 DEF Poll
      <4> HIDE DEF seen
      <4> QED
        BY <2>1, <4>1 DEF Poll
    <3> HIDE DEF seen
    <3> QED
      BY <1>n, <2>5, <2>6, <3>1, <3>2
  <2>7. ASSUME NEW granted \in BOOLEAN, req.ver # 0,
               host' = [host EXCEPT ![h] =
                          IF granted THEN [@ EXCEPT !.chinese = req.want]
                                     ELSE toggleChinese(@)],
               poll' = [poll EXCEPT ![h] =
                   [seen EXCEPT !.granted = granted, !.pc = "clearMode"]]
        PROVE  IInv'
    <3> HIDE DEF seen
    <3>0. req.want \in BOOLEAN
      BY <1>n DEF ModeRequest
    <3>1. CASE granted
      <4> DEFINE x == [host[h] EXCEPT !.chinese = req.want]
      <4>1. x \in Host /\ x.open = host[h].open
        BY <1>n, <3>0 DEF Host
      <4>2. host' = [host EXCEPT ![h] = x]
        BY <2>7, <3>1
      <4> HIDE DEF x
      <4> QED
        BY <2>5, <2>7, <3>1, <4>1, <4>2
    <3>2. CASE ~granted
      <4> DEFINE x == toggleChinese(host[h])
      <4>1. x \in Host /\ x.open = host[h].open /\ x.native = x.chinese
        BY <1>n, Toggled
      <4>2. host' = [host EXCEPT ![h] = x]
        BY <2>7, <3>2
      <4> HIDE DEF x
      <4> QED
        BY <2>5, <2>7, <4>1, <4>2
    <3> QED
      BY <3>1, <3>2
  <2> QED
    BY <1>8, <2>4, <2>6, <2>7 DEF scheduleSharedTrayChineseModeRequest
<1>9. ASSUME NEW h \in Hosts, clearSharedTrayChineseModeRequest(h)
      PROVE  IInv'
  <2> DEFINE p == [poll[h] EXCEPT !.pc = "reload", !.granted = FALSE]
             x == IF poll[h].granted THEN langBarNotifyIconUpdate(host[h])
                                     ELSE host[h]
  <2>1. /\ p \in Poll /\ p.pc = "reload" /\ ~p.granted
        /\ p.seen = poll[h].seen /\ p.reloadSeen = poll[h].reloadSeen
        /\ p.kind = poll[h].kind
    BY <1>n DEF Poll
  <2>2. /\ x \in Host /\ x.open = host[h].open
        /\ poll[h].granted \/ host[h].native = host[h].chinese =>
              x.native = x.chinese
    BY <1>n, Announced
  <2>3. /\ poll' = [poll EXCEPT ![h] = p] /\ host' = [host EXCEPT ![h] = x]
        /\ modeFile' = NoRequest /\ owes' = {}
        /\ UNCHANGED <<throttle, reloadFile, conf, saving, asked>>
        /\ poll[h].pc = "clearMode"
    BY <1>9 DEF clearSharedTrayChineseModeRequest
  <2> HIDE DEF p, x
  <2>4. /\ poll' \in [Hosts -> Poll] /\ poll'[h] = p
        /\ \A g \in Hosts \ {h} : poll'[g] = poll[g]
    BY <1>0, <2>1, <2>3, OnePoll
  <2>5. /\ host' \in [Hosts -> Host] /\ host'[h] = x
        /\ \A g \in Hosts \ {h} : host'[g] = host[g]
    BY <1>0, <2>2, <2>3, OneHost
  <2>6. modeFile' \in ModeRequest /\ modeFile'.ver = 0
    BY <1>n, <2>3 DEF NoRequest, ModeRequest
  <2>7. TypeOK'
    BY <1>0, <2>3, <2>4, <2>5, <2>6 DEF TypeOK
  <2>8. ModeInv'
    BY <1>0, <2>1, <2>2, <2>3, <2>4, <2>5 DEF ModeInv
  <2>9. SeenInv'
    BY <1>0, <2>1, <2>3, <2>4, <2>6 DEF SeenInv
  <2>10. ReloadInv'
    BY <1>0, <2>1, <2>3, <2>4 DEF ReloadInv
  <2>11. FocusInv'
    BY <1>0, <2>1, <2>3, <2>4 DEF FocusInv
  <2> QED
    BY <2>7, <2>8, <2>9, <2>10, <2>11 DEF IInv
(* A callback that ends the poll, with the file removed or not.            *)
<1>10. ASSUME NEW h \in Hosts, NEW q \in Poll,
              poll[h].pc \in {"reload", "clearReload"},
              q.granted = poll[h].granted, q.seen = poll[h].seen,
              q.kind = poll[h].kind,
              q.reloadSeen <= conf, saving => q.reloadSeen < conf,
              \/ reloadFile' = 0
              \/ /\ reloadFile' = reloadFile
                 /\ \/ reloadFile = 0
                    \/ q.failed,
              host' \in [Hosts -> Host],
              \A g \in Hosts \ {h} : host'[g] = host[g],
              host'[h].open = host[h].open,
              host[h].native = host[h].chinese =>
                 host'[h].native = host'[h].chinese,
              poll' = [poll EXCEPT ![h] = afterPoll(q)],
              UNCHANGED <<throttle, modeFile, conf, saving, asked, owes>>
       PROVE  IInv'
  <2> DEFINE p == afterPoll(q)
  <2>1. /\ p \in Poll /\ p.pc \in {"check", "leave", "idle"}
        /\ ~p.granted /\ p.seen \in {q.seen, 0}
        /\ p.reloadSeen \in {q.reloadSeen, 0}
        /\ p.pc \in {"check", "leave"} => /\ p.seen = q.seen
                                          /\ p.reloadSeen = q.reloadSeen
                                          /\ p.failed = q.failed
        /\ p.pc = "leave" => p.kind = "flush"
        /\ p.kind = "flush" => q.kind = "flush"
    <3>1. ~q.granted
      BY <1>0, <1>10 DEF ModeInv
    <3> QED
      BY <1>10, <3>1, AfterPoll
  <2> HIDE DEF p
  <2>2. /\ poll' \in [Hosts -> Poll] /\ poll'[h] = p
        /\ \A g \in Hosts \ {h} : poll'[g] = poll[g]
    BY <1>0, <1>10, <2>1, OnePoll DEF p
  <2>3. TypeOK'
    BY <1>0, <1>n, <1>10, <2>2 DEF TypeOK
  <2>4. ModeInv'
    BY <1>0, <1>10, <2>1, <2>2 DEF ModeInv
  <2>5. SeenInv'
    BY <1>0, <1>n, <1>10, <2>1, <2>2 DEF SeenInv
  <2>6. ReloadInv'
    BY <1>0, <1>n, <1>10, <2>1, <2>2 DEF ReloadInv
  <2>7. FocusInv'
    BY <1>0, <1>10, <2>1, <2>2 DEF FocusInv
  <2> QED
    BY <2>3, <2>4, <2>5, <2>6, <2>7 DEF IInv
<1>11. ASSUME NEW h \in Hosts, scheduleSharedTrayPinyinReloadRequest(h)
       PROVE  IInv'
  <2> DEFINE q == [poll[h] EXCEPT !.reloadSeen = reloadFile]
  <2>0. reloadFile \in 0..MaxSaves /\ conf \in 0..MaxSaves
    BY <1>0 DEF TypeOK
  <2>1. /\ q \in Poll /\ q.granted = poll[h].granted
        /\ q.seen = poll[h].seen /\ q.kind = poll[h].kind
        /\ q.reloadSeen = reloadFile
    BY <1>n, <2>0 DEF Poll
  <2>2. q.reloadSeen <= conf /\ (saving => q.reloadSeen < conf)
    BY <1>0, <1>n, <2>1 DEF ReloadInv
  <2>3. poll[h].pc = "reload" /\ UNCHANGED <<host, throttle, files>>
    BY <1>11 DEF scheduleSharedTrayPinyinReloadRequest
  <2>4. host \in [Hosts -> Host]
    BY <1>0 DEF TypeOK
  <2>5. CASE reloadFile = 0 /\ poll' = [poll EXCEPT ![h] = afterPoll(q)]
    <3> HIDE DEF q
    <3> QED
      BY <1>10, <2>1, <2>2, <2>3, <2>4, <2>5 DEF files
  <2>6. CASE poll' = [poll EXCEPT ![h] =
                        afterPoll([q EXCEPT !.failed = TRUE])]
    <3> DEFINE r == [q EXCEPT !.failed = TRUE]
    <3>1. /\ r \in Poll /\ r.granted = q.granted /\ r.seen = q.seen
          /\ r.kind = q.kind /\ r.reloadSeen = q.reloadSeen /\ r.failed
      <4> HIDE DEF q
      <4> QED
        BY <2>1 DEF Poll
    <3> HIDE DEF q, r
    <3> QED
      BY <1>10, <2>1, <2>2, <2>3, <2>4, <2>6, <3>1 DEF files, r
  <2>7. CASE poll' = [poll EXCEPT ![h] = [q EXCEPT !.pc = "clearReload",
                                                   !.loaded = conf]]
    <3> DEFINE p == [q EXCEPT !.pc = "clearReload", !.loaded = conf]
    <3>1. /\ p \in Poll /\ p.pc = "clearReload" /\ p.granted = q.granted
          /\ p.seen = q.seen /\ p.reloadSeen = q.reloadSeen
          /\ p.kind = q.kind /\ p.loaded = conf
      <4> HIDE DEF q
      <4> QED
        BY <2>0, <2>1 DEF Poll
    <3> HIDE DEF q
    <3>2. /\ poll' \in [Hosts -> Poll] /\ poll'[h] = p
          /\ \A g \in Hosts \ {h} : poll'[g] = poll[g]
      BY <1>0, <2>7, <3>1, OnePoll
    <3> HIDE DEF p
    <3>3. TypeOK'
      BY <1>0, <2>3, <3>2 DEF TypeOK, files
    <3>4. ModeInv'
      BY <1>0, <2>1, <2>3, <3>1, <3>2 DEF ModeInv
    <3>5. SeenInv'
      BY <1>0, <2>1, <2>3, <3>1, <3>2 DEF SeenInv, files
    <3>6. ReloadInv'
      BY <1>0, <1>n, <2>1, <2>2, <2>3, <3>1, <3>2 DEF ReloadInv, files
    <3>7. FocusInv'
      BY <1>0, <2>1, <2>3, <3>1, <3>2 DEF FocusInv, files
    <3> QED
      BY <3>3, <3>4, <3>5, <3>6, <3>7 DEF IInv
  <2> QED
    BY <1>11, <2>5, <2>6, <2>7 DEF scheduleSharedTrayPinyinReloadRequest
<1>12. ASSUME NEW h \in Hosts, clearSharedTrayPinyinReloadRequest(h)
       PROVE  IInv'
  <2> DEFINE x == langBarNotifyIconUpdate(host[h])
  <2>1. x \in Host /\ x.open = host[h].open /\ x.native = x.chinese
    BY <1>n, Announced
  <2>2. /\ poll[h].pc = "clearReload" /\ reloadFile' = 0
        /\ host' = [host EXCEPT ![h] = x]
        /\ poll' = [poll EXCEPT ![h] = afterPoll(poll[h])]
        /\ UNCHANGED <<throttle, modeFile, conf, saving, asked, owes>>
    BY <1>12 DEF clearSharedTrayPinyinReloadRequest
  <2> HIDE DEF x
  <2>3. /\ host' \in [Hosts -> Host] /\ host'[h] = x
        /\ \A g \in Hosts \ {h} : host'[g] = host[g]
    BY <1>0, <2>1, <2>2, OneHost
  <2>4. /\ poll[h].reloadSeen <= conf
        /\ saving => poll[h].reloadSeen < conf
    BY <1>0 DEF ReloadInv
  <2> QED
    BY <1>n, <1>10, <2>1, <2>2, <2>3, <2>4
<1>13. ASSUME NEW h \in Hosts, CheckPending(h) PROVE IInv'
  <2>1. /\ poll' = [poll EXCEPT ![h] = Idle] /\ poll[h].pc = "check"
        /\ UNCHANGED <<host, throttle, files>>
    BY <1>13 DEF CheckPending
  <2>2. /\ poll' \in [Hosts -> Poll] /\ poll'[h] = Idle
        /\ \A g \in Hosts \ {h} : poll'[g] = poll[g]
    BY <1>0, <2>1, PollIdle, OnePoll
  <2>3. TypeOK'
    BY <1>0, <2>1, <2>2 DEF TypeOK, files
  <2>4. ModeInv'
    BY <1>0, <2>1, <2>2 DEF ModeInv, Idle
  <2>5. SeenInv'
    BY <1>0, <1>n, <2>1, <2>2 DEF SeenInv, Idle, files
  <2>6. ReloadInv'
    BY <1>0, <1>n, <2>1, <2>2 DEF ReloadInv, Idle, files
  <2>7. FocusInv'
    BY <1>0, <2>1, <2>2 DEF FocusInv, Idle, files
  <2> QED
    BY <2>3, <2>4, <2>5, <2>6, <2>7 DEF IInv
<1>14. ASSUME NEW h \in Hosts, Leave(h) PROVE IInv'
  <2>1. /\ poll' = [poll EXCEPT ![h] = Idle] /\ poll[h].pc = "leave"
        /\ throttle' = [throttle EXCEPT ![h] = "inactive"]
        /\ UNCHANGED <<host, files>>
    BY <1>14 DEF Leave
  <2>2. /\ poll' \in [Hosts -> Poll] /\ poll'[h] = Idle
        /\ \A g \in Hosts \ {h} : poll'[g] = poll[g]
    BY <1>0, <2>1, PollIdle, OnePoll
  <2>3. /\ throttle' \in [Hosts -> Throttle] /\ throttle'[h] = "inactive"
        /\ \A g \in Hosts \ {h} : throttle'[g] = throttle[g]
    BY <1>0, <2>1 DEF TypeOK, Throttle
  <2>4. TypeOK'
    BY <1>0, <2>1, <2>2, <2>3 DEF TypeOK, files
  <2>5. ModeInv'
    BY <1>0, <2>1, <2>2, <2>3 DEF ModeInv, Idle
  <2>6. SeenInv'
    BY <1>0, <1>n, <2>1, <2>2 DEF SeenInv, Idle, files
  <2>7. ReloadInv'
    BY <1>0, <1>n, <2>1, <2>2 DEF ReloadInv, Idle, files
  <2>8. FocusInv'
    BY <1>0, <2>1, <2>2, <2>3 DEF FocusInv, Idle, files
  <2> QED
    BY <2>4, <2>5, <2>6, <2>7, <2>8 DEF IInv
<1>15. CASE saveAll
  <2>1. TypeOK'
    BY <1>0, <1>n, <1>15 DEF TypeOK, saveAll
  <2>2. ModeInv' /\ SeenInv' /\ FocusInv'
    BY <1>0, <1>15 DEF ModeInv, SeenInv, FocusInv, saveAll
  <2>3. ReloadInv'
    BY <1>0, <1>n, <1>15 DEF ReloadInv, saveAll
  <2> QED
    BY <2>1, <2>2, <2>3 DEF IInv
<1>16. CASE persistSharedTrayPinyinReloadRequest
  <2>1. TypeOK'
    <3>1. /\ reloadFile' = conf /\ saving' = FALSE
          /\ UNCHANGED <<host, poll, throttle, modeFile, conf, asked, owes>>
      BY <1>16 DEF persistSharedTrayPinyinReloadRequest
    <3>2. reloadFile' \in 0..conf'
      BY <1>n, <3>1
    <3> QED
      BY <1>0, <3>1, <3>2 DEF TypeOK
  <2>2. ModeInv' /\ SeenInv' /\ FocusInv'
    BY <1>0, <1>16
       DEF ModeInv, SeenInv, FocusInv, persistSharedTrayPinyinReloadRequest
  <2>3. ReloadInv'
    BY <1>0, <1>n, <1>16 DEF ReloadInv, persistSharedTrayPinyinReloadRequest
  <2> QED
    BY <2>1, <2>2, <2>3 DEF IInv
<1>17. CASE UNCHANGED vars
  BY <1>0, <1>17
     DEF IInv, TypeOK, ModeInv, SeenInv, ReloadInv, FocusInv, vars
<1> QED
  BY <1>1, <1>2, <1>3, <1>4, <1>5, <1>6, <1>7, <1>8, <1>9, <1>11, <1>12,
     <1>13, <1>14, <1>15, <1>16, <1>17
     DEF Next, PollStep, ModeCallback

(* The invariant holds in every reachable state: each callback, each step  *)
(* of a poll and each write of the settings program preserves it.          *)
THEOREM Invariance == Spec => []IInv
BY InitIInv, StepIInv, PTL DEF Spec

-----------------------------------------------------------------------------
(* TypeOK: what the files hold and announce was written.                   *)
THEOREM TypeCorrect == Spec => []TypeOK
<1>1. IInv => TypeOK
  BY DEF IInv
<1> QED
  BY <1>1, Invariance, PTL

(* CompartmentFollowsMode: every path of a mode change, in or without an   *)
(* edit session, ends in an announcement.                                  *)
THEOREM CompartmentFollows == Spec => []CompartmentFollowsMode
<1>1. IInv => CompartmentFollowsMode
  BY DEF IInv, ModeInv, CompartmentFollowsMode
<1> QED
  BY <1>1, Invariance, PTL

(* ServedRequestIsGone: a callback removes what it has read before it      *)
(* claims the key, and a request that is there nevertheless is younger.    *)
THEOREM ServedGone == Spec => []ServedRequestIsGone
<1>1. IInv => ServedRequestIsGone
  BY DEF IInv, SeenInv, ReloadInv, ServedRequestIsGone, Hosts
<1> QED
  BY <1>1, Invariance, PTL

(* ReloadSeesItsConfig: the settings program asks for a reload after it    *)
(* has written the configuration, and the engine reads it after the        *)
(* request.                                                                *)
THEOREM ReloadSees == Spec => []ReloadSeesItsConfig
<1>1. IInv => ReloadSeesItsConfig
  BY DEF IInv, ReloadInv, ReloadSeesItsConfig, Hosts
<1> QED
  BY <1>1, Invariance, PTL

(* FocusedRequestIsTaken: a focus event polls, or is remembered until      *)
(* Deactivate polls.                                                       *)
THEOREM FocusedTaken == Spec => []FocusedRequestIsTaken
<1>1. IInv => FocusedRequestIsTaken
  BY DEF IInv, TypeOK, FocusInv, FocusedRequestIsTaken, Hosts
<1> QED
  BY <1>1, Invariance, PTL

===============================================================================
