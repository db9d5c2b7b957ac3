-------------------------------- MODULE TipDll --------------------------------
(***************************************************************************)
(* The text service DLL in one process: its reference count and class      *)
(* factory (win32/dll/main.cpp), the life of the text services             *)
(* (win32/tsf/tsf.cpp, TextInputProcessorEx.cpp and the advising halves of *)
(* the sinks), the language bar button and the hidden tray window the text *)
(* services of a process share, with its retry timer                       *)
(* (win32/tsf/LangBarTray.cpp), and registration (win32/dll/register.cpp). *)
(*                                                                         *)
(* The process is an application, a shell host (explorer, ctfmon, ...) or  *)
(* regsvr32, which only registers.  Each text service lives on a thread of *)
(* its own; a window can be destroyed by the thread that made it only, and *)
(* is destroyed when that thread ends.  An advised sink holds a reference  *)
(* to the text service, also one that the code has dropped the cookie of   *)
(* although TSF did not let it go.  A message for the tray window is       *)
(* modelled while the text service its user data points to is alive: the   *)
(* code does not see to it that it is (see README).                        *)
(***************************************************************************)
EXTENDS Integers, FiniteSets

CONSTANTS
    Services,     \* Tsf objects, one per thread
    NoService,    \* the null user data of the window
    Categories,   \* the TSF categories RegisterCategories registers
    NProfiles,    \* language profiles RegisterProfiles registers
    MaxWindows,   \* bound: tray windows made in a behaviour
    MaxFactory,   \* bound: references to and locks of the class factory
    MayStay,      \* bound: the sinks whose unadvising may fail
    MaxHolds      \* bound: the count of the tray window, which a shell host
                  \* never brings back to zero

(* threadMgr and key are indispensable.  The others, of the text of the     *)
(* document with the focus, of the profile notifications and of the        *)
(* compartments, may fail.                                                 *)
OptionalSinks == {"profile", "compartment"}
Sinks == {"threadMgr", "key", "edit"} \cup OptionalSinks

ASSUME TipDllAssumption ==
    /\ NoService \notin Services /\ IsFiniteSet(Services)
    /\ MayStay \subseteq Sinks
    /\ NProfiles \in Nat /\ MaxWindows \in Nat /\ MaxFactory \in Nat
    /\ MaxHolds \in Nat

VARIABLES
    kind,         \* what process this is
    tsf,          \* the text services: see Tsf
    tray,         \* the globals of LangBarTray.cpp: see Tray
    dllRefCount,
    factoryRefs,  \* references to and locks of the class factory
    pinned,       \* gExplorerProcessLifetimeDllPinned
    reg,          \* what the registry holds of the text service: see Registry
    undeleted,    \* history: the last UnregisterAll could not delete all
    regStep       \* the next call of DllRegisterServer, or what it returned

vars == <<kind, tsf, tray, dllRefCount, factoryRefs, pinned, reg, undeleted,
          regStep>>

(* alive   the object exists                                               *)
(* mgr     threadMgr_ is set: ActivateEx has been called                   *)
(* sinks   the sinks advised                                               *)
(* orphans the sinks TSF may still call although unadvising them failed:   *)
(*         their cookies are dropped all the same                          *)
(* button  langBarItem_ is set                                             *)
(* hwnd    shellTrayHostHwnd_, 0 when null                                 *)
Tsf == [alive: BOOLEAN, mgr: BOOLEAN, sinks: SUBSET Sinks,
        orphans: SUBSET Sinks, button: BOOLEAN, hwnd: 0..MaxWindows]
NoTsf == [alive |-> FALSE, mgr |-> FALSE, sinks |-> {}, orphans |-> {},
          button |-> FALSE, hwnd |-> 0]

(* shared   gShellTraySharedHwnd, 0 when null                              *)
(* refs     gShellTraySharedRefCount                                       *)
(* user     GWLP_USERDATA of the shared window                             *)
(* maker    the text service on whose thread the shared window was made    *)
(* windows  the windows that exist; made counts them                       *)
(* added, icons   gShellTrayNotifyAdded, the mode icons are loaded         *)
(* retry    the retry timer of the shared window is armed                  *)
Tray == [shared: 0..MaxWindows, refs: 0..(MaxHolds + 1),
         user: Services \cup {NoService}, maker: Services \cup {NoService},
         windows: SUBSET (1..MaxWindows), made: 0..MaxWindows,
         added: BOOLEAN, icons: BOOLEAN, retry: BOOLEAN]

Registry == [server: {"absent", "partial", "full"},
             profiles: SUBSET (1..NProfiles),
             categories: SUBSET Categories, stale: BOOLEAN]
NotRegistered == [server |-> "absent", profiles |-> {}, categories |-> {},
                  stale |-> FALSE]

registration == <<reg, undeleted, regStep>>

-----------------------------------------------------------------------------
(* The tray window.  Each operator gives the states of <<tray, hwnd of s>> *)
(* the call may end in.                                                    *)

KeepsCount_DropDeadWindow(t) ==
    [t EXCEPT !.shared = 0, !.added = FALSE, !.icons = FALSE]

DropDeadWindow(t) ==
    [t EXCEPT !.shared = 0, !.refs = 0, !.added = FALSE, !.icons = FALSE]

JoinsUncounted_acquireSharedShellTrayHost(t, hwnd, s) ==
    IF t.shared \in t.windows
    THEN {[tray |-> [t EXCEPT !.user = s], hwnd |-> t.shared]}
    ELSE LET u == IF t.shared = 0 THEN t ELSE DropDeadWindow(t)
             w == t.made + 1
         IN  {[tray |-> u, hwnd |-> hwnd]} \cup
             {[tray |-> [u EXCEPT !.shared = x, !.refs = 1, !.user = s,
                                  !.maker = s, !.windows = @ \cup {x},
                                  !.made = x],
               hwnd |-> x] : x \in {w} \cap (1..MaxWindows)}

(* Joins the window of the process; or makes one, which may fail, when     *)
(* there is none or its thread has ended.                                  *)
acquireSharedShellTrayHost(t, hwnd, s) ==
    IF t.shared \in t.windows
    THEN {[tray |-> [t EXCEPT !.user = s, !.refs = @ + 1],
           hwnd |-> t.shared]}
    ELSE LET u == IF t.shared = 0 THEN t ELSE DropDeadWindow(t)
             w == t.made + 1
         IN  {[tray |-> u, hwnd |-> hwnd]} \cup
             {[tray |-> [u EXCEPT !.shared = x, !.refs = 1, !.user = s,
                                  !.maker = s, !.windows = @ \cup {x},
                                  !.made = x],
               hwnd |-> x] : x \in {w} \cap (1..MaxWindows)}

ensureShellTrayProcessIconLoaded(t) ==
    {t} \cup {[t EXCEPT !.icons = TRUE]}

initShellTrayHostForMessages(t, hwnd, s) ==
    UNION {IF r.hwnd = 0 THEN {r}
           ELSE {[r EXCEPT !.tray = u] :
                    u \in ensureShellTrayProcessIconLoaded(r.tray)} :
           r \in acquireSharedShellTrayHost(t, hwnd, s)}

(* Shell_NotifyIcon may fail; then, as without an icon, a timer is set.    *)
shellTrayNotifyAdd(t) ==
    IF t.icons THEN {[t EXCEPT !.added = TRUE], [t EXCEPT !.retry = TRUE]}
               ELSE {[t EXCEPT !.retry = TRUE]}

(* Only shell hosts show an icon; they acquire the window once more.       *)
initShellTrayIcon(t, hwnd, s) ==
    UNION {IF r.hwnd = 0 THEN {r}
           ELSE {[r EXCEPT !.tray = u] :
                    u \in UNION {IF v.icons /\ v.added THEN {v}
                                 ELSE shellTrayNotifyAdd(v) :
                          v \in ensureShellTrayProcessIconLoaded(r.tray)}} :
           r \in acquireSharedShellTrayHost(t, hwnd, s)}

(* The window goes with its last holder, if that is the thread that made   *)
(* it; else it stays, with null user data and no holder.                   *)
uninitShellTrayIcon(t, hwnd, s) ==
    LET u == [t EXCEPT !.retry = FALSE]
        last == [u EXCEPT !.shared = 0, !.refs = 0, !.user = NoService,
                          !.maker = NoService, !.added = FALSE,
                          !.icons = FALSE]
    IN  IF hwnd = 0 \/ hwnd # t.shared THEN t
        ELSE IF t.refs > 1 THEN [u EXCEPT !.refs = @ - 1]
        ELSE IF t.maker = s THEN [last EXCEPT !.windows = @ \ {hwnd}]
        ELSE last

(* The icon is removed and added again, unless the text service has a      *)
(* language bar button.                                                    *)
recreateShellTrayIcon(t, s) ==
    IF kind # "shell" \/ tsf[s].hwnd = 0 \/ tsf[s].button THEN {t}
    ELSE UNION {shellTrayNotifyAdd([u EXCEPT !.added = FALSE,
                                             !.retry = FALSE]) :
                u \in ensureShellTrayProcessIconLoaded(t)}

-----------------------------------------------------------------------------
(* The class factory and the objects.                                      *)

Hosting == kind # "regsvr32"
lifeless == <<registration, kind>>

(* DllGetClassObject, AddRef of the factory and LockServer(TRUE).          *)
DllGetClassObject ==
    /\ Hosting /\ factoryRefs < MaxFactory
    /\ factoryRefs' = factoryRefs + 1
    /\ dllRefCount' = dllRefCount + 1
    /\ UNCHANGED <<tsf, tray, pinned, lifeless>>

(* Release of the factory and LockServer(FALSE).                           *)
ReleaseFactory ==
    /\ factoryRefs > 0
    /\ factoryRefs' = factoryRefs - 1
    /\ dllRefCount' = dllRefCount - 1
    /\ UNCHANGED <<tsf, tray, pinned, lifeless>>

ForgetsPin_CreateInstance(s) ==
    /\ factoryRefs > 0 /\ ~tsf[s].alive
    /\ pinned' = (pinned \/ kind = "shell")
    /\ \E known \in BOOLEAN :
          /\ tsf' = [tsf EXCEPT ![s] = [NoTsf EXCEPT !.alive = known]]
          /\ dllRefCount' = dllRefCount + (IF known THEN 1 ELSE 0)
    /\ UNCHANGED <<tray, factoryRefs, lifeless>>

(* The constructor counts the object and, in the first object of a shell   *)
(* host, pins the DLL for the life of the process.  An object that does    *)
(* not know the interface asked for is deleted at once.                    *)
CreateInstance(s) ==
    /\ factoryRefs > 0 /\ ~tsf[s].alive
    /\ pinned' = (pinned \/ kind = "shell")
    /\ \E known \in BOOLEAN :
          /\ tsf' = [tsf EXCEPT ![s] = [NoTsf EXCEPT !.alive = known]]
          /\ dllRefCount' = dllRefCount + (IF known THEN 1 ELSE 0)
                                        + (IF pinned' # pinned THEN 1 ELSE 0)
    /\ UNCHANGED <<tray, factoryRefs, lifeless>>

-----------------------------------------------------------------------------
(* Activation.                                                             *)

(* The button counts itself in the DLL.  It may already be there, there    *)
(* may be no thread manager, or the language bar may refuse it (and it is  *)
(* deleted); else the tray window is acquired, and in a shell host the     *)
(* icon is added.  (x is what the caller has made of the text service.)    *)
initLangBarTrayItem(s, x) ==
    \/ /\ tsf' = [tsf EXCEPT ![s] = x]
       /\ UNCHANGED <<tray, dllRefCount>>
    \/ /\ x.mgr /\ ~x.button /\ tray.refs < MaxHolds
       /\ \E r \in initShellTrayHostForMessages(tray, x.hwnd, s) :
          \E q \in IF kind = "shell" THEN initShellTrayIcon(r.tray, r.hwnd, s)
                                     ELSE {r} :
             /\ tray' = q.tray
             /\ tsf' = [tsf EXCEPT ![s] = [x EXCEPT !.button = TRUE,
                                                    !.hwnd = q.hwnd]]
       /\ dllRefCount' = dllRefCount + 1

(* The states of x with the sinks taken back: all, or all but some that    *)
(* TSF does not let go.                                                    *)
Unadvised(x, taken) ==
    {[x EXCEPT !.sinks = @ \ taken, !.orphans = @ \cup lost] :
        lost \in SUBSET (x.sinks \cap taken \cap MayStay)}

(* The sink of the last document is taken back; the next may have none, or *)
(* refuse it.                                                              *)
initTextEditSink(x) ==
    UNION {{y, [y EXCEPT !.sinks = @ \cup {"edit"}]} :
           y \in Unadvised(x, {"edit"})}

(* The thread manager is set and its sink advised; a document with the     *)
(* focus, if there is one, gets a text edit sink.                          *)
Advising(x) ==
    LET y == [x EXCEPT !.mgr = TRUE, !.sinks = @ \cup {"threadMgr"}]
    IN  {y} \cup initTextEditSink(y)

(* ActivateEx: a shell host takes the minimal branch.                      *)
ActivateEx(s) ==
    /\ tsf[s].alive /\ ~tsf[s].mgr
    /\ \E optional \in SUBSET OptionalSinks :
          \/ /\ kind = "shell"
             /\ initLangBarTrayItem(s, [tsf[s] EXCEPT !.mgr = TRUE,
                                                      !.sinks = optional])
          \/ /\ kind # "shell"
             /\ \E x \in Advising(tsf[s]) :
                   initLangBarTrayItem(s,
                       [x EXCEPT !.sinks = @ \cup {"key"} \cup optional])
    /\ UNCHANGED <<factoryRefs, pinned, lifeless>>

(* What Deactivate makes of the state x of a text service: the minimal     *)
(* branch has no thread manager or key sink to take back.                  *)
KeepsEditSink_Deactivated(x) ==
    {[y EXCEPT !.mgr = FALSE, !.button = FALSE, !.hwnd = 0] :
        y \in Unadvised(x, Sinks \ {"edit"})}

Deactivated(x) ==
    {[y EXCEPT !.mgr = FALSE, !.button = FALSE, !.hwnd = 0] :
        y \in Unadvised(x, IF kind = "shell" THEN Sinks \ {"threadMgr", "key"}
                                             ELSE Sinks)}

(* The thread manager sink is refused, or the key sink after it:           *)
(* Deactivate, and E_FAIL.                                                 *)
ActivateExError(s) ==
    /\ kind = "app" /\ tsf[s].alive /\ ~tsf[s].mgr
    /\ \E x \in {[tsf[s] EXCEPT !.mgr = TRUE]} \cup Advising(tsf[s]) :
       \E y \in Deactivated(x) : tsf' = [tsf EXCEPT ![s] = y]
    /\ UNCHANGED <<tray, dllRefCount, factoryRefs, pinned, lifeless>>

(* Deactivate, and the part of the destructor that calls it.  The button   *)
(* is released, and with its last reference deleted.                       *)
Leave(s, after) ==
    /\ tray' = uninitShellTrayIcon(tray, tsf[s].hwnd, s)
    /\ tsf' = [tsf EXCEPT ![s] = after]
    /\ dllRefCount' = dllRefCount - (IF tsf[s].button THEN 1 ELSE 0)
                                  - (IF after.alive THEN 0 ELSE 1)
    /\ UNCHANGED <<factoryRefs, pinned, lifeless>>

Deactivate(s) ==
    /\ tsf[s].mgr
    /\ \E x \in Deactivated(tsf[s]) : Leave(s, x)

(* The last reference goes, which no advised sink holds.                   *)
Release(s) ==
    /\ tsf[s].alive /\ tsf[s].sinks = {} /\ tsf[s].orphans = {}
    /\ \E x \in Deactivated(tsf[s]) :
          Leave(s, [x EXCEPT !.alive = FALSE])

(* What an inactive text service was advised of goes, and lets its sinks   *)
(* go.                                                                     *)
SourceGoes(s) ==
    /\ ~tsf[s].mgr
    /\ tsf' = [tsf EXCEPT ![s] = [@ EXCEPT !.sinks = {}, !.orphans = {}]]
    /\ UNCHANGED <<tray, dllRefCount, factoryRefs, pinned, lifeless>>

(* OnActivated of either profile sink; activation adds a button that an    *)
(* earlier attempt failed to add.                                          *)
handleProfileActivated(s) ==
    /\ "profile" \in tsf[s].sinks \cup tsf[s].orphans
    /\ initLangBarTrayItem(s, tsf[s])
    /\ UNCHANGED <<factoryRefs, pinned, lifeless>>

(* The focus moves to another document; after Deactivate too, when the     *)
(* thread manager has kept its sink.                                       *)
OnSetFocus(s) ==
    /\ "threadMgr" \in tsf[s].sinks \cup tsf[s].orphans
    /\ \E x \in initTextEditSink(tsf[s]) : tsf' = [tsf EXCEPT ![s] = x]
    /\ UNCHANGED <<tray, dllRefCount, factoryRefs, pinned, lifeless>>

-----------------------------------------------------------------------------
(* Messages of the tray window, and the end of its thread.                 *)

ShellTrayMessage ==
    /\ tray.shared \in tray.windows
    /\ tray.user # NoService /\ tsf[tray.user].alive
    /\ UNCHANGED <<tsf, dllRefCount, factoryRefs, pinned, lifeless>>

(* TaskbarCreated: explorer has restarted, and shows no icon of ours.      *)
TaskbarCreated ==
    /\ ShellTrayMessage
    /\ tray' \in recreateShellTrayIcon(tray, tray.user)

RetryTimer ==
    /\ ShellTrayMessage /\ tray.retry
    /\ tray' \in recreateShellTrayIcon([tray EXCEPT !.retry = FALSE],
                                       tray.user)

(* The thread that made the window ends: WM_NCDESTROY.                     *)
ThreadEnds ==
    /\ tray.shared \in tray.windows /\ ~tsf[tray.maker].alive
    /\ tray' = [tray EXCEPT !.windows = @ \ {tray.shared},
                            !.user = NoService, !.maker = NoService,
                            !.retry = FALSE]
    /\ UNCHANGED <<tsf, dllRefCount, factoryRefs, pinned, lifeless>>

-----------------------------------------------------------------------------
(* Registration, by regsvr32.                                              *)

Registering(step) ==
    /\ kind = "regsvr32" /\ regStep = step
    /\ UNCHANGED <<kind, tsf, tray, dllRefCount, factoryRefs, pinned>>

(* What a deletion may leave that is denied, or stops half way.            *)
Remains(r) ==
    {[server |-> v, profiles |-> p, categories |-> c, stale |-> t] :
        v \in {"absent", r.server} \cup
              (IF r.server = "absent" THEN {} ELSE {"partial"}),
        p \in SUBSET r.profiles, c \in SUBSET r.categories,
        t \in {FALSE, r.stale}}

KeepsTip_UnregisterAll ==
    \/ reg' = [reg EXCEPT !.server = "absent"] /\ undeleted' = FALSE
    \/ reg' \in Remains(reg) /\ undeleted' = TRUE

(* UnregisterCategoriesAndProfiles deletes the TIP key with all its        *)
(* values, UnregisterServer the class; whether they could, nobody looks.   *)
UnregisterAll ==
    \/ reg' = NotRegistered /\ undeleted' = FALSE
    \/ reg' \in Remains(reg) /\ undeleted' = TRUE

(* DllRegisterServer wants to start from nothing.                          *)
DllRegisterServer ==
    /\ \E returned \in {"idle", "registered", "failed", "unregistered"} :
          Registering(returned)
    /\ UnregisterAll
    /\ regStep' = "server"

(* The class key is made before its values are written.                    *)
RegisterServer ==
    /\ Registering("server")
    /\ \/ reg' = [reg EXCEPT !.server = "full"] /\ regStep' = "profiles"
       \/ /\ \/ UNCHANGED reg
             \/ /\ reg.server = "absent"
                /\ reg' = [reg EXCEPT !.server = "partial"]
          /\ regStep' = "cleanup"
    /\ UNCHANGED undeleted

(* One language after the other, to the first that is refused.             *)
RegisterProfiles ==
    /\ Registering("profiles")
    /\ \E n \in 0..NProfiles :
          /\ reg' = [reg EXCEPT !.profiles = @ \cup (1..n)]
          /\ regStep' = IF n = NProfiles THEN "categories" ELSE "cleanup"
    /\ UNCHANGED undeleted

(* Every category is tried; one failure is enough to fail.                 *)
RegisterCategories ==
    /\ Registering("categories")
    /\ \E done \in SUBSET Categories :
          /\ reg' = [reg EXCEPT !.categories = @ \cup done]
          /\ regStep' = IF done = Categories THEN "registered" ELSE "cleanup"
    /\ UNCHANGED undeleted

RegistrationCleanup ==
    /\ Registering("cleanup")
    /\ UnregisterAll
    /\ regStep' = "failed"

DllUnregisterServer ==
    /\ \E returned \in {"idle", "registered", "failed"} : Registering(returned)
    /\ UnregisterAll
    /\ regStep' = "unregistered"

(* regsvr32 is ended between two calls.                                    *)
RegistrationKilled ==
    /\ \E step \in {"server", "profiles", "categories", "cleanup"} :
          Registering(step)
    /\ regStep' = "idle"
    /\ UNCHANGED <<reg, undeleted>>

-----------------------------------------------------------------------------
(* The DLL has just been loaded.  In the registry an older build may have  *)
(* left its values.                                                        *)
Init ==
    /\ kind \in {"app", "shell", "regsvr32"}
    /\ tsf = [s \in Services |-> NoTsf]
    /\ tray = [shared |-> 0, refs |-> 0, user |-> NoService,
               maker |-> NoService, windows |-> {}, made |-> 0,
               added |-> FALSE, icons |-> FALSE, retry |-> FALSE]
    /\ dllRefCount = 0 /\ factoryRefs = 0 /\ pinned = FALSE
    /\ reg \in {NotRegistered, [NotRegistered EXCEPT !.stale = TRUE]}
    /\ kind # "regsvr32" => reg = NotRegistered
    /\ undeleted = FALSE /\ regStep = "idle"

Next ==
    \/ DllGetClassObject
    \/ ReleaseFactory
    \/ \E s \in Services :
          \/ CreateInstance(s)
          \/ ActivateEx(s)
          \/ ActivateExError(s)
          \/ Deactivate(s)
          \/ Release(s)
          \/ SourceGoes(s)
          \/ handleProfileActivated(s)
          \/ OnSetFocus(s)
    \/ TaskbarCreated
    \/ RetryTimer
    \/ ThreadEnds
    \/ DllRegisterServer
    \/ RegisterServer
    \/ RegisterProfiles
    \/ RegisterCategories
    \/ RegistrationCleanup
    \/ DllUnregisterServer
    \/ RegistrationKilled

Spec == Init /\ [][Next]_vars

-----------------------------------------------------------------------------
(* The variables have the values they are declared to have, and the shared *)
(* window has holders exactly when there is one.                           *)
TypeOK ==
    /\ kind \in {"app", "shell", "regsvr32"}
    /\ tsf \in [Services -> Tsf]
    /\ tray \in Tray
    /\ tray.shared = 0 <=> tray.refs = 0
    /\ dllRefCount \in Nat /\ factoryRefs \in 0..MaxFactory
    /\ pinned \in BOOLEAN
    /\ reg \in Registry /\ undeleted \in BOOLEAN
    /\ regStep \in {"idle", "server", "profiles", "categories", "cleanup",
                    "registered", "failed", "unregistered"}

(* dllRefCount counts every text service, every language bar button, every *)
(* reference to the class factory and the pin of a shell host, after any   *)
(* failed creation, activation or button: it is zero only when nothing of  *)
(* the DLL is in use, and comes back to zero.                              *)
DllCountsEveryObject ==
    dllRefCount =
        Cardinality({s \in Services : tsf[s].alive})
        + Cardinality({s \in Services : tsf[s].button})
        + factoryRefs
        + (IF pinned THEN 1 ELSE 0)

(* While the thread that made the tray window lives, no text service holds *)
(* a window that another has destroyed, and in an application the count is *)
(* exact, so that the window goes with its last holder.  (A shell host     *)
(* acquires twice and releases once.)                                      *)
HolderCountIsExact ==
    LET holders == {s \in Services : tsf[s].hwnd = tray.shared} IN
    tray.shared # 0 =>
        /\ tray.maker # NoService => tray.shared \in tray.windows
        /\ tray.refs >= Cardinality(holders)
        /\ kind = "app" => tray.refs = Cardinality(holders)

(* A text service that was deactivated, or whose activation failed half    *)
(* way, has no button, no window and no sink left through which it could   *)
(* still be called, but for those that TSF would not let go; and whatever  *)
(* these report, it stays so, but for the text edit sink that a change of  *)
(* focus advises.                                                          *)
DeactivatedIsSilent ==
    \A s \in Services :
        ~tsf[s].mgr =>
            /\ ~tsf[s].button /\ tsf[s].hwnd = 0
            /\ tsf[s].sinks \subseteq
                  (IF "threadMgr" \in tsf[s].orphans THEN {"edit"} ELSE {})

(* DllRegisterServer leaves all or nothing, "from a clean TIP state so     *)
(* stale [...] values [...] do not survive" (dll/main.cpp:92), even after  *)
(* an older build or an earlier registration that was cut off: what is     *)
(* left over, or survives, a deletion was refused for.                     *)
RegistrationIsAllOrNothing ==
    /\ regStep = "registered" =>
          /\ reg.server = "full" /\ reg.profiles = 1..NProfiles
          /\ reg.categories = Categories
          /\ reg.stale => undeleted
    /\ regStep \in {"failed", "unregistered"} =>
          undeleted \/ reg = NotRegistered

=============================================================================
