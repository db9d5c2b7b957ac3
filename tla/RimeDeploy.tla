------------------------------ MODULE RimeDeploy ------------------------------
(***************************************************************************)
(* The deployment of Rime from the tray menu (LangBarTray.cpp): a thread   *)
(* of the user interface starts the deployer, enters it in                 *)
(* g_rimeDeployMonitors and registers a wait for its end, upon which a     *)
(* thread of the pool drops it from there.  No lock orders the two: the    *)
(* deployer may exit, and the callback run, while the call that registers  *)
(* the wait has not yet stored its handle in the monitor.                  *)
(*                                                                         *)
(* Each step is one access to what the threads share.  A user chooses one  *)
(* entry of one menu at a time, so that one thread launches.               *)
(***************************************************************************)
EXTENDS Integers, FiniteSets

CONSTANT MaxDeploys   \* bound: deployers started in a behaviour

Deploys == 1..MaxDeploys

VARIABLES
    deployer,    \* the processes: "none", "running" or "exited"
    handles,     \* those whose process and thread handles are open
    launching,   \* the step of the launching thread, and for which deployer
    monitors,    \* the keys of g_rimeDeployMonitors
    hWaitHandle, \* the monitors that know the handle of their wait
    callback,    \* the step of the callback of each wait
    window,      \* the tray window exists
    told         \* history: the deployers whose end was posted to it

vars == <<deployer, handles, launching, monitors, hWaitHandle, callback,
          window, told>>

Idle == [step |-> "idle", of |-> 0]
started == {d \in Deploys : deployer[d] # "none"}

(* A deployment is refused while one is monitored.  Without a window its   *)
(* end is of no interest, and the handles are closed at once.              *)
launchRimeDeployWithNotification ==
    /\ launching = Idle /\ monitors = {}
    /\ \E d \in Deploys, hwnd \in BOOLEAN :
          /\ d = Cardinality(started) + 1
          /\ deployer' = [deployer EXCEPT ![d] = "running"]
          /\ handles' = IF hwnd THEN handles \cup {d} ELSE handles
          /\ launching' = IF hwnd THEN [step |-> "insert", of |-> d] ELSE Idle
    /\ UNCHANGED <<monitors, hWaitHandle, callback, window, told>>

Launching(step, next) ==
    /\ launching.step = step
    /\ launching' = IF next = "idle" THEN Idle
                                     ELSE [launching EXCEPT !.step = next]
    /\ UNCHANGED <<deployer, window, told>>

InsertMonitor ==
    /\ Launching("insert", "register")
    /\ monitors' = monitors \cup {launching.of}
    /\ UNCHANGED <<handles, hWaitHandle, callback>>

(* From here on the pool may run the callback.                             *)
RegisterWait ==
    /\ Launching("register", "store")
    /\ callback' = [callback EXCEPT ![launching.of] = "waiting"]
    /\ UNCHANGED <<handles, monitors, hWaitHandle>>

RegisterWaitFails ==
    /\ Launching("register", "idle")
    /\ handles' = handles \ {launching.of}
    /\ monitors' = monitors \ {launching.of}
    /\ UNCHANGED <<hWaitHandle, callback>>

(* The handle of the wait goes into the monitor, if that is still there;   *)
(* else nobody will ever release it.                                       *)
StoreWaitHandle ==
    /\ Launching("store", "idle")
    /\ hWaitHandle' = hWaitHandle \cup ({launching.of} \cap monitors)
    /\ UNCHANGED <<handles, monitors, callback>>

DeployerExits(d) ==
    /\ deployer[d] = "running"
    /\ deployer' = [deployer EXCEPT ![d] = "exited"]
    /\ UNCHANGED <<handles, launching, monitors, hWaitHandle, callback,
                   window, told>>

Called(d, step, next) ==
    /\ callback[d] = step
    /\ callback' = [callback EXCEPT ![d] = next]
    /\ UNCHANGED <<deployer, launching, window>>

NeedsHandle_rimeDeployWaitCallback(d) ==
    /\ deployer[d] = "exited"
    /\ Called(d, "waiting", IF d \in monitors \cap hWaitHandle THEN "erase"
                                                              ELSE "done")
    /\ UNCHANGED <<handles, monitors, hWaitHandle, told>>

(* The callback looks its monitor up, and returns when there is none.      *)
rimeDeployWaitCallback(d) ==
    /\ deployer[d] = "exited"
    /\ Called(d, "waiting", IF d \in monitors THEN "erase" ELSE "done")
    /\ UNCHANGED <<handles, monitors, hWaitHandle, told>>

(* The wait is released if its handle is known; the handles are closed and *)
(* the monitor dropped.                                                    *)
EraseMonitor(d) ==
    /\ Called(d, "erase", "post")
    /\ handles' = handles \ {d}
    /\ monitors' = monitors \ {d}
    /\ hWaitHandle' = hWaitHandle \ {d}
    /\ UNCHANGED told

PostDone(d) ==
    /\ Called(d, "post", "done")
    /\ told' = IF window THEN told \cup {d} ELSE told
    /\ UNCHANGED <<handles, monitors, hWaitHandle>>

WindowGoes ==
    /\ window
    /\ window' = FALSE
    /\ UNCHANGED <<deployer, handles, launching, monitors, hWaitHandle,
                   callback, told>>

Init ==
    /\ deployer = [d \in Deploys |-> "none"]
    /\ handles = {}
    /\ launching = Idle
    /\ monitors = {} /\ hWaitHandle = {}
    /\ callback = [d \in Deploys |-> "none"]
    /\ window = TRUE
    /\ told = {}

Launch == \/ InsertMonitor
          \/ RegisterWait
          \/ RegisterWaitFails
          \/ StoreWaitHandle

Callback(d) == \/ rimeDeployWaitCallback(d)
               \/ EraseMonitor(d)
               \/ PostDone(d)

Next ==
    \/ launchRimeDeployWithNotification
    \/ Launch
    \/ \E d \in Deploys : DeployerExits(d) \/ Callback(d)
    \/ WindowGoes

(* Both threads run on; no deployer has to end.                            *)
Fairness == WF_vars(Launch) /\ \A d \in Deploys : WF_vars(Callback(d))

Spec == Init /\ [][Next]_vars /\ Fairness

-----------------------------------------------------------------------------
(* A deployment that has exited does not block the next one for ever, its  *)
(* handles are closed, and the window, if it is still there, has been told *)
(* by a wait that was registered: however the callback and the launching   *)
(* thread race, and also when the handle of the wait comes too late.       *)
DeployEnds ==
    \A d \in Deploys :
        deployer[d] = "exited" ~>
            [](/\ d \notin monitors \cup handles
               /\ window /\ callback[d] # "none" => d \in told)

===============================================================================
