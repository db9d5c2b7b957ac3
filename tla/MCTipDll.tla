------------------------------- MODULE MCTipDll -------------------------------
(* TLC instance of TipDll and RimeDeploy.  The two share no state: in a    *)
(* behaviour one of them moves and the other stays as it starts.           *)
EXTENDS TipDll

CONSTANT MaxDeploys

VARIABLES deployer, handles, launching, monitors, hWaitHandle, callback,
          window, told

rimeVars == <<deployer, handles, launching, monitors, hWaitHandle, callback,
              window, told>>

Rime == INSTANCE RimeDeploy

MCInit == Init /\ Rime!Init

MCNext ==
    \/ Rime!Init /\ Next /\ UNCHANGED rimeVars
    \/ Init /\ Rime!Next /\ UNCHANGED vars

MCSpec == MCInit /\ [][MCNext]_<<vars, rimeVars>> /\ Rime!Fairness

(* A deployment that has exited ends for the DLL as well (RimeDeploy).     *)
DeployEnds == Rime!DeployEnds

===============================================================================
