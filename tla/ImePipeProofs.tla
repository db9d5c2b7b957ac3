---------------------------- MODULE ImePipeProofs ----------------------------
(* What holds of the engine processes and their clients for every number   *)
(* of them: types, the launch mutex and the singleton server.              *)
EXTENDS ImePipe, TLAPS

USE ImePipeAssumption

LEMMA EndCallType ==
    ASSUME TypeOK, NEW c \in Clients, endCall(c)
    PROVE  /\ pc' \in [Clients -> ClientPcs]
           /\ tries' \in [Clients -> Nat]
           /\ op' \in [Clients -> Ops \cup {"none"}]
           /\ reply' \in [Clients -> Replies \cup {NoReply}]
           /\ \A d \in Clients : /\ reply'[d] # NoReply => pc'[d] = "read"
                                 /\ op'[d] = "none" => pc'[d] = "idle"
  BY DEF TypeOK, endCall, ClientPcs

LEMMA ToConnectType ==
    ASSUME TypeOK, NEW c \in Clients, toConnect(c), UNCHANGED <<op, reply>>,
           pc[c] \notin {"idle", "read"}
    PROVE  /\ pc' \in [Clients -> ClientPcs]
           /\ tries' \in [Clients -> Nat]
           /\ op' \in [Clients -> Ops \cup {"none"}]
           /\ reply' \in [Clients -> Replies \cup {NoReply}]
           /\ \A d \in Clients : /\ reply'[d] # NoReply => pc'[d] = "read"
                                 /\ op'[d] = "none" => pc'[d] = "idle"
  BY DEF TypeOK, toConnect, ClientPcs

LEMMA ClosePipeType ==
    ASSUME TypeOK, NEW c \in Clients, closePipe(c)
    PROVE  /\ pipe' \in [Clients -> {"none", "open", "broken"}]
           /\ peer' \in [Servers -> Clients \cup {NoClient, HungUp}]
  BY DEF TypeOK, closePipe, hangUp

LEMMA BreaksType ==
    ASSUME TypeOK, NEW s \in Servers, breaks(s)
    PROVE  pipe' \in [Clients -> {"none", "open", "broken"}]
  BY DEF TypeOK, breaks

LEMMA ResetSessionType ==
    ASSUME TypeOK, NEW s \in Servers, resetSession(s)
    PROVE  session' \in [Servers -> Sessions]
  BY DEF TypeOK, resetSession, EmptySession, Sessions, Panels

(* The answer of the server to a request. *)
LEMMA HandleRequestType ==
    ASSUME TypeOK, NEW s \in Servers, NEW c \in Clients, op[c] \in Ops,
           NEW r \in handleRequest(s, c)
    PROVE  /\ r.panel \in Panels
           /\ r.queue \in Seq(Commits)
           /\ r.drained \in Commits \cup {NoCommit}
           /\ r.made \in 0..MaxCommits
  <1> DEFINE old == session[s]
             fresh == [by |-> c, n |-> made + 1]
  <1>1. old.panel \in Panels /\ old.queue \in Seq(Commits)
    BY DEF TypeOK, Sessions
  <1>2. c \in Panels /\ NoPanel \in Panels
    BY DEF Panels
  <1>3. CASE op[c] = "Key"
    <2>1. CASE r \in {[panel |-> p, queue |-> old.queue,
                 drained |-> NoCommit, made |-> made] : p \in {NoPanel, c, old.panel}}
      BY <1>1, <1>2, <2>1 DEF TypeOK
    <2>2. CASE made # MaxCommits /\
               r \in {[panel |-> p, queue |-> Append(old.queue, fresh),
                 drained |-> NoCommit, made |-> made + 1] : p \in {NoPanel, c}}
      <3>1. made + 1 \in 1..MaxCommits
        BY <2>2 DEF TypeOK
      <3>2. fresh \in Commits
        BY <3>1 DEF Commits
      <3>3. Append(old.queue, fresh) \in Seq(Commits)
        BY <1>1, <3>2
      <3>4. PICK p \in {NoPanel, c} :
              r = [panel |-> p, queue |-> Append(old.queue, fresh),
                   drained |-> NoCommit, made |-> made + 1]
        BY <2>2
      <3> HIDE DEF fresh, old
      <3> QED BY <1>2, <3>1, <3>3, <3>4
    <2> QED BY <1>3, <2>1, <2>2 DEF handleRequest
  <1>4. CASE op[c] = "Clear"
    <2>1. r = [panel |-> NoPanel, queue |-> <<>>, drained |-> NoCommit, made |-> made]
      BY <1>4 DEF handleRequest
    <2> QED BY <1>2, <2>1 DEF TypeOK
  <1>5. CASE op[c] = "ServerPopCommit"
    <2>1. r = [panel |-> old.panel, queue |-> popped(old.queue), made |-> made,
               drained |-> IF old.queue = <<>> THEN NoCommit ELSE Head(old.queue)]
      BY <1>5 DEF handleRequest
    <2>2. popped(old.queue) \in Seq(Commits)
      BY <1>1 DEF popped
    <2>3. old.queue # <<>> => Head(old.queue) \in Commits
      BY <1>1
    <2> QED BY <1>1, <2>1, <2>2, <2>3 DEF TypeOK
  <1> QED BY <1>3, <1>4, <1>5 DEF Ops

(* A call that ends, and a reply only for a client that waits for one.     *)
LEMMA TypeInvariant ==
    ASSUME TypeOK, [Next]_vars
    PROVE  TypeOK'
  <1> USE DEF TypeOK, ClientPcs, ServerPcs
  <1>1. ASSUME NEW c \in Clients, NEW o \in Ops, Begin(c, o)
        PROVE  TypeOK'
    BY <1>1 DEF Begin, Ops, server
  <1>2. ASSUME NEW c \in Clients, NEW s \in Servers, OpenPipe(c, s)
        PROVE  TypeOK'
    <2>1. pipe' \in [Clients -> {"none", "open", "broken"}]
      BY <1>2 DEF OpenPipe
    <2>2. peer' \in [Servers -> Clients \cup {NoClient, HungUp}]
      BY <1>2 DEF OpenPipe
    <2>3. pc' \in [Clients -> ClientPcs] /\ tries' \in [Clients -> Nat]
      BY <1>2 DEF OpenPipe
    <2> QED BY <1>2, <2>1, <2>2, <2>3 DEF OpenPipe
  <1>3. ASSUME NEW c \in Clients, MissPipe(c)
        PROVE  TypeOK'
    <2>1. CASE endCall(c)
      BY <1>3, <2>1, EndCallType DEF MissPipe, server
    <2>2. CASE /\ pc' = [pc EXCEPT ![c] = IF tries[c] = 0 THEN "lock" ELSE "connect"]
               /\ tries' = [tries EXCEPT ![c] = @ + 1]
               /\ UNCHANGED <<op, reply>>
      <3>1. pc[c] = "connect"
        BY <1>3 DEF MissPipe
      <3>2. pc' \in [Clients -> ClientPcs] /\ tries' \in [Clients -> Nat]
        BY <2>2
      <3> QED BY <1>3, <2>2, <3>1, <3>2 DEF MissPipe, server
    <2> QED BY <1>3, <2>1, <2>2 DEF MissPipe, nextAttempt
  <1>4. ASSUME NEW c \in Clients, LockLaunchMutex(c)
        PROVE  TypeOK'
    BY <1>4 DEF LockLaunchMutex, server
  <1>5. ASSUME NEW c \in Clients, LockTimesOut(c)
        PROVE  TypeOK'
    BY <1>5, ToConnectType DEF LockTimesOut, afterTimeout, server
  <1>6. ASSUME NEW c \in Clients, NEW s \in Servers, ProbeFinds(c, s)
        PROVE  TypeOK'
    BY <1>6, ToConnectType DEF ProbeFinds, probePipe
  <1>7. ASSUME NEW c \in Clients, NEW s \in Servers, CreateProcessSucceeds(c, s)
        PROVE  TypeOK'
    BY <1>7 DEF CreateProcessSucceeds
  <1>8. ASSUME NEW c \in Clients, CreateProcessFails(c)
        PROVE  TypeOK'
    BY <1>8, ToConnectType DEF CreateProcessFails, server
  <1>9. ASSUME NEW c \in Clients, ProbeMisses(c)
        PROVE  TypeOK'
    <2>1. CASE toConnect(c)
      BY <1>9, <2>1, ToConnectType DEF ProbeMisses, server
    <2>2. CASE tries' = [tries EXCEPT ![c] = @ + 1] /\ UNCHANGED <<pc, mutex>>
      BY <1>9, <2>2 DEF ProbeMisses, server
    <2> QED BY <1>9, <2>1, <2>2 DEF ProbeMisses
  <1>10. ASSUME NEW c \in Clients, WriteRequest(c)
         PROVE  TypeOK'
    BY <1>10 DEF WriteRequest, server
  <1>11. ASSUME NEW c \in Clients, TransactFails(c)
         PROVE  TypeOK'
    BY <1>11, EndCallType, ClosePipeType DEF TransactFails
  <1>12. ASSUME NEW c \in Clients, TransactSucceeds(c)
         PROVE  TypeOK'
    <2>1. reply[c] \in Replies
      BY <1>12 DEF TransactSucceeds
    <2>2. cache' \in [Clients -> Panels]
      BY <1>12, <2>1 DEF TransactSucceeds, Replies
    <2>3. reply[c].drained # NoCommit => reply[c].drained \in Commits
      BY <2>1 DEF Replies
    <2>4. delivered' \in [Clients -> Seq(Commits)]
      BY <1>12, <2>3 DEF TransactSucceeds
    <2> QED BY <1>12, <2>2, <2>4, EndCallType DEF TransactSucceeds, server
  <1>13. ASSUME NEW c \in Clients, Destroy(c)
         PROVE  TypeOK'
    <2>1. cache' \in [Clients -> Panels]
      BY <1>13 DEF Destroy, Panels
    <2> QED BY <1>13, <2>1, ClosePipeType DEF Destroy
  <1>14. ASSUME NEW c \in Clients, HostDies(c)
         PROVE  TypeOK'
    <2>1. cache' \in [Clients -> Panels]
      BY <1>14 DEF HostDies, Panels
    <2> QED BY <1>14, <2>1, EndCallType, ClosePipeType DEF HostDies
  <1>15. ASSUME NEW s \in Servers, CreateMutex(s)
         PROVE  TypeOK'
    BY <1>15 DEF CreateMutex, client
  <1>16. ASSUME NEW s \in Servers, Exit(s)
         PROVE  TypeOK'
    BY <1>16 DEF Exit, client
  <1>17. ASSUME NEW s \in Servers, SharedInit(s)
         PROVE  TypeOK'
    BY <1>17 DEF SharedInit, keepsHandle, client
  <1>18. ASSUME NEW s \in Servers, CreateNamedPipe(s)
         PROVE  TypeOK'
    BY <1>18 DEF CreateNamedPipe, client
  <1>19. ASSUME NEW s \in Servers, Accept(s)
         PROVE  TypeOK'
    BY <1>19, ResetSessionType DEF Accept, client
  <1>20. ASSUME NEW s \in Servers, AcceptFails(s)
         PROVE  TypeOK'
    BY <1>20, BreaksType DEF AcceptFails
  <1>21. ASSUME NEW s \in Servers, Serve(s)
         PROVE  TypeOK'
    <2>1. /\ peer[s] \in Clients /\ pc[peer[s]] = "read"
          /\ op[peer[s]] \in Ops
      BY <1>21 DEF Serve, HasRequest
    <2>2. PICK r \in handleRequest(s, peer[s]), usable \in BOOLEAN :
             /\ session' = [session EXCEPT ![s] =
                               [panel |-> r.panel, queue |-> r.queue]]
             /\ made' = r.made
             /\ reply' = [reply EXCEPT ![peer[s]] =
                    [usable |-> usable, panel |-> r.panel, drained |-> r.drained]]
      BY <1>21 DEF Serve
    <2>3. /\ r.panel \in Panels /\ r.queue \in Seq(Commits)
          /\ r.drained \in Commits \cup {NoCommit} /\ r.made \in 0..MaxCommits
      BY <2>1, HandleRequestType
    <2>4. session' \in [Servers -> Sessions]
      BY <2>2, <2>3 DEF Sessions
    <2>5. reply' \in [Clients -> Replies \cup {NoReply}]
      BY <2>2, <2>3 DEF Replies
    <2>6. \A d \in Clients : reply'[d] # NoReply => pc[d] = "read"
      BY <2>1, <2>2
    <2> QED BY <1>21, <2>2, <2>3, <2>4, <2>5, <2>6 DEF Serve
  <1>22. ASSUME NEW s \in Servers, HangUpSeen(s)
         PROVE  TypeOK'
    BY <1>22, ResetSessionType DEF HangUpSeen, client
  <1>23. ASSUME NEW s \in Servers, ServerDies(s)
         PROVE  TypeOK'
    <2>1. session' \in [Servers -> Sessions]
      BY <1>23, ResetSessionType DEF ServerDies, resetSession
    <2> QED BY <1>23, <2>1, BreaksType DEF ServerDies
  <1>24. CASE UNCHANGED vars
    BY <1>24 DEF vars, client, server
  <1> QED
    BY <1>1, <1>2, <1>3, <1>4, <1>5, <1>6, <1>7, <1>8, <1>9, <1>10, <1>11,
       <1>12, <1>13, <1>14, <1>15, <1>16, <1>17, <1>18, <1>19, <1>20, <1>21,
       <1>22, <1>23, <1>24
    DEF Next, Connecting, Locking, Launching, Talking, ServerStep

(* In every reachable state every variable has its type, and a reply only  *)
(* ever waits for the call that asked for it.                              *)
THEOREM TypeCorrect == Spec => []TypeOK
  <1>1. Init => TypeOK
    BY DEF Init, TypeOK, ClientPcs, ServerPcs, Panels, Sessions, EmptySession
  <1>2. TypeOK /\ [Next]_vars => TypeOK'
    BY TypeInvariant
  <1> QED BY <1>1, <1>2, PTL DEF Spec

-----------------------------------------------------------------------------
(* The launch mutex has one owner, whichever host waits, times out or dies *)
(* (tryLaunchPipeServerProcess).                                           *)
THEOREM LaunchSerialized == Spec => []LaunchIsSerialized
  <1>1. Init => LaunchIsSerialized
    <2> SUFFICES ASSUME Init, NEW c \in Clients
                 PROVE  pc[c] \notin {"probe", "await"} /\ mutex # c
      BY DEF LaunchIsSerialized
    <2> QED BY DEF Init, ImePipeAssumption
  <1>2. ASSUME TypeOK, LaunchIsSerialized, [Next]_vars
        PROVE  LaunchIsSerialized'
    <2> USE <1>2 DEF LaunchIsSerialized, TypeOK
    <2>1. ASSUME NEW c \in Clients, NEW to \in ClientPcs,
                 pc' = [pc EXCEPT ![c] = to],
                 \/ mutex' = mutex /\ (to \in {"probe", "await"} <=> mutex = c)
                 \/ /\ mutex' = NoClient /\ mutex \in {c, NoClient}
                    /\ to \notin {"probe", "await"}
                 \/ mutex' = c /\ mutex = NoClient /\ to \in {"probe", "await"}
          PROVE  LaunchIsSerialized'
      <3>1. pc'[c] = to /\ \A d \in Clients \ {c} : pc'[d] = pc[d]
        BY <2>1
      <3> SUFFICES ASSUME NEW d \in Clients
                   PROVE  pc'[d] \in {"probe", "await"} <=> mutex' = d
        OBVIOUS
      <3> QED BY <2>1, <3>1
    <2>2. ASSUME NEW c \in Clients,
                 \/ \E o \in Ops : Begin(c, o)
                 \/ Connecting(c)
                 \/ LockTimesOut(c)
                 \/ Talking(c)
          PROVE  LaunchIsSerialized'
      <3>1. /\ pc[c] \notin {"probe", "await"} /\ mutex' = mutex
            /\ \E to \in {"connect", "send", "lock", "idle", "read"} :
                  pc' = [pc EXCEPT ![c] = to]
        <4>1. CASE (\E o \in Ops : Begin(c, o)) \/ LockTimesOut(c) \/ Talking(c)
          BY <4>1 DEF Begin, LockTimesOut, afterTimeout, toConnect, Talking,
                      WriteRequest, TransactFails, TransactSucceeds, endCall
        <4>2. CASE Connecting(c)
          BY <4>2 DEF Connecting, OpenPipe, MissPipe, nextAttempt, endCall
        <4> QED BY <2>2, <4>1, <4>2
      <3>2. mutex # c
        BY <3>1
      <3> QED BY <2>1, <3>1, <3>2 DEF ClientPcs
    <2>3. ASSUME NEW c \in Clients, LockLaunchMutex(c)
          PROVE  LaunchIsSerialized'
      BY <2>1, <2>3 DEF LockLaunchMutex, ClientPcs
    <2>4. ASSUME NEW c \in Clients, Launching(c)
          PROVE  LaunchIsSerialized'
      <3>1. pc[c] \in {"probe", "await"} /\ mutex = c
        BY <2>4 DEF Launching, ProbeFinds, CreateProcessSucceeds,
                    CreateProcessFails, ProbeMisses
      <3>2. \/ mutex' = mutex /\ pc' = pc
            \/ mutex' = mutex /\ pc' = [pc EXCEPT ![c] = "await"]
            \/ mutex' = NoClient /\ pc' = [pc EXCEPT ![c] = "connect"]
        BY <2>4 DEF Launching, ProbeFinds, CreateProcessSucceeds,
                    CreateProcessFails, ProbeMisses, toConnect
      <3>3. CASE mutex' = mutex /\ pc' = pc
        BY <3>3
      <3>4. CASE mutex' = mutex /\ pc' = [pc EXCEPT ![c] = "await"]
        BY <2>1, <3>1, <3>4 DEF ClientPcs
      <3>5. CASE mutex' = NoClient /\ pc' = [pc EXCEPT ![c] = "connect"]
        BY <2>1, <3>1, <3>5 DEF ClientPcs
      <3> QED BY <3>2, <3>3, <3>4, <3>5
    <2>5. ASSUME NEW c \in Clients, Destroy(c)
          PROVE  LaunchIsSerialized'
      BY <2>5 DEF Destroy
    <2>6. ASSUME NEW c \in Clients, HostDies(c)
          PROVE  LaunchIsSerialized'
      <3>1. /\ pc' = [pc EXCEPT ![c] = "idle"]
            /\ mutex' = IF mutex = c THEN NoClient ELSE mutex
        BY <2>6 DEF HostDies, endCall
      <3> QED BY <2>1, <3>1 DEF ClientPcs
    <2>7. ASSUME NEW s \in Servers, ServerStep(s) \/ ServerDies(s)
          PROVE  UNCHANGED <<pc, mutex>>
      BY <2>7 DEF ServerStep, CreateMutex, Exit, SharedInit, CreateNamedPipe,
                  Accept, AcceptFails, Serve, HangUpSeen, ServerDies, client
    <2>8. CASE UNCHANGED vars
      BY <2>8 DEF vars, client
    <2> QED
      BY <2>2, <2>3, <2>4, <2>5, <2>6, <2>7, <2>8 DEF Next, Locking
  <1> QED BY <1>1, <1>2, TypeCorrect, PTL DEF Spec

-----------------------------------------------------------------------------
(* A process past CreateMutex keeps the singleton mutex there for as long  *)
(* as it lives, and there is one engine among them.                        *)
SingletonInv ==
    /\ OneEngine
    /\ \A s \in Servers : s \in handles <=> spc[s] \notin {"off", "start"}

(* One engine process, for any number of hosts and of server processes     *)
(* ("second instance exits immediately", Fcitx5ImeIpcProtocol.h:50).       *)
THEOREM SingleEngine == Spec => []OneEngine
  <1> USE DEF SingletonInv, OneEngine, Engine
  <1>1. Init => SingletonInv
    BY DEF Init
  <1>2. ASSUME TypeOK, SingletonInv, [Next]_vars
        PROVE  SingletonInv'
    <2> USE <1>2 DEF TypeOK, ServerPcs
    <2>1. ASSUME NEW c \in Clients, NEW s \in Servers, CreateProcessSucceeds(c, s)
          PROVE  SingletonInv'
      BY <2>1 DEF CreateProcessSucceeds
    <2>2. ASSUME NEW s \in Servers, CreateMutex(s)
          PROVE  SingletonInv'
      <3>1. CASE handles = {}
        <4>1. \A t \in Servers : spc[t] \in {"off", "start"}
          BY <3>1
        <4> QED BY <2>2, <3>1, <4>1 DEF CreateMutex
      <3>2. CASE handles # {}
        BY <2>2, <3>2 DEF CreateMutex
      <3> QED BY <3>1, <3>2
    <2>3. ASSUME NEW s \in Servers, Exit(s) \/ ServerDies(s)
          PROVE  SingletonInv'
      <3>1. handles' = handles \ {s} /\ spc' = [spc EXCEPT ![s] = "off"]
        BY <2>3 DEF Exit, ServerDies
      <3> QED BY <3>1
    <2>4. ASSUME NEW s \in Servers, SharedInit(s)
          PROVE  SingletonInv'
      BY <2>4 DEF SharedInit, keepsHandle
    <2>5. ASSUME NEW s \in Servers,
                 CreateNamedPipe(s) \/ Accept(s) \/ AcceptFails(s) \/ HangUpSeen(s)
          PROVE  SingletonInv'
      <3>1. PICK to \in {"create", "listen", "serve"} :
              spc' = [spc EXCEPT ![s] = to] /\ UNCHANGED handles /\ Engine(s)
        BY <2>5 DEF CreateNamedPipe, Accept, AcceptFails, HangUpSeen
      <3> QED BY <3>1
    <2>6. CASE UNCHANGED <<spc, handles>>
      BY <2>6
    <2>7. ASSUME NEW c \in Clients,
                 \/ \E o \in Ops : Begin(c, o)
                 \/ Connecting(c) \/ Locking(c) \/ Talking(c)
                 \/ Destroy(c) \/ HostDies(c)
          PROVE  UNCHANGED <<spc, handles>>
      BY <2>7 DEF Begin, Connecting, OpenPipe, MissPipe, Locking, LockLaunchMutex,
                  LockTimesOut, Talking, WriteRequest, TransactFails,
                  TransactSucceeds, Destroy, HostDies, server
    <2>8. ASSUME NEW c \in Clients,
                 \/ \E s \in Servers : ProbeFinds(c, s)
                 \/ CreateProcessFails(c) \/ ProbeMisses(c)
          PROVE  UNCHANGED <<spc, handles>>
      BY <2>8 DEF ProbeFinds, CreateProcessFails, ProbeMisses, server
    <2>9. ASSUME NEW s \in Servers, Serve(s)
          PROVE  UNCHANGED <<spc, handles>>
      BY <2>9 DEF Serve
    <2>10. CASE UNCHANGED vars
      BY <2>10, <2>6 DEF vars, server
    <2> QED
      BY <2>1, <2>2, <2>3, <2>4, <2>5, <2>6, <2>7, <2>8, <2>9, <2>10
      DEF Next, Launching, ServerStep
  <1> QED BY <1>1, <1>2, TypeCorrect, PTL DEF Spec

-----------------------------------------------------------------------------
(* What a session, a reply or a client holds was typed by that client.     *)
HomePanel(p, c) == p \in {NoPanel, c}
HomeCommits(q, c) == \A i \in DOMAIN q : q[i].by = c

LEMMA AppendHome ==
    ASSUME NEW c \in Clients, NEW q \in Seq(Commits), HomeCommits(q, c),
           NEW m \in Commits, m.by = c
    PROVE  HomeCommits(Append(q, m), c)
  BY DEF HomeCommits

LEMMA PoppedHome ==
    ASSUME NEW c \in Clients, NEW q \in Seq(Commits), HomeCommits(q, c)
    PROVE  /\ HomeCommits(popped(q), c)
           /\ q # <<>> => Head(q).by = c
  BY DEF HomeCommits, popped

(* A request is answered from the session it came to. *)
LEMMA HandleRequestHome ==
    ASSUME TypeOK, NEW s \in Servers, NEW c \in Clients, op[c] \in Ops,
           HomePanel(session[s].panel, c), HomeCommits(session[s].queue, c),
           NEW r \in handleRequest(s, c)
    PROVE  /\ HomePanel(r.panel, c)
           /\ HomeCommits(r.queue, c)
           /\ r.drained # NoCommit => r.drained.by = c
  <1> DEFINE old == session[s]
             fresh == [by |-> c, n |-> made + 1]
  <1>1. old.queue \in Seq(Commits) /\ HomeCommits(old.queue, c)
    BY DEF TypeOK, Sessions
  <1>2. CASE op[c] = "Key"
    <2>1. CASE r \in {[panel |-> p, queue |-> old.queue,
                 drained |-> NoCommit, made |-> made] : p \in {NoPanel, c, old.panel}}
      BY <1>1, <2>1 DEF HomePanel
    <2>2. CASE made # MaxCommits /\
               r \in {[panel |-> p, queue |-> Append(old.queue, fresh),
                 drained |-> NoCommit, made |-> made + 1] : p \in {NoPanel, c}}
      <3>1. fresh \in Commits /\ fresh.by = c
        BY <2>2 DEF TypeOK, Commits
      <3>2. HomeCommits(Append(old.queue, fresh), c)
        BY <1>1, <3>1, AppendHome
      <3>3. PICK p \in {NoPanel, c} :
              r = [panel |-> p, queue |-> Append(old.queue, fresh),
                   drained |-> NoCommit, made |-> made + 1]
        BY <2>2
      <3> HIDE DEF old, fresh
      <3> QED BY <3>2, <3>3 DEF HomePanel
    <2> QED BY <1>2, <2>1, <2>2 DEF handleRequest
  <1>3. CASE op[c] = "Clear"
    <2>1. r = [panel |-> NoPanel, queue |-> <<>>, drained |-> NoCommit, made |-> made]
      BY <1>3 DEF handleRequest
    <2> QED BY <2>1 DEF HomePanel, HomeCommits
  <1>4. CASE op[c] = "ServerPopCommit"
    <2>1. r = [panel |-> old.panel, queue |-> popped(old.queue), made |-> made,
               drained |-> IF old.queue = <<>> THEN NoCommit ELSE Head(old.queue)]
      BY <1>4 DEF handleRequest
    <2>2. HomeCommits(popped(old.queue), c)
      BY <1>1, PoppedHome
    <2>3. old.queue # <<>> => Head(old.queue).by = c
      BY <1>1, PoppedHome
    <2> HIDE DEF old
    <2>4. HomePanel(old.panel, c)
      BY DEF old
    <2> QED BY <2>1, <2>2, <2>3, <2>4
  <1> QED BY <1>2, <1>3, <1>4 DEF Ops

(* The three parts of HomeInv, for the steps that disturb one of them.     *)
SessionsHome ==
    \A s \in Servers : spc[s] = "serve" /\ peer[s] \in Clients =>
        /\ HomePanel(session[s].panel, peer[s])
        /\ HomeCommits(session[s].queue, peer[s])

RepliesHome ==
    \A c \in Clients : reply[c] # NoReply =>
        /\ HomePanel(reply[c].panel, c)
        /\ reply[c].drained # NoCommit => reply[c].drained.by = c

HomeInv == PanelsStayHome /\ SessionsHome /\ RepliesHome

(* What is typed in one application stays there, for any number of hosts   *)
(* that use the server one after the other.                                *)
THEOREM PanelsHome == Spec => []PanelsStayHome
  <1>1. Init => HomeInv
    BY DEF Init, HomeInv, PanelsStayHome, SessionsHome, RepliesHome
  <1>2. ASSUME TypeOK, HomeInv, [Next]_vars
        PROVE  HomeInv'
    <2> USE <1>2 DEF HomeInv
    <2>1. ASSUME NEW c \in Clients, TransactSucceeds(c)
          PROVE  HomeInv'
      <3>1. /\ reply[c] \in Replies /\ HomePanel(reply[c].panel, c)
            /\ reply[c].drained # NoCommit => /\ reply[c].drained \in Commits
                                              /\ reply[c].drained.by = c
        BY <2>1 DEF TransactSucceeds, RepliesHome, TypeOK, Replies
      <3>2. /\ delivered[c] \in Seq(Commits)
            /\ HomeCommits(delivered[c], c)
        BY DEF TypeOK, PanelsStayHome, HomeCommits
      <3>3. HomeCommits(delivered'[c], c)
        <4>1. CASE reply[c].drained = NoCommit
          BY <2>1, <3>2, <4>1 DEF TransactSucceeds, TypeOK
        <4>2. CASE reply[c].drained # NoCommit
          <5>1. delivered'[c] = Append(delivered[c], reply[c].drained)
            BY <2>1, <4>2 DEF TransactSucceeds, TypeOK
          <5> QED BY <3>1, <3>2, <4>2, <5>1, AppendHome
        <4> QED BY <4>1, <4>2
      <3>4. cache'[c] \in {NoPanel, c}
        BY <2>1, <3>1 DEF TransactSucceeds, HomePanel, TypeOK
      <3>5. \A d \in Clients \ {c} : cache'[d] = cache[d] /\ delivered'[d] = delivered[d]
        BY <2>1 DEF TransactSucceeds, TypeOK
      <3>6. PanelsStayHome'
        BY <3>3, <3>4, <3>5 DEF PanelsStayHome, HomeCommits
      <3>7. SessionsHome'
        BY <2>1 DEF TransactSucceeds, SessionsHome, server
      <3>8. RepliesHome'
        BY <2>1 DEF TransactSucceeds, endCall, RepliesHome, TypeOK
      <3> QED BY <3>6, <3>7, <3>8
    <2>2. ASSUME NEW s \in Servers, Serve(s)
          PROVE  HomeInv'
      <3> DEFINE c == peer[s]
      <3>1. c \in Clients /\ op[c] \in Ops /\ spc[s] = "serve"
        BY <2>2 DEF Serve, HasRequest, TypeOK
      <3>2. PICK r \in handleRequest(s, c), usable \in BOOLEAN :
               /\ session' = [session EXCEPT ![s] =
                                 [panel |-> r.panel, queue |-> r.queue]]
               /\ reply' = [reply EXCEPT ![c] =
                      [usable |-> usable, panel |-> r.panel, drained |-> r.drained]]
        BY <2>2 DEF Serve
      <3>3. HomePanel(session[s].panel, c) /\ HomeCommits(session[s].queue, c)
        BY <3>1 DEF SessionsHome
      <3> HIDE DEF c
      <3>4. /\ HomePanel(r.panel, c) /\ HomeCommits(r.queue, c)
            /\ r.drained # NoCommit => r.drained.by = c
        BY <3>1, <3>3, HandleRequestHome
      <3>5. SessionsHome'
        BY <2>2, <3>2, <3>4 DEF Serve, SessionsHome, TypeOK, c
      <3>6. RepliesHome'
        BY <3>1, <3>2, <3>4 DEF RepliesHome, TypeOK
      <3>7. PanelsStayHome'
        BY <2>2 DEF Serve, PanelsStayHome
      <3> QED BY <3>5, <3>6, <3>7
    <2>3. ASSUME NEW s \in Servers,
                 \/ Accept(s) \/ HangUpSeen(s)
                 \/ ServerDies(s) \/ AcceptFails(s)
          PROVE  HomeInv'
      <3>1. SessionsHome'
        BY <2>3 DEF Accept, HangUpSeen, ServerDies, AcceptFails, resetSession,
                    EmptySession, SessionsHome, HomePanel, HomeCommits, TypeOK,
                    ImePipeAssumption
      <3>2. UNCHANGED <<reply, cache, delivered>>
        BY <2>3 DEF Accept, HangUpSeen, ServerDies, AcceptFails, client
      <3>3. PanelsStayHome' /\ RepliesHome'
        BY <3>2 DEF PanelsStayHome, RepliesHome
      <3> QED BY <3>1, <3>3
    <2>4. ASSUME NEW s \in Servers,
                 \/ CreateMutex(s) \/ Exit(s)
                 \/ SharedInit(s) \/ CreateNamedPipe(s)
          PROVE  HomeInv'
      <3>1. /\ UNCHANGED <<reply, cache, delivered, peer, session>>
            /\ \A t \in Servers : spc'[t] = "serve" => spc[t] = "serve"
        BY <2>4 DEF CreateMutex, Exit, SharedInit, CreateNamedPipe, client, TypeOK
      <3> QED BY <3>1 DEF PanelsStayHome, SessionsHome, RepliesHome
    <2>5. ASSUME NEW c \in Clients,
                 Destroy(c) \/ HostDies(c) \/ TransactFails(c) \/ MissPipe(c)
          PROVE  HomeInv'
      <3>1. /\ UNCHANGED <<delivered, spc, session>>
            /\ \A d \in Clients : cache'[d] \in {NoPanel, cache[d]}
            /\ \A d \in Clients : reply'[d] \in {NoReply, reply[d]}
            /\ \A t \in Servers : peer'[t] \in {HungUp, peer[t]}
        BY <2>5 DEF Destroy, HostDies, TransactFails, MissPipe, nextAttempt,
                    closePipe, hangUp, endCall, server, TypeOK
      <3>2. PanelsStayHome' /\ RepliesHome'
        BY <3>1 DEF PanelsStayHome, RepliesHome
      <3>3. SessionsHome'
        BY <3>1 DEF SessionsHome, ImePipeAssumption
      <3> QED BY <3>2, <3>3
    <2>6. ASSUME NEW c \in Clients, NEW s \in Servers,
                 \/ OpenPipe(c, s) \/ ProbeFinds(c, s)
                 \/ CreateProcessSucceeds(c, s)
          PROVE  HomeInv'
      <3>1. /\ UNCHANGED <<delivered, cache, reply, session>>
            /\ \A t \in Servers : spc'[t] = "serve" =>
                  spc[t] = "serve" /\ peer'[t] = peer[t]
        BY <2>6 DEF OpenPipe, ProbeFinds, probePipe, CreateProcessSucceeds,
                    Listening, TypeOK
      <3> QED BY <3>1 DEF PanelsStayHome, SessionsHome, RepliesHome
    <2>7. ASSUME NEW c \in Clients,
                 \/ \E o \in Ops : Begin(c, o)
                 \/ Locking(c) \/ CreateProcessFails(c) \/ ProbeMisses(c)
                 \/ WriteRequest(c)
          PROVE  UNCHANGED <<delivered, cache, reply, server>>
      BY <2>7 DEF Begin, Locking, LockLaunchMutex, LockTimesOut,
                  CreateProcessFails, ProbeMisses, WriteRequest
    <2>8. CASE UNCHANGED <<delivered, cache, reply, server>>
      BY <2>8 DEF PanelsStayHome, SessionsHome, RepliesHome, server
    <2>9. CASE UNCHANGED vars
      BY <2>8, <2>9 DEF vars, client
    <2> QED
      BY <2>1, <2>2, <2>3, <2>4, <2>5, <2>6, <2>7, <2>8, <2>9
      DEF Next, Connecting, Launching, Talking, ServerStep
  <1>3. HomeInv => PanelsStayHome
    BY DEF HomeInv
  <1> QED BY <1>1, <1>2, <1>3, TypeCorrect, PTL DEF Spec

-----------------------------------------------------------------------------
(* A client has one pipe at most, none while it looks for one, and what    *)
(* it knows of its session is what the session was when it last answered.  *)
PeerIsOpen ==
    \A s \in Servers : peer[s] \in Clients =>
        /\ pipe[peer[s]] = "open"
        /\ spc[s] \in {"listen", "serve"}

PeerIsUnique ==
    \A s, t \in Servers : peer[s] \in Clients /\ peer[s] = peer[t] => s = t

NoPipeYet ==
    \A c \in Clients : pc[c] \in {"connect", "lock", "probe", "await"} =>
        pipe[c] = "none"

(* A session is made while its client waits in its first call. *)
FirstCall ==
    \A s \in Servers : spc[s] = "listen" /\ peer[s] \in Clients =>
        /\ pc[peer[s]] \in {"send", "read"}
        /\ reply[peer[s]] = NoReply

ReplyIsCurrent ==
    \A s \in Servers : peer[s] \in Clients /\ reply[peer[s]] # NoReply =>
        reply[peer[s]].panel = session[s].panel

PipeInv ==
    /\ CacheFollowsSession
    /\ PeerIsOpen
    /\ PeerIsUnique
    /\ NoPipeYet
    /\ FirstCall
    /\ ReplyIsCurrent

LEMMA PipeAlways == Spec => []PipeInv
  <1> USE DEF PipeInv
  <1>1. Init => PipeInv
    BY DEF Init, PipeInv, CacheFollowsSession, PeerIsOpen, PeerIsUnique,
           NoPipeYet, FirstCall, ReplyIsCurrent, ImePipeAssumption
  <1>2. ASSUME TypeOK, PipeInv, [Next]_vars
        PROVE  PipeInv'
    <2> USE <1>2 DEF TypeOK, CacheFollowsSession, PeerIsOpen, PeerIsUnique,
                     NoPipeYet, FirstCall, ReplyIsCurrent
    <2>1. ASSUME NEW c \in Clients,
                 TransactFails(c) \/ Destroy(c) \/ HostDies(c)
          PROVE  PipeInv'
      <3>1. /\ \A s \in Servers : peer'[s] = IF peer[s] = c THEN HungUp ELSE peer[s]
            /\ pipe' = [pipe EXCEPT ![c] = "none"]
            /\ UNCHANGED <<spc, session>>
            /\ \A d \in Clients \ {c} : /\ pc'[d] = pc[d]
                                        /\ reply'[d] = reply[d]
                                        /\ cache'[d] = cache[d]
        BY <2>1 DEF TransactFails, Destroy, HostDies, closePipe, hangUp, endCall
      <3>2. \A s \in Servers : peer'[s] \in Clients =>
               peer'[s] = peer[s] /\ peer[s] # c
        BY <3>1 DEF ImePipeAssumption
      <3>3. NoPipeYet'
        BY <3>1
      <3>4. (PeerIsOpen /\ PeerIsUnique)'
        BY <3>1, <3>2
      <3>5. (CacheFollowsSession /\ FirstCall /\ ReplyIsCurrent)'
        BY <3>1, <3>2
      <3> QED BY <3>3, <3>4, <3>5
    <2>2. ASSUME NEW c \in Clients, MissPipe(c)
          PROVE  PipeInv'
      <3>1. /\ UNCHANGED <<pipe, cache, spc, peer, session>>
            /\ pipe[c] = "none"
            /\ \A d \in Clients \ {c} : pc'[d] = pc[d] /\ reply'[d] = reply[d]
        BY <2>2 DEF MissPipe, nextAttempt, endCall, server
      <3>2. \A s \in Servers : peer[s] # c
        BY <3>1
      <3> QED BY <3>1, <3>2
    <2>3. ASSUME NEW c \in Clients, NEW s \in Servers, OpenPipe(c, s)
          PROVE  PipeInv'
      <3>1. /\ pc[c] = "connect" /\ pipe[c] = "none" /\ reply[c] = NoReply
            /\ pipe' = [pipe EXCEPT ![c] = "open"]
            /\ peer' = [peer EXCEPT ![s] = c]
            /\ pc' = [pc EXCEPT ![c] = "send"]
            /\ spc[s] = "listen"
            /\ UNCHANGED <<reply, cache, spc, session>>
        BY <2>3 DEF OpenPipe, Listening
      <3>2. \A t \in Servers : peer[t] # c
        BY <3>1
      <3>3. (PeerIsOpen /\ PeerIsUnique /\ NoPipeYet)'
        BY <3>1, <3>2
      <3>4. (CacheFollowsSession /\ FirstCall /\ ReplyIsCurrent)'
        BY <3>1, <3>2
      <3> QED BY <3>3, <3>4
    <2>4. ASSUME NEW c \in Clients, Locking(c) \/ Launching(c)
          PROVE  PipeInv'
      <3>1. /\ UNCHANGED <<pipe, reply, cache, session>>
            /\ pipe[c] = "none"
            /\ pc'[c] # "idle"
            /\ \A d \in Clients \ {c} : pc'[d] = pc[d]
            /\ \A s \in Servers : peer'[s] \in {HungUp, peer[s]}
            /\ \A s \in Servers : spc'[s] # spc[s] => spc'[s] = "start" /\ spc[s] = "off"
        BY <2>4 DEF Locking, LockLaunchMutex, LockTimesOut, afterTimeout,
                    Launching, ProbeFinds, probePipe, CreateProcessSucceeds,
                    CreateProcessFails, ProbeMisses, toConnect, server
      <3>2. \A s \in Servers : peer'[s] \in Clients =>
               peer'[s] = peer[s] /\ peer[s] # c /\ spc'[s] = spc[s]
        <4> SUFFICES ASSUME NEW s \in Servers, peer'[s] \in Clients
                     PROVE  peer'[s] = peer[s] /\ peer[s] # c /\ spc'[s] = spc[s]
          OBVIOUS
        <4>1. peer'[s] = peer[s]
          BY <3>1 DEF ImePipeAssumption
        <4>2. pipe[peer[s]] = "open" /\ spc[s] \in {"listen", "serve"}
          BY <4>1
        <4> QED BY <3>1, <4>1, <4>2
      <3> QED BY <3>1, <3>2
    <2>5. ASSUME NEW c \in Clients, NEW o \in Ops, Begin(c, o)
          PROVE  PipeInv'
      BY <2>5 DEF Begin, server
    <2>6. ASSUME NEW c \in Clients, WriteRequest(c)
          PROVE  PipeInv'
      BY <2>6 DEF WriteRequest, server
    <2>7. ASSUME NEW c \in Clients, TransactSucceeds(c)
          PROVE  PipeInv'
      <3>1. /\ UNCHANGED <<pipe, spc, peer, session>>
            /\ pc[c] = "read" /\ reply[c] # NoReply
            /\ cache' = [cache EXCEPT ![c] = reply[c].panel]
            /\ pc' = [pc EXCEPT ![c] = "idle"]
            /\ reply' = [reply EXCEPT ![c] = NoReply]
        BY <2>7 DEF TransactSucceeds, endCall, server
      <3>2. CacheFollowsSession'
        BY <3>1
      <3> QED BY <3>1, <3>2
    <2>8. ASSUME NEW s \in Servers,
                 \/ CreateMutex(s) \/ Exit(s)
                 \/ SharedInit(s) \/ CreateNamedPipe(s)
          PROVE  PipeInv'
      <3>1. /\ UNCHANGED <<pc, pipe, reply, cache, peer, session>>
            /\ spc[s] \notin {"listen", "serve"}
            /\ \A t \in Servers \ {s} : spc'[t] = spc[t]
        BY <2>8 DEF CreateMutex, Exit, SharedInit, CreateNamedPipe, client
      <3>2. peer[s] \notin Clients
        BY <3>1
      <3> QED BY <3>1, <3>2
    <2>9. ASSUME NEW s \in Servers, Accept(s)
          PROVE  PipeInv'
      <3>1. /\ UNCHANGED <<pc, pipe, reply, cache, peer>>
            /\ spc[s] = "listen"
            /\ spc' = [spc EXCEPT ![s] = "serve"]
            /\ \A t \in Servers \ {s} : session'[t] = session[t]
        BY <2>9 DEF Accept, resetSession, client
      <3>2. (PeerIsOpen /\ PeerIsUnique /\ NoPipeYet)'
        BY <3>1
      <3>3. peer[s] \in Clients => /\ pc[peer[s]] # "idle"
                                   /\ reply[peer[s]] = NoReply
        BY <3>1
      <3>4. CacheFollowsSession'
        <4> SUFFICES ASSUME NEW t \in Servers, peer[t] \in Clients,
                            pc[peer[t]] = "idle"
                     PROVE  cache[peer[t]] = session'[t].panel
          BY <3>1
        <4>1. t # s
          BY <3>3
        <4> QED BY <3>1, <4>1
      <3>5. FirstCall'
        BY <3>1
      <3>6. ReplyIsCurrent'
        <4> SUFFICES ASSUME NEW t \in Servers, peer[t] \in Clients,
                            reply[peer[t]] # NoReply
                     PROVE  reply[peer[t]].panel = session'[t].panel
          BY <3>1
        <4>1. t # s
          BY <3>3
        <4> QED BY <3>1, <4>1
      <3> QED BY <3>2, <3>4, <3>5, <3>6
    <2>10. ASSUME NEW s \in Servers,
                  AcceptFails(s) \/ HangUpSeen(s) \/ ServerDies(s)
           PROVE  PipeInv'
      <3>1. /\ UNCHANGED <<pc, reply, cache>>
            /\ peer' = [peer EXCEPT ![s] = NoClient]
            /\ \A t \in Servers \ {s} : spc'[t] = spc[t] /\ session'[t] = session[t]
            /\ \A c \in Clients : pipe'[c] = pipe[c] \/ peer[s] = c
        BY <2>10 DEF AcceptFails, HangUpSeen, ServerDies, breaks, resetSession,
                     client, ImePipeAssumption
      <3>2. \A t \in Servers : peer'[t] \in Clients =>
               t # s /\ peer'[t] = peer[t] /\ peer[t] # peer[s]
        BY <3>1 DEF ImePipeAssumption
      <3>3. NoPipeYet'
        BY <3>1
      <3>4. (PeerIsOpen /\ PeerIsUnique)'
        BY <3>1, <3>2
      <3>5. (CacheFollowsSession /\ FirstCall /\ ReplyIsCurrent)'
        BY <3>1, <3>2
      <3> QED BY <3>3, <3>4, <3>5
    <2>11. ASSUME NEW s \in Servers, Serve(s)
           PROVE  PipeInv'
      <3> DEFINE c == peer[s]
      <3>1. /\ c \in Clients /\ pc[c] = "read" /\ spc[s] = "serve"
            /\ UNCHANGED <<pc, pipe, cache, spc, peer>>
        BY <2>11 DEF Serve, HasRequest
      <3>2. PICK r \in handleRequest(s, c), usable \in BOOLEAN :
               /\ session' = [session EXCEPT ![s] =
                                 [panel |-> r.panel, queue |-> r.queue]]
               /\ reply' = [reply EXCEPT ![c] =
                      [usable |-> usable, panel |-> r.panel, drained |-> r.drained]]
        <4> HIDE DEF TypeOK, PipeInv, CacheFollowsSession, PeerIsOpen, PeerIsUnique,
                    NoPipeYet, FirstCall, ReplyIsCurrent
        <4> QED BY <2>11 DEF Serve
      <3>3. \A t \in Servers \ {s} : peer[t] # c /\ session'[t] = session[t]
        BY <3>1, <3>2
      <3>4. \A d \in Clients \ {c} : reply'[d] = reply[d]
        BY <3>2
      <3>5. reply'[c].panel = session'[s].panel
        BY <3>1, <3>2
      <3>6. ReplyIsCurrent'
        BY <3>1, <3>3, <3>4, <3>5
      <3>7. CacheFollowsSession'
        <4> SUFFICES ASSUME NEW t \in Servers, peer[t] \in Clients,
                            pc[peer[t]] = "idle"
                     PROVE  cache[peer[t]] = session'[t].panel
          BY <3>1
        <4>1. t # s
          BY <3>1
        <4> QED BY <3>3, <4>1
      <3>9. FirstCall'
        BY <3>1, <3>3, <3>4
      <3>8. (PeerIsOpen /\ PeerIsUnique /\ NoPipeYet)'
        BY <3>1
      <3> QED BY <3>6, <3>7, <3>8, <3>9
    <2>12. CASE UNCHANGED vars
      BY <2>12 DEF vars, client, server
    <2> QED
      BY <2>1, <2>2, <2>3, <2>4, <2>5, <2>6, <2>7, <2>8, <2>9, <2>10, <2>11, <2>12
      DEF Next, Connecting, Talking, ServerStep
  <1> QED BY <1>1, <1>2, TypeCorrect, PTL DEF Spec

(* What a text service shows between two calls is its session's panel, for *)
(* any number of hosts, servers, attempts and probes.                      *)
THEOREM CacheCurrent == Spec => []CacheFollowsSession
  <1>1. PipeInv => CacheFollowsSession
    BY DEF PipeInv
  <1> QED BY <1>1, PipeAlways, PTL

-----------------------------------------------------------------------------
(* Commits are numbered as they are made.  On their way from the session   *)
(* through a reply to the text service they keep that order, and what is   *)
(* further from the text service is younger.                               *)
Ordered(q) == \A i, j \in DOMAIN q : i < j => q[i].n < q[j].n
Older(q, n) == \A i \in DOMAIN q : q[i].n < n
Carries(m) == m # NoReply /\ m.drained # NoCommit

DeliveredInOrder ==
    \A c \in Clients : Ordered(delivered[c]) /\ Older(delivered[c], made + 1)

DrainedIsNext ==
    \A c \in Clients : Carries(reply[c]) =>
        /\ Older(delivered[c], reply[c].drained.n)
        /\ reply[c].drained.n < made + 1

QueuedInOrder ==
    \A s \in Servers :
        /\ Ordered(session[s].queue)
        /\ Older(session[s].queue, made + 1)
        /\ spc[s] # "serve" => session[s].queue = <<>>

QueuedIsLater ==
    \A s \in Servers, c \in Clients : peer[s] = c =>
        \A i \in DOMAIN session[s].queue :
            /\ Older(delivered[c], session[s].queue[i].n)
            /\ Carries(reply[c]) => reply[c].drained.n < session[s].queue[i].n

OrderInv ==
    /\ DeliveredInOrder
    /\ DrainedIsNext
    /\ QueuedInOrder
    /\ QueuedIsLater

LEMMA AppendOrdered ==
    ASSUME NEW q \in Seq(Commits), NEW m \in Commits,
           Ordered(q), Older(q, m.n)
    PROVE  Ordered(Append(q, m))
  <1>1. /\ DOMAIN Append(q, m) = 1..(Len(q) + 1)
        /\ DOMAIN q = 1..Len(q) /\ Len(q) \in Nat
        /\ Append(q, m)[Len(q) + 1] = m
        /\ \A i \in DOMAIN q : Append(q, m)[i] = q[i]
    OBVIOUS
  <1> QED BY <1>1 DEF Ordered, Older

LEMMA AppendOlder ==
    ASSUME NEW q \in Seq(Commits), NEW m \in Commits, NEW n \in Nat,
           Older(q, n), m.n < n
    PROVE  Older(Append(q, m), n)
  <1>1. /\ DOMAIN Append(q, m) = DOMAIN q \cup {Len(q) + 1}
        /\ Append(q, m)[Len(q) + 1] = m
        /\ \A i \in DOMAIN q : Append(q, m)[i] = q[i]
    OBVIOUS
  <1> QED BY <1>1 DEF Older

LEMMA OlderGrows ==
    ASSUME NEW q \in Seq(Commits), NEW n \in Nat, NEW k \in Nat,
           Older(q, n), n <= k
    PROVE  Older(q, k)
  <1> SUFFICES ASSUME NEW i \in DOMAIN q
               PROVE  q[i].n < k
    BY DEF Older
  <1>1. q[i] \in Commits
    OBVIOUS
  <1>2. q[i].n \in Nat
    BY <1>1 DEF Commits
  <1> QED BY <1>2 DEF Older

(* Taking the first commit leaves the younger ones. *)
LEMMA PoppedOrdered ==
    ASSUME NEW q \in Seq(Commits), q # <<>>, Ordered(q)
    PROVE  /\ Tail(q) \in Seq(Commits)
           /\ Ordered(Tail(q))
           /\ \A i \in DOMAIN Tail(q) : /\ i + 1 \in DOMAIN q
                                        /\ Tail(q)[i] = q[i + 1]
                                        /\ Head(q).n < Tail(q)[i].n
  <1>1. /\ Tail(q) \in Seq(Commits)
        /\ Head(q) = q[1] /\ 1 \in DOMAIN q
        /\ \A i \in DOMAIN Tail(q) : /\ i \in Nat /\ 1 < i + 1
                                     /\ i + 1 \in DOMAIN q
                                     /\ Tail(q)[i] = q[i + 1]
    OBVIOUS
  <1>2. \A i \in DOMAIN Tail(q) : Head(q).n < Tail(q)[i].n
    BY <1>1 DEF Ordered
  <1>3. Ordered(Tail(q))
    BY <1>1 DEF Ordered
  <1> QED BY <1>1, <1>2, <1>3

(* A request leaves a queue in order, and answers with the oldest commit.  *)
LEMMA HandleRequestOrder ==
    ASSUME TypeOK, OrderInv, NEW s \in Servers, NEW c \in Clients,
           peer[s] = c, op[c] \in Ops, NEW r \in handleRequest(s, c)
    PROVE  /\ made <= r.made
           /\ Ordered(r.queue)
           /\ Older(r.queue, r.made + 1)
           /\ \A i \in DOMAIN r.queue : Older(delivered[c], r.queue[i].n)
           /\ r.drained # NoCommit =>
                 /\ Older(delivered[c], r.drained.n)
                 /\ r.drained.n < r.made + 1
                 /\ \A i \in DOMAIN r.queue : r.drained.n < r.queue[i].n
  <1> DEFINE old == session[s].queue
             fresh == [by |-> c, n |-> made + 1]
  <1>1. /\ old \in Seq(Commits) /\ made \in Nat
        /\ Ordered(old) /\ Older(old, made + 1)
        /\ \A i \in DOMAIN old : Older(delivered[c], old[i].n)
    BY DEF TypeOK, Sessions, OrderInv, QueuedInOrder, QueuedIsLater
  <1>2. delivered[c] \in Seq(Commits) /\ Older(delivered[c], made + 1)
    BY DEF TypeOK, OrderInv, DeliveredInOrder
  <1>3. CASE op[c] = "Key"
    <2>1. CASE r.queue = old /\ r.drained = NoCommit /\ r.made = made
      BY <1>1, <2>1
    <2>2. CASE /\ made # MaxCommits
               /\ r.queue = Append(old, fresh)
               /\ r.drained = NoCommit /\ r.made = made + 1
      <3>1. fresh \in Commits /\ fresh.n = made + 1
        BY <2>2 DEF TypeOK, Commits
      <3> HIDE DEF old, fresh
      <3>2. Ordered(Append(old, fresh))
        BY <1>1, <3>1, AppendOrdered
      <3>3. Older(old, made + 2)
        BY <1>1, OlderGrows
      <3>4. Older(Append(old, fresh), made + 2)
        BY <1>1, <3>1, <3>3, AppendOlder
      <3>5. \A i \in DOMAIN Append(old, fresh) :
               \/ Append(old, fresh)[i] = fresh
               \/ i \in DOMAIN old /\ Append(old, fresh)[i] = old[i]
        <4>1. /\ DOMAIN Append(old, fresh) = 1..(Len(old) + 1)
              /\ DOMAIN old = 1..Len(old) /\ Len(old) \in Nat
              /\ Append(old, fresh)[Len(old) + 1] = fresh
              /\ \A i \in DOMAIN old : Append(old, fresh)[i] = old[i]
          BY <1>1, <3>1
        <4> QED BY <4>1
      <3>6. \A i \in DOMAIN Append(old, fresh) :
               Older(delivered[c], Append(old, fresh)[i].n)
        <4> SUFFICES ASSUME NEW i \in DOMAIN Append(old, fresh)
                     PROVE  Older(delivered[c], Append(old, fresh)[i].n)
          OBVIOUS
        <4>1. CASE Append(old, fresh)[i] = fresh
          BY <1>2, <3>1, <4>1
        <4>2. CASE i \in DOMAIN old /\ Append(old, fresh)[i] = old[i]
          BY <1>1, <4>2
        <4> QED BY <3>5, <4>1, <4>2
      <3> QED BY <1>1, <2>2, <3>2, <3>4, <3>6
    <2>3. \/ r \in {[panel |-> p, queue |-> old, drained |-> NoCommit,
                     made |-> made] : p \in {NoPanel, c, session[s].panel}}
          \/ /\ made # MaxCommits
             /\ r \in {[panel |-> p, queue |-> Append(old, fresh), drained |-> NoCommit,
                        made |-> made + 1] : p \in {NoPanel, c}}
      BY <1>3 DEF handleRequest
    <2> HIDE DEF old, fresh
    <2> QED BY <2>1, <2>2, <2>3
  <1>4. CASE op[c] = "Clear"
    <2>1. r = [panel |-> NoPanel, queue |-> <<>>, drained |-> NoCommit, made |-> made]
      BY <1>4 DEF handleRequest
    <2> QED BY <1>1, <2>1 DEF Ordered, Older
  <1>5. CASE op[c] = "ServerPopCommit"
    <2>1. r = [panel |-> session[s].panel, queue |-> popped(old), made |-> made,
               drained |-> IF old = <<>> THEN NoCommit ELSE Head(old)]
      BY <1>5 DEF handleRequest
    <2> HIDE DEF old
    <2>2. CASE old = <<>>
      <3>1. r.queue = <<>> /\ r.drained = NoCommit /\ r.made = made
        BY <2>1, <2>2 DEF popped
      <3> QED BY <1>1, <3>1 DEF Ordered, Older
    <2>3. CASE old # <<>>
      <3>1. r.queue = Tail(old) /\ r.drained = Head(old) /\ r.made = made
        BY <2>1, <2>3 DEF popped
      <3>2. /\ Tail(old) \in Seq(Commits)
            /\ Ordered(Tail(old))
            /\ \A i \in DOMAIN Tail(old) : /\ i + 1 \in DOMAIN old
                                           /\ Tail(old)[i] = old[i + 1]
                                           /\ Head(old).n < Tail(old)[i].n
        BY <1>1, <2>3, PoppedOrdered
      <3>3. Older(Tail(old), made + 1)
        BY <1>1, <3>2 DEF Older
      <3>4. \A i \in DOMAIN Tail(old) : Older(delivered[c], Tail(old)[i].n)
        BY <1>1, <3>2
      <3>5. 1 \in DOMAIN old /\ Head(old) = old[1]
        BY <1>1, <2>3
      <3>6. Older(delivered[c], Head(old).n) /\ Head(old).n < made + 1
        BY <1>1, <3>5 DEF Older
      <3> QED BY <1>1, <3>1, <3>2, <3>3, <3>4, <3>6
    <2> QED BY <2>2, <2>3
  <1> QED BY <1>3, <1>4, <1>5 DEF Ops

(* A step that makes, queues and delivers nothing only loses commits. *)
LEMMA NothingMovesOrder ==
    ASSUME OrderInv,
           UNCHANGED <<delivered, made>>,
           \A c \in Clients : reply'[c] \in {NoReply, reply[c]},
           \A s \in Servers :
              /\ session'[s] \in {session[s], EmptySession}
              /\ spc'[s] # "serve" => session'[s].queue = <<>>
              /\ peer'[s] \in Clients =>
                    peer'[s] = peer[s] \/ session'[s].queue = <<>>
    PROVE  OrderInv'
  <1>1. DeliveredInOrder'
    BY DEF OrderInv, DeliveredInOrder, Ordered, Older
  <1>2. \A c \in Clients : Carries(reply'[c]) => reply'[c] = reply[c]
    BY DEF Carries
  <1>3. DrainedIsNext'
    BY <1>2 DEF OrderInv, DrainedIsNext, Carries, Older
  <1>4. EmptySession.queue = <<>>
    BY DEF EmptySession
  <1>5. QueuedInOrder'
    <2> SUFFICES ASSUME NEW s \in Servers
                 PROVE  /\ Ordered(session'[s].queue)
                        /\ Older(session'[s].queue, made + 1)
      BY DEF QueuedInOrder, Ordered, Older
    <2>1. CASE session'[s] = session[s]
      BY <2>1 DEF OrderInv, QueuedInOrder
    <2>2. CASE session'[s] = EmptySession
      BY <2>2, <1>4 DEF Ordered, Older
    <2> QED BY <2>1, <2>2
  <1>6. QueuedIsLater'
    <2> SUFFICES ASSUME NEW s \in Servers, NEW c \in Clients, peer'[s] = c,
                        NEW i \in DOMAIN session'[s].queue
                 PROVE  /\ Older(delivered[c], session'[s].queue[i].n)
                        /\ Carries(reply'[c]) =>
                             reply'[c].drained.n < session'[s].queue[i].n
      BY DEF QueuedIsLater, Older, Carries
    <2>1. session'[s] = session[s] /\ peer'[s] = peer[s]
      BY <1>4
    <2> QED BY <1>2, <2>1 DEF OrderInv, QueuedIsLater
  <1> QED BY <1>1, <1>3, <1>5, <1>6 DEF OrderInv

LEMMA ServeOrder ==
    ASSUME TypeOK, PeerIsUnique, OrderInv, NEW s \in Servers, Serve(s)
    PROVE  OrderInv'
  <1> DEFINE c == peer[s]
  <1>1. /\ c \in Clients /\ op[c] \in Ops
        /\ spc[s] = "serve" /\ reply[c] = NoReply
        /\ UNCHANGED <<delivered, spc, peer>>
    BY DEF Serve, HasRequest, TypeOK
  <1>2. PICK r \in handleRequest(s, c), usable \in BOOLEAN :
           /\ session' = [session EXCEPT ![s] = [panel |-> r.panel, queue |-> r.queue]]
           /\ made' = r.made
           /\ reply' = [reply EXCEPT ![c] =
                  [usable |-> usable, panel |-> r.panel, drained |-> r.drained]]
    BY DEF Serve
  <1>3. r.made \in Nat /\ made \in Nat
    <2>1. r.made \in 0..MaxCommits
      BY <1>1, HandleRequestType
    <2> QED BY <2>1 DEF TypeOK
  <1>4. /\ made <= r.made
        /\ Ordered(r.queue)
        /\ Older(r.queue, r.made + 1)
        /\ \A i \in DOMAIN r.queue : Older(delivered[c], r.queue[i].n)
        /\ r.drained # NoCommit =>
              /\ Older(delivered[c], r.drained.n)
              /\ r.drained.n < r.made + 1
              /\ \A i \in DOMAIN r.queue : r.drained.n < r.queue[i].n
    BY <1>1, HandleRequestOrder
  <1>5. /\ session'[s].queue = r.queue
        /\ \A t \in Servers \ {s} : session'[t] = session[t]
        /\ reply'[c].drained = r.drained
        /\ \A d \in Clients \ {c} : reply'[d] = reply[d]
    BY <1>1, <1>2 DEF TypeOK
  <1>6. \A t \in Servers \ {s} : peer[t] # c
    BY <1>1 DEF PeerIsUnique
  <1> HIDE DEF c
  <1>7. DeliveredInOrder'
    <2> SUFFICES ASSUME NEW d \in Clients
                 PROVE  Ordered(delivered[d]) /\ Older(delivered[d], r.made + 1)
      BY <1>1, <1>2 DEF DeliveredInOrder, Ordered, Older
    <2>1. /\ delivered[d] \in Seq(Commits)
          /\ Ordered(delivered[d]) /\ Older(delivered[d], made + 1)
      BY DEF OrderInv, DeliveredInOrder, TypeOK
    <2> QED BY <1>3, <1>4, <2>1, OlderGrows
  <1>8. DrainedIsNext'
    <2> SUFFICES ASSUME NEW d \in Clients, Carries(reply'[d])
                 PROVE  /\ Older(delivered[d], reply'[d].drained.n)
                        /\ reply'[d].drained.n < r.made + 1
      BY <1>1, <1>2 DEF DrainedIsNext, Carries, Older
    <2>1. CASE d = c
      BY <1>4, <1>5, <2>1 DEF Carries
    <2>2. CASE d # c
      <3>1. reply'[d] = reply[d] /\ Carries(reply[d])
        BY <1>5, <2>2
      <3>2. /\ Older(delivered[d], reply[d].drained.n)
            /\ reply[d].drained.n < made + 1
        BY <3>1 DEF OrderInv, DrainedIsNext
      <3>3. reply[d].drained.n \in Nat
        BY <3>1 DEF Carries, TypeOK, Replies, Commits
      <3> QED BY <1>3, <1>4, <3>1, <3>2, <3>3
    <2> QED BY <2>1, <2>2
  <1>9. QueuedInOrder'
    <2> SUFFICES ASSUME NEW t \in Servers
                 PROVE  /\ Ordered(session'[t].queue)
                        /\ Older(session'[t].queue, r.made + 1)
                        /\ spc[t] # "serve" => session'[t].queue = <<>>
      BY <1>1, <1>2 DEF QueuedInOrder, Ordered, Older
    <2>1. CASE t = s
      BY <1>1, <1>4, <1>5, <2>1
    <2>2. CASE t # s
      <3>1. session'[t] = session[t] /\ session[t].queue \in Seq(Commits)
        BY <1>5, <2>2 DEF TypeOK, Sessions
      <3>2. Older(session[t].queue, made + 1)
        BY DEF OrderInv, QueuedInOrder
      <3>3. Older(session[t].queue, r.made + 1)
        BY <1>3, <1>4, <3>1, <3>2, OlderGrows
      <3> QED BY <3>1, <3>3 DEF OrderInv, QueuedInOrder
    <2> QED BY <2>1, <2>2
  <1>10. QueuedIsLater'
    <2> SUFFICES ASSUME NEW t \in Servers, NEW d \in Clients, peer[t] = d,
                        NEW i \in DOMAIN session'[t].queue
                 PROVE  /\ Older(delivered[d], session'[t].queue[i].n)
                        /\ Carries(reply'[d]) =>
                             reply'[d].drained.n < session'[t].queue[i].n
      BY <1>1 DEF QueuedIsLater, Older, Carries
    <2>1. CASE t = s
      <3>1. d = c
        BY <2>1 DEF c
      <3> QED BY <1>4, <1>5, <2>1, <3>1 DEF Carries
    <2>2. CASE t # s
      <3>1. session'[t] = session[t] /\ reply'[d] = reply[d]
        BY <1>5, <1>6, <2>2
      <3> QED BY <3>1 DEF OrderInv, QueuedIsLater
    <2> QED BY <2>1, <2>2
  <1> QED BY <1>7, <1>8, <1>9, <1>10 DEF OrderInv

LEMMA TransactOrder ==
    ASSUME TypeOK, OrderInv, NEW c \in Clients, TransactSucceeds(c)
    PROVE  OrderInv'
  <1>1. /\ UNCHANGED <<spc, peer, session, made>>
        /\ reply' = [reply EXCEPT ![c] = NoReply]
        /\ \A d \in Clients \ {c} : delivered'[d] = delivered[d]
    BY DEF TransactSucceeds, endCall, server, TypeOK
  <1>2. CASE reply[c].drained = NoCommit
    <2>1. delivered' = delivered
      BY <1>2 DEF TransactSucceeds, TypeOK
    <2> QED BY <1>1, <2>1, NothingMovesOrder DEF OrderInv, QueuedInOrder, TypeOK
  <1>3. CASE reply[c].drained # NoCommit
    <2> DEFINE m == reply[c].drained
    <2>1. /\ Carries(reply[c]) /\ m \in Commits
          /\ delivered[c] \in Seq(Commits) /\ made \in Nat
      BY <1>3 DEF TransactSucceeds, Carries, TypeOK, Replies
    <2>2. delivered'[c] = Append(delivered[c], m)
      BY <1>3 DEF TransactSucceeds, TypeOK
    <2>3. /\ Ordered(delivered[c]) /\ Older(delivered[c], made + 1)
          /\ Older(delivered[c], m.n) /\ m.n < made + 1
      BY <2>1 DEF OrderInv, DeliveredInOrder, DrainedIsNext
    <2>4. Ordered(delivered'[c]) /\ Older(delivered'[c], made + 1)
      BY <2>1, <2>2, <2>3, AppendOrdered, AppendOlder
    <2>5. DeliveredInOrder'
      <3> SUFFICES ASSUME NEW d \in Clients
                   PROVE  Ordered(delivered'[d]) /\ Older(delivered'[d], made + 1)
        BY <1>1 DEF DeliveredInOrder, Ordered, Older
      <3> QED BY <1>1, <2>4 DEF OrderInv, DeliveredInOrder
    <2>6. DrainedIsNext'
      <3> SUFFICES ASSUME NEW d \in Clients, Carries(reply'[d])
                   PROVE  /\ Older(delivered'[d], reply'[d].drained.n)
                          /\ reply'[d].drained.n < made + 1
        BY <1>1 DEF DrainedIsNext, Carries, Older
      <3>1. d # c
        BY <1>1 DEF Carries, TypeOK
      <3> QED BY <1>1, <3>1 DEF OrderInv, DrainedIsNext, TypeOK
    <2>7. QueuedInOrder'
      BY <1>1 DEF OrderInv, QueuedInOrder, Ordered, Older
    <2>8. QueuedIsLater'
      <3> SUFFICES ASSUME NEW t \in Servers, NEW d \in Clients, peer[t] = d,
                          NEW i \in DOMAIN session[t].queue
                   PROVE  /\ Older(delivered'[d], session[t].queue[i].n)
                          /\ Carries(reply'[d]) =>
                               reply'[d].drained.n < session[t].queue[i].n
        BY <1>1 DEF QueuedIsLater, Older, Carries
      <3>1. CASE d = c
        <4>1. session[t].queue[i] \in Commits
          BY DEF TypeOK, Sessions
        <4>2. session[t].queue[i].n \in Nat
          BY <4>1 DEF Commits
        <4>3. /\ Older(delivered[c], session[t].queue[i].n)
              /\ m.n < session[t].queue[i].n
          BY <2>1, <3>1 DEF OrderInv, QueuedIsLater
        <4>4. Older(delivered'[c], session[t].queue[i].n)
          BY <2>1, <2>2, <4>2, <4>3, AppendOlder
        <4> QED BY <1>1, <3>1, <4>4 DEF Carries, TypeOK
      <3>2. CASE d # c
        <4>1. delivered'[d] = delivered[d] /\ reply'[d] = reply[d]
          BY <1>1, <3>2 DEF TypeOK
        <4> QED BY <4>1 DEF OrderInv, QueuedIsLater
      <3> QED BY <3>1, <3>2
    <2> QED BY <2>5, <2>6, <2>7, <2>8 DEF OrderInv
  <1> QED BY <1>2, <1>3

(* No text service gets a commit twice or before an older one, for any     *)
(* number of hosts and servers that fail and reconnect at any step.        *)
THEOREM CommitsOnce == Spec => []CommitsDeliveredOnce
  <1>1. Init => OrderInv
    BY DEF Init, OrderInv, DeliveredInOrder, DrainedIsNext, QueuedInOrder,
           QueuedIsLater, Ordered, Older, Carries, EmptySession
  <1>2. ASSUME TypeOK, PipeInv, OrderInv, [Next]_vars
        PROVE  OrderInv'
    <2> USE <1>2
    <2>1. ASSUME NEW c \in Clients, TransactSucceeds(c)
          PROVE  OrderInv'
      BY <2>1, TransactOrder
    <2>2. ASSUME NEW s \in Servers, Serve(s)
          PROVE  OrderInv'
      BY <2>2, ServeOrder DEF PipeInv
    <2>3. \A s \in Servers : spc[s] # "serve" => session[s].queue = <<>>
      BY DEF OrderInv, QueuedInOrder
    <2>4. ASSUME NEW s \in Servers,
                 \/ Accept(s) \/ HangUpSeen(s)
                 \/ ServerDies(s) \/ AcceptFails(s)
          PROVE  OrderInv'
      <3>1. /\ UNCHANGED <<delivered, made, reply>>
            /\ \A t \in Servers \ {s} : /\ session'[t] = session[t]
                                        /\ spc'[t] = spc[t]
                                        /\ peer'[t] = peer[t]
            /\ session'[s] = session[s] \/ session'[s] = EmptySession
            /\ session'[s].queue = <<>>
        BY <2>3, <2>4 DEF Accept, HangUpSeen, ServerDies, AcceptFails,
                          resetSession, EmptySession, client, TypeOK
      <3> QED BY <2>3, <3>1, NothingMovesOrder
    <2>5. ASSUME NEW s \in Servers,
                 \/ CreateMutex(s) \/ Exit(s)
                 \/ SharedInit(s) \/ CreateNamedPipe(s)
          PROVE  OrderInv'
      <3>1. /\ UNCHANGED <<delivered, made, reply, peer, session>>
            /\ \A t \in Servers : spc'[t] # "serve" => spc[t] # "serve"
        BY <2>5 DEF CreateMutex, Exit, SharedInit, CreateNamedPipe, client, TypeOK
      <3> QED BY <2>3, <3>1, NothingMovesOrder
    <2>6. ASSUME NEW c \in Clients,
                 Destroy(c) \/ HostDies(c) \/ TransactFails(c) \/ MissPipe(c)
          PROVE  OrderInv'
      <3>1. /\ UNCHANGED <<delivered, made, spc, session>>
            /\ \A d \in Clients : reply'[d] \in {NoReply, reply[d]}
            /\ \A t \in Servers : peer'[t] \in {HungUp, peer[t]}
        BY <2>6 DEF Destroy, HostDies, TransactFails, MissPipe, nextAttempt,
                    closePipe, hangUp, endCall, server, TypeOK
      <3>2. \A t \in Servers : peer'[t] \in Clients => peer'[t] = peer[t]
        BY <3>1 DEF ImePipeAssumption
      <3> QED BY <2>3, <3>1, <3>2, NothingMovesOrder
    <2>7. ASSUME NEW c \in Clients, NEW s \in Servers,
                 \/ OpenPipe(c, s) \/ ProbeFinds(c, s)
                 \/ CreateProcessSucceeds(c, s)
          PROVE  OrderInv'
      <3>1. /\ UNCHANGED <<delivered, made, reply, session>>
            /\ spc[s] # "serve"
            /\ \A t \in Servers \ {s} : spc'[t] = spc[t] /\ peer'[t] = peer[t]
        BY <2>7 DEF OpenPipe, ProbeFinds, probePipe, CreateProcessSucceeds,
                    Listening, TypeOK
      <3> QED BY <2>3, <3>1, NothingMovesOrder
    <2>8. ASSUME NEW c \in Clients,
                 \/ \E o \in Ops : Begin(c, o)
                 \/ Locking(c) \/ CreateProcessFails(c) \/ ProbeMisses(c)
                 \/ WriteRequest(c)
          PROVE  UNCHANGED <<delivered, made, reply, server>>
      BY <2>8 DEF Begin, Locking, LockLaunchMutex, LockTimesOut,
                  CreateProcessFails, ProbeMisses, WriteRequest
    <2>9. CASE UNCHANGED <<delivered, made, reply, server>>
      BY <2>3, <2>9, NothingMovesOrder DEF server
    <2>10. CASE UNCHANGED vars
      BY <2>9, <2>10 DEF vars, client
    <2> QED
      BY <2>1, <2>2, <2>4, <2>5, <2>6, <2>7, <2>8, <2>9, <2>10
      DEF Next, Connecting, Launching, Talking, ServerStep
  <1>3. OrderInv => CommitsDeliveredOnce
    BY DEF OrderInv, DeliveredInOrder, Ordered, CommitsDeliveredOnce
  <1> QED BY <1>1, <1>2, <1>3, TypeCorrect, PipeAlways, PTL DEF Spec


-----------------------------------------------------------------------------
(* A client and the engine at the other end of its pipe, step by step, do  *)
(* what OneSession does.  Two facts more are needed of the model: a server *)
(* process has a session while it serves only, and an idle client no call. *)
SessionInv ==
    /\ \A s \in Servers : spc[s] # "serve" => session[s] = EmptySession
    /\ \A c \in Clients : pc[c] = "idle" => op[c] = "none"

LEMMA SessionAlways == Spec => []SessionInv
  <1>1. Init => SessionInv
    BY DEF Init, SessionInv
  <1>2. ASSUME TypeOK, SessionInv, [Next]_vars
        PROVE  SessionInv'
    <2> USE <1>2 DEF TypeOK, SessionInv
    <2>1. ASSUME NEW c \in Clients,
                 TransactFails(c) \/ TransactSucceeds(c) \/ HostDies(c)
          PROVE  SessionInv'
      BY <2>1 DEF TransactFails, TransactSucceeds, HostDies, endCall, server
    <2>2. ASSUME NEW c \in Clients, MissPipe(c)
          PROVE  SessionInv'
      BY <2>2 DEF MissPipe, nextAttempt, endCall, server
    <2>3. ASSUME NEW c \in Clients, NEW s \in Servers, OpenPipe(c, s)
          PROVE  SessionInv'
      BY <2>3 DEF OpenPipe
    <2>4. ASSUME NEW c \in Clients, Locking(c)
          PROVE  SessionInv'
      BY <2>4 DEF Locking, LockLaunchMutex, LockTimesOut, afterTimeout,
                  toConnect, server
    <2>5. ASSUME NEW c \in Clients, Launching(c)
          PROVE  SessionInv'
      <3>1. /\ UNCHANGED <<op, session>>
            /\ pc'[c] # "idle"
            /\ \A d \in Clients \ {c} : pc'[d] = pc[d]
            /\ \A s \in Servers : spc'[s] = spc[s] \/ spc[s] = "off"
        BY <2>5 DEF Launching, ProbeFinds, CreateProcessSucceeds,
                    CreateProcessFails, ProbeMisses, toConnect, server
      <3> QED BY <3>1
    <2>6. ASSUME NEW c \in Clients, NEW o \in Ops, Begin(c, o)
          PROVE  SessionInv'
      BY <2>6 DEF Begin, server
    <2>7. ASSUME NEW c \in Clients, WriteRequest(c) \/ Destroy(c)
          PROVE  SessionInv'
      BY <2>7 DEF WriteRequest, Destroy, server
    <2>8. ASSUME NEW s \in Servers,
                 \/ CreateMutex(s) \/ Exit(s)
                 \/ SharedInit(s) \/ CreateNamedPipe(s)
          PROVE  SessionInv'
      BY <2>8 DEF CreateMutex, Exit, SharedInit, CreateNamedPipe, client
    <2>9. ASSUME NEW s \in Servers,
                 \/ Accept(s) \/ AcceptFails(s) \/ HangUpSeen(s)
                 \/ ServerDies(s)
          PROVE  SessionInv'
      BY <2>9 DEF Accept, AcceptFails, HangUpSeen, ServerDies, resetSession,
                  client
    <2>10. ASSUME NEW s \in Servers, Serve(s)
           PROVE  SessionInv'
      <3>1. /\ UNCHANGED <<pc, op, spc>> /\ spc[s] = "serve"
            /\ \E x : session' = [session EXCEPT ![s] = x]
        <4> HIDE DEF TypeOK, SessionInv
        <4> QED BY <2>10 DEF Serve
      <3> QED BY <3>1
    <2>11. CASE UNCHANGED vars
      BY <2>11 DEF vars, client, server
    <2> QED
      BY <2>1, <2>2, <2>3, <2>4, <2>5, <2>6, <2>7, <2>8, <2>9, <2>10, <2>11
      DEF Next, Connecting, Talking, ServerStep
  <1> QED BY <1>1, <1>2, TypeCorrect, PTL DEF Spec

(* The session among those of ss whose other end in pr is c.               *)
SessionIn(pr, ss, c) ==
    IF \E s \in Servers : pr[s] = c
    THEN ss[CHOOSE s \in Servers : pr[s] = c]
    ELSE EmptySession

LEMMA SessionIs ==
    ASSUME NEW pr, NEW ss, NEW c
    PROVE  /\ (\A s \in Servers : pr[s] # c)
              => SessionIn(pr, ss, c) = EmptySession
           /\ \A s \in Servers :
                 pr[s] = c /\ (\A t \in Servers : pr[t] = c => t = s)
                 => SessionIn(pr, ss, c) = ss[s]
  BY DEF SessionIn

LEMMA SessionOfIs ==
    ASSUME NEW c
    PROVE  /\ sessionOf(c) = SessionIn(peer, session, c)
           /\ sessionOf(c)' = SessionIn(peer', session', c)
  BY DEF sessionOf, SessionIn

LEMMA NoEngine ==
    ASSUME NEW c, \A s \in Servers : peer'[s] # c
    PROVE  sessionOf(c)' = EmptySession
  BY SessionIs, SessionOfIs

(* Whose pipe and session a step leaves alone, he keeps his engine.        *)
LEMMA KeepsEngine ==
    ASSUME PeerIsUnique, PeerIsUnique', NEW c \in Clients,
           \A s \in Servers : /\ peer[s] = c <=> peer'[s] = c
                              /\ peer[s] = c => session'[s] = session[s]
    PROVE  sessionOf(c)' = sessionOf(c)
  <1>1. CASE \A s \in Servers : peer[s] # c
    BY <1>1, SessionIs, SessionOfIs
  <1>2. CASE \E s \in Servers : peer[s] = c
    <2>1. PICK s \in Servers : peer[s] = c
      BY <1>2
    <2>2. /\ peer'[s] = c /\ session'[s] = session[s]
          /\ \A t \in Servers : peer[t] = c => t = s
          /\ \A t \in Servers : peer'[t] = c => t = s
      BY <2>1 DEF PeerIsUnique
    <2> QED BY <2>1, <2>2, SessionIs, SessionOfIs
  <1> QED BY <1>1, <1>2

LEMMA EnginesAre ==
    /\ \A c \in Clients : Engines[c] = sessionOf(c)
    /\ (\A c \in Clients : sessionOf(c)' = sessionOf(c)) => Engines' = Engines
    /\ \A c \in Clients : \A x :
          /\ sessionOf(c)' = x
          /\ \A d \in Clients \ {c} : sessionOf(d)' = sessionOf(d)
          => Engines' = [Engines EXCEPT ![c] = x]
  <1>1. Engines = [c \in Clients |-> sessionOf(c)]
    BY DEF Engines
  <1>2. Engines' = [c \in Clients |-> sessionOf(c)']
    BY DEF Engines
  <1> QED BY <1>1, <1>2

OneVars == <<op, Engines, Lost, reply, cache, delivered, made>>

(* One server process ends its side of a connection.                       *)
LEMMA ConnectionEnds ==
    ASSUME TypeOK, PipeInv, PipeInv', NEW s \in Servers,
           UNCHANGED <<op, reply, cache, delivered, made>>,
           breaks(s) \/ (peer[s] \notin Clients /\ pipe' = pipe),
           peer' = [peer EXCEPT ![s] = NoClient],
           \A t \in Servers \ {s} : session'[t] = session[t]
    PROVE  [One!Next]_OneVars
  <1>1. peer \in [Servers -> Clients \cup {NoClient, HungUp}]
        /\ pipe \in [Clients -> {"none", "open", "broken"}]
    BY DEF TypeOK
  <1>2. peer'[s] = NoClient /\ \A t \in Servers \ {s} : peer'[t] = peer[t]
    BY <1>1
  <1>3. PeerIsUnique /\ PeerIsUnique'
    BY DEF PipeInv
  <1>4. ASSUME NEW d \in Clients, d # peer[s]
        PROVE  sessionOf(d)' = sessionOf(d)
    <2>1. \A t \in Servers : /\ peer[t] = d <=> peer'[t] = d
                             /\ peer[t] = d => session'[t] = session[t]
      BY <1>2, <1>4
    <2> QED BY <1>3, <2>1, KeepsEngine
  <1>5. CASE peer[s] \in Clients
    <2>0. PICK c \in Clients : c = peer[s]
      BY <1>5
    <2>1. pipe' = [d \in Clients |-> IF c = d THEN "broken" ELSE pipe[d]]
      BY <1>5, <2>0 DEF breaks
    <2>2. Lost' = Lost \cup {c}
      <3>1. \A d \in Clients : pipe'[d] = IF d = c THEN "broken" ELSE pipe[d]
        BY <2>1
      <3> QED BY <2>0, <3>1 DEF Lost
    <2>3. \A t \in Servers : peer'[t] # c
      <3>1. \A t \in Servers : peer[t] = c => t = s
        BY <1>3, <2>0 DEF PeerIsUnique
      <3> QED BY <1>2, <2>0, <3>1, ImePipeAssumption
    <2>4. sessionOf(c)' = EmptySession
      BY <2>3, NoEngine
    <2>5. Engines' = [Engines EXCEPT ![c] = EmptySession]
      BY <1>4, <2>0, <2>4, EnginesAre
    <2>6. One!Lose(c)
      BY <2>2, <2>5 DEF One!Lose, One!NewEngine, EmptySession
    <2> QED BY <2>6 DEF One!Next
  <1>6. CASE peer[s] \notin Clients
    <2>1. Engines' = Engines
      BY <1>4, <1>6, EnginesAre
    <2>2. Lost' = Lost
      <3>1. \A d \in Clients : pipe'[d] = pipe[d]
        BY <1>1, <1>6 DEF breaks
      <3> QED BY <3>1 DEF Lost
    <2> QED BY <2>1, <2>2 DEF OneVars
  <1> QED BY <1>5, <1>6

(* A client gives up its pipe, or has none.                                *)
LEMMA PipeGone ==
    ASSUME TypeOK, PipeInv, PipeInv', NEW c \in Clients,
           UNCHANGED session,
           \/ closePipe(c)
           \/ pipe[c] = "none" /\ UNCHANGED <<pipe, peer>>
    PROVE  Engines' = [Engines EXCEPT ![c] = EmptySession] /\ Lost' = Lost \ {c}
  <1>1. peer \in [Servers -> Clients \cup {NoClient, HungUp}]
        /\ pipe \in [Clients -> {"none", "open", "broken"}]
    BY DEF TypeOK
  <1>2. PeerIsUnique /\ PeerIsUnique'
    BY DEF PipeInv
  <1>3. /\ \A t \in Servers : peer'[t] # c
        /\ \A t \in Servers : \A d \in Clients \ {c} : peer'[t] = d <=> peer[t] = d
        /\ \A d \in Clients : pipe'[d] = IF d = c THEN "none" ELSE pipe[d]
    <2>1. CASE closePipe(c)
      BY <1>1, <2>1, ImePipeAssumption DEF closePipe, hangUp
    <2>2. CASE pipe[c] = "none" /\ UNCHANGED <<pipe, peer>>
      BY <1>1, <2>2 DEF PipeInv, PeerIsOpen
    <2> QED BY <2>1, <2>2
  <1>4. \A d \in Clients \ {c} : sessionOf(d)' = sessionOf(d)
    BY <1>2, <1>3, KeepsEngine
  <1>5. sessionOf(c)' = EmptySession
    BY <1>3, NoEngine
  <1>6. Engines' = [Engines EXCEPT ![c] = EmptySession]
    BY <1>4, <1>5, EnginesAre
  <1>7. Lost' = Lost \ {c}
    BY <1>3 DEF Lost
  <1> QED BY <1>6, <1>7

(* The server carries out the request of its client.                       *)
LEMMA ServeStep ==
    ASSUME TypeOK, PipeInv, PipeInv', NEW s \in Servers, Serve(s)
    PROVE  [One!Next]_OneVars
  <1>0. PICK c \in Clients : c = peer[s]
    BY DEF Serve, HasRequest
  <1> DEFINE old == session[s]
             fresh == [by |-> c, n |-> made + 1]
  <1>1. /\ pc[c] = "read" /\ reply[c] = NoReply
        /\ UNCHANGED <<op, pipe, cache, delivered, peer>>
    BY <1>0 DEF Serve, HasRequest
  <1>2. PICK r \in handleRequest(s, c), usable \in BOOLEAN :
           /\ session' = [session EXCEPT ![s] =
                             [panel |-> r.panel, queue |-> r.queue]]
           /\ made' = r.made
           /\ reply' = [reply EXCEPT ![c] =
                  [usable |-> usable, panel |-> r.panel, drained |-> r.drained]]
    BY <1>0 DEF Serve
  <1>3. /\ op[c] \in Ops /\ session \in [Servers -> Sessions]
        /\ made \in Nat
    BY <1>1 DEF TypeOK
  <1>4. PeerIsUnique /\ PeerIsUnique' /\ pipe[c] = "open"
    BY <1>0 DEF PipeInv, PeerIsOpen
  <1>5. \A t \in Servers : peer[t] = c => t = s
    BY <1>0, <1>4 DEF PeerIsUnique
  <1>6. Engines[c] = old
    BY <1>0, <1>5, SessionIs, SessionOfIs, EnginesAre
  <1>7. Engines' = [Engines EXCEPT ![c] = [panel |-> r.panel, queue |-> r.queue]]
    <2> DEFINE x == [panel |-> r.panel, queue |-> r.queue]
    <2>1. session'[s] = x
      BY <1>2, <1>3
    <2> HIDE DEF x
    <2>2. peer'[s] = c /\ \A t \in Servers : peer'[t] = c => t = s
      BY <1>0, <1>1, <1>5
    <2>3. sessionOf(c)' = x
      BY <2>1, <2>2, SessionIs, SessionOfIs
    <2>4. \A d \in Clients \ {c} : sessionOf(d)' = sessionOf(d)
      <3>1. \A t \in Servers \ {s} : session'[t] = session[t]
        BY <1>2, <1>3
      <3> QED BY <1>0, <1>1, <1>4, <3>1, KeepsEngine
    <2>5. Engines' = [Engines EXCEPT ![c] = x]
      BY <2>3, <2>4, EnginesAre
    <2> QED BY <2>5 DEF x
  <1>8. Lost' = Lost /\ c \notin Lost
    BY <1>1, <1>4 DEF Lost
  <1> HIDE DEF old
  <1>9. ASSUME NEW panel, NEW queue, NEW drained,
               r.panel = panel, r.queue = queue, r.drained = drained
        PROVE  One!CarryOut(c, panel, queue, drained)
    BY <1>1, <1>2, <1>7, <1>8, <1>9 DEF One!CarryOut
  <1>10. CASE op[c] = "Key"
    <2>1. \E p \in {NoPanel, c, old.panel} :
             \/ r = [panel |-> p, queue |-> old.queue,
                     drained |-> NoCommit, made |-> made]
             \/ r = [panel |-> p, queue |-> Append(old.queue, fresh),
                     drained |-> NoCommit, made |-> made + 1]
      BY <1>10 DEF handleRequest, old
    <2>2. PICK p \in {NoPanel, c, old.panel} :
             \/ r = [panel |-> p, queue |-> old.queue,
                     drained |-> NoCommit, made |-> made]
             \/ r = [panel |-> p, queue |-> Append(old.queue, fresh),
                     drained |-> NoCommit, made |-> made + 1]
      BY <2>1
    <2>3. \/ One!CarryOut(c, p, old.queue, NoCommit) /\ made' = made
          \/ /\ One!CarryOut(c, p, Append(old.queue, fresh), NoCommit)
             /\ made' = made + 1
      <3> HIDE DEF fresh
      <3>1. CASE r = [panel |-> p, queue |-> old.queue,
                      drained |-> NoCommit, made |-> made]
        <4>1. /\ r.panel = p /\ r.queue = old.queue
              /\ r.drained = NoCommit /\ r.made = made
          BY <3>1
        <4> QED BY <1>2, <1>9, <4>1
      <3>2. CASE r = [panel |-> p, queue |-> Append(old.queue, fresh),
                      drained |-> NoCommit, made |-> made + 1]
        <4>1. /\ r.panel = p /\ r.queue = Append(old.queue, fresh)
              /\ r.drained = NoCommit /\ r.made = made + 1
          BY <3>2
        <4> QED BY <1>2, <1>9, <4>1
      <3> QED BY <2>2, <3>1, <3>2
    <2>4. One!Key(c)
      BY <1>6, <1>10, <2>3 DEF One!Key, One!NoCommit, NoCommit
    <2> QED BY <2>4 DEF One!Next
  <1>11. CASE op[c] = "Clear"
    <2>1. r = [panel |-> NoPanel, queue |-> <<>>, drained |-> NoCommit, made |-> made]
      BY <1>11 DEF handleRequest
    <2>2. One!Clear(c)
      BY <1>2, <1>9, <1>11, <2>1 DEF One!Clear, One!NoCommit, NoCommit
    <2> QED BY <2>2 DEF One!Next
  <1>12. CASE op[c] = "ServerPopCommit"
    <2>1. r = [panel |-> old.panel, queue |-> popped(old.queue), made |-> made,
               drained |-> IF old.queue = <<>> THEN NoCommit ELSE Head(old.queue)]
      BY <1>12 DEF handleRequest, old
    <2>2. One!PopCommit(c)
      BY <1>2, <1>6, <1>9, <1>12, <2>1
      DEF One!PopCommit, One!NoCommit, NoCommit, popped
    <2> QED BY <2>2 DEF One!Next
  <1> QED BY <1>3, <1>10, <1>11, <1>12 DEF Ops

LEMMA OneStep ==
    ASSUME TypeOK, PipeInv, PipeInv', SessionInv, [Next]_vars
    PROVE  [One!Next]_OneVars
  <1>1. PeerIsUnique /\ PeerIsUnique'
    BY DEF PipeInv
  <1>2. /\ peer \in [Servers -> Clients \cup {NoClient, HungUp}]
        /\ pipe \in [Clients -> {"none", "open", "broken"}]
        /\ session \in [Servers -> Sessions]
        /\ op \in [Clients -> Ops \cup {"none"}]
        /\ reply \in [Clients -> Replies \cup {NoReply}]
        /\ \A d \in Clients : /\ reply[d] # NoReply => pc[d] = "read"
                              /\ op[d] = "none" => pc[d] = "idle"
    BY DEF TypeOK
  <1>3. \A d \in Clients : pc[d] = "idle" => op[d] = "none" /\ reply[d] = NoReply
    BY <1>2 DEF SessionInv
  (* Steps that nobody but the process that takes them notices. *)
  <1>4. ASSUME UNCHANGED <<op, pipe, reply, cache, delivered, peer, session, made>>
        PROVE  [One!Next]_OneVars
    <2>1. Engines' = Engines
      BY <1>1, <1>4, KeepsEngine, EnginesAre
    <2>2. Lost' = Lost
      BY <1>4 DEF Lost
    <2> QED BY <1>4, <2>1, <2>2 DEF OneVars
  <1>5. ASSUME NEW c \in Clients, NEW o \in Ops, Begin(c, o)
        PROVE  [One!Next]_OneVars
    <2>1. /\ UNCHANGED <<pipe, reply, cache, delivered, peer, session, made>>
          /\ pc[c] = "idle" /\ op' = [op EXCEPT ![c] = o]
      BY <1>5 DEF Begin, server
    <2>2. Engines' = Engines
      BY <1>1, <2>1, KeepsEngine, EnginesAre
    <2>3. Lost' = Lost
      BY <2>1 DEF Lost
    <2>4. One!Call(c, o)
      BY <1>3, <2>1, <2>2, <2>3 DEF One!Call
    <2> QED BY <2>4 DEF One!Next, Ops
  <1>6. ASSUME NEW c \in Clients, NEW s \in Servers, OpenPipe(c, s)
        PROVE  [One!Next]_OneVars
    <2>1. /\ UNCHANGED <<op, reply, cache, delivered, session, made>>
          /\ pc[c] = "connect" /\ spc[s] = "listen" /\ peer[s] = NoClient
          /\ pipe' = [pipe EXCEPT ![c] = "open"]
          /\ peer' = [peer EXCEPT ![s] = c]
      BY <1>6 DEF OpenPipe, Listening
    <2>2. pipe[c] = "none" /\ \A t \in Servers : peer[t] # c
      BY <2>1 DEF PipeInv, NoPipeYet, PeerIsOpen
    <2>3. session[s] = EmptySession
      BY <2>1 DEF SessionInv
    <2>4. peer'[s] = c /\ \A t \in Servers \ {s} : peer'[t] = peer[t]
      BY <1>2, <2>1
    <2>5. sessionOf(c)' = sessionOf(c)
      <3>1. sessionOf(c) = EmptySession
        BY <2>2, SessionIs, SessionOfIs
      <3>2. \A t \in Servers : peer'[t] = c => t = s
        BY <2>2, <2>4
      <3>3. sessionOf(c)' = session'[s]
        BY <2>4, <3>2, SessionIs, SessionOfIs
      <3> QED BY <2>1, <2>3, <3>1, <3>3
    <2>6. ASSUME NEW d \in Clients \ {c}
          PROVE  sessionOf(d)' = sessionOf(d)
      <3>1. \A t \in Servers : peer[t] = d <=> peer'[t] = d
        BY <2>1, <2>4, ImePipeAssumption
      <3> QED BY <1>1, <2>1, <3>1, KeepsEngine
    <2>7. Engines' = Engines
      BY <2>5, <2>6, EnginesAre
    <2>8. Lost' = Lost
      BY <1>2, <2>1, <2>2 DEF Lost
    <2> QED BY <2>1, <2>7, <2>8 DEF OneVars
  <1>7. ASSUME NEW c \in Clients, MissPipe(c)
        PROVE  [One!Next]_OneVars
    <2>1. /\ UNCHANGED <<pipe, cache, delivered, peer, session, made>>
          /\ pc[c] = "connect" /\ nextAttempt(c)
      BY <1>7 DEF MissPipe, server
    <2>2. CASE endCall(c)
      <3>1. pipe[c] = "none" /\ op[c] # "none"
        BY <1>3, <2>1, <1>2 DEF PipeInv, NoPipeYet
      <3>2. Engines' = [Engines EXCEPT ![c] = EmptySession] /\ Lost' = Lost \ {c}
        BY <2>1, <3>1, PipeGone
      <3>3. One!Fail(c)
        BY <2>1, <2>2, <3>1, <3>2
        DEF One!Fail, One!NewEngine, EmptySession, endCall
      <3> QED BY <3>3 DEF One!Next
    <2>3. CASE UNCHANGED <<op, reply>>
      BY <1>4, <2>1, <2>3
    <2> QED BY <2>1, <2>2, <2>3 DEF nextAttempt
  <1>8. ASSUME NEW c \in Clients, Locking(c) \/ WriteRequest(c)
        PROVE  [One!Next]_OneVars
    BY <1>4, <1>8 DEF Locking, LockLaunchMutex, LockTimesOut, afterTimeout,
                      toConnect, WriteRequest, server
  <1>9. ASSUME NEW c \in Clients, NEW s \in Servers, ProbeFinds(c, s)
        PROVE  [One!Next]_OneVars
    <2>1. /\ UNCHANGED <<op, pipe, reply, cache, delivered, session, made>>
          /\ peer[s] = NoClient /\ peer' = [peer EXCEPT ![s] = HungUp]
      BY <1>9 DEF ProbeFinds, Listening, probePipe
    <2>2. \A d \in Clients : sessionOf(d)' = sessionOf(d)
      <3>1. \A d \in Clients : \A t \in Servers : peer[t] = d <=> peer'[t] = d
        BY <1>2, <2>1, ImePipeAssumption
      <3> QED BY <1>1, <2>1, <3>1, KeepsEngine
    <2>3. Engines' = Engines
      BY <2>2, EnginesAre
    <2>4. Lost' = Lost
      BY <2>1 DEF Lost
    <2> QED BY <2>1, <2>3, <2>4 DEF OneVars
  <1>10. ASSUME NEW c \in Clients, Launching(c)
         PROVE  [One!Next]_OneVars
    BY <1>4, <1>9, <1>10 DEF Launching, CreateProcessSucceeds,
                             CreateProcessFails, ProbeMisses, toConnect, server
  <1>11. ASSUME NEW c \in Clients, TransactFails(c)
         PROVE  [One!Next]_OneVars
    <2>1. /\ UNCHANGED <<cache, delivered, session, made>>
          /\ pc[c] \in {"send", "read"} /\ closePipe(c) /\ endCall(c)
      BY <1>11 DEF TransactFails
    <2>2. Engines' = [Engines EXCEPT ![c] = EmptySession] /\ Lost' = Lost \ {c}
      BY <2>1, PipeGone
    <2>3. op[c] # "none"
      BY <1>2, <2>1
    <2>4. One!Fail(c)
      BY <2>1, <2>2, <2>3 DEF One!Fail, One!NewEngine, EmptySession, endCall
    <2> QED BY <2>4 DEF One!Next
  <1>12. ASSUME NEW c \in Clients, TransactSucceeds(c)
         PROVE  [One!Next]_OneVars
    <2>1. /\ UNCHANGED <<pipe, peer, session, made>>
          /\ pc[c] = "read" /\ reply[c] # NoReply /\ reply[c].usable
          /\ cache' = [cache EXCEPT ![c] = reply[c].panel]
          /\ delivered' = [delivered EXCEPT ![c] =
                              IF reply[c].drained = NoCommit THEN @
                              ELSE Append(@, reply[c].drained)]
          /\ endCall(c)
      BY <1>12 DEF TransactSucceeds, server
    <2>2. Engines' = Engines
      BY <1>1, <2>1, KeepsEngine, EnginesAre
    <2>3. Lost' = Lost
      BY <2>1 DEF Lost
    <2>4. op[c] # "none"
      BY <1>2, <2>1
    <2>5. One!Return(c)
      BY <2>1, <2>2, <2>3, <2>4 DEF One!Return, One!NoCommit, NoCommit, endCall
    <2> QED BY <2>5 DEF One!Next
  <1>13. ASSUME NEW c \in Clients, Destroy(c) \/ HostDies(c)
         PROVE  [One!Next]_OneVars
    <2>1. /\ UNCHANGED <<delivered, session, made>> /\ closePipe(c)
          /\ cache' = [cache EXCEPT ![c] = NoPanel]
          /\ \/ endCall(c)
             \/ pc[c] = "idle" /\ UNCHANGED <<op, reply>>
      BY <1>13 DEF Destroy, HostDies
    <2>2. Engines' = [Engines EXCEPT ![c] = EmptySession] /\ Lost' = Lost \ {c}
      BY <2>1, PipeGone
    <2>3. /\ op' = [op EXCEPT ![c] = "none"]
          /\ reply' = [reply EXCEPT ![c] = NoReply]
      BY <1>2, <1>3, <2>1 DEF endCall
    <2>4. One!End(c)
      BY <2>1, <2>2, <2>3 DEF One!End, One!NewEngine, EmptySession
    <2> QED BY <2>4 DEF One!Next
  <1>14. ASSUME NEW s \in Servers,
                \/ CreateMutex(s) \/ Exit(s)
                \/ SharedInit(s) \/ CreateNamedPipe(s) \/ Accept(s)
         PROVE  [One!Next]_OneVars
    <2>1. UNCHANGED <<client, peer, made>>
      BY <1>14 DEF CreateMutex, Exit, SharedInit, CreateNamedPipe, Accept
    <2>2. session' = session
      <3>1. CASE Accept(s)
        <4>1. session' = [session EXCEPT ![s] = EmptySession]
              /\ session[s] = EmptySession
          BY <3>1 DEF Accept, resetSession, SessionInv
        <4> QED BY <1>2, <4>1
      <3>2. CASE ~Accept(s)
        BY <1>14, <3>2 DEF CreateMutex, Exit, SharedInit, CreateNamedPipe
      <3> QED BY <3>1, <3>2
    <2> QED BY <1>4, <2>1, <2>2 DEF client
  <1>15. ASSUME NEW s \in Servers, AcceptFails(s) \/ HangUpSeen(s) \/ ServerDies(s)
         PROVE  [One!Next]_OneVars
    <2>1. /\ UNCHANGED <<op, reply, cache, delivered, made>>
          /\ breaks(s) \/ (peer[s] \notin Clients /\ pipe' = pipe)
          /\ peer' = [peer EXCEPT ![s] = NoClient]
          /\ \A t \in Servers \ {s} : session'[t] = session[t]
      BY <1>2, <1>15, ImePipeAssumption
      DEF AcceptFails, HangUpSeen, ServerDies, resetSession, client
    <2> QED BY <2>1, ConnectionEnds
  <1>16. ASSUME NEW s \in Servers, Serve(s)
         PROVE  [One!Next]_OneVars
    BY <1>16, ServeStep
  <1>17. CASE UNCHANGED vars
    BY <1>4, <1>17 DEF vars, client, server
  <1> QED
    BY <1>5, <1>6, <1>7, <1>8, <1>10, <1>11, <1>12, <1>13, <1>14, <1>15,
       <1>16, <1>17
    DEF Next, Connecting, Talking, ServerStep

(* A text service may take the engine behind the pipe for one of its own:  *)
(* every call is carried out once at most, in the session the earlier ones *)
(* built up, and a session that ends is noticed (PipeImeEngine::transact), *)
(* for any number of hosts, servers, attempts and probes, whoever dies.    *)
THEOREM OneSessionKept == Spec => KeepsOneSession
  <1>1. Init => One!Init
    <2> SUFFICES ASSUME Init PROVE One!Init
      OBVIOUS
    <2>1. \A s \in Servers : peer[s] \notin Clients
      BY ImePipeAssumption DEF Init
    <2>2. Engines = [c \in Clients |-> EmptySession]
      <3>1. \A c \in Clients : sessionOf(c) = EmptySession
        BY <2>1, SessionIs, SessionOfIs
      <3> QED BY <3>1 DEF Engines
    <2>3. Lost = {}
      BY DEF Init, Lost
    <2> QED BY <2>2, <2>3 DEF Init, One!Init, One!NewEngine, EmptySession
  <1>2. TypeOK /\ PipeInv /\ PipeInv' /\ SessionInv /\ [Next]_vars
        => [One!Next]_(One!vars)
    BY OneStep DEF OneVars, One!vars
  <1> QED
    BY <1>1, <1>2, TypeCorrect, PipeAlways, SessionAlways, PTL
    DEF Spec, KeepsOneSession, One!Spec
=============================================================================
