------------------------------- MODULE ImePipe -------------------------------
(***************************************************************************)
(* The out-of-process engine: win32/ipc/PipeImeEngine.cpp, one client per  *)
(* text service in each host process, and Fcitx5ImePipeServerMain.cpp, the *)
(* one server process they are meant to share.                             *)
(*                                                                         *)
(* A client's call is transact(): connect if there is no pipe, write the   *)
(* request, read the reply.  A client that finds no pipe to open takes the *)
(* launch mutex, probes the pipe, launches the server and probes again     *)
(* until it answers; a server process that finds the singleton mutex there *)
(* exits.  A probe is a connection like any other: the server accepts it,  *)
(* makes a session for it and finds it hung up.                            *)
(*                                                                         *)
(* The client's thread is busy for the whole call, so a client is a small  *)
(* program counter; so is a server process.  What a request does is reduced*)
(* to what another request, another session or a lost reply could disturb: *)
(* the panel it leaves and the commits it queues or takes from the queue.  *)
(***************************************************************************)
EXTENDS Naturals, Sequences

CONSTANTS
    Clients,      \* PipeImeEngine objects
    NoClient,     \* nobody
    HungUp,       \* the other end of the pipe has been closed
    Servers,      \* bound: server processes alive at one time
    MaxAttempts,  \* attempts of ensurePipeConnectedUnlocked (8)
    MaxProbes,    \* probes after CreateProcessW (100)
    MaxCommits,   \* bound: commits the engine makes in a behaviour
    NoPanel,      \* nothing is being typed
    NoReply,      \* no reply waits in the pipe
    Faults,       \* processes die, launches and sessions fail
    Prompt        \* timing: the client's sleeps outlast the server's steps

ASSUME ImePipeAssumption ==
    /\ NoClient \notin Clients /\ HungUp \notin Clients /\ NoClient # HungUp
    /\ NoPanel \notin Clients
    /\ MaxAttempts \in Nat /\ MaxAttempts >= 2
    /\ MaxProbes \in Nat /\ MaxCommits \in Nat
    /\ Faults \in BOOLEAN /\ Prompt \in BOOLEAN

VARIABLES
    pc,        \* client: where transact is
    tries,     \* client: the loop counter of the connect or the probe loop
    op,        \* client: the opcode of the call
    pipe,      \* client: pipe_, "broken" once the server end is gone
    reply,     \* client: the reply waiting in the pipe
    cache,     \* client: preedit_, candidates_, ... of applySnapshot
    delivered, \* client: the commits drainNextCommit returned
    mutex,     \* owner of the launch mutex
    handles,   \* the server processes with a handle to the singleton mutex
    spc,       \* server process: where main or serveLoop is
    peer,      \* server process: the other end of its pipe instance
    session,   \* server process: panel and commit queue of its session
    made       \* commits made so far (history)

client == <<pc, tries, op, pipe, reply, cache, delivered>>
server == <<handles, spc, peer, session>>
vars == <<client, mutex, server, made>>

(* A panel is the client that typed it; a commit is its client and number. *)
Panels == Clients \cup {NoPanel}
Commits == [by: Clients, n: 1..MaxCommits]
NoCommit == <<>>
Replies == [usable: BOOLEAN, panel: Panels, drained: Commits \cup {NoCommit}]
Sessions == [panel: Panels, queue: Seq(Commits)]
EmptySession == [panel |-> NoPanel, queue |-> <<>>]

Ops == {"Key", "Clear", "ServerPopCommit"}
ClientPcs == {"idle", "connect", "lock", "probe", "await", "send", "read"}
ServerPcs == {"off", "start", "refused", "init", "create", "listen", "serve"}

Init ==
    /\ pc = [c \in Clients |-> "idle"]
    /\ tries = [c \in Clients |-> 0]
    /\ op = [c \in Clients |-> "none"]
    /\ pipe = [c \in Clients |-> "none"]
    /\ reply = [c \in Clients |-> NoReply]
    /\ cache = [c \in Clients |-> NoPanel]
    /\ delivered = [c \in Clients |-> <<>>]
    /\ mutex = NoClient
    /\ handles = {}
    /\ spc = [s \in Servers |-> "off"]
    /\ peer = [s \in Servers |-> NoClient]
    /\ session = [s \in Servers |-> EmptySession]
    /\ made = 0

-----------------------------------------------------------------------------
(* The pipe. *)

Listening(s) == spc[s] = "listen" /\ peer[s] = NoClient

(* CreateFileW followed by CloseHandle: the instance is used up. *)
LeaksTheProbe_probePipe(c, s) == peer' = [peer EXCEPT ![s] = c]
probePipe(c, s) == peer' = [peer EXCEPT ![s] = HungUp]

hangUp(c) == peer' = [s \in Servers |-> IF peer[s] = c THEN HungUp ELSE peer[s]]

(* A request is in the pipe of s. *)
HasRequest(s) == peer[s] \in Clients /\ pc[peer[s]] = "read"
                                     /\ reply[peer[s]] = NoReply

(* No server process has anything to do. *)
ServersQuiet ==
    \A s \in Servers :
        /\ spc[s] \in {"off", "listen", "serve"}
        /\ spc[s] = "listen" => peer[s] = NoClient
        /\ spc[s] = "serve" => peer[s] # HungUp /\ ~HasRequest(s)

(* Sleep: long enough for every server process, if Prompt. *)
Sleeps == Prompt => ServersQuiet

-----------------------------------------------------------------------------
(* The client. *)

LeavesReply_endCall(c) ==
    /\ pc' = [pc EXCEPT ![c] = "idle"]
    /\ tries' = [tries EXCEPT ![c] = 0]
    /\ op' = [op EXCEPT ![c] = "none"]
    /\ UNCHANGED reply

(* transact returns. *)
endCall(c) ==
    /\ pc' = [pc EXCEPT ![c] = "idle"]
    /\ tries' = [tries EXCEPT ![c] = 0]
    /\ op' = [op EXCEPT ![c] = "none"]
    /\ reply' = [reply EXCEPT ![c] = NoReply]

Begin(c, o) ==
    /\ pc[c] = "idle"
    /\ pc' = [pc EXCEPT ![c] = IF pipe[c] = "none" THEN "connect" ELSE "send"]
    /\ tries' = [tries EXCEPT ![c] = 0]
    /\ op' = [op EXCEPT ![c] = o]
    /\ UNCHANGED <<pipe, reply, cache, delivered, mutex, server, made>>

OpenPipe(c, s) ==
    /\ pc[c] = "connect"
    /\ tries[c] > 0 => Sleeps
    /\ Listening(s)
    /\ pipe' = [pipe EXCEPT ![c] = "open"]
    /\ peer' = [peer EXCEPT ![s] = c]
    /\ pc' = [pc EXCEPT ![c] = "send"]
    /\ tries' = [tries EXCEPT ![c] = 0]
    /\ UNCHANGED <<op, reply, cache, delivered, mutex, handles, spc,
                   session, made>>

Unbounded_nextAttempt(c) ==
    /\ pc' = [pc EXCEPT ![c] = IF tries[c] = 0 THEN "lock" ELSE "connect"]
    /\ tries' = [tries EXCEPT ![c] = 1]
    /\ UNCHANGED <<op, reply>>

(* What follows a failed attempt: the first one launches a server, the     *)
(* last one ends the call.                                                 *)
nextAttempt(c) ==
    \/ /\ tries[c] + 1 < MaxAttempts
       /\ pc' = [pc EXCEPT ![c] = IF tries[c] = 0 THEN "lock" ELSE "connect"]
       /\ tries' = [tries EXCEPT ![c] = @ + 1]
       /\ UNCHANGED <<op, reply>>
    \/ /\ tries[c] + 1 = MaxAttempts
       /\ endCall(c)

MissPipe(c) ==
    /\ pc[c] = "connect"
    /\ tries[c] > 0 => Sleeps
    /\ \A s \in Servers : ~Listening(s)
    /\ nextAttempt(c)
    /\ UNCHANGED <<pipe, cache, delivered, mutex, server, made>>

(* Back from tryLaunchPipeServerProcess to the connect loop. *)
toConnect(c) ==
    /\ pc' = [pc EXCEPT ![c] = "connect"]
    /\ tries' = [tries EXCEPT ![c] = 1]

(* WAIT_OBJECT_0 or WAIT_ABANDONED. *)
LockLaunchMutex(c) ==
    /\ pc[c] = "lock"
    /\ mutex = NoClient
    /\ mutex' = c
    /\ pc' = [pc EXCEPT ![c] = "probe"]
    /\ UNCHANGED <<tries, op, pipe, reply, cache, delivered, server, made>>

GoesOn_afterTimeout(c) ==
    /\ pc' = [pc EXCEPT ![c] = "probe"]
    /\ UNCHANGED tries

afterTimeout(c) == toConnect(c)

LockTimesOut(c) ==
    /\ pc[c] = "lock"
    /\ mutex # NoClient
    /\ afterTimeout(c)
    /\ UNCHANGED <<op, pipe, reply, cache, delivered, mutex, server, made>>

ProbeFinds(c, s) ==
    /\ pc[c] \in {"probe", "await"}
    /\ pc[c] = "await" => Sleeps
    /\ Listening(s)
    /\ probePipe(c, s)
    /\ toConnect(c)
    /\ mutex' = NoClient
    /\ UNCHANGED <<op, pipe, reply, cache, delivered, handles, spc, session, made>>

CreateProcessSucceeds(c, s) ==
    /\ pc[c] = "probe"
    /\ \A t \in Servers : ~Listening(t)
    /\ spc[s] = "off"
    /\ spc' = [spc EXCEPT ![s] = "start"]
    /\ pc' = [pc EXCEPT ![c] = "await"]
    /\ tries' = [tries EXCEPT ![c] = 0]
    /\ UNCHANGED <<op, pipe, reply, cache, delivered, mutex, handles, peer,
                   session, made>>

CreateProcessFails(c) ==
    /\ Faults
    /\ pc[c] = "probe"
    /\ \A s \in Servers : ~Listening(s)
    /\ toConnect(c)
    /\ mutex' = NoClient
    /\ UNCHANGED <<op, pipe, reply, cache, delivered, server, made>>

ProbeMisses(c) ==
    /\ pc[c] = "await"
    /\ Sleeps
    /\ \A s \in Servers : ~Listening(s)
    /\ \/ /\ tries[c] < MaxProbes
          /\ tries' = [tries EXCEPT ![c] = @ + 1]
          /\ UNCHANGED <<pc, mutex>>
       \/ /\ tries[c] = MaxProbes
          /\ toConnect(c)
          /\ mutex' = NoClient
    /\ UNCHANGED <<op, pipe, reply, cache, delivered, server, made>>

WriteRequest(c) ==
    /\ pc[c] = "send"
    /\ pipe[c] = "open"
    /\ pc' = [pc EXCEPT ![c] = "read"]
    /\ UNCHANGED <<tries, op, pipe, reply, cache, delivered, mutex, server, made>>

KeepsPipe_closePipe(c) == UNCHANGED <<pipe, peer>>

closePipe(c) ==
    /\ pipe' = [pipe EXCEPT ![c] = "none"]
    /\ hangUp(c)

SendsAgain_TransactFails(c) ==
    /\ \/ pc[c] \in {"send", "read"} /\ pipe[c] = "broken" /\ reply[c] = NoReply
       \/ pc[c] = "read" /\ reply[c] # NoReply /\ ~reply[c].usable
    /\ closePipe(c)
    /\ pc' = [pc EXCEPT ![c] = "connect"]
    /\ reply' = [reply EXCEPT ![c] = NoReply]
    /\ UNCHANGED <<tries, op, cache, delivered, mutex, handles, spc, session,
                   made>>

(* The write or the read fails, or the reply is none a client accepts. *)
TransactFails(c) ==
    /\ \/ pc[c] \in {"send", "read"} /\ pipe[c] = "broken" /\ reply[c] = NoReply
       \/ pc[c] = "read" /\ reply[c] # NoReply /\ ~reply[c].usable
    /\ closePipe(c)
    /\ endCall(c)
    /\ UNCHANGED <<cache, delivered, mutex, handles, spc, session, made>>

(* applySnapshot, and drainNextCommit's result. *)
TransactSucceeds(c) ==
    /\ pc[c] = "read"
    /\ reply[c] # NoReply
    /\ reply[c].usable
    /\ cache' = [cache EXCEPT ![c] = reply[c].panel]
    /\ delivered' = [delivered EXCEPT ![c] =
                        IF reply[c].drained = NoCommit THEN @
                        ELSE Append(@, reply[c].drained)]
    /\ endCall(c)
    /\ UNCHANGED <<pipe, mutex, server, made>>

(* ~PipeImeEngine. *)
Destroy(c) ==
    /\ pc[c] = "idle"
    /\ pipe[c] # "none"
    /\ closePipe(c)
    /\ cache' = [cache EXCEPT ![c] = NoPanel]
    /\ UNCHANGED <<pc, tries, op, reply, delivered, mutex, handles, spc, session, made>>

(* The host process dies in the middle of a call; the system closes its    *)
(* handles and abandons its mutex.                                         *)
HostDies(c) ==
    /\ Faults
    /\ pc[c] # "idle"
    /\ endCall(c)
    /\ closePipe(c)
    /\ cache' = [cache EXCEPT ![c] = NoPanel]
    /\ mutex' = IF mutex = c THEN NoClient ELSE mutex
    /\ UNCHANGED <<delivered, handles, spc, session, made>>

-----------------------------------------------------------------------------
(* The server process. *)

DropsTheHandle_keepsHandle(s) == handles' = handles \ {s}
keepsHandle(s) == UNCHANGED handles

CreateMutex(s) ==
    /\ spc[s] = "start"
    /\ handles' = handles \cup {s}
    /\ spc' = [spc EXCEPT ![s] = IF handles = {} THEN "init" ELSE "refused"]
    /\ UNCHANGED <<client, mutex, peer, session, made>>

(* main returns: the second instance, or shared.init() failed. *)
Exit(s) ==
    /\ \/ spc[s] = "refused"
       \/ spc[s] = "init" /\ Faults
    /\ handles' = handles \ {s}
    /\ spc' = [spc EXCEPT ![s] = "off"]
    /\ UNCHANGED <<client, mutex, peer, session, made>>

SharedInit(s) ==
    /\ spc[s] = "init"
    /\ keepsHandle(s)
    /\ spc' = [spc EXCEPT ![s] = "create"]
    /\ UNCHANGED <<client, mutex, peer, session, made>>

CreateNamedPipe(s) ==
    /\ spc[s] = "create"
    /\ spc' = [spc EXCEPT ![s] = "listen"]
    /\ UNCHANGED <<client, mutex, handles, peer, session, made>>

(* What a client sees when the server end of its pipe goes away: a request *)
(* is lost, a reply already written can still be read.                     *)
breaks(s) ==
    pipe' = [c \in Clients |-> IF peer[s] = c THEN "broken" ELSE pipe[c]]

KeepsIt_resetSession(s) == UNCHANGED session
resetSession(s) == session' = [session EXCEPT ![s] = EmptySession]

Accept(s) ==
    /\ spc[s] = "listen"
    /\ peer[s] # NoClient
    /\ resetSession(s)
    /\ spc' = [spc EXCEPT ![s] = "serve"]
    /\ UNCHANGED <<client, mutex, handles, peer, made>>

(* ConnectNamedPipe finds the probe gone, or initAsPipeSession fails. *)
AcceptFails(s) ==
    /\ spc[s] = "listen"
    /\ peer[s] = HungUp \/ (Faults /\ peer[s] # NoClient)
    /\ breaks(s)
    /\ peer' = [peer EXCEPT ![s] = NoClient]
    /\ spc' = [spc EXCEPT ![s] = "create"]
    /\ UNCHANGED <<pc, tries, op, reply, cache, delivered, mutex, handles,
                   session, made>>

Peeks_popped(q) == q
popped(q) == IF q = <<>> THEN q ELSE Tail(q)

(* handleRequest and imeIpcEncodeSuccessResponse: the session after the    *)
(* request, the commit the reply carries and the number of commits made.   *)
handleRequest(s, c) ==
    LET old == session[s]
        new == Append(old.queue, [by |-> c, n |-> made + 1])
    IN  CASE op[c] = "Key" ->
               {[panel |-> p, queue |-> old.queue,
                 drained |-> NoCommit, made |-> made] : p \in {NoPanel, c, old.panel}}
               \cup (IF made = MaxCommits THEN {}
                     ELSE {[panel |-> p, queue |-> new, drained |-> NoCommit,
                            made |-> made + 1] : p \in {NoPanel, c}})
          [] op[c] = "Clear" ->
               {[panel |-> NoPanel, queue |-> <<>>, drained |-> NoCommit,
                 made |-> made]}
          [] op[c] = "ServerPopCommit" ->
               {[panel |-> old.panel, queue |-> popped(old.queue), made |-> made,
                 drained |-> IF old.queue = <<>> THEN NoCommit ELSE Head(old.queue)]}

Serve(s) ==
    /\ spc[s] = "serve"
    /\ HasRequest(s)
    /\ \E r \in handleRequest(s, peer[s]), usable \in (IF Faults THEN BOOLEAN ELSE {TRUE}) :
          /\ session' = [session EXCEPT ![s] = [panel |-> r.panel, queue |-> r.queue]]
          /\ made' = r.made
          /\ reply' = [reply EXCEPT ![peer[s]] =
                 [usable |-> usable, panel |-> r.panel, drained |-> r.drained]]
    /\ UNCHANGED <<pc, tries, op, pipe, cache, delivered, mutex, handles, spc, peer>>

(* The read or the write fails: the session ends, the loop goes on. *)
HangUpSeen(s) ==
    /\ spc[s] = "serve"
    /\ peer[s] = HungUp
    /\ spc' = [spc EXCEPT ![s] = "create"]
    /\ peer' = [peer EXCEPT ![s] = NoClient]
    /\ resetSession(s)
    /\ UNCHANGED <<client, mutex, handles, made>>

ServerDies(s) ==
    /\ Faults
    /\ spc[s] # "off"
    /\ spc' = [spc EXCEPT ![s] = "off"]
    /\ handles' = handles \ {s}
    /\ breaks(s)
    /\ peer' = [peer EXCEPT ![s] = NoClient]
    /\ session' = [session EXCEPT ![s] = EmptySession]
    /\ UNCHANGED <<pc, tries, op, reply, cache, delivered, mutex, made>>

-----------------------------------------------------------------------------

Connecting(c) == (\E s \in Servers : OpenPipe(c, s)) \/ MissPipe(c)
Locking(c) == LockLaunchMutex(c) \/ LockTimesOut(c)
Launching(c) ==
    \/ \E s \in Servers : ProbeFinds(c, s) \/ CreateProcessSucceeds(c, s)
    \/ CreateProcessFails(c)
    \/ ProbeMisses(c)
Talking(c) == WriteRequest(c) \/ TransactFails(c) \/ TransactSucceeds(c)

ServerStep(s) ==
    \/ CreateMutex(s) \/ Exit(s) \/ SharedInit(s) \/ CreateNamedPipe(s)
    \/ Accept(s) \/ AcceptFails(s) \/ Serve(s) \/ HangUpSeen(s)

Next ==
    \/ \E c \in Clients :
          \/ \E o \in Ops : Begin(c, o)
          \/ Connecting(c) \/ Locking(c) \/ Launching(c) \/ Talking(c)
          \/ Destroy(c) \/ HostDies(c)
    \/ \E s \in Servers : ServerStep(s) \/ ServerDies(s)

Spec == Init /\ [][Next]_vars

(* The scheduler runs every thread that can go on. *)
Fairness ==
    /\ \A c \in Clients :
          WF_vars(Connecting(c) \/ Locking(c) \/ Launching(c) \/ Talking(c))
    /\ \A s \in Servers : WF_vars(ServerStep(s))

FairSpec == Spec /\ Fairness

-----------------------------------------------------------------------------
(* Types; a reply is only ever there for a client that waits for one, so   *)
(* no call can read the answer to an earlier one.                          *)
TypeOK ==
    /\ pc \in [Clients -> ClientPcs]
    /\ tries \in [Clients -> Nat]
    /\ op \in [Clients -> Ops \cup {"none"}]
    /\ pipe \in [Clients -> {"none", "open", "broken"}]
    /\ reply \in [Clients -> Replies \cup {NoReply}]
    /\ cache \in [Clients -> Panels]
    /\ delivered \in [Clients -> Seq(Commits)]
    /\ mutex \in Clients \cup {NoClient}
    /\ handles \subseteq Servers
    /\ spc \in [Servers -> ServerPcs]
    /\ peer \in [Servers -> Clients \cup {NoClient, HungUp}]
    /\ session \in [Servers -> Sessions]
    /\ made \in 0..MaxCommits
    /\ \A c \in Clients : /\ reply[c] # NoReply => pc[c] = "read"
                          /\ op[c] = "none" => pc[c] = "idle"

(* The server processes past the singleton mutex: they own an Instance     *)
(* over the one set of configuration files.                                *)
Engine(s) == spc[s] \in {"init", "create", "listen", "serve"}

(* There is never more than one engine process, however many hosts launch  *)
(* one and whoever dies: "second instance exits immediately"               *)
(* (Fcitx5ImeIpcProtocol.h:50).                                            *)
OneEngine == \A s, t \in Servers : Engine(s) /\ Engine(t) => s = t

(* The launch mutex serializes probing and CreateProcess across the host   *)
(* processes (Fcitx5ImeIpcProtocol.h:52), through timeouts of the wait and *)
(* owners that die with the mutex held.                                    *)
LaunchIsSerialized ==
    \A c \in Clients : pc[c] \in {"probe", "await"} <=> mutex = c

(* Between two calls a text service shows the panel its own session has:   *)
(* every call that could leave the two apart gives up the pipe, and with   *)
(* it the session (PipeImeEngine.cpp:194-221).                             *)
CacheFollowsSession ==
    \A s \in Servers :
        peer[s] \in Clients /\ pc[peer[s]] = "idle" =>
            cache[peer[s]] = session[s].panel

(* What is typed in one application is never shown or committed in another,*)
(* although they use one server process one after the other: a connection  *)
(* starts with a session of its own (Fcitx5ImePipeShared.h:9-10).          *)
PanelsStayHome ==
    \A c \in Clients :
        /\ cache[c] \in {NoPanel, c}
        /\ \A i \in DOMAIN delivered[c] : delivered[c][i].by = c

(* No commit reaches a text service twice or out of order, over reconnects,*)
(* refused replies and deaths of either side: ServerPopCommit takes it     *)
(* from the queue before the reply is written, so it can be lost but not   *)
(* repeated (Fcitx5ImePipeServerMain.cpp:218-233).                         *)
CommitsDeliveredOnce ==
    \A c \in Clients : \A i, j \in DOMAIN delivered[c] :
        i < j => delivered[c][i].n < delivered[c][j].n

(* The session a client is connected to. *)
sessionOf(c) ==
    IF \E s \in Servers : peer[s] = c
    THEN session[CHOOSE s \in Servers : peer[s] = c]
    ELSE EmptySession

Engines == [c \in Clients |-> sessionOf(c)]
Lost == {c \in Clients : pipe[c] = "broken"}

One == INSTANCE OneSession WITH
    call <- op,
    engine <- Engines,
    lost <- Lost,
    answer <- reply,
    shown <- cache,
    given <- delivered

(* A text service may take the engine at the other end of its pipe for one *)
(* of its own: each call is carried out once at most, in the session the   *)
(* earlier calls built up, and answered as such; when that session is gone *)
(* the next call fails, instead of going on in a fresh one, and a call     *)
(* that fails leaves no session behind (PipeImeEngine.cpp:179-222).        *)
KeepsOneSession == One!Spec

(* Every call of a text service returns: the thread that makes it is the   *)
(* application's UI thread, and it waits for a mutex, for a process to     *)
(* start, for a pipe and for a reply.                                      *)
EveryCallReturns == \A c \in Clients : pc[c] # "idle" ~> pc[c] = "idle"

Alone(c) == \A d \in Clients \ {c} : pc[d] = "idle" /\ pipe[d] = "none"

(* One call is enough to get a pipe, from whatever state another host left *)
(* the server in, as long as that host is gone: the probes that use up     *)
(* pipe instances do not keep the client from getting one itself           *)
(* (PipeImeEngine.cpp:113-119, 147-154, 164-176).                          *)
LoneHostConnects ==
    \A c \in Clients : pc[c] = "connect" ~> pipe[c] = "open" \/ ~Alone(c)

(* A host is not turned away by a server that is up: "One shared fcitx5    *)
(* Instance for Fcitx5ImePipeServer; each pipe connection uses a separate  *)
(* Fcitx5ImeEngine / TsfInputContext bound to this core"                   *)
(* (Fcitx5ImePipeShared.h:9-10).                                           *)
NoHostIsTurnedAway ==
    [][\A c \in Clients : pc[c] = "connect" /\ pc'[c] = "idle" =>
          \A s \in Servers : ~(spc[s] = "serve" /\ peer[s] \in Clients)]_vars

=============================================================================
