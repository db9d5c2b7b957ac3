# TLA+ models of fcitx5-windows

fcitx5-windows is a text service (TIP) for the Text Services Framework of
Windows. Its DLL is loaded into every application; it takes the keyboard
events of the application, gives them to an fcitx5 engine, and writes what the
engine commits into the application's document. The engine runs in the DLL or,
normally, in one server process behind a named pipe. This directory holds TLA+
modules of the parts of the program in which the order of events decides
whether it works, TLC configurations that check them, and proofs of the most
important results with TLAPS.

`PROJECT.json` is the index: components, runs, mutants (a plausible bug for
every property, which TLC must find), the map from definitions to source lines,
findings, hazards and theorems.

## Inventory of the system

| Part | Source | State | Operations | Modelled by |
|---|---|---|---|---|
| Key event sink | `win32/tsf/KeyEventSink.cpp` | Shift-tap gesture, pending key | `OnTestKeyDown/Up`, `OnKeyDown/Up` | `KeyEventSink`, `TextService` |
| Edit sessions | `win32/tsf/EditSession.cpp`, `CompositionSink.cpp`, `TextEditSink.cpp`, `ThreadMgrEventSink.cpp` | composition and its range, pending key, pick and tray request, sink context | `DoEditSession`, focus changes, termination of the composition | `TextService` |
| Engine interface, stub | `win32/tsf/ImeEngine.h`, `StubImeEngine.cpp` | preedit, candidates | the virtual functions of `ImeEngine` | interface in `TextService` |
| fcitx5 engine | `win32/tsf/Fcitx5ImeEngine.cpp`, `TsfInputContext.cpp` | panel, commit queue, input context, method groups | keys, picks, clear, activation, rebuild, group repair, hotkeys | `TextService` (panel, queue), `ImePipe` (session), `ImGroup` (groups) |
| Pipe client | `win32/ipc/PipeImeEngine.cpp` | pipe handle, cached snapshot, last drained commit | `transact` under every engine call | `ImePipe` |
| Pipe server | `win32/ipc/Fcitx5ImePipeServerMain.cpp`, `Fcitx5ImeIpcProtocol.cpp` | singleton mutex, pipe instance, session | `main`, `serveLoop`, `handleRequest` | `ImePipe` |
| Pipe codec | `win32/ipc/Fcitx5ImeIpcCodec.cpp` | none | encode, decode | planned |
| Tray and language bar | `win32/tsf/LangBarTray.cpp` | shared request files; shared tray window, its count, retry timer; deployment monitor | toggle, switch, status action, reload, menu, deploy | entry points in `TextService`, files in `SharedTray`, window and button in `TipDll`, deployment in `RimeDeploy` |
| Compartments | `win32/tsf/Compartment.cpp` | open and conversion compartments, event sinks | `OnChange`, the two sync functions | `SharedTray`, sinks in `TipDll` |
| Lifecycle | `win32/tsf/TextInputProcessorEx.cpp`, `tsf.cpp` | sinks (the text edit sink too), button, window, references | `ActivateEx`, `Deactivate`, profile notifications, focus changes, `Release` | `TipDll` |
| DLL and registration | `win32/dll/` | reference count, class factory, registry | `DllGetClassObject`, factory, `DllRegisterServer`, `DllUnregisterServer` | `TipDll` |
| Candidate window | `win32/tsf/CandidateWindow.cpp`, `CandidateListUiElement.cpp` | window, WebView2, list shown, UI element | show, hide, pick, answers of WebView2 | `CandidateView`, promised by `CandidatePanel`; list and pick in `TextService` |
| Settings program | `win32/configui/` | profile and `pinyin.conf`, form | load, edit, save | its writes in `ImGroup`, `SharedTray`; the form is not modelled |
| Fcitx5.exe, scripts, installer, patches | `src/`, `scripts/`, `installer/`, `patches/` | none | | not modelled |

How they interact. An application's UI thread calls the text service (key
sink, edit session, focus, composition sink). The only other thread is the one of
the thread pool that reports the end of a Rime deployment.
Edit sessions are requested with `TF_ES_SYNC`, so they run inside the callback
that requests them, or are refused. The text service calls its engine through
`ImeEngine`; the pipe client turns every call into one request and one reply
and keeps a snapshot of the reply. Text services of different processes meet
in the pipe server, in two named mutexes, in the request files of the tray and
in the profile file, which the settings program writes too. Text services of
one process, each on its own thread, share the DLL count and one tray window.

What is hard in it, and the property a component owes:

- key sink: the host decides which callbacks it makes for a key. A tap of Shift
  toggles once; nothing else does.
- edit sessions: three copies of the user's input (engine, document, window)
  and seven kinds of callbacks that change them. The copies agree; no commit is
  lost, doubled or reordered without a reason that can be named.
- pipe: processes start, race and die. One engine process; no call hangs; no
  text crosses from one application to another.
- tray: files written by one process, polled by all and removed by whoever
  polls, with no lock. A request does not stay when it was served, is not
  forgotten by a throttle, and announces nothing that is not on disk.
- compartments: Windows is told the mode the text service is in, however it got
  there and whoever else wrote meanwhile.
- lifetime: objects, sinks, buttons, windows and counts that come and go with
  calls that fail half way. What is counted is what exists; what is gone is
  silent.
- input method groups: several programs that read once and overwrite whole
  files. The user can still switch to Chinese, and a switch is remembered.
- candidate window: a web page that starts asynchronously, or never. What is
  wanted is in the end what is seen.

## The modules

### `KeyEventSink`: the Shift-tap gesture

The variables `track`, `invalidated`, `togglePending` and `trackedKey` are the
sink's fields (wParam and scan code are one key). `down` is what `GetKeyState`
reads, `msg` is the key message the host is delivering and how far it is. The
host is free: for a message it calls the `OnTest` callback, the `On` callback
or both. After a test that did not claim the key it calls nothing more; after
one that did it may still drop the message (`HostDrops`), as nothing in TSF
forbids, and then what the test left behind stays. A message about a Shift need
not say which one (`known`): with a scan code of neither Shift key both have the
identity `UnknownShift`, and `otherShiftStillHeld` does not block the toggle
(`KeyEventSink.cpp:35-37`). Keys repeat, and the focus may move between any two
messages. `clean`, `due` and `moved` are history variables which say what a tap
is without looking at the gesture: a Shift pressed alone in a focused text
service, with no other key before its release. `alone` is the same for two
Shifts the messages do not tell apart, `late` remembers a tap whose claimed
release was dropped.

### `TextService`: engine, document, window

An action is a callback of the host, with the edit session that runs in it. The
record `ime` is what the three parties hold; the functions of `EditSession.cpp`
are operators from `ime` to `ime`, in the order the code calls them
(`runKeyEditSession` has one operator per kind of key). Free choices are what
the engine answers to a key (any panel, up to two commits, taken or not),
whether the host grants an edit session or a composition, which commits the
application refuses to take (`refused`, one of `Refusals`: a failing
`QueryInterface`, `InsertTextAtSelection` or `SetText`), when the focus moves,
when the user clicks a candidate, when the tray acts, and when the pipe server
dies. Preedits and lists are tokens; a commit is its number, so that order and
loss can be told. `cleared`, `missed` and `gone` record where a commit went that
was not written; `last` is the last callback, and whether it claimed its key or,
for a toggle, whether its edit session was granted.

What the user can type is not modelled character by character, nor where the
candidate window stands. Key releases that go to the engine behave as
deliveries. Keys are grouped by the branch of `runKeyEditSession` they take.

### `ImePipe` (and `MCImePipe` for TLC): clients and servers of the pipe

Clients (`PipeImeEngine`) and server processes are program counters over the
blocking steps of `transact` and of `main`/`serveLoop`: `connect`, `lock`,
`probe`, `await`, `send`, `read`; `start`, `refused`, `init`, `create`,
`listen`, `serve`. `peer[s]` is the other end of the server's pipe instance,
which may be a probe that hung up at once. A request is one of three kinds, by
what could go wrong with it: a key (changes the panel, may queue a commit),
`Clear`, and `ServerPopCommit` (takes a commit). With `Faults`, hosts and
servers die at any step, and sessions, process creation and replies fail. A
reply that was written can be read after the server's death; a request that was
not read is lost with it.

`Prompt` is a timing assumption, used in two runs and in no proof: a sleep of
the client (50 ms after launching, 40 to 280 ms between attempts) outlasts the
steps the server has pending.

`TextService` abstracts the pipe to "up", "down", and "up with a new session";
`ImePipe` is where these transitions come from: `CacheFollowsSession` is what
lets `TextService` treat the cached snapshot as the engine's panel as long as
the session is the same one.

`OneSession` is the abstract specification of what `PipeImeEngine` promises a
text service: an engine of its own, one panel and one queue, which carries out a
call once at most and answers it or fails it. The engine may be lost at any time,
and then the call that is on, or the next one, fails; no call is answered by an
engine that took its place unnoticed. `KeepsOneSession` says that `ImePipe`
implements it. The mapping (`One`): the engine of a client is the session of the
server whose `peer` it is, and a new engine where there is none; it has lost its
engine (`Lost`) while its pipe is broken and it has not closed it; call, answer,
panel shown and commits given are the client's `op`, `reply`, `cache` and
`delivered`. Mutex, probes, process creation and the servers' own steps are
stutters.

### `SharedTray`: mode, compartments and request files

A process is an application or a shell host (Explorer and its kin show the tray
but edit no text). `host[h]` is its private state: the mode
(`chineseActive_`) and the two compartments as the thread manager has them.
`modeFile` and `reloadFile` are the two request files, which hold a version so
that an old request can be told from a new one. Every access to a file is a
step, so a poll is a small program: `poll[h].pc` goes from reading the mode
request over removing it, reading the reload request and removing that, to the
check with which a test callback claims its key, or to the rest of `Deactivate`.
A poll that applies a request inside an edit session announces the mode after
the file was removed (`granted`), one without a session before. `throttle` is
the clock of the focus polls, as far as anything depends on it.
Compartment notifications come at any time, from a foreign writer or late.
`saveAll` of the settings program is two steps: configuration, then request.

### `TipDll`: one process with the DLL

`kind` says what the process is, which selects the branches the code selects by
the name of the executable: a shell host takes the minimal activation, pins the
DLL and shows an icon; an application shows none and keeps a hidden window for
messages; `regsvr32` registers. A text service is a record `tsf[s]` on a thread
of its own; `tray` holds the globals of `LangBarTray.cpp`. The functions on the
tray window are operators that return the set of states a call may end in,
since almost every call of Windows may fail.

`sinks` are the sinks whose cookie the text service holds: of the thread manager,
the keys, the compartments, the profile notifications, and the text edit sink of
the document with the focus, which every `OnSetFocus` takes back and advises
anew. Unadvising is a query for the source and a call, either of which may fail;
the cookie is dropped all the same. What TSF then still holds is in `orphans`:
it may call the text service after `Deactivate`, and an orphaned thread manager
sink brings the text edit sink back at the next focus change. `SourceGoes` ends
it. `Release` is the last one: a sink TSF holds has a reference, so a text
service with a sink or an orphan is not destroyed.

A thread may end without `Deactivate` having removed the window it made; the
window is destroyed with it and the next `acquireSharedShellTrayHost` finds a
dead handle. Registration is one step per call of `DllRegisterServer`, each with
its partial results, cut off at any point and started over any remains. The code
does not look at the result of `RegDeleteTreeA`: a deletion may be denied or stop
half way (`Remains`), and `undeleted` records that the last one did.

### `RimeDeploy`: two threads and a map without a lock

The thread of the menu starts `rime_deployer.exe`, enters it in
`g_rimeDeployMonitors` and registers a wait; a thread of the pool runs
`rimeDeployWaitCallback` when the process has ended. Nothing orders the two, so
every access to what they share is a step of its own: insert, register, store the
handle of the wait; look up, erase, post. The callback may do all of its steps
before the handle is stored. The store then has nowhere to go: in the code it is
a write to a monitor that was deleted, in the model it has no effect, and the
wait handle is never released. What other damage such a write, or two operations
inside the map at once, can do is undefined and not modelled; operations on the
map are atomic. One thread launches at a time: the user chooses one entry of one
menu.

`MCTipDll` instantiates `TipDll` and `RimeDeploy` side by side for TLC. They share
no state, so that in a behaviour one of them moves and the other stays as it
starts; a behaviour of deployments ends when `MaxDeploys` have been made
(`CHECK_DEADLOCK FALSE`).

### `ImGroup` (and `MCImGroup`): input method groups and the profile file

An application has an fcitx instance of its own or a session of the pipe server,
whose instance all sessions share. An instance has groups; a context has its own
active flag and, after a local switch, its own input method. The manager of the
fcitx library is external: `setCurrentInputMethod` follows the rules that the
comments in `ensurePortableImGroupHasEntries` state (the first method of a group
is the inactive slot, a group of one cannot be switched). The repair, the
activation order and the switch are translated from the code. `package` is what
is installed. `writer` and `chosen` are history: who wrote the profile last, and
which default a switch left in it. A switch to an input method that the current
group does not list changes nothing, but the code reports success and saves the
groups when that input method is in use nevertheless; `chosen` does not count it
as a switch, and nothing promises that it reaches anyone.

### `CandidateView` and `CandidatePanel` (and `MCCandidateView`)

`CandidatePanel` is the abstract panel: the list wanted, whether there is a panel
and whether it is open, what is seen, whether the application was told of a list
(`listed`), and the pick waiting. An open panel may show an old list or an empty
box, but a list that stays wanted in an open panel is seen in the end, if nothing
on the computer covers the panel for good (`able`). Only `Show` and
`DisplayChanges` open it. `Hide` gives the list up, and the element with it;
when the window is destroyed by someone else, list and element stay.

`CandidateView` has the window, the state `webView_` (object tried, controller,
visibility, `pageReady`), the calls under way, and for each controller its page
with the scripts and events between them. `show` starts everything; environment
and controller answer later or never, the page loads or does not, `onload` and
`NavigationCompleted` may both come, and come for a page that has been replaced.
`engine` says where WebView2 stops on this computer:

| `engine` | What happens |
|---|---|
| "noLoader", "noEnvironment", "noController" | there is no controller; the window paints the list |
| "noWebview" | `get_CoreWebView2` fails (`CandidateWindow.cpp:868-873`): the controller is stored, visible, and never given the visibility of the window, so that it covers the list until the first hide; rows do not answer clicks |
| "noNavigation" | `Navigate` fails at once: the controller shows an empty transparent page over the painted list; rows do not answer clicks |
| "noPage" | the page fails to load and WebView2's own error page covers the list |
| "works" | the page loads |

The refinement is `Panel`: wanted is `cands`, the panel is the window, and seen
(`Seen`) is nothing while the window is hidden or covered (`Covered`), what the
window paints until the page is ready, and what the page's last script showed
from then on. `able` excludes "noWebview" and "noPage".

## The runs

| Run | Shows | Bounds | Distinct states |
|---|---|---|---|
| `keysink` | gesture sane; only clean taps toggle; every clean tap of a host that does not test its release toggles | 2 Shift keys, 1 chord, 1 letter | 20,252 |
| `keysink_tested_host` | (violation) a tap whose release was tested is lost | same | |
| `text_session` | the three copies agree; commits in order; English mode starts clean; a waiting click hits the list it was made on | 2 contexts, 2 preedits, 2 lists, 2 commits, the application takes every text | 201,284 |
| `text_pipe` | with a dying server, empty commits, refused compositions: every commit has one fate and is missed only for a reason, a key that reached no engine is not eaten | 1 context, 2 preedits, 2 lists, 2 commits, none, the first or the second refused by the application | 676,879 |
| `pipe_faults` | one engine, one launcher, cache equals session, nothing crosses applications, no commit twice; implements `OneSession` | 2 clients, 2 server processes, 2 attempts, 1 probe, 2 commits | 899,550 (with symmetry) |
| `pipe_calls` | every call returns | 2 clients, 2 servers, 2 attempts, 0 probes, faults | about 190,000 |
| `pipe_prompt` | a call made alone connects | 2 clients, 2 servers, no faults, `Prompt` | 7,155 |
| `pipe_second_host` | (violation) a second application is turned away | same | |
| `shared_tray` | compartments follow the mode; a served request is gone; a removed reload request was read after its configuration; no throttled request is left behind | 2 applications (symmetric), 1 shell host, 2 mode requests, 1 save | about 900,000 (with symmetry) |
| `tip_dll` | (`MCTipDll`) DLL count, window holders, silence after deactivation, all-or-nothing registration, deployments end | 2 text services, 2 windows, factory count 1, window count 3, 2 profiles, 2 categories, 2 sinks that may stay, 2 deployments | 444,653 |
| `im_group` | Chinese can be switched on; switches reach new applications; no context without instance | 1 in-process application, 1 session, 3 input methods, 4 installations, 1 write by the settings program | about 354,000 |
| `candidate_view` | implements `CandidatePanel`, with its liveness | lists of 2 and 1 rows, 2 windows, 2 controllers, 1 script waiting | 445,837 |

Why the bounds are enough. The gesture compares keys for equality and asks
whether *another* Shift or *some* chord is held; two Shift keys, one chord and
one letter give every combination of answers. Two contexts let a composition
stay behind in one while the focus is in the other. Two preedits and two lists
tell an old from a new panel. Two commits can be reordered, split over two keys,
and one of them can be cleared while the other is written, or refused while the
other is taken (`Refusals`, in the run `text_pipe`). That a commit is missed
when the composition stayed behind is checked there with one context that loses
the focus, and proved for any number of them. In `ImePipe` two clients can race
for every resource, and one server can start while the other serves or ends; one
that has ended is free to be started again. `MaxAttempts` is 8 and `MaxProbes`
100 in the code: two attempts have a first one, which launches, and a last one;
a loop that is run through once or not at all has its entry, its repetition and
its exit. `MaxCommits` bounds the behaviours of both models, nothing in the
code. The proofs hold for all values of these constants.

In `SharedTray` a request can be read by one application while another removes
it and a third process replaces it: two applications, a shell host and two
requests are that case; one save is enough to be ahead of or behind a poll. In
`TipDll` two text services can hold a window in both orders and leave in both, a
second window follows one that died, and 2 categories and 2 profiles have a
middle. `MaxHolds` bounds the count a shell host never brings back to zero;
`MaxFactory` of 1 still has an object outlive the factory that made it.
`MayStay` names the sinks whose unadvising may fail in the run: the thread
manager's, which advises others, and the profiles', which adds a button; the
proof has no such restriction. In `RimeDeploy` the second of two deployments is
refused while the first one's monitor stands. `ImGroup` has one engine of each
kind, which are at the same time the stale and the fresh copy for each other;
the texts are an empty profile and one with every defect the repair knows
(pinyin first, no default, a group without pinyin), and the four packages are
those with and without the keyboard addon, pinyin, a loadable rime and
`FCITX_TS_IM`. In `CandidateView` a second window or a second controller takes
the place of a first; a row that one list has and the other has not tells a
stale pick from a good one. `MaxScripts` keeps a show waiting while the page is
busy; the next script is the same step again.

Fairness. In `ImePipe`, `FairSpec` has weak fairness
for the thread of a client while it is in a call, and for each server process:
the scheduler of the system runs every thread that can go on. Nothing is
assumed of the user, of deaths, or of which thread wins a race. A call that
waits for a reply is woken by the reply or by the end of the pipe. That the
engine itself comes back from a key is part of the assumption on the server.
In `RimeDeploy` the thread that launches goes on, and the thread pool runs the
callback of a wait that has been satisfied and goes on with it; nothing makes the
deployment exit or the user act. In
`CandidateView` WebView2 finishes a page it loads (where it fails, `engine` is
"noPage", nothing is owed), the message loop delivers `NavigationCompleted`, and
scripts run; the environment and the controller may never come, and nothing is
assumed of `onload`, which the page's bridge may miss. The other modules state no
fairness: their callbacks return at once and owe nothing later.

## What the violations show

- `EveryTapToggles`: `TODO.md:60` promises that the callbacks `OnTest*` and
  `On*` for one key are deduplicated. They are for presses. For a release,
  `OnTestKeyUp` computes the pending toggle and resets the gesture;
  `OnKeyUp` calls `trackShiftToggleKeyUp` again, which overwrites the pending
  toggle with what the empty gesture gives (`KeyEventSink.cpp:108`). A host
  that calls both does not toggle.
- `NoHostIsTurnedAway`: `Fcitx5ImePipeShared.h:9-10` speaks of a session for
  each pipe connection; `serveLoop` serves one connection at a time and the
  client keeps its connection. A second application gets no pipe as long as the
  first one holds its own; if that happens when its text service starts, it
  uses the stub engine from then on (`tsf.cpp:26-40`).

## Behaviour the models contain and no property forbids

These are facts about the code that a reader of the properties should know.

- A toggle `OnTestKeyUp` has announced (`KeyEventSink.cpp:243`) stays announced
  when the host drops the message. The release of the next plain key then toggles
  (line 253), unless another Shift release or a deactivation comes first.
  `ToggleOnlyAfterCleanTap` names this case (`late`), and says that it happens
  once.
- Two Shifts pressed one after the other without scan codes are one key for the
  sink: the first release toggles, though the other is held.
- A text the application refuses is lost: `endCompositionCommit` has no result,
  and the engine has given the commit away (`EditSession.cpp:860-867`).
- `afterFcitxEngineKey` does not close the window of an empty panel when there
  is no composition (`EditSession.cpp:924-927`). It can get there after a
  Backspace that commits and leaves a preedit, or after a refused composition;
  `WindowHasComposition` and `DocumentFollowsPanel` are checked with
  compositions that start and Backspaces that do not both commit and leave a
  preedit, an assumption about the input methods behind the engine.
- Three paths clear the engine while commits may be queued: Backspace that
  empties the preedit, Return over a bare preedit, Shift with a digit.
  `FreshCommitIsWritten` says there is no fourth.
- A status action from the tray does not drain or refresh
  (`EditSession.cpp:1423-1436`).
- With the pipe down the cached candidates stay; Digit, Space and Return commit
  the cached text, every time they are pressed, and Up and Down are claimed.
  `UnreachedKeyNotEaten` is about the letter and Backspace paths, the ones the
  comment at `ImeEngine.h:50` is attached to.
- Request files (`SharedTray`). Read, apply and remove are not one step: a
  request written in between is removed unread. The first application that polls
  takes the request, so the others keep their mode and their configuration. A
  reload request written while a host reloads is lost with the file. A reload the
  engine refuses stays pending and claims keys in the test callbacks. A file is
  truncated before it is written; a reader in between sees no request. The
  shuangpin menu of the tray reloads only its own process.
- `DllCanUnloadNow` returns `dllRefCount == 0` as an `HRESULT`
  (`dll/main.cpp:80`): 1 is `S_FALSE` and 0 is `S_OK`, so it denies the unload
  when nothing is in use and allows it while objects live. `TipDll` shows that the
  count itself is right; what the host does with the answer is not modelled.
- `recreateShellTrayIcon` returns when the text service has a language bar
  button, which it has from its activation on (`LangBarTray.cpp:2155`): neither
  the retry timer nor `TaskbarCreated` adds the icon again.
- A shell host acquires the tray window twice and releases it once; the window
  stays, and its user data point to a text service that may be deactivated or
  gone. In an application the same happens to the user data when the last to
  acquire leaves first. `TipDll` models messages only while the object is alive.
- A deployment monitor does not count in the DLL; each process has monitors of
  its own. The orphan of a refused language bar button keeps its pointer to the
  text service.
- `DllRegisterServer` looks at no deletion. Called without the rights to delete
  over an existing registration, it fails and leaves that registration whole;
  stale values of an older build survive the same way. Sinks that could not be
  unadvised stay with TSF, which may call the inactive text service.
- When the callback of a deployment runs before its wait handle is stored, the
  handle is lost, and the store writes to a deleted monitor.
- When an in-process rebuild throws, `activateProfileInputMethod` goes on with the
  instance it no longer has (`Fcitx5ImeEngine.cpp:1406-1414`): the model ends
  the process. A session whose rebuild throws has no context until it ends. A
  rebuild for a broken addon switches although the call says it failed.
- Only the current group is repaired and only at the start of a context; a group
  hotkey leads to a group nobody repaired. `ChineseCanBeSwitchedOn` asks for one
  group of the engine in which Chinese can be switched on. Engines and the
  settings program overwrite each other's profile; `TODO.md` admits the race. The
  order in which an engine tries input methods has pinyin before the list
  (`Fcitx5ImeEngine.cpp:894`); `TODO.md:24` lists it without.
- A pick of the inactive slot reaches only the context it was made in.
- `WM_DPICHANGED` shows a hidden candidate window (`layoutAndPaint`), with an
  empty box or the page's old list: the action `DisplayChanges` of
  `CandidatePanel`, which is why nothing promises that no list outlives its hide.
  A click on a row of an older list picks the row of that number in the present
  one. The table of `CandidateView` says where a controller covers
  the list or takes its clicks.
- A commit is also lost when the composition stayed in a context that has lost the
  focus (`CommitNeedsNoComposition` names the three cases).

## What is proved

Seven modules hold the proofs. They hold for every value of the constants; the
runs show the same properties on small instances, and the inductive invariants
were model-checked as invariants of the same instances before they were proved.

### `ImePipeProofs`

The only assumption is `ImePipeAssumption`: the model values differ from each
other and the bounds are natural numbers, `MaxAttempts` at least 2 (the code has
8). `Faults` and `Prompt` may be either; nothing is assumed of fairness.

| Theorem | Property | Invariant |
|---|---|---|
| `TypeCorrect` | `TypeOK` | itself |
| `LaunchSerialized` | `LaunchIsSerialized` | itself, over `TypeOK` |
| `SingleEngine` | `OneEngine` | `SingletonInv` |
| `PanelsHome` | `PanelsStayHome` | `HomeInv` |
| `CacheCurrent` | `CacheFollowsSession` | `PipeInv` |
| `CommitsOnce` | `CommitsDeliveredOnce` | `OrderInv`, over `PipeInv` |
| `OneSessionKept` | `KeepsOneSession` | `SessionInv`, over `PipeInv` |

- `OneEngine` alone is not inductive: a second process must not find
  `handles = {}`. `SingletonInv` adds that a process holds a handle exactly from
  `CreateMutex` until it ends, which is the reason why the code never closes it.
- What arrives at a client is in transit first. `HomeInv` says of sessions
  (`SessionsHome`) and of waiting replies (`RepliesHome`) what
  `PanelsStayHome` says of clients. A session's owner is its `peer`; when the
  peer hangs up, what the session holds is nobody's until `resetSession`.
- `PipeInv` says why a cache cannot be behind its session: a client has one
  pipe (`PeerIsUnique`) and it is open (`PeerIsOpen`), it has none while it
  looks for one (`NoPipeYet`), a session is new when its client makes the first
  call (`FirstCall`), and a reply that waits carries the panel of the session
  (`ReplyIsCurrent`). Every step that could break the last one closes the pipe.
- Commits are numbered as they are made. `OrderInv` puts what a client got, the
  reply that waits for it and the queue of its session in one order: each is
  younger than what is nearer to the client. `ServerPopCommit` moves a commit
  forward, every failure drops some, and no step moves one back. It needs
  `PeerIsUnique`: with two sessions for one client their queues would mix.
- `OneSessionKept` is the whole refinement, as `OneSession` has no fairness. A
  client gets a pipe without a step of the abstract engine only because the
  session behind it is empty: `SessionInv` says that a server has a session while
  it serves only. `ConnectionEnds` covers the three ways a server ends a
  connection (an engine is lost), `PipeGone` the ways a client does (it notices),
  `ServeStep` the request carried out; `KeepsEngine` is why nobody else's engine
  changes, and rests on `PeerIsUnique`.

### `KeyEventSinkProofs`

The assumption is `KeysAssumption`: Shift keys, chord keys and other keys are
disjoint, and the model values are no keys and no messages. The theorems
`GestureTypes`, `TrackedIsHeld`, `CleanTapOnly` and `UntestedTap` state the four
properties of the run `keysink` for any keyboard and any host. All rest on
`GestureInv`. What the sink believes (`track`, `invalidated`, `trackedKey`) and
what is true of the tap (`clean`, `due`) agree only between messages; while a
message is being delivered the sink may have seen it, not yet, or twice. The
conjuncts say for each stage what the sink still has to learn: `FreshInv` for a
press it has not seen, `TapInv` for a gesture that would toggle, `CleanInv` for
a clean hold, `AloneInv` for Shifts that look alike, `DueInv` for the release
that ends one, `HoldInv` and `MsgInv` for the keyboard and the pending toggle:
it outlives its message only as `late` (`DropStep`). `CleanTapOnly` and
`UntestedTap` are action properties: their proofs show that each step from a
state with `GestureInv` satisfies them.

### `SharedTrayProofs`

The assumption is `SharedTrayAssumption`: applications are no shell hosts and
the bounds are natural numbers. There may be any number of either.

| Theorem | Property | Invariant |
|---|---|---|
| `TypeCorrect` | `TypeOK` | itself |
| `CompartmentFollows` | `CompartmentFollowsMode` | `ModeInv` |
| `ServedGone` | `ServedRequestIsGone` | `SeenInv`, `ReloadInv` |
| `ReloadSees` | `ReloadSeesItsConfig` | `ReloadInv` |
| `FocusedTaken` | `FocusedRequestIsTaken` | `FocusInv` |

- The mode and the compartment differ only inside the edit session a poll was
  granted; `ModeInv` says where that is, so that no other callback can begin
  there.
- A callback that goes on to its claim has either removed the request it read or
  lost it to another process; what is on the disk afterwards was written later.
  `SeenInv` and `ReloadInv` carry that through the steps in which others act.
- A save and its request are two writes. `ReloadInv` says that until the second
  no request for the new configuration can have been seen.
- `FocusInv` says what is due: an application that met a request in the throttled
  time has noted it, or is in the poll that will take it.

### `TipDllProofs`

The assumption is `TipDllAssumption`: the text services are a finite set, the
null user data is none of them, `MayStay` is a set of sinks (all of them, if one
likes), the bounds are natural numbers. The theorems
`TypeCorrect`, `CountsEveryObject`, `HolderCount`, `Silent` and `AllOrNothing`
state the five invariants of the run `tip_dll`.

- `LifeInv` orders the life of a text service: it is active only as an object,
  has a button only when it is active, a window only with a button, and, when it
  is not active, no sink but a text edit sink an orphaned thread manager sink has
  advised. `UnadvisedKeeps`, `EditKeeps` and `DeactivatedKeeps` say what the calls
  that take sinks back leave. `DeactivatedIsSilent` follows.
- A step changes one text service, so each count moves by at most one (`CountAt`);
  `CountInv` compares that with what the step did to `dllRefCount`.
- `WindowInv` numbers windows as they are made: a new window has a number nobody
  can hold yet, so after a dead window the count starts from one holder
  (`HolderJoins`). `Acquires`, `MessagesInit` and `IconInit` say what the nested
  calls that acquire the window return, `Uninit` what the one that gives it back
  does; in a shell host the second acquisition makes the count larger than the
  number of holders, never smaller.
- `RegInv` says what each call of `DllRegisterServer` finds. That it starts from
  nothing, where the deletion was not refused, is what makes the end independent of
  an earlier, interrupted one.

### `TextServiceProofs`

The assumption is `TextServiceAssumption`. All eleven properties of the two runs
are proved, for any contexts, preedits and lists and any number of commits.

| Theorem | Property | Hypotheses | Invariant |
|---|---|---|---|
| `TypeCorrect` | `TypeOK` | none | `IndInv` |
| `InOrder` | `CommitsInOrder` | none | `IndInv` |
| `OneFate` | `CommitsHaveOneFate` | none | `IndInv` |
| `NeedsNoComposition` | `CommitNeedsNoComposition` | none | `IndInv` |
| `UnreachedNotEaten` | `UnreachedKeyNotEaten` | none | `IndInv` |
| `EnglishStartsClean` | `EnglishModeStartsClean` | none | `IndInv` |
| `PickServed` | `PickServedOnItsList` | none | `ClickFindsItsList` |
| `ClaimedKeyDrains` | `HandledKeyDrains` | `~EmptyCommits` | `IndInv` |
| `FreshCommitWritten` | `FreshCommitIsWritten` | `~EmptyCommits` | `IndInv` |
| `DocumentFollows` | `DocumentFollowsPanel` | `Faultless` | `FitInv` |
| `WindowComposed` | `WindowHasComposition` | `Faultless` | `FitInv` |

The first seven hold with every fault the model has. The runs check some of
them without the faults and others with them, to keep the state spaces small;
the theorems need neither choice. `~EmptyCommits` is a fact about the engine: an
empty commit ends a drain, and what is queued behind it stays
(`drainCommitsAfterEngine`). `Faultless` is the setting of `TextService.cfg`:
compositions start, the engine is in the process, commits nothing empty and
nothing on a Backspace that leaves a preedit; edit sessions may be refused. The
section on behaviour no property forbids says what happens without it.

- The operators of the module are functions of the record `ime`, as the functions
  of `EditSession.cpp` are of the state they share. For each there is one lemma
  that says what it keeps: `Sound`, that commits are only moved (`Keeps`), that
  none is cleared (`Spares`), and where it drains, that the queue is empty after
  it. A path of `runKeyEditSession` is a composition of operators, and so is the
  proof about it.
- `Sound(s)` puts the commits in one order: what was written, then what is
  queued, each younger than the one before it, and the three ways to be lost
  beside them (`Parted`). A commit that is written is the head of the queue.
  `CommitsInOrder` and `CommitsHaveOneFate` are parts of it.
- `ClickFindsItsList` is about the time between a click that could not be served
  and the key that serves it: the list cannot have changed but by what
  `disturbed` records. It needs that every handler which changes the panel
  serves the click first or drops it.
- `FitInv` adds to `Sound` that the panel and the composition come and go
  together (`Fit`): when text is queued the panel is empty, a panel that is not
  empty has a composition, and so has a window.

### `CandidateViewProofs`

The assumption is `CandidateViewAssumption`: every list has a row, no pick is no
number, the bounds are natural numbers, at least one script. `TypeCorrect` states
`TypeOK`; `KeepsPanelSafety` states that the initial states of `CandidateView`
are initial states of `CandidatePanel`, and every step is a step of it or a
stutter, under the mapping of `Panel`. That is `KeepsPanelPromises` without its
liveness.

| Step of `CandidateView` | Step of `CandidatePanel` |
|---|---|
| `Show` | `Show`, which may fail to open a panel that is not there |
| `Hide` | `Hide` |
| `WindowDestroyed` | `WindowGoes` |
| `DpiChanged` | `DisplayChanges` |
| `ControllerCreated`, `PageLoads`, `PageFails`, `PageEvent`, `ScriptRuns`, `EnvironmentCreated` | `Repaint` of an open panel, else a stutter |
| `LButtonDown`, `SelectMessage` | `Pick`, or a stutter when the row does not exist |
| `ClickInPage` | stutter |
| `ServePick` | `Serve` |

The invariant `IndInv` says why a message of the page may be trusted with the
list of now: a click under way is in a window that is up, because the end of a
window removes the handlers of its page, and a window that is up and has a list
is on the screen. It also counts: each environment and each controller under
way was asked for by a window of its own.

### `ImGroupProofs`

The assumption is `ImGroupAssumption`: applications, sessions and the server are
different, finitely many other input methods, the empty name is none of them;
any installations, and any profiles the user may type.

| Theorem | Property | Invariant |
|---|---|---|
| `TypeCorrect` | `TypeOK` | `IndInv` |
| `SwitchedOn` | `ChineseCanBeSwitchedOn` | `IndInv` |
| `SwitchReaches` | `SwitchReachesNewApps` | `IndInv` |

- `RepairIs` says what `ensurePortableImGroupHasEntries` does to any group: it
  loses no input method, keeps a default, and where the keyboard and pinyin are
  installed it leaves pinyin in the list and not in the inactive slot
  (`Switchable`). Taking the keyboard out of a list to put it in front must not
  take anything else with it (`RemoveFirstIs`).
- `IndInv` says of every engine with a context, and of every profile an engine
  wrote, that *some* group is switchable: the group hotkey may leave another one
  in front, which nothing repairs. `ActivationKeeps` and
  `setCurrentInputMethodIs` carry that over activations and switches, with
  either outcome of a save. Contexts without it would be those of an instance
  that ended, so it also says that an open engine has its instance.
- The default a switch wrote is the default of the profile's first group, which
  lists it, and it is installed (`ProfileInv`). Loading keeps it whether or not
  the library drops unknown entries (`loadIs`), and `ActivationFollows` takes a
  new application from there to the input method: the empty name and
  `FCITX_TS_IM` come before it in the order and are skipped.
- `StartsOnly`: no other step gives an application without engine a context.

Load and activation are written with positions in a list (`knownOf`, the least
position of `activationOrder`) so that they can be reasoned about: a least
number, and the n-th element of a finite set of numbers (`Least`, `Nth`), can be
had from the library's theorems, recursion over a list cannot.

## What is only model-checked

- The liveness properties `EveryCallReturns` and `LoneHostConnects`: fairness
  and `ENABLED` are out of the prover's reach.
- `KeepsPanelPromises` and `DeployEnds` for the same reason: both contain
  liveness. `RimeDeploy` has no proofs.
- The two properties that fail, on the instances of their runs.

## What is not modelled, and why

- `Fcitx5.exe`, the scripts, the installer and the patches to upstream fcitx5:
  command lines and packaging without state that events could disturb. fcitx5
  itself and its input methods are external: the models let them answer anything
  the code is prepared for.
- The form of the settings program: its lists, the capture of a hotkey, and the
  global `config` file, which nothing else writes. Its writes to shared files are
  modelled.
- The menu of the tray (what it lists and how it is drawn) and the shuangpin
  scheme it rewrites; the third request file, `pending-tray-status-action.txt`,
  which no code of the repository writes.
- What is written into the registry, the GUIDs and `QueryInterface`.
- The font of the candidate window after a change of DPI until the next show.
- Failing writes of compartments; a request file that cannot be removed
  (`LangBarTray.cpp:492-508`, not looked at); a language bar that refuses to remove
  the button (`LangBarTray.cpp:1577-1588`).
- In `ImGroup`: a rebuild that makes an addon loadable and the global switch that
  follows it; a save that fails after a switch in the menu
  (`Fcitx5ImeEngine.cpp:1451` does not look at its result); the `save()` of
  `activateTrayStatusAction`, which changes no group.
- That Shift releases that toggle leave the engine without the release of the key
  (`KeyEventSink.cpp:253`): the modifier state is inside fcitx5.
- Positions, fonts, colours, HTML of the candidate window; formatting and
  logging everywhere.
- The bytes of a packet. In `ImePipe` a reply is usable or not; the framing is
  a subject of its own (below).
- The retry loop of a server whose `CreateNamedPipeW` fails: it sleeps and tries
  again, and nothing else of the server changes meanwhile.

## Plan

What is left, the most important first.

1. `IpcCodec` (`Fcitx5ImeIpcCodec.cpp`): lengths and bounds of the framing; a
   decoder accepts exactly what the encoder writes, over bounded packets.
