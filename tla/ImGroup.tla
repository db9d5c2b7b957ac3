-------------------------------- MODULE ImGroup --------------------------------
(***************************************************************************)
(* Which input method an engine types with: the input method groups of the *)
(* fcitx instances (win32/tsf/Fcitx5ImeEngine.cpp), the profile file they  *)
(* load and save, and the settings program that edits the same file        *)
(* (win32/configui/configui_main.cpp).                                     *)
(*                                                                         *)
(* An application either has an instance of its own or a session of the    *)
(* pipe server, whose sessions share one instance.  An instance reads the  *)
(* profile when it is made and never again; saving writes its groups over  *)
(* the file, whatever another program has written meanwhile.               *)
(*                                                                         *)
(* The input method manager of the fcitx library is external: a switch     *)
(* obeys the rules ensurePortableImGroupHasEntries states in its comments; *)
(* whether loading drops the entries of the profile that are not installed *)
(* is left open.  The current group is the first one.                      *)
(***************************************************************************)
EXTENDS Integers, Sequences, SequencesExt

CONSTANTS
    Apps,       \* applications with an engine of their own
    Sessions,   \* sessions of the pipe server
    Server,     \* the pipe server
    Others,     \* input methods other than keyboard-us and pinyin
    NoIM,       \* the empty name
    Packages,   \* what may be installed and configured: see PackageType
    Texts,      \* the profiles the user may type: sequences of groups
    MaxWrites   \* bound: times the settings program writes the profile

KeyboardUs == "keyboard-us"
Pinyin == "pinyin"
InputMethods == {KeyboardUs, Pinyin} \cup Others

(* known   the input methods that have an entry                            *)
(* broken  those of them whose addon does not load                         *)
(* env     FCITX_TS_IM                                                     *)
(* active  ActiveByDefault of the configuration                            *)
(* drops   loading a profile drops the entries that are not known          *)
PackageType == [known: SUBSET InputMethods, broken: SUBSET InputMethods,
                env: InputMethods \cup {NoIM}, active: BOOLEAN,
                drops: BOOLEAN]

Group == [list: Seq(InputMethods), def: InputMethods \cup {NoIM}]

ASSUME ImGroupAssumption ==
    /\ Apps \cap Sessions = {} /\ Server \notin Apps
    /\ IsFiniteSet(Others) /\ NoIM \notin InputMethods
    /\ Packages \subseteq PackageType
    /\ Texts \subseteq Seq(Group)
    /\ MaxWrites \in Nat

VARIABLES
    package,    \* what is installed: a member of Packages
    instance,   \* the fcitx instances: see Instance
    ctx,        \* the input context of each engine: see Context
    profile,    \* the profile file; <<>> when missing or empty
    ui,         \* the settings program: see Settings
    writer,     \* history: "engine" when an engine wrote the file last
    chosen      \* history: the default a successful switch has written to
                \* the file, when its group lists it; NoIM once something
                \* else has rewritten it

vars == <<package, instance, ctx, profile, ui, writer, chosen>>

Processes == Apps \cup {Server}
Contexts == Apps \cup Sessions
processOf(c) == IF c \in Apps THEN c ELSE Server

Instance == [up: BOOLEAN, groups: Seq(Group)]
NoInstance == [up |-> FALSE, groups |-> <<>>]

(* open    the engine object exists                                        *)
(* ic      its input context does                                          *)
(* active, local   the context's own state: see setCurrentInputMethod      *)
Context == [open: BOOLEAN, ic: BOOLEAN, active: BOOLEAN,
            local: InputMethods \cup {NoIM}]
NoContext == [open |-> FALSE, ic |-> FALSE, active |-> FALSE, local |-> NoIM]

(* text is the contents of editProfile, writes counts towards MaxWrites    *)
Settings == [pc: {"closed", "open", "writing"}, text: Seq(Group),
             writes: 0..MaxWrites]

-----------------------------------------------------------------------------
(* The input method manager.  A state e of it, as one context sees it, has *)
(* the groups and the active and local of the context.                     *)

EmptyGroup == [list |-> <<>>, def |-> NoIM]

(* The known input methods of a list, in its order.                        *)
knownOf(list) ==
    LET at == {i \in DOMAIN list : list[i] \in package.known}
        nth(n) == CHOOSE i \in at : Cardinality({j \in at : j <= i}) = n
    IN  [n \in 1..Cardinality(at) |-> list[nth(n)]]

load(text) ==
    IF text = <<>> THEN <<EmptyGroup>>
    ELSE IF ~package.drops THEN text
    ELSE [i \in DOMAIN text |-> [text[i] EXCEPT !.list = knownOf(@)]]

currentGroup(e) == Head(e.groups)

(* The first input method of a group is the inactive slot; a group of one  *)
(* has no other.                                                           *)
setCurrentInputMethod(e, im, local) ==
    LET g == currentGroup(e)
    IN  IF Len(g.list) < 2 \/ ~Contains(g.list, im) THEN e
        ELSE IF g.list[1] = im THEN [e EXCEPT !.active = FALSE]
        ELSE IF local THEN [e EXCEPT !.active = TRUE, !.local = im]
        ELSE [e EXCEPT !.active = TRUE, !.local = NoIM,
                       !.groups = <<[g EXCEPT !.def = im]>> \o Tail(@)]

inputMethod(e) ==
    LET g == currentGroup(e)
    IN  IF g.list = <<>> THEN NoIM
        ELSE IF ~e.active THEN g.list[1]
        ELSE IF e.local # NoIM THEN e.local
        ELSE g.def

-----------------------------------------------------------------------------
(* Fcitx5ImeEngine on top of it.                                           *)

LeavesPinyinFirst_ensurePortableImGroupHasEntries(g, first, known) ==
    LET entry(im) == IF im \in known THEN <<im>> ELSE <<>>
        missing(im) == IF Contains(g.list, im) THEN <<>> ELSE entry(im)
        standard == entry(KeyboardUs) \o entry(Pinyin)
        list == IF g.list # <<>>
                THEN missing(KeyboardUs) \o g.list \o missing(Pinyin)
                ELSE IF standard # <<>> THEN standard ELSE first
        def == IF list = <<>> \/ (g.list # <<>> /\ g.def # NoIM) THEN g.def
               ELSE IF Contains(list, Pinyin) THEN Pinyin
               ELSE IF g.list = <<>> THEN Last(list)
               ELSE list[1]
    IN  [list |-> list, def |-> def]

(* first stands for the first entries of the manager.                      *)
ensurePortableImGroupHasEntries(g, first, known) ==
    LET entry(im) == IF im \in known THEN <<im>> ELSE <<>>
        missing(im) == IF Contains(g.list, im) THEN <<>> ELSE entry(im)
        standard == entry(KeyboardUs) \o entry(Pinyin)
        list == IF g.list # <<>>
                THEN missing(KeyboardUs) \o g.list \o missing(Pinyin)
                ELSE IF standard # <<>> THEN standard ELSE first
        def == IF list = <<>> \/ (g.list # <<>> /\ g.def # NoIM) THEN g.def
               ELSE IF Contains(list, Pinyin) THEN Pinyin
               ELSE IF g.list = <<>> THEN Last(list)
               ELSE list[1]
        pinyinFirst == /\ list # <<>> /\ list[1] = Pinyin
                       /\ KeyboardUs \in known /\ Contains(list, KeyboardUs)
    IN  [list |-> IF pinyinFirst
                  THEN <<KeyboardUs>> \o RemoveFirst(list, KeyboardUs)
                  ELSE list,
         def |-> def]

(* Two of the entries, in any order, or all of them when there are fewer.  *)
FirstEntries(known) ==
    {s \in UNION {[1..n -> known] : n \in 0..2} :
        IsInjective(s) /\ (Len(s) < 2 => ToSet(s) = known)}

activationOrder(g, preferred) ==
    <<preferred, package.env, g.def, Pinyin>> \o g.list \o <<KeyboardUs>>

(* Repairs the group and takes the first input method of the order that    *)
(* has an entry, or any one.  A repaired group is saved at once.           *)
activatePreferredInputMethod(e, preferred, local) ==
    LET repaired == {ensurePortableImGroupHasEntries(currentGroup(e), first,
                                                     package.known) :
                     first \in FirstEntries(package.known)}
        order(g) == activationOrder(g, preferred)
        at(g) == {i \in DOMAIN order(g) : order(g)[i] \in package.known}
        picks(g) == IF at(g) = {} THEN package.known
                    ELSE {order(g)[i] : i \in {j \in at(g) :
                                                 \A k \in at(g) : j <= k}}
        Start(g) == [e EXCEPT !.groups = <<g>> \o Tail(@)]
    IN  UNION {{[to |-> f, save |-> IF g = currentGroup(e) THEN {}
                                    ELSE {Start(g).groups}] :
                f \in IF picks(g) = {} THEN {Start(g)}
                      ELSE {setCurrentInputMethod(Start(g), im, local) :
                            im \in picks(g)}} :
               g \in repaired}

(* What c sees of its instance.                                            *)
view(c) == [groups |-> instance[processOf(c)].groups,
            active |-> ctx[c].active, local |-> ctx[c].local]

NewContext(groups) ==
    [groups |-> groups, active |-> package.active, local |-> NoIM]

SetView(c, e) ==
    /\ instance' = [instance EXCEPT ![processOf(c)] =
                        [up |-> TRUE, groups |-> e.groups]]
    /\ ctx' = [ctx EXCEPT ![c] = [open |-> TRUE, ic |-> TRUE,
                                  active |-> e.active, local |-> e.local]]

(* An engine saves groups.                                                 *)
save(groups) ==
    LET g == Head(groups)
    IN  /\ profile' = groups
        /\ writer' = "engine"
        /\ chosen' = IF g.def = chosen /\ Contains(g.list, chosen)
                     THEN chosen ELSE NoIM

NotSaved == UNCHANGED <<profile, writer, chosen>>

(* The save of a repair may fail; nobody looks.                            *)
SaveRepair(r) == NotSaved \/ \E groups \in r.save : save(groups)

(* Every way the new context of a process may start: in-process engines    *)
(* switch for their context only, sessions of the pipe for all.            *)
Start(c, groups, preferred) ==
    \E r \in activatePreferredInputMethod(NewContext(groups), preferred,
                                          c \in Apps) :
        SetView(c, r.to) /\ SaveRepair(r)

-----------------------------------------------------------------------------
(* Engines come and go.                                                    *)

(* An engine that fails to start is replaced by the stub: no step.         *)
initWithInputMethod(a) ==
    /\ a \in Apps /\ ~ctx[a].open
    /\ Start(a, load(profile), NoIM)
    /\ UNCHANGED <<package, ui>>

PipeSharedInit ==
    /\ ~instance[Server].up
    /\ instance' = [instance EXCEPT ![Server] = [up |-> TRUE,
                                                 groups |-> load(profile)]]
    /\ UNCHANGED <<package, ctx, profile, ui, writer, chosen>>

initAsPipeSession(s) ==
    /\ s \in Sessions /\ ~ctx[s].open /\ instance[Server].up
    /\ Start(s, instance[Server].groups, NoIM)
    /\ UNCHANGED <<package, ui>>

(* The destructor, or the end of the application.                          *)
EngineEnds(c) ==
    /\ ctx[c].open
    /\ ctx' = [ctx EXCEPT ![c] = NoContext]
    /\ instance' = IF c \in Apps THEN [instance EXCEPT ![c] = NoInstance]
                                 ELSE instance
    /\ UNCHANGED <<package, profile, ui, writer, chosen>>

ServerEnds ==
    /\ instance[Server].up
    /\ instance' = [instance EXCEPT ![Server] = NoInstance]
    /\ ctx' = [c \in Contexts |-> IF c \in Sessions THEN NoContext ELSE ctx[c]]
    /\ UNCHANGED <<package, profile, ui, writer, chosen>>

-----------------------------------------------------------------------------
(* Switching.                                                              *)

KeepsContext_rebuildForInputMethod(c, im) ==
    \/ Start(c, IF c \in Apps THEN load(profile)
                ELSE instance[Server].groups, im)
    \/ /\ c \in Sessions
       /\ ctx' = [ctx EXCEPT ![c] = [NoContext EXCEPT !.open = TRUE]]
       /\ UNCHANGED instance /\ NotSaved
    \/ /\ c \in Apps
       /\ instance' = [instance EXCEPT ![c] = NoInstance]
       /\ UNCHANGED ctx /\ NotSaved

(* An application makes its instance anew, a session its context.  When    *)
(* that throws a session stays without context; an application is without  *)
(* instance, which the caller goes on to use: the process ends.            *)
rebuildForInputMethod(c, im) ==
    \/ Start(c, IF c \in Apps THEN load(profile)
                ELSE instance[Server].groups, im)
    \/ /\ c \in Sessions
       /\ ctx' = [ctx EXCEPT ![c] = [NoContext EXCEPT !.open = TRUE]]
       /\ UNCHANGED instance /\ NotSaved
    \/ /\ c \in Apps
       /\ ctx' = [ctx EXCEPT ![c] = NoContext]
       /\ instance' = [instance EXCEPT ![c] = NoInstance]
       /\ NotSaved

(* The addon of im does not load, nor after a rebuild, which has switched  *)
(* to im nevertheless.                                                     *)
ActivationRebuilds(c, im) ==
    /\ ctx[c].ic /\ im \in package.known \cap package.broken
    /\ rebuildForInputMethod(c, im)
    /\ UNCHANGED <<package, ui>>

LocalOnly_activateProfileInputMethod(c, im) ==
    LET e == setCurrentInputMethod(view(c), im, TRUE)
    IN  /\ ctx[c].ic /\ im \in package.known \ package.broken
        /\ SetView(c, e)
        /\ IF inputMethod(e) = im
           THEN /\ profile' = e.groups
                /\ writer' = "engine"
                /\ chosen' = IF /\ Contains(currentGroup(e).list, im)
                                /\ \/ currentGroup(e).def = im
                                   \/ currentGroup(e).list[1] # im
                             THEN im ELSE NoIM
           ELSE NotSaved
        /\ UNCHANGED <<package, ui>>

(* The tray switches for every context and for engines to come.  The menu  *)
(* it was picked from may be older than the group.                         *)
activateProfileInputMethod(c, im) ==
    LET e == setCurrentInputMethod(view(c), im, FALSE)
    IN  /\ ctx[c].ic /\ im \in package.known \ package.broken
        /\ SetView(c, e)
        /\ IF inputMethod(e) = im
           THEN /\ profile' = e.groups
                /\ writer' = "engine"
                /\ chosen' = IF /\ Contains(currentGroup(e).list, im)
                                /\ \/ currentGroup(e).def = im
                                   \/ currentGroup(e).list[1] # im
                             THEN im ELSE NoIM
           ELSE NotSaved
        /\ UNCHANGED <<package, ui>>

(* Hotkeys step through the group; a step that changes nothing is not      *)
(* taken as a hotkey.                                                      *)
EnumerateHotkey(c, step) ==
    LET list == currentGroup(view(c)).list
        next(i) == ((i - 1 + step) % Len(list)) + 1
    IN  /\ ctx[c].ic
        /\ \E i \in 1..Len(list) :
              LET e == setCurrentInputMethod(view(c), list[next(i)], FALSE)
              IN  /\ list[i] = inputMethod(view(c))
                  /\ inputMethod(e) # inputMethod(view(c))
                  /\ SetView(c, e) /\ save(e.groups)
        /\ UNCHANGED <<package, ui>>

(* Nothing repairs the group they lead to.                                 *)
GroupHotkey(c) ==
    LET groups == instance[processOf(c)].groups
    IN  /\ ctx[c].ic /\ Len(groups) >= 2
        /\ SetView(c, [view(c) EXCEPT !.groups = Tail(@) \o <<Head(@)>>])
        /\ save(Tail(groups) \o <<Head(groups)>>)
        /\ UNCHANGED <<package, ui>>

-----------------------------------------------------------------------------
(* The settings program.                                                   *)

SetUi(pc, text) ==
    /\ ui' = [ui EXCEPT !.pc = pc, !.text = text]
    /\ UNCHANGED <<package, instance, ctx>>

(* WM_CREATE and IDC_BTN_RELOAD                                            *)
syncControlsFromGc ==
    /\ ui.pc # "writing" /\ ui.writes < MaxWrites
    /\ SetUi("open", profile)
    /\ NotSaved

defaultPopularProfile ==
    <<[list |-> <<KeyboardUs, Pinyin>> \o SetToSeq(Others), def |-> Pinyin]>>

EditProfile ==
    /\ ui.pc = "open" /\ ui.writes < MaxWrites
    /\ \E text \in Texts \cup {defaultPopularProfile} : SetUi("open", text)
    /\ NotSaved

(* Opening the file for writing empties it ...                             *)
writeProfileUtf8 ==
    /\ ui.pc = "open" /\ ui.writes < MaxWrites
    /\ ui' = [ui EXCEPT !.pc = "writing", !.writes = @ + 1]
    /\ profile' = <<>> /\ writer' = "settings" /\ chosen' = NoIM
    /\ UNCHANGED <<package, instance, ctx>>

(* ... and the text follows.                                               *)
ProfileWritten ==
    /\ ui.pc = "writing"
    /\ SetUi("open", ui.text)
    /\ profile' = ui.text /\ writer' = "settings" /\ chosen' = NoIM

SettingsEnd == ui.pc # "closed" /\ SetUi("closed", <<>>) /\ NotSaved

-----------------------------------------------------------------------------
Init ==
    /\ package \in Packages
    /\ instance = [p \in Processes |-> NoInstance]
    /\ ctx = [c \in Contexts |-> NoContext]
    /\ profile \in Texts
    /\ ui = [pc |-> "closed", text |-> <<>>, writes |-> 0]
    /\ writer = "installer" /\ chosen = NoIM

Next ==
    \/ \E c \in Contexts :
          \/ initWithInputMethod(c)
          \/ initAsPipeSession(c)
          \/ EngineEnds(c)
          \/ \E im \in InputMethods :
                \/ ActivationRebuilds(c, im)
                \/ activateProfileInputMethod(c, im)
          \/ \E step \in {1, -1} : EnumerateHotkey(c, step)
          \/ GroupHotkey(c)
    \/ PipeSharedInit
    \/ ServerEnds
    \/ syncControlsFromGc
    \/ EditProfile
    \/ writeProfileUtf8
    \/ ProfileWritten
    \/ SettingsEnd

Spec == Init /\ [][Next]_vars

-----------------------------------------------------------------------------
(* The variables have the values they are declared to have, and no engine  *)
(* has a context whose instance is gone: every call of an engine that      *)
(* tests ic_ goes on to use both.                                          *)
TypeOK ==
    /\ package \in Packages
    /\ \A p \in Processes : instance[p].up \in BOOLEAN
    /\ \A c \in Contexts :
          /\ ctx[c] \in Context
          /\ ctx[c].ic => ctx[c].open
          /\ ctx[c].open => instance[processOf(c)].up
    /\ \A g \in ToSet(profile) \cup
                ToSet(ui.text) \cup
                UNION {ToSet(instance[p].groups) : p \in Processes} :
          /\ ToSet(g.list) \subseteq InputMethods
          /\ g.def \in InputMethods \cup {NoIM}
    /\ ui.pc \in {"closed", "open", "writing"} /\ ui.writes \in 0..MaxWrites
    /\ writer \in {"installer", "engine", "settings"}
    /\ chosen \in InputMethods \cup {NoIM}

(* A switch to pinyin takes effect in g, and not as the inactive slot.     *)
OffersPinyin(g) ==
    LET e == [groups |-> <<g>>, active |-> FALSE, local |-> NoIM]
        f == setCurrentInputMethod(e, Pinyin, FALSE)
    IN  f.active /\ inputMethod(f) = Pinyin

(* Where the keyboard and pinyin addons are installed, whatever profile    *)
(* the user has written, every engine with a context has a group in which  *)
(* Chinese can be switched on, and so has every profile an engine saved    *)
(* last: no stale copy of one process, group switch or half-written file   *)
(* leaves the user without it.                                             *)
ChineseCanBeSwitchedOn ==
    {KeyboardUs, Pinyin} \subseteq package.known =>
        /\ \A c \in Contexts : ctx[c].ic =>
              \E g \in ToSet(instance[processOf(c)].groups) : OffersPinyin(g)
        /\ writer = "engine" => \E g \in ToSet(profile) : OffersPinyin(g)

(* An application that starts after a successful switch elsewhere types    *)
(* with the input method the user picked, unless the profile has been      *)
(* rewritten meanwhile or FCITX_TS_IM is set: activateProfileInputMethod   *)
(* switches globally, and not only for its own context.  (The inactive     *)
(* slot is a state of one context; picking it reaches nobody else.  And a  *)
(* switch to an input method the group does not list changes nothing, even *)
(* when it is in use already and the switch thereby reported as done.)     *)
SwitchReachesNewApps ==
    [][\A a \in Apps :
         /\ ~ctx[a].open /\ ctx'[a].ic
         /\ chosen # NoIM /\ package.env \notin package.known
         => inputMethod(view(a))' = chosen]_vars
=============================================================================
