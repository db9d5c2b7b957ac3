----------------------------- MODULE TipDllProofs -----------------------------
(***************************************************************************)
(* The safety properties of TipDll, for any finite number of text services *)
(* and any bounds.                                                         *)
(***************************************************************************)
EXTENDS TipDll, FiniteSetTheorems, TLAPS

Alive == {s \in Services : tsf[s].alive}
Buttons == {s \in Services : tsf[s].button}
Holders(w) == {s \in Services : tsf[s].hwnd = w}
One(b) == IF b THEN 1 ELSE 0

(* Each step of a registration finds what the steps before it have left.   *)
(* A mark of an older build survives a refused deletion only.              *)
RegInv ==
    /\ regStep \in {"profiles", "categories"} => reg.server = "full"
    /\ regStep = "categories" => reg.profiles = 1..NProfiles
    /\ regStep \in {"server", "profiles", "categories"} =>
          (reg.stale => undeleted)

(* Only an object can be activated, and only an active one has sinks (a    *)
(* shell host no indispensable ones), a button, and with it a window.  The *)
(* one exception is the text edit sink, which an orphaned thread manager   *)
(* sink goes on advising.                                                  *)
Life(x) ==
    /\ x.mgr => x.alive
    /\ ~x.mgr =>
          /\ ~x.button
          /\ x.sinks \subseteq
                (IF "threadMgr" \in x.orphans THEN {"edit"} ELSE {})
    /\ kind = "shell" => x.sinks \cup x.orphans \subseteq OptionalSinks
    /\ x.hwnd # 0 => x.button
LifeInv == \A s \in Services : Life(tsf[s])

CountInv ==
    dllRefCount = Cardinality(Alive) + Cardinality(Buttons) + factoryRefs
                  + One(pinned)

(* Windows are numbered as they are made; the shared one has holders, and  *)
(* exists while the thread that made it lives.                             *)
WindowInv(t) ==
    /\ t.shared <= t.made
    /\ t.windows \subseteq 1..t.made
    /\ t.shared = 0 <=> t.refs = 0
    /\ t.shared # 0 /\ t.maker # NoService => t.shared \in t.windows

HolderInv ==
    /\ \A s \in Services : tsf[s].hwnd <= tray.made
    /\ tray.shared # 0 =>
          /\ tray.refs >= Cardinality(Holders(tray.shared))
          /\ kind = "app" => tray.refs = Cardinality(Holders(tray.shared))

-----------------------------------------------------------------------------
(* Counting: a set of text services that changes at s only.                *)
LEMMA CountAt ==
    ASSUME NEW A, A \subseteq Services, NEW B, B \subseteq Services,
           NEW s \in Services,
           \A g \in Services \ {s} : g \in A <=> g \in B
    PROVE  /\ Cardinality(A) \in Nat
           /\ Cardinality(B) = Cardinality(A) + One(s \in B) - One(s \in A)
<1>1. IsFiniteSet(A) /\ Cardinality(A) \in Nat
  BY TipDllAssumption, FS_Subset, FS_CardinalityType
<1>2. CASE s \in A /\ s \in B
  <2>1. A = B
    BY <1>2
  <2> QED
    BY <1>1, <1>2, <2>1 DEF One
<1>3. CASE s \notin A /\ s \notin B
  <2>1. A = B
    BY <1>3
  <2> QED
    BY <1>1, <1>3, <2>1 DEF One
<1>4. CASE s \notin A /\ s \in B
  <2>1. B = A \cup {s}
    BY <1>4
  <2>2. Cardinality(B) = Cardinality(A) + 1
    BY <1>1, <1>4, <2>1, FS_AddElement
  <2> QED
    BY <1>1, <1>4, <2>2 DEF One
<1>5. CASE s \in A /\ s \notin B
  <2>1. B = A \ {s}
    BY <1>5
  <2>2. Cardinality(B) = Cardinality(A) - 1
    BY <1>1, <1>5, <2>1, FS_RemoveElement
  <2> QED
    BY <1>1, <1>5, <2>2 DEF One
<1> QED
  BY <1>2, <1>3, <1>4, <1>5

LEMMA OneTsf ==
    ASSUME tsf \in [Services -> Tsf], NEW s \in Services, NEW x \in Tsf,
           tsf' = [tsf EXCEPT ![s] = x]
    PROVE  /\ tsf' \in [Services -> Tsf]
           /\ tsf'[s] = x
           /\ \A g \in Services \ {s} : tsf'[g] = tsf[g]
OBVIOUS

(* The count stays right when one text service changes and the count with  *)
(* it.                                                                     *)
LEMMA CountChanges ==
    ASSUME tsf \in [Services -> Tsf], NEW s \in Services, NEW x \in Tsf,
           tsf' = [tsf EXCEPT ![s] = x],
           CountInv, factoryRefs \in Nat, pinned \in BOOLEAN,
           UNCHANGED factoryRefs, pinned' \in BOOLEAN,
           dllRefCount' = dllRefCount + One(x.alive) - One(tsf[s].alive)
                          + One(x.button) - One(tsf[s].button)
                          + One(pinned') - One(pinned)
    PROVE  CountInv' /\ dllRefCount' \in Nat
<1>1. /\ tsf'[s] = x
      /\ \A g \in Services \ {s} : tsf'[g] = tsf[g]
  BY OneTsf
<1>2. /\ Cardinality(Alive) \in Nat
      /\ Cardinality(Alive') = Cardinality(Alive) + One(s \in Alive')
                               - One(s \in Alive)
  BY <1>1, CountAt DEF Alive
<1>3. /\ Cardinality(Buttons) \in Nat
      /\ Cardinality(Buttons') = Cardinality(Buttons) + One(s \in Buttons')
                                 - One(s \in Buttons)
  BY <1>1, CountAt DEF Buttons
<1>4. Cardinality(Alive') \in Nat /\ Cardinality(Buttons') \in Nat
  BY TipDllAssumption, FS_Subset, FS_CardinalityType DEF Alive, Buttons
<1>5. /\ s \in Alive' <=> x.alive
      /\ s \in Alive <=> tsf[s].alive
      /\ s \in Buttons' <=> x.button
      /\ s \in Buttons <=> tsf[s].button
  BY <1>1 DEF Alive, Buttons
<1> QED
  BY <1>2, <1>3, <1>4, <1>5 DEF CountInv, One

-----------------------------------------------------------------------------
(* The tray window.                                                        *)

(* Nothing but the icon differs.                                           *)
SameWindow(t, u) ==
    /\ u \in Tray
    /\ u.shared = t.shared /\ u.refs = t.refs
    /\ u.maker = t.maker /\ u.windows = t.windows /\ u.made = t.made

LEMMA IconOnly ==
    ASSUME NEW t \in Tray, NEW u,
           \/ u \in ensureShellTrayProcessIconLoaded(t)
           \/ u \in shellTrayNotifyAdd(t)
    PROVE  SameWindow(t, u)
<1>1. ASSUME NEW a \in BOOLEAN, NEW i \in BOOLEAN, NEW r \in BOOLEAN
      PROVE  /\ SameWindow(t, [t EXCEPT !.added = a])
             /\ SameWindow(t, [t EXCEPT !.icons = i])
             /\ SameWindow(t, [t EXCEPT !.retry = r])
  BY DEF SameWindow, Tray
<1>2. SameWindow(t, t)
  BY DEF SameWindow
<1> QED
  BY <1>1, <1>2 DEF ensureShellTrayProcessIconLoaded, shellTrayNotifyAdd

(* One call of acquireSharedShellTrayHost: it joins a window that exists,  *)
(* makes a new one, or is left without a shared window.                    *)
Joins(t, u, hwnd) ==
    /\ t.shared \in t.windows /\ u.shared = t.shared
    /\ u.refs = t.refs + 1 /\ u.made = t.made /\ hwnd = t.shared
Makes(t, u, hwnd) ==
    /\ u.shared = t.made + 1 /\ u.refs = 1 /\ u.made = t.made + 1
    /\ hwnd = u.shared
Fails(t, u) ==
    /\ t.shared \notin t.windows
    /\ u.shared = 0 /\ u.refs = 0 /\ u.made = t.made

LEMMA Acquires ==
    ASSUME NEW t \in Tray, WindowInv(t), t.refs <= MaxHolds,
           NEW hwnd \in 0..MaxWindows, NEW s \in Services,
           NEW r \in acquireSharedShellTrayHost(t, hwnd, s)
    PROVE  /\ r.tray \in Tray /\ WindowInv(r.tray)
           /\ r.hwnd \in 0..MaxWindows
           /\ \/ Joins(t, r.tray, r.hwnd) /\ r.tray.shared \in r.tray.windows
              \/ Makes(t, r.tray, r.hwnd) /\ r.tray.shared \in r.tray.windows
                 /\ t.shared \notin t.windows
              \/ Fails(t, r.tray) /\ r.hwnd = hwnd
<1> USE TipDllAssumption
<1>n. /\ t.shared \in Nat /\ t.made \in Nat /\ t.refs \in Nat
      /\ t.windows \subseteq Nat /\ t.shared \in 0..MaxWindows
      /\ t.made \in 0..MaxWindows
  BY DEF Tray
<1>1. CASE t.shared \in t.windows
  <2> DEFINE u == [t EXCEPT !.user = s, !.refs = @ + 1]
  <2>1. r = [tray |-> u, hwnd |-> t.shared]
    BY <1>1 DEF acquireSharedShellTrayHost
  <2>2. t.refs + 1 \in 0..(MaxHolds + 1)
    BY <1>n
  <2>3. u \in Tray
    BY <2>2 DEF Tray
  <2>4. /\ u.shared = t.shared /\ u.refs = t.refs + 1 /\ u.made = t.made
        /\ u.windows = t.windows /\ u.maker = t.maker
    BY DEF Tray
  <2>5. t.shared # 0
    BY <1>1, <1>n DEF WindowInv
  <2> HIDE DEF u
  <2> QED
    BY <1>1, <1>n, <2>1, <2>3, <2>4, <2>5 DEF Joins, WindowInv
<1>2. CASE t.shared \notin t.windows
  <2> DEFINE u == IF t.shared = 0 THEN t ELSE DropDeadWindow(t)
  <2>1. /\ u \in Tray /\ u.shared = 0 /\ u.refs = 0 /\ u.made = t.made
        /\ u.windows = t.windows
    <3>1. CASE t.shared = 0
      BY <3>1 DEF WindowInv
    <3>2. CASE t.shared # 0
      <4>1. 0 \in 0..MaxWindows /\ 0 \in 0..(MaxHolds + 1)
        OBVIOUS
      <4> QED
        BY <3>2, <4>1 DEF DropDeadWindow, Tray
    <3> QED
      BY <3>1, <3>2
  <2> HIDE DEF u
  <2>2. CASE r = [tray |-> u, hwnd |-> hwnd]
    BY <1>2, <1>n, <2>1, <2>2 DEF Fails, WindowInv
  <2>3. ASSUME NEW x \in {t.made + 1} \cap (1..MaxWindows),
               r = [tray |-> [u EXCEPT !.shared = x, !.refs = 1, !.user = s,
                                       !.maker = s, !.windows = @ \cup {x},
                                       !.made = x],
                    hwnd |-> x]
        PROVE  /\ r.tray \in Tray /\ WindowInv(r.tray)
               /\ r.hwnd \in 0..MaxWindows
               /\ Makes(t, r.tray, r.hwnd)
               /\ r.tray.shared \in r.tray.windows
    <3> DEFINE w == [u EXCEPT !.shared = x, !.refs = 1, !.user = s,
                              !.maker = s, !.windows = @ \cup {x},
                              !.made = x]
    <3>1. /\ x = t.made + 1 /\ x \in 1..MaxWindows /\ x \in 0..MaxWindows
          /\ 1 \in 0..(MaxHolds + 1)
      BY <2>3, <1>n
    <3>2. w \in Tray
      BY <2>1, <3>1 DEF Tray
    <3>3. /\ w.shared = x /\ w.refs = 1 /\ w.made = x /\ w.maker = s
          /\ w.windows = t.windows \cup {x}
      BY <2>1 DEF Tray
    <3> HIDE DEF w
    <3>4. t.windows \subseteq 1..t.made
      BY DEF WindowInv
    <3>5. w.windows \subseteq 1..x
      BY <1>n, <3>1, <3>3, <3>4
    <3>6. r = [tray |-> w, hwnd |-> x]
      BY <2>3 DEF w
    <3> QED
      BY <1>n, <3>1, <3>2, <3>3, <3>5, <3>6 DEF WindowInv, Makes
  <2> QED
    BY <1>2, <2>2, <2>3 DEF acquireSharedShellTrayHost, u
<1> QED
  BY <1>1, <1>2

(* What an activation makes of a text service without a window: it joins   *)
(* the shared window or holds a new one, counted once in an application;   *)
(* or it goes without, and no window is shared.                            *)
Activated(t, u, hwnd) ==
    /\ u \in Tray /\ WindowInv(u) /\ u.made >= t.made
    /\ hwnd \in 0..MaxWindows /\ hwnd = u.shared
    /\ \/ hwnd = 0
       \/ /\ hwnd = t.shared /\ hwnd # 0
          /\ u.refs >= t.refs + 1
          /\ kind = "app" => u.refs = t.refs + 1
       \/ /\ hwnd > t.made
          /\ u.refs >= 1
          /\ kind = "app" => u.refs = 1

LEMMA SameWindowInv ==
    ASSUME NEW t \in Tray, WindowInv(t), NEW u, SameWindow(t, u)
    PROVE  WindowInv(u)
BY DEF SameWindow, WindowInv

LEMMA AcquiresPair ==
    ASSUME NEW t, NEW hwnd, NEW s,
           NEW q \in acquireSharedShellTrayHost(t, hwnd, s), NEW u
    PROVE  /\ [q EXCEPT !.tray = u].tray = u
           /\ [q EXCEPT !.tray = u].hwnd = q.hwnd
<1>1. ASSUME NEW a, NEW b, q = [tray |-> a, hwnd |-> b]
      PROVE  /\ [q EXCEPT !.tray = u].tray = u
             /\ [q EXCEPT !.tray = u].hwnd = q.hwnd
  BY <1>1
<1>2. \E a, b : q = [tray |-> a, hwnd |-> b]
  BY DEF acquireSharedShellTrayHost
<1> QED
  BY <1>1, <1>2

LEMMA MessagesInit ==
    ASSUME NEW t \in Tray, WindowInv(t), t.refs < MaxHolds,
           NEW s \in Services,
           NEW r \in initShellTrayHostForMessages(t, 0, s)
    PROVE  /\ r.tray \in Tray /\ WindowInv(r.tray)
           /\ r.hwnd \in 0..MaxWindows
           /\ \/ Joins(t, r.tray, r.hwnd) /\ r.tray.shared \in r.tray.windows
              \/ Makes(t, r.tray, r.hwnd) /\ r.tray.shared \in r.tray.windows
                 /\ t.shared \notin t.windows
              \/ Fails(t, r.tray) /\ r.hwnd = 0
<1> USE TipDllAssumption
<1>0. t.refs <= MaxHolds /\ 0 \in 0..MaxWindows
  BY DEF Tray
<1>1. PICK q \in acquireSharedShellTrayHost(t, 0, s) :
          r \in IF q.hwnd = 0 THEN {q}
                ELSE {[q EXCEPT !.tray = u] :
                         u \in ensureShellTrayProcessIconLoaded(q.tray)}
  BY DEF initShellTrayHostForMessages
<1>2. /\ q.tray \in Tray /\ WindowInv(q.tray)
      /\ q.hwnd \in 0..MaxWindows
      /\ \/ Joins(t, q.tray, q.hwnd) /\ q.tray.shared \in q.tray.windows
         \/ Makes(t, q.tray, q.hwnd) /\ q.tray.shared \in q.tray.windows
            /\ t.shared \notin t.windows
         \/ Fails(t, q.tray) /\ q.hwnd = 0
  BY <1>0, <1>1, Acquires
<1>3. CASE r = q
  BY <1>2, <1>3
<1>4. ASSUME NEW u \in ensureShellTrayProcessIconLoaded(q.tray),
             r = [q EXCEPT !.tray = u]
      PROVE  r.tray = u /\ r.hwnd = q.hwnd
  BY <1>1, <1>4, AcquiresPair
<1>5. ASSUME NEW u \in ensureShellTrayProcessIconLoaded(q.tray),
             r.tray = u /\ r.hwnd = q.hwnd
      PROVE  /\ SameWindow(q.tray, r.tray) /\ WindowInv(r.tray)
             /\ r.hwnd = q.hwnd
  BY <1>2, <1>5, IconOnly, SameWindowInv
<1> QED
  BY <1>1, <1>2, <1>3, <1>4, <1>5 DEF SameWindow, Joins, Makes, Fails

LEMMA IconInit ==
    ASSUME NEW t \in Tray, WindowInv(t), t.refs <= MaxHolds,
           NEW hwnd \in 0..MaxWindows, NEW s \in Services,
           NEW r \in initShellTrayIcon(t, hwnd, s)
    PROVE  /\ r.tray \in Tray /\ WindowInv(r.tray)
           /\ r.hwnd \in 0..MaxWindows
           /\ \/ Joins(t, r.tray, r.hwnd)
              \/ Makes(t, r.tray, r.hwnd) /\ t.shared \notin t.windows
              \/ Fails(t, r.tray) /\ r.hwnd = hwnd
<1>1. PICK q \in acquireSharedShellTrayHost(t, hwnd, s) :
          r \in IF q.hwnd = 0 THEN {q}
                ELSE {[q EXCEPT !.tray = u] :
                        u \in UNION {IF v.icons /\ v.added THEN {v}
                                     ELSE shellTrayNotifyAdd(v) :
                              v \in ensureShellTrayProcessIconLoaded(q.tray)}}
  BY DEF initShellTrayIcon
<1>2. /\ q.tray \in Tray /\ WindowInv(q.tray)
      /\ q.hwnd \in 0..MaxWindows
      /\ \/ Joins(t, q.tray, q.hwnd)
         \/ Makes(t, q.tray, q.hwnd) /\ t.shared \notin t.windows
         \/ Fails(t, q.tray) /\ q.hwnd = hwnd
  BY <1>1, Acquires
<1>3. CASE r = q
  BY <1>2, <1>3
<1>4. ASSUME NEW v \in ensureShellTrayProcessIconLoaded(q.tray), NEW u,
             u = v \/ u \in shellTrayNotifyAdd(v),
             r = [q EXCEPT !.tray = u]
      PROVE  /\ SameWindow(q.tray, r.tray) /\ WindowInv(r.tray)
             /\ r.hwnd = q.hwnd
  <2>1. r.tray = u /\ r.hwnd = q.hwnd
    BY <1>1, <1>4, AcquiresPair
  <2>2. SameWindow(q.tray, v)
    BY <1>2, IconOnly
  <2>3. v \in Tray
    BY <2>2 DEF SameWindow
  <2>4. SameWindow(v, u)
    BY <1>4, <2>3, IconOnly DEF SameWindow
  <2>5. SameWindow(q.tray, u)
    BY <2>2, <2>4 DEF SameWindow
  <2> QED
    BY <1>2, <2>1, <2>5, SameWindowInv
<1> QED
  BY <1>1, <1>2, <1>3, <1>4 DEF SameWindow, Joins, Makes, Fails

LEMMA ActivationWindow ==
    ASSUME NEW t \in Tray, WindowInv(t), t.refs < MaxHolds,
           NEW s \in Services,
           NEW r \in initShellTrayHostForMessages(t, 0, s),
           NEW q \in IF kind = "shell"
                     THEN initShellTrayIcon(r.tray, r.hwnd, s) ELSE {r}
    PROVE  Activated(t, q.tray, q.hwnd)
<1> USE TipDllAssumption
<1>n. /\ t.shared \in Nat /\ t.made \in Nat /\ t.refs \in Nat
      /\ MaxHolds \in Nat
  BY DEF Tray
<1>1. /\ r.tray \in Tray /\ WindowInv(r.tray)
      /\ r.hwnd \in 0..MaxWindows
      /\ \/ Joins(t, r.tray, r.hwnd) /\ r.tray.shared \in r.tray.windows
         \/ Makes(t, r.tray, r.hwnd) /\ r.tray.shared \in r.tray.windows
            /\ t.shared \notin t.windows
         \/ Fails(t, r.tray) /\ r.hwnd = 0
  BY MessagesInit
<1>2. t.shared \in t.windows => t.shared # 0
  BY <1>n DEF WindowInv
<1>3. CASE q = r
  BY <1>n, <1>1, <1>2, <1>3 DEF Activated, Joins, Makes, Fails
<1>4. CASE kind = "shell" /\ q \in initShellTrayIcon(r.tray, r.hwnd, s)
  <2>1. r.tray.refs <= MaxHolds
    <3>1. CASE Joins(t, r.tray, r.hwnd)
      BY <1>n, <3>1 DEF Joins
    <3>2. CASE Makes(t, r.tray, r.hwnd)
      BY <1>n, <3>2 DEF Makes
    <3>3. CASE Fails(t, r.tray)
      BY <1>n, <3>3 DEF Fails
    <3> QED
      BY <1>1, <3>1, <3>2, <3>3
  <2>2. /\ q.tray \in Tray /\ WindowInv(q.tray)
        /\ q.hwnd \in 0..MaxWindows
        /\ \/ Joins(r.tray, q.tray, q.hwnd)
           \/ /\ Makes(r.tray, q.tray, q.hwnd)
              /\ r.tray.shared \notin r.tray.windows
           \/ Fails(r.tray, q.tray) /\ q.hwnd = r.hwnd
    BY <1>1, <1>4, <2>1, IconInit
  <2>3. kind # "app"
    BY <1>4
  <2>4. CASE /\ Joins(t, r.tray, r.hwnd)
             /\ r.tray.shared \in r.tray.windows
    BY <1>n, <1>2, <2>2, <2>3, <2>4 DEF Activated, Joins, Makes, Fails
  <2>5. CASE /\ Makes(t, r.tray, r.hwnd)
             /\ r.tray.shared \in r.tray.windows
    BY <1>n, <2>2, <2>3, <2>5 DEF Activated, Joins, Makes, Fails
  <2>6. CASE Fails(t, r.tray) /\ r.hwnd = 0
    <3>1. CASE Joins(r.tray, q.tray, q.hwnd)
      <4>1. 0 \in r.tray.windows
        BY <2>6, <3>1 DEF Joins, Fails
      <4> QED
        BY <1>1, <1>n, <4>1 DEF WindowInv, Tray
    <3>2. CASE Makes(r.tray, q.tray, q.hwnd)
      BY <1>n, <2>2, <2>3, <2>6, <3>2 DEF Activated, Makes, Fails
    <3>3. CASE Fails(r.tray, q.tray) /\ q.hwnd = r.hwnd
      BY <1>n, <2>2, <2>3, <2>6, <3>3 DEF Activated, Fails
    <3> QED
      BY <2>2, <3>1, <3>2, <3>3
  <2> QED
    BY <1>1, <2>4, <2>5, <2>6
<1> QED
  BY <1>3, <1>4

(* Whoever leaves: the window loses a holder that held it, or stays as it  *)
(* is for one that did not.                                                *)
LEMMA Uninit ==
    ASSUME NEW t \in Tray, WindowInv(t),
           NEW hwnd \in 0..MaxWindows, NEW s \in Services,
           NEW u, u = uninitShellTrayIcon(t, hwnd, s)
    PROVE  /\ u \in Tray /\ WindowInv(u) /\ u.made = t.made
           /\ \/ u.shared = 0
              \/ hwnd # t.shared /\ u.shared = t.shared /\ u.refs = t.refs
              \/ hwnd = t.shared /\ u.shared = t.shared /\ u.refs = t.refs - 1
<1> USE TipDllAssumption
<1>n. /\ t.shared \in Nat /\ t.made \in Nat /\ t.refs \in 0..(MaxHolds + 1)
      /\ t.windows \subseteq 1..MaxWindows
      /\ 0 \in 0..MaxWindows /\ 0 \in 0..(MaxHolds + 1)
  BY DEF Tray
<1>1. CASE hwnd = 0 \/ hwnd # t.shared
  <2>1. u = t
    BY <1>1 DEF uninitShellTrayIcon
  <2> QED
    BY <1>1, <2>1
<1>2. CASE hwnd # 0 /\ hwnd = t.shared /\ t.refs > 1
  <2>1. u = [t EXCEPT !.retry = FALSE, !.refs = t.refs - 1]
    BY <1>2 DEF uninitShellTrayIcon, Tray
  <2>2. t.refs - 1 \in 0..(MaxHolds + 1) /\ t.refs - 1 # 0
    BY <1>n, <1>2
  <2>3. u \in Tray
    BY <2>1, <2>2 DEF Tray
  <2>4. /\ u.shared = t.shared /\ u.refs = t.refs - 1 /\ u.made = t.made
        /\ u.windows = t.windows /\ u.maker = t.maker
    BY <2>1 DEF Tray
  <2> QED
    BY <1>2, <2>2, <2>3, <2>4 DEF WindowInv
<1>3. CASE hwnd # 0 /\ hwnd = t.shared /\ ~(t.refs > 1)
  <2>1. PICK w \in {t.windows, t.windows \ {hwnd}} :
           u = [t EXCEPT !.retry = FALSE, !.shared = 0, !.refs = 0,
                         !.user = NoService, !.maker = NoService,
                         !.added = FALSE, !.icons = FALSE, !.windows = w]
    BY <1>3 DEF uninitShellTrayIcon, Tray
  <2>2. w \subseteq 1..MaxWindows /\ w \subseteq t.windows
    BY <1>n, <2>1
  <2>3. u \in Tray
    BY <1>n, <2>1, <2>2 DEF Tray
  <2>4. /\ u.shared = 0 /\ u.refs = 0 /\ u.made = t.made
        /\ u.windows = w /\ u.maker = NoService
    BY <2>1 DEF Tray
  <2> QED
    BY <1>n, <2>2, <2>3, <2>4 DEF WindowInv
<1> QED
  BY <1>1, <1>2, <1>3

LEMMA Recreate ==
    ASSUME NEW t \in Tray, NEW s \in Services,
           NEW u \in recreateShellTrayIcon(t, s)
    PROVE  SameWindow(t, u)
<1>1. CASE u = t
  BY <1>1 DEF SameWindow
<1>2. ASSUME NEW v \in ensureShellTrayProcessIconLoaded(t),
             u \in shellTrayNotifyAdd([v EXCEPT !.added = FALSE,
                                                !.retry = FALSE])
      PROVE  SameWindow(t, u)
  <2> DEFINE w == [v EXCEPT !.added = FALSE, !.retry = FALSE]
  <2>1. SameWindow(t, v)
    BY IconOnly
  <2>2. SameWindow(v, w) /\ w \in Tray
    BY <2>1 DEF SameWindow, Tray
  <2>3. SameWindow(w, u)
    <3> HIDE DEF w
    <3> QED
      BY <1>2, <2>2, IconOnly DEF w
  <2> QED
    BY <2>1, <2>2, <2>3 DEF SameWindow
<1> QED
  BY <1>1, <1>2 DEF recreateShellTrayIcon

-----------------------------------------------------------------------------
(* What a step makes of the lives and of the holders of the window.        *)

LEMMA LifeChanges ==
    ASSUME tsf \in [Services -> Tsf], NEW s \in Services, NEW x \in Tsf,
           tsf' = [tsf EXCEPT ![s] = x], UNCHANGED kind, LifeInv, Life(x)
    PROVE  LifeInv'
<1> SUFFICES ASSUME NEW g \in Services
             PROVE  Life(tsf[g])'
  BY DEF LifeInv
<1>1. tsf'[g] = IF g = s THEN x ELSE tsf[g]
  OBVIOUS
<1>2. Life(tsf[g]) /\ Life(x)
  BY DEF LifeInv
<1> QED
  BY <1>1, <1>2 DEF Life

LEMMA HoldersSame ==
    ASSUME HolderInv, UNCHANGED kind,
           \A g \in Services : tsf'[g].hwnd = tsf[g].hwnd,
           tray'.shared = tray.shared, tray'.refs = tray.refs,
           tray'.made = tray.made
    PROVE  HolderInv'
<1>1. Holders(tray.shared)' = Holders(tray.shared)
  BY DEF Holders
<1> QED
  BY <1>1 DEF HolderInv

LEMMA HolderJoins ==
    ASSUME tsf \in [Services -> Tsf], NEW s \in Services, NEW x \in Tsf,
           tsf' = [tsf EXCEPT ![s] = x], tsf[s].hwnd = 0, UNCHANGED kind,
           tray \in Tray, WindowInv(tray), HolderInv,
           Activated(tray, tray', x.hwnd)
    PROVE  HolderInv'
<1>1. /\ tsf'[s] = x
      /\ \A g \in Services \ {s} : tsf'[g] = tsf[g]
  BY OneTsf
<1>2. /\ tray.made \in Nat /\ tray.shared \in Nat /\ tray.refs \in Nat
      /\ tray'.made \in Nat /\ tray'.shared \in Nat /\ tray'.refs \in Nat
      /\ tray'.made >= tray.made /\ x.hwnd = tray'.shared
      /\ tray'.shared <= tray'.made
      /\ \A g \in Services : tsf[g].hwnd \in Nat
  BY DEF Tray, Tsf, Activated, WindowInv
<1>3. \A g \in Services : tsf'[g].hwnd <= tray'.made
  <2> SUFFICES ASSUME NEW g \in Services
               PROVE  tsf'[g].hwnd <= tray'.made
    OBVIOUS
  <2>1. CASE g = s
    BY <1>1, <1>2, <2>1
  <2>2. CASE g # s
    BY <1>1, <1>2, <2>2 DEF HolderInv
  <2> QED
    BY <2>1, <2>2
<1> DEFINE A == Holders(tray'.shared)
           B == {g \in Services : tsf'[g].hwnd = tray'.shared}
<1>4. ASSUME tray'.shared # 0
      PROVE  /\ Cardinality(B) = Cardinality(A) + 1
             /\ Cardinality(A) \in Nat
  <2>1. s \in B /\ s \notin A
    BY <1>1, <1>2, <1>4 DEF Holders
  <2>2. \A g \in Services \ {s} : g \in A <=> g \in B
    BY <1>1 DEF Holders
  <2>3. A \subseteq Services /\ B \subseteq Services
    BY DEF Holders
  <2> HIDE DEF A, B
  <2>4. /\ Cardinality(A) \in Nat
        /\ Cardinality(B) = Cardinality(A) + One(s \in B) - One(s \in A)
    BY <2>2, <2>3, CountAt
  <2> QED
    BY <2>1, <2>4 DEF One
<1>5. ASSUME tray'.shared # 0
      PROVE  /\ tray'.refs >= Cardinality(B)
             /\ kind = "app" => tray'.refs = Cardinality(B)
  <2>1. CASE /\ tray'.shared = tray.shared
             /\ tray'.refs >= tray.refs + 1
             /\ kind = "app" => tray'.refs = tray.refs + 1
    <3>1. /\ tray.refs >= Cardinality(A)
          /\ kind = "app" => tray.refs = Cardinality(A)
      BY <1>5, <2>1 DEF HolderInv
    <3> HIDE DEF A, B
    <3> QED
      BY <1>2, <1>4, <1>5, <2>1, <3>1
  <2>2. CASE /\ tray'.shared > tray.made
             /\ tray'.refs >= 1
             /\ kind = "app" => tray'.refs = 1
    <3>1. A = {}
      BY <1>2, <2>2 DEF Holders, HolderInv
    <3>2. Cardinality(A) = 0
      BY <3>1, FS_EmptySet
    <3> HIDE DEF A, B
    <3> QED
      BY <1>2, <1>4, <1>5, <2>2, <3>2
  <2> QED
    BY <1>2, <1>5, <2>1, <2>2 DEF Activated
<1> QED
  BY <1>3, <1>5 DEF HolderInv, Holders

LEMMA HolderLeaves ==
    ASSUME tsf \in [Services -> Tsf], NEW s \in Services, NEW x \in Tsf,
           tsf' = [tsf EXCEPT ![s] = x], x.hwnd = 0, UNCHANGED kind,
           tray \in Tray, WindowInv(tray), HolderInv,
           tray' = uninitShellTrayIcon(tray, tsf[s].hwnd, s)
    PROVE  HolderInv'
<1>1. /\ tsf'[s] = x
      /\ \A g \in Services \ {s} : tsf'[g] = tsf[g]
  BY OneTsf
<1>2. tsf[s].hwnd \in 0..MaxWindows
  BY DEF Tsf
<1>3. /\ tray'.made = tray.made
      /\ \/ tray'.shared = 0
         \/ /\ tsf[s].hwnd # tray.shared
            /\ tray'.shared = tray.shared /\ tray'.refs = tray.refs
         \/ /\ tsf[s].hwnd = tray.shared
            /\ tray'.shared = tray.shared /\ tray'.refs = tray.refs - 1
  BY <1>2, Uninit
<1>4. tray.made \in Nat /\ tray.refs \in Nat /\ tray.shared \in Nat
  BY DEF Tray
<1>5. \A g \in Services : tsf'[g].hwnd <= tray'.made
  BY <1>1, <1>3, <1>4 DEF HolderInv
<1> DEFINE A == Holders(tray.shared)
           B == {g \in Services : tsf'[g].hwnd = tray.shared}
<1>6. ASSUME tray'.shared # 0
      PROVE  /\ tray'.refs >= Cardinality(B)
             /\ kind = "app" => tray'.refs = Cardinality(B)
  <2>1. tray.shared # 0 /\ tray'.shared = tray.shared
    BY <1>3, <1>6
  <2>2. /\ tray.refs >= Cardinality(A)
        /\ kind = "app" => tray.refs = Cardinality(A)
    BY <2>1 DEF HolderInv
  <2>3. s \notin B /\ (s \in A <=> tsf[s].hwnd = tray.shared)
    BY <1>1, <2>1 DEF Holders
  <2>4. \A g \in Services \ {s} : g \in A <=> g \in B
    BY <1>1 DEF Holders
  <2>5. A \subseteq Services /\ B \subseteq Services
    BY DEF Holders
  <2> HIDE DEF A, B
  <2>6. /\ Cardinality(A) \in Nat
        /\ Cardinality(B) = Cardinality(A) + One(s \in B) - One(s \in A)
    BY <2>4, <2>5, CountAt
  <2> QED
    BY <1>3, <1>4, <1>6, <2>2, <2>3, <2>6 DEF One
<1> QED
  BY <1>3, <1>5, <1>6 DEF HolderInv, Holders

-----------------------------------------------------------------------------
(* The inductive invariant.                                                *)

IInv ==
    /\ TypeOK
    /\ RegInv
    /\ RegistrationIsAllOrNothing
    /\ LifeInv
    /\ CountInv
    /\ WindowInv(tray)
    /\ HolderInv

LEMMA InitIInv == Init => IInv
<1> SUFFICES ASSUME Init
             PROVE  IInv
  OBVIOUS
<1> USE TipDllAssumption DEF Init
<1>0. 0 \in 0..MaxWindows /\ 0 \in 0..(MaxHolds + 1)
      /\ 0 \in 0..MaxFactory
  OBVIOUS
<1>1. NoTsf \in Tsf
  BY <1>0 DEF NoTsf, Tsf, Sinks
<1>2. reg \in Registry /\ undeleted \in BOOLEAN
  <2>1. \A b \in BOOLEAN : [NotRegistered EXCEPT !.stale = b] \in Registry
    BY DEF NotRegistered, Registry
  <2>2. NotRegistered \in Registry
    BY DEF NotRegistered, Registry
  <2> QED
    BY <2>1, <2>2
<1>3. tray \in Tray
  BY <1>0 DEF Tray
<1>4. TypeOK
  BY <1>0, <1>1, <1>2, <1>3 DEF TypeOK
<1>5. \A s \in Services : tsf[s] = NoTsf
  OBVIOUS
<1>6. RegInv /\ RegistrationIsAllOrNothing
  BY DEF RegInv, RegistrationIsAllOrNothing
<1>7. LifeInv
  BY <1>5 DEF LifeInv, Life, NoTsf
<1>8. CountInv
  <2>1. Alive = {} /\ Buttons = {}
    BY <1>5 DEF Alive, Buttons, NoTsf
  <2>2. Cardinality(Alive) = 0 /\ Cardinality(Buttons) = 0
    BY <2>1, FS_EmptySet
  <2> QED
    BY <2>2 DEF CountInv, One
<1>9. WindowInv(tray)
  BY DEF WindowInv
<1>10. HolderInv
  BY <1>5 DEF HolderInv, NoTsf
<1> QED
  BY <1>4, <1>6, <1>7, <1>8, <1>9, <1>10 DEF IInv

(* A step of the objects, which leaves registration alone.                 *)
LEMMA ObjectStep ==
    ASSUME IInv, UNCHANGED lifeless,
           tsf' \in [Services -> Tsf], tray' \in Tray, WindowInv(tray'),
           LifeInv', CountInv', HolderInv', dllRefCount' \in Nat,
           factoryRefs' \in 0..MaxFactory, pinned' \in BOOLEAN
    PROVE  IInv'
<1>1. RegInv' /\ RegistrationIsAllOrNothing'
  BY DEF IInv, RegInv, RegistrationIsAllOrNothing, lifeless, registration
<1>2. TypeOK'
  BY DEF IInv, TypeOK, lifeless, registration, WindowInv
<1>3. WindowInv(tray)'
  BY DEF WindowInv
<1> QED
  BY <1>1, <1>2, <1>3 DEF IInv

(* A step that leaves the objects alone.                                   *)
LEMMA OtherStep ==
    ASSUME IInv,
           UNCHANGED <<kind, tsf, tray, dllRefCount, factoryRefs, pinned>>,
           reg' \in Registry, undeleted' \in BOOLEAN,
           regStep' \in {"idle", "server", "profiles", "categories",
                         "cleanup", "registered", "failed", "unregistered"},
           RegInv', RegistrationIsAllOrNothing'
    PROVE  IInv'
<1>1. TypeOK'
  BY DEF IInv, TypeOK
<1>2. LifeInv' /\ HolderInv' /\ CountInv'
  BY DEF IInv, LifeInv, Life, HolderInv, Holders, CountInv, Alive, Buttons
<1>3. WindowInv(tray)'
  BY DEF IInv, WindowInv
<1> QED
  BY <1>1, <1>2, <1>3 DEF IInv

(* A step of the factory alone.                                            *)
LEMMA FactoryStep ==
    ASSUME IInv, DllGetClassObject \/ ReleaseFactory
    PROVE  IInv'
<1> USE TipDllAssumption
<1>1. UNCHANGED <<tsf, tray, pinned, lifeless>> /\ UNCHANGED kind
  BY DEF DllGetClassObject, ReleaseFactory, lifeless
<1>2. /\ factoryRefs' \in 0..MaxFactory
      /\ dllRefCount' = dllRefCount + (factoryRefs' - factoryRefs)
  BY DEF IInv, TypeOK, DllGetClassObject, ReleaseFactory
<1>3. Cardinality(Alive) \in Nat /\ Cardinality(Buttons) \in Nat
  BY FS_Subset, FS_CardinalityType DEF Alive, Buttons
<1>4. CountInv' /\ dllRefCount' \in Nat
  <2>1. Alive' = Alive /\ Buttons' = Buttons
    BY <1>1 DEF Alive, Buttons
  <2> QED
    BY <1>1, <1>2, <1>3, <2>1 DEF IInv, TypeOK, CountInv, One
<1>5. LifeInv' /\ HolderInv'
  BY <1>1 DEF IInv, LifeInv, Life, HolderInv, Holders
<1> QED
  BY <1>1, <1>2, <1>4, <1>5, ObjectStep DEF IInv, TypeOK

LEMMA CreateStep ==
    ASSUME IInv, NEW s \in Services, CreateInstance(s)
    PROVE  IInv'
<1> USE TipDllAssumption
<1>1. PICK known \in BOOLEAN :
         /\ tsf' = [tsf EXCEPT ![s] = [NoTsf EXCEPT !.alive = known]]
         /\ dllRefCount' = dllRefCount + (IF known THEN 1 ELSE 0)
                                       + (IF pinned' # pinned THEN 1 ELSE 0)
  BY DEF CreateInstance
<1> DEFINE x == [NoTsf EXCEPT !.alive = known]
<1>2. /\ x \in Tsf /\ x.alive = known /\ ~x.mgr /\ x.sinks = {}
      /\ x.orphans = {} /\ ~x.button /\ x.hwnd = 0
  <2>1. 0 \in 0..MaxWindows
    OBVIOUS
  <2> QED
    BY <2>1 DEF NoTsf, Tsf, Sinks
<1>3. tsf' = [tsf EXCEPT ![s] = x]
  BY <1>1
<1> HIDE DEF x
<1>4. /\ tsf \in [Services -> Tsf] /\ factoryRefs \in 0..MaxFactory
      /\ dllRefCount \in Nat /\ pinned \in BOOLEAN
      /\ tray \in Tray /\ WindowInv(tray)
  BY DEF IInv, TypeOK
<1>5. UNCHANGED <<tray, factoryRefs, lifeless>> /\ UNCHANGED kind
  BY DEF CreateInstance, lifeless
<1>6. pinned' \in BOOLEAN /\ (pinned => pinned')
  BY <1>4 DEF CreateInstance
<1>7. ~tsf[s].alive /\ ~tsf[s].button /\ tsf[s].hwnd = 0
  BY DEF CreateInstance, IInv, LifeInv, Life
<1>8. CountInv' /\ dllRefCount' \in Nat
  <2>1. dllRefCount' = dllRefCount + One(x.alive) - One(tsf[s].alive)
                       + One(x.button) - One(tsf[s].button)
                       + One(pinned') - One(pinned)
    BY <1>1, <1>2, <1>4, <1>6, <1>7 DEF One
  <2>2. CountInv /\ factoryRefs \in Nat /\ factoryRefs' = factoryRefs
    BY <1>4, <1>5 DEF IInv
  <2> QED
    BY <1>2, <1>3, <1>4, <1>6, <2>1, <2>2, CountChanges
<1>9. LifeInv'
  <2>1. Life(x)
    BY <1>2 DEF Life
  <2> QED
    BY <1>2, <1>3, <1>4, <1>5, <2>1, LifeChanges DEF IInv
<1>10. HolderInv'
  <2>1. \A g \in Services : tsf'[g].hwnd = tsf[g].hwnd
    BY <1>2, <1>3, <1>4, <1>7, OneTsf
  <2> QED
    BY <1>5, <2>1, HoldersSame DEF IInv
<1>11. tsf' \in [Services -> Tsf]
  BY <1>2, <1>3, <1>4, OneTsf
<1> QED
  BY <1>4, <1>5, <1>6, <1>8, <1>9, <1>10, <1>11, ObjectStep

-----------------------------------------------------------------------------
(* The sinks.                                                              *)

(* x and y are the same object, and y is called through the sinks of x at  *)
(* most, once they are advised or kept.                                    *)
SameObject(x, y) ==
    /\ y \in Tsf
    /\ y.alive = x.alive /\ y.button = x.button /\ y.hwnd = x.hwnd

LEMMA UnadvisedKeeps ==
    ASSUME NEW x \in Tsf, NEW taken, NEW y \in Unadvised(x, taken)
    PROVE  /\ SameObject(x, y) /\ y.mgr = x.mgr
           /\ y.sinks = x.sinks \ taken
           /\ x.orphans \subseteq y.orphans
           /\ y.orphans \subseteq x.orphans \cup x.sinks
<1>1. PICK lost \in SUBSET (x.sinks \cap taken \cap MayStay) :
         y = [x EXCEPT !.sinks = @ \ taken, !.orphans = @ \cup lost]
  BY DEF Unadvised
<1>2. x.sinks \subseteq Sinks /\ x.orphans \subseteq Sinks
  BY DEF Tsf
<1>3. lost \subseteq x.sinks
  BY <1>1
<1>4. x.sinks \ taken \in SUBSET Sinks /\ x.orphans \cup lost \in SUBSET Sinks
  BY <1>2, <1>3
<1> QED
  BY <1>1, <1>3, <1>4 DEF SameObject, Tsf

LEMMA EditKeeps ==
    ASSUME NEW x \in Tsf, NEW y \in initTextEditSink(x)
    PROVE  /\ SameObject(x, y) /\ y.mgr = x.mgr
           /\ y.sinks \subseteq x.sinks \cup {"edit"}
           /\ x.orphans \subseteq y.orphans
           /\ y.orphans \subseteq x.orphans \cup x.sinks
<1>1. PICK z \in Unadvised(x, {"edit"}) :
         y = z \/ y = [z EXCEPT !.sinks = @ \cup {"edit"}]
  BY DEF initTextEditSink
<1>2. /\ SameObject(x, z) /\ z.mgr = x.mgr
      /\ z.sinks = x.sinks \ {"edit"}
      /\ x.orphans \subseteq z.orphans
      /\ z.orphans \subseteq x.orphans \cup x.sinks
  BY UnadvisedKeeps
<1>3. z.sinks \cup {"edit"} \in SUBSET Sinks
  BY <1>2 DEF SameObject, Tsf, Sinks
<1>4. CASE y = z
  BY <1>2, <1>4
<1>5. CASE y = [z EXCEPT !.sinks = @ \cup {"edit"}]
  BY <1>2, <1>3, <1>5 DEF SameObject, Tsf
<1> QED
  BY <1>1, <1>4, <1>5

LEMMA AdvisingKeeps ==
    ASSUME NEW x \in Tsf, NEW y \in Advising(x)
    PROVE  SameObject(x, y) /\ y.mgr = TRUE
<1> DEFINE z == [x EXCEPT !.mgr = TRUE, !.sinks = @ \cup {"threadMgr"}]
<1>1. x.sinks \cup {"threadMgr"} \in SUBSET Sinks
  BY DEF Tsf, Sinks
<1>2. SameObject(x, z) /\ z.mgr = TRUE
  BY <1>1 DEF SameObject, Tsf
<1>3. y = z \/ y \in initTextEditSink(z)
  BY DEF Advising
<1> HIDE DEF z
<1> QED
  BY <1>2, <1>3, EditKeeps DEF SameObject

LEMMA DeactivatedKeeps ==
    ASSUME NEW x \in Tsf, NEW y \in Deactivated(x),
           kind = "shell" => x.sinks \cup x.orphans \subseteq OptionalSinks
    PROVE  /\ y \in Tsf /\ y.alive = x.alive /\ ~y.mgr /\ ~y.button
           /\ y.hwnd = 0 /\ y.sinks = {}
           /\ y.orphans \subseteq x.orphans \cup x.sinks
<1> DEFINE taken == IF kind = "shell" THEN Sinks \ {"threadMgr", "key"}
                                      ELSE Sinks
<1>1. PICK z \in Unadvised(x, taken) :
         y = [z EXCEPT !.mgr = FALSE, !.button = FALSE, !.hwnd = 0]
  BY DEF Deactivated
<1>2. x.sinks \subseteq taken
  BY DEF Tsf, Sinks, OptionalSinks
<1> HIDE DEF taken
<1>3. /\ SameObject(x, z) /\ z.sinks = {}
      /\ z.orphans \subseteq x.orphans \cup x.sinks
  BY <1>1, <1>2, UnadvisedKeeps
<1>4. 0 \in 0..MaxWindows
  BY TipDllAssumption
<1> QED
  BY <1>1, <1>3, <1>4 DEF SameObject, Tsf

-----------------------------------------------------------------------------
(* The steps of the objects.                                               *)

(* A step that changes nothing but whether s is active and its sinks.      *)
LEMMA LightStep ==
    ASSUME IInv, NEW s \in Services, NEW x, SameObject(tsf[s], x), Life(x),
           tsf' = [tsf EXCEPT ![s] = x],
           UNCHANGED <<tray, dllRefCount, factoryRefs, pinned, lifeless>>
    PROVE  IInv'
<1>1. /\ tsf \in [Services -> Tsf] /\ tray \in Tray /\ WindowInv(tray)
      /\ CountInv /\ LifeInv /\ HolderInv
      /\ dllRefCount \in Nat /\ factoryRefs \in Nat /\ pinned \in BOOLEAN
      /\ factoryRefs' \in 0..MaxFactory /\ pinned' \in BOOLEAN
      /\ factoryRefs' = factoryRefs /\ pinned' = pinned
      /\ tray' = tray /\ dllRefCount' = dllRefCount
      /\ UNCHANGED kind /\ UNCHANGED lifeless
  BY TipDllAssumption DEF IInv, TypeOK, lifeless
<1>2. /\ x \in Tsf /\ x.alive = tsf[s].alive /\ x.button = tsf[s].button
      /\ x.hwnd = tsf[s].hwnd
  BY DEF SameObject
<1>3. dllRefCount' = dllRefCount + One(x.alive) - One(tsf[s].alive)
                     + One(x.button) - One(tsf[s].button)
                     + One(pinned') - One(pinned)
  BY <1>1, <1>2 DEF One
<1>4. CountInv' /\ dllRefCount' \in Nat
  BY <1>1, <1>2, <1>3, CountChanges
<1>5. LifeInv'
  BY <1>1, <1>2, LifeChanges
<1>6. HolderInv'
  <2>1. \A g \in Services : tsf'[g].hwnd = tsf[g].hwnd
    BY <1>1, <1>2, OneTsf
  <2> QED
    BY <1>1, <2>1, HoldersSame
<1>7. tsf' \in [Services -> Tsf]
  BY <1>1, <1>2, OneTsf
<1> QED
  BY <1>1, <1>4, <1>5, <1>6, <1>7, ObjectStep

(* initLangBarTrayItem, from either caller.                                *)
LEMMA TrayItemStep ==
    ASSUME IInv, NEW s \in Services, NEW y, SameObject(tsf[s], y), Life(y),
           initLangBarTrayItem(s, y),
           UNCHANGED <<factoryRefs, pinned, lifeless>>
    PROVE  IInv'
<1> USE TipDllAssumption
<1>1. /\ tsf \in [Services -> Tsf] /\ tray \in Tray /\ WindowInv(tray)
      /\ CountInv /\ LifeInv /\ HolderInv
      /\ dllRefCount \in Nat /\ factoryRefs \in Nat /\ pinned \in BOOLEAN
      /\ factoryRefs' \in 0..MaxFactory /\ pinned' \in BOOLEAN
      /\ factoryRefs' = factoryRefs /\ pinned' = pinned
      /\ UNCHANGED kind /\ UNCHANGED lifeless
      /\ tsf[s] \in Tsf
  BY DEF IInv, TypeOK, lifeless
<1>2. /\ y \in Tsf /\ y.alive = tsf[s].alive /\ y.button = tsf[s].button
      /\ y.hwnd = tsf[s].hwnd
  BY DEF SameObject
<1>3. CASE /\ tsf' = [tsf EXCEPT ![s] = y]
           /\ UNCHANGED <<tray, dllRefCount>>
  BY <1>3, LightStep
<1>4. ASSUME y.mgr, ~y.button, tray.refs < MaxHolds,
             NEW r \in initShellTrayHostForMessages(tray, y.hwnd, s),
             NEW q \in IF kind = "shell"
                       THEN initShellTrayIcon(r.tray, r.hwnd, s) ELSE {r},
             tray' = q.tray,
             tsf' = [tsf EXCEPT ![s] = [y EXCEPT !.button = TRUE,
                                                 !.hwnd = q.hwnd]],
             dllRefCount' = dllRefCount + 1
      PROVE  IInv'
  <2>1. y.hwnd = 0 /\ tsf[s].hwnd = 0
    BY <1>2, <1>4 DEF Life
  <2>2. r \in initShellTrayHostForMessages(tray, 0, s)
    BY <1>4, <2>1
  <2>3. Activated(tray, q.tray, q.hwnd)
    BY <1>1, <1>4, <2>2, ActivationWindow
  <2>4. /\ q.tray \in Tray /\ WindowInv(q.tray)
        /\ q.hwnd \in 0..MaxWindows
    BY <2>3 DEF Activated
  <2> DEFINE x == [y EXCEPT !.button = TRUE, !.hwnd = q.hwnd]
  <2>5. /\ x \in Tsf /\ x.mgr = y.mgr /\ x.alive = tsf[s].alive
        /\ x.sinks = y.sinks /\ x.orphans = y.orphans
        /\ x.hwnd = q.hwnd /\ x.button = TRUE
    BY <1>2, <2>4 DEF Tsf
  <2>6. tsf' = [tsf EXCEPT ![s] = x]
    BY <1>4
  <2> HIDE DEF x
  <2>7. Life(x)
    BY <1>2, <1>4, <2>5 DEF Life
  <2>8. HolderInv'
    <3>1. Activated(tray, tray', x.hwnd)
      BY <1>4, <2>3, <2>5
    <3> QED
      BY <1>1, <2>1, <2>5, <2>6, <3>1, HolderJoins
  <2>9. tray' \in Tray /\ WindowInv(tray')
    BY <1>4, <2>4
  <2>10. dllRefCount' = dllRefCount + One(x.alive) - One(tsf[s].alive)
                        + One(x.button) - One(tsf[s].button)
                        + One(pinned') - One(pinned)
    BY <1>1, <1>2, <1>4, <2>5 DEF One
  <2>11. CountInv' /\ dllRefCount' \in Nat
    BY <1>1, <2>5, <2>6, <2>10, CountChanges
  <2>12. LifeInv'
    BY <1>1, <2>5, <2>6, <2>7, LifeChanges
  <2>13. tsf' \in [Services -> Tsf]
    BY <1>1, <2>5, <2>6, OneTsf
  <2> QED
    BY <1>1, <2>8, <2>9, <2>11, <2>12, <2>13, ObjectStep
<1> QED
  BY <1>3, <1>4 DEF initLangBarTrayItem

LEMMA ActivationStep ==
    ASSUME IInv, NEW s \in Services, ActivateEx(s)
    PROVE  IInv'
<1>1. /\ tsf[s] \in Tsf /\ tsf[s].alive = TRUE /\ ~tsf[s].mgr
      /\ UNCHANGED <<factoryRefs, pinned, lifeless>>
      /\ Life(tsf[s])
  <2>1. tsf[s] \in Tsf /\ tsf[s].alive /\ ~tsf[s].mgr /\ Life(tsf[s])
    BY DEF IInv, TypeOK, ActivateEx, LifeInv
  <2> QED
    BY <2>1 DEF ActivateEx, Tsf
<1>2. ~tsf[s].button /\ tsf[s].hwnd = 0
  BY <1>1 DEF Life
<1>3. PICK optional \in SUBSET OptionalSinks :
         \/ /\ kind = "shell"
            /\ initLangBarTrayItem(s, [tsf[s] EXCEPT !.mgr = TRUE,
                                                     !.sinks = optional])
         \/ /\ kind # "shell"
            /\ \E x \in Advising(tsf[s]) :
                  initLangBarTrayItem(s,
                      [x EXCEPT !.sinks = @ \cup {"key"} \cup optional])
  BY DEF ActivateEx
<1>4. optional \in SUBSET Sinks
  BY DEF Sinks
<1>5. CASE /\ kind = "shell"
           /\ initLangBarTrayItem(s, [tsf[s] EXCEPT !.mgr = TRUE,
                                                    !.sinks = optional])
  <2> DEFINE y == [tsf[s] EXCEPT !.mgr = TRUE, !.sinks = optional]
  <2>1. SameObject(tsf[s], y)
    BY <1>1, <1>4 DEF SameObject, Tsf
  <2>2. /\ y.mgr = TRUE /\ y.alive = TRUE /\ y.hwnd = 0
        /\ y.sinks = optional /\ y.orphans = tsf[s].orphans
    BY <1>1, <1>2 DEF Tsf
  <2>3. initLangBarTrayItem(s, y)
    BY <1>5
  <2> HIDE DEF y
  <2>4. Life(y)
    BY <1>1, <2>2 DEF Life
  <2> QED
    BY <1>1, <2>1, <2>3, <2>4, TrayItemStep
<1>6. ASSUME kind # "shell", NEW x \in Advising(tsf[s]),
             initLangBarTrayItem(s,
                 [x EXCEPT !.sinks = @ \cup {"key"} \cup optional])
      PROVE  IInv'
  <2> DEFINE y == [x EXCEPT !.sinks = @ \cup {"key"} \cup optional]
  <2>1. SameObject(tsf[s], x) /\ x.mgr = TRUE
    BY <1>1, AdvisingKeeps
  <2>2. x.sinks \cup {"key"} \cup optional \in SUBSET Sinks
    BY <1>4, <2>1 DEF SameObject, Tsf, Sinks
  <2>3. SameObject(tsf[s], y) /\ y.mgr = TRUE
    BY <2>1, <2>2 DEF SameObject, Tsf
  <2>4. initLangBarTrayItem(s, y)
    BY <1>6
  <2> HIDE DEF y
  <2>5. Life(y)
    BY <1>1, <1>2, <1>6, <2>3 DEF Life, SameObject
  <2> QED
    BY <1>1, <2>3, <2>4, <2>5, TrayItemStep
<1> QED
  BY <1>3, <1>5, <1>6

(* A notification of the profiles finds no thread manager after            *)
(* Deactivate, and then adds no button.                                    *)
LEMMA ProfileStep ==
    ASSUME IInv, NEW s \in Services, handleProfileActivated(s)
    PROVE  IInv'
<1>1. /\ initLangBarTrayItem(s, tsf[s])
      /\ UNCHANGED <<factoryRefs, pinned, lifeless>>
  BY DEF handleProfileActivated
<1>2. SameObject(tsf[s], tsf[s]) /\ Life(tsf[s])
  BY DEF IInv, TypeOK, LifeInv, SameObject
<1> QED
  BY <1>1, <1>2, TrayItemStep

LEMMA SinkStep ==
    ASSUME IInv, NEW s \in Services, SourceGoes(s) \/ OnSetFocus(s)
    PROVE  IInv'
<1>1. /\ tsf[s] \in Tsf /\ Life(tsf[s])
      /\ UNCHANGED <<tray, dllRefCount, factoryRefs, pinned, lifeless>>
  BY DEF IInv, TypeOK, LifeInv, SourceGoes, OnSetFocus
<1>2. CASE SourceGoes(s)
  <2> DEFINE x == [tsf[s] EXCEPT !.sinks = {}, !.orphans = {}]
  <2>1. tsf' = [tsf EXCEPT ![s] = x]
    BY <1>2 DEF SourceGoes
  <2>2. /\ SameObject(tsf[s], x) /\ x.sinks = {} /\ x.orphans = {}
        /\ x.mgr = tsf[s].mgr
    BY <1>1 DEF SameObject, Tsf
  <2> HIDE DEF x
  <2>3. Life(x)
    BY <1>1, <2>2 DEF Life, SameObject
  <2> QED
    BY <1>1, <2>1, <2>2, <2>3, LightStep
<1>3. CASE OnSetFocus(s)
  <2>1. /\ "threadMgr" \in tsf[s].sinks \cup tsf[s].orphans
        /\ \E x \in initTextEditSink(tsf[s]) : tsf' = [tsf EXCEPT ![s] = x]
    BY <1>3 DEF OnSetFocus
  <2>2. PICK x \in initTextEditSink(tsf[s]) : tsf' = [tsf EXCEPT ![s] = x]
    BY <2>1
  <2>3. /\ SameObject(tsf[s], x) /\ x.mgr = tsf[s].mgr
        /\ x.sinks \subseteq tsf[s].sinks \cup {"edit"}
        /\ tsf[s].orphans \subseteq x.orphans
    BY <1>1, EditKeeps
  <2>4. kind # "shell"
    BY <1>1, <2>1 DEF Life, OptionalSinks
  <2>5. ~tsf[s].mgr => "threadMgr" \in tsf[s].orphans
    BY <1>1, <2>1 DEF Life
  <2>6. Life(x)
    BY <1>1, <2>3, <2>4, <2>5 DEF Life, SameObject
  <2> QED
    BY <1>1, <2>2, <2>3, <2>6, LightStep
<1> QED
  BY <1>2, <1>3

(* Deactivate and the last Release.                                        *)
LEMMA LeaveStep ==
    ASSUME IInv, NEW s \in Services, NEW x \in Tsf, Leave(s, x), Life(x),
           tsf[s].alive, x.hwnd = 0, ~x.button
    PROVE  IInv'
<1> USE TipDllAssumption
<1>1. /\ tsf \in [Services -> Tsf] /\ tray \in Tray /\ WindowInv(tray)
      /\ CountInv /\ LifeInv /\ HolderInv
      /\ dllRefCount \in Nat /\ factoryRefs \in Nat /\ pinned \in BOOLEAN
      /\ factoryRefs' \in 0..MaxFactory /\ pinned' \in BOOLEAN
      /\ factoryRefs' = factoryRefs /\ pinned' = pinned
      /\ UNCHANGED kind /\ UNCHANGED lifeless
      /\ tsf[s].hwnd \in 0..MaxWindows
  BY DEF IInv, TypeOK, lifeless, Leave, Tsf
<1>2. /\ tray' = uninitShellTrayIcon(tray, tsf[s].hwnd, s)
      /\ tsf' = [tsf EXCEPT ![s] = x]
      /\ dllRefCount' = dllRefCount - (IF tsf[s].button THEN 1 ELSE 0)
                                    - (IF x.alive THEN 0 ELSE 1)
  BY DEF Leave
<1>3. tray' \in Tray /\ WindowInv(tray')
  BY <1>1, <1>2, Uninit
<1>4. HolderInv'
  BY <1>1, <1>2, HolderLeaves
<1>5. dllRefCount' = dllRefCount + One(x.alive) - One(tsf[s].alive)
                     + One(x.button) - One(tsf[s].button)
                     + One(pinned') - One(pinned)
  BY <1>1, <1>2 DEF One
<1>6. CountInv' /\ dllRefCount' \in Nat
  BY <1>1, <1>2, <1>5, CountChanges
<1>7. LifeInv'
  BY <1>1, <1>2, LifeChanges
<1>8. tsf' \in [Services -> Tsf]
  BY <1>1, <1>2, OneTsf
<1> QED
  BY <1>1, <1>3, <1>4, <1>6, <1>7, <1>8, ObjectStep

LEMMA DeactivationStep ==
    ASSUME IInv, NEW s \in Services, Deactivate(s) \/ Release(s)
    PROVE  IInv'
<1>1. tsf[s] \in Tsf /\ Life(tsf[s])
  BY DEF IInv, TypeOK, LifeInv
<1>2. ASSUME NEW x \in Deactivated(tsf[s])
      PROVE  /\ x \in Tsf /\ x.alive = tsf[s].alive /\ ~x.mgr /\ ~x.button
             /\ x.hwnd = 0 /\ x.sinks = {}
             /\ kind = "shell" => x.sinks \cup x.orphans
                                     \subseteq OptionalSinks
  BY <1>1, <1>2, DeactivatedKeeps DEF Life
<1>3. CASE Deactivate(s)
  <2>1. PICK x \in Deactivated(tsf[s]) : Leave(s, x)
    BY <1>3 DEF Deactivate
  <2>2. tsf[s].alive
    BY <1>1, <1>3 DEF Deactivate, Life
  <2>3. Life(x)
    BY <1>2 DEF Life
  <2> QED
    BY <1>2, <2>1, <2>2, <2>3, LeaveStep
<1>4. CASE Release(s)
  <2>1. PICK x \in Deactivated(tsf[s]) : Leave(s, [x EXCEPT !.alive = FALSE])
    BY <1>4 DEF Release
  <2> DEFINE y == [x EXCEPT !.alive = FALSE]
  <2>2. /\ y \in Tsf /\ ~y.mgr /\ ~y.button /\ y.hwnd = 0 /\ y.sinks = {}
        /\ kind = "shell" => y.sinks \cup y.orphans \subseteq OptionalSinks
    BY <1>2 DEF Tsf
  <2>3. tsf[s].alive /\ Leave(s, y)
    BY <1>4, <2>1 DEF Release
  <2> HIDE DEF y
  <2>4. Life(y)
    BY <2>2 DEF Life
  <2> QED
    BY <2>2, <2>3, <2>4, LeaveStep
<1> QED
  BY <1>3, <1>4

LEMMA ActivationErrorStep ==
    ASSUME IInv, NEW s \in Services, ActivateExError(s)
    PROVE  IInv'
<1>1. /\ tsf[s] \in Tsf /\ Life(tsf[s]) /\ ~tsf[s].mgr /\ kind = "app"
      /\ UNCHANGED <<tray, dllRefCount, factoryRefs, pinned, lifeless>>
  BY DEF IInv, TypeOK, LifeInv, ActivateExError
<1>2. tsf[s].button = FALSE /\ tsf[s].hwnd = 0
  BY <1>1 DEF Life, Tsf
<1>a. PICK x \in {[tsf[s] EXCEPT !.mgr = TRUE]} \cup Advising(tsf[s]) :
         \E y \in Deactivated(x) : tsf' = [tsf EXCEPT ![s] = y]
  BY DEF ActivateExError
<1>3. PICK y \in Deactivated(x) : tsf' = [tsf EXCEPT ![s] = y]
  BY <1>a
<1>4. x \in Tsf /\ x.alive = tsf[s].alive
  <2>1. SameObject(tsf[s], [tsf[s] EXCEPT !.mgr = TRUE])
    BY <1>1 DEF SameObject, Tsf
  <2>2. x \in Advising(tsf[s]) => SameObject(tsf[s], x)
    BY <1>1, AdvisingKeeps
  <2> QED
    BY <1>a, <2>1, <2>2 DEF SameObject
<1>5. /\ y \in Tsf /\ y.alive = x.alive /\ ~y.mgr /\ ~y.button
      /\ y.hwnd = 0 /\ y.sinks = {}
  BY <1>1, <1>3, <1>4, DeactivatedKeeps
<1>6. SameObject(tsf[s], y)
  BY <1>2, <1>4, <1>5 DEF SameObject, Tsf
<1>7. Life(y)
  BY <1>1, <1>5 DEF Life
<1> QED
  BY <1>1, <1>3, <1>6, <1>7, LightStep

(* The messages of the tray window change the icon; the end of its thread  *)
(* takes the window and its maker, and leaves the holders.                 *)
LEMMA WindowStep ==
    ASSUME IInv, TaskbarCreated \/ RetryTimer \/ ThreadEnds
    PROVE  IInv'
<1> USE TipDllAssumption
<1>1. /\ tsf \in [Services -> Tsf] /\ tray \in Tray /\ WindowInv(tray)
      /\ dllRefCount \in Nat /\ factoryRefs \in 0..MaxFactory
      /\ pinned \in BOOLEAN /\ LifeInv /\ CountInv /\ HolderInv
  BY DEF IInv, TypeOK
<1>2. /\ UNCHANGED <<tsf, dllRefCount, factoryRefs, pinned, lifeless>>
      /\ UNCHANGED kind
  BY DEF TaskbarCreated, RetryTimer, ShellTrayMessage, ThreadEnds, lifeless
<1>3. ASSUME tray' \in Tray, WindowInv(tray'),
             tray'.shared = tray.shared, tray'.refs = tray.refs,
             tray'.made = tray.made
      PROVE  IInv'
  <2>1. LifeInv' /\ CountInv'
    BY <1>1, <1>2 DEF LifeInv, Life, CountInv, Alive, Buttons
  <2>2. HolderInv'
    BY <1>1, <1>2, <1>3, HoldersSame
  <2> QED
    BY <1>1, <1>2, <1>3, <2>1, <2>2, ObjectStep
<1>4. CASE SameWindow(tray, tray')
  <2>1. tray' \in Tray /\ WindowInv(tray')
    BY <1>1, <1>4, SameWindowInv DEF SameWindow
  <2> QED
    BY <1>3, <1>4, <2>1 DEF SameWindow
<1>5. CASE TaskbarCreated
  <2>1. /\ tray.user \in Services
        /\ tray' \in recreateShellTrayIcon(tray, tray.user)
    BY <1>1, <1>5 DEF TaskbarCreated, ShellTrayMessage, Tray
  <2> QED
    BY <1>1, <1>4, <2>1, Recreate
<1>6. CASE RetryTimer
  <2> DEFINE t == [tray EXCEPT !.retry = FALSE]
  <2>1. /\ tray.user \in Services
        /\ tray' \in recreateShellTrayIcon(t, tray.user)
    BY <1>1, <1>6 DEF RetryTimer, ShellTrayMessage, Tray
  <2>2. t \in Tray /\ SameWindow(tray, t)
    BY <1>1 DEF SameWindow, Tray
  <2> HIDE DEF t
  <2>3. SameWindow(t, tray')
    BY <2>1, <2>2, Recreate
  <2> QED
    BY <1>4, <2>2, <2>3 DEF SameWindow
<1>7. CASE ThreadEnds
  <2> DEFINE w == [tray EXCEPT !.windows = @ \ {tray.shared},
                               !.user = NoService, !.maker = NoService,
                               !.retry = FALSE]
  <2>1. tray' = w
    BY <1>7 DEF ThreadEnds
  <2>2. /\ w \in Tray /\ w.shared = tray.shared /\ w.refs = tray.refs
        /\ w.made = tray.made /\ w.windows \subseteq tray.windows
        /\ w.maker = NoService
    BY <1>1 DEF Tray
  <2> HIDE DEF w
  <2>3. WindowInv(w)
    BY <1>1, <2>2 DEF WindowInv
  <2> QED
    BY <1>3, <2>1, <2>2, <2>3
<1> QED
  BY <1>5, <1>6, <1>7

(* Every call of a registration finds what the one before it has left, and *)
(* whatever fails leads to the cleanup.                                    *)
LEMMA RegistrationStep ==
    ASSUME IInv,
           \/ DllRegisterServer
           \/ RegisterServer
           \/ RegisterProfiles
           \/ RegisterCategories
           \/ RegistrationCleanup
           \/ DllUnregisterServer
           \/ RegistrationKilled
    PROVE  IInv'
<1> USE TipDllAssumption
<1> DEFINE Steps == {"idle", "server", "profiles", "categories", "cleanup",
                     "registered", "failed", "unregistered"}
<1>1. UNCHANGED <<kind, tsf, tray, dllRefCount, factoryRefs, pinned>>
  BY DEF DllRegisterServer, RegisterServer, RegisterProfiles,
         RegisterCategories, RegistrationCleanup, DllUnregisterServer,
         RegistrationKilled, Registering
<1>2. reg \in Registry /\ undeleted \in BOOLEAN /\ RegInv
  BY DEF IInv, TypeOK
<1>3. NotRegistered \in Registry
  BY DEF NotRegistered, Registry
<1>4. ASSUME reg' \in Registry, undeleted' \in BOOLEAN, regStep' \in Steps,
             RegInv', RegistrationIsAllOrNothing'
      PROVE  IInv'
  BY <1>1, <1>4, OtherStep
<1>5. CASE \/ DllRegisterServer
           \/ RegistrationCleanup
           \/ DllUnregisterServer
  <2>1. UnregisterAll /\ regStep' \in {"server", "failed", "unregistered"}
    BY <1>5 DEF DllRegisterServer, RegistrationCleanup, DllUnregisterServer
  <2>2. Remains(reg) \subseteq Registry
    <3>1. /\ reg.server \in {"absent", "partial", "full"}
          /\ reg.profiles \subseteq 1..NProfiles
          /\ reg.categories \subseteq Categories /\ reg.stale \in BOOLEAN
      BY <1>2 DEF Registry
    <3> SUFFICES ASSUME NEW r \in Remains(reg)
                 PROVE  r \in Registry
      OBVIOUS
    <3>2. PICK v \in {"absent", reg.server} \cup
                     (IF reg.server = "absent" THEN {} ELSE {"partial"}),
               p \in SUBSET reg.profiles, c \in SUBSET reg.categories,
               t \in {FALSE, reg.stale} :
             r = [server |-> v, profiles |-> p, categories |-> c, stale |-> t]
      BY DEF Remains
    <3>3. /\ v \in {"absent", "partial", "full"} /\ t \in BOOLEAN
          /\ p \in SUBSET (1..NProfiles) /\ c \in SUBSET Categories
      BY <3>1, <3>2
    <3> QED
      BY <3>2, <3>3 DEF Registry
  <2>3. /\ reg' \in Registry
        /\ \/ reg' = NotRegistered /\ undeleted' = FALSE
           \/ undeleted' = TRUE
    BY <1>3, <2>1, <2>2 DEF UnregisterAll
  <2>4. RegInv' /\ RegistrationIsAllOrNothing'
    BY <2>1, <2>3 DEF RegInv, RegistrationIsAllOrNothing, NotRegistered
  <2>5. undeleted' \in BOOLEAN /\ regStep' \in Steps
    BY <2>1, <2>3
  <2> QED
    BY <1>4, <2>3, <2>4, <2>5
<1>6. CASE RegisterServer
  <2>1. /\ regStep = "server" /\ undeleted' = undeleted
        /\ \E v \in {"absent", "partial", "full"} :
              reg' = [reg EXCEPT !.server = v]
        /\ \/ regStep' = "profiles" /\ reg' = [reg EXCEPT !.server = "full"]
           \/ regStep' = "cleanup"
    BY <1>2, <1>6 DEF RegisterServer, Registering, Registry
  <2>2. /\ reg' \in Registry /\ reg'.stale = reg.stale
        /\ regStep' = "profiles" => reg'.server = "full"
    BY <1>2, <2>1 DEF Registry
  <2>3. RegInv' /\ RegistrationIsAllOrNothing'
    BY <1>2, <2>1, <2>2 DEF RegInv, RegistrationIsAllOrNothing
  <2> QED
    BY <1>2, <1>4, <2>1, <2>2, <2>3
<1>7. CASE RegisterProfiles
  <2>1. PICK n \in 0..NProfiles :
           /\ reg' = [reg EXCEPT !.profiles = @ \cup (1..n)]
           /\ regStep' = IF n = NProfiles THEN "categories" ELSE "cleanup"
    BY <1>7 DEF RegisterProfiles
  <2>2. regStep = "profiles" /\ undeleted' = undeleted
    BY <1>7 DEF RegisterProfiles, Registering
  <2>3. /\ reg.profiles \subseteq 1..NProfiles /\ 1..n \subseteq 1..NProfiles
    BY <1>2, TipDllAssumption DEF Registry
  <2>4. /\ reg' \in Registry /\ reg'.stale = reg.stale
        /\ reg'.server = reg.server
        /\ regStep' = "categories" => reg'.profiles = 1..NProfiles
    BY <1>2, <2>1, <2>3 DEF Registry
  <2>5. RegInv' /\ RegistrationIsAllOrNothing'
    BY <1>2, <2>1, <2>2, <2>4 DEF RegInv, RegistrationIsAllOrNothing
  <2> QED
    BY <1>2, <1>4, <2>1, <2>2, <2>4, <2>5
<1>8. CASE RegisterCategories
  <2>1. PICK done \in SUBSET Categories :
           /\ reg' = [reg EXCEPT !.categories = @ \cup done]
           /\ regStep' = IF done = Categories THEN "registered"
                                              ELSE "cleanup"
    BY <1>8 DEF RegisterCategories
  <2>2. regStep = "categories" /\ undeleted' = undeleted
    BY <1>8 DEF RegisterCategories, Registering
  <2>3. reg.categories \subseteq Categories
    BY <1>2 DEF Registry
  <2>4. /\ reg' \in Registry /\ reg'.stale = reg.stale
        /\ reg'.server = reg.server /\ reg'.profiles = reg.profiles
        /\ regStep' = "registered" => reg'.categories = Categories
    BY <1>2, <2>1, <2>3 DEF Registry
  <2>5. RegInv' /\ RegistrationIsAllOrNothing'
    BY <1>2, <2>1, <2>2, <2>4 DEF RegInv, RegistrationIsAllOrNothing
  <2> QED
    BY <1>2, <1>4, <2>1, <2>2, <2>4, <2>5
<1>9. CASE RegistrationKilled
  <2>1. reg' = reg /\ undeleted' = undeleted /\ regStep' = "idle"
    BY <1>9 DEF RegistrationKilled
  <2>2. RegInv' /\ RegistrationIsAllOrNothing'
    BY <2>1 DEF RegInv, RegistrationIsAllOrNothing
  <2> QED
    BY <1>2, <1>4, <2>1, <2>2
<1> QED
  BY <1>5, <1>6, <1>7, <1>8, <1>9

LEMMA StepIInv == IInv /\ [Next]_vars => IInv'
<1> SUFFICES ASSUME IInv, [Next]_vars
             PROVE  IInv'
  OBVIOUS
<1>1. CASE DllGetClassObject \/ ReleaseFactory
  BY <1>1, FactoryStep
<1>2. ASSUME NEW s \in Services, CreateInstance(s)
      PROVE  IInv'
  BY <1>2, CreateStep
<1>3. ASSUME NEW s \in Services, ActivateEx(s) \/ handleProfileActivated(s)
      PROVE  IInv'
  BY <1>3, ActivationStep, ProfileStep
<1>4. ASSUME NEW s \in Services, ActivateExError(s)
      PROVE  IInv'
  BY <1>4, ActivationErrorStep
<1>5. ASSUME NEW s \in Services, Deactivate(s) \/ Release(s)
      PROVE  IInv'
  BY <1>5, DeactivationStep
<1>6. ASSUME NEW s \in Services, SourceGoes(s) \/ OnSetFocus(s)
      PROVE  IInv'
  BY <1>6, SinkStep
<1>7. CASE TaskbarCreated \/ RetryTimer \/ ThreadEnds
  BY <1>7, WindowStep
<1>8. CASE \/ DllRegisterServer
           \/ RegisterServer
           \/ RegisterProfiles
           \/ RegisterCategories
           \/ RegistrationCleanup
           \/ DllUnregisterServer
           \/ RegistrationKilled
  BY <1>8, RegistrationStep
<1>9. CASE UNCHANGED vars
  <2>1. /\ UNCHANGED <<kind, tsf, tray, dllRefCount, factoryRefs, pinned>>
        /\ UNCHANGED <<reg, undeleted, regStep>>
    BY <1>9 DEF vars
  <2>2. RegInv' /\ RegistrationIsAllOrNothing'
    BY <2>1 DEF IInv, RegInv, RegistrationIsAllOrNothing
  <2> QED
    BY <2>1, <2>2, OtherStep DEF IInv, TypeOK
<1> QED
  BY <1>1, <1>2, <1>3, <1>4, <1>5, <1>6, <1>7, <1>8, <1>9 DEF Next

(* The invariant holds in every reachable state: each call of the DLL,     *)
(* each message of the tray window and each step of a registration         *)
(* preserves it.                                                           *)
THEOREM Invariance == Spec => []IInv
BY InitIInv, StepIInv, PTL DEF Spec

-----------------------------------------------------------------------------
(* TypeOK: the counts stay within their bounds, and the shared window has  *)
(* holders exactly when there is one.                                      *)
THEOREM TypeCorrect == Spec => []TypeOK
<1>1. IInv => TypeOK
  BY DEF IInv
<1> QED
  BY <1>1, Invariance, PTL

(* DllCountsEveryObject: DllCanUnloadNow sees zero only when no object, no *)
(* button, no factory reference and no pin of a shell host is left.        *)
THEOREM CountsEveryObject == Spec => []DllCountsEveryObject
<1>1. IInv => DllCountsEveryObject
  BY DEF IInv, CountInv, DllCountsEveryObject, Alive, Buttons, One
<1> QED
  BY <1>1, Invariance, PTL

(* HolderCountIsExact: the shared window stays while its maker's thread    *)
(* lives and someone holds it, and in an application goes with the last    *)
(* holder, whatever the order in which the text services come and go.      *)
THEOREM HolderCount == Spec => []HolderCountIsExact
<1>1. IInv => HolderCountIsExact
  BY DEF IInv, WindowInv, HolderInv, HolderCountIsExact, Holders
<1> QED
  BY <1>1, Invariance, PTL

(* DeactivatedIsSilent: Deactivate and the failed ActivateEx take back     *)
(* everything that was advised and TSF lets go; and whatever is called     *)
(* through a sink that it keeps, a deactivated text service gets no        *)
(* button, no window and no sink but the text edit sink of a new focus.    *)
THEOREM Silent == Spec => []DeactivatedIsSilent
<1>1. IInv => DeactivatedIsSilent
  BY DEF IInv, LifeInv, Life, DeactivatedIsSilent
<1> QED
  BY <1>1, Invariance, PTL

(* RegistrationIsAllOrNothing: DllRegisterServer registers everything or   *)
(* leaves nothing, unless a deletion is refused, for any number of         *)
(* profiles and categories and whatever was registered before.             *)
THEOREM AllOrNothing == Spec => []RegistrationIsAllOrNothing
<1>1. IInv => RegistrationIsAllOrNothing
  BY DEF IInv
<1> QED
  BY <1>1, Invariance, PTL

===============================================================================
