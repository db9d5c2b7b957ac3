-------------------------- MODULE TextServiceProofs --------------------------
(***************************************************************************)
(* The safety properties of TextService, for any contexts, preedits, lists *)
(* and number of commits.                                                  *)
(***************************************************************************)
EXTENDS TextService, SequenceTheorems, FiniteSetTheorems,
        WellFoundedInduction, TLAPS

-----------------------------------------------------------------------------
(* Sequences of commits.                                                   *)

Before(X, Y) == \A x \in X, y \in Y : x < y

LEMMA Least ==
    ASSUME NEW T \in SUBSET Nat, T # {}
    PROVE  \E n \in T : \A m \in T : n <= m
<1> DEFINE R == OpToRel(<, Nat)
<1>1. IsWellFoundedOn(R, Nat)
  BY NatLessThanWellFounded
<1>2. \A x, y \in Nat : y < x => <<y, x>> \in R
  BY DEF OpToRel
<1> HIDE DEF R
<1>3. PICK x \in T : \A y \in T : ~ (<<y, x>> \in R)
  BY <1>1, WFMin
<1>4. \A y \in T : ~ (y < x)
  BY <1>2, <1>3
<1> QED
  BY <1>3, <1>4

LEMMA TextsIn ==
    ASSUME NEW q \in Seq(Nat)
    PROVE  /\ Texts(q) \subseteq Nat \ {0}
           /\ \A i \in 1..Len(q) : q[i] # 0 => q[i] \in Texts(q)
           /\ \A x \in Texts(q) : x # 0 /\ \E i \in 1..Len(q) : x = q[i]
<1>1. DOMAIN q = 1..Len(q) /\ \A i \in 1..Len(q) : q[i] \in Nat
  OBVIOUS
<1> QED
  BY <1>1 DEF Texts

LEMMA TextsOfEmpty == Texts(<<>>) = {}
BY DEF Texts

LEMMA InOrderEmpty == inOrder(<<>>)
BY DEF inOrder

(* A concatenation is in order if its parts are, one before the other.     *)
LEMMA Concatenation ==
    ASSUME NEW p \in Seq(Nat), NEW q \in Seq(Nat)
    PROVE  /\ p \o q \in Seq(Nat)
           /\ Texts(p \o q) = Texts(p) \cup Texts(q)
           /\ inOrder(p \o q) <=> /\ inOrder(p) /\ inOrder(q)
                                  /\ Before(Texts(p), Texts(q))
<1> DEFINE r == p \o q
           m == Len(p)
           n == Len(q)
<1>1. /\ r \in Seq(Nat) /\ Len(r) = m + n /\ m \in Nat /\ n \in Nat
      /\ DOMAIN r = 1..(m + n) /\ DOMAIN p = 1..m /\ DOMAIN q = 1..n
      /\ \A i \in 1..m : r[i] = p[i] /\ i \in 1..(m + n) /\ p[i] \in Nat
      /\ \A i \in 1..n : /\ r[m + i] = q[i] /\ m + i \in 1..(m + n)
                         /\ q[i] \in Nat
      /\ \A i \in 1..(m + n) :
            i \in 1..m \/ \E j \in 1..n : i = m + j
  <2>1. /\ r \in Seq(Nat) /\ Len(r) = m + n /\ m \in Nat /\ n \in Nat
        /\ \A i \in 1..(m + n) : r[i] = IF i <= m THEN p[i] ELSE q[i - m]
    BY ConcatProperties, LenProperties
  <2>2. DOMAIN r = 1..(m + n) /\ DOMAIN p = 1..m /\ DOMAIN q = 1..n
    BY <2>1, LenProperties
  <2>3. \A i \in 1..m : p[i] \in Nat
    BY <2>1, ElementOfSeq
  <2>4. \A i \in 1..n : q[i] \in Nat
    BY <2>1, ElementOfSeq
  <2> HIDE DEF r, m, n
  <2>5. \A i \in 1..(m + n) : i \in 1..m \/ \E j \in 1..n : i = m + j
    <3> SUFFICES ASSUME NEW i \in 1..(m + n), i \notin 1..m
                 PROVE  \E j \in 1..n : i = m + j
      OBVIOUS
    <3>1. i - m \in 1..n /\ i = m + (i - m)
      BY <2>1
    <3> QED
      BY <3>1
  <2>6. \A i \in 1..n : r[m + i] = q[i] /\ m + i \in 1..(m + n)
    BY <2>1
  <2>7. \A i \in 1..m : r[i] = p[i] /\ i \in 1..(m + n)
    BY <2>1
  <2> QED
    BY <2>1, <2>2, <2>3, <2>4, <2>5, <2>6, <2>7
<1> HIDE DEF r, m, n
<1>2. Texts(r) = Texts(p) \cup Texts(q)
  <2>1. ASSUME NEW x \in Texts(r) PROVE x \in Texts(p) \cup Texts(q)
    <3>1. PICK i \in 1..(m + n) : x = r[i] /\ x # 0
      BY <1>1, <2>1 DEF Texts
    <3>2. CASE i \in 1..m
      BY <1>1, <3>1, <3>2 DEF Texts
    <3>3. ASSUME NEW j \in 1..n, i = m + j
          PROVE  x \in Texts(q)
      BY <1>1, <3>1, <3>3 DEF Texts
    <3> QED
      BY <1>1, <3>2, <3>3
  <2>2. ASSUME NEW x \in Texts(p) PROVE x \in Texts(r)
    BY <1>1, <2>2 DEF Texts
  <2>3. ASSUME NEW x \in Texts(q) PROVE x \in Texts(r)
    BY <1>1, <2>3 DEF Texts
  <2> QED
    BY <2>1, <2>2, <2>3
<1>3. ASSUME inOrder(r)
      PROVE  inOrder(p) /\ inOrder(q) /\ Before(Texts(p), Texts(q))
  <2>1. inOrder(p)
    BY <1>1, <1>3 DEF inOrder
  <2>2. inOrder(q)
    <3> SUFFICES ASSUME NEW i \in 1..n, NEW j \in 1..n, i < j, q[j] # 0
                 PROVE  q[i] < q[j]
      BY <1>1 DEF inOrder
    <3>1. m + i < m + j /\ r[m + i] = q[i] /\ r[m + j] = q[j]
      BY <1>1
    <3>2. m + i \in DOMAIN r /\ m + j \in DOMAIN r
      BY <1>1
    <3>3. r[m + i] < r[m + j]
      BY <1>3, <3>1, <3>2 DEF inOrder
    <3> QED
      BY <3>1, <3>3
  <2>3. Before(Texts(p), Texts(q))
    <3> SUFFICES ASSUME NEW i \in 1..m, NEW j \in 1..n, q[j] # 0
                 PROVE  p[i] < q[j]
      BY <1>1 DEF Before, Texts
    <3>1. i < m + j
      BY <1>1
    <3> QED
      BY <1>1, <1>3, <3>1 DEF inOrder
  <2> QED
    BY <2>1, <2>2, <2>3
<1>4. ASSUME inOrder(p), inOrder(q), Before(Texts(p), Texts(q))
      PROVE  inOrder(r)
  <2> SUFFICES ASSUME NEW i \in 1..(m + n), NEW j \in 1..(m + n), i < j,
                      r[j] # 0
               PROVE  r[i] < r[j]
    BY <1>1 DEF inOrder
  <2>1. CASE j \in 1..m
    <3>1. i \in 1..m
      BY <1>1, <2>1
    <3> QED
      BY <1>1, <1>4, <2>1, <3>1 DEF inOrder
  <2>2. ASSUME i \in 1..m, NEW k \in 1..n, j = m + k
        PROVE  r[i] < r[j]
    <3>1. r[i] = p[i] /\ r[j] = q[k] /\ p[i] \in Nat /\ q[k] \in Nat
      BY <1>1, <2>2
    <3>2. q[k] \in Texts(q)
      BY <1>1, <3>1, <2>2 DEF Texts
    <3>3. CASE p[i] = 0
      BY <3>1, <3>3
    <3>4. CASE p[i] # 0
      <4>1. p[i] \in Texts(p)
        BY <1>1, <2>2, <3>4 DEF Texts
      <4> QED
        BY <1>4, <3>1, <3>2, <4>1 DEF Before
    <3> QED
      BY <3>3, <3>4
  <2>3. ASSUME NEW h \in 1..n, NEW k \in 1..n, i = m + h, j = m + k
        PROVE  r[i] < r[j]
    <3>1. h < k
      BY <1>1, <2>3
    <3> QED
      BY <1>1, <1>4, <2>3, <3>1 DEF inOrder
  <2> QED
    BY <1>1, <2>1, <2>2, <2>3
<1> QED
  BY <1>1, <1>2, <1>3, <1>4 DEF r

(* Cutting a queue after n commits, and dropping the empty one that        *)
(* follows them if there is one, loses no text and keeps the order.        *)
LEMMA Cut ==
    ASSUME NEW S \in SUBSET Nat, NEW q \in Seq(S), NEW n \in 0..Len(q),
           n < Len(q) => q[n + 1] = 0
    PROVE  LET h == SubSeq(q, 1, n)
               r == SubSeq(q, n + 2, Len(q))
           IN  /\ h \in Seq(S) /\ r \in Seq(S)
               /\ Len(h) = n /\ \A i \in 1..n : h[i] = q[i]
               /\ n = Len(q) => r = <<>>
               /\ Texts(q) = Texts(h) \cup Texts(r)
               /\ inOrder(q) => /\ inOrder(h) /\ inOrder(r)
                                /\ Before(Texts(h), Texts(r))
<1> DEFINE h == SubSeq(q, 1, n)
           r == SubSeq(q, n + 2, Len(q))
           z == IF n < Len(q) THEN <<0>> ELSE <<>>
<1>1. /\ Len(q) \in Nat /\ n \in Nat /\ n <= Len(q)
      /\ \A i \in 1..Len(q) : q[i] \in S /\ q[i] \in Nat
  <2>1. Len(q) \in Nat /\ n \in Nat /\ n <= Len(q)
    BY LenProperties
  <2>2. \A i \in 1..Len(q) : q[i] \in S
    BY ElementOfSeq
  <2> QED
    BY <2>1, <2>2
<1>2. /\ h \in Seq(S) /\ Len(h) = n /\ \A i \in 1..n : h[i] = q[i]
      /\ h \in Seq(Nat)
  BY <1>1
<1>3. /\ r \in Seq(S) /\ r \in Seq(Nat)
      /\ Len(r) = IF n + 2 <= Len(q) THEN Len(q) - n - 1 ELSE 0
      /\ \A i \in 1..Len(r) : r[i] = q[n + 1 + i]
  <2>1. CASE n + 2 <= Len(q)
    BY <1>1, <2>1
  <2>2. CASE ~ (n + 2 <= Len(q))
    <3>1. r = <<>>
      BY <1>1, <2>2, SubSeqProperties
    <3> QED
      BY <1>1, <2>2, <3>1
  <2> QED
    BY <2>1, <2>2
<1>4. n = Len(q) => r = <<>>
  BY <1>1, <1>3
<1>5. z \in Seq(Nat) /\ inOrder(z) /\ Texts(z) = {}
  <2>1. inOrder(<<0>>) /\ Texts(<<0>>) = {} /\ <<0>> \in Seq(Nat)
    BY DEF inOrder, Texts
  <2> QED
    BY <2>1, TextsOfEmpty, InOrderEmpty
<1>6. q = h \o (z \o r)
  <2>1. CASE n < Len(q)
    <3>1. z = <<0>>
      BY <2>1
    <3> HIDE DEF h, r, z
    <3>2. /\ z \o r \in Seq(Nat) /\ Len(z \o r) = Len(r) + 1
          /\ \A i \in 1..(Len(r) + 1) :
                (z \o r)[i] = IF i = 1 THEN 0 ELSE r[i - 1]
      BY <1>3, <3>1
    <3> DEFINE t == z \o r
    <3> HIDE DEF t
    <3>3. /\ h \o t \in Seq(Nat) /\ Len(h \o t) = n + Len(t)
          /\ \A i \in 1..(n + Len(t)) :
                (h \o t)[i] = IF i <= n THEN h[i] ELSE t[i - n]
      <4>1. t \in Seq(Nat)
        BY <3>2 DEF t
      <4> QED
        BY <1>2, <4>1, ConcatProperties
    <3>4. Len(h \o t) = Len(q)
      BY <1>1, <1>3, <2>1, <3>2, <3>3 DEF t
    <3>5. ASSUME NEW i \in 1..Len(q) PROVE (h \o t)[i] = q[i]
      <4>1. CASE i <= n
        BY <1>1, <1>2, <3>3, <3>4, <4>1
      <4>2. CASE i = n + 1
        <5>1. t[1] = 0 /\ i - n = 1
          BY <1>1, <1>3, <3>2, <4>2 DEF t
        <5> QED
          BY <1>1, <2>1, <3>3, <3>4, <4>2, <5>1
      <4>3. CASE i > n + 1
        <5> DEFINE j == i - n
        <5>1. /\ j \in 1..(Len(r) + 1) /\ j # 1 /\ j - 1 \in 1..Len(r)
              /\ n + 1 + (j - 1) = i
          BY <1>1, <1>3, <4>3
        <5>2. t[j] = r[j - 1]
          BY <3>2, <5>1 DEF t
        <5>3. r[j - 1] = q[i]
          BY <1>3, <5>1
        <5> QED
          BY <1>1, <3>3, <3>4, <4>3, <5>2, <5>3
      <4>4. i <= n \/ i = n + 1 \/ i > n + 1
        BY <1>1
      <4> QED
        BY <4>1, <4>2, <4>3, <4>4
    <3>6. q \in Seq(Nat)
      BY <1>1, SeqMonotonic
    <3>7. h \o t = q
      BY <3>3, <3>4, <3>5, <3>6, SeqEqual
    <3> QED
      BY <3>7 DEF t
  <2>2. CASE n = Len(q)
    <3>1. z = <<>> /\ r = <<>> /\ h = q
      BY <1>1, <1>2, <1>4, <2>2, SeqEqual
    <3>2. q \o (<<>> \o <<>>) = q
      BY ConcatEmptySeq
    <3> QED
      BY <3>1, <3>2
  <2>3. n < Len(q) \/ n = Len(q)
    BY <1>1
  <2> QED
    BY <2>1, <2>2, <2>3
<1> HIDE DEF h, r, z
<1>7. /\ z \o r \in Seq(Nat)
      /\ Texts(z \o r) = Texts(r) /\ (inOrder(z \o r) <=> inOrder(r))
  <2>1. Before(Texts(z), Texts(r))
    BY <1>5 DEF Before
  <2>2. /\ z \o r \in Seq(Nat)
        /\ Texts(z \o r) = Texts(z) \cup Texts(r)
        /\ inOrder(z \o r) <=> /\ inOrder(z) /\ inOrder(r)
                                /\ Before(Texts(z), Texts(r))
    BY <1>3, <1>5, Concatenation
  <2> QED
    BY <1>5, <2>1, <2>2
<1>8. Texts(q) = Texts(h) \cup Texts(r)
  BY <1>2, <1>6, <1>7, Concatenation
<1>9. inOrder(q) => /\ inOrder(h) /\ inOrder(r)
                    /\ Before(Texts(h), Texts(r))
  BY <1>2, <1>6, <1>7, Concatenation
<1> QED
  BY <1>2, <1>3, <1>4, <1>8, <1>9 DEF h, r

(* A queue of commits with no empty one among them.                        *)
LEMMA NoEmptyCommit ==
    ASSUME NEW S \in SUBSET Nat, NEW q \in Seq(S \cup {0}),
           \A i \in 1..Len(q) : q[i] # 0
    PROVE  q \in Seq(S)
<1>1. \A i \in 1..Len(q) : q[i] \in S
  BY ElementOfSeq
<1>2. q = [i \in 1..Len(q) |-> q[i]]
  OBVIOUS
<1> QED
  BY <1>1, <1>2

(* Which of the texts handed to a document reach it, keeps their order.    *)
LEMMA Written ==
    ASSUME NEW S \in SUBSET Nat, NEW h \in Seq(S), NEW w \in Seq(S \cup {0}),
           Len(w) = Len(h), \A i \in 1..Len(h) : w[i] \in {0, h[i]}
    PROVE  /\ Texts(w) \subseteq Texts(h)
           /\ inOrder(h) => inOrder(w)
<1>1. /\ DOMAIN h = 1..Len(h) /\ DOMAIN w = 1..Len(h)
      /\ \A i \in 1..Len(h) : h[i] \in Nat
  <2>1. DOMAIN h = 1..Len(h) /\ \A i \in 1..Len(h) : h[i] \in S
    BY ElementOfSeq
  <2>2. DOMAIN w = 1..Len(w)
    BY LenProperties
  <2> QED
    BY <2>1, <2>2
<1>2. Texts(w) \subseteq Texts(h)
  BY <1>1 DEF Texts
<1>3. ASSUME inOrder(h), NEW i \in 1..Len(h), NEW j \in 1..Len(h), i < j, w[j] # 0
      PROVE  w[i] < w[j]
  <2>1. w[j] = h[j] /\ h[i] < h[j]
    BY <1>1, <1>3 DEF inOrder
  <2>2. w[i] = 0 \/ w[i] = h[i]
    OBVIOUS
  <2> QED
    BY <1>1, <1>3, <2>1, <2>2
<1> QED
  BY <1>1, <1>2, <1>3 DEF inOrder

-----------------------------------------------------------------------------
(* What every step of a session keeps.                                     *)

(* Each of the commits 1..n is in exactly one of five sets. *)
Parted(n, written, queued, cleared, missed, gone) ==
    /\ 1..n = written \cup queued \cup cleared \cup missed \cup gone
    /\ written \cap (queued \cup cleared \cup missed \cup gone) = {}
    /\ queued \cap (cleared \cup missed \cup gone) = {}
    /\ cleared \cap (missed \cup gone) = {}
    /\ missed \cap gone = {}

Sound(s) ==
    /\ s \in Ime
    /\ s.comp = NoContext => s.shown = NoPreedit
    /\ inOrder(s.delivered) /\ inOrder(s.queue)
    /\ Before(Texts(s.delivered), Texts(s.queue))
    /\ Parted(s.made, Texts(s.delivered), Texts(s.queue),
              s.cleared, s.missed, s.gone)
    /\ ~up => s.queue = <<>>
    /\ ~EmptyCommits => s.queue \in Seq(Commits)

SameCommits(s, t) ==
    /\ t.queue = s.queue /\ t.made = s.made /\ t.delivered = s.delivered
    /\ t.cleared = s.cleared /\ t.missed = s.missed /\ t.gone = s.gone
    /\ t.refused = s.refused

SamePanel(s, t) ==
    t.preedit = s.preedit /\ t.list = s.list /\ t.fresh = s.fresh

(* A composition that is in reach of a session stays in reach of it, and   *)
(* no commit misses the document meanwhile but those it refuses.           *)
Keeps(s, t) ==
    /\ t.refused = s.refused
    /\ ctx # NoContext /\ s.comp \in {NoContext, ctx} =>
          /\ t.comp \in {NoContext, ctx}
          /\ t.missed \subseteq s.missed \cup s.refused

LEMMA KeepsOn ==
    ASSUME NEW s, NEW t, NEW u, Keeps(s, t), Keeps(t, u)
    PROVE  Keeps(s, u)
BY DEF Keeps

(* A session runs on the context that has the sink, if one has.            *)
Session(c) == c \in Contexts /\ (ctx # NoContext => c = ctx)

(* Commits are numbered, and so are the texts of a queue.                  *)
LEMMA CommitTypes ==
    /\ Commits \subseteq Nat /\ Commits \cup {0} \subseteq Nat
    /\ MaxCommits \in Nat
    /\ \A q \in Seq(Commits \cup {0}) :
          /\ q \in Seq(Nat) /\ Len(q) \in Nat
          /\ Texts(q) \subseteq Commits
    /\ \A q \in Seq(Commits) :
          /\ q \in Seq(Nat) /\ Len(q) \in Nat /\ q \in Seq(Commits \cup {0})
          /\ Texts(q) \subseteq Commits
<1>1. /\ Commits \subseteq Nat /\ Commits \cup {0} \subseteq Nat
      /\ MaxCommits \in Nat
  BY TextServiceAssumption DEF Commits
<1>2. ASSUME NEW q \in Seq(Commits \cup {0})
      PROVE  /\ q \in Seq(Nat) /\ Len(q) \in Nat
             /\ Texts(q) \subseteq Commits
  <2>1. q \in Seq(Nat) /\ Len(q) \in Nat
    <3> DEFINE T == Commits \cup {0}
    <3>1. T \subseteq Nat /\ q \in Seq(T)
      BY <1>1
    <3> HIDE DEF T
    <3> QED
      BY <3>1, SeqMonotonic, LenProperties
  <2>2. \A i \in 1..Len(q) : q[i] \in Commits \cup {0}
    BY ElementOfSeq
  <2>3. \A x \in Texts(q) : x # 0 /\ \E i \in 1..Len(q) : x = q[i]
    BY <2>1, TextsIn
  <2> QED
    BY <2>1, <2>2, <2>3
<1>3. ASSUME NEW q \in Seq(Commits)
      PROVE  q \in Seq(Commits \cup {0})
  <2> DEFINE S == Commits
             T == Commits \cup {0}
  <2>1. S \subseteq T /\ q \in Seq(S)
    OBVIOUS
  <2> HIDE DEF S, T
  <2>2. q \in Seq(T)
    BY <2>1, SeqMonotonic
  <2> QED
    BY <2>2 DEF T
<1> QED
  BY <1>1, <1>2, <1>3

(* A step that leaves the commits alone.                                   *)
LEMMA Undisturbed ==
    ASSUME NEW s, NEW t, Sound(s), t \in Ime, SameCommits(s, t),
           t.comp = NoContext => t.shown = NoPreedit
    PROVE  Sound(t)
BY DEF Sound, SameCommits

LEMMA ReachStep ==
    ASSUME NEW s, Sound(s)
    PROVE  /\ Sound(Reach(s)) /\ SameCommits(s, Reach(s))
           /\ Reach(s).comp = s.comp /\ Reach(s).shown = s.shown
           /\ Reach(s).win = s.win
           /\ Reach(s) = s \/ PanelEmpty(Reach(s))
           /\ ~s.fresh => Reach(s) = s
           /\ up => ~Reach(s).fresh
<1> DEFINE t == Reach(s)
<1>1. s \in Ime /\ (s.comp = NoContext => s.shown = NoPreedit)
  BY DEF Sound
<1>2. /\ t \in Ime /\ SameCommits(s, t)
      /\ t.comp = s.comp /\ t.shown = s.shown /\ t.win = s.win
      /\ t = s \/ PanelEmpty(t)
      /\ ~s.fresh => t = s
      /\ up => ~t.fresh
  BY <1>1 DEF Reach, Ime, SameCommits, PanelEmpty, NoList, NoPreedit
<1> QED
  BY <1>1, <1>2, Undisturbed

LEMMA KeepsReach ==
    ASSUME NEW s, Sound(s) PROVE Keeps(s, Reach(s))
BY ReachStep DEF Keeps, SameCommits

(* The window and the composition.                                         *)
LEMMA hideWindowStep ==
    ASSUME NEW s, Sound(s)
    PROVE  LET t == hideWindow(s)
           IN  /\ Sound(t) /\ SameCommits(s, t) /\ SamePanel(s, t)
               /\ t.comp = s.comp /\ t.shown = s.shown /\ t.win = NoList
<1> DEFINE t == hideWindow(s)
<1>1. s \in Ime /\ (s.comp = NoContext => s.shown = NoPreedit)
  BY DEF Sound
<1>2. /\ t \in Ime /\ SameCommits(s, t) /\ SamePanel(s, t)
      /\ t.comp = s.comp /\ t.shown = s.shown /\ t.win = NoList
  BY <1>1 DEF hideWindow, Ime, SameCommits, SamePanel, NoList
<1> QED
  BY <1>1, <1>2, Undisturbed

LEMMA syncCandidateWindowStep ==
    ASSUME NEW s, Sound(s)
    PROVE  LET t == syncCandidateWindow(s)
           IN  /\ Sound(t) /\ SameCommits(s, t) /\ SamePanel(s, t)
               /\ t.comp = s.comp /\ t.shown = s.shown
               /\ t.win \in {NoList, s.list}
               /\ ctx # NoContext => t.win = s.list
<1> DEFINE t == syncCandidateWindow(s)
<1>1. s \in Ime /\ (s.comp = NoContext => s.shown = NoPreedit)
  BY DEF Sound
<1>2. /\ t \in Ime /\ SameCommits(s, t) /\ SamePanel(s, t)
      /\ t.comp = s.comp /\ t.shown = s.shown
      /\ t.win \in {NoList, s.list}
      /\ ctx # NoContext => t.win = s.list
  BY <1>1 DEF syncCandidateWindow, Ime, SameCommits, SamePanel, NoList
<1> QED
  BY <1>1, <1>2, Undisturbed

LEMMA updatePreeditTextStep ==
    ASSUME NEW s, Sound(s), NEW c \in Contexts
    PROVE  LET t == updatePreeditText(s, c)
           IN  /\ Sound(t) /\ SameCommits(s, t) /\ SamePanel(s, t)
               /\ t.comp = s.comp /\ t.win = s.win
               /\ s.comp = c => t.shown = s.preedit
<1> DEFINE t == updatePreeditText(s, c)
<1>1. s \in Ime /\ (s.comp = NoContext => s.shown = NoPreedit)
  BY DEF Sound
<1>2. c # NoContext
  BY TextServiceAssumption
<1>3. /\ t \in Ime /\ SameCommits(s, t) /\ SamePanel(s, t)
      /\ t.comp = s.comp /\ t.win = s.win
      /\ s.comp = c => t.shown = s.preedit
      /\ s.comp # c => t.shown = s.shown
  BY <1>1 DEF updatePreeditText, Ime, SameCommits, SamePanel
<1> QED
  BY <1>1, <1>2, <1>3, Undisturbed

LEMMA dropCompositionStep ==
    ASSUME NEW s, Sound(s)
    PROVE  LET t == dropComposition(s)
           IN  /\ Sound(t) /\ SameCommits(s, t) /\ SamePanel(s, t)
               /\ t.comp = NoContext /\ t.shown = NoPreedit /\ t.win = NoList
<1> DEFINE t == dropComposition(s)
<1>1. s \in Ime
  BY DEF Sound
<1>2. /\ t \in Ime /\ SameCommits(s, t) /\ SamePanel(s, t)
      /\ t.comp = NoContext /\ t.shown = NoPreedit /\ t.win = NoList
  BY <1>1 DEF dropComposition, hideWindow, Ime, SameCommits, SamePanel,
              NoList, NoPreedit
<1> QED
  BY <1>2, Undisturbed

LEMMA ensureCompositionStartedStep ==
    ASSUME NEW s, Sound(s), NEW c \in Contexts,
           NEW t \in ensureCompositionStarted(s, c)
    PROVE  /\ Sound(t) /\ SameCommits(s, t) /\ SamePanel(s, t)
           /\ t.win = s.win
           /\ s.comp # NoContext => t = s
           /\ s.comp = NoContext => t.comp \in {NoContext, c}
           /\ s.comp = NoContext /\ ~StartMayFail => t.comp = c
<1>1. s \in Ime /\ (s.comp = NoContext => s.shown = NoPreedit)
  BY DEF Sound
<1>2. t = s \/ (s.comp = NoContext /\ t = [s EXCEPT !.comp = c])
  BY DEF ensureCompositionStarted
<1>3. /\ t \in Ime /\ SameCommits(s, t) /\ SamePanel(s, t)
      /\ t.win = s.win /\ t.shown = s.shown
      /\ t.comp = s.comp \/ (s.comp = NoContext /\ t.comp = c)
  BY <1>1, <1>2 DEF Ime, SameCommits, SamePanel
<1>4. c # NoContext
  BY TextServiceAssumption
<1>5. s.comp = NoContext /\ ~StartMayFail => t.comp = c
  BY <1>1 DEF ensureCompositionStarted, Ime
<1>6. s.comp # NoContext => t = s
  BY <1>2
<1>7. Sound(t)
  BY <1>1, <1>3, <1>4, Undisturbed
<1> QED
  BY <1>3, <1>5, <1>6, <1>7

(* The document brought up to date after a composition was asked for.      *)
LEMMA FollowStep ==
    ASSUME NEW s, Sound(s), NEW c, Session(c),
           NEW t \in ensureCompositionStarted(s, c)
    PROVE  LET u == syncCandidateWindow(updatePreeditText(t, c))
           IN  /\ Sound(u) /\ SameCommits(s, u) /\ SamePanel(s, u)
               /\ Keeps(s, u)
               /\ u.comp = t.comp
               /\ u.win \in {NoList, s.list}
               /\ ctx # NoContext => u.win = s.list
               /\ u.comp = c => u.shown = s.preedit
<1>1. c \in Contexts
  BY DEF Session
<1>2. /\ Sound(t) /\ SameCommits(s, t) /\ SamePanel(s, t)
      /\ s.comp # NoContext => t = s
      /\ s.comp = NoContext => t.comp \in {NoContext, c}
  BY <1>1, ensureCompositionStartedStep
<1> DEFINE v == updatePreeditText(t, c)
           u == syncCandidateWindow(v)
<1>3. /\ Sound(v) /\ SameCommits(t, v) /\ SamePanel(t, v)
      /\ v.comp = t.comp
      /\ t.comp = c => v.shown = t.preedit
  BY <1>1, <1>2, updatePreeditTextStep
<1> HIDE DEF v
<1>4. /\ Sound(u) /\ SameCommits(v, u) /\ SamePanel(v, u)
      /\ u.comp = v.comp /\ u.shown = v.shown
      /\ u.win \in {NoList, v.list}
      /\ ctx # NoContext => u.win = v.list
  BY <1>3, syncCandidateWindowStep
<1> HIDE DEF u
<1>5. SameCommits(s, u) /\ SamePanel(s, u) /\ t.list = s.list
      /\ v.list = s.list /\ t.preedit = s.preedit
  BY <1>2, <1>3, <1>4 DEF SameCommits, SamePanel
<1>6. Keeps(s, u)
  BY <1>2, <1>3, <1>4, <1>5 DEF Keeps, SameCommits, Session
<1>7. /\ Sound(u) /\ SameCommits(s, u) /\ SamePanel(s, u)
      /\ Keeps(s, u)
      /\ u.comp = t.comp
      /\ u.win \in {NoList, s.list}
      /\ ctx # NoContext => u.win = s.list
      /\ u.comp = c => u.shown = s.preedit
  BY <1>3, <1>4, <1>5, <1>6
<1> QED
  BY <1>7 DEF u, v

-----------------------------------------------------------------------------
(* The engine cleared.                                                     *)
LEMMA clearStep ==
    ASSUME NEW s, Sound(s)
    PROVE  LET t == clear(s)
           IN  /\ Sound(t) /\ Keeps(s, t)
               /\ t.comp = s.comp /\ t.shown = s.shown /\ t.win = s.win
               /\ t.queue = <<>>
               /\ s.queue = <<>> => t.cleared = s.cleared
               /\ ~up => t = s
               /\ up => PanelEmpty(t) /\ ~t.fresh
<1> DEFINE t == clear(s)
<1>1. CASE ~up
  <2>1. t = s /\ s.queue = <<>>
    BY <1>1 DEF clear, Sound
  <2> QED
    BY <1>1, <2>1 DEF Keeps
<1>2. CASE up
  <2>1. s \in Ime /\ s.queue \in Seq(Commits \cup {0})
    BY DEF Sound, Ime
  <2>2. Texts(s.queue) \subseteq Commits
    BY <2>1, CommitTypes
  <2>. <<>> \in Seq(Commits \cup {0})
    OBVIOUS
  <2>3. /\ t \in Ime
        /\ t.comp = s.comp /\ t.shown = s.shown /\ t.win = s.win
        /\ t.preedit = NoPreedit /\ t.list = NoList /\ t.fresh = FALSE
        /\ t.queue = <<>> /\ t.made = s.made /\ t.delivered = s.delivered
        /\ t.cleared = s.cleared \cup Texts(s.queue)
        /\ t.missed = s.missed /\ t.refused = s.refused /\ t.gone = s.gone
    <3> HIDE DEF Commits
    <3> QED
      BY <1>2, <2>1, <2>2 DEF clear, Ime, NoPreedit, NoList
  <2>4. Texts(t.queue) = {} /\ inOrder(t.queue)
    BY <2>3, TextsOfEmpty, InOrderEmpty
  <2>5. Before(Texts(t.delivered), Texts(t.queue))
    BY <2>4 DEF Before
  <2>6. Parted(t.made, Texts(t.delivered), Texts(t.queue),
               t.cleared, t.missed, t.gone)
    <3>1. Parted(s.made, Texts(s.delivered), Texts(s.queue),
                 s.cleared, s.missed, s.gone)
      BY DEF Sound
    <3> QED
      BY <3>1, <2>3, <2>4 DEF Parted
  <2>7. Sound(t)
    BY <2>3, <2>4, <2>5, <2>6 DEF Sound
  <2>8. s.queue = <<>> => t.cleared = s.cleared
    BY <2>3, TextsOfEmpty
  <2>9. PanelEmpty(t) /\ Keeps(s, t)
    BY <2>3 DEF PanelEmpty, Keeps
  <2> QED
    BY <1>2, <2>3, <2>7, <2>8, <2>9
<1> QED
  BY <1>1, <1>2

(* endCompositionCancel and endCompositionCommit.                          *)
LEMMA endCompositionStep ==
    ASSUME NEW s, Sound(s)
    PROVE  LET t == endCompositionCancel(s)
           IN  /\ endCompositionCommit(s) = t
               /\ Sound(t) /\ Keeps(s, t)
               /\ t.comp = NoContext /\ t.shown = NoPreedit /\ t.win = NoList
               /\ t.queue = <<>>
               /\ s.queue = <<>> => t.cleared = s.cleared
               /\ up => PanelEmpty(t) /\ ~t.fresh
               /\ t.fresh => s.fresh
<1> DEFINE d == dropComposition(s)
           t == clear(d)
<1>1. /\ Sound(d) /\ SameCommits(s, d) /\ SamePanel(s, d)
      /\ d.comp = NoContext /\ d.shown = NoPreedit /\ d.win = NoList
  BY dropCompositionStep
<1> HIDE DEF d
<1>2. /\ Sound(t) /\ Keeps(d, t)
      /\ t.comp = d.comp /\ t.shown = d.shown /\ t.win = d.win
      /\ t.queue = <<>>
      /\ d.queue = <<>> => t.cleared = d.cleared
      /\ ~up => t = d
      /\ up => PanelEmpty(t) /\ ~t.fresh
  BY <1>1, clearStep
<1> HIDE DEF t
<1>3. Keeps(s, t)
  BY <1>1, <1>2 DEF Keeps, SameCommits
<1>4. endCompositionCancel(s) = t /\ endCompositionCommit(s) = t
  BY DEF endCompositionCancel, endCompositionCommit, t, d
<1>5. /\ s.queue = <<>> => t.cleared = s.cleared
      /\ t.fresh => s.fresh
  BY <1>1, <1>2 DEF SameCommits, SamePanel
<1> QED
  BY <1>1, <1>2, <1>3, <1>4, <1>5

(* What the engine commits is numbered after everything before it.         *)
LEMMA EmissionsAre ==
    ASSUME NEW s, Sound(s), NEW q \in Emissions(s)
    PROVE  /\ q \in Seq(Commits \cup {0})
           /\ ~EmptyCommits => q \in Seq(Commits)
           /\ inOrder(q)
           /\ \E k \in 0..2 : /\ Texts(q) = (s.made + 1)..(s.made + k)
                              /\ Cardinality(Texts(q)) = k
                              /\ s.made + k <= MaxCommits
<1> DEFINE m == s.made
<1>1. m \in Nat /\ m <= MaxCommits /\ MaxCommits \in Nat
  BY CommitTypes DEF Sound, Ime
<1> HIDE DEF m
<1>2. CASE q = <<>>
  <2>1. Texts(q) = (m + 1)..(m + 0)
    <3>1. \A x \in (m + 1)..(m + 0) : FALSE
      BY <1>1
    <3> QED
      BY <1>2, <3>1, TextsOfEmpty
  <2>2. Cardinality({}) = 0
    BY FS_EmptySet
  <2>3. q \in Seq(Commits \cup {0}) /\ q \in Seq(Commits) /\ inOrder(q)
    BY <1>2, InOrderEmpty
  <2>4. Cardinality(Texts(q)) = 0 /\ m + 0 <= MaxCommits /\ 0 \in 0..2
    BY <1>1, <1>2, <2>2, TextsOfEmpty
  <2> QED
    BY <2>1, <2>3, <2>4 DEF m
<1>3. CASE m < MaxCommits /\ q = <<m + 1>>
  <2>1. m + 1 \in Commits /\ m + 1 # 0
    BY <1>1, <1>3 DEF Commits
  <2>2. Texts(q) = {m + 1}
    BY <1>3, <2>1 DEF Texts
  <2>3. Cardinality({m + 1}) = 1
    BY FS_Singleton
  <2>4. Texts(q) = (m + 1)..(m + 1)
    BY <1>1, <2>2
  <2>5. q \in Seq(Commits) /\ q \in Seq(Commits \cup {0})
    BY <1>3, <2>1
  <2>6. inOrder(q)
    BY <1>3 DEF inOrder
  <2>7. Cardinality(Texts(q)) = 1 /\ m + 1 <= MaxCommits /\ 1 \in 0..2
    BY <1>1, <1>3, <2>2, <2>3
  <2> QED
    BY <2>4, <2>5, <2>6, <2>7 DEF m
<1>4. CASE m + 1 < MaxCommits /\ q = <<m + 1, m + 2>>
  <2>1. m + 1 \in Commits /\ m + 2 \in Commits /\ m + 1 # 0 /\ m + 2 # 0
    BY <1>1, <1>4 DEF Commits
  <2>2. Texts(q) = {m + 1, m + 2}
    BY <1>4, <2>1 DEF Texts
  <2>3. Cardinality({m + 1} \cup {m + 2}) = 2
    <3>1. IsFiniteSet({m + 1}) /\ Cardinality({m + 1}) = 1
      BY FS_Singleton
    <3>2. m + 2 \notin {m + 1}
      BY <1>1
    <3>3. Cardinality({m + 1} \cup {m + 2}) = Cardinality({m + 1}) + 1
      BY <3>1, <3>2, FS_AddElement
    <3> QED
      BY <3>1, <3>3
  <2>4. Texts(q) = (m + 1)..(m + 2)
    BY <1>1, <2>2
  <2>5. q \in Seq(Commits) /\ q \in Seq(Commits \cup {0})
    BY <1>4, <2>1
  <2>6. inOrder(q)
    BY <1>1, <1>4 DEF inOrder
  <2>7. Cardinality(Texts(q)) = 2 /\ m + 2 <= MaxCommits /\ 2 \in 0..2
    <3>1. {m + 1, m + 2} = {m + 1} \cup {m + 2}
      OBVIOUS
    <3> QED
      BY <1>1, <1>4, <2>2, <2>3, <3>1
  <2> QED
    BY <2>4, <2>5, <2>6, <2>7 DEF m
<1>5. CASE EmptyCommits /\ m < MaxCommits /\ q = <<0, m + 1>>
  <2>1. m + 1 \in Commits /\ m + 1 # 0
    BY <1>1, <1>5 DEF Commits
  <2>2. Texts(q) = {m + 1}
    BY <1>5, <2>1 DEF Texts
  <2>3. Cardinality({m + 1}) = 1
    BY FS_Singleton
  <2>4. Texts(q) = (m + 1)..(m + 1)
    BY <1>1, <2>2
  <2>5. q \in Seq(Commits \cup {0})
    BY <1>5, <2>1
  <2>6. inOrder(q)
    BY <1>1, <1>5 DEF inOrder
  <2>7. Cardinality(Texts(q)) = 1 /\ m + 1 <= MaxCommits /\ 1 \in 0..2
    BY <1>1, <1>5, <2>2, <2>3
  <2> QED
    BY <1>5, <2>4, <2>5, <2>6, <2>7 DEF m
<1> QED
  BY <1>2, <1>3, <1>4, <1>5 DEF Emissions, m

LEMMA EmitStep ==
    ASSUME NEW s, Sound(s), up, NEW q \in Emissions(s)
    PROVE  LET t == Emit(s, q)
           IN  /\ Sound(t) /\ SamePanel(s, t)
               /\ t.comp = s.comp /\ t.shown = s.shown /\ t.win = s.win
               /\ t.queue = s.queue \o q
               /\ t.missed = s.missed /\ t.refused = s.refused
               /\ t.cleared = s.cleared
<1> DEFINE t == Emit(s, q)
           m == s.made
<1>1. /\ s \in Ime /\ s.queue \in Seq(Commits \cup {0}) /\ m \in Nat
      /\ s.delivered \in Seq(Commits \cup {0})
  BY CommitTypes DEF Sound, Ime
<1>2. /\ q \in Seq(Commits \cup {0})
      /\ ~EmptyCommits => q \in Seq(Commits)
      /\ inOrder(q)
  BY EmissionsAre
<1>3. PICK k \in 0..2 : /\ Texts(q) = (m + 1)..(m + k)
                        /\ Cardinality(Texts(q)) = k
                        /\ m + k <= MaxCommits
  BY EmissionsAre
<1>4. s.queue \o q \in Seq(Commits \cup {0})
  BY <1>1, <1>2, ConcatProperties
<1>5. /\ t \in Ime /\ SamePanel(s, t)
      /\ t.comp = s.comp /\ t.shown = s.shown /\ t.win = s.win
      /\ t.queue = s.queue \o q
      /\ t.made = m + k /\ t.delivered = s.delivered
      /\ t.missed = s.missed /\ t.refused = s.refused
      /\ t.cleared = s.cleared /\ t.gone = s.gone
  <2>1. m + k \in 0..MaxCommits
    BY <1>1, <1>3, CommitTypes
  <2> QED
    BY <1>1, <1>3, <1>4, <2>1 DEF Emit, Ime, SamePanel
<1>6. Parted(m, Texts(s.delivered), Texts(s.queue),
             s.cleared, s.missed, s.gone)
  BY DEF Sound
<1>7. /\ Texts(s.delivered) \subseteq 1..m /\ Texts(s.queue) \subseteq 1..m
      /\ s.cleared \subseteq 1..m /\ s.missed \subseteq 1..m
      /\ s.gone \subseteq 1..m
  BY <1>6 DEF Parted
<1>8. /\ s.queue \in Seq(Nat) /\ q \in Seq(Nat)
  BY <1>1, <1>2, CommitTypes
<1>9. /\ Texts(t.queue) = Texts(s.queue) \cup Texts(q)
      /\ inOrder(t.queue) <=> /\ inOrder(s.queue) /\ inOrder(q)
                              /\ Before(Texts(s.queue), Texts(q))
  BY <1>5, <1>8, Concatenation
<1>10. \A x \in 1..m, y \in Texts(q) : x < y
  BY <1>1, <1>3
<1>11. /\ Before(Texts(s.queue), Texts(q))
       /\ Before(Texts(s.delivered), Texts(q))
  BY <1>7, <1>10 DEF Before
<1>12. inOrder(s.queue) /\ Before(Texts(s.delivered), Texts(s.queue))
  BY DEF Sound
<1>13. inOrder(t.queue) /\ Before(Texts(t.delivered), Texts(t.queue))
  BY <1>2, <1>5, <1>9, <1>11, <1>12 DEF Before
<1>14. Parted(t.made, Texts(t.delivered), Texts(t.queue),
              t.cleared, t.missed, t.gone)
  <2>1. 1..(m + k) = 1..m \cup Texts(q) /\ 1..m \cap Texts(q) = {}
    <3>1. 1..(m + k) = 1..m \cup (m + 1)..(m + k)
      BY <1>1
    <3>2. 1..m \cap (m + 1)..(m + k) = {}
      BY <1>1
    <3> QED
      BY <1>3, <3>1, <3>2
  <2>2. /\ Texts(t.queue) = Texts(s.queue) \cup Texts(q)
        /\ t.made = m + k
        /\ t.cleared = s.cleared /\ t.missed = s.missed
        /\ t.refused = s.refused /\ t.gone = s.gone
        /\ t.delivered = s.delivered
    BY <1>5, <1>9
  <2> QED
    BY <1>6, <1>7, <2>1, <2>2 DEF Parted
<1>15. ~EmptyCommits => t.queue \in Seq(Commits)
  <2>1. ~EmptyCommits => s.queue \in Seq(Commits)
    BY DEF Sound
  <2> QED
    BY <1>2, <1>5, <2>1, ConcatProperties
<1>16. inOrder(t.delivered) /\ (t.comp = NoContext => t.shown = NoPreedit)
  BY <1>5 DEF Sound
<1>17. Sound(t)
  BY <1>5, <1>13, <1>14, <1>15, <1>16 DEF Sound
<1> QED
  BY <1>5, <1>17

-----------------------------------------------------------------------------
(* The drain.                                                              *)

(* Where it stops: after n commits, at the end of the queue or at an empty *)
(* commit.                                                                 *)
LEMMA DrainShape ==
    ASSUME NEW s0, Sound(s0), up, NEW c
    PROVE  LET s == Reach(s0)
               q == s.queue
           IN  \E n \in 0..Len(q) :
                 /\ \A i \in 1..n : q[i] # 0
                 /\ n < Len(q) => q[n + 1] = 0
                 /\ drainCommitsAfterEngine(s0, c) =
                      [(IF n = 0 THEN s
                                 ELSE writeCommits(s, c, SubSeq(q, 1, n)))
                         EXCEPT !.queue = SubSeq(q, n + 2, Len(q))]
<1> DEFINE s == Reach(s0)
           q == s.queue
           stops == {i \in DOMAIN q : q[i] = 0}
           least == CHOOSE i \in stops : \A j \in stops : i <= j
           N == IF stops = {} THEN Len(q) ELSE least - 1
           D(n) == [(IF n = 0 THEN s
                              ELSE writeCommits(s, c, SubSeq(q, 1, n)))
                      EXCEPT !.queue = SubSeq(q, n + 2, Len(q))]
<1>1. drainCommitsAfterEngine(s0, c) = D(N)
  <2>1. CASE N = 0
    BY <2>1 DEF drainCommitsAfterEngine
  <2>2. CASE N # 0
    BY <2>2 DEF drainCommitsAfterEngine
  <2> QED
    BY <2>1, <2>2
<1>2. Sound(s)
  BY ReachStep
<1> HIDE DEF s
<1>3. q \in Seq(Commits \cup {0}) /\ Len(q) \in Nat
  BY <1>2, LenProperties DEF Sound, Ime
<1>4. DOMAIN q = 1..Len(q)
  BY <1>3
<1> HIDE DEF q
<1>5. /\ N \in 0..Len(q)
      /\ \A i \in 1..N : q[i] # 0
      /\ N < Len(q) => q[N + 1] = 0
  <2>1. CASE stops = {}
    BY <1>3, <1>4, <2>1
  <2>2. CASE stops # {}
    <3>1. stops \in SUBSET Nat
      BY <1>4
    <3>2. \E i \in stops : \A j \in stops : i <= j
      <4> HIDE DEF stops
      <4> QED
        BY <2>2, <3>1, Least
    <3>3. least \in stops /\ \A j \in stops : least <= j
      <4> HIDE DEF stops
      <4> QED
        BY <3>2
    <3> HIDE DEF least
    <3>4. least \in 1..Len(q) /\ q[least] = 0 /\ N = least - 1
      BY <1>4, <2>2, <3>3
    <3>5. \A i \in 1..Len(q) : q[i] = 0 => least <= i
      BY <1>4, <3>3
    <3> HIDE DEF N
    <3> QED
      BY <1>3, <3>4, <3>5
  <2> QED
    BY <2>1, <2>2
<1> HIDE DEF N, D
<1>6. \E n \in 0..Len(q) :
        /\ \A i \in 1..n : q[i] # 0
        /\ n < Len(q) => q[n + 1] = 0
        /\ drainCommitsAfterEngine(s0, c) = D(n)
  BY <1>1, <1>5
<1> QED
  BY <1>6 DEF D, q, s

(* Commits of the head of the queue handed to the document, and the rest   *)
(* of the queue.                                                           *)
LEMMA WriteStep ==
    ASSUME NEW s, Sound(s), up, NEW c, Session(c),
           NEW h \in Seq(Commits), NEW r \in Seq(Commits \cup {0}),
           Len(h) >= 1,
           ~EmptyCommits => r \in Seq(Commits),
           Texts(s.queue) = Texts(h) \cup Texts(r),
           inOrder(h), inOrder(r), Before(Texts(h), Texts(r))
    PROVE  LET t == [writeCommits(s, c, h) EXCEPT !.queue = r]
           IN  /\ Sound(t) /\ Keeps(s, t) /\ SamePanel(s, t)
               /\ t.comp = NoContext /\ t.shown = NoPreedit /\ t.win = NoList
               /\ t.queue = r /\ t.cleared = s.cleared
<1> DEFINE at(i) == IF i = 1 THEN s ELSE dropComposition(s)
           w == [i \in DOMAIN h |->
                    IF Writable(at(i), c, h[i]) THEN h[i] ELSE 0]
           d == dropComposition(s)
           t == [writeCommits(s, c, h) EXCEPT !.queue = r]
<1>2. t = [d EXCEPT !.delivered = d.delivered \o w,
                    !.missed = d.missed \cup (Texts(h) \ Texts(w)),
                    !.queue = r]
  BY DEF writeCommits
<1>3. /\ w \in Seq(Commits \cup {0})
      /\ Texts(w) \subseteq Texts(h)
      /\ inOrder(h) => inOrder(w)
  <2> DEFINE S == Commits
  <2>1. S \in SUBSET Nat /\ h \in Seq(S)
    BY CommitTypes
  <2> HIDE DEF S
  <2>2. DOMAIN h = 1..Len(h) /\ Len(h) \in Nat /\ \A i \in 1..Len(h) : h[i] \in S
    BY <2>1, ElementOfSeq
  <2>3. /\ DOMAIN w = 1..Len(h)
        /\ \A i \in 1..Len(h) : w[i] \in {0, h[i]} /\ w[i] \in S \cup {0}
    BY <2>2
  <2>4. w = [i \in 1..Len(h) |-> w[i]]
    BY <2>2
  <2> HIDE DEF w
  <2>5. w \in Seq(S \cup {0}) /\ Len(w) = Len(h)
    BY <2>2, <2>3, <2>4
  <2> QED
    BY <2>1, <2>3, <2>5, Written DEF S
<1>20. ASSUME ctx # NoContext, s.comp \in {NoContext, ctx}
       PROVE  Texts(h) \ Texts(w) \subseteq s.refused
  <2>1. /\ s \in Ime /\ d.comp = NoContext /\ d.refused = s.refused
    BY DEF Sound, Ime, dropComposition, hideWindow
  <2>2. ASSUME NEW i \in DOMAIN h, h[i] \notin s.refused
        PROVE  w[i] = h[i]
    BY <1>20, <2>1, <2>2 DEF Writable, Session
  <2> QED
    BY <2>2 DEF Texts
<1> HIDE DEF w
<1>4. /\ Sound(d) /\ SameCommits(s, d) /\ SamePanel(s, d)
      /\ d.comp = NoContext /\ d.shown = NoPreedit /\ d.win = NoList
  BY dropCompositionStep
<1> HIDE DEF d
<1>5. d \in Ime /\ d.delivered \in Seq(Commits \cup {0})
  BY <1>4 DEF Sound, Ime
<1>6. d.delivered \o w \in Seq(Commits \cup {0})
  BY <1>3, <1>5, ConcatProperties
<1>7. Texts(h) \subseteq Commits
  BY CommitTypes
<1>8. /\ t \in Ime
      /\ t.comp = NoContext /\ t.shown = NoPreedit /\ t.win = NoList
      /\ t.queue = r
      /\ t.preedit = d.preedit /\ t.list = d.list /\ t.fresh = d.fresh
      /\ t.made = d.made /\ t.delivered = d.delivered \o w
      /\ t.cleared = d.cleared /\ t.gone = d.gone /\ t.refused = d.refused
      /\ t.missed = d.missed \cup (Texts(h) \ Texts(w))
  <2> HIDE DEF Commits
  <2> QED
    BY <1>2, <1>4, <1>5, <1>6, <1>7 DEF Ime
<1> HIDE DEF t
<1>9. /\ d.queue = s.queue /\ d.made = s.made /\ d.delivered = s.delivered
      /\ d.cleared = s.cleared /\ d.missed = s.missed
      /\ d.refused = s.refused /\ d.gone = s.gone
      /\ SamePanel(s, d) /\ d.refused = s.refused
  BY <1>4 DEF SameCommits
<1>10. SamePanel(s, t)
  BY <1>8, <1>9 DEF SamePanel
<1>11. Keeps(s, t)
  BY <1>8, <1>9, <1>20 DEF Keeps
<1>12. /\ inOrder(s.delivered) /\ Before(Texts(s.delivered), Texts(s.queue))
       /\ Parted(s.made, Texts(s.delivered), Texts(s.queue),
                 s.cleared, s.missed, s.gone)
  BY DEF Sound
<1>13. s.delivered \in Seq(Nat) /\ w \in Seq(Nat)
  BY <1>3, <1>5, <1>9, CommitTypes
<1>14. Before(Texts(s.delivered), Texts(w))
  BY <1>3, <1>12 DEF Before
<1>15. /\ Texts(t.delivered) = Texts(s.delivered) \cup Texts(w)
       /\ inOrder(t.delivered)
  BY <1>3, <1>8, <1>9, <1>12, <1>13, <1>14, Concatenation
<1>16. Before(Texts(t.delivered), Texts(t.queue))
  BY <1>3, <1>8, <1>12, <1>15 DEF Before
<1>17. Texts(h) \cap Texts(r) = {}
  <2>1. \A x \in Texts(h) : x \in Nat
    BY <1>7, CommitTypes
  <2> QED
    BY <2>1 DEF Before
<1>18. Parted(t.made, Texts(t.delivered), Texts(t.queue),
              t.cleared, t.missed, t.gone)
  <2>1. /\ t.made = s.made /\ t.queue = r /\ t.cleared = s.cleared
        /\ t.gone = s.gone
        /\ t.missed = s.missed \cup (Texts(h) \ Texts(w))
    BY <1>8, <1>9
  <2> DEFINE H == Texts(h)
             R == Texts(r)
             W == Texts(w)
             X == Texts(s.delivered)
             Q == Texts(s.queue)
             Y == Texts(t.delivered)
  <2>2. Q = H \cup R /\ H \cap R = {} /\ W \subseteq H /\ Y = X \cup W
    BY <1>3, <1>15, <1>17
  <2>3. Parted(s.made, X, Q, s.cleared, s.missed, s.gone)
    BY <1>12
  <2> HIDE DEF H, R, W, X, Q, Y
  <2>4. Parted(s.made, Y, R, s.cleared, s.missed \cup (H \ W), s.gone)
    BY <2>2, <2>3 DEF Parted
  <2> QED
    BY <2>1, <2>4 DEF R, Y, H, W
<1>19. Sound(t)
  BY <1>8, <1>15, <1>16, <1>18 DEF Sound
<1> QED
  BY <1>8, <1>9, <1>10, <1>11, <1>19 DEF t

(* The drain keeps every commit accounted for; with no empty commit in the *)
(* queue it empties it, and a queue with a commit in it takes the          *)
(* composition and the window down.                                        *)
LEMMA DrainStep ==
    ASSUME NEW s0, Sound(s0), NEW c, Session(c)
    PROVE  LET t == drainCommitsAfterEngine(s0, c)
           IN  /\ Sound(t) /\ Keeps(s0, t) /\ SamePanel(Reach(s0), t)
               /\ t.cleared = s0.cleared
               /\ s0.queue = <<>> => t = Reach(s0)
               /\ ~EmptyCommits => t.queue = <<>>
               /\ \/ t.comp = s0.comp /\ t.shown = s0.shown /\ t.win = s0.win
                  \/ /\ t.comp = NoContext /\ t.shown = NoPreedit
                     /\ t.win = NoList
               /\ ~EmptyCommits /\ s0.queue # <<>> =>
                     /\ t.comp = NoContext /\ t.shown = NoPreedit
                     /\ t.win = NoList
<1> DEFINE t == drainCommitsAfterEngine(s0, c)
           s == Reach(s0)
           q == s.queue
<1>1. /\ Sound(s) /\ SameCommits(s0, s)
      /\ s.comp = s0.comp /\ s.shown = s0.shown /\ s.win = s0.win
  BY ReachStep
<1>2. CASE ~up
  <2>1. t = s
    BY <1>2 DEF drainCommitsAfterEngine
  <2>2. s.queue = <<>> /\ s0.queue = <<>>
    BY <1>2 DEF Sound, Reach
  <2>3. Keeps(s0, t) /\ SamePanel(s, t) /\ t.cleared = s0.cleared
    BY <1>1, <2>1 DEF Keeps, SamePanel, SameCommits
  <2> QED
    BY <1>1, <2>1, <2>2, <2>3
<1>3. CASE up
  <2>1. PICK n \in 0..Len(q) :
          /\ \A i \in 1..n : q[i] # 0
          /\ n < Len(q) => q[n + 1] = 0
          /\ t = [(IF n = 0 THEN s
                            ELSE writeCommits(s, c, SubSeq(q, 1, n)))
                    EXCEPT !.queue = SubSeq(q, n + 2, Len(q))]
    BY <1>3, DrainShape
  <2> DEFINE h == SubSeq(q, 1, n)
             r == SubSeq(q, n + 2, Len(q))
  <2>2. /\ q = s0.queue /\ s.cleared = s0.cleared /\ s.missed = s0.missed
        /\ s.refused = s0.refused
        /\ s.refused = s0.refused
    BY <1>1 DEF SameCommits
  <2> HIDE DEF s, t
  <2>3. q \in Seq(Commits \cup {0}) /\ s \in Ime /\ inOrder(q)
    BY <1>1 DEF Sound, Ime
  <2> HIDE DEF q
  <2>4. Len(q) \in Nat /\ (Len(q) = 0 <=> q = <<>>)
    BY <2>3, LenProperties, EmptySeq
  <2>5. /\ h \in Seq(Commits \cup {0}) /\ r \in Seq(Commits \cup {0})
        /\ Len(h) = n /\ \A i \in 1..n : h[i] = q[i]
        /\ n = Len(q) => r = <<>>
        /\ Texts(q) = Texts(h) \cup Texts(r)
        /\ inOrder(h) /\ inOrder(r) /\ Before(Texts(h), Texts(r))
    <3> DEFINE T == Commits \cup {0}
    <3>1. T \in SUBSET Nat /\ q \in Seq(T)
      BY <2>3, CommitTypes
    <3> HIDE DEF T
    <3>2. /\ h \in Seq(T) /\ r \in Seq(T)
          /\ Len(h) = n /\ \A i \in 1..n : h[i] = q[i]
          /\ n = Len(q) => r = <<>>
          /\ Texts(q) = Texts(h) \cup Texts(r)
          /\ inOrder(q) => /\ inOrder(h) /\ inOrder(r)
                           /\ Before(Texts(h), Texts(r))
      BY <2>1, <3>1, Cut
    <3> QED
      BY <2>3, <3>2 DEF T
  <2> HIDE DEF h
  <2>6. ~EmptyCommits => n = Len(q)
    <3> SUFFICES ASSUME ~EmptyCommits, n # Len(q) PROVE FALSE
      OBVIOUS
    <3>1. q \in Seq(Commits)
      BY <1>1 DEF Sound, q
    <3>2. n + 1 \in 1..Len(q) /\ q[n + 1] = 0
      BY <2>1, <2>4
    <3>3. q[n + 1] \in Commits
      BY <3>1, <3>2, ElementOfSeq
    <3> QED
      BY <3>2, <3>3 DEF Commits
  <2> HIDE DEF r
  <2>7. CASE n = 0
    <3>1. t = [s EXCEPT !.queue = r]
      BY <2>1, <2>7 DEF r
    <3>2. Texts(h) = {}
      <4>1. h = <<>>
        BY <2>5, <2>7, EmptySeq
      <4> QED
        BY <4>1, TextsOfEmpty
    <3>3. Texts(r) = Texts(q)
      BY <2>5, <3>2
    <3>4. /\ t \in Ime /\ t.comp = s.comp /\ t.shown = s.shown
          /\ t.win = s.win /\ t.preedit = s.preedit /\ t.list = s.list
          /\ t.fresh = s.fresh /\ t.queue = r /\ t.made = s.made
          /\ t.delivered = s.delivered /\ t.cleared = s.cleared
          /\ t.missed = s.missed /\ t.gone = s.gone /\ t.refused = s.refused
      BY <2>3, <2>5, <3>1 DEF Ime
    <3>5. ~EmptyCommits => q = <<>> /\ r = <<>>
      BY <2>4, <2>5, <2>6, <2>7
    <3>6. q = <<>> => r = <<>> /\ t = s
      <4>1. q = <<>> => r = <<>>
        BY <2>4, <2>5, <2>7
      <4>2. r = q => t = s
        BY <2>3, <3>1 DEF q, Ime
      <4> QED
        BY <4>1, <4>2
    <3>7. Sound(t)
      <4>1. <<>> \in Seq(Commits)
        OBVIOUS
      <4>2. /\ inOrder(s.delivered) /\ Before(Texts(s.delivered), Texts(q))
            /\ Parted(s.made, Texts(s.delivered), Texts(q),
                      s.cleared, s.missed, s.gone)
            /\ (s.comp = NoContext => s.shown = NoPreedit)
        BY <1>1 DEF Sound, q
      <4> QED
        BY <1>3, <2>5, <3>3, <3>4, <3>5, <4>1, <4>2 DEF Sound
    <3>8. SamePanel(s, t) /\ Keeps(s0, t)
      BY <1>1, <2>2, <3>4 DEF SamePanel, Keeps
    <3> QED
      BY <1>1, <2>2, <3>4, <3>5, <3>6, <3>7, <3>8 DEF s, t
  <2>8. CASE n # 0
    <3>1. t = [writeCommits(s, c, h) EXCEPT !.queue = r]
      BY <2>1, <2>8 DEF r, h
    <3>2. h \in Seq(Commits)
      <4>1. Commits \in SUBSET Nat
        BY CommitTypes
      <4> QED
        BY <2>1, <2>5, <4>1, NoEmptyCommit
    <3>3. Len(h) >= 1
      BY <2>5, <2>8
    <3>4. ~EmptyCommits => r \in Seq(Commits) /\ r = <<>>
      <4>1. <<>> \in Seq(Commits)
        OBVIOUS
      <4> QED
        BY <2>5, <2>6, <4>1
    <3>5. /\ Sound(t) /\ Keeps(s, t) /\ SamePanel(s, t)
          /\ t.comp = NoContext /\ t.shown = NoPreedit /\ t.win = NoList
          /\ t.queue = r /\ t.cleared = s.cleared
      <4>1. Texts(s.queue) = Texts(h) \cup Texts(r)
        BY <2>5 DEF q
      <4> QED
        BY <1>1, <1>3, <2>5, <3>1, <3>2, <3>3, <3>4, <4>1, WriteStep
    <3>6. Keeps(s0, t)
      BY <1>1, <2>2, <3>5 DEF Keeps
    <3>7. q # <<>>
      BY <2>1, <2>4, <2>8
    <3> QED
      BY <1>1, <2>2, <3>4, <3>5, <3>6, <3>7 DEF s, t
  <2> QED
    BY <2>7, <2>8
<1> QED
  BY <1>2, <1>3

-----------------------------------------------------------------------------
(* What the drain and the keys keep besides, when no fault of the host or  *)
(* of the engine is assumed.                                               *)

Faultless == ~StartMayFail /\ ~EmptyCommits /\ ~BackMayCommit /\ ~PipeMayFail

(* Only an engine that shows nothing has commits waiting; what it shows    *)
(* has a composition, and so has the window.                               *)
Fit(s) ==
    /\ ~s.fresh
    /\ s.queue # <<>> => PanelEmpty(s)
    /\ ~PanelEmpty(s) => s.comp # NoContext
    /\ s.win # NoList => s.comp # NoContext

(* The document and the window show the panel, as far as they can be       *)
(* written.                                                                *)
Shows(s) ==
    s.comp \in {NoContext, ctx} =>
        /\ s.win = s.list
        /\ IF s.comp = NoContext THEN PanelEmpty(s) ELSE s.shown = s.preedit

(* A session that ended in a drain.                                        *)
Drained(s, t) ==
    Sound(t) /\ Keeps(s, t) /\ (~EmptyCommits => t.queue = <<>>)

(* No commit is cleared in a session that started with none queued.        *)
Spares(s, t) == ~EmptyCommits /\ s.queue = <<>> => t.cleared = s.cleared

LEMMA DrainFit ==
    ASSUME NEW s, Sound(s), Fit(s), ~EmptyCommits, NEW c, Session(c)
    PROVE  /\ Fit(drainCommitsAfterEngine(s, c))
           /\ s.queue = <<>> => drainCommitsAfterEngine(s, c) = s
<1> DEFINE t == drainCommitsAfterEngine(s, c)
<1>1. Reach(s) = s
  BY ReachStep DEF Fit
<1>2. /\ SamePanel(s, t) /\ t.queue = <<>>
      /\ s.queue = <<>> => t = s
      /\ s.queue # <<>> => t.comp = NoContext /\ t.win = NoList
  BY <1>1, DrainStep
<1> HIDE DEF t
<1>3. CASE s.queue = <<>>
  BY <1>2, <1>3 DEF t
<1>4. CASE s.queue # <<>>
  BY <1>2, <1>4 DEF Fit, SamePanel, PanelEmpty, t
<1> QED
  BY <1>3, <1>4

(* A drained session whose last state before the drain is known.           *)
LEMMA DrainedBy ==
    ASSUME NEW s, NEW u, Sound(u), Keeps(s, u), NEW c, Session(c)
    PROVE  /\ Drained(s, drainCommitsAfterEngine(u, c))
           /\ drainCommitsAfterEngine(u, c).cleared = u.cleared
BY DrainStep, KeepsOn DEF Drained

LEMMA AfterKeyStep ==
    ASSUME NEW s, Sound(s), NEW c, Session(c),
           NEW t \in afterFcitxEngineKey(s, c)
    PROVE  /\ Drained(s, t)
           /\ ~EmptyCommits => t.cleared = s.cleared
           /\ /\ Faultless /\ up /\ c = ctx
              /\ s.win # NoList => s.comp # NoContext
              => Fit(t) /\ Shows(t)
<1> DEFINE d == drainCommitsAfterEngine(s, c)
<1>1. /\ Sound(d) /\ Keeps(s, d) /\ SamePanel(Reach(s), d)
      /\ d.cleared = s.cleared
      /\ ~EmptyCommits => d.queue = <<>>
      /\ (d.comp = s.comp /\ d.win = s.win) \/ d.win = NoList
  BY DrainStep
<1>2. up => ~d.fresh
  BY <1>1, ReachStep DEF SamePanel
<1>3. t \in IF PanelEmpty(d)
            THEN {IF d.comp # NoContext THEN endCompositionCancel(d) ELSE d}
            ELSE {IF u.comp = NoContext THEN u
                  ELSE syncCandidateWindow(updatePreeditText(u, c)) :
                     u \in ensureCompositionStarted(d, c)}
  BY DEF afterFcitxEngineKey
<1> HIDE DEF d
<1>4. CASE PanelEmpty(d) /\ d.comp # NoContext
  <2>1. t = endCompositionCancel(d)
    BY <1>3, <1>4
  <2>2. /\ Sound(t) /\ Keeps(d, t)
        /\ t.comp = NoContext /\ t.win = NoList /\ t.queue = <<>>
        /\ d.queue = <<>> => t.cleared = d.cleared
        /\ up => PanelEmpty(t) /\ ~t.fresh
    BY <1>1, <2>1, endCompositionStep
  <2>3. Keeps(s, t)
    BY <1>1, <2>2, KeepsOn
  <2>4. up => Fit(t) /\ Shows(t)
    BY <2>2 DEF Fit, Shows, PanelEmpty
  <2> QED
    BY <1>1, <2>2, <2>3, <2>4 DEF Drained
<1>5. CASE PanelEmpty(d) /\ d.comp = NoContext
  <2>1. t = d
    BY <1>3, <1>5
  <2>2. /\ Faultless /\ up
        /\ s.win # NoList => s.comp # NoContext
        => Fit(t) /\ Shows(t)
    BY <1>1, <1>2, <1>5, <2>1 DEF Fit, Shows, PanelEmpty, Faultless
  <2> QED
    BY <1>1, <2>1, <2>2 DEF Drained
<1>6. CASE ~PanelEmpty(d)
  <2>1. PICK u \in ensureCompositionStarted(d, c) :
          t = IF u.comp = NoContext THEN u
              ELSE syncCandidateWindow(updatePreeditText(u, c))
    BY <1>3, <1>6
  <2>2. c \in Contexts /\ c # NoContext
    BY TextServiceAssumption DEF Session
  <2>3. /\ Sound(u) /\ SameCommits(d, u) /\ SamePanel(d, u)
        /\ d.comp # NoContext => u = d
        /\ d.comp = NoContext => u.comp \in {NoContext, c}
        /\ d.comp = NoContext /\ ~StartMayFail => u.comp = c
    BY <1>1, <2>2, ensureCompositionStartedStep
  <2>4. CASE u.comp = NoContext
    <3>1. t = u /\ StartMayFail
      BY <2>1, <2>2, <2>3, <2>4
    <3>2. Keeps(d, t)
      BY <2>3, <2>4, <3>1 DEF Keeps, SameCommits
    <3>3. Keeps(s, t)
      BY <1>1, <3>2, KeepsOn
    <3>4. ~Faultless
      BY <3>1 DEF Faultless
    <3> QED
      BY <1>1, <2>3, <3>1, <3>3, <3>4 DEF Drained, SameCommits
  <2>5. CASE u.comp # NoContext
    <3>1. t = syncCandidateWindow(updatePreeditText(u, c))
      BY <2>1, <2>5
    <3>2. /\ Sound(t) /\ SameCommits(d, t) /\ SamePanel(d, t)
          /\ Keeps(d, t)
          /\ t.comp = u.comp
          /\ ctx # NoContext => t.win = d.list
          /\ t.comp = c => t.shown = d.preedit
      BY <1>1, <3>1, FollowStep
    <3>3. Keeps(s, t)
      BY <1>1, <3>2, KeepsOn
    <3>4. Faultless /\ up /\ c = ctx => Fit(t) /\ Shows(t)
      BY <1>1, <1>2, <2>2, <2>5, <3>2
         DEF Fit, Shows, SamePanel, SameCommits, Faultless
    <3> QED
      BY <1>1, <3>2, <3>3, <3>4 DEF Drained, SameCommits
  <2> QED
    BY <2>4, <2>5
<1> QED
  BY <1>4, <1>5, <1>6

(* The engine's steps: any panel, and a key it declines.                   *)
Display(s, p, l) == [s EXCEPT !.preedit = p, !.list = l]

LEMMA AnyPanelIs ==
    ASSUME NEW s
    PROVE  /\ \A t \in AnyPanel(s) :
                 \E e \in Emissions(s) \X (Preedits \cup {NoPreedit})
                                       \X (Lists \cup {NoList}) :
                    t = Display(Emit(s, e[1]), e[2], e[3])
           /\ \A q \in Emissions(s), p \in Preedits \cup {NoPreedit},
                 l \in Lists \cup {NoList} :
                    Display(Emit(s, q), p, l) \in AnyPanel(s)
<1>1. AnyPanel(s) = {Display(Emit(s, q), p, l) :
                   q \in Emissions(s),
                   p \in Preedits \cup {NoPreedit}, l \in Lists \cup {NoList}}
  BY DEF AnyPanel, Display
<1>2. ASSUME NEW t \in AnyPanel(s)
      PROVE  \E e \in Emissions(s) \X (Preedits \cup {NoPreedit})
                                  \X (Lists \cup {NoList}) :
                t = Display(Emit(s, e[1]), e[2], e[3])
  <2>1. PICK q \in Emissions(s), p \in Preedits \cup {NoPreedit},
             l \in Lists \cup {NoList} : t = Display(Emit(s, q), p, l)
    BY <1>1, <1>2
  <2> DEFINE e == <<q, p, l>>
  <2>2. e \in Emissions(s) \X (Preedits \cup {NoPreedit})
                          \X (Lists \cup {NoList})
    OBVIOUS
  <2>3. e[1] = q /\ e[2] = p /\ e[3] = l
    OBVIOUS
  <2> HIDE DEF e
  <2> QED
    BY <2>1, <2>2, <2>3
<1>3. \A q \in Emissions(s), p \in Preedits \cup {NoPreedit},
        l \in Lists \cup {NoList} : Display(Emit(s, q), p, l) \in AnyPanel(s)
  BY <1>1
<1> QED
  BY <1>2, <1>3

LEMMA AnyPanelStep ==
    ASSUME NEW s, Sound(s), up, NEW t \in AnyPanel(s)
    PROVE  /\ Sound(t) /\ t.fresh = s.fresh
           /\ t.comp = s.comp /\ t.shown = s.shown /\ t.win = s.win
           /\ t.missed = s.missed /\ t.refused = s.refused
           /\ t.cleared = s.cleared
<1>1. PICK x \in Emissions(s) \X (Preedits \cup {NoPreedit})
                           \X (Lists \cup {NoList}) :
             t = Display(Emit(s, x[1]), x[2], x[3])
  BY AnyPanelIs
<1> DEFINE q == x[1]
           p == x[2]
           l == x[3]
<1>3. /\ q \in Emissions(s) /\ p \in Preedits \cup {NoPreedit}
      /\ l \in Lists \cup {NoList}
      /\ t = Display(Emit(s, q), p, l)
  BY <1>1
<1> HIDE DEF q, p, l
<1> DEFINE e == Emit(s, q)
<1>4. /\ Sound(e) /\ SamePanel(s, e)
      /\ e.comp = s.comp /\ e.shown = s.shown /\ e.win = s.win
      /\ e.missed = s.missed /\ e.refused = s.refused /\ e.cleared = s.cleared
  BY <1>3, EmitStep
<1> HIDE DEF e
<1>5. t = [e EXCEPT !.preedit = p, !.list = l]
  BY <1>3 DEF e, Display
<1>6. e \in Ime /\ (e.comp = NoContext => e.shown = NoPreedit)
  BY <1>4 DEF Sound
<1>7. /\ t \in Ime /\ SameCommits(e, t) /\ t.fresh = e.fresh
      /\ t.comp = e.comp /\ t.shown = e.shown /\ t.win = e.win
  BY <1>3, <1>5, <1>6 DEF Ime, SameCommits
<1>8. Sound(t)
  BY <1>4, <1>6, <1>7, Undisturbed
<1> QED
  BY <1>4, <1>7, <1>8 DEF SamePanel, SameCommits

LEMMA DeclinedStep ==
    ASSUME NEW s, Sound(s), up, NEW t \in Declined(s)
    PROVE  /\ Sound(t) /\ t.fresh = s.fresh
           /\ t.comp = s.comp /\ t.shown = s.shown /\ t.win = s.win
           /\ t.missed = s.missed /\ t.refused = s.refused
           /\ t.cleared = s.cleared
           /\ t = s \/ PanelEmpty(t)
<1>1. CASE t = s
  BY <1>1
<1>2. CASE t # s
  <2>1. PICK q \in Emissions(s) :
          t = [Emit(s, q) EXCEPT !.preedit = NoPreedit, !.list = NoList]
    BY <1>2 DEF Declined
  <2>2. t \in AnyPanel(s)
    <3>1. /\ NoPreedit \in Preedits \cup {NoPreedit}
          /\ NoList \in Lists \cup {NoList}
      OBVIOUS
    <3>2. t = Display(Emit(s, q), NoPreedit, NoList)
      BY <2>1 DEF Display
    <3> QED
      BY <3>1, <3>2, AnyPanelIs
  <2>3. Emit(s, q) \in Ime
    BY EmitStep DEF Sound
  <2>4. PanelEmpty(t)
    BY <2>1, <2>3 DEF PanelEmpty, Ime
  <2> QED
    BY <2>2, <2>4, AnyPanelStep
<1> QED
  BY <1>1, <1>2

(* What is left of a key or a pick after the engine has answered.          *)
LEMMA engineKeyStep ==
    ASSUME NEW s, Sound(s), NEW r \in engineKey(s)
    PROVE  /\ Sound(r.s) /\ Keeps(s, r.s)
           /\ r.s.comp = s.comp /\ r.s.shown = s.shown /\ r.s.win = s.win
           /\ r.s.cleared = s.cleared
           /\ r.taken \in BOOLEAN /\ (r.taken => up)
           /\ ~s.fresh => ~r.s.fresh
           /\ ~r.taken => r.s = Reach(s) \/ PanelEmpty(r.s)
           /\ ~r.taken /\ Fit(s) => Fit(r.s)
<1> DEFINE v == Reach(s)
<1>1. /\ Sound(v) /\ SameCommits(s, v)
      /\ v.comp = s.comp /\ v.shown = s.shown /\ v.win = s.win
      /\ ~s.fresh => v = s
  BY ReachStep
<1>2. r \in IF up THEN [s: AnyPanel(v), taken: {TRUE}]
                         \cup [s: Declined(v), taken: {FALSE}]
                  ELSE [s: {v}, taken: {FALSE}]
  BY DEF engineKey
<1> HIDE DEF v
<1>3. /\ r.taken \in BOOLEAN /\ (r.taken => up)
      /\ r.s \in IF up THEN AnyPanel(v) \cup Declined(v) ELSE {v}
      /\ ~r.taken => r.s \in IF up THEN Declined(v) ELSE {v}
  BY <1>2
<1>4. /\ Sound(r.s) /\ r.s.fresh = v.fresh
      /\ r.s.comp = v.comp /\ r.s.shown = v.shown /\ r.s.win = v.win
      /\ r.s.missed = v.missed /\ r.s.refused = v.refused
      /\ r.s.cleared = v.cleared
      /\ ~r.taken => r.s = v \/ PanelEmpty(r.s)
  BY <1>1, <1>3, AnyPanelStep, DeclinedStep
<1>5. Keeps(s, r.s) /\ r.s.cleared = s.cleared
  BY <1>1, <1>4 DEF Keeps, SameCommits
<1>6. ~r.taken /\ Fit(s) => Fit(r.s)
  BY <1>1, <1>4 DEF Fit
<1> QED
  BY <1>1, <1>3, <1>4, <1>5, <1>6 DEF v

-----------------------------------------------------------------------------
(* The keys, by what they come to: the engine took the key, a text of the  *)
(* panel is committed or the composition is cancelled, or the key is left  *)
(* to the application.                                                     *)

LEMMA Taken ==
    ASSUME NEW s, Sound(s), NEW c, Session(c),
           NEW r \in engineKey(s), r.taken,
           NEW u \in afterFcitxEngineKey(r.s, c)
    PROVE  LET t == drainCommitsAfterEngine(u, c)
           IN  /\ Drained(s, t)
               /\ ~EmptyCommits => t.cleared = s.cleared
               /\ Faultless /\ c = ctx /\ Fit(s) => Fit(t) /\ Shows(t)
<1> DEFINE t == drainCommitsAfterEngine(u, c)
<1>1. /\ Sound(r.s) /\ Keeps(s, r.s) /\ up
      /\ r.s.comp = s.comp /\ r.s.win = s.win /\ r.s.cleared = s.cleared
  BY engineKeyStep
<1>2. /\ Sound(u) /\ Keeps(r.s, u)
      /\ ~EmptyCommits => u.queue = <<>> /\ u.cleared = r.s.cleared
      /\ /\ Faultless /\ c = ctx
         /\ r.s.win # NoList => r.s.comp # NoContext
         => Fit(u) /\ Shows(u)
  BY <1>1, AfterKeyStep DEF Drained
<1>3. Keeps(s, u)
  BY <1>1, <1>2, KeepsOn
<1>4. Drained(s, t) /\ t.cleared = u.cleared
  BY <1>2, <1>3, DrainedBy
<1>5. ASSUME Faultless, c = ctx, Fit(s) PROVE Fit(t) /\ Shows(t)
  <2>1. Fit(u) /\ Shows(u) /\ u.queue = <<>> /\ ~EmptyCommits
    BY <1>1, <1>2, <1>5 DEF Fit, Faultless
  <2>2. t = u
    BY <1>2, <2>1, DrainFit
  <2> QED
    BY <2>1, <2>2
<1> QED
  BY <1>1, <1>2, <1>4, <1>5

LEMMA Ended ==
    ASSUME NEW s, NEW v, Sound(v), Keeps(s, v), NEW c, Session(c)
    PROVE  LET t == drainCommitsAfterEngine(endCompositionCancel(v), c)
           IN  /\ Drained(s, t)
               /\ v.queue = <<>> => t.cleared = v.cleared
               /\ up /\ ~EmptyCommits => Fit(t) /\ Shows(t)
<1> DEFINE u == endCompositionCancel(v)
           t == drainCommitsAfterEngine(u, c)
<1>1. /\ Sound(u) /\ Keeps(v, u)
      /\ u.comp = NoContext /\ u.win = NoList /\ u.queue = <<>>
      /\ v.queue = <<>> => u.cleared = v.cleared
      /\ up => PanelEmpty(u) /\ ~u.fresh
  BY endCompositionStep
<1> HIDE DEF u
<1>2. Keeps(s, u)
  BY <1>1, KeepsOn
<1>3. Drained(s, t) /\ t.cleared = u.cleared
  BY <1>1, <1>2, DrainedBy
<1>4. ASSUME up, ~EmptyCommits PROVE Fit(t) /\ Shows(t)
  <2>1. Fit(u) /\ Shows(u)
    BY <1>1, <1>4 DEF Fit, Shows, PanelEmpty
  <2>2. t = u
    BY <1>1, <1>4, <2>1, DrainFit
  <2> QED
    BY <2>1, <2>2
<1> QED
  BY <1>1, <1>3, <1>4 DEF u

LEMMA Left ==
    ASSUME NEW s, NEW v, Sound(v), Keeps(s, v), NEW c, Session(c)
    PROVE  LET t == drainCommitsAfterEngine(v, c)
           IN  /\ Drained(s, t) /\ t.cleared = v.cleared
               /\ ~EmptyCommits /\ Fit(v) => Fit(t)
BY DrainedBy, DrainFit

(* What one key of runKeyEditSession must come to.                         *)
Serves(k, s, e) ==
    /\ Drained(s, e.s) /\ e.handled \in BOOLEAN
    /\ k \notin {"Back", "Return", "Symbol"} => Spares(s, e.s)
    /\ k \in {"Deliver", "Back"} /\ e.handled => up
    /\ Faultless /\ up /\ Fit(s) =>
         /\ Fit(e.s)
         /\ e.handled /\ k # "Move" => Shows(e.s)

(* The three ways a key can end serve it.                                  *)
LEMMA ServedTaken ==
    ASSUME NEW k \in Keys, NEW s, Sound(s), ctx # NoContext, Session(ctx),
           NEW r \in engineKey(s), r.taken,
           NEW e \in Outcomes(afterFcitxEngineKey(r.s, ctx), TRUE, ctx)
    PROVE  Serves(k, s, e)
<1>1. PICK u \in afterFcitxEngineKey(r.s, ctx) :
        e = [s |-> drainCommitsAfterEngine(u, ctx), handled |-> TRUE]
  BY DEF Outcomes
<1>2. e.s = drainCommitsAfterEngine(u, ctx) /\ e.handled = TRUE
  BY <1>1
<1>3. up
  BY engineKeyStep
<1>4. /\ Drained(s, e.s)
      /\ ~EmptyCommits => e.s.cleared = s.cleared
      /\ Faultless /\ Fit(s) => Fit(e.s) /\ Shows(e.s)
  BY <1>2, Taken
<1> QED
  BY <1>2, <1>3, <1>4 DEF Serves, Spares

LEMMA ServedCommit ==
    ASSUME NEW k \in Keys, NEW s, NEW v, Sound(v), Keeps(s, v),
           ctx # NoContext, Session(ctx),
           NEW e \in Outcomes({endCompositionCommit(v)}, TRUE, ctx),
           k \in {"Deliver", "Back"} => up,
           \/ k \in {"Back", "Return", "Symbol"}
           \/ s.queue = <<>> => v.queue = <<>> /\ v.cleared = s.cleared
    PROVE  Serves(k, s, e)
<1>1. e = [s |-> drainCommitsAfterEngine(endCompositionCancel(v), ctx),
           handled |-> TRUE]
  BY endCompositionStep DEF Outcomes
<1>2. /\ e.s = drainCommitsAfterEngine(endCompositionCancel(v), ctx)
      /\ e.handled = TRUE
  BY <1>1
<1>3. /\ Drained(s, e.s)
      /\ v.queue = <<>> => e.s.cleared = v.cleared
      /\ up /\ ~EmptyCommits => Fit(e.s) /\ Shows(e.s)
  BY <1>2, Ended
<1> QED
  BY <1>2, <1>3 DEF Serves, Spares, Faultless

LEMMA ServedLeft ==
    ASSUME NEW k \in Keys, NEW s, NEW v, Sound(v), Keeps(s, v),
           ctx # NoContext, Session(ctx), NEW h \in BOOLEAN,
           NEW e \in Outcomes({v}, h, ctx),
           h => k = "Move",
           v.cleared = s.cleared,
           Faultless /\ up /\ Fit(s) => Fit(v)
    PROVE  Serves(k, s, e)
<1>1. e = [s |-> drainCommitsAfterEngine(v, ctx), handled |-> h]
  BY DEF Outcomes
<1>2. e.s = drainCommitsAfterEngine(v, ctx) /\ e.handled = h
  BY <1>1
<1>3. /\ Drained(s, e.s) /\ e.s.cleared = v.cleared
      /\ ~EmptyCommits /\ Fit(v) => Fit(e.s)
  BY <1>2, Left
<1> QED
  BY <1>2, <1>3 DEF Serves, Spares, Faultless

(* A key the engine was asked about and declined.                          *)
LEMMA NotTaken ==
    ASSUME NEW s, Sound(s), NEW r \in engineKey(s)
    PROVE  /\ Sound(r.s) /\ Keeps(s, r.s) /\ r.s.cleared = s.cleared
           /\ ~r.taken /\ Fit(s) => Fit(r.s)
           /\ ~r.taken /\ r.s.list # NoList => r.s.queue = s.queue
           /\ r.taken => up
BY engineKeyStep, ReachStep DEF PanelEmpty, SameCommits

LEMMA deliverKeyServes ==
    ASSUME NEW s, Sound(s), ctx # NoContext, Session(ctx),
           NEW e \in deliverKey(s, ctx)
    PROVE  Serves("Deliver", s, e)
<1>1. PICK r \in engineKey(s) :
        e \in IF r.taken
              THEN Outcomes(afterFcitxEngineKey(r.s, ctx), TRUE, ctx)
                         ELSE Outcomes({r.s}, FALSE, ctx)
  BY DEF deliverKey
<1>2. "Deliver" \in Keys
  BY DEF Keys
<1>3. CASE r.taken
  BY <1>1, <1>2, <1>3, ServedTaken
<1>4. CASE ~r.taken
  BY <1>1, <1>2, <1>4, NotTaken, ServedLeft
<1> QED
  BY <1>3, <1>4

LEMMA digitKeyServes ==
    ASSUME NEW s, Sound(s), ctx # NoContext, Session(ctx),
           NEW e \in digitKey(s, ctx)
    PROVE  Serves("Digit", s, e)
<1>1. "Digit" \in Keys
  BY DEF Keys
<1> DEFINE v == Reach(s)
<1>2. Sound(v) /\ SameCommits(s, v) /\ Keeps(s, v)
  BY ReachStep, KeepsReach
<1>3. Faultless /\ up /\ Fit(s) => Fit(v)
  BY ReachStep DEF Fit
<1>4. \/ \E r \in engineKey(s) :
            r.taken /\ e \in Outcomes(afterFcitxEngineKey(r.s, ctx), TRUE, ctx)
      \/ e \in Outcomes({endCompositionCommit(v)}, TRUE, ctx)
      \/ e \in Outcomes({v}, FALSE, ctx)
  <2> DEFINE B == Outcomes({endCompositionCommit(v)}, TRUE, ctx)
             C == Outcomes({v}, FALSE, ctx)
             R == {x \in engineKey(s) : x.taken}
             U == UNION {Outcomes(afterFcitxEngineKey(r.s, ctx), TRUE, ctx) :
                            r \in R}
  <2>1. digitKey(s, ctx) = (U \cup B) \cup C
    BY DEF digitKey
  <2>2. ASSUME e \in U
        PROVE  \E r \in R :
                  e \in Outcomes(afterFcitxEngineKey(r.s, ctx), TRUE, ctx)
    <3> HIDE DEF R
    <3> QED
      BY <2>2
  <2> HIDE DEF B, C, U
  <2>3. e \in U \/ e \in B \/ e \in C
    BY <2>1
  <2> QED
    BY <2>2, <2>3 DEF B, C
<1> HIDE DEF v
<1>5. CASE \E r \in engineKey(s) :
              r.taken /\ e \in Outcomes(afterFcitxEngineKey(r.s, ctx), TRUE, ctx)
  BY <1>1, <1>5, ServedTaken
<1>6. CASE e \in Outcomes({endCompositionCommit(v)}, TRUE, ctx)
  BY <1>1, <1>2, <1>6, ServedCommit DEF SameCommits
<1>7. CASE e \in Outcomes({v}, FALSE, ctx)
  BY <1>1, <1>2, <1>3, <1>7, ServedLeft DEF SameCommits
<1> QED
  BY <1>4, <1>5, <1>6, <1>7

LEMMA highlightKeyServes ==
    ASSUME NEW k \in {"Space", "Return"},
           NEW s, Sound(s), ctx # NoContext, Session(ctx),
           NEW e \in highlightKey(s, ctx)
    PROVE  Serves(k, s, e)
<1>1. PICK r \in engineKey(s) :
        e \in IF r.taken
              THEN Outcomes(afterFcitxEngineKey(r.s, ctx), TRUE, ctx)
              ELSE IF r.s.list = NoList THEN Outcomes({r.s}, FALSE, ctx)
              ELSE Outcomes({endCompositionCommit(r.s)}, TRUE, ctx)
  BY DEF highlightKey
<1>2. k \in Keys
  BY DEF Keys
<1>3. CASE r.taken
  BY <1>1, <1>2, <1>3, ServedTaken
<1>4. CASE ~r.taken /\ r.s.list = NoList
  BY <1>1, <1>2, <1>4, NotTaken, ServedLeft
<1>5. CASE ~r.taken /\ r.s.list # NoList
  BY <1>1, <1>2, <1>5, NotTaken, ServedCommit
<1> QED
  BY <1>3, <1>4, <1>5

LEMMA preeditKeyServes ==
    ASSUME NEW s, Sound(s), ctx # NoContext, Session(ctx),
           NEW e \in preeditKey(s, ctx)
    PROVE  Serves("Return", s, e)
<1>1. PICK r \in engineKey(s) :
        e \in IF r.taken
              THEN Outcomes(afterFcitxEngineKey(r.s, ctx), TRUE, ctx)
              ELSE Outcomes({endCompositionCommit(r.s)}, TRUE, ctx)
  BY DEF preeditKey
<1>2. "Return" \in Keys
  BY DEF Keys
<1>3. CASE r.taken
  BY <1>1, <1>2, <1>3, ServedTaken
<1>4. CASE ~r.taken
  BY <1>1, <1>2, <1>4, NotTaken, ServedCommit
<1> QED
  BY <1>3, <1>4

LEMMA symbolKeyServes ==
    ASSUME NEW s, Sound(s), ctx # NoContext, Session(ctx),
           NEW e \in symbolKey(s, ctx)
    PROVE  Serves("Symbol", s, e)
<1>1. PICK r \in engineKey(s) :
        e \in IF r.taken
              THEN Outcomes(afterFcitxEngineKey(r.s, ctx), TRUE, ctx)
              ELSE Outcomes({endCompositionCommit(r.s)}, TRUE, ctx)
  BY DEF symbolKey
<1>2. "Symbol" \in Keys
  BY DEF Keys
<1>3. CASE r.taken
  BY <1>1, <1>2, <1>3, ServedTaken
<1>4. CASE ~r.taken
  BY <1>1, <1>2, <1>4, NotTaken, ServedCommit
<1> QED
  BY <1>3, <1>4

LEMMA escapeKeyServes ==
    ASSUME NEW s, Sound(s), ctx # NoContext, Session(ctx),
           NEW e \in escapeKey(s, ctx)
    PROVE  Serves("Escape", s, e)
<1>1. "Escape" \in Keys /\ Keeps(s, s)
  BY DEF Keys, Keeps
<1>2. e \in Outcomes({endCompositionCommit(s)}, TRUE, ctx)
  BY endCompositionStep DEF escapeKey
<1> QED
  BY <1>1, <1>2, ServedCommit

(* Up and Down: the key may be sent a second time, by moveHighlight.       *)
LEMMA moveKeyServes ==
    ASSUME NEW s, Sound(s), ctx # NoContext, Session(ctx),
           s.list # NoList,
           NEW e \in moveKey(s, ctx)
    PROVE  Serves("Move", s, e)
<1>1. PICK r \in engineKey(s) :
        e \in IF r.taken
              THEN Outcomes(afterFcitxEngineKey(r.s, ctx), TRUE, ctx)
              ELSE Outcomes({syncCandidateWindow(t) : t \in
                                IF up THEN Declined(r.s) ELSE {r.s}}, TRUE, ctx)
  BY DEF moveKey
<1>2. "Move" \in Keys
  BY DEF Keys
<1>3. CASE r.taken
  BY <1>1, <1>2, <1>3, ServedTaken
<1>4. CASE ~r.taken
  <2>1. /\ Sound(r.s) /\ Keeps(s, r.s) /\ r.s.cleared = s.cleared
        /\ r.s.comp = s.comp
        /\ Fit(s) => Fit(r.s)
    BY <1>4, engineKeyStep
  <2>2. PICK t \in IF up THEN Declined(r.s) ELSE {r.s} :
          e \in Outcomes({syncCandidateWindow(t)}, TRUE, ctx)
    <3> DEFINE T == IF up THEN Declined(r.s) ELSE {r.s}
    <3>1. e \in Outcomes({syncCandidateWindow(t) : t \in T}, TRUE, ctx)
      BY <1>1, <1>4
    <3> HIDE DEF T
    <3>2. PICK t \in T : e = [s |-> drainCommitsAfterEngine(
                                         syncCandidateWindow(t), ctx),
                              handled |-> TRUE]
      BY <3>1 DEF Outcomes
    <3>3. e \in Outcomes({syncCandidateWindow(t)}, TRUE, ctx)
      BY <3>2 DEF Outcomes
    <3> QED
      BY <3>3 DEF T
  <2>3. /\ Sound(t) /\ t.fresh = r.s.fresh /\ t.comp = r.s.comp
        /\ t.win = r.s.win
        /\ t.missed = r.s.missed /\ t.refused = r.s.refused
        /\ t.cleared = r.s.cleared
        /\ t = r.s \/ PanelEmpty(t)
    BY <2>1, DeclinedStep
  <2> DEFINE v == syncCandidateWindow(t)
  <2>4. /\ Sound(v) /\ SameCommits(t, v) /\ SamePanel(t, v)
        /\ v.comp = t.comp
    BY <2>3, syncCandidateWindowStep
  <2> HIDE DEF v
  <2>5. Keeps(s, v) /\ v.cleared = s.cleared
    BY <2>1, <2>3, <2>4 DEF Keeps, SameCommits
  <2>6. Faultless /\ up /\ Fit(s) => Fit(v)
    <3> SUFFICES ASSUME Fit(s) PROVE Fit(v)
      OBVIOUS
    <3>1. s.comp # NoContext
      BY DEF Fit, PanelEmpty
    <3>2. Fit(t)
      BY <2>1, <2>3 DEF Fit
    <3> QED
      BY <2>1, <2>3, <2>4, <3>1, <3>2
         DEF Fit, SamePanel, SameCommits, PanelEmpty
  <2>7. e \in Outcomes({v}, TRUE, ctx)
    BY <2>2 DEF v
  <2> QED
    BY <1>2, <2>4, <2>5, <2>6, <2>7, ServedLeft
<1> QED
  BY <1>3, <1>4

(* Backspace: the document follows a preedit the engine still has, and the *)
(* composition ends with the preedit.                                      *)
LEMMA backKeyServes ==
    ASSUME NEW s, Sound(s), ctx # NoContext, Session(ctx),
           s.preedit # NoPreedit,
           NEW e \in backKey(s, ctx)
    PROVE  Serves("Back", s, e)
<1>1. "Back" \in Keys
  BY DEF Keys
<1>2. CASE ~up
  <2>1. e \in Outcomes({s}, FALSE, ctx)
    BY <1>2 DEF backKey
  <2>2. Keeps(s, s)
    BY DEF Keeps
  <2> QED
    BY <1>1, <2>1, <2>2, ServedLeft
<1>3. CASE up
  <2>1. PICK r \in engineKey(s) :
          /\ \/ BackMayCommit \/ r.s.preedit = NoPreedit
             \/ r.s.queue = s.queue
          /\ e \in IF r.s.preedit = NoPreedit
                   THEN Outcomes({endCompositionCancel(r.s)}, TRUE, ctx)
                   ELSE Outcomes({syncCandidateWindow(
                                     updatePreeditText(t, ctx)) :
                           t \in ensureCompositionStarted(r.s, ctx)}, TRUE, ctx)
    BY <1>3 DEF backKey
  <2>2. /\ Sound(r.s) /\ Keeps(s, r.s)
        /\ ~s.fresh => ~r.s.fresh
    BY engineKeyStep
  <2>3. CASE r.s.preedit = NoPreedit
    <3>1. e \in Outcomes({endCompositionCommit(r.s)}, TRUE, ctx)
      BY <2>1, <2>2, <2>3, endCompositionStep
    <3> QED
      BY <1>1, <1>3, <2>2, <3>1, ServedCommit
  <2>4. CASE r.s.preedit # NoPreedit
    <3> DEFINE F(t) == syncCandidateWindow(updatePreeditText(t, ctx))
               d(t) == drainCommitsAfterEngine(F(t), ctx)
    <3>1. PICK t \in ensureCompositionStarted(r.s, ctx) :
            e = [s |-> d(t), handled |-> TRUE]
      <4> DEFINE T == ensureCompositionStarted(r.s, ctx)
      <4>1. e \in Outcomes({F(t) : t \in T}, TRUE, ctx)
        BY <2>1, <2>4
      <4> HIDE DEF T, F
      <4>2. \E t \in T : e = [s |-> d(t), handled |-> TRUE]
        BY <4>1 DEF Outcomes
      <4> QED
        BY <4>2 DEF T
    <3> DEFINE u == F(t)
    <3>2. /\ Sound(u) /\ SameCommits(r.s, u) /\ SamePanel(r.s, u)
          /\ Keeps(r.s, u)
          /\ u.comp = t.comp
          /\ u.win = r.s.list
          /\ u.comp = ctx => u.shown = r.s.preedit
      BY <2>2, FollowStep
    <3>3. ctx \in Contexts
      BY DEF Session
    <3>4. ~StartMayFail => t.comp # NoContext
      BY <2>2, <3>3, ensureCompositionStartedStep
    <3>5. e.s = drainCommitsAfterEngine(u, ctx) /\ e.handled = TRUE
      BY <3>1
    <3> HIDE DEF u
    <3>6. Keeps(s, u)
      BY <2>2, <3>2, KeepsOn
    <3>7. Drained(s, e.s)
      BY <3>2, <3>5, <3>6, DrainedBy
    <3>8. ASSUME Faultless, Fit(s)
          PROVE  Fit(e.s) /\ Shows(e.s)
      <4>1. s.queue = <<>>
        BY <3>8 DEF Fit, PanelEmpty
      <4>2. r.s.queue = <<>>
        BY <2>1, <2>4, <3>8, <4>1 DEF Faultless
      <4>3. u.queue = <<>> /\ u.comp # NoContext /\ ~u.fresh
        BY <2>2, <3>2, <3>4, <3>8, <4>2
           DEF Faultless, Fit, SamePanel, SameCommits
      <4>4. Fit(u) /\ Shows(u)
        BY <3>2, <4>3 DEF Fit, Shows, SamePanel
      <4>5. e.s = u
        BY <3>2, <3>5, <3>8, <4>3, <4>4, DrainFit DEF Faultless
      <4> QED
        BY <4>4, <4>5
    <3> QED
      BY <1>3, <3>5, <3>7, <3>8 DEF Serves
  <2> QED
    BY <2>3, <2>4
<1> QED
  BY <1>2, <1>3

LEMMA runKeyEditSessionServes ==
    ASSUME NEW k \in Keys, NEW s, Sound(s), ctx # NoContext, Session(ctx),
           keyWouldBeHandled(k, s),
           NEW e \in runKeyEditSession(k, s, ctx)
    PROVE  Serves(k, s, e)
<1>1. CASE k = "Deliver"
  BY <1>1, deliverKeyServes DEF runKeyEditSession
<1>2. CASE k = "Digit"
  BY <1>2, digitKeyServes DEF runKeyEditSession
<1>3. CASE k = "Space"
  BY <1>3, highlightKeyServes DEF runKeyEditSession
<1>4. CASE k = "Return"
  BY <1>4, highlightKeyServes, preeditKeyServes DEF runKeyEditSession
<1>5. CASE k = "Move"
  <2>1. s.list # NoList
    BY <1>5 DEF keyWouldBeHandled
  <2> QED
    BY <1>5, <2>1, moveKeyServes DEF runKeyEditSession
<1>6. CASE k = "Back"
  <2>1. s.preedit # NoPreedit
    BY <1>6 DEF keyWouldBeHandled
  <2> QED
    BY <1>6, <2>1, backKeyServes DEF runKeyEditSession
<1>7. CASE k = "Escape"
  BY <1>7, escapeKeyServes DEF runKeyEditSession
<1>8. CASE k = "Symbol"
  BY <1>8, symbolKeyServes DEF runKeyEditSession
<1> QED
  BY <1>1, <1>2, <1>3, <1>4, <1>5, <1>6, <1>7, <1>8 DEF Keys

(* The pick.                                                               *)
LEMMA pickSessionStep ==
    ASSUME NEW s, Sound(s), ctx # NoContext, Session(ctx),
           NEW t \in pickSession(s, ctx)
    PROVE  /\ Sound(t) /\ Keeps(s, t) /\ Spares(s, t)
           /\ Faultless /\ up /\ Fit(s) => Fit(t)
<1>1. CASE s.comp = NoContext \/ s.list = NoList
  <2>1. t = s
    BY <1>1 DEF pickSession
  <2> QED
    BY <2>1 DEF Keeps, Spares
<1>2. CASE ~(s.comp = NoContext \/ s.list = NoList)
  <2> DEFINE A(r) == afterFcitxEngineKey(r.s, ctx)
             R == {r \in engineKey(s) : r.taken}
             x == endCompositionCommit(s)
  <2>1. PICK u \in {x} \cup UNION {A(r) : r \in R} :
          t = drainCommitsAfterEngine(u, ctx)
    BY <1>2 DEF pickSession
  <2> HIDE DEF A, x
  <2>2. CASE u = x
    <3>1. Keeps(s, s)
      BY DEF Keeps
    <3>2. t = drainCommitsAfterEngine(endCompositionCancel(s), ctx)
      BY <2>1, <2>2, endCompositionStep DEF x
    <3>3. /\ Drained(s, t)
          /\ s.queue = <<>> => t.cleared = s.cleared
          /\ up /\ ~EmptyCommits => Fit(t)
      BY <3>1, <3>2, Ended
    <3> QED
      BY <3>3 DEF Drained, Spares, Faultless
  <2>3. ASSUME NEW r \in engineKey(s), r.taken, u \in A(r)
        PROVE  /\ Drained(s, t)
               /\ ~EmptyCommits => t.cleared = s.cleared
               /\ Faultless /\ Fit(s) => Fit(t)
    BY <2>1, <2>3, Taken DEF A
  <2> QED
    BY <2>2, <2>3 DEF Drained, Spares
<1> QED
  BY <1>1, <1>2

-----------------------------------------------------------------------------
(* The callbacks.  Whatever happens, the variables other than ime keep     *)
(* their types; what a callback does to ime is stated once for all.        *)

Types ==
    /\ chinese \in BOOLEAN
    /\ ctx \in Contexts \cup {NoContext}
    /\ fallback \in Contexts \cup {NoContext}
    /\ ctx # NoContext => fallback = ctx
    /\ pick \in Picks \cup {NoPick}
    /\ up \in BOOLEAN
    /\ last \in [op: Ops, handled: BOOLEAN, up: BOOLEAN]

IndInv == Types /\ Sound(ime)

Callback ==
    /\ Sound(ime') /\ Keeps(ime, ime')
    /\ last'.op \notin {"Back", "Return", "Symbol"} => Spares(ime, ime')
    /\ Faultless /\ up /\ Fit(ime) => Fit(ime')

LEMMA KeepsRefl == \A s : Keeps(s, s) /\ Spares(s, s)
BY DEF Keeps, Spares

(* The session the tray runs on.                                           *)
LEMMA TraySession ==
    ASSUME Types, trayContext # NoContext
    PROVE  Session(trayContext)
BY DEF Types, Session, trayContext

LEMMA KeySessionContext ==
    ASSUME Types, ctx # NoContext
    PROVE  Session(ctx)
BY DEF Types, Session

LEMMA RecordIs ==
    ASSUME NEW op, NEW h, Record(op, h)
    PROVE  last'.op = op /\ last'.handled = h /\ last'.up = up
BY DEF Record

LEMMA OnKeyDownStep ==
    ASSUME IndInv, NEW k \in Keys, OnKeyDown(k)
    PROVE  /\ Callback
           /\ last'.op = k /\ last'.handled \in BOOLEAN /\ last'.up = up
           /\ ~EmptyCommits /\ last'.handled => ime'.queue = <<>>
           /\ k \in {"Deliver", "Back"} /\ last'.handled => up
           /\ Faultless /\ up /\ Fit(ime) /\ last'.handled /\ k # "Move" =>
                Shows(ime')
           /\ UNCHANGED <<chinese, ctx, fallback, up>>
           /\ \/ pick' = NoPick
              \/ pick' = pick /\ pick # NoPick /\ ime' = Reach(ime)
<1> DEFINE s == Reach(ime)
<1>1. /\ Sound(s) /\ SameCommits(ime, s) /\ Keeps(ime, s)
      /\ Fit(ime) => s = ime
  BY ReachStep, KeepsReach DEF IndInv, Fit
<1>2. ctx # NoContext /\ Session(ctx)
  BY KeySessionContext DEF OnKeyDown, IndInv
<1>3. /\ UNCHANGED <<chinese, ctx, fallback, up>>
      /\ \/ keyWouldBeHandled(k, s) /\ KeySession(k, s)
         \/ ime' = s /\ Record(k, FALSE) /\ UNCHANGED pick
  BY DEF OnKeyDown
<1>4. Spares(ime, s)
  BY <1>1 DEF Spares, SameCommits
<1> HIDE DEF s
<1>5. CASE ime' = s /\ Record(k, FALSE) /\ UNCHANGED pick
  <2>1. last'.op = k /\ last'.handled = FALSE /\ last'.up = up
    BY <1>5, RecordIs
  <2>2. Callback
    BY <1>1, <1>4, <1>5 DEF Callback
  <2> QED
    BY <1>3, <1>5, <2>1, <2>2 DEF s
<1>6. CASE /\ pick # NoPick /\ ime' \in pickSession(s, ctx)
           /\ pick' = NoPick /\ Record(k, FALSE)
  <2>1. last'.op = k /\ last'.handled = FALSE /\ last'.up = up
    BY <1>6, RecordIs
  <2>2. /\ Sound(ime') /\ Keeps(s, ime') /\ Spares(s, ime')
        /\ Faultless /\ up /\ Fit(s) => Fit(ime')
    BY <1>1, <1>2, <1>6, pickSessionStep
  <2>3. Keeps(ime, ime')
    BY <1>1, <2>2, KeepsOn
  <2>4. Callback
    BY <1>1, <2>2, <2>3 DEF Callback, Spares, SameCommits
  <2> QED
    BY <1>3, <1>6, <2>1, <2>4
<1>7. CASE /\ keyWouldBeHandled(k, s) /\ pick = NoPick /\ UNCHANGED pick
           /\ \E e \in runKeyEditSession(k, s, ctx) :
                 ime' = e.s /\ Record(k, e.handled)
  <2>1. PICK e \in runKeyEditSession(k, s, ctx) :
          ime' = e.s /\ Record(k, e.handled)
    BY <1>7
  <2>2. Serves(k, s, e)
    BY <1>1, <1>2, <1>7, runKeyEditSessionServes
  <2>3. last'.op = k /\ last'.handled = e.handled /\ last'.up = up
    BY <2>1, RecordIs
  <2>4. Sound(ime') /\ Keeps(s, ime') /\ (~EmptyCommits => ime'.queue = <<>>)
    BY <2>1, <2>2 DEF Serves, Drained
  <2>5. Keeps(ime, ime')
    BY <1>1, <2>4, KeepsOn
  <2>6. k \notin {"Back", "Return", "Symbol"} => Spares(ime, ime')
    BY <1>1, <2>1, <2>2 DEF Serves, Spares, SameCommits
  <2>7. /\ Faultless /\ up /\ Fit(ime) => Fit(ime')
        /\ Faultless /\ up /\ Fit(ime) /\ last'.handled /\ k # "Move" =>
              Shows(ime')
        /\ k \in {"Deliver", "Back"} /\ last'.handled => up
        /\ last'.handled \in BOOLEAN
    BY <1>1, <2>1, <2>2, <2>3 DEF Serves
  <2>8. Callback
    BY <2>3, <2>4, <2>5, <2>6, <2>7 DEF Callback
  <2> QED
    BY <1>3, <1>7, <2>3, <2>4, <2>7, <2>8
<1> QED
  BY <1>3, <1>5, <1>6, <1>7 DEF KeySession

(* The tray.                                                               *)
LEMMA SyncDrain ==
    ASSUME NEW s, NEW v, Sound(v), Keeps(s, v), NEW c, Session(c)
    PROVE  LET t == drainCommitsAfterEngine(syncCandidateWindow(v), c)
           IN  /\ Sound(t) /\ Keeps(s, t) /\ t.cleared = v.cleared
               /\ ~EmptyCommits /\ Fit(v) => Fit(t)
               /\ v.queue = <<>> /\ PanelEmpty(v) /\ ~v.fresh =>
                    /\ PanelEmpty(t) /\ t.queue = <<>> /\ t.win = NoList
                    /\ t.comp = v.comp
<1> DEFINE u == syncCandidateWindow(v)
           t == drainCommitsAfterEngine(u, c)
<1>1. /\ Sound(u) /\ SameCommits(v, u) /\ SamePanel(v, u)
      /\ u.comp = v.comp /\ u.win \in {NoList, v.list}
  BY syncCandidateWindowStep
<1> HIDE DEF u
<1>2. Keeps(s, u) /\ u.cleared = v.cleared /\ u.queue = v.queue
  BY <1>1 DEF Keeps, SameCommits
<1>3. /\ Drained(s, t) /\ t.cleared = u.cleared
      /\ ~EmptyCommits /\ Fit(u) => Fit(t)
  BY <1>1, <1>2, Left
<1>4. Fit(v) => Fit(u)
  BY <1>1, <1>2 DEF Fit, PanelEmpty, SamePanel
<1>5. ASSUME v.queue = <<>>, PanelEmpty(v), ~v.fresh
      PROVE  /\ PanelEmpty(t) /\ t.queue = <<>> /\ t.win = NoList
             /\ t.comp = v.comp
  <2>1. Reach(u) = u
    BY <1>1, <1>5, ReachStep DEF SamePanel
  <2>2. t = u
    BY <1>1, <1>2, <1>5, <2>1, DrainStep
  <2> QED
    BY <1>1, <1>2, <1>5, <2>2 DEF PanelEmpty, SamePanel
<1> QED
  BY <1>2, <1>3, <1>4, <1>5 DEF Drained, u

LEMMA HideClear ==
    ASSUME NEW s, Sound(s)
    PROVE  LET t == clear(hideWindow(s))
           IN  /\ Sound(t) /\ Keeps(s, t) /\ Spares(s, t)
               /\ t.comp = s.comp /\ t.queue = <<>> /\ t.win = NoList
               /\ up => PanelEmpty(t) /\ ~t.fresh /\ Fit(t)
<1> DEFINE v == hideWindow(s)
           t == clear(v)
<1>1. /\ Sound(v) /\ SameCommits(s, v) /\ v.comp = s.comp /\ v.win = NoList
  BY hideWindowStep
<1> HIDE DEF v
<1>2. /\ Sound(t) /\ Keeps(v, t)
      /\ t.comp = v.comp /\ t.win = v.win /\ t.queue = <<>>
      /\ v.queue = <<>> => t.cleared = v.cleared
      /\ up => PanelEmpty(t) /\ ~t.fresh
  BY <1>1, clearStep
<1> HIDE DEF t
<1>3. Keeps(s, t) /\ Spares(s, t)
  BY <1>1, <1>2 DEF Keeps, Spares, SameCommits
<1>4. up => Fit(t)
  BY <1>1, <1>2 DEF Fit
<1>5. /\ Sound(t) /\ Keeps(s, t) /\ Spares(s, t)
      /\ t.comp = s.comp /\ t.queue = <<>> /\ t.win = NoList
      /\ up => PanelEmpty(t) /\ ~t.fresh /\ Fit(t)
  BY <1>1, <1>2, <1>3, <1>4
<1> QED
  BY <1>5 DEF t, v

LEMMA EndedNow ==
    ASSUME NEW s, Sound(s)
    PROVE  LET t == endCompositionCancel(s)
           IN  /\ Sound(t) /\ Keeps(s, t) /\ Spares(s, t)
               /\ t.comp = NoContext /\ t.queue = <<>> /\ t.win = NoList
               /\ up => PanelEmpty(t) /\ ~t.fresh /\ Fit(t)
BY endCompositionStep DEF Spares, Fit

(* Leaving the Chinese mode leaves nothing behind.                         *)
LEMMA ToggleStep ==
    ASSUME IndInv, langBarScheduleToggleChinese
    PROVE  /\ Callback
           /\ last'.op = "Toggle" /\ last'.up = up /\ up' = up
           /\ chinese /\ up =>
                /\ ime'.win = NoList /\ PanelEmpty(ime') /\ ime'.queue = <<>>
                /\ last'.handled => ime'.comp = NoContext
<1>1. Sound(ime) /\ Types
  BY DEF IndInv
<1>2. last'.op = "Toggle" /\ last'.up = up /\ up' = up
  BY RecordIs DEF langBarScheduleToggleChinese
<1>3. CASE trayToggleChineseInEditSession /\ Record("Toggle", TRUE)
  <2> DEFINE v == IF chinese THEN endCompositionCancel(ime) ELSE ime
             t == drainCommitsAfterEngine(syncCandidateWindow(v), trayContext)
  <2>1. ime' = t /\ trayContext # NoContext
    BY <1>3 DEF trayToggleChineseInEditSession, toggleSession
  <2>2. /\ Sound(v) /\ Keeps(ime, v) /\ Spares(ime, v)
        /\ up /\ Fit(ime) => Fit(v)
        /\ chinese /\ up => /\ PanelEmpty(v) /\ v.queue = <<>> /\ ~v.fresh
                            /\ v.comp = NoContext
    BY <1>1, EndedNow, KeepsRefl
  <2>3. Session(trayContext)
    BY <1>1, <2>1, TraySession
  <2> HIDE DEF v
  <2>4. /\ Sound(t) /\ Keeps(ime, t) /\ t.cleared = v.cleared
        /\ ~EmptyCommits /\ Fit(v) => Fit(t)
        /\ v.queue = <<>> /\ PanelEmpty(v) /\ ~v.fresh =>
             /\ PanelEmpty(t) /\ t.queue = <<>> /\ t.win = NoList
             /\ t.comp = v.comp
    BY <2>2, <2>3, SyncDrain
  <2> HIDE DEF t
  <2>5. Callback
    BY <2>1, <2>2, <2>4 DEF Callback, Spares, Faultless
  <2> QED
    BY <1>2, <2>1, <2>2, <2>4, <2>5
<1>4. CASE trayToggleChineseWithoutContext /\ Record("Toggle", FALSE)
  <2>3. last'.handled = FALSE
    BY <1>4 DEF Record
  <2>1. /\ ime' = clear(hideWindow(ime))
        /\ trayContext = NoContext \/ SessionMayFail
    BY <1>4 DEF trayToggleChineseWithoutContext
  <2>2. /\ Sound(ime') /\ Keeps(ime, ime') /\ Spares(ime, ime')
        /\ ime'.queue = <<>> /\ ime'.win = NoList
        /\ up => PanelEmpty(ime') /\ Fit(ime')
    BY <1>1, <2>1, HideClear
  <2> QED
    BY <1>2, <2>1, <2>2, <2>3 DEF Callback
<1> QED
  BY <1>3, <1>4 DEF langBarScheduleToggleChinese

LEMMA ActivateStep ==
    ASSUME IndInv, NEW w \in BOOLEAN, langBarScheduleActivateInputMethod(w)
    PROVE  Callback
<1>1. Sound(ime) /\ Types
  BY DEF IndInv
<1>2. CASE trayContext # NoContext /\ ime' = activateSession(ime, trayContext)
  <2> DEFINE v == IF ime.comp # NoContext THEN endCompositionCancel(ime)
                                          ELSE clear(hideWindow(ime))
             t == drainCommitsAfterEngine(syncCandidateWindow(v), trayContext)
  <2>1. ime' = t
    BY <1>2 DEF activateSession
  <2>2. Sound(v) /\ Keeps(ime, v) /\ Spares(ime, v) /\ (up => Fit(v))
    BY <1>1, EndedNow, HideClear
  <2>3. Session(trayContext)
    BY <1>1, <1>2, TraySession
  <2> HIDE DEF v
  <2>4. /\ Sound(t) /\ Keeps(ime, t) /\ t.cleared = v.cleared
        /\ ~EmptyCommits /\ Fit(v) => Fit(t)
    BY <2>2, <2>3, SyncDrain
  <2> QED
    BY <2>1, <2>2, <2>4 DEF Callback, Spares, Faultless
<1>3. CASE ime' = clear(hideWindow(ime))
  BY <1>1, <1>3, HideClear DEF Callback
<1> QED
  BY <1>2, <1>3 DEF langBarScheduleActivateInputMethod

LEMMA StatusActionStep ==
    ASSUME IndInv, statusAction
    PROVE  Callback
<1> DEFINE s == Reach(ime)
<1>1. Sound(ime)
  BY DEF IndInv
<1>2. /\ Sound(s) /\ SameCommits(ime, s) /\ s.comp = ime.comp
      /\ s.win = ime.win /\ Keeps(ime, s)
      /\ Fit(ime) => s = ime
  BY <1>1, ReachStep, KeepsReach DEF Fit
<1>3. CASE ~up
  <2>1. ime' = ime
    BY <1>3 DEF statusAction
  <2> QED
    BY <1>1, <2>1, KeepsRefl DEF Callback
<1>4. CASE up /\ ime' \in Declined(s)
  <2>1. /\ Sound(ime') /\ ime'.fresh = s.fresh
        /\ ime'.comp = s.comp /\ ime'.win = s.win
        /\ ime'.missed = s.missed /\ ime'.refused = s.refused
        /\ ime'.cleared = s.cleared
        /\ ime' = s \/ PanelEmpty(ime')
    BY <1>2, <1>4, DeclinedStep
  <2> HIDE DEF s
  <2>2. Keeps(ime, ime') /\ Spares(ime, ime')
    BY <1>2, <2>1 DEF Keeps, Spares, SameCommits
  <2>3. Fit(ime) => Fit(ime')
    BY <1>2, <2>1 DEF Fit
  <2> QED
    BY <2>1, <2>2, <2>3 DEF Callback
<1>5. ASSUME s.list # NoList, NEW l \in Lists, ime' = [s EXCEPT !.list = l]
      PROVE  Callback
  <2> HIDE DEF s
  <2>1. s \in Ime /\ (s.comp = NoContext => s.shown = NoPreedit)
    BY <1>2 DEF Sound
  <2>2. /\ ime' \in Ime /\ SameCommits(s, ime') /\ ime'.fresh = s.fresh
        /\ ime'.comp = s.comp /\ ime'.win = s.win /\ ime'.shown = s.shown
    BY <1>5, <2>1 DEF Ime, SameCommits
  <2>3. Sound(ime')
    BY <1>2, <2>1, <2>2, Undisturbed
  <2>4. Keeps(ime, ime') /\ Spares(ime, ime')
    BY <1>2, <2>2 DEF Keeps, Spares, SameCommits
  <2>5. Fit(ime) => Fit(ime')
    BY <1>2, <1>5, <2>2 DEF Fit, SameCommits, PanelEmpty
  <2> QED
    BY <2>3, <2>4, <2>5 DEF Callback
<1>6. up => \/ ime' \in Declined(s)
            \/ s.list # NoList /\ \E l \in Lists : ime' = [s EXCEPT !.list = l]
  <2> HIDE DEF s
  <2>1. up => ime' \in activateTrayStatusAction(s)
    BY DEF statusAction, s
  <2> QED
    BY <2>1 DEF activateTrayStatusAction
<1> QED
  BY <1>3, <1>4, <1>5, <1>6

LEMMA OnPickStep ==
    ASSUME IndInv, OnPick
    PROVE  Callback
<1>1. Sound(ime) /\ Types
  BY DEF IndInv
<1>2. CASE UNCHANGED ime
  BY <1>1, <1>2, KeepsRefl DEF Callback
<1>3. CASE ctx # NoContext /\ ime' \in pickSession(ime, ctx)
  BY <1>1, <1>3, KeySessionContext, pickSessionStep DEF Callback
<1> QED
  BY <1>2, <1>3 DEF OnPick

LEMMA OnSetFocusStep ==
    ASSUME IndInv, NEW c, OnSetFocus(c)
    PROVE  Callback
<1>1. Sound(ime) /\ ime' = ime
  BY DEF IndInv, OnSetFocus
<1> QED
  BY <1>1, KeepsRefl DEF Callback

LEMMA EndStep ==
    ASSUME IndInv, OnCompositionTerminated \/ Deactivate
    PROVE  Callback
<1>1. Sound(ime) /\ ime' = endCompositionCancel(ime)
  BY DEF IndInv, OnCompositionTerminated, Deactivate
<1> QED
  BY <1>1, EndedNow DEF Callback

(* The pipe: the commits of a lost session are gone, and a new session     *)
(* only makes the panel stale.                                             *)
LEMMA PipeStep ==
    ASSUME IndInv, PipeBreaks \/ PipeReturns
    PROVE  /\ Sound(ime)' /\ Keeps(ime, ime') /\ Spares(ime, ime')
           /\ Faultless => ~up
<1>1. Sound(ime) /\ ime \in Ime /\ ime.queue \in Seq(Commits \cup {0})
  BY DEF IndInv, Sound, Ime
<1>2. CASE PipeBreaks
  <2>1. Texts(ime.queue) \subseteq Commits
    BY <1>1, CommitTypes
  <2>2. <<>> \in Seq(Commits \cup {0}) /\ <<>> \in Seq(Commits)
    OBVIOUS
  <2>3. ime' = [ime EXCEPT !.queue = <<>>, !.gone = @ \cup Texts(ime.queue)]
    BY <1>2 DEF PipeBreaks
  <2>4. /\ ime' \in Ime
        /\ ime'.comp = ime.comp /\ ime'.shown = ime.shown
        /\ ime'.queue = <<>> /\ ime'.made = ime.made
        /\ ime'.delivered = ime.delivered /\ ime'.cleared = ime.cleared
        /\ ime'.missed = ime.missed /\ ime'.refused = ime.refused
        /\ ime'.gone = ime.gone \cup Texts(ime.queue)
    <3> HIDE DEF Commits
    <3> QED
      BY <1>1, <2>1, <2>2, <2>3 DEF Ime
  <2>5. Texts(ime'.queue) = {} /\ inOrder(ime'.queue)
    BY <2>4, TextsOfEmpty, InOrderEmpty
  <2>6. Before(Texts(ime'.delivered), Texts(ime'.queue))
    BY <2>5 DEF Before
  <2>7. Parted(ime'.made, Texts(ime'.delivered), Texts(ime'.queue),
               ime'.cleared, ime'.missed, ime'.gone)
    <3>1. Parted(ime.made, Texts(ime.delivered), Texts(ime.queue),
                 ime.cleared, ime.missed, ime.gone)
      BY <1>1 DEF Sound
    <3> QED
      BY <3>1, <2>4, <2>5 DEF Parted
  <2>8. /\ inOrder(ime'.delivered)
        /\ ime'.comp = NoContext => ime'.shown = NoPreedit
    BY <1>1, <2>4 DEF Sound
  <2>9. Sound(ime')
    BY <2>2, <2>4, <2>5, <2>6, <2>7, <2>8 DEF Sound
  <2>10. Sound(ime)'
    BY <2>4, <2>9 DEF Sound
  <2>11. Faultless => FALSE
    BY <1>2 DEF PipeBreaks, Faultless
  <2> QED
    BY <2>4, <2>10, <2>11 DEF Keeps, Spares
<1>3. CASE PipeReturns
  <2>1. ime' = [ime EXCEPT !.fresh = TRUE] /\ ~up /\ up'
    BY <1>3 DEF PipeReturns
  <2>2. /\ ime' \in Ime /\ SameCommits(ime, ime')
        /\ ime'.comp = ime.comp /\ ime'.shown = ime.shown
    BY <1>1, <2>1 DEF Ime, SameCommits
  <2>3. Sound(ime')
    BY <1>1, <2>2, Undisturbed DEF Sound
  <2>4. Sound(ime)'
    BY <2>1, <2>3 DEF Sound
  <2> QED
    BY <2>1, <2>2, <2>4 DEF Keeps, Spares, SameCommits
<1> QED
  BY <1>2, <1>3

-----------------------------------------------------------------------------
(* Every step.                                                             *)

LEMMA TypesInit == Init => Types
BY DEF Init, Types, Ops

LEMMA RecordType ==
    ASSUME Types, NEW op \in Ops, NEW h \in BOOLEAN, Record(op, h)
    PROVE  last' \in [op: Ops, handled: BOOLEAN, up: BOOLEAN]
BY DEF Types, Record

LEMMA DisturbedType ==
    ASSUME Types
    PROVE  /\ disturbed(pick) \in Picks \cup {NoPick}
           /\ disturbed(pick) # NoPick =>
                 pick # NoPick /\ disturbed(pick).disturbed
BY DEF Types, disturbed, Picks

LEMMA TypesNext ==
    ASSUME IndInv, Next
    PROVE  Types'
<1>1. Types /\ Sound(ime) /\ ime \in Ime
  BY DEF IndInv, Sound
<1>2. ASSUME NEW k \in Keys, OnKeyDown(k) PROVE Types'
  <2>1. /\ last'.op = k /\ last'.handled \in BOOLEAN
        /\ UNCHANGED <<chinese, ctx, fallback, up>>
        /\ pick' = NoPick \/ pick' = pick
    BY <1>2, OnKeyDownStep
  <2>2. last' \in [op: Ops, handled: BOOLEAN, up: BOOLEAN]
    <3>1. \E h : Record(k, h)
      BY <1>2 DEF OnKeyDown, KeySession
    <3>2. PICK h : Record(k, h)
      BY <3>1
    <3>3. h = last'.handled
      BY <3>2, RecordIs
    <3>4. k \in Ops
      BY DEF Ops
    <3> QED
      BY <1>1, <2>1, <3>2, <3>3, <3>4, RecordType
  <2> QED
    BY <1>1, <2>1, <2>2 DEF Types
<1> USE DEF Ops
<1>3. CASE langBarScheduleToggleChinese
  <2>1. last' \in [op: Ops, handled: BOOLEAN, up: BOOLEAN]
    BY <1>1, <1>3, RecordType DEF langBarScheduleToggleChinese
  <2> QED
    BY <1>1, <1>3, <2>1, DisturbedType DEF Types, langBarScheduleToggleChinese
<1>4. ASSUME NEW w \in BOOLEAN, langBarScheduleActivateInputMethod(w)
      PROVE  Types'
  <2>1. last' \in [op: Ops, handled: BOOLEAN, up: BOOLEAN]
    BY <1>1, <1>4, RecordType DEF langBarScheduleActivateInputMethod
  <2> QED
    BY <1>1, <1>4, <2>1, DisturbedType
       DEF Types, langBarScheduleActivateInputMethod
<1>5. CASE statusAction
  <2>1. last' \in [op: Ops, handled: BOOLEAN, up: BOOLEAN]
    BY <1>1, <1>5, RecordType DEF statusAction
  <2> QED
    BY <1>1, <1>5, <2>1, DisturbedType DEF Types, statusAction
<1>6. CASE OnPick
  <2>1. last' \in [op: Ops, handled: BOOLEAN, up: BOOLEAN]
    BY <1>1, <1>6, RecordType DEF OnPick
  <2>2. pick' \in Picks \cup {NoPick}
    <3>1. ime.win \in Lists
      BY <1>1, <1>6 DEF OnPick, Ime
    <3> DEFINE d == ime.win # ime.list
    <3>2. d \in BOOLEAN
      OBVIOUS
    <3>3. pick' = [list |-> ime.win, disturbed |-> d] \/ pick' = NoPick
      BY <1>6 DEF OnPick
    <3> HIDE DEF d
    <3> QED
      BY <3>1, <3>2, <3>3 DEF Picks
  <2> QED
    BY <1>1, <1>6, <2>1, <2>2 DEF Types, OnPick
<1>7. ASSUME NEW c \in Contexts \cup {NoContext}, OnSetFocus(c)
      PROVE  Types'
  <2>1. last' \in [op: Ops, handled: BOOLEAN, up: BOOLEAN]
    BY <1>1, <1>7, RecordType DEF OnSetFocus
  <2> QED
    BY <1>1, <1>7, <2>1 DEF Types, OnSetFocus
<1>8. CASE OnCompositionTerminated
  <2>1. last' \in [op: Ops, handled: BOOLEAN, up: BOOLEAN]
    BY <1>1, <1>8, RecordType DEF OnCompositionTerminated
  <2> QED
    BY <1>1, <1>8, <2>1 DEF Types, OnCompositionTerminated
<1>9. CASE Deactivate
  <2>1. last' \in [op: Ops, handled: BOOLEAN, up: BOOLEAN]
    BY <1>1, <1>9, RecordType DEF Deactivate
  <2> QED
    BY <1>1, <1>9, <2>1 DEF Types, Deactivate
<1>10. CASE PipeBreaks
  BY <1>1, <1>10 DEF Types, PipeBreaks
<1>11. CASE PipeReturns
  BY <1>1, <1>11, DisturbedType DEF Types, PipeReturns
<1> QED
  BY <1>2, <1>3, <1>4, <1>5, <1>6, <1>7, <1>8, <1>9, <1>10, <1>11 DEF Next

(* A callback whose record names no key is not a key's.                    *)
LEMMA OtherOps ==
    ASSUME Next, ~ \E k \in Keys : OnKeyDown(k)
    PROVE  last'.op \notin Keys
<1>1. "none" \notin Keys /\ "Toggle" \notin Keys
  BY DEF Keys
<1>2. CASE langBarScheduleToggleChinese
  BY <1>1, <1>2, RecordIs DEF langBarScheduleToggleChinese
<1>3. ASSUME NEW w \in BOOLEAN, langBarScheduleActivateInputMethod(w)
      PROVE  last'.op \notin Keys
  BY <1>1, <1>3, RecordIs DEF langBarScheduleActivateInputMethod
<1>4. CASE statusAction \/ OnPick
  BY <1>1, <1>4, RecordIs DEF statusAction, OnPick
<1>5. ASSUME NEW c, OnSetFocus(c)
      PROVE  last'.op \notin Keys
  BY <1>1, <1>5, RecordIs DEF OnSetFocus
<1>6. CASE OnCompositionTerminated \/ Deactivate
  BY <1>1, <1>6, RecordIs DEF OnCompositionTerminated, Deactivate
<1>7. CASE PipeBreaks \/ PipeReturns
  BY <1>1, <1>7 DEF PipeBreaks, PipeReturns
<1> QED
  BY <1>2, <1>3, <1>4, <1>5, <1>6, <1>7 DEF Next

LEMMA StepFacts ==
    ASSUME IndInv, Next
    PROVE  /\ Sound(ime)' /\ Keeps(ime, ime')
           /\ last'.op \notin {"Back", "Return", "Symbol"} =>
                 Spares(ime, ime')
           /\ Faultless /\ up /\ Fit(ime) => up' /\ Fit(ime')
<1>1. CASE PipeBreaks \/ PipeReturns
  BY <1>1, PipeStep
<1>2. CASE ~(PipeBreaks \/ PipeReturns)
  <2>1. Callback
    BY <1>2, OnKeyDownStep, ToggleStep, ActivateStep, StatusActionStep,
       OnPickStep, OnSetFocusStep, EndStep DEF Next
  <2>2. up' = up
    BY <1>2 DEF Next, OnKeyDown, langBarScheduleToggleChinese, statusAction,
       langBarScheduleActivateInputMethod, OnPick, OnSetFocus,
       OnCompositionTerminated, Deactivate
  <2>3. Sound(ime)'
    BY <2>1, <2>2 DEF Callback, Sound
  <2> QED
    BY <2>1, <2>2, <2>3 DEF Callback
<1> QED
  BY <1>1, <1>2

LEMMA SoundInit == Init => Sound(ime)
<1> SUFFICES ASSUME Init PROVE Sound(ime)
  OBVIOUS
<1>1. /\ ime.comp = NoContext /\ ime.shown = NoPreedit
      /\ ime.queue = <<>> /\ ime.delivered = <<>> /\ ime.made = 0
      /\ ime.cleared = {} /\ ime.missed = {} /\ ime.gone = {}
  BY DEF Init
<1>2. ime \in Ime
  <2>1. 0 \in 0..MaxCommits
    BY CommitTypes
  <2>2. <<>> \in Seq(Commits) /\ <<>> \in Seq(Commits \cup {0})
    OBVIOUS
  <2> HIDE DEF Commits
  <2> QED
    BY <2>1, <2>2, TextServiceAssumption DEF Init, Ime, Commits
<1>3. Texts(<<>>) = {} /\ inOrder(<<>>)
  BY TextsOfEmpty, InOrderEmpty
<1>4. Parted(0, {}, {}, {}, {}, {})
  BY DEF Parted
<1>5. <<>> \in Seq(Commits)
  OBVIOUS
<1>6. Before({}, {})
  BY DEF Before
<1> QED
  BY <1>1, <1>2, <1>3, <1>4, <1>5, <1>6 DEF Sound

LEMMA Stutter ==
    ASSUME UNCHANGED vars
    PROVE  /\ chinese' = chinese /\ ctx' = ctx /\ fallback' = fallback
           /\ pick' = pick /\ up' = up /\ ime' = ime /\ last' = last
BY DEF vars

(* The invariant of every behaviour, with all its faults.                  *)
THEOREM Invariant == Spec => []IndInv
<1>1. Init => IndInv
  BY TypesInit, SoundInit DEF IndInv
<1>2. IndInv /\ [Next]_vars => IndInv'
  <2>1. CASE IndInv /\ Next
    BY <2>1, TypesNext, StepFacts DEF IndInv
  <2>2. CASE IndInv /\ UNCHANGED vars
    BY <2>2, Stutter DEF IndInv, Types, Sound
  <2> QED
    BY <2>1, <2>2
<1> QED
  BY <1>1, <1>2, PTL DEF Spec

(* Types; a composition's text goes with the composition, the tray's       *)
(* fallback context is the one that has the sink, and no text is queued or *)
(* written that the engine did not commit.                                 *)
THEOREM TypeCorrect == Spec => []TypeOK
<1>1. IndInv => TypeOK
  <2> SUFFICES ASSUME IndInv PROVE TypeOK
    OBVIOUS
  <2>1. Texts(ime.queue) \cup Texts(ime.delivered) \subseteq 1..ime.made
    BY DEF IndInv, Sound, Parted
  <2> QED
    BY <2>1 DEF IndInv, Types, Sound, TypeOK
<1> QED
  BY <1>1, Invariant, PTL

(* Commits are written in the order the engine made them, none twice,      *)
(* whatever fails (drainCommitsAfterEngine, endCompositionCommit).         *)
THEOREM InOrder == Spec => []CommitsInOrder
<1>1. IndInv => CommitsInOrder
  <2> SUFFICES ASSUME IndInv PROVE CommitsInOrder
    OBVIOUS
  <2>1. /\ ime.delivered \in Seq(Nat) /\ ime.queue \in Seq(Nat)
        /\ inOrder(ime.delivered) /\ inOrder(ime.queue)
        /\ Before(Texts(ime.delivered), Texts(ime.queue))
    <3>1. /\ ime.delivered \in Seq(Commits \cup {0})
          /\ ime.queue \in Seq(Commits \cup {0})
      BY DEF IndInv, Sound, Ime
    <3> QED
      BY <3>1, CommitTypes DEF IndInv, Sound
  <2> QED
    BY <2>1, Concatenation DEF CommitsInOrder
<1> QED
  BY <1>1, Invariant, PTL

(* No commit is lost without a reason, and none is counted twice: written, *)
(* queued, cleared, missed by its document or gone with its server session.*)
THEOREM OneFate == Spec => []CommitsHaveOneFate
<1>1. IndInv => CommitsHaveOneFate
  <2> SUFFICES ASSUME IndInv PROVE CommitsHaveOneFate
    OBVIOUS
  <2> DEFINE f == <<Texts(ime.delivered), Texts(ime.queue), ime.cleared,
                    ime.missed, ime.gone>>
  <2>1. Parted(ime.made, f[1], f[2], f[3], f[4], f[5])
    BY DEF IndInv, Sound
  <2> HIDE DEF f
  <2>2. \A i : i \in 1..5 <=> i \in {1, 2, 3, 4, 5}
    OBVIOUS
  <2>3. 1..ime.made = UNION {f[i] : i \in 1..5}
    <3>1. UNION {f[i] : i \in {1, 2, 3, 4, 5}}
             = f[1] \cup f[2] \cup f[3] \cup f[4] \cup f[5]
      OBVIOUS
    <3>2. 1..5 = {1, 2, 3, 4, 5}
      BY <2>2
    <3> QED
      BY <2>1, <3>1, <3>2 DEF Parted
  <2>4. ASSUME NEW i \in 1..5, NEW j \in 1..5, i < j
        PROVE  f[i] \cap f[j] = {}
    <3>1. /\ f[1] \cap f[2] = {} /\ f[1] \cap f[3] = {}
          /\ f[1] \cap f[4] = {} /\ f[1] \cap f[5] = {}
          /\ f[2] \cap f[3] = {} /\ f[2] \cap f[4] = {}
          /\ f[2] \cap f[5] = {}
          /\ f[3] \cap f[4] = {} /\ f[3] \cap f[5] = {}
          /\ f[4] \cap f[5] = {}
      BY <2>1 DEF Parted
    <3> QED
      BY <2>2, <2>4, <3>1
  <2> QED
    BY <2>3, <2>4 DEF CommitsHaveOneFate, f
<1> QED
  BY <1>1, Invariant, PTL

(* Only a refusal of the application, a composition left in another        *)
(* context, or no context at all, makes a document miss a commit           *)
(* (TODO.md:59, EditSession.cpp:858-875).                                  *)
THEOREM NeedsNoComposition == Spec => CommitNeedsNoComposition
<1>1. IndInv /\ [Next]_vars =>
        [ime'.missed \subseteq ime.missed \cup ime.refused
         \/ ctx = NoContext \/ ime.comp \notin {NoContext, ctx}]_vars
  BY StepFacts DEF Keeps
<1> QED
  BY <1>1, Invariant, PTL DEF Spec, CommitNeedsNoComposition

(* With no empty commit to stop a drain, a claimed key leaves nothing in   *)
(* the queue (every branch of runKeyEditSession ends in a drain).          *)
THEOREM ClaimedKeyDrains ==
    ASSUME ~EmptyCommits
    PROVE  Spec => []HandledKeyDrains
<1>1. Init => HandledKeyDrains
  BY DEF Init, HandledKeyDrains
<1>2. IndInv /\ HandledKeyDrains /\ [Next]_vars => HandledKeyDrains'
  <2>1. ASSUME IndInv, NEW k \in Keys, OnKeyDown(k)
        PROVE  HandledKeyDrains'
    BY <2>1, OnKeyDownStep DEF HandledKeyDrains
  <2>2. ASSUME IndInv, Next, ~ \E k \in Keys : OnKeyDown(k)
        PROVE  HandledKeyDrains'
    BY <2>2, OtherOps DEF HandledKeyDrains
  <2>3. ASSUME HandledKeyDrains, UNCHANGED vars
        PROVE  HandledKeyDrains'
    BY <2>3 DEF HandledKeyDrains, vars
  <2> QED
    BY <2>1, <2>2, <2>3
<1> QED
  BY <1>1, <1>2, Invariant, PTL DEF Spec

(* No commit made while a key is handled is cleared unwritten, but on the  *)
(* three paths the property names (EditSession.cpp:1236-1239, 1306-1307,   *)
(* 1385-1389), nor is one that any other callback finds queued by itself.  *)
THEOREM FreshCommitWritten ==
    ASSUME ~EmptyCommits
    PROVE  Spec => FreshCommitIsWritten
<1>1. IndInv /\ [Next]_vars =>
        [ime.queue = <<>> /\ ime'.cleared # ime.cleared =>
           last'.op \in {"Back", "Return", "Symbol"}]_vars
  BY StepFacts DEF Spares
<1> QED
  BY <1>1, Invariant, PTL DEF Spec, FreshCommitIsWritten

(* A letter or a Backspace the engine did not get is left to the           *)
(* application (ImeEngine.h:50-51).                                        *)
THEOREM UnreachedNotEaten == Spec => []UnreachedKeyNotEaten
<1>1. Init => UnreachedKeyNotEaten
  BY DEF Init, UnreachedKeyNotEaten
<1>2. IndInv /\ UnreachedKeyNotEaten /\ [Next]_vars => UnreachedKeyNotEaten'
  <2>1. ASSUME IndInv, NEW k \in Keys, OnKeyDown(k)
        PROVE  UnreachedKeyNotEaten'
    BY <2>1, OnKeyDownStep DEF UnreachedKeyNotEaten
  <2>2. ASSUME IndInv, Next, ~ \E k \in Keys : OnKeyDown(k)
        PROVE  UnreachedKeyNotEaten'
    BY <2>2, OtherOps DEF UnreachedKeyNotEaten, Keys
  <2>3. ASSUME UnreachedKeyNotEaten, UNCHANGED vars
        PROVE  UnreachedKeyNotEaten'
    BY <2>3 DEF UnreachedKeyNotEaten, vars
  <2> QED
    BY <2>1, <2>2, <2>3
<1> QED
  BY <1>1, <1>2, Invariant, PTL DEF Spec

(* Switching to English leaves no panel, no window and no queued commit    *)
(* behind, and no composition when a session was granted                   *)
(* (trayToggleChineseInEditSession, trayToggleChineseWithoutContext).      *)
THEOREM EnglishStartsClean == Spec => []EnglishModeStartsClean
<1>1. Init => EnglishModeStartsClean
  BY DEF Init, EnglishModeStartsClean
<1>2. IndInv /\ EnglishModeStartsClean /\ [Next]_vars =>
        EnglishModeStartsClean'
  <2>1. ASSUME IndInv, langBarScheduleToggleChinese
        PROVE  EnglishModeStartsClean'
    <3>1. /\ last'.op = "Toggle" /\ last'.up = up /\ up' = up
          /\ chinese /\ up =>
                /\ ime'.win = NoList /\ PanelEmpty(ime') /\ ime'.queue = <<>>
                /\ last'.handled => ime'.comp = NoContext
      BY <2>1, ToggleStep
    <3>2. /\ chinese' = ~chinese /\ ctx' = ctx /\ fallback' = fallback
      BY <2>1 DEF langBarScheduleToggleChinese
    <3>3. trayContext' = trayContext
      BY <3>2 DEF trayContext
    <3>4. chinese \in BOOLEAN
      BY <2>1 DEF IndInv, Types
    <3>5. PanelEmpty(ime)' <=> PanelEmpty(ime')
      BY DEF PanelEmpty, NoPreedit, NoList
    <3> QED
      BY <3>1, <3>2, <3>3, <3>4, <3>5 DEF EnglishModeStartsClean, NoList
  <2>2. ASSUME IndInv, Next, ~langBarScheduleToggleChinese
        PROVE  EnglishModeStartsClean'
    <3>1. last'.op # "Toggle"
      <4>1. \A h : Record("none", h) => last'.op # "Toggle"
        BY DEF Record
      <4>2. ASSUME NEW k \in Keys, OnKeyDown(k) PROVE last'.op # "Toggle"
        BY <2>2, <4>2, OnKeyDownStep DEF Keys
      <4>3. ASSUME NEW w \in BOOLEAN, langBarScheduleActivateInputMethod(w)
            PROVE  last'.op # "Toggle"
        BY <4>3, <4>1 DEF langBarScheduleActivateInputMethod
      <4>4. ASSUME NEW c, OnSetFocus(c) PROVE last'.op # "Toggle"
        BY <4>4, <4>1 DEF OnSetFocus
      <4>5. CASE \/ statusAction \/ OnPick
                 \/ OnCompositionTerminated \/ Deactivate
        BY <4>5, <4>1
           DEF statusAction, OnPick, OnCompositionTerminated, Deactivate
      <4>6. CASE PipeBreaks \/ PipeReturns
        BY <4>6 DEF PipeBreaks, PipeReturns
      <4> QED
        BY <2>2, <4>2, <4>3, <4>4, <4>5, <4>6 DEF Next
    <3> QED
      BY <3>1 DEF EnglishModeStartsClean
  <2>3. ASSUME EnglishModeStartsClean, UNCHANGED vars
        PROVE  EnglishModeStartsClean'
    BY <2>3 DEF EnglishModeStartsClean, vars, trayContext, PanelEmpty
  <2> QED
    BY <2>1, <2>2, <2>3
<1> QED
  BY <1>1, <1>2, Invariant, PTL DEF Spec

-----------------------------------------------------------------------------
(* A click that waits.                                                     *)

(* An undisturbed click still finds the list it was made in, as long as    *)
(* there is a composition and a list to serve it on.                       *)
ClickFindsItsList ==
    /\ pick # NoPick /\ ~pick.disturbed
    /\ ime.comp # NoContext /\ ime.list # NoList
    => pick.list = ime.list

LEMMA ClickStep ==
    ASSUME IndInv, ClickFindsItsList, Next
    PROVE  ClickFindsItsList'
<1>1. Sound(ime) /\ Types /\ ime \in Ime
  BY DEF IndInv, Sound
<1>2. ASSUME pick' = disturbed(pick)
      PROVE  ClickFindsItsList'
  BY <1>1, <1>2, DisturbedType DEF ClickFindsItsList
<1>3. ASSUME NEW k \in Keys, OnKeyDown(k)
      PROVE  ClickFindsItsList'
  <2>1. \/ pick' = NoPick
        \/ pick' = pick /\ pick # NoPick /\ ime' = Reach(ime)
    BY <1>3, OnKeyDownStep
  <2>2. /\ Reach(ime).comp = ime.comp
        /\ Reach(ime) = ime \/ PanelEmpty(Reach(ime))
    BY <1>1, ReachStep
  <2> QED
    BY <2>1, <2>2 DEF ClickFindsItsList, PanelEmpty, NoList
<1>4. CASE langBarScheduleToggleChinese
  BY <1>2, <1>4 DEF langBarScheduleToggleChinese
<1>5. ASSUME NEW w \in BOOLEAN, langBarScheduleActivateInputMethod(w)
      PROVE  ClickFindsItsList'
  BY <1>2, <1>5 DEF langBarScheduleActivateInputMethod
<1>6. CASE statusAction
  BY <1>2, <1>6 DEF statusAction
<1>7. CASE OnPick
  <2>1. CASE pick' = NoPick
    BY <2>1 DEF ClickFindsItsList
  <2>2. CASE /\ pick' = [list |-> ime.win, disturbed |-> ime.win # ime.list]
             /\ UNCHANGED ime
    BY <2>2 DEF ClickFindsItsList
  <2> QED
    BY <1>7, <2>1, <2>2 DEF OnPick
<1>8. ASSUME NEW c, OnSetFocus(c)
      PROVE  ClickFindsItsList'
  BY <1>8 DEF OnSetFocus, ClickFindsItsList, NoList
<1>9. CASE OnCompositionTerminated \/ Deactivate
  <2>1. ime' = endCompositionCancel(ime)
    BY <1>9 DEF OnCompositionTerminated, Deactivate
  <2>2. ime'.comp = NoContext
    BY <1>1, <2>1, endCompositionStep
  <2> QED
    BY <2>2 DEF ClickFindsItsList
<1>10. CASE PipeBreaks
  <2>1. /\ ime' = [ime EXCEPT !.queue = <<>>, !.gone = @ \cup Texts(ime.queue)]
        /\ pick' = pick
    BY <1>10 DEF PipeBreaks
  <2>2. ime'.comp = ime.comp /\ ime'.list = ime.list
    BY <1>1, <2>1 DEF Ime
  <2> QED
    BY <2>1, <2>2 DEF ClickFindsItsList, NoList
<1>11. CASE PipeReturns
  BY <1>2, <1>11 DEF PipeReturns
<1> QED
  BY <1>3, <1>4, <1>5, <1>6, <1>7, <1>8, <1>9, <1>10, <1>11 DEF Next

(* A click that could not be served at once is served on the list that was *)
(* clicked (DoEditSession, EditSession.cpp:1482-1496).                     *)
THEOREM PickServed == Spec => PickServedOnItsList
<1>1. Init => ClickFindsItsList
  BY DEF Init, ClickFindsItsList
<1>2. IndInv /\ ClickFindsItsList /\ [Next]_vars => ClickFindsItsList'
  <2>1. ASSUME ClickFindsItsList, UNCHANGED vars
        PROVE  ClickFindsItsList'
    BY <2>1 DEF ClickFindsItsList, vars, NoList
  <2> QED
    BY <2>1, ClickStep
<1>3. ClickFindsItsList =>
        [/\ pick # NoPick /\ pick' = NoPick /\ last'.op \in Keys
         /\ ~pick.disturbed
         /\ ime.comp # NoContext /\ ime.list # NoList
         => pick.list = ime.list]_vars
  BY DEF ClickFindsItsList
<1> QED
  BY <1>1, <1>2, <1>3, Invariant, PTL DEF Spec, PickServedOnItsList

-----------------------------------------------------------------------------
(* A host that grants every composition and an in-process engine that      *)
(* commits no empty text, and none on a Backspace that leaves a preedit.   *)

FitInv ==
    /\ up /\ Fit(ime)
    /\ last.op \in Keys \ {"Move"} /\ last.handled => Shows(ime)

THEOREM FitInvariant ==
    ASSUME Faultless
    PROVE  Spec => []FitInv
<1>1. Init => FitInv
  BY DEF Init, FitInv, Fit, PanelEmpty, Keys
<1>2. IndInv /\ FitInv /\ [Next]_vars => FitInv'
  <2>1. ASSUME IndInv, FitInv, Next
        PROVE  up' /\ Fit(ime)'
    <3>1. up' /\ Fit(ime')
      BY <2>1, StepFacts DEF FitInv
    <3> QED
      BY <3>1 DEF Fit, PanelEmpty, NoList, NoPreedit
  <2>2. ASSUME IndInv, FitInv, NEW k \in Keys, OnKeyDown(k),
               last'.op \in Keys \ {"Move"}, last'.handled
        PROVE  Shows(ime)'
    <3>1. Shows(ime') /\ ctx' = ctx
      BY <2>2, OnKeyDownStep DEF FitInv
    <3> QED
      BY <3>1 DEF Shows, PanelEmpty, NoList, NoPreedit
  <2>3. ASSUME FitInv, UNCHANGED vars
        PROVE  FitInv'
    BY <2>3, Stutter DEF FitInv, Fit, Shows, PanelEmpty, NoList, NoPreedit, Keys
  <2>4. ASSUME IndInv, FitInv, Next
        PROVE  FitInv'
    <3>1. CASE \E k \in Keys : OnKeyDown(k)
      BY <2>1, <2>2, <2>4, <3>1 DEF FitInv, Keys
    <3>2. CASE ~ \E k \in Keys : OnKeyDown(k)
      BY <2>1, <2>4, <3>2, OtherOps DEF FitInv, Keys
    <3> QED
      BY <3>1, <3>2
  <2> QED
    BY <2>3, <2>4
<1> QED
  BY <1>1, <1>2, Invariant, PTL DEF Spec

(* After a claimed key the document and the window show the engine's panel *)
(* (EditSession.cpp:911-914).                                              *)
THEOREM DocumentFollows ==
    ASSUME Faultless
    PROVE  Spec => []DocumentFollowsPanel
<1>1. FitInv => DocumentFollowsPanel
  BY DEF FitInv, Shows, DocumentFollowsPanel
<1> QED
  BY <1>1, FitInvariant, PTL

(* The candidate window is never up without a composition                  *)
(* (EditSession.cpp:924-927, 1485).                                        *)
THEOREM WindowComposed ==
    ASSUME Faultless
    PROVE  Spec => []WindowHasComposition
<1>1. FitInv => WindowHasComposition
  BY DEF FitInv, Fit, WindowHasComposition
<1> QED
  BY <1>1, FitInvariant, PTL

===============================================================================
