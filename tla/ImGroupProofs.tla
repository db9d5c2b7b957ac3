---------------------------- MODULE ImGroupProofs ----------------------------
(***************************************************************************)
(* The safety properties of ImGroup, for any engines, installations and    *)
(* profiles.                                                               *)
(***************************************************************************)
EXTENDS ImGroup, SequenceTheorems, FiniteSetTheorems,
        WellFoundedInduction, TLAPS

-----------------------------------------------------------------------------
(* Numbers and sequences.                                                  *)

LEMMA Least ==
    ASSUME NEW T \in SUBSET Nat, T # {}
    PROVE  \E n \in T : \A m \in T : n <= m
<1> DEFINE R == OpToRel(<, Nat)
<1>1. IsWellFoundedOn(R, Nat)
  BY NatLessThanWellFounded
<1>2. \A x, y \in Nat : y < x => <<y, x>> \in R
  BY DEF OpToRel
<1> HIDE DEF R
<1>3. PICK x \in T : \A y \in T : ~ (<<y, x>> \in R)
  BY <1>1, WFMin
<1>4. \A y \in T : ~ (y < x)
  BY <1>2, <1>3
<1> QED
  BY <1>3, <1>4

(* A finite set of numbers has an n-th element, and only one.              *)
Rank(at, i) == Cardinality({j \in at : j <= i})

LEMMA Nth ==
    ASSUME NEW k \in Nat, NEW at \in SUBSET (1..k)
    PROVE  /\ Cardinality(at) \in Nat
           /\ \A n \in 1..Cardinality(at) : \E i \in at : Rank(at, i) = n
           /\ \A i \in at : Rank(at, i) \in 1..Cardinality(at)
           /\ \A i, j \in at : Rank(at, i) = Rank(at, j) => i = j
<1> DEFINE upTo(i) == {j \in at : j <= i}
<1>0. \A j \in at : j \in Nat /\ 1 <= j /\ j <= k
  OBVIOUS
<1>1. IsFiniteSet(at) /\ Cardinality(at) \in Nat
  <2>1. IsFiniteSet(1..k)
    BY FS_Interval
  <2> QED
    BY <2>1, FS_Subset, FS_CardinalityType
<1>2. \A i \in Nat : /\ IsFiniteSet(upTo(i)) /\ Rank(at, i) \in Nat
                     /\ Rank(at, i) <= Cardinality(at)
  BY <1>1, FS_Subset, FS_CardinalityType DEF Rank
<1>3. Rank(at, 0) = 0
  <2>1. upTo(0) = {}
    <3>1. \A j \in at : ~ (j <= 0)
      BY <1>0
    <3> QED
      BY <3>1
  <2> QED
    BY <2>1, FS_EmptySet DEF Rank
<1>4. ASSUME NEW i \in Nat
      PROVE  Rank(at, i + 1) = IF i + 1 \in at THEN Rank(at, i) + 1
                               ELSE Rank(at, i)
  <2>1. CASE i + 1 \in at
    <3>1. upTo(i + 1) = upTo(i) \cup {i + 1} /\ i + 1 \notin upTo(i)
      <4>1. \A j \in at : j <= i + 1 <=> j <= i \/ j = i + 1
        BY <1>0
      <4>2. ~ (i + 1 <= i) /\ i + 1 <= i + 1
        OBVIOUS
      <4> QED
        BY <2>1, <4>1, <4>2
    <3>2. IsFiniteSet(upTo(i))
      BY <1>2
    <3> QED
      BY <2>1, <3>1, <3>2, FS_AddElement DEF Rank
  <2>2. CASE i + 1 \notin at
    <3>1. upTo(i + 1) = upTo(i)
      <4>1. \A j \in at : j <= i + 1 <=> j <= i \/ j = i + 1
        BY <1>0
      <4> QED
        BY <2>2, <4>1
    <3> QED
      BY <2>2, <3>1 DEF Rank
  <2> QED
    BY <2>1, <2>2
<1>5. ASSUME NEW n \in 1..Cardinality(at)
      PROVE  \E i \in at : Rank(at, i) = n
  <2> DEFINE T == {i \in Nat : n <= Rank(at, i)}
  <2>1. Rank(at, k) = Cardinality(at)
    <3>1. upTo(k) = at
      BY <1>0
    <3> QED
      BY <3>1 DEF Rank
  <2>2. T \in SUBSET Nat /\ k \in T
    BY <1>1, <2>1
  <2>3. PICK m \in T : \A j \in T : m <= j
    BY <2>2, Least
  <2>4. m # 0
    BY <1>1, <1>3, <2>3
  <2>5. m - 1 \in Nat /\ m - 1 \notin T
    BY <2>2, <2>3, <2>4
  <2>6. Rank(at, m - 1) < n /\ Rank(at, m - 1) \in Nat
    <3>1. ~(n <= Rank(at, m - 1)) /\ Rank(at, m - 1) \in Nat
      BY <1>2, <2>5
    <3> QED
      BY <1>1, <3>1
  <2>7. Rank(at, m) = IF m \in at THEN Rank(at, m - 1) + 1
                      ELSE Rank(at, m - 1)
    <3>1. (m - 1) + 1 = m
      BY <2>3
    <3> QED
      BY <1>4, <2>5, <3>1
  <2> QED
    BY <1>1, <2>3, <2>6, <2>7
<1>6. ASSUME NEW i \in at
      PROVE  Rank(at, i) \in 1..Cardinality(at)
  <2>1. i \in Nat /\ i - 1 \in Nat /\ (i - 1) + 1 = i
    BY <1>0
  <2>2. Rank(at, i) = Rank(at, i - 1) + 1
    BY <1>4, <2>1
  <2>3. /\ Rank(at, i - 1) \in Nat
        /\ Rank(at, i) \in Nat /\ Rank(at, i) <= Cardinality(at)
    BY <1>2, <2>1
  <2> QED
    BY <1>1, <2>2, <2>3
<1>7. ASSUME NEW i \in at, NEW h \in at, Rank(at, i) = Rank(at, h)
      PROVE  i = h
  <2>1. ASSUME NEW x \in at, NEW y \in at, x < y PROVE Rank(at, x) # Rank(at, y)
    <3>1. upTo(x) \in SUBSET upTo(y) /\ y \in upTo(y) /\ y \notin upTo(x)
      <4>1. \A j \in at : j <= x => j <= y
        BY <1>0, <2>1
      <4>2. y <= y /\ ~ (y <= x)
        BY <1>0, <2>1
      <4> QED
        BY <4>1, <4>2
    <3>2. IsFiniteSet(upTo(y))
      BY <1>2
    <3> QED
      BY <3>1, <3>2, FS_Subset DEF Rank
  <2> QED
    BY <1>7, <2>1
<1> QED
  BY <1>1, <1>5, <1>6, <1>7

-----------------------------------------------------------------------------
(* Lists of input methods.                                                 *)

LEMMA NoIMIsNone == NoIM \notin InputMethods /\ {KeyboardUs, Pinyin} \subseteq InputMethods
BY ImGroupAssumption DEF InputMethods

LEMMA ContainsIs ==
    ASSUME NEW S, NEW s \in Seq(S), NEW x
    PROVE  /\ Contains(s, x) <=> \E i \in 1..Len(s) : s[i] = x
           /\ Contains(s, x) => s # <<>> /\ x \in S
<1>1. \A i \in 1..Len(s) : s[i] \in S
  OBVIOUS
<1>2. Contains(s, x) <=> \E i \in 1..Len(s) : s[i] = x
  BY DEF Contains
<1>3. s = <<>> => Len(s) = 0
  OBVIOUS
<1> QED
  BY <1>1, <1>2, <1>3

LEMMA ContainsConcat ==
    ASSUME NEW S, NEW s \in Seq(S), NEW t \in Seq(S), NEW x
    PROVE  /\ s \o t \in Seq(S)
           /\ Contains(s \o t, x) <=> Contains(s, x) \/ Contains(t, x)
<1>1. /\ s \o t \in Seq(S)
      /\ Len(s) \in Nat /\ Len(t) \in Nat /\ Len(s \o t) = Len(s) + Len(t)
      /\ \A i \in 1..Len(s) : (s \o t)[i] = s[i] /\ i \in 1..(Len(s) + Len(t))
      /\ \A i \in 1..Len(t) : /\ (s \o t)[Len(s) + i] = t[i]
                              /\ Len(s) + i \in 1..(Len(s) + Len(t))
  OBVIOUS
<1>2. \A i \in 1..(Len(s) + Len(t)) :
         i \in 1..Len(s) \/ \E j \in 1..Len(t) : i = Len(s) + j
  <2> SUFFICES ASSUME NEW i \in 1..(Len(s) + Len(t)), ~ (i \in 1..Len(s))
               PROVE  \E j \in 1..Len(t) : i = Len(s) + j
    OBVIOUS
  <2>1. i - Len(s) \in 1..Len(t) /\ i = Len(s) + (i - Len(s))
    BY <1>1
  <2> QED
    BY <2>1
<1> QED
  BY <1>1, <1>2 DEF Contains

LEMMA Singles ==
    ASSUME NEW S, NEW x \in S, NEW y
    PROVE  /\ <<>> \in Seq(S) /\ <<x>> \in Seq(S)
           /\ ~Contains(<<>>, y)
           /\ Contains(<<x>>, y) <=> x = y
BY DEF Contains

LEMMA knownOfIs ==
    ASSUME NEW s \in Seq(InputMethods)
    PROVE  /\ knownOf(s) \in Seq(InputMethods)
           /\ \A x \in package.known :
                 Contains(s, x) => Contains(knownOf(s), x)
<1> DEFINE at == {i \in DOMAIN s : s[i] \in package.known}
           nth(n) == CHOOSE i \in at : Rank(at, i) = n
           t == [n \in 1..Cardinality(at) |-> s[nth(n)]]
<1>1. t = knownOf(s)
  BY DEF knownOf, Rank
<1>2. /\ Len(s) \in Nat /\ DOMAIN s = 1..Len(s)
      /\ \A i \in 1..Len(s) : s[i] \in InputMethods
  OBVIOUS
<1>3. /\ at \in SUBSET (1..Len(s))
      /\ \A i \in 1..Len(s) : s[i] \in package.known => i \in at
  BY <1>2
<1> HIDE DEF at
<1>4. /\ Cardinality(at) \in Nat
      /\ \A n \in 1..Cardinality(at) : \E i \in at : Rank(at, i) = n
      /\ \A i \in at : Rank(at, i) \in 1..Cardinality(at)
      /\ \A i, j \in at : Rank(at, i) = Rank(at, j) => i = j
  BY <1>2, <1>3, Nth
<1>5. \A n \in 1..Cardinality(at) : nth(n) \in at /\ Rank(at, nth(n)) = n
  BY <1>4
<1> HIDE DEF nth
<1>6. \A n \in 1..Cardinality(at) : s[nth(n)] \in InputMethods
  BY <1>2, <1>3, <1>5
<1>7. t \in Seq(InputMethods) /\ Len(t) = Cardinality(at)
  BY <1>4, <1>6
<1>8. ASSUME NEW x \in package.known, Contains(s, x)
      PROVE  Contains(t, x)
  <2>1. PICK i \in 1..Len(s) : s[i] = x
    BY <1>8 DEF Contains
  <2>2. i \in at
    BY <1>3, <2>1
  <2>3. nth(Rank(at, i)) = i
    BY <1>4, <1>5, <2>2
  <2>4. Rank(at, i) \in 1..Len(t) /\ t[Rank(at, i)] = x
    BY <1>4, <1>7, <2>1, <2>2, <2>3
  <2> QED
    BY <2>4 DEF Contains
<1> QED
  BY <1>1, <1>7, <1>8

(* Taking out the first x leaves the others.                               *)
LEMMA RemoveFirstIs ==
    ASSUME NEW S, NEW s \in Seq(S), NEW x
    PROVE  /\ RemoveFirst(s, x) \in Seq(S)
           /\ \A y : y # x /\ Contains(s, y) => Contains(RemoveFirst(s, x), y)
<1>1. CASE ~ \E i \in 1..Len(s) : s[i] = x
  BY <1>1 DEF RemoveFirst
<1>2. CASE \E i \in 1..Len(s) : s[i] = x
  <2> DEFINE I == {i \in 1..Len(s) : s[i] = x}
             k == SelectInSeq(s, LAMBDA v : v = x)
  <2>1. k = Min(I)
    BY <1>2 DEF SelectInSeq
  <2>2. I \in SUBSET Nat /\ I # {}
    BY <1>2
  <2>3. Min(I) \in I
    <3> HIDE DEF I
    <3>1. \E m \in I : \A j \in I : m <= j
      BY <2>2, Least
    <3> QED
      BY <3>1 DEF Min
  <2>4. k \in 1..Len(s) /\ s[k] = x
    BY <2>1, <2>3
  <2>5. RemoveFirst(s, x) = SubSeq(s, 1, k - 1) \o SubSeq(s, k + 1, Len(s))
    BY <1>2 DEF RemoveFirst, RemoveAt
  <2> HIDE DEF k, I
  <2> DEFINE a == SubSeq(s, 1, k - 1)
             b == SubSeq(s, k + 1, Len(s))
  <2>6. Len(s) \in Nat /\ k \in Nat
    BY <2>4
  <2>7. /\ a \in Seq(S) /\ Len(a) = k - 1
        /\ \A i \in 1..(k - 1) : a[i] = s[i]
    BY <2>4, <2>6
  <2>8. /\ b \in Seq(S) /\ Len(b) = Len(s) - k
        /\ \A i \in 1..(Len(s) - k) : b[i] = s[k + i]
    BY <2>4, <2>6
  <2> HIDE DEF a, b
  <2>9. ASSUME NEW y, y # x, Contains(s, y)
        PROVE  Contains(a, y) \/ Contains(b, y)
    <3>1. PICK i \in 1..Len(s) : s[i] = y
      BY <2>9 DEF Contains
    <3>2. CASE i < k
      <4>1. i \in 1..(k - 1)
        BY <2>6, <3>2
      <4> QED
        BY <2>7, <3>1, <4>1 DEF Contains
    <3>3. CASE i > k
      <4>1. i - k \in 1..(Len(s) - k) /\ k + (i - k) = i
        BY <2>6, <3>3
      <4> QED
        BY <2>8, <3>1, <4>1 DEF Contains
    <3>4. i # k
      BY <2>4, <2>9, <3>1
    <3> QED
      BY <2>6, <3>2, <3>3, <3>4
  <2>10. RemoveFirst(s, x) = a \o b
    BY <2>5 DEF a, b
  <2>11. /\ a \o b \in Seq(S)
         /\ \A y : Contains(a \o b, y) <=> Contains(a, y) \/ Contains(b, y)
    BY <2>7, <2>8, ContainsConcat
  <2> QED
    BY <2>9, <2>10, <2>11
<1> QED
  BY <1>1, <1>2

-----------------------------------------------------------------------------
(* Groups.                                                                 *)

Names == InputMethods \cup {NoIM}
View == [groups: Seq(Group), active: BOOLEAN, local: Names]

(* Chinese can be switched on in g.                                        *)
Switchable(g) ==
    g.list # <<>> /\ g.list[1] # Pinyin /\ Contains(g.list, Pinyin)

SomeSwitchable(groups) == \E i \in DOMAIN groups : Switchable(groups[i])

Complete == {KeyboardUs, Pinyin} \subseteq package.known

LEMMA GroupIs ==
    ASSUME NEW g \in Group
    PROVE  g.list \in Seq(InputMethods) /\ g.def \in Names
BY DEF Group, Names

LEMMA PackageIs ==
    ASSUME package \in Packages
    PROVE  /\ package.known \subseteq InputMethods
           /\ package.env \in Names /\ package.active \in BOOLEAN
BY ImGroupAssumption DEF PackageType, Names

LEMMA FirstEntriesAre ==
    ASSUME package \in Packages, NEW first \in FirstEntries(package.known)
    PROVE  first \in Seq(InputMethods)
<1>1. PICK n \in 0..2 : first \in [1..n -> package.known]
  BY DEF FirstEntries
<1>2. first \in Seq(package.known)
  BY <1>1
<1> QED
  BY <1>2, PackageIs, SeqMonotonic

(* The repair of a group loses no input method, keeps the default of a     *)
(* group that had one, and leaves a group in which Chinese can be switched *)
(* on wherever the keyboard and pinyin are installed.                      *)
LEMMA RepairIs ==
    ASSUME package \in Packages, NEW g \in Group,
           NEW first \in FirstEntries(package.known)
    PROVE  LET r == ensurePortableImGroupHasEntries(g, first, package.known)
           IN  /\ r \in Group
               /\ Complete => Switchable(r)
               /\ \A x : Contains(g.list, x) => Contains(r.list, x)
               /\ g.list # <<>> /\ g.def # NoIM => r.def = g.def
<1> DEFINE known == package.known
           entry(im) == IF im \in known THEN <<im>> ELSE <<>>
           missing(im) == IF Contains(g.list, im) THEN <<>> ELSE entry(im)
           standard == entry(KeyboardUs) \o entry(Pinyin)
           full == missing(KeyboardUs) \o g.list \o missing(Pinyin)
           list == IF g.list # <<>> THEN full
                   ELSE IF standard # <<>> THEN standard ELSE first
           def == IF list = <<>> \/ (g.list # <<>> /\ g.def # NoIM) THEN g.def
                  ELSE IF Contains(list, Pinyin) THEN Pinyin
                  ELSE IF g.list = <<>> THEN Last(list)
                  ELSE list[1]
           pinyinFirst == /\ list # <<>> /\ list[1] = Pinyin
                          /\ KeyboardUs \in known /\ Contains(list, KeyboardUs)
           final == IF pinyinFirst
                    THEN <<KeyboardUs>> \o RemoveFirst(list, KeyboardUs)
                    ELSE list
           S == InputMethods
<1>1. ensurePortableImGroupHasEntries(g, first, package.known)
        = [list |-> final, def |-> def]
  BY DEF ensurePortableImGroupHasEntries
<1>2. /\ g.list \in Seq(S) /\ g.def \in Names /\ first \in Seq(S)
      /\ KeyboardUs \in S /\ Pinyin \in S /\ KeyboardUs # Pinyin
      /\ S \subseteq Names /\ known \subseteq S
  BY GroupIs, FirstEntriesAre, NoIMIsNone, PackageIs DEF KeyboardUs, Pinyin, Names
<1>3. Complete <=> KeyboardUs \in known /\ Pinyin \in known
  BY DEF Complete
<1> HIDE DEF known, S
<1>4. \A im \in S : /\ entry(im) \in Seq(S)
                    /\ im \in known => Contains(entry(im), im)
  BY Singles
<1> HIDE DEF entry
<1>5. \A im \in S : missing(im) \in Seq(S)
  BY <1>4, Singles
<1>6. \A im \in S : im \in known /\ ~Contains(g.list, im)
                      => Contains(missing(im), im)
  BY <1>4
<1> HIDE DEF missing
<1>7. /\ standard \in Seq(S)
      /\ \A x : Contains(standard, x) <=> Contains(entry(KeyboardUs), x)
                                          \/ Contains(entry(Pinyin), x)
  BY <1>2, <1>4, ContainsConcat
<1> HIDE DEF standard
<1>8. /\ full \in Seq(S)
      /\ \A x : Contains(full, x) <=> \/ Contains(missing(KeyboardUs), x)
                                      \/ Contains(g.list, x)
                                      \/ Contains(missing(Pinyin), x)
  <2>1. /\ missing(KeyboardUs) \o g.list \in Seq(S)
        /\ \A x : Contains(missing(KeyboardUs) \o g.list, x) <=>
                     Contains(missing(KeyboardUs), x) \/ Contains(g.list, x)
    BY <1>2, <1>5, ContainsConcat
  <2> DEFINE m == missing(KeyboardUs) \o g.list
  <2>2. full = m \o missing(Pinyin)
    OBVIOUS
  <2> HIDE DEF m
  <2>3. /\ m \o missing(Pinyin) \in Seq(S)
        /\ \A x : Contains(m \o missing(Pinyin), x) <=>
                     Contains(m, x) \/ Contains(missing(Pinyin), x)
    <3>1. m \in Seq(S) /\ missing(Pinyin) \in Seq(S)
      BY <1>2, <1>5, <2>1 DEF m
    <3> QED
      BY <3>1, ContainsConcat
  <2> HIDE DEF full
  <2> QED
    BY <2>1, <2>2, <2>3 DEF m
<1> HIDE DEF full
<1>9. list \in Seq(S)
  BY <1>2, <1>7, <1>8
<1>10. Complete => Contains(list, KeyboardUs) /\ Contains(list, Pinyin)
  <2> SUFFICES ASSUME Complete
               PROVE  Contains(list, KeyboardUs) /\ Contains(list, Pinyin)
    OBVIOUS
  <2>1. CASE g.list # <<>>
    <3>1. Contains(full, KeyboardUs) /\ Contains(full, Pinyin)
      BY <1>2, <1>3, <1>6, <1>8
    <3> QED
      BY <2>1, <3>1
  <2>2. CASE g.list = <<>>
    <3>1. Contains(standard, KeyboardUs) /\ Contains(standard, Pinyin)
      BY <1>2, <1>3, <1>4, <1>7
    <3>2. standard # <<>>
      BY <1>7, <3>1, ContainsIs
    <3> QED
      BY <2>2, <3>1, <3>2
  <2> QED
    BY <2>1, <2>2
<1>11. \A x : Contains(g.list, x) => g.list # <<>> /\ Contains(list, x)
  BY <1>2, <1>8, ContainsIs
<1> HIDE DEF list
<1>12. def \in Names /\ (g.list # <<>> /\ g.def # NoIM => def = g.def)
  <2>1. list # <<>> => list[1] \in S /\ Last(list) \in S
    <3>1. list # <<>> => Len(list) \in Nat /\ Len(list) # 0
      BY <1>9
    <3> QED
      BY <1>9, <3>1 DEF Last
  <2> QED
    BY <1>2, <2>1
<1> HIDE DEF def
<1> DEFINE rest == RemoveFirst(list, KeyboardUs)
<1>13. /\ rest \in Seq(S)
       /\ \A y : y # KeyboardUs /\ Contains(list, y) => Contains(rest, y)
  BY <1>9, RemoveFirstIs
<1>14. /\ <<KeyboardUs>> \o rest \in Seq(S)
       /\ \A x : Contains(<<KeyboardUs>> \o rest, x) <=>
                    KeyboardUs = x \/ Contains(rest, x)
       /\ <<KeyboardUs>> \o rest # <<>>
       /\ (<<KeyboardUs>> \o rest)[1] = KeyboardUs
  <2>1. <<KeyboardUs>> \in Seq(S) /\ \A x : Contains(<<KeyboardUs>>, x) <=> KeyboardUs = x
    BY <1>2, Singles
  <2>2. /\ <<KeyboardUs>> \o rest # <<>>
        /\ (<<KeyboardUs>> \o rest)[1] = KeyboardUs
    BY <1>13
  <2> QED
    BY <1>13, <2>1, <2>2, ContainsConcat
<1> HIDE DEF rest
<1>15. /\ final \in Seq(S)
       /\ \A x : Contains(list, x) => Contains(final, x)
       /\ Complete => /\ final # <<>> /\ final[1] # Pinyin
                      /\ Contains(final, Pinyin)
  <2>1. CASE pinyinFirst
    BY <1>2, <1>10, <1>13, <1>14, <2>1 DEF rest
  <2>2. CASE ~pinyinFirst
    <3>1. final = list
      BY <2>2
    <3>2. Complete => list # <<>>
      BY <1>9, <1>10, ContainsIs
    <3>3. Complete => list[1] # Pinyin
      BY <1>3, <1>10, <2>2, <3>2
    <3> QED
      BY <1>9, <1>10, <3>1, <3>2, <3>3
  <2> QED
    BY <2>1, <2>2
<1> HIDE DEF final
<1> DEFINE r == [list |-> final, def |-> def]
<1>16. r.list = final /\ r.def = def
  OBVIOUS
<1>17. r \in Group
  BY <1>12, <1>15 DEF Group, Names, S
<1> HIDE DEF r
<1>18. /\ Complete => Switchable(r)
       /\ \A x : Contains(g.list, x) => Contains(r.list, x)
       /\ g.list # <<>> /\ g.def # NoIM => r.def = g.def
  BY <1>11, <1>12, <1>15, <1>16 DEF Switchable
<1> QED
  BY <1>1, <1>17, <1>18 DEF r

(* A switch changes no list of any group.                                  *)
LEMMA setCurrentInputMethodIs ==
    ASSUME NEW e \in View, e.groups # <<>>, NEW im \in InputMethods,
           NEW local \in BOOLEAN
    PROVE  LET f == setCurrentInputMethod(e, im, local)
           IN  /\ f \in View /\ f.groups # <<>>
               /\ SomeSwitchable(e.groups) => SomeSwitchable(f.groups)
               /\ currentGroup(f).list = currentGroup(e).list
<1> DEFINE g == currentGroup(e)
           f == setCurrentInputMethod(e, im, local)
           h == [g EXCEPT !.def = im]
           gs == <<h>> \o Tail(e.groups)
<1>1. /\ e.groups \in Seq(Group) /\ Len(e.groups) \in Nat \ {0}
      /\ g = e.groups[1] /\ g \in Group
      /\ e.active \in BOOLEAN /\ e.local \in Names
      /\ im \in Names
  BY DEF View, currentGroup, Names
<1>2. h \in Group /\ h.list = g.list /\ h.def = im
  BY <1>1 DEF Group, Names
<1> HIDE DEF g, h
<1>3. /\ gs \in Seq(Group) /\ Len(gs) = Len(e.groups) /\ gs # <<>>
      /\ gs[1] = h /\ Head(gs) = h
      /\ \A i \in 2..Len(e.groups) : gs[i] = e.groups[i]
  BY <1>1, <1>2
<1> HIDE DEF gs
<1>4. SomeSwitchable(e.groups) => SomeSwitchable(gs)
  <2>1. DOMAIN e.groups = 1..Len(e.groups) /\ DOMAIN gs = 1..Len(e.groups)
    BY <1>1, <1>3
  <2>2. \A i \in 1..Len(e.groups) : gs[i].list = e.groups[i].list
    BY <1>1, <1>2, <1>3
  <2> QED
    BY <2>1, <2>2 DEF SomeSwitchable, Switchable
<1>5. \/ f = e
      \/ f = [e EXCEPT !.active = FALSE]
      \/ f = [e EXCEPT !.active = TRUE, !.local = im]
      \/ f = [e EXCEPT !.active = TRUE, !.local = NoIM, !.groups = gs]
  BY DEF setCurrentInputMethod, gs, h, g
<1>6. NoIM \in Names /\ TRUE \in BOOLEAN /\ FALSE \in BOOLEAN
  BY DEF Names
<1>7. f \in View /\ (f.groups = e.groups \/ f.groups = gs)
  BY <1>1, <1>3, <1>5, <1>6 DEF View
<1>8. currentGroup(f).list = currentGroup(e).list
  BY <1>1, <1>2, <1>3, <1>7 DEF currentGroup, g
<1> QED
  BY <1>3, <1>4, <1>7, <1>8

(* What an activation does, read off its definition.                       *)
ActivationStart(e, g) == [e EXCEPT !.groups = <<g>> \o Tail(@)]

Tried(g, preferred) ==
    {i \in DOMAIN activationOrder(g, preferred) :
        activationOrder(g, preferred)[i] \in package.known}

FirstTried(g, preferred) ==
    {activationOrder(g, preferred)[i] :
        i \in {j \in Tried(g, preferred) :
                  \A k \in Tried(g, preferred) : j <= k}}

Activates(e, preferred, local, r) ==
    \E first \in FirstEntries(package.known) :
       LET g == ensurePortableImGroupHasEntries(currentGroup(e), first,
                                                package.known)
           s == ActivationStart(e, g)
       IN  /\ r.save \subseteq {s.groups}
           /\ \/ /\ Tried(g, preferred) = {}
                 /\ \/ r.to = s
                    \/ \E im \in package.known :
                          r.to = setCurrentInputMethod(s, im, local)
              \/ /\ Tried(g, preferred) # {}
                 /\ \/ FirstTried(g, preferred) = {} /\ r.to = s
                    \/ \E im \in FirstTried(g, preferred) :
                          r.to = setCurrentInputMethod(s, im, local)

LEMMA ActivationIs ==
    ASSUME NEW e, NEW preferred, NEW local,
           NEW r \in activatePreferredInputMethod(e, preferred, local)
    PROVE  Activates(e, preferred, local, r)
<1> DEFINE St(g) == ActivationStart(e, g)
           repaired == {ensurePortableImGroupHasEntries(currentGroup(e), first,
                                                        package.known) :
                        first \in FirstEntries(package.known)}
           picks(g) == IF Tried(g, preferred) = {} THEN package.known
                       ELSE FirstTried(g, preferred)
           ends(g) == IF picks(g) = {} THEN {St(g)}
                      ELSE {setCurrentInputMethod(St(g), im, local) :
                            im \in picks(g)}
           saves(g) == IF g = currentGroup(e) THEN {} ELSE {St(g).groups}
           results(g) == {[to |-> f, save |-> saves(g)] : f \in ends(g)}
<1>1. r \in UNION {results(g) : g \in repaired}
  BY DEF activatePreferredInputMethod, ActivationStart, Tried, FirstTried
<1> HIDE DEF St, picks, results
<1>2. PICK g \in repaired : r \in results(g)
  BY <1>1
<1>3. PICK first \in FirstEntries(package.known) :
        g = ensurePortableImGroupHasEntries(currentGroup(e), first,
                                            package.known)
  BY <1>2
<1> HIDE DEF repaired, ends, saves
<1>4. PICK f \in ends(g) : r = [to |-> f, save |-> saves(g)]
  BY <1>2 DEF results
<1>5. r.to = f /\ r.save \subseteq {St(g).groups}
  BY <1>4 DEF saves
<1>6. \/ picks(g) = {} /\ f = St(g)
      \/ \E im \in picks(g) : f = setCurrentInputMethod(St(g), im, local)
  BY <1>4 DEF ends
<1>7. CASE Tried(g, preferred) = {}
  <2>1. picks(g) = package.known
    BY <1>7 DEF picks
  <2> QED
    BY <1>3, <1>5, <1>6, <1>7, <2>1 DEF St, Activates
<1>8. CASE Tried(g, preferred) # {}
  <2>1. picks(g) = FirstTried(g, preferred)
    BY <1>8 DEF picks
  <2> QED
    BY <1>3, <1>5, <1>6, <1>8, <2>1 DEF St, Activates
<1> QED
  BY <1>7, <1>8

LEMMA ActivationKeeps ==
    ASSUME package \in Packages, NEW e \in View, e.groups # <<>>,
           NEW preferred \in Names, NEW local \in BOOLEAN,
           NEW r \in activatePreferredInputMethod(e, preferred, local)
    PROVE  /\ r.to \in View /\ r.to.groups # <<>>
           /\ Complete => SomeSwitchable(r.to.groups)
           /\ \A groups \in r.save :
                 /\ groups \in Seq(Group) /\ groups # <<>>
                 /\ Complete => SomeSwitchable(groups)
<1>0. Activates(e, preferred, local, r)
  BY ActivationIs
<1>1. PICK first \in FirstEntries(package.known) :
        LET g == ensurePortableImGroupHasEntries(currentGroup(e), first,
                                                 package.known)
            s == ActivationStart(e, g)
        IN  /\ r.save \subseteq {s.groups}
            /\ \/ /\ Tried(g, preferred) = {}
                  /\ \/ r.to = s
                     \/ \E im \in package.known :
                           r.to = setCurrentInputMethod(s, im, local)
               \/ /\ Tried(g, preferred) # {}
                  /\ \/ FirstTried(g, preferred) = {} /\ r.to = s
                     \/ \E im \in FirstTried(g, preferred) :
                           r.to = setCurrentInputMethod(s, im, local)
  BY <1>0 DEF Activates
<1> DEFINE g == ensurePortableImGroupHasEntries(currentGroup(e), first,
                                                package.known)
           s == ActivationStart(e, g)
<1>2. /\ e.groups \in Seq(Group) /\ Len(e.groups) \in Nat \ {0}
      /\ currentGroup(e) \in Group
  BY DEF View, currentGroup
<1>3. g \in Group /\ (Complete => Switchable(g))
  BY <1>2, RepairIs
<1>4. FirstTried(g, preferred) \subseteq package.known
  BY DEF FirstTried, Tried
<1>5. \/ r.to = s
      \/ \E im \in InputMethods : r.to = setCurrentInputMethod(s, im, local)
  BY <1>1, <1>4, PackageIs
<1>6. r.save \subseteq {s.groups}
  BY <1>1
<1> HIDE DEF g
<1>7. /\ s \in View /\ s.groups # <<>>
      /\ Complete => SomeSwitchable(s.groups)
  <2> DEFINE gs == <<g>> \o Tail(e.groups)
  <2>1. gs \in Seq(Group) /\ gs # <<>> /\ gs[1] = g /\ 1 \in DOMAIN gs
    BY <1>2, <1>3
  <2> HIDE DEF gs
  <2>2. s = [e EXCEPT !.groups = gs]
    BY DEF ActivationStart, gs
  <2>3. s \in View /\ s.groups = gs
    BY <2>1, <2>2 DEF View
  <2> HIDE DEF s
  <2> QED
    BY <1>3, <2>1, <2>3 DEF SomeSwitchable
<1> HIDE DEF s
<1>8. /\ r.to \in View /\ r.to.groups # <<>>
      /\ SomeSwitchable(s.groups) => SomeSwitchable(r.to.groups)
  BY <1>5, <1>7, setCurrentInputMethodIs
<1>9. s.groups \in Seq(Group)
  BY <1>7 DEF View
<1> QED
  BY <1>6, <1>7, <1>8, <1>9

(* A new context of an application types with the default of its group, if *)
(* there is one and nothing overrides it.                                  *)
LEMMA ActivationFollows ==
    ASSUME package \in Packages, NEW e \in View, e.groups # <<>>,
           e.local = NoIM, package.env \notin package.known,
           currentGroup(e).def \in package.known,
           Contains(currentGroup(e).list, currentGroup(e).def),
           NEW r \in activatePreferredInputMethod(e, NoIM, TRUE)
    PROVE  inputMethod(r.to) = currentGroup(e).def
<1> DEFINE preferred == NoIM
           local == TRUE
<1>0. Activates(e, preferred, local, r) /\ preferred = NoIM /\ local
  BY ActivationIs
<1> HIDE DEF preferred, local
<1>1. PICK first \in FirstEntries(package.known) :
        LET g == ensurePortableImGroupHasEntries(currentGroup(e), first,
                                                 package.known)
            s == ActivationStart(e, g)
        IN  /\ r.save \subseteq {s.groups}
            /\ \/ /\ Tried(g, preferred) = {}
                  /\ \/ r.to = s
                     \/ \E im \in package.known :
                           r.to = setCurrentInputMethod(s, im, local)
               \/ /\ Tried(g, preferred) # {}
                  /\ \/ FirstTried(g, preferred) = {} /\ r.to = s
                     \/ \E im \in FirstTried(g, preferred) :
                           r.to = setCurrentInputMethod(s, im, local)
  BY <1>0 DEF Activates
<1> DEFINE g == ensurePortableImGroupHasEntries(currentGroup(e), first,
                                                package.known)
           s == ActivationStart(e, g)
           d == currentGroup(e).def
<1>2. /\ e.groups \in Seq(Group) /\ Len(e.groups) \in Nat \ {0}
      /\ currentGroup(e) \in Group /\ e.active \in BOOLEAN
  BY DEF View, currentGroup
<1>3. /\ d \in InputMethods /\ d # NoIM /\ NoIM \notin package.known
      /\ package.env \in Names
  BY PackageIs, NoIMIsNone
<1>4. currentGroup(e).list # <<>>
  BY <1>2, GroupIs, ContainsIs
<1>5. g \in Group /\ g.def = d /\ Contains(g.list, d)
  BY <1>2, <1>3, <1>4, RepairIs
<1>6. g.list \in Seq(InputMethods) /\ g.list # <<>> /\ Len(g.list) \in Nat \ {0}
  BY <1>5, GroupIs, ContainsIs
<1>7. /\ \/ Tried(g, preferred) = {}
         \/ FirstTried(g, preferred) = {}
         \/ \E im \in FirstTried(g, preferred) : r.to = setCurrentInputMethod(s, im, local)
  BY <1>1
<1> HIDE DEF g, d
<1>8. Tried(g, preferred) # {} /\ FirstTried(g, preferred) = {d}
  <2> DEFINE o == activationOrder(g, preferred)
             k == Len(g.list)
  <2>1. /\ DOMAIN o = 1..(k + 5)
        /\ o[1] = NoIM /\ o[2] = package.env /\ o[3] = d
    BY <1>0, <1>5, <1>6 DEF activationOrder
  <2> HIDE DEF o
  <2>2. /\ 3 \in DOMAIN o /\ o[3] \in package.known
        /\ 1 \in DOMAIN o => o[1] \notin package.known
        /\ 2 \in DOMAIN o => o[2] \notin package.known
        /\ \A i \in DOMAIN o : i \in Nat \ {0}
    BY <1>3, <1>6, <2>1 DEF d
  <2>3. Tried(g, preferred) = {i \in DOMAIN o : o[i] \in package.known}
    BY DEF Tried, o
  <2> DEFINE T == Tried(g, preferred)
  <2>4. /\ 3 \in T /\ 1 \notin T /\ 2 \notin T /\ T \subseteq Nat \ {0}
    BY <2>2, <2>3
  <2> HIDE DEF T
  <2>5. \A j \in T : 3 <= j
    BY <2>4
  <2>6. {j \in T : \A i \in T : j <= i} = {3}
    <3>1. \A j \in T : j <= 3 => j = 3
      BY <2>4, <2>5
    <3> QED
      BY <2>4, <2>5, <3>1
  <2>7. FirstTried(g, preferred) = {o[i] : i \in {j \in T : \A i \in T : j <= i}}
    BY DEF FirstTried, T, o
  <2> QED
    BY <2>1, <2>4, <2>6, <2>7 DEF T
<1>9. r.to = setCurrentInputMethod(s, d, local)
  BY <1>7, <1>8
<1>10. /\ currentGroup(s) = g /\ s.local = NoIM /\ s.active \in BOOLEAN
       /\ s \in View
  <2> DEFINE gs == <<g>> \o Tail(e.groups)
  <2>1. gs \in Seq(Group) /\ Head(gs) = g
    BY <1>2, <1>5
  <2> HIDE DEF gs
  <2>2. s = [e EXCEPT !.groups = gs]
    BY DEF ActivationStart, gs
  <2> QED
    BY <2>1, <2>2 DEF View, currentGroup
<1> HIDE DEF s
<1>11. CASE Len(g.list) < 2
  <2>1. g.list[1] = d
    <3>1. \A n \in Nat \ {0} : n < 2 => n = 1
      OBVIOUS
    <3>2. Len(g.list) = 1
      BY <1>6, <1>11, <3>1
    <3> QED
      BY <1>5, <3>2 DEF Contains
  <2>2. r.to = s
    BY <1>9, <1>10, <1>11 DEF setCurrentInputMethod
  <2> QED
    BY <1>5, <1>6, <1>10, <2>1, <2>2 DEF inputMethod, d
<1>12. CASE ~ (Len(g.list) < 2) /\ g.list[1] = d
  <2>1. r.to = [s EXCEPT !.active = FALSE]
    BY <1>5, <1>9, <1>10, <1>12 DEF setCurrentInputMethod
  <2>2. r.to.active = FALSE /\ r.to.groups = s.groups
    BY <1>10, <2>1 DEF View
  <2>3. currentGroup(r.to) = g
    BY <1>10, <2>2 DEF currentGroup
  <2> QED
    BY <1>6, <1>12, <2>2, <2>3 DEF inputMethod, d
<1>13. CASE ~ (Len(g.list) < 2) /\ g.list[1] # d
  <2>1. r.to = [s EXCEPT !.active = TRUE, !.local = d]
    BY <1>0, <1>5, <1>9, <1>10, <1>13 DEF setCurrentInputMethod
  <2>2. /\ r.to.active = TRUE /\ r.to.groups = s.groups /\ r.to.local = d
    BY <1>10, <2>1 DEF View
  <2>3. currentGroup(r.to) = g
    BY <1>10, <2>2 DEF currentGroup
  <2> QED
    BY <1>3, <1>6, <2>2, <2>3 DEF inputMethod, d
<1> QED
  BY <1>11, <1>12, <1>13

(* Loading a profile yields a group at least, and does not lose the input  *)
(* methods that are installed.                                             *)
LEMMA loadIs ==
    ASSUME NEW text \in Seq(Group)
    PROVE  /\ load(text) \in Seq(Group) /\ load(text) # <<>>
           /\ text # <<>> =>
                 /\ Head(load(text)).def = Head(text).def
                 /\ \A x \in package.known :
                       Contains(Head(text).list, x)
                       => Contains(Head(load(text)).list, x)
<1>1. CASE text = <<>>
  <2>1. EmptyGroup \in Group
    BY DEF EmptyGroup, Group
  <2> QED
    BY <1>1, <2>1 DEF load
<1>2. CASE text # <<>> /\ ~package.drops
  BY <1>2 DEF load
<1>3. CASE text # <<>> /\ package.drops
  <2> DEFINE kept(g) == [g EXCEPT !.list = knownOf(g.list)]
             t == [i \in DOMAIN text |-> kept(text[i])]
  <2>1. load(text) = t
    BY <1>3 DEF load
  <2>2. /\ Len(text) \in Nat \ {0} /\ DOMAIN text = 1..Len(text)
        /\ \A i \in 1..Len(text) : text[i] \in Group
        /\ Head(text) = text[1]
    BY <1>3
  <2>3. ASSUME NEW g \in Group
        PROVE  /\ kept(g) \in Group
               /\ kept(g).def = g.def
               /\ kept(g).list = knownOf(g.list)
               /\ \A x \in package.known :
                     Contains(g.list, x) => Contains(kept(g).list, x)
    <3>1. /\ knownOf(g.list) \in Seq(InputMethods)
          /\ \A x \in package.known :
                Contains(g.list, x) => Contains(knownOf(g.list), x)
      BY GroupIs, knownOfIs
    <3> QED
      BY <3>1 DEF Group
  <2> HIDE DEF kept
  <2>4. t \in Seq(Group) /\ Len(t) = Len(text) /\ t[1] = kept(text[1])
    BY <2>2, <2>3
  <2> HIDE DEF t
  <2>5. t # <<>> /\ Head(t) = kept(Head(text))
    BY <2>2, <2>4
  <2> QED
    BY <2>1, <2>2, <2>3, <2>4, <2>5
<1> QED
  BY <1>1, <1>2, <1>3

LEMMA defaultPopularProfileIs == defaultPopularProfile \in Seq(Group)
<1> DEFINE s == SetToSeq(Others)
           n == Cardinality(Others)
<1>1. n \in Nat /\ ExistsBijection(1..n, Others)
  BY FS_CardinalityType, ImGroupAssumption
<1>2. \E f \in [1..n -> Others] : IsInjective(f)
  BY <1>1 DEF ExistsBijection, Bijection, Injection, IsInjective
<1>3. s \in [1..n -> Others]
  BY <1>2 DEF SetToSeq
<1> HIDE DEF s, n
<1>4. s \in Seq(InputMethods)
  <2>1. s \in Seq(Others) /\ Others \subseteq InputMethods
    BY <1>1, <1>3 DEF InputMethods
  <2> QED
    BY <2>1, SeqMonotonic
<1> DEFINE l == <<KeyboardUs, Pinyin>> \o s
<1>5. l \in Seq(InputMethods)
  <2>1. <<KeyboardUs, Pinyin>> \in Seq(InputMethods)
    BY NoIMIsNone
  <2> QED
    BY <1>4, <2>1
<1>6. defaultPopularProfile = <<[list |-> l, def |-> Pinyin]>>
  BY DEF defaultPopularProfile, s
<1> HIDE DEF l
<1>7. [list |-> l, def |-> Pinyin] \in Group
  BY <1>5, NoIMIsNone DEF Group
<1> QED
  BY <1>6, <1>7

-----------------------------------------------------------------------------
(* The invariant: of the engines, of the profile, of the settings program. *)

(* An engine with a context has an instance, and a group in which Chinese  *)
(* can be switched on where that is possible.                              *)
EnginesInv ==
    /\ instance \in [Processes -> Instance]
    /\ ctx \in [Contexts -> Context]
    /\ \A p \in Processes : instance[p].up => instance[p].groups # <<>>
    /\ \A c \in Contexts :
          /\ ctx[c].ic => ctx[c].open
          /\ ctx[c].open => instance[processOf(c)].up
          /\ Complete /\ ctx[c].ic
             => SomeSwitchable(instance[processOf(c)].groups)

(* So has a profile an engine wrote.  The input method chosen last is the  *)
(* default of the profile's first group, and an entry of it.               *)
ProfileInv ==
    /\ profile \in Seq(Group)
    /\ writer \in {"installer", "engine", "settings"}
    /\ chosen \in Names
    /\ Complete /\ writer = "engine" => SomeSwitchable(profile)
    /\ chosen # NoIM =>
          /\ profile # <<>> /\ Head(profile).def = chosen
          /\ Contains(Head(profile).list, chosen)
          /\ chosen \in package.known

IndInv ==
    /\ package \in Packages
    /\ EnginesInv
    /\ ProfileInv
    /\ ui \in Settings

-----------------------------------------------------------------------------
(* The parts of the steps.                                                 *)

LEMMA Whose ==
    ASSUME NEW c \in Contexts
    PROVE  /\ processOf(c) \in Processes
           /\ c \in Apps => processOf(c) = c /\ processOf(c) # Server
           /\ c \in Sessions <=> c \notin Apps
           /\ c \notin Apps => processOf(c) = Server
BY ImGroupAssumption DEF processOf, Processes, Contexts

LEMMA ViewIs ==
    ASSUME EnginesInv, NEW c \in Contexts, ctx[c].ic
    PROVE  /\ view(c) \in View /\ view(c).groups # <<>>
           /\ view(c).groups = instance[processOf(c)].groups
           /\ Complete => SomeSwitchable(view(c).groups)
<1>1. ctx[c] \in Context /\ instance[processOf(c)] \in Instance
  BY Whose DEF EnginesInv
<1>2. instance[processOf(c)].groups # <<>>
  BY Whose DEF EnginesInv
<1>3. instance[processOf(c)].groups \in Seq(Group)
  BY <1>1 DEF Instance
<1>4. ctx[c].active \in BOOLEAN /\ ctx[c].local \in Names
  BY <1>1 DEF Context, Names
<1> QED
  BY <1>2, <1>3, <1>4 DEF view, View, EnginesInv

LEMMA SetViewEngines ==
    ASSUME EnginesInv, package' = package, NEW c \in Contexts,
           NEW e \in View, e.groups # <<>>,
           Complete => SomeSwitchable(e.groups), SetView(c, e)
    PROVE  EnginesInv'
<1>1. /\ e.groups \in Seq(Group) /\ e.active \in BOOLEAN /\ e.local \in Names
  BY DEF View
<1> DEFINE p == processOf(c)
           i == [up |-> TRUE, groups |-> e.groups]
           x == [open |-> TRUE, ic |-> TRUE, active |-> e.active,
                 local |-> e.local]
<1>2. i \in Instance /\ i.up /\ i.groups = e.groups
  BY <1>1 DEF Instance
<1>3. x \in Context /\ x.ic /\ x.open
  BY <1>1 DEF Context, Names
<1>4. instance' = [instance EXCEPT ![p] = i] /\ ctx' = [ctx EXCEPT ![c] = x]
  BY DEF SetView
<1>5. p \in Processes
  BY Whose
<1> HIDE DEF i, x, p
<1>6. /\ instance' \in [Processes -> Instance] /\ ctx' \in [Contexts -> Context]
      /\ \A q \in Processes : instance'[q] = IF q = p THEN i ELSE instance[q]
      /\ \A d \in Contexts : ctx'[d] = IF d = c THEN x ELSE ctx[d]
  BY <1>2, <1>3, <1>4, <1>5 DEF EnginesInv
<1>7. Complete' = Complete
  BY DEF Complete
<1>8. ASSUME NEW q \in Processes, instance'[q].up
      PROVE  instance'[q].groups # <<>>
  BY <1>2, <1>6, <1>8 DEF EnginesInv
<1>9. ASSUME NEW d \in Contexts
      PROVE  /\ ctx'[d].ic => ctx'[d].open
             /\ ctx'[d].open => instance'[processOf(d)].up
             /\ Complete /\ ctx'[d].ic
                => SomeSwitchable(instance'[processOf(d)].groups)
  <2>1. processOf(d) \in Processes
    BY Whose
  <2>2. CASE d = c
    BY <1>2, <1>3, <1>5, <1>6, <2>2 DEF p
  <2>3. CASE d # c
    <3>1. ctx'[d] = ctx[d]
      BY <1>6, <2>3
    <3>2. CASE processOf(d) = p
      BY <1>2, <1>6, <2>1, <3>1, <3>2 DEF EnginesInv
    <3>3. CASE processOf(d) # p
      BY <1>6, <2>1, <3>1, <3>3 DEF EnginesInv
    <3> QED
      BY <3>2, <3>3
  <2> QED
    BY <2>2, <2>3
<1>10. \A d : SomeSwitchable(instance'[processOf(d)].groups)
              = SomeSwitchable(instance[processOf(d)].groups)'
  BY DEF SomeSwitchable, Switchable, processOf
<1>11. \A d : processOf(d)' = processOf(d)
  BY DEF processOf
<1> QED
  BY <1>6, <1>7, <1>8, <1>9, <1>10, <1>11 DEF EnginesInv

(* A step that lets contexts end, and with them perhaps an instance.       *)
LEMMA EndsEngines ==
    ASSUME EnginesInv, package' = package,
           ctx' \in [Contexts -> Context], instance' \in [Processes -> Instance],
           \A p \in Processes : \/ instance'[p] = instance[p]
                                \/ instance'[p] = NoInstance
                                   /\ \A c \in Contexts : processOf(c) = p
                                         => ctx'[c] = NoContext,
           \A c \in Contexts : \/ ctx'[c] = ctx[c]
                               \/ ctx'[c] = NoContext
                               \/ /\ ctx'[c] = [NoContext EXCEPT !.open = TRUE]
                                  /\ ctx[c].open
    PROVE  EnginesInv'
<1>1. Complete' = Complete
  BY DEF Complete
<1>2. /\ NoContext.ic = FALSE /\ NoContext.open = FALSE
      /\ [NoContext EXCEPT !.open = TRUE].ic = FALSE
      /\ NoInstance.up = FALSE
  BY DEF NoContext, NoInstance
<1>3. ASSUME NEW p \in Processes, instance'[p].up
      PROVE  instance'[p].groups # <<>>
  BY <1>2, <1>3 DEF EnginesInv
<1>4. ASSUME NEW c \in Contexts
      PROVE  /\ ctx'[c].ic => ctx'[c].open
             /\ ctx'[c].open => instance'[processOf(c)].up
             /\ Complete /\ ctx'[c].ic
                => SomeSwitchable(instance'[processOf(c)].groups)
  <2>1. processOf(c) \in Processes
    BY Whose
  <2>2. CASE ctx'[c] = NoContext
    BY <1>2, <2>2
  <2>3. CASE ctx'[c] # NoContext
    <3>1. instance'[processOf(c)] = instance[processOf(c)]
      BY <2>1, <2>3
    <3>2. CASE ctx'[c] = ctx[c]
      BY <3>1, <3>2 DEF EnginesInv
    <3>3. CASE ctx'[c] = [NoContext EXCEPT !.open = TRUE] /\ ctx[c].open
      BY <1>2, <3>1, <3>3 DEF EnginesInv
    <3> QED
      BY <2>3, <3>2, <3>3
  <2> QED
    BY <2>2, <2>3
<1>5. \A d : SomeSwitchable(instance'[processOf(d)].groups)
             = SomeSwitchable(instance[processOf(d)].groups)'
  BY DEF SomeSwitchable, Switchable, processOf
<1>6. \A d : processOf(d)' = processOf(d)
  BY DEF processOf
<1> QED
  BY <1>1, <1>3, <1>4, <1>5, <1>6 DEF EnginesInv

LEMMA SavedProfile ==
    ASSUME ProfileInv, package' = package,
           NEW groups \in Seq(Group), groups # <<>>,
           Complete => SomeSwitchable(groups), save(groups)
    PROVE  ProfileInv'
<1>1. /\ profile' = groups /\ writer' = "engine"
      /\ chosen' = chosen \/ chosen' = NoIM
      /\ chosen' # NoIM => Head(groups).def = chosen'
                           /\ Contains(Head(groups).list, chosen')
  BY DEF save
<1>2. Complete' = Complete
  BY DEF Complete
<1>3. SomeSwitchable(profile)' = SomeSwitchable(groups)
  BY <1>1 DEF SomeSwitchable, Switchable
<1>4. NoIM \in Names
  BY DEF Names
<1>5. Contains(Head(profile).list, chosen)' = Contains(Head(groups).list, chosen')
  BY <1>1
<1>6. chosen' \in Names /\ (chosen' # NoIM => chosen' \in package.known)
  BY <1>1, <1>4 DEF ProfileInv
<1> QED
  BY <1>1, <1>2, <1>3, <1>5, <1>6 DEF ProfileInv

LEMMA KeptProfile ==
    ASSUME ProfileInv, package' = package, NotSaved
    PROVE  ProfileInv'
<1>1. UNCHANGED <<profile, writer, chosen>>
  BY DEF NotSaved
<1> QED
  BY <1>1 DEF ProfileInv, Complete, SomeSwitchable, Switchable, Contains

LEMMA StartInv ==
    ASSUME package \in Packages, package' = package, EnginesInv, ProfileInv,
           NEW c \in Contexts, NEW groups \in Seq(Group), groups # <<>>,
           NEW preferred \in Names, Start(c, groups, preferred)
    PROVE  EnginesInv' /\ ProfileInv'
<1> DEFINE e == NewContext(groups)
           local == c \in Apps
<1>1. e \in View /\ e.groups # <<>>
  BY PackageIs DEF NewContext, View, Names
<1>2. local \in BOOLEAN
  OBVIOUS
<1>3. PICK r \in activatePreferredInputMethod(e, preferred, local) :
        SetView(c, r.to) /\ SaveRepair(r)
  BY DEF Start
<1> HIDE DEF e, local
<1>4. /\ r.to \in View /\ r.to.groups # <<>>
      /\ Complete => SomeSwitchable(r.to.groups)
      /\ \A gs \in r.save :
            /\ gs \in Seq(Group) /\ gs # <<>>
            /\ Complete => SomeSwitchable(gs)
  BY <1>1, <1>2, ActivationKeeps
<1>5. EnginesInv'
  BY <1>3, <1>4, SetViewEngines
<1>6. ProfileInv'
  BY <1>3, <1>4, SavedProfile, KeptProfile DEF SaveRepair
<1> QED
  BY <1>5, <1>6

-----------------------------------------------------------------------------
(* The invariant, action by action.                                        *)

LEMMA InitInv == Init => IndInv
<1> SUFFICES ASSUME Init PROVE IndInv
  OBVIOUS
<1>1. NoInstance \in Instance /\ NoContext \in Context
  BY DEF NoInstance, NoContext, Instance, Context
<1>2. /\ \A p \in Processes : ~instance[p].up
      /\ \A c \in Contexts : ~ctx[c].ic /\ ~ctx[c].open
  BY DEF Init, NoInstance, NoContext
<1>3. EnginesInv
  <2>1. instance \in [Processes -> Instance] /\ ctx \in [Contexts -> Context]
    BY <1>1 DEF Init
  <2> QED
    BY <1>2, <2>1 DEF EnginesInv
<1>4. ProfileInv
  <2>1. /\ profile \in Seq(Group) /\ writer = "installer" /\ chosen = NoIM
        /\ NoIM \in Names
    BY ImGroupAssumption DEF Init, Names
  <2> QED
    BY <2>1 DEF ProfileInv
<1>5. ui \in Settings
  <2>1. <<>> \in Seq(Group) /\ 0 \in 0..MaxWrites
    BY ImGroupAssumption
  <2> QED
    BY <2>1 DEF Init, Settings
<1> QED
  BY <1>3, <1>4, <1>5 DEF Init, IndInv

LEMMA ServerGroups ==
    ASSUME EnginesInv, instance[Server].up
    PROVE  instance[Server].groups \in Seq(Group) /\ instance[Server].groups # <<>>
BY DEF EnginesInv, Processes, Instance

LEMMA NewEngineInv ==
    ASSUME IndInv, NEW c \in Contexts, initWithInputMethod(c) \/ initAsPipeSession(c)
    PROVE  IndInv'
<1>1. package' = package /\ ui' = ui /\ NoIM \in Names
  BY DEF initWithInputMethod, initAsPipeSession, Names
<1>2. CASE initWithInputMethod(c)
  <2>1. Start(c, load(profile), NoIM)
    BY <1>2 DEF initWithInputMethod
  <2>2. load(profile) \in Seq(Group) /\ load(profile) # <<>>
    BY loadIs DEF IndInv, ProfileInv
  <2> QED
    BY <1>1, <2>1, <2>2, StartInv DEF IndInv
<1>3. CASE initAsPipeSession(c)
  <2>1. Start(c, instance[Server].groups, NoIM) /\ instance[Server].up
    BY <1>3 DEF initAsPipeSession
  <2> QED
    BY <1>1, <2>1, ServerGroups, StartInv DEF IndInv
<1> QED
  BY <1>2, <1>3

LEMMA PipeSharedInitInv ==
    ASSUME IndInv, PipeSharedInit
    PROVE  IndInv'
<1> DEFINE i == [up |-> TRUE, groups |-> load(profile)]
<1>1. /\ ~instance[Server].up
      /\ instance' = [instance EXCEPT ![Server] = i]
      /\ UNCHANGED <<package, ctx, profile, ui, writer, chosen>>
  BY DEF PipeSharedInit
<1>2. load(profile) \in Seq(Group) /\ load(profile) # <<>>
  BY loadIs DEF IndInv, ProfileInv
<1>3. i \in Instance /\ i.groups # <<>>
  BY <1>2 DEF Instance
<1> HIDE DEF i
<1>4. EnginesInv /\ Server \in Processes
  BY DEF IndInv, Processes
<1>5. /\ instance' \in [Processes -> Instance]
      /\ instance'[Server] = i
      /\ \A p \in Processes : p # Server => instance'[p] = instance[p]
  BY <1>1, <1>3, <1>4 DEF EnginesInv
<1>6. Complete' = Complete
  BY <1>1 DEF Complete
<1>7. ASSUME NEW p \in Processes, instance'[p].up
      PROVE  instance'[p].groups # <<>>
  BY <1>3, <1>4, <1>5, <1>7 DEF EnginesInv
<1>8. ASSUME NEW c \in Contexts
      PROVE  /\ ctx'[c].ic => ctx'[c].open
             /\ ctx'[c].open => instance'[processOf(c)].up
             /\ Complete /\ ctx'[c].ic
                => SomeSwitchable(instance'[processOf(c)].groups)
  <2>1. processOf(c) \in Processes /\ ctx'[c] = ctx[c]
    BY <1>1, Whose
  <2>2. CASE processOf(c) = Server
    BY <1>1, <1>4, <2>1, <2>2 DEF EnginesInv
  <2>3. CASE processOf(c) # Server
    BY <1>4, <1>5, <2>1, <2>3 DEF EnginesInv
  <2> QED
    BY <2>2, <2>3
<1>9. \A d : SomeSwitchable(instance'[processOf(d)].groups)
             = SomeSwitchable(instance[processOf(d)].groups)'
  BY DEF SomeSwitchable, Switchable, processOf
<1>10. \A d : processOf(d)' = processOf(d)
  BY DEF processOf
<1>11. EnginesInv'
  BY <1>1, <1>4, <1>5, <1>6, <1>7, <1>8, <1>9, <1>10 DEF EnginesInv
<1>12. ProfileInv'
  BY <1>1, KeptProfile DEF IndInv, NotSaved
<1> QED
  BY <1>1, <1>11, <1>12 DEF IndInv

LEMMA NothingIs == NoInstance \in Instance /\ NoContext \in Context
                   /\ [NoContext EXCEPT !.open = TRUE] \in Context
<1>1. NoInstance \in Instance /\ NoContext \in Context
  BY DEF NoInstance, NoContext, Instance, Context
<1> QED
  BY <1>1 DEF Context

LEMMA EndsInv ==
    ASSUME IndInv, (\E c \in Contexts : EngineEnds(c)) \/ ServerEnds
    PROVE  IndInv'
<1>1. EnginesInv /\ ProfileInv /\ ctx \in [Contexts -> Context]
      /\ instance \in [Processes -> Instance]
  BY DEF IndInv, EnginesInv
<1>2. UNCHANGED <<package, profile, ui, writer, chosen>>
  BY DEF EngineEnds, ServerEnds
<1>3. ProfileInv'
  BY <1>1, <1>2, KeptProfile DEF NotSaved
<1>4. ASSUME NEW c \in Contexts, EngineEnds(c)
      PROVE  EnginesInv'
  <2>1. /\ ctx' = [ctx EXCEPT ![c] = NoContext]
        /\ instance' = IF c \in Apps THEN [instance EXCEPT ![c] = NoInstance]
                       ELSE instance
    BY <1>4 DEF EngineEnds
  <2>2. ctx' \in [Contexts -> Context] /\ instance' \in [Processes -> Instance]
    BY <1>1, <2>1, NothingIs
  <2>3. ASSUME NEW p \in Processes
        PROVE  \/ instance'[p] = instance[p]
               \/ instance'[p] = NoInstance
                  /\ \A d \in Contexts : processOf(d) = p => ctx'[d] = NoContext
    <3>1. CASE p = c /\ c \in Apps
      <4>1. instance'[p] = NoInstance
        BY <1>1, <2>1, <3>1
      <4>2. \A d \in Contexts : processOf(d) = p => d = c
        BY <3>1, Whose
      <4> QED
        BY <1>1, <2>1, <4>1, <4>2
    <3>2. CASE ~ (p = c /\ c \in Apps)
      BY <1>1, <2>1, <3>2
    <3> QED
      BY <3>1, <3>2
  <2>4. \A d \in Contexts : ctx'[d] = ctx[d] \/ ctx'[d] = NoContext
    BY <1>1, <2>1
  <2> QED
    BY <1>1, <1>2, <2>2, <2>3, <2>4, EndsEngines
<1>5. ASSUME ServerEnds PROVE EnginesInv'
  <2>1. /\ instance' = [instance EXCEPT ![Server] = NoInstance]
        /\ ctx' = [c \in Contexts |-> IF c \in Sessions THEN NoContext
                                      ELSE ctx[c]]
    BY <1>5 DEF ServerEnds
  <2>2. ctx' \in [Contexts -> Context] /\ instance' \in [Processes -> Instance]
    BY <1>1, <2>1, NothingIs
  <2>3. ASSUME NEW p \in Processes
        PROVE  \/ instance'[p] = instance[p]
               \/ instance'[p] = NoInstance
                  /\ \A d \in Contexts : processOf(d) = p => ctx'[d] = NoContext
    <3>1. CASE p = Server
      <4>1. \A d \in Contexts : processOf(d) = p => d \in Sessions
        BY <3>1, Whose
      <4> QED
        BY <1>1, <2>1, <3>1, <4>1
    <3>2. CASE p # Server
      BY <1>1, <2>1, <3>2
    <3> QED
      BY <3>1, <3>2
  <2>4. \A d \in Contexts :
           \/ ctx'[d] = ctx[d]
           \/ ctx'[d] = NoContext
           \/ ctx'[d] = [NoContext EXCEPT !.open = TRUE] /\ ctx[d].open
    BY <1>1, <2>1
  <2>5. package' = package
    BY <1>2
  <2> QED
    BY <1>1, <2>2, <2>3, <2>4, <2>5, EndsEngines
<1>6. EnginesInv'
  <2>1. CASE \E c \in Contexts : EngineEnds(c)
    <3>1. PICK c \in Contexts : EngineEnds(c)
      BY <2>1
    <3> QED
      BY <1>4, <3>1
  <2> QED
    BY <1>5, <2>1
<1> QED
  BY <1>2, <1>3, <1>6 DEF IndInv

LEMMA RebuildInv ==
    ASSUME IndInv, NEW c \in Contexts, NEW im \in InputMethods,
           ActivationRebuilds(c, im)
    PROVE  IndInv'
<1>1. /\ EnginesInv /\ ProfileInv /\ ctx \in [Contexts -> Context]
      /\ instance \in [Processes -> Instance] /\ package \in Packages
  BY DEF IndInv, EnginesInv
<1>2. /\ ctx[c].ic /\ ctx[c].open /\ instance[processOf(c)].up
      /\ package' = package /\ ui' = ui
      /\ rebuildForInputMethod(c, im)
  BY DEF ActivationRebuilds, IndInv, EnginesInv
<1>3. CASE Start(c, IF c \in Apps THEN load(profile)
                    ELSE instance[Server].groups, im)
  <2> DEFINE groups == IF c \in Apps THEN load(profile)
                       ELSE instance[Server].groups
  <2>1. groups \in Seq(Group) /\ groups # <<>>
    <3>1. CASE c \in Apps
      BY <3>1, loadIs DEF IndInv, ProfileInv
    <3>2. CASE c \notin Apps
      <4>1. instance[Server].up
        BY <1>2, <3>2, Whose
      <4> QED
        BY <1>1, <3>2, <4>1, ServerGroups
    <3> QED
      BY <3>1, <3>2
  <2>2. im \in Names
    BY DEF Names
  <2>3. Start(c, groups, im)
    BY <1>3
  <2> HIDE DEF groups
  <2>4. EnginesInv' /\ ProfileInv'
    BY <1>1, <1>2, <2>1, <2>2, <2>3, StartInv
  <2> QED
    BY <1>2, <2>4 DEF IndInv
<1>4. CASE /\ c \in Sessions
           /\ ctx' = [ctx EXCEPT ![c] = [NoContext EXCEPT !.open = TRUE]]
           /\ UNCHANGED instance /\ NotSaved
  <2>1. ctx' \in [Contexts -> Context]
    BY <1>1, <1>4, NothingIs
  <2>2. \A d \in Contexts :
           \/ ctx'[d] = ctx[d]
           \/ ctx'[d] = [NoContext EXCEPT !.open = TRUE] /\ ctx[d].open
    BY <1>1, <1>2, <1>4
  <2>3. /\ instance' \in [Processes -> Instance]
        /\ \A p \in Processes : instance'[p] = instance[p]
    BY <1>1, <1>4
  <2>4. EnginesInv'
    BY <1>1, <1>2, <2>1, <2>2, <2>3, EndsEngines
  <2>5. ProfileInv'
    BY <1>1, <1>2, <1>4, KeptProfile
  <2> QED
    BY <1>2, <2>4, <2>5 DEF IndInv
<1>5. CASE /\ c \in Apps
           /\ ctx' = [ctx EXCEPT ![c] = NoContext]
           /\ instance' = [instance EXCEPT ![c] = NoInstance]
           /\ NotSaved
  <2>1. ctx' \in [Contexts -> Context] /\ instance' \in [Processes -> Instance]
    BY <1>1, <1>5, NothingIs
  <2>2. ASSUME NEW p \in Processes
        PROVE  \/ instance'[p] = instance[p]
               \/ instance'[p] = NoInstance
                  /\ \A d \in Contexts : processOf(d) = p => ctx'[d] = NoContext
    <3>1. CASE p = c
      <4>1. \A d \in Contexts : processOf(d) = p => d = c
        BY <1>5, <3>1, Whose
      <4> QED
        BY <1>1, <1>5, <3>1, <4>1
    <3>2. CASE p # c
      BY <1>1, <1>5, <3>2
    <3> QED
      BY <3>1, <3>2
  <2>3. \A d \in Contexts : ctx'[d] = ctx[d] \/ ctx'[d] = NoContext
    BY <1>1, <1>5
  <2>4. EnginesInv'
    BY <1>1, <1>2, <2>1, <2>2, <2>3, EndsEngines
  <2>5. ProfileInv'
    BY <1>1, <1>2, <1>5, KeptProfile
  <2> QED
    BY <1>2, <2>4, <2>5 DEF IndInv
<1> QED
  BY <1>2, <1>3, <1>4, <1>5 DEF rebuildForInputMethod

(* A switch, or a group hotkey, of an engine with a context.               *)
LEMMA SwitchInv ==
    ASSUME IndInv, UNCHANGED <<package, ui>>, NEW c \in Contexts,
           NEW e \in View, e.groups # <<>>,
           Complete => SomeSwitchable(e.groups), SetView(c, e), ProfileInv'
    PROVE  IndInv'
<1>1. EnginesInv'
  BY SetViewEngines DEF IndInv
<1> QED
  BY <1>1 DEF IndInv

LEMMA activateProfileInputMethodInv ==
    ASSUME IndInv, NEW c \in Contexts, NEW im \in InputMethods,
           activateProfileInputMethod(c, im)
    PROVE  IndInv'
<1> DEFINE e == setCurrentInputMethod(view(c), im, FALSE)
<1>1. /\ ctx[c].ic /\ im \in package.known /\ UNCHANGED <<package, ui>>
      /\ SetView(c, e)
      /\ \/ /\ profile' = e.groups
            /\ writer' = "engine"
            /\ chosen' = IF /\ Contains(currentGroup(e).list, im)
                            /\ \/ currentGroup(e).def = im
                               \/ currentGroup(e).list[1] # im
                         THEN im ELSE NoIM
            /\ inputMethod(e) = im
         \/ NotSaved
  BY DEF activateProfileInputMethod
<1>2. EnginesInv /\ ProfileInv
  BY DEF IndInv
<1>3. /\ view(c) \in View /\ view(c).groups # <<>>
      /\ Complete => SomeSwitchable(view(c).groups)
  BY <1>1, <1>2, ViewIs
<1>4. FALSE \in BOOLEAN
  OBVIOUS
<1>5. /\ e \in View /\ e.groups # <<>>
      /\ Complete => SomeSwitchable(e.groups)
  BY <1>3, <1>4, setCurrentInputMethodIs
<1>6. ASSUME inputMethod(e) = im,
             Contains(currentGroup(e).list, im),
             currentGroup(e).list[1] # im
      PROVE  currentGroup(e).def = im
  <2> DEFINE v == view(c)
             g == currentGroup(v)
             h == [g EXCEPT !.def = im]
             gs == <<h>> \o Tail(v.groups)
  <2>1. currentGroup(e).list = g.list
    BY <1>3, <1>4, setCurrentInputMethodIs
  <2>2. /\ v.groups \in Seq(Group) /\ Len(v.groups) \in Nat \ {0}
        /\ g = v.groups[1] /\ g \in Group
    BY <1>3 DEF View, currentGroup
  <2>3. g.list \in Seq(InputMethods)
    BY <2>2, GroupIs
  <2>4. ~ (Len(g.list) < 2)
    <3>1. PICK i \in 1..Len(g.list) : g.list[i] = im
      BY <1>6, <2>1 DEF Contains
    <3>2. g.list[1] # im
      BY <1>6, <2>1
    <3>3. i # 1
      BY <3>1, <3>2
    <3> HIDE DEF g
    <3>4. Len(g.list) \in Nat
      BY <2>3
    <3> QED
      BY <3>1, <3>3, <3>4
  <2>5. e = [v EXCEPT !.active = TRUE, !.local = NoIM, !.groups = gs]
    BY <1>6, <2>1, <2>4 DEF setCurrentInputMethod
  <2>6. h.def = im
    BY <2>2 DEF Group
  <2> HIDE DEF h
  <2>7. Head(gs) = h
    BY <2>2
  <2> HIDE DEF gs, v
  <2>8. e.groups = gs
    BY <1>3, <2>5 DEF View, v
  <2> QED
    BY <2>6, <2>7, <2>8 DEF currentGroup
<1> HIDE DEF e
<1>7. e.groups \in Seq(Group)
  BY <1>5 DEF View
<1>8. ASSUME profile' = e.groups, writer' = "engine",
             chosen' = IF /\ Contains(currentGroup(e).list, im)
                          /\ \/ currentGroup(e).def = im
                             \/ currentGroup(e).list[1] # im
                       THEN im ELSE NoIM,
             inputMethod(e) = im
      PROVE  ProfileInv'
  <2>1. Complete' = Complete
    BY <1>1 DEF Complete
  <2>2. SomeSwitchable(profile)' = SomeSwitchable(e.groups)
    BY <1>8 DEF SomeSwitchable, Switchable
  <2>3. NoIM \in Names /\ im \in Names
    BY DEF Names
  <2>4. Contains(Head(profile).list, chosen)' = Contains(Head(e.groups).list, chosen')
    BY <1>8
  <2>5. chosen' # NoIM => /\ chosen' = im
                          /\ Contains(currentGroup(e).list, im)
                          /\ currentGroup(e).def = im
    BY <1>6, <1>8
  <2>6. chosen' \in Names
    BY <1>8, <2>3
  <2> QED
    BY <1>1, <1>5, <1>7, <1>8, <2>1, <2>2, <2>4, <2>5, <2>6
    DEF ProfileInv, currentGroup
<1>9. ProfileInv'
  BY <1>1, <1>2, <1>8, KeptProfile
<1> QED
  BY <1>1, <1>5, <1>9, SwitchInv

LEMMA EnumerateHotkeyInv ==
    ASSUME IndInv, NEW c \in Contexts, NEW step \in {1, -1},
           EnumerateHotkey(c, step)
    PROVE  IndInv'
<1> DEFINE v == view(c)
           list == currentGroup(v).list
           next(i) == ((i - 1 + step) % Len(list)) + 1
           e(i) == setCurrentInputMethod(v, list[next(i)], FALSE)
<1>1. ctx[c].ic /\ UNCHANGED <<package, ui>>
  BY DEF EnumerateHotkey
<1>2. PICK i \in 1..Len(list) : SetView(c, e(i)) /\ save(e(i).groups)
  BY DEF EnumerateHotkey
<1>3. EnginesInv /\ ProfileInv
  BY DEF IndInv
<1>4. /\ v \in View /\ v.groups # <<>>
      /\ Complete => SomeSwitchable(v.groups)
  BY <1>1, <1>3, ViewIs
<1> HIDE DEF v
<1>5. list \in Seq(InputMethods)
  <2>1. v.groups \in Seq(Group) /\ v.groups # <<>>
    BY <1>4 DEF View
  <2>2. currentGroup(v) \in Group
    BY <2>1 DEF currentGroup
  <2> QED
    BY <2>2, GroupIs
<1> HIDE DEF list
<1>6. next(i) \in 1..Len(list)
  <2> DEFINE n == Len(list)
             k == i - 1 + step
  <2>1. n \in Nat \ {0} /\ k \in Int
    BY <1>5
  <2>2. k % n \in 0..(n - 1)
    <3> HIDE DEF n, k
    <3> QED
      BY <2>1
  <2> HIDE DEF n, k
  <2>3. next(i) = (k % n) + 1
    BY DEF n, k
  <2> HIDE DEF next
  <2> QED
    BY <2>1, <2>2, <2>3 DEF n
<1> HIDE DEF next
<1>7. list[next(i)] \in InputMethods /\ FALSE \in BOOLEAN
  BY <1>5, <1>6
<1>8. /\ e(i) \in View /\ e(i).groups # <<>>
      /\ Complete => SomeSwitchable(e(i).groups)
  BY <1>4, <1>7, setCurrentInputMethodIs
<1> HIDE DEF e
<1>9. ProfileInv'
  <2>1. e(i).groups \in Seq(Group)
    BY <1>8 DEF View
  <2> QED
    BY <1>1, <1>2, <1>3, <1>8, <2>1, SavedProfile
<1> QED
  BY <1>1, <1>2, <1>8, <1>9, SwitchInv

LEMMA GroupHotkeyInv ==
    ASSUME IndInv, NEW c \in Contexts, GroupHotkey(c)
    PROVE  IndInv'
<1> DEFINE v == view(c)
           gs == v.groups
           t == Tail(gs) \o <<Head(gs)>>
           e == [v EXCEPT !.groups = t]
<1>1. EnginesInv /\ ProfileInv /\ ctx[c].ic /\ UNCHANGED <<package, ui>>
  BY DEF IndInv, GroupHotkey
<1>2. /\ v \in View /\ v.groups # <<>>
      /\ v.groups = instance[processOf(c)].groups
      /\ Complete => SomeSwitchable(v.groups)
  BY <1>1, ViewIs
<1>3. SetView(c, e) /\ save(t)
  BY <1>2 DEF GroupHotkey
<1> HIDE DEF v
<1>4. gs \in Seq(Group) /\ Len(gs) \in Nat \ {0}
  BY <1>2 DEF View
<1> HIDE DEF gs
<1>5. /\ t \in Seq(Group) /\ Len(t) = Len(gs) /\ t # <<>>
      /\ t[Len(gs)] = gs[1]
      /\ \A i \in 1..(Len(gs) - 1) : t[i] = gs[i + 1]
  BY <1>4
<1> HIDE DEF t
<1>6. SomeSwitchable(gs) => SomeSwitchable(t)
  <2>1. DOMAIN gs = 1..Len(gs) /\ DOMAIN t = 1..Len(gs)
    BY <1>4, <1>5
  <2>2. ASSUME NEW i \in 1..Len(gs)
        PROVE  \E j \in 1..Len(gs) : t[j] = gs[i]
    <3>1. CASE i = 1
      BY <1>4, <1>5, <3>1
    <3>2. CASE i # 1
      <4>1. i - 1 \in 1..(Len(gs) - 1) /\ (i - 1) + 1 = i /\ i - 1 \in 1..Len(gs)
        BY <1>4, <3>2
      <4> QED
        BY <1>5, <4>1
    <3> QED
      BY <3>1, <3>2
  <2> QED
    BY <2>1, <2>2 DEF SomeSwitchable
<1>7. e \in View /\ e.groups = t
  BY <1>2, <1>5 DEF View
<1> HIDE DEF e
<1>8. Complete => SomeSwitchable(t)
  BY <1>2, <1>6 DEF gs
<1>9. ProfileInv'
  BY <1>1, <1>3, <1>5, <1>8, SavedProfile
<1> QED
  BY <1>1, <1>3, <1>5, <1>7, <1>8, <1>9, SwitchInv

LEMMA SettingsInv ==
    ASSUME IndInv, syncControlsFromGc \/ EditProfile \/ SettingsEnd
                   \/ writeProfileUtf8 \/ ProfileWritten
    PROVE  IndInv'
<1>1. /\ EnginesInv /\ ProfileInv /\ ui \in Settings /\ package \in Packages
      /\ profile \in Seq(Group)
  BY DEF IndInv, ProfileInv
<1>2. UNCHANGED <<package, instance, ctx>>
  BY DEF syncControlsFromGc, EditProfile, SettingsEnd, writeProfileUtf8,
         ProfileWritten, SetUi
<1>3. EnginesInv'
  BY <1>1, <1>2
  DEF EnginesInv, Complete, SomeSwitchable, Switchable, Contains, processOf
<1>4. \A pc \in {"closed", "open", "writing"}, text \in Seq(Group) :
         [ui EXCEPT !.pc = pc, !.text = text] \in Settings
  BY <1>1 DEF Settings
<1>5. <<>> \in Seq(Group) /\ ui.text \in Seq(Group) /\ NoIM \in Names
  BY <1>1 DEF Settings, Names
<1>6. ASSUME NotSaved
      PROVE  ProfileInv'
  BY <1>1, <1>2, <1>6, KeptProfile
<1>7. ASSUME writer' = "settings", chosen' = NoIM, profile' \in Seq(Group)
      PROVE  ProfileInv'
  BY <1>5, <1>7 DEF ProfileInv
<1>8. CASE syncControlsFromGc
  <2>1. ui' \in Settings
    BY <1>1, <1>4, <1>8 DEF syncControlsFromGc, SetUi
  <2> QED
    BY <1>1, <1>2, <1>3, <1>6, <1>8, <2>1 DEF IndInv, syncControlsFromGc
<1>9. CASE EditProfile
  <2>1. PICK text \in Texts \cup {defaultPopularProfile} : SetUi("open", text)
    BY <1>9 DEF EditProfile
  <2>2. text \in Seq(Group)
    BY defaultPopularProfileIs, ImGroupAssumption
  <2>3. ui' \in Settings
    BY <1>4, <2>1, <2>2 DEF SetUi
  <2> QED
    BY <1>1, <1>2, <1>3, <1>6, <1>9, <2>3 DEF IndInv, EditProfile
<1>10. CASE SettingsEnd
  <2>1. ui' \in Settings
    BY <1>4, <1>5, <1>10 DEF SettingsEnd, SetUi
  <2> QED
    BY <1>1, <1>2, <1>3, <1>6, <1>10, <2>1 DEF IndInv, SettingsEnd
<1>11. CASE writeProfileUtf8
  <2> DEFINE n == ui.writes + 1
  <2>1. n \in 0..MaxWrites
    BY <1>1, <1>11, ImGroupAssumption DEF Settings, writeProfileUtf8
  <2>2. ui' = [ui EXCEPT !.pc = "writing", !.writes = n]
    BY <1>11 DEF writeProfileUtf8
  <2> HIDE DEF n
  <2>3. ui' \in Settings
    BY <1>1, <2>1, <2>2 DEF Settings
  <2>4. ProfileInv'
    BY <1>5, <1>7, <1>11 DEF writeProfileUtf8
  <2> QED
    BY <1>1, <1>2, <1>3, <2>3, <2>4 DEF IndInv
<1>12. CASE ProfileWritten
  <2>1. ui' \in Settings
    BY <1>4, <1>5, <1>12 DEF ProfileWritten, SetUi
  <2>2. ProfileInv'
    BY <1>5, <1>7, <1>12 DEF ProfileWritten
  <2> QED
    BY <1>1, <1>2, <1>3, <2>1, <2>2 DEF IndInv
<1> QED
  BY <1>8, <1>9, <1>10, <1>11, <1>12

LEMMA NextInv == IndInv /\ [Next]_vars => IndInv'
<1> SUFFICES ASSUME IndInv, [Next]_vars PROVE IndInv'
  OBVIOUS
<1>1. CASE \E c \in Contexts :
              \/ initWithInputMethod(c)
              \/ initAsPipeSession(c)
              \/ \E im \in InputMethods :
                    \/ ActivationRebuilds(c, im)
                    \/ activateProfileInputMethod(c, im)
              \/ \E step \in {1, -1} : EnumerateHotkey(c, step)
              \/ GroupHotkey(c)
  BY <1>1, NewEngineInv, RebuildInv, activateProfileInputMethodInv,
     EnumerateHotkeyInv, GroupHotkeyInv
<1>2. CASE (\E c \in Contexts : EngineEnds(c)) \/ ServerEnds
  BY <1>2, EndsInv
<1>3. CASE PipeSharedInit
  BY <1>3, PipeSharedInitInv
<1>4. CASE syncControlsFromGc \/ EditProfile \/ SettingsEnd
           \/ writeProfileUtf8 \/ ProfileWritten
  BY <1>4, SettingsInv
<1>5. CASE UNCHANGED vars
  BY <1>5
  DEF vars, IndInv, EnginesInv, ProfileInv, Complete, SomeSwitchable,
      Switchable, Contains, processOf
<1> QED
  BY <1>1, <1>2, <1>3, <1>4, <1>5 DEF Next

-----------------------------------------------------------------------------
(* The theorems.                                                           *)

(* The invariant holds of every behaviour.                                 *)
THEOREM Invariant == Spec => []IndInv
<1>1. Init => IndInv
  BY InitInv
<1>2. IndInv /\ [Next]_vars => IndInv'
  BY NextInv
<1> QED
  BY <1>1, <1>2, PTL DEF Spec

LEMMA GroupsTyped ==
    ASSUME NEW groups \in Seq(Group), NEW g \in ToSet(groups)
    PROVE  /\ ToSet(g.list) \subseteq InputMethods
           /\ g.def \in InputMethods \cup {NoIM}
<1>1. PICK i \in DOMAIN groups : g = groups[i]
  BY DEF ToSet
<1>2. g \in Group
  BY <1>1
<1>3. g.list \in Seq(InputMethods) /\ g.def \in Names
  BY <1>2, GroupIs
<1>4. \A j \in DOMAIN g.list : g.list[j] \in InputMethods
  BY <1>3
<1> QED
  BY <1>3, <1>4 DEF ToSet, Names

(* Every variable keeps its type, every group lists input methods, and an  *)
(* engine with a context has its instance: what each call of an engine     *)
(* that tests ic_ relies on (Fcitx5ImeEngine.cpp).                         *)
THEOREM TypeCorrect == Spec => []TypeOK
<1>1. IndInv => TypeOK
  <2> SUFFICES ASSUME IndInv PROVE TypeOK
    OBVIOUS
  <2>1. /\ package \in Packages /\ EnginesInv /\ ProfileInv /\ ui \in Settings
    BY DEF IndInv
  <2>2. \A p \in Processes : instance[p].up \in BOOLEAN
                             /\ instance[p].groups \in Seq(Group)
    <3>1. \A p \in Processes : instance[p] \in Instance
      BY <2>1 DEF EnginesInv
    <3> QED
      BY <3>1 DEF Instance
  <2>3. \A c \in Contexts : /\ ctx[c] \in Context
                            /\ ctx[c].ic => ctx[c].open
                            /\ ctx[c].open => instance[processOf(c)].up
    BY <2>1 DEF EnginesInv
  <2>4. /\ ui.pc \in {"closed", "open", "writing"} /\ ui.writes \in 0..MaxWrites
        /\ ui.text \in Seq(Group)
    BY <2>1 DEF Settings
  <2>5. /\ writer \in {"installer", "engine", "settings"}
        /\ chosen \in InputMethods \cup {NoIM} /\ profile \in Seq(Group)
    BY <2>1 DEF ProfileInv, Names
  <2>6. ASSUME NEW g \in ToSet(profile) \cup ToSet(ui.text) \cup
                         UNION {ToSet(instance[p].groups) : p \in Processes}
        PROVE  /\ ToSet(g.list) \subseteq InputMethods
               /\ g.def \in InputMethods \cup {NoIM}
    <3>1. PICK groups \in Seq(Group) : g \in ToSet(groups)
      BY <2>2, <2>4, <2>5, <2>6
    <3> QED
      BY <3>1, GroupsTyped
  <2> QED
    BY <2>1, <2>2, <2>3, <2>4, <2>5, <2>6 DEF TypeOK
<1> QED
  BY <1>1, Invariant, PTL

LEMMA SwitchableOffers ==
    ASSUME NEW g \in Group, Switchable(g)
    PROVE  OffersPinyin(g)
<1> DEFINE e == [groups |-> <<g>>, active |-> FALSE, local |-> NoIM]
           f == setCurrentInputMethod(e, Pinyin, FALSE)
           h == [g EXCEPT !.def = Pinyin]
           gs == <<h>> \o Tail(e.groups)
<1>1. /\ g.list \in Seq(InputMethods) /\ Len(g.list) \in Nat
      /\ g.list # <<>> /\ g.list[1] # Pinyin /\ Contains(g.list, Pinyin)
  BY GroupIs DEF Switchable
<1>2. ~ (Len(g.list) < 2)
  <2>1. PICK i \in 1..Len(g.list) : g.list[i] = Pinyin
    BY <1>1 DEF Contains
  <2>2. i # 1
    BY <1>1, <2>1
  <2> QED
    BY <1>1, <2>1, <2>2
<1>3. currentGroup(e) = g
  BY DEF currentGroup
<1>4. h.list = g.list /\ h.def = Pinyin
  BY DEF Group
<1>5. f = [e EXCEPT !.active = TRUE, !.local = NoIM, !.groups = gs]
  BY <1>1, <1>2, <1>3 DEF setCurrentInputMethod
<1>6. f.active = TRUE /\ f.local = NoIM /\ f.groups = gs
  BY <1>5
<1>7. Head(gs) = h
  OBVIOUS
<1>8. OffersPinyin(g) <=> f.active /\ inputMethod(f) = Pinyin
  BY DEF OffersPinyin
<1> HIDE DEF h, gs, f, e
<1>9. currentGroup(f) = h
  BY <1>6, <1>7 DEF currentGroup
<1> QED
  BY <1>1, <1>4, <1>6, <1>8, <1>9 DEF inputMethod

LEMMA SomeOffers ==
    ASSUME NEW groups \in Seq(Group), SomeSwitchable(groups)
    PROVE  \E g \in ToSet(groups) : OffersPinyin(g)
<1>1. PICK i \in DOMAIN groups : Switchable(groups[i])
  BY DEF SomeSwitchable
<1>2. groups[i] \in Group /\ groups[i] \in ToSet(groups)
  BY DEF ToSet
<1> QED
  BY <1>1, <1>2, SwitchableOffers

(* Where the keyboard and pinyin are installed, every engine with a        *)
(* context, and every profile an engine saved last, has a group in which   *)
(* Chinese can be switched on (ensurePortableImGroupHasEntries and what    *)
(* the switches, hotkeys and saves after it keep).                         *)
THEOREM SwitchedOn == Spec => []ChineseCanBeSwitchedOn
<1>1. IndInv => ChineseCanBeSwitchedOn
  <2> SUFFICES ASSUME IndInv, Complete
               PROVE  /\ \A c \in Contexts : ctx[c].ic =>
                            \E g \in ToSet(instance[processOf(c)].groups) :
                               OffersPinyin(g)
                      /\ writer = "engine" =>
                            \E g \in ToSet(profile) : OffersPinyin(g)
    BY DEF ChineseCanBeSwitchedOn, Complete
  <2>1. EnginesInv /\ ProfileInv
    BY DEF IndInv
  <2>2. ASSUME NEW c \in Contexts, ctx[c].ic
        PROVE  \E g \in ToSet(instance[processOf(c)].groups) : OffersPinyin(g)
    <3>1. view(c) \in View /\ SomeSwitchable(view(c).groups)
          /\ view(c).groups = instance[processOf(c)].groups
      BY <2>1, <2>2, ViewIs
    <3>2. view(c).groups \in Seq(Group)
      BY <3>1 DEF View
    <3> QED
      BY <3>1, <3>2, SomeOffers
  <2>3. ASSUME writer = "engine"
        PROVE  \E g \in ToSet(profile) : OffersPinyin(g)
    <3>1. profile \in Seq(Group) /\ SomeSwitchable(profile)
      BY <2>1, <2>3 DEF ProfileInv
    <3> QED
      BY <3>1, SomeOffers
  <2> QED
    BY <2>2, <2>3
<1> QED
  BY <1>1, Invariant, PTL

(* Only the start of an application's engine gives it a context.           *)
LEMMA StartsOnly ==
    ASSUME IndInv, Next, NEW a \in Apps, ~ctx[a].open, ctx'[a].ic
    PROVE  initWithInputMethod(a)
<1>1. /\ a \in Contexts /\ a \notin Sessions
      /\ \A c \in Contexts : c \in Apps \/ c \in Sessions
      /\ ctx \in [Contexts -> Context]
      /\ \A c \in Contexts : ctx[c].ic => ctx[c].open
      /\ ~ctx[a].ic
  BY ImGroupAssumption DEF Contexts, IndInv, EnginesInv
<1>2. ~NoContext.ic
  BY DEF NoContext
<1>3. ASSUME NEW c \in Contexts, NEW e, SetView(c, e)
      PROVE  c = a
  BY <1>1, <1>3 DEF SetView
<1>4. ASSUME ctx' = ctx PROVE FALSE
  BY <1>1, <1>4
<1>5. ASSUME NEW c \in Contexts, NEW x, ctx' = [ctx EXCEPT ![c] = x], ~x.ic
      PROVE  FALSE
  BY <1>1, <1>5
<1>6. ASSUME NEW c \in Contexts, NEW groups, NEW preferred,
             Start(c, groups, preferred)
      PROVE  c = a
  BY <1>3, <1>6 DEF Start
<1>7. ASSUME NEW c \in Contexts, initWithInputMethod(c)
      PROVE  c = a
  BY <1>6, <1>7 DEF initWithInputMethod
<1>8. ASSUME NEW c \in Contexts, initAsPipeSession(c)
      PROVE  FALSE
  BY <1>1, <1>6, <1>8 DEF initAsPipeSession
<1>9. ASSUME NEW c \in Contexts, EngineEnds(c)
      PROVE  FALSE
  BY <1>2, <1>5, <1>9 DEF EngineEnds
<1>10. ASSUME NEW c \in Contexts, NEW im, ActivationRebuilds(c, im)
       PROVE  FALSE
  <2>1. ctx[c].ic /\ rebuildForInputMethod(c, im)
    BY <1>10 DEF ActivationRebuilds
  <2>2. c # a
    BY <1>1, <2>1
  <2>3. ~ [NoContext EXCEPT !.open = TRUE].ic
    BY DEF NoContext
  <2> QED
    BY <1>2, <1>5, <1>6, <2>1, <2>2, <2>3 DEF rebuildForInputMethod
<1>11. ASSUME NEW c \in Contexts, NEW im, activateProfileInputMethod(c, im)
       PROVE  FALSE
  BY <1>1, <1>3, <1>11 DEF activateProfileInputMethod
<1>12. ASSUME NEW c \in Contexts, NEW step, EnumerateHotkey(c, step)
       PROVE  FALSE
  BY <1>1, <1>3, <1>12 DEF EnumerateHotkey
<1>13. ASSUME NEW c \in Contexts, GroupHotkey(c)
       PROVE  FALSE
  BY <1>1, <1>3, <1>13 DEF GroupHotkey
<1>14. ASSUME ServerEnds
       PROVE  FALSE
  BY <1>1, <1>14 DEF ServerEnds
<1>15. ASSUME \/ PipeSharedInit \/ syncControlsFromGc \/ EditProfile
              \/ writeProfileUtf8 \/ ProfileWritten \/ SettingsEnd
       PROVE  FALSE
  <2>1. ctx' = ctx
    BY <1>15 DEF PipeSharedInit, syncControlsFromGc, EditProfile,
                 writeProfileUtf8, ProfileWritten, SettingsEnd, SetUi
  <2> QED
    BY <1>4, <2>1
<1> QED
  BY <1>7, <1>8, <1>9, <1>10, <1>11, <1>12, <1>13, <1>14, <1>15 DEF Next

(* It types with what was chosen last.                                     *)
LEMMA StartFollows ==
    ASSUME IndInv, NEW a \in Apps, initWithInputMethod(a),
           chosen # NoIM, package.env \notin package.known
    PROVE  inputMethod(view(a))' = chosen
<1> DEFINE groups == load(profile)
           e == NewContext(groups)
<1>1. /\ package \in Packages /\ profile \in Seq(Group) /\ profile # <<>>
      /\ Head(profile).def = chosen
      /\ Contains(Head(profile).list, chosen) /\ chosen \in package.known
  BY DEF IndInv, ProfileInv
<1>2. /\ groups \in Seq(Group) /\ groups # <<>>
      /\ Head(groups).def = chosen /\ Contains(Head(groups).list, chosen)
  BY <1>1, loadIs
<1>3. PICK r \in activatePreferredInputMethod(e, NoIM, TRUE) : SetView(a, r.to)
  <2>1. Start(a, groups, NoIM) /\ (a \in Apps) = TRUE
    BY DEF initWithInputMethod
  <2> HIDE DEF groups
  <2> QED
    BY <2>1 DEF Start
<1> HIDE DEF groups
<1>4. /\ e \in View /\ e.groups = groups /\ e.local = NoIM
      /\ currentGroup(e) = Head(groups)
  BY <1>1, <1>2, PackageIs DEF NewContext, View, Names, currentGroup
<1> HIDE DEF e
<1>5. inputMethod(r.to) = chosen
  BY <1>1, <1>2, <1>3, <1>4, ActivationFollows
<1>6. /\ processOf(a) \in Processes /\ a \in Contexts
      /\ instance \in [Processes -> Instance] /\ ctx \in [Contexts -> Context]
  BY Whose DEF IndInv, EnginesInv, Contexts
<1>7. /\ instance'[processOf(a)].groups = r.to.groups
      /\ ctx'[a].active = r.to.active /\ ctx'[a].local = r.to.local
  BY <1>3, <1>6 DEF SetView
<1>8. view(a)' = [groups |-> r.to.groups, active |-> r.to.active,
                  local |-> r.to.local]
  BY <1>7 DEF view, processOf
<1> DEFINE w == [groups |-> r.to.groups, active |-> r.to.active,
                 local |-> r.to.local]
<1>9. inputMethod(w) = inputMethod(r.to)
  BY DEF inputMethod, currentGroup
<1>10. inputMethod(view(a))' = inputMethod(w)
  BY <1>8 DEF inputMethod, currentGroup
<1> QED
  BY <1>5, <1>9, <1>10

(* An application that starts after a successful switch types with the     *)
(* input method the user picked, unless the profile has been rewritten     *)
(* meanwhile or FCITX_TS_IM names an installed one                         *)
(* (activateProfileInputMethod and activatePreferredInputMethod).          *)
THEOREM SwitchReaches == Spec => SwitchReachesNewApps
<1> DEFINE A == \A a \in Apps :
                   /\ ~ctx[a].open /\ ctx'[a].ic
                   /\ chosen # NoIM /\ package.env \notin package.known
                   => inputMethod(view(a))' = chosen
<1>1. IndInv /\ Next => A
  BY StartsOnly, StartFollows
<1>2. IndInv /\ [Next]_vars => [A]_vars
  BY <1>1
<1>3. [][A]_vars <=> SwitchReachesNewApps
  BY DEF SwitchReachesNewApps
<1> QED
  BY <1>2, <1>3, Invariant, PTL DEF Spec

================================================================================
