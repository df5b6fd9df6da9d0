--------------------------- MODULE ElfWriterProofs ---------------------------
(***************************************************************************)
(* Proofs about elfio::save, for any number of sections and segments.      *)
(* Three invariants are kept by each of its steps: Typed, what kind of     *)
(* thing every variable holds; OrdInv, that the work list and the order    *)
(* hold all segments, those that contain others first; and Laying, where   *)
(* things are while a regular object is laid out and written (LayInv,      *)
(* Strays, StoredInv).  ElfTablesProofs combines them with what the        *)
(* client's other calls do and states the theorems.                        *)
(***************************************************************************)
EXTENDS ElfObjectProofs, WellFoundedInduction, FiniteSetTheorems

-----------------------------------------------------------------------------
(* Words, and multiples of a number                                         *)
LEMMA ModIs ==
    ASSUME NEW p \in Nat \ {0}, NEW a \in Int
    PROVE  a % p \in 0..p - 1 /\ a \div p \in Int /\ a = p * (a \div p) + (a % p)
  OBVIOUS

LEMMA ModSmall ==
    ASSUME NEW p \in Nat \ {0}, NEW a \in 0..p - 1
    PROVE  a % p = a
  OBVIOUS

LEMMA ModUnique ==
    ASSUME NEW p \in Nat \ {0}, NEW q \in Int, NEW r \in 0..p - 1
    PROVE  (p * q + r) % p = r
  OBVIOUS

LEMMA WordIs == WORD \in Nat \ {0} /\ WORD > 52
  BY WordAssumption DEF EHDR

LEMMA WordsIn ==
    ASSUME NEW a \in Int, NEW b \in Int
    PROVE  /\ Plus(a, b) \in 0..WORD - 1 /\ Minus(a, b) \in 0..WORD - 1
           /\ Plus(a, b) \in Nat /\ Minus(a, b) \in Nat
           /\ Plus(a, b) \in Int /\ Minus(a, b) \in Int
  BY WordIs DEF Plus, Minus

LEMMA PlusIs ==
    ASSUME NEW a \in Nat, NEW b \in Nat, a + b < WORD
    PROVE  Plus(a, b) = a + b
  BY WordIs, ModSmall DEF Plus

LEMMA MinusIs ==
    ASSUME NEW a \in 0..WORD - 1, NEW b \in 0..WORD - 1, b <= a
    PROVE  Minus(a, b) = a - b
  BY WordIs, ModSmall DEF Minus

LEMMA GapIs ==
    ASSUME NEW a \in Int, NEW b \in Int
    PROVE  Gap(a, b) \in Nat
  BY ModIs DEF Gap

Divides(p, a) == \E q \in Int : a = p * q

LEMMA Multiple ==
    ASSUME NEW p, NEW a, NEW q \in Int, a = p * q
    PROVE  Divides(p, a)
  BY DEF Divides

LEMMA ZeroRest ==
    ASSUME NEW p \in Nat \ {0}, NEW a \in Int
    PROVE  a % p = 0 <=> Divides(p, a)
<1>1. ASSUME a % p = 0 PROVE Divides(p, a)
  <2>1. a \div p \in Int /\ a = p * (a \div p)
    BY <1>1, ModIs
  <2> QED BY <2>1, Multiple, Zenon
<1>2. ASSUME NEW q \in Int, a = p * q PROVE a % p = 0
  <2>1. a = p * q + 0
    BY <1>2
  <2> QED BY <2>1, ModUnique
<1> QED BY <1>1, <1>2 DEF Divides

LEMMA DividesTwice ==
    ASSUME NEW p \in Nat \ {0}, NEW a \in Int, NEW b \in Int, Divides(p, a), Divides(a, b)
    PROVE  Divides(p, b)
<1>1. PICK q \in Int : a = p * q
  BY DEF Divides
<1>2. PICK r \in Int : b = a * r
  BY DEF Divides
<1>3. b = p * (q * r) /\ q * r \in Int
  BY <1>1, <1>2
<1> QED BY <1>3, Multiple, Zenon

LEMMA DividesRest ==
    ASSUME NEW p \in Nat \ {0}, NEW a \in Int
    PROVE  Divides(p, a - (a % p))
<1>1. a - (a % p) = p * (a \div p) /\ a \div p \in Int
  BY ModIs
<1> QED BY <1>1, Multiple, Zenon

-----------------------------------------------------------------------------
(* The least and the largest element of a set of numbers                    *)
LEMMA MinIs ==
    ASSUME NEW S, S \subseteq Nat, S # {}
    PROVE  Min(S) \in S /\ \A y \in S : Min(S) <= y
<1>1. IsWellFoundedOn(OpToRel(<, Nat), Nat)
  BY NatLessThanWellFounded
<1>2. PICK x \in S : \A y \in S : ~ (<<y, x>> \in OpToRel(<, Nat))
  BY <1>1, WFMin
<1>3. \A y \in S : x <= y
  <2> SUFFICES ASSUME NEW y \in S PROVE x <= y
    OBVIOUS
  <2>1. ~ (y < x)
    BY <1>2 DEF OpToRel
  <2> QED BY <2>1
<1> QED BY <1>2, <1>3 DEF Min

LEMMA MaxIs ==
    ASSUME NEW n \in Nat, NEW S, S \subseteq 0..n, S # {}
    PROVE  Max(S) \in S /\ \A y \in S : y <= Max(S)
<1> DEFINE T == {n - y : y \in S}
<1>1. T \subseteq Nat /\ T # {}
  <2>1. \A y \in S : n - y \in Nat
    OBVIOUS
  <2>2. T \subseteq Nat
    BY <2>1
  <2>3. T # {}
    BY Zenon
  <2> QED BY <2>2, <2>3
<1>2. Min(T) \in T /\ \A y \in T : Min(T) <= y
  BY <1>1, MinIs
<1>3. PICK x \in S : Min(T) = n - x
  BY <1>2
<1>4. \A y \in S : x >= y
  <2> SUFFICES ASSUME NEW y \in S PROVE x >= y
    OBVIOUS
  <2>1. n - x <= n - y
    BY <1>2, <1>3
  <2>2. x \in 0..n /\ y \in 0..n
    OBVIOUS
  <2> QED BY <2>1, <2>2
<1>5. Max(S) \in S /\ \A y \in S : Max(S) >= y
  BY <1>4, Zenon DEF Max
<1>6. \A y \in S : y \in Int
  OBVIOUS
<1>7. PICK m : m = Max(S)
  OBVIOUS
<1>8. m \in S /\ \A y \in S : m >= y
  BY <1>5, <1>7, Zenon
<1>9. \A y \in S : y <= m
  BY <1>6, <1>8
<1> QED BY <1>7, <1>8, <1>9, Zenon

LEMMA MaxOfTwo ==
    ASSUME NEW a \in Nat, NEW b \in Nat
    PROVE  /\ Max({a, b}) \in Nat /\ a <= Max({a, b}) /\ b <= Max({a, b})
           /\ Max({a, b}) \in {a, b}
<1> PICK m : m = Max({a, b})
  OBVIOUS
<1>1. {a, b} \subseteq 0..a + b /\ a + b \in Nat
  OBVIOUS
<1>2. m \in {a, b} /\ \A y \in {a, b} : y <= m
  BY <1>1, MaxIs
<1>3. m \in Nat /\ a <= m /\ b <= m /\ m \in {a, b}
  BY <1>2
<1> QED BY <1>3

(* A property of numbers that goes on from each to the next                 *)
LEMMA UpTo ==
    ASSUME NEW n \in Nat, NEW S, 0 \in S, \A i \in 1..n : i - 1 \in S => i \in S
    PROVE  0..n \subseteq S
<1> DEFINE C == {i \in 0..n : i \notin S}
<1> SUFFICES ASSUME C # {} PROVE FALSE
  OBVIOUS
<1>1. C \subseteq Nat
  OBVIOUS
<1>2. Min(C) \in C /\ \A y \in C : Min(C) <= y
  BY <1>1, MinIs
<1> PICK m : m = Min(C)
  OBVIOUS
<1>3. m \in 0..n /\ m \notin S /\ m # 0
  BY <1>2
<1>4. m - 1 \in 0..n /\ m - 1 \notin C
  BY <1>2, <1>3
<1>5. m \in 1..n /\ m - 1 \in S
  BY <1>3, <1>4
<1> QED BY <1>3, <1>5

(* and of their largest element, those that are listed                      *)
LEMMA MaxListed ==
    ASSUME NEW n \in Nat, NEW f, \A k \in 1..n : f[k] \in Nat, NEW a \in Nat,
           NEW S, S = {a} \cup {f[k] : k \in 1..n}
    PROVE  Max(S) \in Nat /\ a <= Max(S) /\ \A k \in 1..n : f[k] <= Max(S)
<1> DEFINE B == {j \in 0..n : \E m \in Nat : a <= m /\ \A k \in 1..j : f[k] <= m}
<1>1. 0 \in B
  OBVIOUS
<1>2. ASSUME NEW i \in 1..n, i - 1 \in B PROVE i \in B
  <2>1. PICK m \in Nat : a <= m /\ \A k \in 1..i - 1 : f[k] <= m
    BY <1>2
  <2>2. f[i] \in Nat
    OBVIOUS
  <2>3. m + f[i] \in Nat /\ a <= m + f[i] /\ \A k \in 1..i : f[k] <= m + f[i]
    <3> SUFFICES ASSUME NEW k \in 1..i PROVE f[k] <= m + f[i]
      BY <2>1, <2>2
    <3>1. f[k] \in Nat /\ (k = i \/ k \in 1..i - 1)
      OBVIOUS
    <3> QED BY <2>1, <2>2, <3>1
  <2> QED BY <2>3
<1>3. n \in B
  <2> HIDE DEF B
  <2>1. 0..n \subseteq B
    BY <1>1, <1>2, UpTo
  <2> QED BY <2>1
<1>4. PICK m \in Nat : a <= m /\ \A k \in 1..n : f[k] <= m
  BY <1>3
<1>5. S \subseteq 0..m /\ S # {}
  BY <1>4
<1>6. Max(S) \in S /\ \A y \in S : y <= Max(S)
  BY <1>5, MaxIs
<1> PICK x : x = Max(S)
  OBVIOUS
<1>7. x \in Nat /\ a <= x /\ \A k \in 1..n : f[k] <= x
  BY <1>5, <1>6
<1> QED BY <1>7

-----------------------------------------------------------------------------
(* What get_ordered_segments starts with: all segments, those at offset 0   *)
(* in front                                                                 *)
Shuffled(l, n) ==
    /\ l \in Seq(1..n) /\ Len(l) = n
    /\ \A m \in 1..n : \E k \in 1..n : l[k] = m
    /\ \A j, k \in 1..n : j < k => l[j] # l[k]

LEMMA SeqIs ==
    ASSUME NEW S, NEW l \in Seq(S)
    PROVE  /\ Len(l) \in Nat /\ DOMAIN l = 1..Len(l) /\ l \in [1..Len(l) -> S]
           /\ \A k \in 1..Len(l) : l[k] \in S
  OBVIOUS

LEMMA ShuffledIs ==
    ASSUME NEW n \in Nat, NEW l, Shuffled(l, n)
    PROVE  l \in [1..n -> 1..n] /\ Len(l) = n /\ \A k \in 1..n : l[k] \in 1..n
<1>1. l \in Seq(1..n) /\ Len(l) = n
  BY DEF Shuffled
<1> QED BY <1>1, SeqIs

LEMMA SwappedIs ==
    ASSUME NEW n \in Nat, NEW l, Shuffled(l, n), NEW i \in 1..n, NEW k \in 1..n
    PROVE  /\ Shuffled(Swapped(l, i, k), n)
           /\ Swapped(l, i, k)[i] = l[k] /\ Swapped(l, i, k)[k] = l[i]
           /\ \A j \in (1..n) \ {i, k} : Swapped(l, i, k)[j] = l[j]
<1>m. PICK m : m = Swapped(l, i, k)
  OBVIOUS
<1>1. l \in [1..n -> 1..n] /\ Len(l) = n
  BY ShuffledIs
<1>2. m = [j \in 1..n |-> IF j = i THEN l[k] ELSE IF j = k THEN l[i] ELSE l[j]]
  BY <1>1, <1>m DEF Swapped
<1>3. m \in [1..n -> 1..n]
  BY <1>1, <1>2
<1>4. m \in Seq(1..n) /\ Len(m) = n
  BY <1>3
<1>5. m[i] = l[k] /\ m[k] = l[i] /\ \A j \in (1..n) \ {i, k} : m[j] = l[j]
  BY <1>2
<1>6. ASSUME NEW a \in 1..n PROVE \E j \in 1..n : m[j] = a
  <2>1. PICK j \in 1..n : l[j] = a
    BY DEF Shuffled
  <2>2. m[IF j = i THEN k ELSE IF j = k THEN i ELSE j] = a
    BY <1>5, <2>1
  <2> QED BY <2>2
<1>7. ASSUME NEW a \in 1..n, NEW b \in 1..n, a # b PROVE m[a] # m[b]
  <2>1. \A c, d \in 1..n : c # d => l[c] # l[d]
    <3> SUFFICES ASSUME NEW c \in 1..n, NEW d \in 1..n, c # d PROVE l[c] # l[d]
      OBVIOUS
    <3>1. c < d \/ d < c
      OBVIOUS
    <3> QED BY <3>1 DEF Shuffled
  <2> DEFINE t(j) == IF j = i THEN k ELSE IF j = k THEN i ELSE j
  <2>2. m[a] = l[t(a)] /\ m[b] = l[t(b)] /\ t(a) # t(b) /\ t(a) \in 1..n /\ t(b) \in 1..n
    BY <1>2, <1>7
  <2> HIDE DEF t
  <2> QED BY <2>1, <2>2
<1>8. \A a, b \in 1..n : a < b => m[a] # m[b]
  <2> SUFFICES ASSUME NEW a \in 1..n, NEW b \in 1..n, a < b PROVE m[a] # m[b]
    OBVIOUS
  <2>1. a # b
    OBVIOUS
  <2> QED BY <1>7, <2>1
<1>9. Shuffled(m, n)
  BY <1>4, <1>6, <1>8 DEF Shuffled
<1> QED BY <1>5, <1>9, <1>m

(* One round of its loop                                                    *)
FrontStep(was, i) ==
    LET to == IF segments[was.list[was.slot]].offset = 0 THEN was.slot + 1 ELSE was.slot
    IN  IF i # was.slot /\ AtZero(segments[was.list[i]])
        THEN [list |-> Swapped(was.list, i, to), slot |-> to + 1]
        ELSE was

(* The segments in front of one at offset 0 have an offset.                 *)
ZerosKnown == \A g, h \in 1..Len(segments) : g < h /\ AtZero(segments[h]) => segments[g].offsetSet

Fronted(was, i, n) ==
    /\ Shuffled(was.list, n) /\ was.slot \in 1..i + 1
    /\ \A j \in i + 1..n : was.list[j] = j
    /\ \A j \in was.slot + 1..i : ~ AtZero(segments[was.list[j]])
    /\ ZerosKnown => \A j \in 1..was.slot - 1 : j <= n => AtZero(segments[was.list[j]])

LEMMA FrontStepKeeps ==
    ASSUME NEW n \in Nat, n = Len(segments), NEW i \in 1..n, NEW was, Fronted(was, i - 1, n)
    PROVE  Fronted(FrontStep(was, i), i, n)
<1>l. PICK l : l = was.list
  OBVIOUS
<1>s. PICK s : s = was.slot
  OBVIOUS
<1>1. /\ Shuffled(l, n) /\ s \in 1..i
      /\ \A j \in i..n : l[j] = j
      /\ \A j \in s + 1..i - 1 : ~ AtZero(segments[l[j]])
      /\ ZerosKnown => \A j \in 1..s - 1 : j <= n => AtZero(segments[l[j]])
  BY <1>l, <1>s DEF Fronted
<1>2. \A j \in 1..n : l[j] \in 1..n
  BY <1>1, ShuffledIs
<1>3. CASE ~ (i # s /\ AtZero(segments[l[i]]))
  <2>1. FrontStep(was, i) = was
    BY <1>3, <1>l, <1>s DEF FrontStep
  <2>2. \A j \in s + 1..i : ~ AtZero(segments[l[j]])
    <3> SUFFICES ASSUME NEW j \in s + 1..i PROVE ~ AtZero(segments[l[j]])
      OBVIOUS
    <3>1. j \in s + 1..i - 1 \/ (j = i /\ i # s)
      BY <1>1
    <3> QED BY <1>1, <1>3, <3>1
  <2>3. s \in 1..i + 1 /\ \A j \in i + 1..n : l[j] = j
    BY <1>1
  <2> QED BY <1>1, <1>l, <1>s, <2>1, <2>2, <2>3 DEF Fronted
<1>4. CASE i # s /\ AtZero(segments[l[i]])
  <2>t. PICK to : to = IF segments[l[s]].offset = 0 THEN s + 1 ELSE s
    OBVIOUS
  <2>m. PICK m : m = Swapped(l, i, to)
    OBVIOUS
  <2>1. FrontStep(was, i) = [list |-> m, slot |-> to + 1]
    BY <1>4, <1>l, <1>s, <2>t, <2>m DEF FrontStep
  <2>2. /\ to \in 1..i /\ i \in 1..n /\ to \in 1..n /\ s \in 1..i /\ s < i
        /\ to = s + 1 \/ to = s
    BY <1>1, <1>4, <2>t
  <2>3. /\ Shuffled(m, n) /\ m[i] = l[to] /\ m[to] = l[i]
        /\ \A j \in (1..n) \ {i, to} : m[j] = l[j]
    <3>1. Shuffled(l, n) /\ i \in 1..n /\ to \in 1..n
      BY <1>1, <2>2
    <3>2. /\ Shuffled(Swapped(l, i, to), n)
          /\ Swapped(l, i, to)[i] = l[to] /\ Swapped(l, i, to)[to] = l[i]
          /\ \A j \in (1..n) \ {i, to} : Swapped(l, i, to)[j] = l[j]
      BY <3>1, SwappedIs
    <3> QED BY <2>m, <3>2
  <2>4. \A j \in i + 1..n : m[j] = j
    BY <1>1, <2>2, <2>3
  <2>5. ASSUME NEW j \in to + 2..i PROVE ~ AtZero(segments[m[j]])
    <3>1. CASE j = i
      <4>1. m[j] = l[to] /\ (to = s + 1 \/ to = s)
        BY <2>2, <2>3, <3>1
      <4>2. CASE to = s + 1
        BY <1>1, <2>2, <2>5, <3>1, <4>1, <4>2
      <4>3. CASE to = s /\ segments[l[s]].offset # 0
        BY <4>1, <4>3 DEF AtZero
      <4> QED BY <1>1, <2>t, <4>1, <4>2, <4>3
    <3>2. CASE j # i
      <4>1. j \in (1..n) \ {i, to} /\ j \in s + 1..i - 1
        BY <2>2, <2>5, <3>2
      <4> QED BY <1>1, <2>3, <4>1
    <3> QED BY <3>1, <3>2
  <2>6. ASSUME ZerosKnown, NEW j \in 1..to PROVE AtZero(segments[m[j]])
    <3>1. CASE j = to
      BY <1>4, <2>3, <3>1
    <3>2. CASE j < s
      <4>1. j \in (1..n) \ {i, to} /\ j \in 1..s - 1 /\ j <= n
        BY <2>2, <3>2
      <4> QED BY <1>1, <2>3, <2>6, <4>1
    <3>3. CASE j = s /\ to = s + 1
      <4>0. s \in 1..n /\ s \in (1..n) \ {i, to} /\ i \in i..n
        BY <2>2, <3>3
      <4>1. m[j] = l[s] /\ segments[l[s]].offset = 0 /\ l[i] = i
        BY <1>1, <2>t, <2>3, <3>3, <4>0
      <4>2. l[s] \in 1..n /\ l[s] < i
        <5>1. l[s] \in 1..n
          BY <1>2, <4>0
        <5>2. ASSUME l[s] >= i PROVE FALSE
          <6>1. l[l[s]] = l[s] /\ s < l[s]
            BY <1>1, <2>2, <5>1, <5>2
          <6> QED BY <1>1, <4>0, <5>1, <6>1 DEF Shuffled
        <5> QED BY <5>1, <5>2
      <4>3. segments[l[s]].offsetSet
        <5>1. i \in 1..Len(segments) /\ l[s] \in 1..Len(segments)
          BY <2>2, <4>2
        <5> QED BY <1>4, <2>6, <4>1, <4>2, <5>1 DEF ZerosKnown
      <4> QED BY <4>1, <4>3 DEF AtZero
    <3> QED BY <2>2, <3>1, <3>2, <3>3
  <2>7. to + 1 \in 1..i + 1 /\ \A j \in 1..to + 1 - 1 : j \in 1..to
    BY <2>2
  <2>8. \A j \in to + 1 + 1..i : j \in to + 2..i
    BY <2>2
  <2>9. PICK new : new = [list |-> m, slot |-> to + 1]
    OBVIOUS
  <2>10. \A j \in to + 1 + 1..i : ~ AtZero(segments[m[j]])
    BY <2>5, <2>7, <2>8
  <2>11. new.list = m /\ new.slot = to + 1
    BY <2>9
  <2>12. Shuffled(m, n) /\ \A j \in i + 1..n : m[j] = j
    BY <2>3, <2>4
  <2>13. Fronted(new, i, n)
    <3>1. Shuffled(new.list, n) /\ new.slot \in 1..i + 1 /\ \A j \in i + 1..n : new.list[j] = j
      BY <2>7, <2>11, <2>12
    <3>2. \A j \in new.slot + 1..i : ~ AtZero(segments[new.list[j]])
      BY <2>10, <2>11
    <3>3. ASSUME ZerosKnown, NEW j \in 1..new.slot - 1 PROVE AtZero(segments[new.list[j]])
      <4>1. j \in 1..to
        BY <2>2, <2>11
      <4> QED BY <2>6, <2>11, <3>3, <4>1
    <3> QED BY <3>1, <3>2, <3>3 DEF Fronted
  <2> QED BY <2>1, <2>9, <2>13
<1> QED BY <1>3, <1>4

FrontRun(F, n, first) ==
    /\ F = [i \in 0..n |-> F[i]] /\ F[0] = first
    /\ \A i \in 1..n : F[i] = FrontStep(F[i - 1], i)

LEMMA FrontRuns ==
    ASSUME NEW n \in Nat, NEW first
    PROVE  \E F : FrontRun(F, n, first)
<1> DEFINE B == {j \in 0..n : \E F : FrontRun(F, j, first)}
<1>1. 0 \in B
  <2>1. PICK F : F = [i \in 0..0 |-> first]
    OBVIOUS
  <2>2. F = [i \in 0..0 |-> F[i]] /\ F[0] = first
    BY <2>1
  <2>3. FrontRun(F, 0, first)
    BY <2>2 DEF FrontRun
  <2> QED BY <2>3
<1>2. ASSUME NEW j \in 1..n, j - 1 \in B PROVE j \in B
  <2>1. PICK F : FrontRun(F, j - 1, first)
    BY <1>2
  <2>2. PICK x : x = FrontStep(F[j - 1], j)
    OBVIOUS
  <2>3. PICK G : G = [i \in 0..j |-> IF i = j THEN x ELSE F[i]]
    OBVIOUS
  <2>4. G = [i \in 0..j |-> G[i]] /\ G[0] = first /\ 0 # j
    BY <2>1, <2>3 DEF FrontRun
  <2>5. ASSUME NEW i \in 1..j PROVE G[i] = FrontStep(G[i - 1], i)
    <3>1. i - 1 \in 0..j /\ i - 1 # j
      OBVIOUS
    <3>2. G[i - 1] = F[i - 1]
      BY <2>3, <3>1
    <3>3. CASE i = j
      BY <2>2, <2>3, <3>2, <3>3
    <3>4. CASE i # j
      <4>1. i \in 1..j - 1 /\ G[i] = F[i]
        BY <2>3, <3>4
      <4> QED BY <2>1, <3>2, <4>1 DEF FrontRun
    <3> QED BY <3>3, <3>4
  <2>6. FrontRun(G, j, first)
    BY <2>4, <2>5 DEF FrontRun
  <2> QED BY <2>6
<1> HIDE DEF B
<1>3. 0..n \subseteq B
  BY <1>1, <1>2, UpTo
<1>4. n \in B
  BY <1>3
<1> QED BY <1>4 DEF B

FrontBody(F, n, first) == [i \in 0..n |-> IF i = 0 THEN first ELSE FrontStep(F[i - 1], i)]

LEMMA ToFrontIs ==
    ASSUME NEW n \in Nat, n = Len(segments), NEW l, l = ToFront([g \in 1..Len(segments) |-> g])
    PROVE  \E s : Fronted([list |-> l, slot |-> s], n, n)
<1>i. PICK id : id = [g \in 1..n |-> g]
  OBVIOUS
<1>1. id \in Seq(1..n) /\ Len(id) = n
  <2>1. id \in [1..n -> 1..n]
    BY <1>i
  <2> QED BY <2>1
<1>f. PICK first : first = [list |-> id, slot |-> 1]
  OBVIOUS
<1>5. PICK F : F = CHOOSE f : f = FrontBody(f, n, first)
  OBVIOUS
<1>6. F = FrontBody(F, n, first)
  <2>1. PICK G : FrontRun(G, n, first)
    BY FrontRuns
  <2>2. \A i \in 0..n : G[i] = IF i = 0 THEN first ELSE FrontStep(G[i - 1], i)
    BY <2>1 DEF FrontRun
  <2>3. G = FrontBody(G, n, first)
    BY <2>1, <2>2 DEF FrontRun, FrontBody
  <2> QED BY <1>5, <2>3
<1>7. l = F[n].list
  <2>1. ToFront(id) = F[n].list
    BY <1>1, <1>5, <1>f DEF ToFront, FrontStep, FrontBody
  <2> QED BY <2>1, <1>i
<1>8. Fronted(first, 0, n)
  <2>1. Shuffled(id, n)
    BY <1>1, <1>i DEF Shuffled
  <2> QED BY <2>1, <1>f, <1>i DEF Fronted
<1> DEFINE C == {i \in 0..n : Fronted(F[i], i, n)}
<1>9. n \in C
  <2>1. 0 \in C
    BY <1>6, <1>8 DEF FrontBody
  <2>2. ASSUME NEW i \in 1..n, i - 1 \in C PROVE i \in C
    <3>1. F[i] = FrontStep(F[i - 1], i)
      BY <1>6 DEF FrontBody
    <3> QED BY <2>2, <3>1, FrontStepKeeps
  <2> HIDE DEF C
  <2>3. 0..n \subseteq C
    BY <2>1, <2>2, UpTo
  <2> QED BY <2>3
<1>10. Fronted([list |-> l, slot |-> F[n].slot], n, n)
  BY <1>7, <1>9 DEF Fronted
<1> QED BY <1>10

-----------------------------------------------------------------------------
(* is_subsequence_of: for lists in ascending order, all sections of one are *)
(* in the other, which has more                                             *)
Ascends(l) == l \in Seq(Nat) /\ \A j, k \in 1..Len(l) : j < k => l[j] < l[k]

Follows(a, b, i, j) == \A m \in j..Len(a) : \E k \in i..Len(b) : b[k] = a[m]

LEMMA AscendsIs ==
    ASSUME NEW l, Ascends(l)
    PROVE  /\ Len(l) \in Nat /\ DOMAIN l = 1..Len(l) /\ \A k \in 1..Len(l) : l[k] \in Nat
           /\ \A j, k \in 1..Len(l) : j < k => l[j] < l[k]
           /\ \A j, k \in 1..Len(l) : j <= k => l[j] <= l[k]
           /\ \A j, k \in 1..Len(l) : l[j] = l[k] => j = k
<1>1. Len(l) \in Nat /\ DOMAIN l = 1..Len(l) /\ \A k \in 1..Len(l) : l[k] \in Nat
  BY SeqIs DEF Ascends
<1>2. \A j, k \in 1..Len(l) : j < k => l[j] < l[k]
  BY DEF Ascends
<1>3. ASSUME NEW j \in 1..Len(l), NEW k \in 1..Len(l), j <= k PROVE l[j] <= l[k]
  <2>1. l[j] \in Nat /\ l[k] \in Nat
    BY <1>1
  <2>2. CASE j = k
    BY <2>1, <2>2
  <2>3. CASE j < k
    BY <1>2, <2>1, <2>3
  <2> QED BY <1>1, <1>3, <2>2, <2>3
<1>4. ASSUME NEW j \in 1..Len(l), NEW k \in 1..Len(l), l[j] = l[k] PROVE j = k
  <2>1. l[j] \in Nat /\ l[k] \in Nat
    BY <1>1
  <2>2. CASE j < k
    BY <1>2, <1>4, <2>1, <2>2
  <2>3. CASE k < j
    BY <1>2, <1>4, <2>1, <2>3
  <2> QED BY <1>1, <2>2, <2>3
<1> QED BY <1>1, <1>2, <1>3, <1>4

(* One step of std::includes                                                *)
LEMMA FollowsStep ==
    ASSUME NEW a, Ascends(a), NEW b, Ascends(b), NEW i \in 1..Len(b) + 1, NEW j \in 1..Len(a) + 1
    PROVE  Follows(a, b, i, j) <=>
                IF j > Len(a) THEN TRUE
                ELSE IF i > Len(b) \/ a[j] < b[i] THEN FALSE
                ELSE Follows(a, b, i + 1, IF a[j] = b[i] THEN j + 1 ELSE j)
<1>1. /\ Len(a) \in Nat /\ \A k \in 1..Len(a) : a[k] \in Nat
      /\ \A p, q \in 1..Len(a) : p < q => a[p] < a[q]
  BY AscendsIs
<1>2. /\ Len(b) \in Nat /\ \A k \in 1..Len(b) : b[k] \in Nat
      /\ \A p, q \in 1..Len(b) : p <= q => b[p] <= b[q]
  BY AscendsIs
<1>3. CASE j > Len(a)
  <2>1. j..Len(a) = {}
    BY <1>1, <1>3
  <2> QED BY <1>3, <2>1 DEF Follows
<1>4. CASE j <= Len(a) /\ (i > Len(b) \/ a[j] < b[i])
  <2>1. j \in j..Len(a) /\ j \in 1..Len(a) /\ ~ (j > Len(a))
    BY <1>1, <1>4
  <2>2. ASSUME NEW k \in i..Len(b), b[k] = a[j] PROVE FALSE
    <3>1. i \in 1..Len(b) /\ k \in 1..Len(b) /\ i <= k
      BY <1>2
    <3>2. b[i] <= b[k] /\ b[i] \in Nat /\ b[k] \in Nat /\ a[j] < b[i]
      BY <1>2, <1>4, <3>1
    <3> QED BY <2>2, <3>2
  <2>3. ~ Follows(a, b, i, j)
    BY <2>1, <2>2 DEF Follows
  <2> QED BY <1>4, <2>1, <2>3
<1>5. CASE j <= Len(a) /\ i <= Len(b) /\ ~ (a[j] < b[i])
  <2>1. i \in 1..Len(b) /\ j \in 1..Len(a) /\ a[j] \in Nat /\ b[i] \in Nat /\ b[i] <= a[j]
        /\ ~ (i > Len(b)) /\ ~ (j > Len(a))
    BY <1>1, <1>2, <1>5
  <2>2. ASSUME NEW m \in j..Len(a), b[i] # a[m], NEW k \in i..Len(b), b[k] = a[m]
        PROVE  k \in i + 1..Len(b)
    <3>1. k # i
      BY <2>2
    <3> QED BY <1>2, <3>1
  <2>3. \A k \in i + 1..Len(b) : k \in i..Len(b)
    BY <1>2
  <2>4. CASE a[j] = b[i]
    <3>1. Follows(a, b, i, j) => Follows(a, b, i + 1, j + 1)
      <4> SUFFICES ASSUME Follows(a, b, i, j), NEW m \in j + 1..Len(a)
                   PROVE  \E k \in i + 1..Len(b) : b[k] = a[m]
        BY DEF Follows
      <4>1. m \in j..Len(a) /\ m \in 1..Len(a) /\ j < m
        BY <1>1
      <4>2. a[j] < a[m] /\ a[m] \in Nat
        BY <1>1, <2>1, <4>1
      <4>3. b[i] # a[m]
        BY <2>1, <2>4, <4>2
      <4>4. PICK k \in i..Len(b) : b[k] = a[m]
        BY <4>1 DEF Follows
      <4> QED BY <2>2, <4>1, <4>3, <4>4
    <3>2. Follows(a, b, i + 1, j + 1) => Follows(a, b, i, j)
      <4> SUFFICES ASSUME Follows(a, b, i + 1, j + 1), NEW m \in j..Len(a)
                   PROVE  \E k \in i..Len(b) : b[k] = a[m]
        BY DEF Follows
      <4>1. CASE m = j
        <5>1. i \in i..Len(b)
          BY <1>2, <2>1
        <5> QED BY <2>4, <4>1, <5>1
      <4>2. CASE m # j
        <5>1. m \in j + 1..Len(a)
          BY <1>1, <4>2
        <5> QED BY <2>3, <5>1 DEF Follows
      <4> QED BY <4>1, <4>2
    <3> QED BY <2>1, <2>4, <3>1, <3>2
  <2>5. CASE a[j] # b[i]
    <3>1. Follows(a, b, i, j) => Follows(a, b, i + 1, j)
      <4> SUFFICES ASSUME Follows(a, b, i, j), NEW m \in j..Len(a)
                   PROVE  \E k \in i + 1..Len(b) : b[k] = a[m]
        BY DEF Follows
      <4>1. m \in 1..Len(a) /\ (j < m \/ j = m)
        BY <1>1
      <4>2. a[j] <= a[m] /\ a[m] \in Nat
        BY <1>1, <2>1, <4>1
      <4>3. b[i] # a[m]
        BY <2>1, <2>5, <4>2
      <4>4. PICK k \in i..Len(b) : b[k] = a[m]
        BY DEF Follows
      <4> QED BY <2>2, <4>3, <4>4
    <3>2. Follows(a, b, i + 1, j) => Follows(a, b, i, j)
      BY <2>3 DEF Follows
    <3> QED BY <2>1, <2>5, <3>1, <3>2
  <2> QED BY <2>4, <2>5
<1> QED BY <1>1, <1>2, <1>3, <1>4, <1>5

IncludesStep(f, a, b, i) ==
    [j \in 1..Len(a) + 1 |->
        IF j > Len(a) THEN TRUE
        ELSE IF i > Len(b) \/ a[j] < b[i] THEN FALSE
        ELSE f[i + 1][IF a[j] = b[i] THEN j + 1 ELSE j]]

IncludesBody(f, a, b) == [i \in 1..Len(b) + 1 |-> IncludesStep(f, a, b, i)]

FollowsFrom(a, b, i) == [j \in 1..Len(a) + 1 |-> Follows(a, b, i, j)]

LEMMA IncludesStepIs ==
    ASSUME NEW a, Ascends(a), NEW b, Ascends(b), NEW i \in 1..Len(b) + 1, NEW f,
           i <= Len(b) => f[i + 1] = FollowsFrom(a, b, i + 1)
    PROVE  IncludesStep(f, a, b, i) = FollowsFrom(a, b, i)
<1>1. /\ Len(a) \in Nat /\ \A k \in 1..Len(a) : a[k] \in Nat
      /\ Len(b) \in Nat /\ \A k \in 1..Len(b) : b[k] \in Nat
  BY AscendsIs
<1>2. ASSUME NEW j \in 1..Len(a) + 1
      PROVE  Follows(a, b, i, j) = IF j > Len(a) THEN TRUE
                                   ELSE IF i > Len(b) \/ a[j] < b[i] THEN FALSE
                                   ELSE f[i + 1][IF a[j] = b[i] THEN j + 1 ELSE j]
  <2>b. \A p, q : Follows(a, b, p, q) \in BOOLEAN
    BY DEF Follows
  <2>1. CASE j > Len(a)
    BY <2>b, <2>1, FollowsStep
  <2>2. CASE ~ (j > Len(a)) /\ (i > Len(b) \/ a[j] < b[i])
    BY <2>b, <2>2, FollowsStep
  <2>3. CASE ~ (j > Len(a)) /\ ~ (i > Len(b) \/ a[j] < b[i])
    <3>1. PICK n : n = IF a[j] = b[i] THEN j + 1 ELSE j
      OBVIOUS
    <3>2. i <= Len(b) /\ n \in 1..Len(a) + 1
      BY <1>1, <2>3, <3>1
    <3>3. Follows(a, b, i, j) <=> Follows(a, b, i + 1, n)
      BY <2>3, <3>1, FollowsStep
    <3>4. f[i + 1][n] = Follows(a, b, i + 1, n)
      BY <3>2 DEF FollowsFrom
    <3>5. Follows(a, b, i, j) = f[i + 1][n]
      BY <2>b, <3>3, <3>4
    <3> QED BY <2>3, <3>1, <3>5
  <2> QED BY <2>1, <2>2, <2>3
<1> QED BY <1>2 DEF IncludesStep, FollowsFrom

LEMMA IncludesIs ==
    ASSUME NEW a, Ascends(a), NEW b, Ascends(b)
    PROVE  Includes(b, a) <=> \A m \in 1..Len(a) : \E k \in 1..Len(b) : b[k] = a[m]
<1>1. Len(a) \in Nat /\ Len(b) \in Nat
  BY AscendsIs
<1>2. PICK G : G = [i \in 1..Len(b) + 1 |-> FollowsFrom(a, b, i)]
  OBVIOUS
<1>3. \A i \in 1..Len(b) + 1 : IncludesStep(G, a, b, i) = FollowsFrom(a, b, i)
  <2> SUFFICES ASSUME NEW i \in 1..Len(b) + 1
               PROVE  IncludesStep(G, a, b, i) = FollowsFrom(a, b, i)
    OBVIOUS
  <2>1. i <= Len(b) => G[i + 1] = FollowsFrom(a, b, i + 1)
    BY <1>1, <1>2
  <2> QED BY <2>1, IncludesStepIs
<1>4. G = IncludesBody(G, a, b)
  BY <1>2, <1>3 DEF IncludesBody
<1>5. PICK F : F = CHOOSE f : f = IncludesBody(f, a, b)
  OBVIOUS
<1>6. F = IncludesBody(F, a, b)
  BY <1>4, <1>5
<1>7. \A i \in 1..Len(b) + 1 : F[i] = IncludesStep(F, a, b, i)
  BY <1>6 DEF IncludesBody
<1>8. PICK N : N = Len(b)
  OBVIOUS
<1> DEFINE C == {d \in 0..N : F[N + 1 - d] = FollowsFrom(a, b, N + 1 - d)}
<1>9. N \in C
  <2>1. 0 \in C
    <3>1. N + 1 - 0 \in 1..Len(b) + 1 /\ ~ (N + 1 - 0 <= Len(b)) /\ 0 \in 0..N
      BY <1>1, <1>8
    <3>2. F[N + 1 - 0] = FollowsFrom(a, b, N + 1 - 0)
      BY <1>7, <3>1, IncludesStepIs
    <3> QED BY <3>1, <3>2
  <2>2. ASSUME NEW d \in 1..N, d - 1 \in C PROVE d \in C
    <3>1. N + 1 - d \in 1..Len(b) + 1 /\ N + 1 - d + 1 = N + 1 - (d - 1) /\ d \in 0..N
      BY <1>1, <1>8
    <3>2. F[N + 1 - (d - 1)] = FollowsFrom(a, b, N + 1 - (d - 1))
      BY <2>2
    <3>3. F[N + 1 - d] = FollowsFrom(a, b, N + 1 - d)
      BY <1>7, <3>1, <3>2, IncludesStepIs
    <3> QED BY <3>1, <3>3
  <2> HIDE DEF C
  <2>3. 0..N \subseteq C
    BY <1>1, <1>8, <2>1, <2>2, UpTo
  <2> QED BY <1>1, <1>8, <2>3
<1>10. F[1][1] = Follows(a, b, 1, 1)
  <2>1. N + 1 - N = 1 /\ 1 \in 1..Len(a) + 1
    BY <1>1, <1>8
  <2>2. F[1] = FollowsFrom(a, b, 1)
    BY <1>9, <2>1
  <2> QED BY <2>1, <2>2 DEF FollowsFrom
<1>11. Includes(b, a) = F[1][1]
  BY <1>5 DEF Includes, IncludesBody, IncludesStep
<1> QED BY <1>10, <1>11 DEF Follows

(* A list in ascending order is as long as the set of what it lists.        *)
LEMMA AscendingLength ==
    ASSUME NEW l, Ascends(l)
    PROVE  /\ IsFiniteSet({l[k] : k \in 1..Len(l)})
           /\ Cardinality({l[k] : k \in 1..Len(l)}) = Len(l)
<1>1. Len(l) \in Nat /\ DOMAIN l = 1..Len(l) /\ \A j, k \in 1..Len(l) : l[j] = l[k] => j = k
  BY AscendsIs
<1>2. PICK S : S = {l[k] : k \in 1..Len(l)}
  OBVIOUS
<1>3. l \in [1..Len(l) -> S]
  <2>1. l = [k \in 1..Len(l) |-> l[k]]
    BY SeqIs DEF Ascends
  <2>2. \A k \in 1..Len(l) : l[k] \in S
    BY <1>2
  <2> QED BY <2>1, <2>2
<1>4. l \in Bijection(1..Len(l), S)
  <2>1. l \in Injection(1..Len(l), S)
    BY <1>1, <1>3 DEF Injection, IsInjective
  <2>2. l \in Surjection(1..Len(l), S)
    BY <1>2, <1>3 DEF Surjection
  <2> QED BY <2>1, <2>2 DEF Bijection
<1>5. IsFiniteSet(1..Len(l)) /\ Cardinality(1..Len(l)) = Len(l)
  BY <1>1, FS_Interval
<1>6. ExistsBijection(1..Len(l), S)
  BY <1>4 DEF ExistsBijection
<1> QED BY <1>2, <1>5, <1>6, FS_Bijection

LEMMA SubsequenceIs ==
    ASSUME NEW g, NEW h, Ascends(segments[g].members), Ascends(segments[h].members)
    PROVE  Subsequence(g, h) <=> /\ Span(segments[g]) \subseteq Span(segments[h])
                                 /\ Span(segments[g]) # Span(segments[h])
<1>1. PICK a : a = segments[g].members
  OBVIOUS
<1>2. PICK b : b = segments[h].members
  OBVIOUS
<1>3. PICK A : A = {a[k] : k \in 1..Len(a)}
  OBVIOUS
<1>4. PICK B : B = {b[k] : k \in 1..Len(b)}
  OBVIOUS
<1>5. Ascends(a) /\ Ascends(b) /\ A = Span(segments[g]) /\ B = Span(segments[h])
  BY <1>1, <1>2, <1>3, <1>4 DEF Span
<1>6. Includes(b, a) <=> A \subseteq B
  <2>1. Includes(b, a) <=> \A m \in 1..Len(a) : \E k \in 1..Len(b) : b[k] = a[m]
    BY <1>5, IncludesIs
  <2> QED BY <1>3, <1>4, <2>1
<1>7. /\ IsFiniteSet(A) /\ Cardinality(A) = Len(a) /\ Len(a) \in Nat
      /\ IsFiniteSet(B) /\ Cardinality(B) = Len(b) /\ Len(b) \in Nat
  <2>1. /\ IsFiniteSet({a[k] : k \in 1..Len(a)}) /\ Cardinality({a[k] : k \in 1..Len(a)}) = Len(a)
        /\ IsFiniteSet({b[k] : k \in 1..Len(b)}) /\ Cardinality({b[k] : k \in 1..Len(b)}) = Len(b)
    BY <1>5, AscendingLength
  <2>2. Len(a) \in Nat /\ Len(b) \in Nat
    BY <1>5, AscendsIs
  <2> QED BY <1>3, <1>4, <2>1, <2>2
<1>8. A \subseteq B => Cardinality(A) <= Cardinality(B) /\ (Cardinality(A) = Cardinality(B) => A = B)
  BY <1>7, FS_Subset
<1>9. A \subseteq B => (Len(a) < Len(b) <=> A # B)
  BY <1>7, <1>8
<1>10. Subsequence(g, h) <=> Len(a) < Len(b) /\ Includes(b, a)
  BY <1>1, <1>2 DEF Subsequence
<1> QED BY <1>5, <1>6, <1>9, <1>10

-----------------------------------------------------------------------------
(* What save works with: sections and segments of the right kind, places    *)
(* that are words, and lists of segments                                    *)
Shape(s) ==
    /\ TableFields \subseteq DOMAIN s /\ Placeable(s) /\ s.size \in Nat /\ s.room \in Nat

Shaped ==
    /\ sections \in Seq(Elements(sections))
    /\ \A i \in 1..Len(sections) : Shape(sections[i])

SaveSteps == {"order", "segment", "members", "loose", "header", "write"}
Saving == pc \in SaveSteps

CurFields == {"start", "mem", "file", "member"}

Spots ==
    /\ pos \in 0..WORD - 1 /\ table \in 0..WORD - 1
    /\ DOMAIN cur = CurFields /\ cur.start \in 0..WORD - 1 /\ cur.mem \in 0..WORD - 1
    /\ cur.file \in 0..WORD - 1 /\ cur.member \in Nat

Turns ==
    /\ work \in Seq(1..Len(segments)) /\ order \in Seq(1..Len(segments))
    /\ generated \subseteq 1..Len(sections)
    /\ pc \in {"segment", "members"} => turn \in 1..Len(order) + 1
    /\ pc = "members" => turn <= Len(order) /\ cur.member \in 1..Len(Segment.members) + 1
    /\ pc = "loose" => turn \in 1..Len(sections) + 1
    /\ pc # "write" => stored = <<>>
    /\ pc = "write" => stored \in Seq(Nat) /\ Len(stored) <= Len(sections)

Headed1 == elf.header => Len(sections) > 0 /\ sections[1].type = "null"

Typed ==
    /\ pc \in {"edit", "arrange", "crashed"} \cup SaveSteps
    /\ reply \in {"none", "ok", "failed"} /\ (reply # "none" => pc = "edit")
    /\ SegmentList(segments, Len(sections)) /\ Headed1
    /\ regular \in BOOLEAN /\ good \in BOOLEAN
    /\ Spots
    /\ Saving => Turns /\ elf.header
    /\ reply = "ok" => stored \in Seq(Nat) /\ Len(stored) = Len(sections) /\ elf.header

LEMMA ShapedIs ==
    ASSUME Shaped
    PROVE  /\ Len(sections) \in Nat /\ DOMAIN sections = 1..Len(sections)
           /\ \A i \in 1..Len(sections) :
                /\ Shape(sections[i]) /\ sections[i].size \in Nat /\ sections[i].align \in Nat
                /\ sections[i].addr \in 0..WORD - 1 /\ sections[i].offset \in 0..WORD - 1
                /\ PlaceFields \cup BufferFields \subseteq DOMAIN sections[i]
  BY ListDomain DEF Shaped, Shape, Placeable, TableFields

(* An object as it is saved has the alignments of its segments made large   *)
(* enough.                                                                  *)
LEMMA AlignedIs ==
    ASSUME Shaped, NEW g, Segmented(g, Len(sections))
    PROVE  /\ Segmented(Aligned(g), Len(sections))
           /\ Aligned(g).members = g.members /\ Aligned(g).vaddr = g.vaddr /\ Aligned(g).type = g.type
           /\ Aligned(g).offset = g.offset /\ Aligned(g).offsetSet = g.offsetSet
<1>1. PICK a : a = Max({g.align} \cup {sections[g.members[k]].align : k \in 1..Len(g.members)})
  OBVIOUS
<1>2. a \in Nat
  <2>1. Len(g.members) \in Nat /\ \A k \in 1..Len(g.members) : g.members[k] \in 1..Len(sections)
    BY SeqIs DEF Segmented
  <2>2. PICK f : f = [k \in 1..Len(g.members) |-> sections[g.members[k]].align]
    OBVIOUS
  <2>3. \A k \in 1..Len(g.members) : f[k] \in Nat /\ f[k] = sections[g.members[k]].align
    BY <2>1, <2>2, ShapedIs
  <2>4. {g.align} \cup {sections[g.members[k]].align : k \in 1..Len(g.members)}
        = {g.align} \cup {f[k] : k \in 1..Len(g.members)}
    BY <2>3
  <2>5. g.align \in Nat
    BY DEF Segmented
  <2>6. PICK n : n = Len(g.members)
    OBVIOUS
  <2>7. PICK S : S = {g.align} \cup {f[k] : k \in 1..n}
    OBVIOUS
  <2>8. n \in Nat /\ \A k \in 1..n : f[k] \in Nat
    BY <2>1, <2>3, <2>6
  <2>9. Max(S) \in Nat
    BY <2>5, <2>7, <2>8, MaxListed
  <2> QED BY <1>1, <2>4, <2>6, <2>7, <2>9
<1>3. Aligned(g) = [g EXCEPT !.align = a]
  BY <1>1 DEF Aligned, Segmented, SegmentFields
<1>4. PICK h : h = Aligned(g)
  OBVIOUS
<1>5. DOMAIN h = DOMAIN g /\ h.align = a /\ h.members = g.members /\ h.vaddr = g.vaddr /\ h.type = g.type
      /\ h.offset = g.offset /\ h.offsetSet = g.offsetSet /\ h.filesz = g.filesz /\ h.memsz = g.memsz
  BY <1>3, <1>4 DEF Segmented, SegmentFields
<1>6. Segmented(h, Len(sections))
  BY <1>2, <1>5 DEF Segmented
<1> QED BY <1>4, <1>5, <1>6

LEMMA Listed ==
    ASSUME NEW n \in Nat, NEW all, SegmentList(all, n)
    PROVE  /\ Len(all) \in Nat /\ DOMAIN all = 1..Len(all)
           /\ \A k \in 1..Len(all) : Segmented(all[k], n)
           /\ \A k \in 1..Len(all) : all[k].members \in Seq(1..n) /\ Len(all[k].members) \in Nat
                /\ \A m \in 1..Len(all[k].members) : all[k].members[m] \in 1..n
<1>1. Len(all) \in Nat /\ DOMAIN all = 1..Len(all)
  BY ListDomain DEF SegmentList, Elements
<1>2. \A k \in 1..Len(all) : Segmented(all[k], n)
  BY <1>1 DEF SegmentList
<1>3. ASSUME NEW k \in 1..Len(all)
      PROVE  all[k].members \in Seq(1..n) /\ Len(all[k].members) \in Nat
             /\ \A m \in 1..Len(all[k].members) : all[k].members[m] \in 1..n
  <2>1. all[k].members \in Seq(1..n)
    BY <1>2 DEF Segmented
  <2> QED BY <2>1, SeqIs
<1> QED BY <1>1, <1>2, <1>3

LEMMA Wider ==
    ASSUME NEW n \in Nat, NEW m \in Nat, n <= m, NEW g, Segmented(g, n)
    PROVE  Segmented(g, m)
<1>1. \A S, T : S \subseteq T => Seq(S) \subseteq Seq(T)
  OBVIOUS
<1>2. 1..n \subseteq 1..m
  OBVIOUS
<1>3. g.members \in Seq(1..m)
  BY <1>1, <1>2 DEF Segmented
<1> QED BY <1>3 DEF Segmented

LEMMA ListMade ==
    ASSUME NEW n \in Nat, NEW m \in Nat, NEW all, all = [k \in 1..m |-> all[k]],
           \A k \in 1..m : Segmented(all[k], n)
    PROVE  SegmentList(all, n) /\ Len(all) = m
<1>1. all \in Seq(Elements(all))
  BY ListOf
<1>2. DOMAIN all = 1..m
  OBVIOUS
<1>3. Len(all) = m
  BY <1>1, <1>2, ListDomain
<1> QED BY <1>1, <1>2, <1>3 DEF SegmentList, Elements

LEMMA ListKept ==
    ASSUME NEW n \in Nat, NEW m \in Nat, n <= m, NEW all, SegmentList(all, n)
    PROVE  SegmentList(all, m)
  BY Wider, Listed DEF SegmentList

LEMMA ListPut ==
    ASSUME NEW n \in Nat, NEW all, SegmentList(all, n), NEW g, NEW x,
           g \in 1..Len(all) => Segmented(x, n)
    PROVE  SegmentList([all EXCEPT ![g] = x], n) /\ Len([all EXCEPT ![g] = x]) = Len(all)
<1>1. PICK new : new = [all EXCEPT ![g] = x]
  OBVIOUS
<1>2. Len(all) \in Nat /\ DOMAIN all = 1..Len(all) /\ \A k \in 1..Len(all) : Segmented(all[k], n)
  BY Listed
<1>3. new = [k \in 1..Len(all) |-> new[k]] /\ \A k \in 1..Len(all) : Segmented(new[k], n)
  BY <1>1, <1>2
<1> QED BY <1>1, <1>2, <1>3, ListMade

LEMMA ListLonger ==
    ASSUME NEW n \in Nat, NEW all, SegmentList(all, n), NEW x, Segmented(x, n)
    PROVE  SegmentList(Append(all, x), n)
<1>1. PICK new : new = Append(all, x)
  OBVIOUS
<1>2. Len(all) \in Nat /\ DOMAIN all = 1..Len(all) /\ \A k \in 1..Len(all) : Segmented(all[k], n)
  BY Listed
<1>3. PICK S : S = Elements(all) \cup {x}
  OBVIOUS
<1>4. all \in Seq(S) /\ x \in S
  <2>1. all \in Seq(Elements(all))
    BY DEF SegmentList, Elements
  <2> QED BY <1>3, <2>1
<1>5. new \in Seq(S) /\ Len(new) = Len(all) + 1 /\ (\A k \in 1..Len(all) : new[k] = all[k])
      /\ new[Len(all) + 1] = x
  BY <1>1, <1>4
<1>6. new = [k \in 1..Len(all) + 1 |-> new[k]]
  BY <1>2, <1>5, SeqIs
<1>7. \A k \in 1..Len(all) + 1 : Segmented(new[k], n)
  <2> SUFFICES ASSUME NEW k \in 1..Len(all) + 1 PROVE Segmented(new[k], n)
    OBVIOUS
  <2>1. k \in 1..Len(all) \/ k = Len(all) + 1
    BY <1>2
  <2> QED BY <1>2, <1>5, <2>1
<1>8. Len(all) + 1 \in Nat
  BY <1>2
<1> QED BY <1>1, <1>6, <1>7, <1>8, ListMade

LEMMA SegmentIs ==
    ASSUME Shaped, Typed, pc \in {"segment", "members"}, turn <= Len(order)
    PROVE  /\ order[turn] \in 1..Len(segments) /\ Segmented(Segment, Len(sections))
           /\ turn \in 1..Len(order) /\ Len(order) \in Nat
           /\ Len(Segment.members) \in Nat
           /\ \A k \in 1..Len(Segment.members) : Segment.members[k] \in 1..Len(sections)
<1>1. Len(sections) \in Nat /\ SegmentList(segments, Len(sections))
  BY ShapedIs DEF Typed
<1>2. /\ order \in Seq(1..Len(segments)) /\ turn \in 1..Len(order) + 1
  BY DEF Typed, Turns, Saving, SaveSteps
<1>3. /\ Len(order) \in Nat /\ \A k \in 1..Len(order) : order[k] \in 1..Len(segments)
  BY <1>2, SeqIs
<1>4. order[turn] \in 1..Len(segments)
  BY <1>2, <1>3
<1>5. turn \in 1..Len(order)
  BY <1>2, <1>3
<1> QED BY <1>1, <1>3, <1>4, <1>5, Listed DEF Segment

LEMMA LeaveIs ==
    ASSUME Shaped, Typed, NEW i \in 1..Len(sections), Segment.vaddr \in Int
    PROVE  Leave(i) \in Nat /\ sections[i].size + Leave(i) \in Nat
<1>1. /\ pos \in Int /\ cur.start \in Int /\ cur.file \in Int
      /\ sections[i].offset \in Int /\ sections[i].addr \in Int /\ sections[i].align \in Int
      /\ sections[i].size \in Nat
  BY ShapedIs DEF Typed, Spots
<1>2. \A a, b \in Int : Minus(a, b) \in Nat /\ Minus(a, b) \in Int
  BY WordsIn
<1>3. Gap(pos, sections[i].align) \in Nat
  BY <1>1, GapIs
<1>4. Leave(i) \in Nat
  <2>1. CASE i \in generated
    BY <1>1, <1>2, <2>1 DEF Leave
  <2>2. CASE i \notin generated /\ Addressed(i)
    <3>1. Distance(i) \in Int
      BY <1>1, <1>2 DEF Distance
    <3> QED BY <1>1, <1>2, <2>2, <3>1 DEF Leave
  <2>3. CASE i \notin generated /\ ~ Addressed(i)
    BY <1>3, <2>3 DEF Leave
  <2> QED BY <2>1, <2>2, <2>3
<1> QED BY <1>1, <1>4

-----------------------------------------------------------------------------
(* Each step of save leaves what the next one works with.                   *)
LEMMA SaveBeginTyped ==
    ASSUME Shaped, Typed, SaveBegin
    PROVE  Typed'
<1>1. CASE reply' = "failed" /\ UNCHANGED <<pc, layout>>
  BY <1>1 DEF Typed, SaveBegin, Spots, Turns, Saving, layout, plan, place, disk, past, Headed1, SaveSteps
<1>2. CASE ~ (reply' = "failed" /\ UNCHANGED <<pc, layout>>)
  <2>1. /\ pc' = "order" /\ reply' = "none" /\ elf' = elf /\ elf.header /\ sections' = sections
        /\ segments' = [g \in 1..Len(segments) |-> Aligned(segments[g])]
        /\ work' = ToFront([g \in 1..Len(segments) |-> g]) /\ order' = <<>>
        /\ pos' = Plus(EHDR, PHDR * Len(segments)) /\ generated' = {} /\ table' = 0
        /\ good' = TRUE /\ stored' = <<>>
        /\ regular' = (Regular' /\ EHDR + PHDR * Len(segments) < WORD)
        /\ cur' = cur
    BY <1>2 DEF SaveBegin
  <2>2. Len(sections) \in Nat /\ SegmentList(segments, Len(sections))
    BY ShapedIs DEF Typed
  <2>3. Len(segments) \in Nat /\ \A k \in 1..Len(segments) : Segmented(segments[k], Len(sections))
    BY <2>2, Listed
  <2>4. segments' = [k \in 1..Len(segments) |-> segments'[k]]
        /\ \A k \in 1..Len(segments) : Segmented(segments'[k], Len(sections))
    BY <2>1, <2>3, AlignedIs
  <2>5. SegmentList(segments', Len(sections)) /\ Len(segments') = Len(segments)
    BY <2>2, <2>3, <2>4, ListMade
  <2>6. work' \in Seq(1..Len(segments))
    <3>1. PICK n : n = Len(segments)
      OBVIOUS
    <3>2. \E s : Fronted([list |-> work', slot |-> s], n, n)
      BY <2>1, <2>3, <3>1, ToFrontIs
    <3>3. PICK s : Fronted([list |-> work', slot |-> s], n, n)
      BY <3>2
    <3>4. Shuffled(work', n)
      BY <3>3 DEF Fronted
    <3> QED BY <3>1, <3>4 DEF Shuffled
  <2>7. pos' \in 0..WORD - 1 /\ table' \in 0..WORD - 1
    <3>1. EHDR \in Int /\ PHDR * Len(segments) \in Int
      BY <2>3 DEF EHDR, PHDR
    <3> QED BY <2>1, <3>1, WordsIn, WordIs
  <2>8. Spots'
    BY <2>1, <2>7 DEF Typed, Spots
  <2>9. Turns'
    <3>1. order' \in Seq(1..Len(segments'))
      BY <2>1
    <3> QED BY <2>1, <2>5, <2>6, <3>1 DEF Turns
  <2>10. regular' \in BOOLEAN /\ good' \in BOOLEAN
    BY <2>1 DEF Regular
  <2>11. SegmentList(segments, Len(sections))' /\ Headed1'
    BY <2>1, <2>5 DEF Headed1, Typed
  <2> QED BY <2>1, <2>8, <2>9, <2>10, <2>11 DEF Typed, Saving, SaveSteps
<1> QED BY <1>1, <1>2

(* Steps that leave sections and segments as they are                       *)
LEMMA OrderTyped ==
    ASSUME Shaped, Typed, OrderStep \/ Ordered \/ SegmentsPlaced
    PROVE  Typed'
<1>0. work \in Seq(1..Len(segments)) /\ order \in Seq(1..Len(segments)) /\ Saving /\ elf.header
      /\ reply = "none"
  BY DEF Typed, Turns, OrderStep, Ordered, SegmentsPlaced, Turn, Saving, SaveSteps
<1>1. CASE OrderStep
  <2>1. PICK g : g = Head(work)
    OBVIOUS
  <2>2. PICK rest : rest = Tail(work)
    OBVIOUS
  <2>3. g \in 1..Len(segments) /\ rest \in Seq(1..Len(segments))
    BY <1>0, <1>1, <2>1, <2>2 DEF OrderStep
  <2>4. /\ pc' = "order" /\ pc = "order"
        /\ work' = Append(rest, g) \/ work' = rest
        /\ order' = order \/ order' = Append(order, g)
        /\ UNCHANGED <<elf, reply, sections, segments, turn, pos, cur, generated, table, good, stored, regular>>
    BY <1>1, <2>1, <2>2 DEF OrderStep, core, place, disk, past
  <2>5. work' \in Seq(1..Len(segments)) /\ order' \in Seq(1..Len(segments))
    <3>1. Append(rest, g) \in Seq(1..Len(segments)) /\ Append(order, g) \in Seq(1..Len(segments))
      BY <1>0, <2>3
    <3> QED BY <1>0, <2>3, <2>4, <3>1
  <2> QED BY <1>0, <2>4, <2>5 DEF Typed, Turns, Spots, Headed1, Saving, SaveSteps
<1>2. CASE Ordered \/ SegmentsPlaced
  <2>1. /\ pc' = "segment" \/ pc' = "loose"
        /\ turn' = 1 /\ pc # "write" /\ pc' # "write"
        /\ UNCHANGED <<elf, reply, sections, segments, work, order, pos, cur, generated, table, good, stored, regular>>
    BY <1>2 DEF Ordered, SegmentsPlaced, Turn, client, plan, place, disk, past
  <2>2. Len(order) \in Nat /\ Len(sections) \in Nat
    BY <1>0, SeqIs, ShapedIs
  <2> QED BY <1>0, <2>1, <2>2 DEF Typed, Turns, Spots, Headed1, Saving, SaveSteps
<1> QED BY <1>1, <1>2

LEMMA StartTyped ==
    ASSUME Shaped, Typed, pc = "segment", turn <= Len(order),
           NEW p \in 0..WORD - 1, NEW n \in 0..WORD - 1, Start(p, n), pos' \in 0..WORD - 1,
           regular' \in BOOLEAN
    PROVE  Typed'
<1>1. /\ pc' = "members" /\ cur' = [start |-> p, mem |-> n, file |-> n, member |-> 1]
      /\ UNCHANGED <<elf, reply, sections, segments, work, order, turn, generated, table, good, stored>>
  BY DEF Start, client, plan, disk
<1>2. Spots'
  BY <1>1 DEF Typed, Spots, CurFields
<1>3. cur'.member \in 1..Len(Segment.members) + 1 /\ Segment' = Segment
  BY <1>1, SegmentIs DEF Segment
<1>4. Turns'
  BY <1>1, <1>3 DEF Typed, Turns, Saving, SaveSteps
<1> QED BY <1>1, <1>2, <1>4 DEF Typed, Headed1, Saving, SaveSteps

LEMMA ToPageIs ==
    ASSUME Shaped, Typed, pc = "segment", turn <= Len(order)
    PROVE  ToPage \in Nat /\ Pages(Segment) \in Nat \ {0}
           /\ Pages(Segment) = IF Segment.align = 0 THEN 1 ELSE Segment.align
<1>1. Segment.align \in Nat /\ Segment.vaddr \in Int /\ pos \in Int
  BY SegmentIs DEF Typed, Spots, Segmented
<1>2. Pages(Segment) \in Nat \ {0} /\ Pages(Segment) = IF Segment.align = 0 THEN 1 ELSE Segment.align
  <2>1. PICK m : m = Max({Segment.align, 1})
    OBVIOUS
  <2>2. m \in Nat /\ Segment.align <= m /\ 1 <= m /\ m \in {Segment.align, 1}
    BY <1>1, <2>1, MaxOfTwo
  <2>3. m \in Nat \ {0} /\ m = IF Segment.align = 0 THEN 1 ELSE Segment.align
    BY <1>1, <2>2
  <2> QED BY <2>1, <2>3 DEF Pages
<1>3. PICK a : a = Pages(Segment)
  OBVIOUS
<1>4. PICK v : v = Segment.vaddr
  OBVIOUS
<1>5. PICK al : al = Segment.align
  OBVIOUS
<1>6. a \in Nat \ {0} /\ v % a \in Int /\ pos % a \in Int /\ al \in Int
  BY <1>1, <1>2, <1>3, <1>4, <1>5
<1>7. Minus(v % a, pos % a) \in Int
  BY <1>6, WordsIn
<1>8. Plus(al, Minus(v % a, pos % a)) \in Int
  BY <1>6, <1>7, WordsIn
<1>9. Plus(al, Minus(v % a, pos % a)) % a \in Nat
  BY <1>6, <1>8
<1>10. ToPage = Plus(al, Minus(v % a, pos % a)) % a
  BY <1>3, <1>4, <1>5 DEF ToPage
<1> QED BY <1>2, <1>9, <1>10

LEMMA BeginSegmentTyped ==
    ASSUME Shaped, Typed, BeginSegment
    PROVE  Typed'
<1>1. pc = "segment" /\ turn <= Len(order)
  BY DEF BeginSegment
<1>2. pos \in 0..WORD - 1 /\ regular \in BOOLEAN /\ 0 \in 0..WORD - 1 /\ EHDR \in 0..WORD - 1
  BY WordIs DEF Typed, Spots, EHDR
<1>3. Len(segments) \in Nat
  BY Listed, ShapedIs DEF Typed
<1>4. CASE Program /\ Start(EHDR, Plus(0, PHDR * Len(segments))) /\ UNCHANGED <<pos, past>>
  <2>1. 0 \in Int /\ PHDR * Len(segments) \in Int
    BY <1>3 DEF PHDR
  <2>2. Plus(0, PHDR * Len(segments)) \in 0..WORD - 1
    BY <2>1, WordsIn
  <2> QED BY <1>1, <1>2, <1>4, <2>2, StartTyped DEF past
<1>5. CASE Start(0, IF Segment.members = <<>> THEN 0 ELSE pos) /\ UNCHANGED <<pos, past>>
  <2>1. (IF Segment.members = <<>> THEN 0 ELSE pos) \in 0..WORD - 1
    BY <1>2
  <2> QED BY <1>1, <1>2, <1>5, <2>1, StartTyped DEF past
<1>6. CASE pos' = Plus(pos, ToPage) /\ Start(pos', 0) /\ Reach({pos + ToPage})
  <2>1. pos' \in 0..WORD - 1
    BY <1>1, <1>2, <1>6, ToPageIs, WordsIn
  <2>2. regular' \in BOOLEAN
    BY <1>6 DEF Reach
  <2> QED BY <1>1, <1>2, <1>6, <2>1, <2>2, StartTyped
<1>7. CASE Fresh # TRUE /\ UNCHANGED <<pos, past>>
           /\ Start(IF Segment.members = <<>> THEN pos ELSE sections[Segment.members[1]].offset, 0)
  <2>1. (IF Segment.members = <<>> THEN pos ELSE sections[Segment.members[1]].offset) \in 0..WORD - 1
    <3>1. CASE Segment.members = <<>>
      BY <1>2, <3>1
    <3>2. CASE Segment.members # <<>>
      <4>1. Segment.members \in Seq(1..Len(sections))
        BY <1>1, SegmentIs DEF Segmented
      <4>2. Segment.members[1] \in 1..Len(sections)
        BY <3>2, <4>1
      <4> QED BY <3>2, <4>2, ShapedIs
    <3> QED BY <3>1, <3>2
  <2> QED BY <1>1, <1>2, <1>7, <2>1, StartTyped DEF past
<1> QED BY <1>4, <1>5, <1>6, <1>7 DEF BeginSegment

(* A section that gets its place                                            *)
LEMMA PutSection ==
    ASSUME Shaped, NEW i \in 1..Len(sections), NEW x, x.type = sections[i].type,
           sections' = [sections EXCEPT ![i] = x]
    PROVE  /\ Len(sections') = Len(sections) /\ DOMAIN sections' = 1..Len(sections)
           /\ sections'[i] = x /\ \A k \in 1..Len(sections) : k # i => sections'[k] = sections[k]
           /\ \A k \in 1..Len(sections) : sections'[k].type = sections[k].type
<1>1. Len(sections) \in Nat /\ DOMAIN sections = 1..Len(sections)
  BY ShapedIs
<1>2. PICK new : new = [sections EXCEPT ![i] = x]
  OBVIOUS
<1>3. new = [k \in 1..Len(sections) |-> new[k]] /\ new[i] = x
      /\ \A k \in 1..Len(sections) : k # i => new[k] = sections[k]
  BY <1>1, <1>2
<1>4. new \in Seq(Elements(new))
  BY <1>1, <1>3, ListOf
<1>5. DOMAIN new = 1..Len(sections)
  BY <1>3
<1>6. Len(new) = Len(sections)
  BY <1>1, <1>4, <1>5, ListDomain
<1>7. \A k \in 1..Len(sections) : new[k].type = sections[k].type
  BY <1>3
<1> QED BY <1>2, <1>3, <1>5, <1>6, <1>7

LEMMA PlacedIs ==
    ASSUME Shaped, Typed, pc = "members", turn <= Len(order),
           NEW i \in 1..Len(sections), NEW at \in 0..WORD - 1
    PROVE  LET x == Placed(sections[i], at) s == sections[i]
           IN  /\ DOMAIN x = DOMAIN s /\ Placeable(x)
               /\ x.offset = at /\ x.addrSet = TRUE
               /\ s.addrSet => x.addr = s.addr
               /\ ~ s.addrSet => x.addr = Plus(Segment.vaddr, Minus(at, cur.start))
               /\ x.type = s.type /\ x.size = s.size /\ x.alloc = s.alloc /\ x.tls = s.tls
               /\ x.align = s.align
<1>1. Shape(sections[i]) /\ PlaceFields \cup BufferFields \subseteq DOMAIN sections[i]
  BY ShapedIs
<1>2. PICK s : s = sections[i]
  OBVIOUS
<1>3. PICK a : a = IF s.addrSet THEN s.addr ELSE Plus(Segment.vaddr, Minus(at, cur.start))
  OBVIOUS
<1>4. a \in 0..WORD - 1
  <2>1. Segment.vaddr \in Int /\ cur.start \in Int /\ at \in Int
    BY SegmentIs DEF Typed, Spots, Segmented
  <2>2. Plus(Segment.vaddr, Minus(at, cur.start)) \in 0..WORD - 1
    BY <2>1, WordsIn
  <2>3. s.addr \in 0..WORD - 1
    BY <1>2, ShapedIs
  <2> QED BY <1>3, <2>2, <2>3
<1>8. PICK x : x = Placed(s, at)
  OBVIOUS
<1>5. x = [s EXCEPT !.offset = at, !.addrSet = TRUE, !.addr = a]
  BY <1>1, <1>2, <1>3, <1>8 DEF Placed, PlaceFields
<1>6. DOMAIN x = DOMAIN s /\ x.offset = at /\ x.addrSet = TRUE /\ x.addr = a
      /\ x.type = s.type /\ x.size = s.size /\ x.alloc = s.alloc /\ x.tls = s.tls /\ x.align = s.align
  BY <1>1, <1>2, <1>5 DEF PlaceFields
<1>7. Placeable(x)
  BY <1>1, <1>2, <1>4, <1>6 DEF Placeable, Shape
<1> QED BY <1>2, <1>3, <1>6, <1>7, <1>8

(* What each way through write_segment_data changes                         *)
LEMMA MemberIs ==
    ASSUME Shaped, Typed, PlaceMember
    PROVE  /\ pc = "members" /\ turn <= Len(order) /\ cur.member \in 1..Len(Segment.members)
           /\ Segment.members[cur.member] \in 1..Len(sections)
           /\ Leave(Segment.members[cur.member]) \in Nat
           /\ Plus(pos, Leave(Segment.members[cur.member])) \in 0..WORD - 1
<1>1. pc = "members" /\ cur.member <= Len(Segment.members)
  BY DEF PlaceMember
<1>2. Turns
  BY <1>1 DEF Typed, Saving, SaveSteps
<1>3. turn <= Len(order) /\ cur.member \in 1..Len(Segment.members)
  BY <1>1, <1>2, SegmentIs DEF Turns
<1>4. Segment.members[cur.member] \in 1..Len(sections)
  BY <1>1, <1>3, SegmentIs
<1>5. Segment.vaddr \in Int
  BY <1>1, <1>3, SegmentIs DEF Segmented
<1>6. Leave(Segment.members[cur.member]) \in Nat
  BY <1>4, <1>5, LeaveIs
<1>7. Plus(pos, Leave(Segment.members[cur.member])) \in 0..WORD - 1
  <2>1. PICK l : l = Leave(Segment.members[cur.member])
    OBVIOUS
  <2>2. pos \in Int /\ l \in Int
    BY <1>6, <2>1 DEF Typed, Spots
  <2> QED BY <2>1, <2>2, WordsIn
<1> QED BY <1>1, <1>3, <1>4, <1>6, <1>7

LEMMA ExtendedIs ==
    ASSUME Shaped, Typed, NEW i \in 1..Len(sections), Leave(i) \in Nat, NEW x, x = Extended(i)
    PROVE  /\ DOMAIN x = CurFields /\ x.start = cur.start /\ x.member = cur.member + 1
           /\ x.mem = (IF InMemory(sections[i], Segment)
                       THEN Plus(cur.mem, sections[i].size + Leave(i)) ELSE cur.mem)
           /\ x.file = (IF sections[i].type # "nobits"
                        THEN Plus(cur.file, sections[i].size + Leave(i)) ELSE cur.file)
           /\ x.mem \in 0..WORD - 1 /\ x.file \in 0..WORD - 1 /\ x.member \in Nat
<1>1. PICK more : more = sections[i].size + Leave(i)
  OBVIOUS
<1>2. more \in Int /\ cur.mem \in Int /\ cur.file \in Int
  BY <1>1, ShapedIs DEF Typed, Spots
<1>3. Plus(cur.mem, more) \in 0..WORD - 1 /\ Plus(cur.file, more) \in 0..WORD - 1
  BY <1>2, WordsIn
<1>4. /\ DOMAIN cur = CurFields /\ cur.member \in Nat
      /\ cur.mem \in 0..WORD - 1 /\ cur.file \in 0..WORD - 1
  BY DEF Typed, Spots
<1>5. PICK m : m = IF InMemory(sections[i], Segment) THEN Plus(cur.mem, more) ELSE cur.mem
  OBVIOUS
<1>6. PICK f : f = IF sections[i].type # "nobits" THEN Plus(cur.file, more) ELSE cur.file
  OBVIOUS
<1>7. x = [cur EXCEPT !.member = cur.member + 1, !.mem = m, !.file = f]
  BY <1>1, <1>4, <1>5, <1>6 DEF Extended, CurFields
<1>8. m \in 0..WORD - 1 /\ f \in 0..WORD - 1
  BY <1>3, <1>4, <1>5, <1>6
<1>9. DOMAIN x = CurFields /\ x.start = cur.start /\ x.member = cur.member + 1 /\ x.mem = m /\ x.file = f
  BY <1>4, <1>7 DEF CurFields
<1> QED BY <1>1, <1>4, <1>5, <1>6, <1>8, <1>9

LEMMA PlaceMemberTyped ==
    ASSUME Shaped, Typed, PlaceMember
    PROVE  Typed' /\ Len(sections') = Len(sections)
<1>1. PICK i : i = Segment.members[cur.member]
  OBVIOUS
<1>2. PICK at : at = Plus(pos, Leave(i))
  OBVIOUS
<1>3. /\ pc = "members" /\ turn <= Len(order) /\ cur.member \in 1..Len(Segment.members)
      /\ i \in 1..Len(sections) /\ Leave(i) \in Nat /\ at \in 0..WORD - 1
  BY <1>1, <1>2, MemberIs
<1>4. /\ UNCHANGED <<elf, segments, work, order, turn, table, good, stored>>
      /\ Segment' = Segment /\ Len(Segment.members) \in Nat
  BY <1>3, SegmentIs DEF PlaceMember, client, plan, disk, Segment
<1>5. Turns /\ Saving /\ Spots /\ elf.header /\ reply = "none"
  BY <1>3 DEF Typed, Saving, SaveSteps
<1>6. CASE /\ generated' = generated \cup {i} /\ cur' = [cur EXCEPT !.member = @ + 1]
           /\ UNCHANGED <<pc, reply, sections, pos, past>>
  <2>1. Spots' /\ cur'.member \in 1..Len(Segment.members) + 1
    BY <1>3, <1>4, <1>5, <1>6 DEF Spots, CurFields
  <2>2. Turns'
    BY <1>3, <1>4, <1>5, <1>6, <2>1 DEF Turns
  <2> QED BY <1>4, <1>5, <1>6, <2>1, <2>2 DEF Typed, Headed1, Saving, past
<1>7. CASE Return("failed") /\ UNCHANGED <<sections, pos, cur, generated, past>>
  BY <1>4, <1>5, <1>7 DEF Typed, Headed1, Saving, SaveSteps, Spots, past, Return
<1>8. CASE /\ cur' = Extended(i) /\ UNCHANGED <<pc, reply>> /\ regular' \in BOOLEAN
           /\ pos' \in 0..WORD - 1 /\ generated' \subseteq 1..Len(sections)
           /\ Len(sections') = Len(sections) /\ Headed1'
  <2>1. PICK x : x = Extended(i)
    OBVIOUS
  <2>2. /\ DOMAIN x = CurFields /\ x.start = cur.start /\ x.member = cur.member + 1
        /\ x.mem \in 0..WORD - 1 /\ x.file \in 0..WORD - 1 /\ x.member \in Nat
    BY <1>3, <2>1, ExtendedIs
  <2>3. cur' = x /\ x.member \in 1..Len(Segment.members) + 1
    BY <1>3, <1>4, <1>8, <2>1, <2>2
  <2>4. Spots'
    BY <1>4, <1>5, <1>8, <2>2, <2>3 DEF Spots
  <2>5. Turns'
    BY <1>3, <1>4, <1>5, <1>8, <2>3 DEF Turns
  <2> QED BY <1>4, <1>5, <1>8, <2>4, <2>5 DEF Typed, Saving
<1>9. CASE /\ i \in generated /\ cur' = Extended(i)
           /\ Reach({cur.mem + (sections[i].size + Leave(i))})
           /\ UNCHANGED <<pc, reply, sections, pos, generated>>
  <2>1. regular' \in BOOLEAN /\ pos' \in 0..WORD - 1 /\ generated' \subseteq 1..Len(sections) /\ Headed1'
    BY <1>3, <1>4, <1>5, <1>9 DEF Reach, Spots, Turns, Headed1, Typed
  <2> QED BY <1>8, <1>9, <2>1
<1>10. CASE /\ cur' = Extended(i) /\ regular' \in BOOLEAN
            /\ sections' = [sections EXCEPT ![i] = Placed(@, at)]
            /\ pos' = After(sections[i], at)
            /\ generated' = generated \cup {i}
            /\ UNCHANGED <<pc, reply>>
  <2>1. PICK x : x = Placed(sections[i], at) /\ x.type = sections[i].type
    BY <1>3, PlacedIs
  <2>2. x.type = sections[i].type /\ sections' = [sections EXCEPT ![i] = x]
    BY <1>10, <2>1
  <2>3. Len(sections') = Len(sections) /\ \A k \in 1..Len(sections) : sections'[k].type = sections[k].type
    BY <1>3, <2>2, PutSection
  <2>4. Headed1'
    <3>1. elf' = elf /\ Len(sections) \in Nat
      BY <1>4, ShapedIs
    <3> QED BY <2>3, <3>1 DEF Typed, Headed1
  <2>5. pos' \in 0..WORD - 1
    <3>1. at \in Int /\ sections[i].size \in Int
      BY <1>3, ShapedIs
    <3> QED BY <1>3, <1>10, <3>1, WordsIn DEF After
  <2>6. generated' \subseteq 1..Len(sections)
    BY <1>3, <1>5, <1>10 DEF Turns
  <2> QED BY <1>8, <1>10, <2>3, <2>4, <2>5, <2>6
<1>11. \/ /\ generated' = generated \cup {i} /\ cur' = [cur EXCEPT !.member = @ + 1]
          /\ UNCHANGED <<pc, reply, sections, pos, past>>
       \/ Return("failed") /\ UNCHANGED <<sections, pos, cur, generated, past>>
       \/ /\ i \in generated /\ cur' = Extended(i)
          /\ Reach({cur.mem + (sections[i].size + Leave(i))})
          /\ UNCHANGED <<pc, reply, sections, pos, generated>>
       \/ /\ cur' = Extended(i) /\ regular' \in BOOLEAN
          /\ sections' = [sections EXCEPT ![i] = Placed(@, at)]
          /\ pos' = After(sections[i], at)
          /\ generated' = generated \cup {i}
          /\ UNCHANGED <<pc, reply>>
  BY <1>1, <1>2 DEF PlaceMember, Reach
<1>12. Len(sections') = Len(sections)
  <2>1. PICK x : x = Placed(sections[i], at) /\ x.type = sections[i].type
    BY <1>3, PlacedIs
  <2>2. x.type = sections[i].type
    BY <2>1
  <2>3. sections' = sections \/ sections' = [sections EXCEPT ![i] = x]
    BY <1>11, <2>1
  <2> QED BY <1>3, <2>2, <2>3, PutSection
<1> QED BY <1>6, <1>7, <1>9, <1>10, <1>11, <1>12

LEMMA EndSegmentTyped ==
    ASSUME Shaped, Typed, EndSegment
    PROVE  Typed'
<1>1. pc = "members" /\ cur.member > Len(Segment.members)
  BY DEF EndSegment
<1>2. Turns /\ Saving /\ Spots /\ elf.header /\ reply = "none" /\ turn <= Len(order)
  BY <1>1 DEF Typed, Turns, Saving, SaveSteps
<1>3. PICK g : g = segments[order[turn]]
  OBVIOUS
<1>4. Segmented(g, Len(sections)) /\ order[turn] \in 1..Len(segments) /\ turn \in 1..Len(order) /\ Len(order) \in Nat
  BY <1>1, <1>2, <1>3, SegmentIs DEF Segment
<1>5. PICK m : m = Max({g.memsz, cur.mem})
  OBVIOUS
<1>6. m \in 0..WORD - 1
  <2>1. g.memsz \in 0..WORD - 1 /\ cur.mem \in 0..WORD - 1
    BY <1>2, <1>4 DEF Segmented, Spots
  <2>2. m \in {g.memsz, cur.mem}
    BY <1>5, <2>1, MaxOfTwo
  <2> QED BY <2>1, <2>2
<1>7. PICK x : x = [g EXCEPT !.filesz = cur.file, !.memsz = m, !.offset = cur.start, !.offsetSet = TRUE]
  OBVIOUS
<1>8. segments' = [segments EXCEPT ![order[turn]] = x]
  <2>1. x = [Segment EXCEPT !.filesz = cur.file, !.memsz = Max({Segment.memsz, cur.mem}),
              !.offset = cur.start, !.offsetSet = TRUE]
    BY <1>3, <1>5, <1>7 DEF Segment
  <2>2. SegmentFields \subseteq DOMAIN Segment
    BY <1>3, <1>4 DEF Segmented, Segment
  <2>3. x = [Segment EXCEPT !.filesz = cur.file, !.memsz = Max({@, cur.mem}),
              !.offset = cur.start, !.offsetSet = TRUE]
    BY <2>1, <2>2 DEF SegmentFields
  <2> QED BY <2>3 DEF EndSegment
<1>9. Segmented(x, Len(sections))
  <2>1. DOMAIN x = DOMAIN g /\ x.type = g.type /\ x.members = g.members /\ x.align = g.align
        /\ x.vaddr = g.vaddr /\ x.offset = cur.start /\ x.filesz = cur.file /\ x.memsz = m
    BY <1>4, <1>7 DEF Segmented, SegmentFields
  <2> QED BY <1>2, <1>4, <1>6, <2>1 DEF Segmented, Spots
<1>10. SegmentList(segments', Len(sections)) /\ Len(segments') = Len(segments)
  <2>1. PICK n : n = Len(sections)
    OBVIOUS
  <2>2. n \in Nat /\ SegmentList(segments, n) /\ Segmented(x, n)
    BY <1>9, <2>1, ShapedIs DEF Typed
  <2>3. PICK o : o = order[turn]
    OBVIOUS
  <2>4. PICK all : all = segments
    OBVIOUS
  <2>5. SegmentList([all EXCEPT ![o] = x], n) /\ Len([all EXCEPT ![o] = x]) = Len(all)
    BY <2>2, <2>4, ListPut
  <2> QED BY <1>8, <2>1, <2>3, <2>4, <2>5
<1>11. /\ pc' = "segment" /\ turn' = turn + 1
       /\ UNCHANGED <<elf, reply, sections, work, order, pos, cur, generated, table, good, stored, regular>>
  BY DEF EndSegment, client, plan, place, disk, past
<1>12. Turns'
  BY <1>1, <1>2, <1>4, <1>10, <1>11 DEF Turns
<1> QED BY <1>2, <1>10, <1>11, <1>12 DEF Typed, Spots, Headed1, Saving, SaveSteps

LEMMA LooseTyped ==
    ASSUME Shaped, Typed, LooseSection
    PROVE  Typed' /\ Len(sections') = Len(sections)
<1>1. pc = "loose" /\ turn <= Len(sections) /\ Len(sections) \in Nat
  BY ShapedIs DEF LooseSection
<1>2. Turns /\ Saving /\ Spots /\ elf.header /\ reply = "none"
  BY <1>1 DEF Typed, Saving, SaveSteps
<1>3. turn \in 1..Len(sections) /\ turn' = turn + 1
  BY <1>1, <1>2 DEF Turns, LooseSection
<1>4. PICK gap : gap = Gap(pos, sections[turn].align)
  OBVIOUS
<1>5. PICK more : more = gap + IF sections[turn].type \in {"null", "nobits"} THEN 0 ELSE sections[turn].size
  OBVIOUS
<1>6. gap \in Nat /\ more \in Nat /\ pos \in Int
  <2>1. PICK al : al = sections[turn].align
    OBVIOUS
  <2>2. pos \in Int /\ al \in Nat /\ al \in Int /\ sections[turn].size \in Nat
    BY <1>2, <1>3, <2>1, ShapedIs DEF Spots
  <2>3. gap \in Nat
    BY <1>4, <2>1, <2>2, GapIs
  <2> QED BY <1>5, <2>2, <2>3
<1>7. Plus(pos, gap) \in 0..WORD - 1 /\ Plus(pos, more) \in 0..WORD - 1
  BY <1>6, WordsIn
<1>8. UNCHANGED <<pc, elf, reply, segments, work, order, cur, generated, table, good, stored>>
  BY DEF LooseSection, client, plan, disk
<1>9. /\ regular' \in BOOLEAN /\ pos' \in 0..WORD - 1
      /\ sections' = sections \/ sections' = [sections EXCEPT ![turn].offset = Plus(pos, gap)]
  BY <1>2, <1>4, <1>5, <1>7 DEF LooseSection, Typed, Spots, Reach, past
<1>10. Len(sections') = Len(sections) /\ \A k \in 1..Len(sections) : sections'[k].type = sections[k].type
  <2>1. PICK x : x = [sections[turn] EXCEPT !.offset = Plus(pos, gap)]
    OBVIOUS
  <2>2. x.type = sections[turn].type
    BY <2>1
  <2>3. sections' = sections \/ sections' = [sections EXCEPT ![turn] = x]
    BY <1>9, <2>1
  <2> QED BY <1>3, <2>2, <2>3, PutSection
<1>11. Spots' /\ Headed1'
  BY <1>1, <1>2, <1>8, <1>9, <1>10 DEF Spots, Typed, Headed1
<1>12. Turns'
  BY <1>1, <1>2, <1>3, <1>8, <1>10 DEF Turns
<1> QED BY <1>2, <1>8, <1>9, <1>10, <1>11, <1>12 DEF Typed, Saving

LEMMA WriteTyped ==
    ASSUME Shaped, Typed, PlaceTable \/ SaveHeader \/ SaveSection \/ SaveSegments
    PROVE  Typed'
<1>1. Turns /\ Saving /\ Spots /\ elf.header /\ reply = "none" /\ Len(sections) \in Nat
  BY ShapedIs DEF Typed, Saving, SaveSteps, PlaceTable, SaveHeader, SaveSection, SaveSegments
<1>2. CASE PlaceTable
  <2>0. PICK four : four = 4
    OBVIOUS
  <2>4. pos \in Int /\ four \in Int /\ four \in Nat
    BY <1>1, <2>0 DEF Spots
  <2>1. Gap(pos, 4) \in Nat /\ pos \in Int
    BY <2>0, <2>4, GapIs
  <2>2. table' \in 0..WORD - 1 /\ pos' = table' /\ pc' = "header" /\ pc = "loose" /\ regular' \in BOOLEAN
    BY <1>2, <2>1, WordsIn DEF PlaceTable, Reach
  <2>3. UNCHANGED <<elf, reply, sections, segments, work, order, turn, cur, generated, good, stored>>
    BY <1>2 DEF PlaceTable, client, plan, disk
  <2> QED BY <1>1, <2>2, <2>3 DEF Typed, Spots, Turns, Headed1, Saving, SaveSteps
<1>3. CASE SaveHeader
  <2>1. /\ UNCHANGED <<elf, sections, segments, work, order, turn, pos, cur, generated, table, stored, regular>>
        /\ pc = "header"
        /\ \/ pc' = "edit" /\ reply' = "failed" /\ good' = FALSE
           \/ pc' = "write" /\ reply' = reply /\ good' = good
    BY <1>3 DEF SaveHeader, Return, client, plan, place, past
  <2>2. Spots' /\ Headed1'
    BY <1>1, <2>1 DEF Spots, Headed1, Typed
  <2>3. stored = <<>>
    BY <2>1 DEF Typed, Saving, SaveSteps, Turns
  <2>4. stored \in Seq(Nat) /\ Len(stored) <= Len(sections)
    BY <1>1, <2>3
  <2>5. Turns'
    BY <1>1, <2>1, <2>4 DEF Turns
  <2> QED BY <1>1, <2>1, <2>2, <2>5 DEF Typed, Saving, SaveSteps
<1>4. CASE SaveSection
  <2>1. /\ UNCHANGED <<pc, reply, elf, sections, segments, work, order, turn, pos, cur, generated, table, regular>>
        /\ pc = "write" /\ Len(stored) < Len(sections) /\ good' \in BOOLEAN
        /\ \E n \in Bytes(sections[Len(stored) + 1]) \cup {0} : stored' = Append(stored, n)
    BY <1>4 DEF SaveSection, core, plan, place, past, Typed
  <2>2. stored \in Seq(Nat)
    BY <1>1, <2>1 DEF Turns
  <2>3. Len(stored) \in Nat /\ Len(stored) + 1 \in 1..Len(sections)
    BY <1>1, <2>1, <2>2, SeqIs
  <2>4. sections[Len(stored) + 1].size \in Nat
    BY <2>3, ShapedIs
  <2>5. Bytes(sections[Len(stored) + 1]) \cup {0} \subseteq Nat
    BY <2>4 DEF Bytes, Deflated
  <2>6. stored' \in Seq(Nat) /\ Len(stored') = Len(stored) + 1
    BY <2>1, <2>2, <2>5
  <2>7. Spots' /\ Headed1'
    BY <1>1, <2>1 DEF Spots, Headed1, Typed
  <2>8. Turns'
    BY <1>1, <2>1, <2>3, <2>6 DEF Turns
  <2> QED BY <1>1, <2>1, <2>7, <2>8 DEF Typed, Saving, SaveSteps
<1>5. CASE SaveSegments
  BY <1>1, <1>5 DEF SaveSegments, Return, client, plan, place, past, Typed, Spots, Turns, Headed1, Saving, SaveSteps
<1> QED BY <1>2, <1>3, <1>4, <1>5

-----------------------------------------------------------------------------
(* The client's steps: what they do to sections is seen to elsewhere.       *)
LEMMA ClientTyped ==
    ASSUME Typed, Len(sections) \in Nat, Len(sections') \in Nat, Len(sections) <= Len(sections'),
           Len(sections) > 0 => sections'[1].type = sections[1].type,
           SegmentList(segments', Len(sections')),
           pc \in {"edit", "arrange"}, pc' \in {"edit", "arrange", "crashed"},
           reply' = "none" \/ (reply' = reply /\ pc' = pc /\ sections' = sections),
           elf' = elf, UNCHANGED <<plan, turn, place, disk, past>>
    PROVE  Typed'
<1>1. UNCHANGED <<work, order, turn, pos, cur, generated, table, good, stored, regular>>
  BY DEF plan, place, disk, past
<1>2. Spots' /\ Headed1'
  BY <1>1 DEF Typed, Spots, Headed1
<1> QED BY <1>1, <1>2 DEF Typed, Saving, SaveSteps

LEMMA CreateTyped ==
    ASSUME Typed, Shaped, Create, Len(sections') \in Nat,
           sections' \in Mandatory => Len(sections') > 0 /\ sections'[1].type = "null"
    PROVE  Typed'
<1>1. CASE Crash /\ UNCHANGED <<segments, views>>
  <2>1. sections' = sections /\ elf' = elf /\ segments' = segments /\ pc' = "crashed"
    BY <1>1 DEF Crash
  <2>2. pc = "edit" /\ reply' = "none" /\ UNCHANGED <<plan, turn, place, disk, past>>
    BY DEF Create, Edit
  <2>3. Len(sections) \in Nat /\ SegmentList(segments, Len(sections))
    BY ShapedIs DEF Typed
  <2>4. Len(sections) <= Len(sections)
    BY <2>3
  <2> QED BY <2>1, <2>2, <2>3, <2>4, ClientTyped
<1>2. CASE segments' = <<>> /\ sections' \in Mandatory /\ UNCHANGED pc
  <2>1. pc = "edit" /\ pc' = "edit" /\ reply' = "none"
        /\ UNCHANGED <<pos, cur, table, good, regular>>
    BY <1>2 DEF Create, Edit, place, disk, past
  <2>2. Len(sections') > 0 /\ sections'[1].type = "null"
    BY <1>2
  <2>3. SegmentList(segments', Len(sections'))
    <3>1. PICK none : none = <<>>
      OBVIOUS
    <3>2. none \in Seq({none[k] : k \in DOMAIN none}) /\ DOMAIN none = {}
      BY <3>1
    <3> QED BY <1>2, <3>1, <3>2 DEF SegmentList
  <2> QED BY <2>1, <2>2, <2>3 DEF Typed, Spots, Headed1, Saving, SaveSteps
<1> QED BY <1>1, <1>2 DEF Create

LEMMA AddSegmentTyped ==
    ASSUME Typed, Shaped, NEW shape \in SegmentShapes, AddSegment(shape)
    PROVE  Typed'
<1>1. /\ pc = "edit" /\ pc' \in {"edit", "crashed"} /\ elf' = elf /\ sections' = sections
      /\ reply' = "none" /\ UNCHANGED <<plan, turn, place, disk, past>>
      /\ segments' = segments \/ segments' = Append(segments, shape)
  BY DEF AddSegment, Edit, Crash
<1>2. PICK n : n = Len(sections)
  OBVIOUS
<1>3. n \in Nat /\ SegmentList(segments, n)
  BY <1>2, ShapedIs DEF Typed
<1>4. Segmented(shape, n)
  BY <1>3, Wider, LayoutAssumption
<1>5. SegmentList(segments', n)
  BY <1>1, <1>3, <1>4, ListLonger
<1>6. n <= n
  BY <1>3
<1> QED BY <1>1, <1>2, <1>3, <1>5, <1>6, ClientTyped

LEMMA AddToSegmentTyped ==
    ASSUME Typed, Shaped, NEW g \in 1..Len(segments), NEW i \in 2..Len(sections), AddToSegment(g, i)
    PROVE  Typed'
<1>1. /\ pc = "edit" /\ pc' = pc /\ elf' = elf /\ sections' = sections
      /\ reply' = "none" /\ UNCHANGED <<plan, turn, place, disk, past>>
      /\ segments' = [segments EXCEPT ![g].members = Append(@, i),
                                      ![g].align = Max({@, sections[i].align})]
  BY DEF AddToSegment, Edit
<1>2. PICK n : n = Len(sections)
  OBVIOUS
<1>3. n \in Nat /\ SegmentList(segments, n)
  BY <1>2, ShapedIs DEF Typed
<1>4. PICK s : s = segments[g]
  OBVIOUS
<1>5. Segmented(s, n) /\ g \in DOMAIN segments /\ SegmentFields \subseteq DOMAIN s
  BY <1>3, <1>4, Listed DEF Segmented
<1>6. PICK a : a = Max({s.align, sections[i].align})
  OBVIOUS
<1>7. a \in Nat
  <2>1. s.align \in Nat /\ i \in 1..Len(sections)
    BY <1>2, <1>3, <1>5 DEF Segmented
  <2>2. sections[i].align \in Nat
    BY <2>1, ShapedIs
  <2>3. PICK b : b = sections[i].align
    OBVIOUS
  <2>4. PICK c : c = s.align
    OBVIOUS
  <2> QED BY <1>6, <2>1, <2>2, <2>3, <2>4, MaxOfTwo
<1>8. PICK l : l = Append(s.members, i)
  OBVIOUS
<1>9. l \in Seq(1..n)
  <2>1. s.members \in Seq(1..n) /\ i \in 1..n
    BY <1>2, <1>3, <1>5 DEF Segmented
  <2> QED BY <1>8, <2>1
<1>10. PICK x : x = [s EXCEPT !.members = l, !.align = a]
  OBVIOUS
<1>11. segments' = [segments EXCEPT ![g] = x]
  <2>1. x = [segments[g] EXCEPT !.members = Append(segments[g].members, i),
                                !.align = Max({segments[g].align, sections[i].align})]
    BY <1>4, <1>6, <1>8, <1>10
  <2> QED BY <1>1, <1>4, <1>5, <2>1 DEF SegmentFields
<1>12. Segmented(x, n)
  <2>1. DOMAIN x = DOMAIN s /\ x.type = s.type /\ x.members = l /\ x.align = a /\ x.vaddr = s.vaddr
        /\ x.offset = s.offset /\ x.filesz = s.filesz /\ x.memsz = s.memsz
    BY <1>5, <1>10 DEF SegmentFields
  <2> QED BY <1>5, <1>7, <1>9, <2>1 DEF Segmented
<1>13. SegmentList(segments', n)
  BY <1>3, <1>11, <1>12, ListPut
<1>14. n <= n
  BY <1>3
<1> QED BY <1>1, <1>2, <1>3, <1>13, <1>14, ClientTyped

-----------------------------------------------------------------------------
(* The order of the segments                                                *)
Queue == IF pc = "order" THEN order \o work ELSE order

Placing == pc \in {"order", "segment", "members"}

Queued ==
    /\ \A n \in 1..Len(segments) : \E k \in 1..Len(Queue) : Queue[k] = n
    /\ \A j, k \in 1..Len(Queue) : j < k => Queue[j] # Queue[k]

InOrder ==
    \A j \in 1..Len(order), k \in 1..Len(Queue) : j < k => ~ Subsequence(Queue[j], Queue[k])

OrdInv == Placing => Queued /\ InOrder /\ (pc # "order" => work = <<>>)

LEMMA JoinIs ==
    ASSUME NEW S, NEW a \in Seq(S), NEW b \in Seq(S)
    PROVE  /\ a \o b \in Seq(S) /\ Len(a \o b) = Len(a) + Len(b)
           /\ Len(a) \in Nat /\ Len(b) \in Nat
           /\ \A k \in 1..Len(a) : (a \o b)[k] = a[k]
           /\ \A k \in 1..Len(b) : (a \o b)[Len(a) + k] = b[k]
<1>1. Len(a) \in Nat /\ Len(b) \in Nat
  BY SeqIs
<1> QED BY <1>1

(* A step that keeps segments' members keeps which one is part of which.    *)
LEMMA OrdKept ==
    ASSUME OrdInv, Typed, Placing, Placing', pc # "order", order' = order, work' = work, pc' # "order",
           Len(segments') = Len(segments),
           \A k \in 1..Len(segments) : segments'[k].members = segments[k].members
    PROVE  OrdInv'
<1>1. order \in Seq(1..Len(segments))
  BY DEF Typed, Turns, Saving, SaveSteps, Placing
<1>2. Queue = order /\ Queue' = order
  BY DEF Queue
<1>3. \A k \in 1..Len(order) : order[k] \in 1..Len(segments)
  BY <1>1, SeqIs
<1>4. Queued'
  BY <1>2 DEF OrdInv, Queued
<1>5. InOrder'
  <2> SUFFICES ASSUME NEW j \in 1..Len(order), NEW k \in 1..Len(order), j < k
               PROVE  ~ Subsequence(order[j], order[k])'
    BY <1>2 DEF InOrder
  <2>1. ~ Subsequence(order[j], order[k])
    BY <1>2 DEF OrdInv, InOrder
  <2>2. order[j] \in 1..Len(segments) /\ order[k] \in 1..Len(segments)
    BY <1>3
  <2> QED BY <2>1, <2>2 DEF Subsequence
<1> QED BY <1>4, <1>5 DEF OrdInv

Waits(q, L, W) == \E i \in 1..W - 1 : Subsequence(q[L + 1], q[(L + 1) + i])
Rotated(q, r, L, W) ==
    /\ \A k \in 1..L : r[k] = q[k]
    /\ \A k \in L + 1..L + W - 1 : r[k] = q[k + 1]
    /\ r[L + W] = q[L + 1]

LEMMA OrderStepIs ==
    ASSUME OrdInv, Typed, Shaped, OrderStep
    PROVE  LET L == Len(order) W == Len(work) q == Queue r == Queue'
           IN  /\ L \in Nat /\ W \in Nat /\ W > 0 /\ Len(q) = L + W /\ Len(r) = L + W
               /\ \A k \in 1..L + W : q[k] \in 1..Len(segments)
               /\ Waits(q, L, W) => Len(order') = L /\ Rotated(q, r, L, W)
               /\ ~ Waits(q, L, W) => Len(order') = L + 1 /\ \A k \in 1..L + W : r[k] = q[k]
<1>4. PICK L : L = Len(order)
  OBVIOUS
<1>5. PICK W : W = Len(work)
  OBVIOUS
<1>8. PICK q : q = Queue
  OBVIOUS
<1>9. PICK r : r = Queue'
  OBVIOUS
<1>1. work \in Seq(1..Len(segments)) /\ order \in Seq(1..Len(segments)) /\ pc = "order" /\ work # <<>>
  BY DEF Typed, Turns, Saving, SaveSteps, OrderStep
<1>2. PICK g : g = Head(work)
  OBVIOUS
<1>3. PICK rest : rest = Tail(work)
  OBVIOUS
<1>6. /\ L \in Nat /\ W \in Nat /\ W > 0 /\ g \in 1..Len(segments) /\ g = work[1]
      /\ rest \in Seq(1..Len(segments)) /\ Len(rest) = W - 1
      /\ \A k \in 1..W - 1 : rest[k] = work[k + 1]
  <2>1. L \in Nat /\ W \in Nat
    BY <1>1, <1>4, <1>5, SeqIs
  <2>2. W > 0 /\ g = work[1] /\ Len(rest) = W - 1 /\ rest \in Seq(1..Len(segments))
    BY <1>1, <1>2, <1>3, <1>5
  <2>3. g \in 1..Len(segments)
    BY <1>1, <1>2
  <2>4. \A k \in 1..W - 1 : rest[k] = work[k + 1]
    BY <1>1, <1>3, <1>5
  <2> QED BY <2>1, <2>2, <2>3, <2>4
<1>7. /\ pc' = "order" /\ segments' = segments
      /\ (\E i \in 1..Len(rest) : Subsequence(g, rest[i])) => work' = Append(rest, g) /\ order' = order
      /\ ~ (\E i \in 1..Len(rest) : Subsequence(g, rest[i])) => work' = rest /\ order' = Append(order, g)
  BY <1>1, <1>2, <1>3 DEF OrderStep, core
<1>10. /\ Len(q) = L + W
       /\ \A k \in 1..L : q[k] = order[k]
       /\ \A k \in 1..W : q[L + k] = work[k]
  <2>1. q = order \o work
    BY <1>1, <1>8 DEF Queue
  <2> QED BY <1>1, <1>4, <1>5, <2>1, JoinIs
<1>11. q[L + 1] = g /\ \A i \in 1..W - 1 : q[(L + 1) + i] = rest[i]
  <2>1. ASSUME NEW i \in 1..W - 1 PROVE q[(L + 1) + i] = rest[i]
    <3>1. i + 1 \in 1..W /\ L + (i + 1) = (L + 1) + i
      BY <1>6
    <3>2. q[L + (i + 1)] = work[i + 1] /\ rest[i] = work[i + 1]
      BY <1>6, <1>10, <3>1
    <3> QED BY <3>1, <3>2
  <2>2. q[L + 1] = work[1]
    BY <1>6, <1>10
  <2> QED BY <1>6, <2>1, <2>2
<1>14. \A k \in 1..L + W : q[k] \in 1..Len(segments)
  <2>1. q \in Seq(1..Len(segments))
    BY <1>1, <1>8, JoinIs DEF Queue
  <2> QED BY <1>10, <2>1, SeqIs
<1>12. CASE \E i \in 1..Len(rest) : Subsequence(g, rest[i])
  <2>1. r = order \o Append(rest, g) /\ order' = order
    BY <1>7, <1>9, <1>12 DEF Queue
  <2>2. PICK b : b = Append(rest, g)
    OBVIOUS
  <2>3. b \in Seq(1..Len(segments)) /\ Len(b) = W /\ b[W] = g /\ \A k \in 1..W - 1 : b[k] = work[k + 1]
    BY <1>6, <2>2
  <2>4. Len(r) = L + W /\ (\A k \in 1..L : r[k] = order[k]) /\ (\A k \in 1..W : r[L + k] = b[k])
    <3>1. PICK S : S = 1..Len(segments)
      OBVIOUS
    <3>2. order \in Seq(S) /\ b \in Seq(S) /\ r = order \o b
      BY <1>1, <2>1, <2>2, <2>3, <3>1
    <3>3. /\ Len(r) = Len(order) + Len(b) /\ \A k \in 1..Len(order) : r[k] = order[k]
          /\ \A k \in 1..Len(b) : r[Len(order) + k] = b[k]
      BY <3>2, JoinIs
    <3> QED BY <1>4, <2>3, <3>3
  <2>5. /\ \A k \in 1..L : r[k] = q[k]
        /\ \A k \in L + 1..L + W - 1 : r[k] = q[k + 1]
        /\ r[L + W] = q[L + 1]
    <3>1. ASSUME NEW k \in L + 1..L + W - 1 PROVE r[k] = q[k + 1]
      <4>1. k - L \in 1..W - 1 /\ k - L \in 1..W /\ L + (k - L) = k /\ k + 1 = L + ((k - L) + 1)
            /\ (k - L) + 1 \in 1..W
        BY <1>6
      <4>2. r[L + (k - L)] = b[k - L] /\ b[k - L] = work[(k - L) + 1]
        BY <2>3, <2>4, <4>1
      <4>3. q[L + ((k - L) + 1)] = work[(k - L) + 1]
        BY <1>10, <4>1
      <4> QED BY <4>1, <4>2, <4>3
    <3>2. r[L + W] = q[L + 1]
      BY <1>6, <1>10, <2>3, <2>4
    <3> QED BY <1>10, <2>4, <3>1, <3>2
  <2>6. \E i \in 1..W - 1 : Subsequence(q[L + 1], q[(L + 1) + i])
    BY <1>6, <1>11, <1>12
  <2>7. Len(order') = L
    BY <1>4, <2>1
  <2> QED BY <1>6, <1>10, <1>14, <1>4, <1>5, <1>8, <1>9, <2>4, <2>5, <2>6, <2>7 DEF Waits, Rotated
<1>13. CASE ~ \E i \in 1..Len(rest) : Subsequence(g, rest[i])
  <2>1. PICK a : a = Append(order, g)
    OBVIOUS
  <2>2. r = a \o rest /\ order' = a
    BY <1>7, <1>9, <1>13, <2>1 DEF Queue
  <2>3. a \in Seq(1..Len(segments)) /\ Len(a) = L + 1 /\ a[L + 1] = g /\ \A k \in 1..L : a[k] = order[k]
    BY <1>1, <1>4, <1>6, <2>1
  <2>4. Len(r) = (L + 1) + (W - 1) /\ (\A k \in 1..L + 1 : r[k] = a[k])
        /\ (\A k \in 1..W - 1 : r[(L + 1) + k] = rest[k])
    <3>1. /\ Len(r) = Len(a) + Len(rest) /\ \A k \in 1..Len(a) : r[k] = a[k]
          /\ \A k \in 1..Len(rest) : r[Len(a) + k] = rest[k]
      <4>1. PICK S : S = 1..Len(segments)
        OBVIOUS
      <4>2. a \in Seq(S) /\ rest \in Seq(S)
        BY <1>6, <2>3, <4>1
      <4> QED BY <2>2, <4>2, JoinIs
    <3> QED BY <1>6, <2>3, <3>1
  <2>5. Len(r) = L + W
    BY <1>6, <2>4
  <2>6. \A k \in 1..L + W : r[k] = q[k]
    <3> SUFFICES ASSUME NEW k \in 1..L + W PROVE r[k] = q[k]
      OBVIOUS
    <3>1. CASE k <= L
      BY <1>6, <1>10, <2>3, <2>4, <3>1
    <3>2. CASE k = L + 1
      <4>1. q[L + 1] = work[1]
        BY <1>6, <1>10
      <4> QED BY <1>6, <2>3, <2>4, <3>2, <4>1
    <3>3. CASE k > L + 1
      <4>1. k - (L + 1) \in 1..W - 1 /\ (L + 1) + (k - (L + 1)) = k
            /\ L + ((k - (L + 1)) + 1) = k /\ (k - (L + 1)) + 1 \in 1..W
        BY <1>6, <3>3
      <4>2. r[k] = rest[k - (L + 1)] /\ rest[k - (L + 1)] = work[(k - (L + 1)) + 1]
        BY <1>6, <2>4, <4>1
      <4>3. q[L + ((k - (L + 1)) + 1)] = work[(k - (L + 1)) + 1]
        BY <1>10, <4>1
      <4> QED BY <4>1, <4>2, <4>3
    <3> QED BY <1>6, <3>1, <3>2, <3>3
  <2>7. \A i \in 1..W - 1 : ~ Subsequence(q[L + 1], q[(L + 1) + i])
    BY <1>6, <1>11, <1>13
  <2>8. Len(order') = L + 1
    BY <2>2, <2>3
  <2> QED BY <1>6, <1>10, <1>14, <1>4, <1>5, <1>8, <1>9, <2>5, <2>6, <2>7, <2>8 DEF Waits
<1> QED BY <1>12, <1>13

LEMMA OrderStepKeeps ==
    ASSUME OrdInv, Typed, Shaped, OrderStep
    PROVE  OrdInv'
<1>4. PICK L : L = Len(order)
  OBVIOUS
<1>5. PICK W : W = Len(work)
  OBVIOUS
<1>8. PICK q : q = Queue
  OBVIOUS
<1>9. PICK r : r = Queue'
  OBVIOUS
<1>10. /\ L \in Nat /\ W \in Nat /\ W > 0 /\ Len(q) = L + W /\ Len(r) = L + W
  BY <1>4, <1>5, <1>8, <1>9, OrderStepIs, Zenon
<1>14. /\ Waits(q, L, W) => Len(order') = L /\ Rotated(q, r, L, W)
       /\ ~ Waits(q, L, W) => Len(order') = L + 1 /\ \A k \in 1..L + W : r[k] = q[k]
  BY <1>4, <1>5, <1>8, <1>9, OrderStepIs, Zenon
<1>6. /\ L \in Nat /\ W \in Nat /\ W > 0 /\ Len(q) = L + W /\ Len(r) = L + W
  BY <1>10
<1>7. pc = "order" /\ pc' = "order" /\ segments' = segments
  BY DEF OrderStep, core
<1>11. /\ \A n \in 1..Len(segments) : \E k \in 1..L + W : q[k] = n
       /\ \A j, k \in 1..L + W : j < k => q[j] # q[k]
       /\ \A j \in 1..L, k \in 1..L + W : j < k => ~ Subsequence(q[j], q[k])
  BY <1>4, <1>6, <1>7, <1>8 DEF OrdInv, Placing, Queued, InOrder
<1>12. CASE /\ Len(order') = L
            /\ \A k \in 1..L : r[k] = q[k]
            /\ \A k \in L + 1..L + W - 1 : r[k] = q[k + 1]
            /\ r[L + W] = q[L + 1]
  <2>6. \A n \in 1..Len(segments) : \E k \in 1..L + W : r[k] = n
    <3> SUFFICES ASSUME NEW n \in 1..Len(segments) PROVE \E k \in 1..L + W : r[k] = n
      OBVIOUS
    <3>0. \E k \in 1..L + W : q[k] = n
      BY <1>11, Zenon
    <3>1. PICK k \in 1..L + W : q[k] = n
      BY <3>0, Zenon
    <3>2. CASE k <= L
      <4>1. k \in 1..L
        BY <1>6, <3>2
      <4> QED BY <1>12, <3>1, <4>1, Zenon
    <3>3. CASE k = L + 1
      BY <1>6, <1>12, <3>1, <3>3
    <3>4. CASE k > L + 1
      <4>1. k - 1 \in L + 1..L + W - 1 /\ (k - 1) + 1 = k /\ k - 1 \in 1..L + W
        BY <1>6, <3>4
      <4> QED BY <1>12, <3>1, <4>1
    <3> QED BY <1>6, <3>2, <3>3, <3>4
  <2>7. ASSUME NEW j \in 1..L + W, NEW k \in 1..L + W, j < k
        PROVE  /\ r[j] # r[k]
               /\ j <= L => ~ Subsequence(r[j], r[k])
    <3>1. CASE k <= L
      BY <1>6, <1>11, <1>12, <2>7, <3>1
    <3>2. CASE k > L /\ k < L + W
      <4>0. k \in L + 1..L + W - 1 /\ k + 1 \in 1..L + W /\ j < k + 1
        BY <1>6, <2>7, <3>2
      <4>1. r[k] = q[k + 1] /\ k + 1 \in 1..L + W /\ j < k + 1
        BY <1>12, <4>0
      <4>2. CASE j <= L
        BY <1>6, <1>11, <1>12, <4>1, <4>2
      <4>3. CASE j > L
        <5>0. j \in L + 1..L + W - 1 /\ j + 1 \in 1..L + W /\ j + 1 < k + 1
          BY <1>6, <2>7, <3>2, <4>3
        <5>1. r[j] = q[j + 1]
          BY <1>12, <5>0
        <5>2. q[j + 1] # q[k + 1]
          BY <1>6, <1>11, <4>1, <5>0
        <5>3. ~ (j <= L)
          BY <1>6, <4>3
        <5> QED BY <4>1, <5>1, <5>2, <5>3
      <4> QED BY <1>6, <4>2, <4>3
    <3>3. CASE k = L + W
      <4>1. r[k] = q[L + 1] /\ L + 1 \in 1..L + W
        BY <1>6, <1>12, <3>3
      <4>2. CASE j <= L
        BY <1>6, <1>11, <1>12, <4>1, <4>2
      <4>3. CASE j > L
        <5>0. j \in L + 1..L + W - 1 /\ j + 1 \in 1..L + W /\ L + 1 < j + 1
          BY <1>6, <2>7, <3>3, <4>3
        <5>1. r[j] = q[j + 1]
          BY <1>12, <5>0
        <5>2. q[L + 1] # q[j + 1]
          BY <1>6, <1>11, <4>1, <5>0
        <5>3. ~ (j <= L)
          BY <1>6, <4>3
        <5> QED BY <4>1, <5>1, <5>2, <5>3
      <4> QED BY <1>6, <4>2, <4>3
    <3> QED BY <1>6, <3>1, <3>2, <3>3
  <2>8. Queued'
    BY <1>6, <1>7, <1>9, <2>6, <2>7 DEF Queued
  <2>9. InOrder'
    <3> SUFFICES ASSUME NEW j \in 1..L, NEW k \in 1..L + W, j < k
                 PROVE  ~ Subsequence(r[j], r[k])'
      BY <1>6, <1>9, <1>12 DEF InOrder
    <3>1. ~ Subsequence(r[j], r[k])
      BY <1>6, <2>7
    <3> QED BY <1>7, <3>1 DEF Subsequence
  <2> QED BY <1>7, <2>8, <2>9 DEF OrdInv
<1>13. CASE /\ Len(order') = L + 1
            /\ \A i \in 1..W - 1 : ~ Subsequence(q[L + 1], q[(L + 1) + i])
            /\ \A k \in 1..L + W : r[k] = q[k]
  <2>7. Queued'
    BY <1>6, <1>7, <1>9, <1>11, <1>13 DEF Queued
  <2>8. InOrder'
    <3> SUFFICES ASSUME NEW j \in 1..L + 1, NEW k \in 1..L + W, j < k
                 PROVE  ~ Subsequence(q[j], q[k])
      <4>1. \A j, k : Subsequence(j, k)' = Subsequence(j, k)
        BY <1>7 DEF Subsequence
      <4>2. L + 1 <= L + W /\ 1..L + 1 \subseteq 1..L + W
        BY <1>6
      <4> QED BY <1>6, <1>9, <1>13, <4>1, <4>2 DEF InOrder
    <3>1. CASE j <= L
      BY <1>6, <1>11, <3>1
    <3>2. CASE j = L + 1
      <4>1. k - (L + 1) \in 1..W - 1 /\ (L + 1) + (k - (L + 1)) = k
        BY <1>6, <3>2
      <4> QED BY <1>13, <3>2, <4>1
    <3> QED BY <1>6, <3>1, <3>2
  <2> QED BY <1>7, <2>7, <2>8 DEF OrdInv
<1> QED BY <1>12, <1>13, <1>14 DEF Waits, Rotated

LEMMA SaveBeginOrders ==
    ASSUME OrdInv, Typed, Shaped, SaveBegin
    PROVE  OrdInv'
<1>1. CASE pc' = pc
  BY <1>1 DEF SaveBegin, OrdInv, Placing
<1>2. CASE pc' # pc
  <2>1. /\ pc' = "order" /\ sections' = sections
        /\ segments' = [g \in 1..Len(segments) |-> Aligned(segments[g])]
        /\ work' = ToFront([g \in 1..Len(segments) |-> g]) /\ order' = <<>>
    BY <1>2 DEF SaveBegin
  <2>2. PICK n : n = Len(segments)
    OBVIOUS
  <2>3. n \in Nat
    BY <2>2, Listed, ShapedIs DEF Typed
  <2>4. PICK l : l = work'
    OBVIOUS
  <2>5. Shuffled(l, n)
    <3>1. PICK s : Fronted([list |-> l, slot |-> s], n, n)
      BY <2>1, <2>2, <2>3, <2>4, ToFrontIs
    <3> QED BY <3>1 DEF Fronted
  <2>6. Len(segments') = n
    BY <2>1, <2>2, <2>3
  <2>7. Queue' = l /\ Len(order') = 0
    <3>1. <<>> \o l = l
      BY <2>5 DEF Shuffled
    <3> QED BY <2>1, <2>4, <3>1 DEF Queue
  <2>8. Queued'
    BY <2>5, <2>6, <2>7 DEF Queued, Shuffled
  <2>9. InOrder'
    <3>1. 1..Len(order)' = {}
      BY <2>7
    <3> QED BY <3>1 DEF InOrder
  <2> QED BY <2>1, <2>8, <2>9 DEF OrdInv
<1> QED BY <1>1, <1>2

LEMMA OrderedKeeps ==
    ASSUME OrdInv, Typed, Ordered
    PROVE  OrdInv'
<1>1. work = <<>> /\ pc = "order" /\ pc' = "segment" /\ UNCHANGED <<work, order, segments>>
  BY DEF Ordered, Turn, plan
<1>2. order \in Seq(1..Len(segments))
  BY <1>1 DEF Typed, Turns, Saving, SaveSteps
<1>3. order \o <<>> = order
  BY <1>2
<1>4. Queue' = Queue
  BY <1>1, <1>3 DEF Queue
<1>5. \A j, k : Subsequence(j, k)' = Subsequence(j, k)
  BY <1>1 DEF Subsequence
<1>6. Queued' /\ InOrder'
  BY <1>1, <1>4, <1>5 DEF OrdInv, Placing, Queued, InOrder
<1> QED BY <1>1, <1>6 DEF OrdInv

(* The segment at hand gets its place and its sizes; the others stay.       *)
LEMMA EndIs ==
    ASSUME Shaped, Typed, EndSegment
    PROVE  /\ pc = "members" /\ turn \in 1..Len(order) /\ order[turn] \in 1..Len(segments)
           /\ Len(segments') = Len(segments) /\ Len(segments) \in Nat
           /\ \A k \in 1..Len(segments) : k # order[turn] => segments'[k] = segments[k]
           /\ \A k \in 1..Len(segments) :
                /\ segments'[k].members = segments[k].members /\ segments'[k].type = segments[k].type
                /\ segments'[k].align = segments[k].align /\ segments'[k].vaddr = segments[k].vaddr
           /\ LET g == segments'[order[turn]]
              IN  /\ g.offset = cur.start /\ g.offsetSet = TRUE /\ g.filesz = cur.file
                  /\ g.memsz = Max({Segment.memsz, cur.mem}) /\ g.memsz >= cur.mem
<1>1. pc = "members" /\ cur.member > Len(Segment.members)
  BY DEF EndSegment
<1>2. turn <= Len(order) /\ Spots
  BY <1>1 DEF Typed, Turns, Saving, SaveSteps
<1>3. PICK g : g = Segment
  OBVIOUS
<1>4. PICK o : o = order[turn]
  OBVIOUS
<1>5. /\ Segmented(g, Len(sections)) /\ o \in 1..Len(segments) /\ turn \in 1..Len(order)
      /\ g = segments[o]
  BY <1>1, <1>2, <1>3, <1>4, SegmentIs DEF Segment
<1>6. PICK m : m = Max({g.memsz, cur.mem})
  OBVIOUS
<1>7. m >= cur.mem
  <2>1. g.memsz \in Nat /\ cur.mem \in Nat
    BY <1>2, <1>5 DEF Segmented, Spots
  <2> QED BY <1>6, <2>1, MaxOfTwo
<1>8. PICK x : x = [g EXCEPT !.filesz = cur.file, !.memsz = m, !.offset = cur.start, !.offsetSet = TRUE]
  OBVIOUS
<1>9. segments' = [segments EXCEPT ![o] = x]
  <2>1. x = [Segment EXCEPT !.filesz = cur.file, !.memsz = Max({Segment.memsz, cur.mem}),
              !.offset = cur.start, !.offsetSet = TRUE]
    BY <1>3, <1>6, <1>8
  <2>2. SegmentFields \subseteq DOMAIN Segment
    BY <1>3, <1>5 DEF Segmented
  <2>3. x = [Segment EXCEPT !.filesz = cur.file, !.memsz = Max({@, cur.mem}),
              !.offset = cur.start, !.offsetSet = TRUE]
    BY <2>1, <2>2 DEF SegmentFields
  <2> QED BY <1>4, <2>3 DEF EndSegment
<1>10. /\ x.type = g.type /\ x.members = g.members /\ x.align = g.align
       /\ x.vaddr = g.vaddr /\ x.offset = cur.start /\ x.offsetSet = TRUE /\ x.filesz = cur.file
       /\ x.memsz = m
  BY <1>5, <1>8 DEF Segmented, SegmentFields
<1>11. Len(segments) \in Nat /\ DOMAIN segments = 1..Len(segments) /\ segments \in Seq(Elements(segments))
  BY Listed, ShapedIs DEF Typed, SegmentList, Elements
<1>12. Len(segments') = Len(segments)
  BY <1>9, <1>11
<1>13. segments'[o] = x /\ \A k \in 1..Len(segments) : k # o => segments'[k] = segments[k]
  BY <1>5, <1>9, <1>11
<1>14. \A k \in 1..Len(segments) :
          /\ segments'[k].members = segments[k].members /\ segments'[k].type = segments[k].type
          /\ segments'[k].align = segments[k].align /\ segments'[k].vaddr = segments[k].vaddr
  BY <1>5, <1>10, <1>13
<1> QED BY <1>1, <1>3, <1>4, <1>5, <1>6, <1>7, <1>10, <1>11, <1>12, <1>13, <1>14

LEMMA SaveStepTyped ==
    ASSUME Shaped, Typed, SaveStep
    PROVE  Typed'
  BY OrderTyped, BeginSegmentTyped, PlaceMemberTyped, EndSegmentTyped, LooseTyped, WriteTyped
     DEF SaveStep

LEMMA SaveStepOrders ==
    ASSUME Shaped, Typed, OrdInv, SaveStep
    PROVE  OrdInv'
<1>1. CASE OrderStep
  BY <1>1, OrderStepKeeps
<1>2. CASE Ordered
  BY <1>2, OrderedKeeps
<1>3. CASE BeginSegment
  <2>1. /\ pc = "segment" /\ pc' = "members" /\ UNCHANGED <<segments, work, order>>
    BY <1>3 DEF BeginSegment, Start, plan
  <2> QED BY <2>1, OrdKept DEF Placing
<1>4. CASE PlaceMember
  <2>1. /\ pc = "members" /\ UNCHANGED <<segments, work, order>> /\ pc' \in {"members", "edit"}
    BY <1>4 DEF PlaceMember, plan, Return
  <2> QED BY <2>1, OrdKept DEF Placing, OrdInv
<1>5. CASE EndSegment
  <2>1. pc = "members" /\ pc' = "segment" /\ UNCHANGED <<work, order>>
    BY <1>5 DEF EndSegment, plan
  <2> QED BY <1>5, <2>1, EndIs, OrdKept DEF Placing
<1>6. CASE SegmentsPlaced \/ LooseSection \/ PlaceTable \/ SaveHeader \/ SaveSection \/ SaveSegments
  <2>1. pc' \in {"loose", "header", "write", "edit"}
    BY <1>6 DEF SegmentsPlaced, Turn, LooseSection, PlaceTable, SaveHeader, SaveSection, SaveSegments,
                Return, core
  <2> QED BY <2>1 DEF OrdInv, Placing
<1> QED BY <1>1, <1>2, <1>3, <1>4, <1>5, <1>6 DEF SaveStep

(* Lists of members as segments have them                                   *)
LEMMA RisingIs ==
    ASSUME NEW n \in Nat, NEW g, Segmented(g, n), Rising(g)
    PROVE  Ascends(g.members)
<1>1. g.members \in Seq(1..n)
  BY DEF Segmented
<1>2. g.members \in Seq(Nat)
  <2>1. \A S, T : S \subseteq T => Seq(S) \subseteq Seq(T)
    OBVIOUS
  <2>2. 1..n \subseteq Nat
    OBVIOUS
  <2> QED BY <1>1, <2>1, <2>2
<1> QED BY <1>2 DEF Rising, Ascends

LEMMA OrdersSegments ==
    ASSUME Shaped, Typed, OrdInv
    PROVE  SegmentsOrdered
<1> SUFFICES ASSUME pc = "segment", NEW i \in 1..Len(order), NEW k \in 1..Len(order), i < k,
                    Rising(segments[order[i]]), Rising(segments[order[k]])
             PROVE  ~ (Span(segments[order[i]]) \subseteq Span(segments[order[k]])
                       /\ Span(segments[order[i]]) # Span(segments[order[k]]))
  BY DEF SegmentsOrdered
<1>1. ~ Subsequence(order[i], order[k])
  BY DEF OrdInv, Placing, InOrder, Queue
<1>2. order[i] \in 1..Len(segments) /\ order[k] \in 1..Len(segments)
  BY SeqIs DEF Typed, Turns, Saving, SaveSteps
<1>3. PICK n : n = Len(sections)
  OBVIOUS
<1>4. n \in Nat /\ Segmented(segments[order[i]], n) /\ Segmented(segments[order[k]], n)
  BY <1>2, <1>3, ShapedIs, Listed DEF Typed
<1>5. Ascends(segments[order[i]].members) /\ Ascends(segments[order[k]].members)
  BY <1>4, RisingIs
<1> QED BY <1>1, <1>5, SubsequenceIs

-----------------------------------------------------------------------------
(* What is true while a regular object is laid out.  Laid are the segments  *)
(* that have their place, Settled the sections that do.                     *)
FileSize(s) == IF s.type = "nobits" THEN 0 ELSE s.size

Laid ==
    IF pc = "order" THEN {}
    ELSE IF pc \in {"segment", "members"} THEN {order[k] : k \in 1..turn - 1}
    ELSE 1..Len(segments)
Settled ==
    IF Placing THEN generated
    ELSE IF pc = "loose" THEN generated \cup 2..turn - 1
    ELSE 2..Len(sections)

Headers == EHDR + PHDR * Len(segments)

(* What stays of Regular: rows of sections                                  *)
Listing(g) ==
    /\ Rising(g) /\ WORD % Pages(g) = 0
    /\ \A k \in 1..Len(g.members) : LET s == sections[g.members[k]] IN
        /\ g.members[k] > 1 /\ s.type # "null" /\ (s.type = "nobits" => s.alloc)
        /\ \A j \in 1..k - 1 : s.alloc => sections[g.members[j]].alloc

Lines ==
    /\ \A i \in 1..Len(sections) : sections[i].type = "null" => sections[i].size = 0
    /\ \A n \in 1..Len(segments) : Listing(segments[n])

(* A section without an address gets one with its place.                    *)
Waiting(g) == \A k \in 1..Len(g.members) : LET s == sections[g.members[k]] IN
    /\ g.members[k] \in generated \/ ~ s.addrSet
    /\ s.type = "nobits" => k = Len(g.members)

Rows == \A n \in 1..Len(segments) : Waiting(segments[n]) \/ Rowed(segments[n])

(* Segments that share sections: one is part of the other.                  *)
Nests(g, h) == AtSectionStart(g) /\ Straight(g.members[1], h) /\ Pages(h) % Pages(g) = 0

Akin(g, h) ==
    /\ Rowed(g) /\ Rowed(h)
    /\ Span(g) \subseteq Span(h) \/ Span(h) \subseteq Span(g)
    /\ Span(g) \subseteq Span(h) => Nests(g, h)

Families == \A n, o \in 1..Len(segments) :
    n # o /\ Span(segments[n]) \cap Span(segments[o]) # {} => Akin(segments[n], segments[o])

(* The one segment with sections that is loaded from offset 0               *)
Heading(n) ==
    LET g == segments[n]
    IN  /\ g.vaddr % Pages(g) = 0 /\ Rowed(g) /\ RoomForHeaders(g)
        /\ \A o \in 1..Len(segments) : o # n => ~ (Span(g) \subseteq Span(segments[o]))
Heads == \A n \in 1..Len(segments) : n \notin Laid /\ Headed(segments[n]) => Heading(n)

HeadFirst == \A j, k \in 1..Len(Queue) :
    j < k /\ Queue[k] \notin Laid /\ Headed(segments[Queue[k]]) => segments[Queue[j]].members = <<>>

Ahead == {n \in 1..Len(segments) :
            n \notin Laid /\ Headed(segments[n]) /\ ~ (pc = "members" /\ n = order[turn])}
NothingYet == Ahead # {} => generated = {} /\ pos = Headers

(* Sections have their places in the file behind the headers, one after     *)
(* another.                                                                 *)
Clear(i, j) ==
    \/ sections[i].offset + sections[i].size <= sections[j].offset
    \/ sections[j].offset + sections[j].size <= sections[i].offset
Stretch(i) ==
    Headers <= sections[i].offset /\ sections[i].offset + FileSize(sections[i]) <= pos
Settles ==
    /\ Headers <= pos /\ Settled \subseteq 2..Len(sections)
    /\ \A i \in Settled : Stretch(i)
    /\ \A i, j \in Settled : i # j /\ InFile(sections[i]) /\ InFile(sections[j]) => Clear(i, j)

(* The sections S of g, laid out from start, file bytes there and mem in    *)
(* memory                                                                   *)
Distant(i, g, start) == sections[i].offset - start = sections[i].addr - g.vaddr
Covered(S, g, i, start, file, mem) ==
    LET x == sections[i]
    IN  /\ start <= x.offset
        /\ x.type # "nobits" => x.offset + x.size <= start + file
        /\ InFile(x) => Distant(i, g, start)
        /\ InMemory(x, g) /\ x.size > 0 => x.addr >= g.vaddr /\ x.addr + x.size <= g.vaddr + mem
        /\ \A j \in S : i < j /\ InMemory(x, g) /\ sections[j].alloc => x.addr + x.size <= sections[j].addr
Covers(S, g, start, file, mem) == \A i \in S : Covered(S, g, i, start, file, mem)

(* A segment that is part of no other when it is laid out                   *)
Spread(S, g, start) ==
    /\ \A i \in S : Straight(i, g) => Distant(i, g, start)
    /\ \A i, j \in S : i < j => sections[i].offset + FileSize(sections[i]) <= sections[j].offset
Root(g) == Spread(Span(g), g, g.offset)

(* Nothing else is under a segment's bytes but at its own address.          *)
Foreign(g, i, start, file) == LET x == sections[i] IN InFile(x) /\ file > 0 =>
    x.offset + x.size <= start \/ start + file <= x.offset \/ x.addr - x.offset = g.vaddr - start

LaidOut(g) ==
    /\ Span(g) \subseteq Settled
    /\ g.offset + g.filesz <= pos
    /\ Covers(Span(g), g, g.offset, g.filesz, g.memsz)
    /\ (g.offset - g.vaddr) % Pages(g) = 0
    /\ \A i \in Settled : Foreign(g, i, g.offset, g.filesz)

AllLaid == \A n \in Laid :
    IF segments[n].members = <<>> THEN segments[n].type # "phdr" => segments[n].filesz = 0
    ELSE LaidOut(segments[n])

(* The segment at hand: the sections it has already, and the next one       *)
Done == {Segment.members[j] : j \in 1..cur.member - 1}
More == cur.member <= Len(Segment.members)
Upcoming == Segment.members[cur.member]

InMem ==
    LET g == Segment
    IN  (\A i \in Done : sections[i].alloc) =>
            cur.file <= cur.mem /\ (More /\ Rowed(g) => End(g, cur.member - 1) <= g.vaddr + cur.mem)

Ready ==
    LET g == Segment
        i == Upcoming
    IN  More =>
            /\ cur.start + cur.file = pos
            /\ Rowed(g) =>
                /\ pos - cur.start <= sections[i].addr - g.vaddr
                /\ Straight(i, g) => InFile(sections[i]) \/ pos - cur.start = sections[i].addr - g.vaddr

CurFresh ==
    LET g == Segment
    IN  /\ \A j \in cur.member..Len(g.members) : g.members[j] \notin generated
        /\ Done \subseteq generated
        /\ cur.start + cur.file <= pos
        /\ \A i \in generated \ Done : sections[i].offset + FileSize(sections[i]) <= cur.start
        /\ Covers(Done, g, cur.start, cur.file, cur.mem)
        /\ Spread(Done, g, cur.start)
        /\ Ready /\ InMem
        /\ (cur.start - g.vaddr) % Pages(g) = 0

Inside(n, g) ==
    LET f == segments[n]
    IN  Root(f) /\ Span(g) \subseteq Span(f) /\ (cur.file > 0 => cur.start + cur.file <= f.offset + f.filesz)
CurNested ==
    LET g == Segment
    IN  /\ Span(g) \subseteq generated /\ Rowed(g) /\ AtSectionStart(g)
        /\ cur.start = sections[g.members[1]].offset
        /\ cur.start + cur.file <= pos
        /\ \E n \in Laid : Inside(n, g)
        /\ \A j \in cur.member..Len(g.members) : cur.start + cur.file <= sections[g.members[j]].offset
        /\ Covers(Done, g, cur.start, cur.file, cur.mem)
        /\ InMem

CurInv == pc = "members" =>
    IF Segment.members = <<>> THEN Segment.type # "phdr" => cur.file = 0
    ELSE CurFresh \/ CurNested

Owned == \A i \in generated :
    \/ \E n \in Laid : i \in Span(segments[n]) /\ Root(segments[n])
    \/ pc = "members" /\ Segment.members # <<>> /\ CurFresh /\ i \in Done

Written == pc \in {"header", "write"} \/ (pc = "edit" /\ reply = "ok")
Writing == Placing \/ pc = "loose" \/ Written

LayInv == regular =>
    /\ Writing => Lines /\ Settles /\ AllLaid
    /\ Written => table = pos
    /\ Placing => Rows /\ Families /\ Heads /\ HeadFirst /\ NothingYet /\ Owned
    /\ CurInv

StoredInv == pc = "write" \/ (pc = "edit" /\ reply = "ok") => \A i \in 1..Len(stored) :
    LET s == sections[i]
    IN  /\ stored[i] <= s.size
        /\ ~ InFile(s) => stored[i] = 0
        /\ good /\ InFile(s) /\ ~ Lost(s) /\ ~ s.deflate => stored[i] = s.size

-----------------------------------------------------------------------------
LEMMA SpanIs ==
    ASSUME NEW n \in Nat, NEW g, Segmented(g, n)
    PROVE  /\ Len(g.members) \in Nat /\ DOMAIN g.members = 1..Len(g.members)
           /\ \A k \in 1..Len(g.members) : g.members[k] \in 1..n /\ g.members[k] \in Span(g)
           /\ Span(g) \subseteq 1..n
           /\ \A i \in Span(g) : \E k \in 1..Len(g.members) : g.members[k] = i
           /\ g.members # <<>> => 1 \in 1..Len(g.members) /\ g.members[1] \in Span(g)
           /\ g.members = <<>> => Span(g) = {}
<1>1. g.members \in Seq(1..n)
  BY DEF Segmented
<1>2. /\ Len(g.members) \in Nat /\ DOMAIN g.members = 1..Len(g.members)
      /\ \A k \in 1..Len(g.members) : g.members[k] \in 1..n
  BY <1>1, SeqIs
<1>3. g.members # <<>> => 1 \in 1..Len(g.members)
  BY <1>1
<1>4. g.members = <<>> => Len(g.members) = 0
  OBVIOUS
<1> QED BY <1>2, <1>3, <1>4 DEF Span

(* A regular object, before anything has its place                          *)
LEMMA RegularParts ==
    ASSUME NEW n \in Nat, n = Len(sections), SegmentList(segments, n), Regular
    PROVE  /\ Lines
           /\ \A o \in 1..Len(segments) : Unplaced(segments[o]) \/ Rowed(segments[o])
           /\ Families
           /\ \A o \in 1..Len(segments) : Headed(segments[o]) => Heading(o)
           /\ \A o, q \in 1..Len(segments) : o # q => ~ (Headed(segments[o]) /\ Headed(segments[q]))
           /\ ZerosKnown
<1>1. \A o \in 1..Len(segments) : InRow(segments[o]) /\ WORD % Pages(segments[o]) = 0
                                  /\ Segmented(segments[o], n)
  BY Listed DEF Regular
<1>2. Lines
  BY <1>1 DEF Regular, Lines, Listing, InRow
<1>3. \A o \in 1..Len(segments) : Unplaced(segments[o]) \/ Rowed(segments[o])
  BY <1>1 DEF InRow
<1>4. \A o \in 1..Len(segments) : \A i \in Span(segments[o]) :
          sections[i].addrSet => Rowed(segments[o])
  BY <1>1, <1>3, SpanIs DEF Unplaced
<1>5. ASSUME NEW o \in 1..Len(segments), NEW q \in 1..Len(segments), o # q,
             Span(segments[o]) \cap Span(segments[q]) # {}
      PROVE  Akin(segments[o], segments[q])
  <2>1. PICK g : g = segments[o]
    OBVIOUS
  <2>2. PICK h : h = segments[q]
    OBVIOUS
  <2>3. Apart(g, h)
    BY <1>5, <2>1, <2>2 DEF Regular
  <2>4. g.members # <<>> /\ h.members # <<>>
    BY <1>1, <1>5, <2>1, <2>2, SpanIs
  <2>5. g.members[1] \in Span(g) /\ h.members[1] \in Span(h)
    BY <1>1, <2>1, <2>2, <2>4, SpanIs
  <2>6. PartOf(g, h) \/ PartOf(h, g)
    BY <1>5, <2>1, <2>2, <2>3 DEF Apart
  <2>7. Rowed(g) /\ Rowed(h)
    BY <1>4, <2>1, <2>2, <2>5, <2>6 DEF PartOf, AtSectionStart
  <2>8. Span(g) \subseteq Span(h) \/ Span(h) \subseteq Span(g)
    BY <2>6 DEF PartOf
  <2>9. Span(g) \subseteq Span(h) => PartOf(g, h)
    BY <1>5, <2>1, <2>2, <2>3 DEF Apart, PartOf
  <2> QED BY <2>1, <2>2, <2>7, <2>8, <2>9 DEF Akin, PartOf, Nests
<1>6. Families
  BY <1>5 DEF Families
<1>7. ASSUME NEW o \in 1..Len(segments), Headed(segments[o])
      PROVE  Heading(o)
  <2>1. PICK g : g = segments[o]
    OBVIOUS
  <2>2. g.members[1] \in Span(g) /\ AtZero(g)
    BY <1>1, <1>7, <2>1, SpanIs DEF Headed
  <2>3. g.vaddr % Pages(g) = 0 /\ RoomForHeaders(g)
    BY <1>7, <2>1 DEF Regular
  <2>4. Rowed(g)
    BY <1>4, <2>1, <2>2, <2>3 DEF RoomForHeaders
  <2>5. ASSUME NEW q \in 1..Len(segments), q # o, Span(g) \subseteq Span(segments[q])
        PROVE  FALSE
    <3>1. PICK h : h = segments[q]
      OBVIOUS
    <3>2. Apart(g, h)
      BY <2>1, <2>5, <3>1 DEF Regular
    <3>3. Span(g) \cap Span(h) # {}
      BY <2>2, <2>5, <3>1
    <3>4. PartOf(g, h)
      BY <2>5, <3>1, <3>2, <3>3 DEF Apart, PartOf
    <3> QED BY <2>2, <3>4 DEF PartOf
  <2> QED BY <2>1, <2>3, <2>4, <2>5 DEF Heading
<1>8. \A o, q \in 1..Len(segments) : o # q => ~ (Headed(segments[o]) /\ Headed(segments[q]))
  BY DEF Regular
<1>9. ZerosKnown
  BY DEF Regular, ZerosKnown
<1> QED BY <1>2, <1>3, <1>6, <1>7, <1>8, <1>9

Regulars == Shaped /\ SegmentList(segments, Len(sections)) /\ Regular
RegularLists ==
    /\ Lines /\ Families /\ ZerosKnown
    /\ \A o \in 1..Len(segments) : Unplaced(segments[o]) \/ Rowed(segments[o])
    /\ \A o \in 1..Len(segments) : Headed(segments[o]) => Heading(o)
    /\ \A o, q \in 1..Len(segments) : o # q => ~ (Headed(segments[o]) /\ Headed(segments[q]))

LEMMA RegularsHave == Regulars => RegularLists
  BY RegularParts, ShapedIs DEF Regulars, RegularLists

LEMMA RegularsHaveNext == Regulars' => RegularLists'
  BY RegularsHave, PTL

LEMMA SaveBeginLays ==
    ASSUME Shaped, Typed, SaveBegin, pc' = "order", regular'
    PROVE  LayInv'
<1>1. /\ sections' = sections
      /\ segments' = [g \in 1..Len(segments) |-> Aligned(segments[g])]
      /\ work' = ToFront([g \in 1..Len(segments) |-> g]) /\ order' = <<>>
      /\ pos' = Plus(EHDR, PHDR * Len(segments)) /\ generated' = {}
      /\ Regular' /\ EHDR + PHDR * Len(segments) < WORD
  BY DEF SaveBegin, Typed, Saving, SaveSteps
<1>2. PICK n : n = Len(segments)
  OBVIOUS
<1>3. /\ n \in Nat /\ SegmentList(segments, Len(sections))
      /\ \A k \in 1..n : Segmented(segments[k], Len(sections))
  BY <1>2, Listed, ShapedIs DEF Typed
<1>4. Len(segments') = n
  BY <1>1, <1>2, <1>3
<1>5. Typed' /\ Shaped'
  BY <1>1, SaveBeginTyped DEF Shaped
<1>6. RegularLists'
  BY <1>1, <1>5, RegularsHaveNext DEF Regulars, Typed
<1>7. \A k \in 1..n : AtZero(segments'[k]) = AtZero(segments[k])
                      /\ segments'[k].offsetSet = segments[k].offsetSet
  BY <1>1, <1>2, <1>3, AlignedIs DEF AtZero
<1>8. ZerosKnown
  BY <1>2, <1>4, <1>6, <1>7 DEF ZerosKnown, RegularLists
<1>9. PICK l : l = work'
  OBVIOUS
<1>10. PICK s : Fronted([list |-> l, slot |-> s], n, n)
  BY <1>1, <1>2, <1>3, <1>9, ToFrontIs
<1>11. /\ Shuffled(l, n) /\ s \in 1..n + 1
       /\ \A j \in s + 1..n : ~ AtZero(segments[l[j]])
       /\ \A j \in 1..s - 1 : j <= n => AtZero(segments[l[j]])
  BY <1>8, <1>10 DEF Fronted
<1>12. Queue' = l
  <2>1. <<>> \o l = l
    BY <1>11 DEF Shuffled
  <2> QED BY <1>1, <1>9, <2>1 DEF Queue
<1>13. HeadFirst'
  <2> SUFFICES ASSUME NEW j \in 1..n, NEW k \in 1..n, j < k, Headed(segments'[l[k]]),
                      segments'[l[j]].members # <<>>
               PROVE  FALSE
    <3>1. Len(l) = n
      BY <1>11 DEF Shuffled
    <3> QED BY <1>12, <3>1 DEF HeadFirst, Headed, AtZero
  <2>1. l[k] \in 1..n /\ l[j] \in 1..n /\ l[j] # l[k]
    BY <1>3, <1>11, ShuffledIs DEF Shuffled
  <2>2. AtZero(segments[l[k]])
    BY <1>7, <2>1 DEF Headed
  <2>3. j <= s - 1
    BY <1>3, <1>11, <2>2
  <2>4. AtZero(segments[l[j]])
    BY <1>3, <1>11, <2>3
  <2>5. Headed(segments'[l[j]])
    BY <1>7, <2>1, <2>4 DEF Headed
  <2> QED BY <1>4, <1>6, <2>1, <2>5 DEF RegularLists, Headed, AtZero
<1>14. Headers' = EHDR + PHDR * n /\ Headers' <= pos' /\ pos' = Headers'
  <2>1. EHDR + PHDR * n \in Nat /\ EHDR + PHDR * n < WORD
    BY <1>1, <1>2, <1>3 DEF EHDR, PHDR
  <2>2. EHDR \in Nat /\ PHDR * n \in Nat
    BY <1>3 DEF EHDR, PHDR
  <2>3. PICK a : a = PHDR * n
    OBVIOUS
  <2>4. PICK e : e = EHDR
    OBVIOUS
  <2>6. e \in Nat /\ a \in Nat /\ e + a < WORD
    BY <2>1, <2>2, <2>3, <2>4
  <2>5. Plus(e, a) = e + a
    BY <2>6, PlusIs
  <2> QED BY <1>1, <1>2, <1>4, <2>1, <2>3, <2>4, <2>5 DEF Headers
<1>15. Settled' = {} /\ Laid' = {} /\ generated' = {} /\ Placing' /\ ~ Written'
  BY <1>1 DEF Settled, Laid, Placing, Written
<1>16. Settles'
  BY <1>14, <1>15 DEF Settles
<1>17. AllLaid' /\ NothingYet' /\ Owned'
  BY <1>14, <1>15 DEF AllLaid, NothingYet, Owned
<1>18. CurInv'
  BY DEF CurInv
<1>19. Rows'
  BY <1>6 DEF RegularLists, Rows, Unplaced, Waiting
<1>20. Heads'
  BY <1>6 DEF RegularLists, Heads
<1>21. Lines' /\ Families'
  BY <1>6 DEF RegularLists
<1> QED BY <1>13, <1>15, <1>16, <1>17, <1>18, <1>19, <1>20, <1>21 DEF LayInv

(* Steps that leave sections and segments as they are                       *)
LEMMA SameSections ==
    ASSUME sections' = sections
    PROVE  /\ \A g, k : End(g, k)' = End(g, k)
           /\ \A g : Rowed(g)' <=> Rowed(g)
           /\ \A g : Listing(g)' <=> Listing(g)
           /\ \A g, h : Nests(g, h)' <=> Nests(g, h)
           /\ \A i, g : Straight(i, g)' <=> Straight(i, g)
           /\ \A g : AtSectionStart(g)' <=> AtSectionStart(g)
           /\ \A S, g, i, start, file, mem :
                Covered(S, g, i, start, file, mem)' <=> Covered(S, g, i, start, file, mem)
           /\ \A S, g, start : Spread(S, g, start)' <=> Spread(S, g, start)
           /\ \A g, i, start, file : Foreign(g, i, start, file)' <=> Foreign(g, i, start, file)
           /\ \A i, j : Clear(i, j)' <=> Clear(i, j)
<1>1. \A g, k : End(g, k)' = End(g, k)
  BY DEF End
<1>2. \A g : Rowed(g)' <=> Rowed(g)
  BY <1>1, Zenon DEF Rowed
<1>3. \A g : Listing(g)' <=> Listing(g)
  BY Zenon DEF Listing
<1>4. \A i, g : Straight(i, g)' <=> Straight(i, g)
  BY Zenon DEF Straight
<1>5. \A g : AtSectionStart(g)' <=> AtSectionStart(g)
  BY Zenon DEF AtSectionStart
<1>6. \A g, h : Nests(g, h)' <=> Nests(g, h)
  BY <1>4, <1>5, Zenon DEF Nests
<1>7. \A S, g, i, start, file, mem :
          Covered(S, g, i, start, file, mem)' <=> Covered(S, g, i, start, file, mem)
  <2>1. \A i, g, start : Distant(i, g, start)' <=> Distant(i, g, start)
    BY Zenon DEF Distant
  <2> QED BY <2>1 DEF Covered
<1>8. \A S, g, start : Spread(S, g, start)' <=> Spread(S, g, start)
  BY <1>4, Zenon DEF Spread, Distant
<1>9. \A g, i, start, file : Foreign(g, i, start, file)' <=> Foreign(g, i, start, file)
  BY Zenon DEF Foreign
<1>10. \A i, j : Clear(i, j)' <=> Clear(i, j)
  BY Zenon DEF Clear
<1> QED BY <1>1, <1>2, <1>3, <1>4, <1>5, <1>6, <1>7, <1>8, <1>9, <1>10, Zenon

LEMMA SameObject ==
    ASSUME sections' = sections, segments' = segments
    PROVE  /\ Lines' <=> Lines
           /\ Families' <=> Families
           /\ \A n : Heading(n)' <=> Heading(n)
           /\ Headers' = Headers
           /\ \A g : Root(g)' <=> Root(g)
<1>1. Lines' <=> Lines
  BY SameSections, Zenon DEF Lines
<1>2. \A g, h : Akin(g, h)' <=> Akin(g, h)
  BY SameSections, Zenon DEF Akin
<1>3. Families' <=> Families
  BY <1>2, Zenon DEF Families
<1>4. \A g : RoomForHeaders(g)' <=> RoomForHeaders(g)
  BY Zenon DEF RoomForHeaders
<1>5. \A n : Heading(n)' <=> Heading(n)
  BY <1>4, SameSections, Zenon DEF Heading
<1>6. \A g : Root(g)' <=> Root(g)
  BY SameSections, Zenon DEF Root
<1>7. Headers' = Headers
  BY DEF Headers
<1> QED BY <1>1, <1>3, <1>5, <1>6, <1>7

(* While the segments are put in order, none has its place.                 *)
LEMMA SpanOf ==
    ASSUME Shaped, Typed, NEW n \in 1..Len(segments)
    PROVE  /\ Segmented(segments[n], Len(sections)) /\ Len(sections) \in Nat
           /\ Len(segments[n].members) \in Nat
           /\ \A k \in 1..Len(segments[n].members) :
                segments[n].members[k] \in 1..Len(sections) /\ segments[n].members[k] \in Span(segments[n])
           /\ Span(segments[n]) \subseteq 1..Len(sections)
           /\ \A i \in Span(segments[n]) : \E k \in 1..Len(segments[n].members) : segments[n].members[k] = i
           /\ segments[n].members # <<>> => 1 \in 1..Len(segments[n].members)
                                           /\ segments[n].members[1] \in Span(segments[n])
           /\ segments[n].members = <<>> => Span(segments[n]) = {}
<1>1. PICK m : m = Len(sections)
  OBVIOUS
<1>2. PICK g : g = segments[n]
  OBVIOUS
<1>3. m \in Nat /\ Segmented(g, m)
  BY <1>1, <1>2, ShapedIs, Listed DEF Typed
<1>4. /\ Len(g.members) \in Nat
      /\ \A k \in 1..Len(g.members) : g.members[k] \in 1..m /\ g.members[k] \in Span(g)
      /\ Span(g) \subseteq 1..m
      /\ \A i \in Span(g) : \E k \in 1..Len(g.members) : g.members[k] = i
      /\ g.members # <<>> => 1 \in 1..Len(g.members) /\ g.members[1] \in Span(g)
      /\ g.members = <<>> => Span(g) = {}
  BY <1>3, SpanIs, Zenon
<1> QED BY <1>1, <1>2, <1>3, <1>4

(* What waits is part of another, and no segment is that is loaded from     *)
(* offset 0.                                                                *)
LEMMA HeadedGoes ==
    ASSUME Shaped, Typed, Lines, NEW g \in 1..Len(segments), NEW h \in 1..Len(segments), g # h,
           Heading(g)
    PROVE  ~ Subsequence(g, h)
<1>1. Segmented(segments[g], Len(sections)) /\ Segmented(segments[h], Len(sections))
      /\ Len(sections) \in Nat
  BY SpanOf
<1>2. Rising(segments[g]) /\ Rising(segments[h])
  BY DEF Lines, Listing
<1>3. Ascends(segments[g].members) /\ Ascends(segments[h].members)
  BY <1>1, <1>2, RisingIs
<1>4. ~ (Span(segments[g]) \subseteq Span(segments[h]))
  BY DEF Heading
<1> QED BY <1>3, <1>4, SubsequenceIs

LEMMA OrderStepLays ==
    ASSUME Shaped, Typed, OrdInv, LayInv, OrderStep
    PROVE  LayInv'
<1> SUFFICES ASSUME regular' PROVE LayInv'
  BY DEF LayInv
<1>1. /\ pc = "order" /\ pc' = "order" /\ sections' = sections /\ segments' = segments
      /\ generated' = generated /\ pos' = pos /\ regular
  BY DEF OrderStep, core, place, past
<1>2. /\ Lines /\ Settles /\ AllLaid /\ Rows /\ Families /\ Heads /\ HeadFirst /\ NothingYet /\ Owned
  BY <1>1 DEF LayInv, Writing, Placing
<1>3. Laid = {} /\ Laid' = {} /\ Settled = generated /\ Settled' = generated /\ Placing /\ Placing'
  BY <1>1 DEF Laid, Settled, Placing
<1>4. HeadFirst'
  <2>1. PICK L : L = Len(order)
    OBVIOUS
  <2>2. PICK W : W = Len(work)
    OBVIOUS
  <2>3. PICK q : q = Queue
    OBVIOUS
  <2>4. PICK r : r = Queue'
    OBVIOUS
  <2>5. /\ L \in Nat /\ W \in Nat /\ W > 0 /\ Len(q) = L + W /\ Len(r) = L + W
        /\ \A k \in 1..L + W : q[k] \in 1..Len(segments)
        /\ Waits(q, L, W) => Rotated(q, r, L, W)
        /\ ~ Waits(q, L, W) => \A k \in 1..L + W : r[k] = q[k]
    BY <2>1, <2>2, <2>3, <2>4, OrderStepIs, Zenon
  <2>6. \A j, k \in 1..L + W : j < k /\ Headed(segments[q[k]]) => segments[q[j]].members = <<>>
    BY <1>2, <1>3, <2>3, <2>5 DEF HeadFirst
  <2>7. \A j, k \in 1..L + W : j < k /\ Headed(segments[r[k]]) => segments[r[j]].members = <<>>
    <3>1. CASE ~ Waits(q, L, W)
      BY <2>5, <2>6, <3>1
    <3>2. CASE Waits(q, L, W)
      <4>1. Rotated(q, r, L, W)
        BY <2>5, <3>2
      <4>2. PICK i \in 1..W - 1 : Subsequence(q[L + 1], q[(L + 1) + i])
        BY <3>2 DEF Waits
      <4>3. L + 1 \in 1..L + W /\ (L + 1) + i \in 1..L + W /\ L + 1 < (L + 1) + i
        BY <2>5
      <4>4. q[L + 1] # q[(L + 1) + i]
        BY <1>1, <2>3, <2>5, <4>3 DEF OrdInv, Queued, Placing
      <4>5. ~ Headed(segments[q[L + 1]])
        BY <1>2, <1>3, <2>5, <4>2, <4>3, <4>4, HeadedGoes DEF Heads
      <4> SUFFICES ASSUME NEW j \in 1..L + W, NEW k \in 1..L + W, j < k, Headed(segments[r[k]])
                   PROVE  segments[r[j]].members = <<>>
        OBVIOUS
      <4>6. k # L + W
        BY <4>1, <4>5 DEF Rotated
      <4>7. ASSUME NEW x \in 1..L + W - 1
            PROVE  \E y \in 1..L + W : r[x] = q[y] /\ (IF x <= L THEN y = x ELSE y = x + 1)
        <5>1. CASE x <= L
          <6>1. x \in 1..L /\ x \in 1..L + W
            BY <2>5, <5>1
          <6>2. r[x] = q[x]
            BY <4>1, <6>1 DEF Rotated
          <6> QED BY <5>1, <6>1, <6>2
        <5>2. CASE x > L
          <6>1. x \in L + 1..L + W - 1 /\ x + 1 \in 1..L + W
            BY <2>5, <5>2
          <6>2. r[x] = q[x + 1]
            BY <4>1, <6>1 DEF Rotated
          <6>3. ~ (x <= L)
            BY <2>5, <5>2
          <6> QED BY <6>1, <6>2, <6>3
        <5> QED BY <2>5, <5>1, <5>2
      <4>8. j \in 1..L + W - 1 /\ k \in 1..L + W - 1
        BY <2>5, <4>6
      <4>9. PICK y \in 1..L + W : r[j] = q[y] /\ (IF j <= L THEN y = j ELSE y = j + 1)
        BY <4>7, <4>8
      <4>10. PICK z \in 1..L + W : r[k] = q[z] /\ (IF k <= L THEN z = k ELSE z = k + 1)
        BY <4>7, <4>8
      <4>11. y < z
        BY <2>5, <4>8, <4>9, <4>10
      <4> QED BY <2>6, <4>9, <4>10, <4>11
    <3> QED BY <3>1, <3>2
  <2> QED BY <1>1, <2>4, <2>5, <2>7 DEF HeadFirst
<1>5. Lines' /\ Families'
  BY <1>1, <1>2, SameObject
<1>6. Rows'
  <2>1. \A g : Waiting(g)' <=> Waiting(g)
    BY <1>1, Zenon DEF Waiting
  <2> QED BY <1>1, <1>2, <2>1, SameSections DEF Rows
<1>7. Heads'
  BY <1>1, <1>2, <1>3, SameObject DEF Heads
<1>8. Settles'
  BY <1>1, <1>2, <1>3, SameObject DEF Settles, Stretch, Clear
<1>9. AllLaid' /\ Owned' /\ CurInv'
  BY <1>1, <1>2, <1>3 DEF AllLaid, Owned, CurInv
<1>10. NothingYet'
  <2>1. Ahead' = Ahead
    BY <1>1, <1>3 DEF Ahead
  <2> QED BY <1>1, <1>2, <2>1, SameObject DEF NothingYet
<1>11. ~ Written'
  BY <1>1 DEF Written
<1> QED BY <1>2, <1>4, <1>5, <1>6, <1>7, <1>8, <1>9, <1>10, <1>11 DEF LayInv

LEMMA OrderedLays ==
    ASSUME Shaped, Typed, OrdInv, LayInv, Ordered
    PROVE  LayInv'
<1> SUFFICES ASSUME regular' PROVE LayInv'
  BY DEF LayInv
<1>1. /\ pc = "order" /\ pc' = "segment" /\ sections' = sections /\ segments' = segments
      /\ generated' = generated /\ pos' = pos /\ regular /\ turn' = 1 /\ work = <<>>
      /\ order' = order
  BY DEF Ordered, Turn, plan, place, past
<1>2. /\ Lines /\ Settles /\ AllLaid /\ Rows /\ Families /\ Heads /\ HeadFirst /\ NothingYet /\ Owned
  BY <1>1 DEF LayInv, Writing, Placing
<1>3. Laid = {} /\ Laid' = {} /\ Settled = generated /\ Settled' = generated /\ Placing /\ Placing'
  BY <1>1 DEF Laid, Settled, Placing
<1>4. Queue' = Queue
  <2>1. order \o <<>> = order
    BY <1>1 DEF Typed, Turns, Saving, SaveSteps
  <2> QED BY <1>1, <2>1 DEF Queue
<1>5. Lines' /\ Families'
  BY <1>1, <1>2, SameObject
<1>6. Rows'
  <2>1. \A g : Waiting(g)' <=> Waiting(g)
    BY <1>1, Zenon DEF Waiting
  <2> QED BY <1>1, <1>2, <2>1, SameSections DEF Rows
<1>7. Heads' /\ HeadFirst'
  BY <1>1, <1>2, <1>3, <1>4, SameObject DEF Heads, HeadFirst
<1>8. Settles'
  BY <1>1, <1>2, <1>3, SameObject DEF Settles, Stretch, Clear
<1>9. AllLaid' /\ Owned' /\ CurInv'
  BY <1>1, <1>2, <1>3 DEF AllLaid, Owned, CurInv
<1>10. NothingYet'
  <2>1. Ahead' = Ahead
    BY <1>1, <1>3 DEF Ahead
  <2> QED BY <1>1, <1>2, <2>1, SameObject DEF NothingYet
<1>11. ~ Written'
  BY <1>1 DEF Written
<1> QED BY <1>2, <1>5, <1>6, <1>7, <1>8, <1>9, <1>10, <1>11 DEF LayInv

-----------------------------------------------------------------------------
(* The segment at hand comes after those laid out, none of which is part of *)
(* it.                                                                      *)
LEMMA AtHand ==
    ASSUME Shaped, Typed, OrdInv, pc \in {"segment", "members"}, turn <= Len(order)
    PROVE  /\ order[turn] \in 1..Len(segments) /\ order[turn] \notin Laid
           /\ turn \in 1..Len(order) /\ Len(order) \in Nat
           /\ Laid \subseteq 1..Len(segments)
           /\ \A f \in Laid : f # order[turn] /\ ~ Subsequence(f, order[turn])
           /\ Queue = order /\ Placing /\ Settled = generated
           /\ Laid = {order[k] : k \in 1..turn - 1}
           /\ generated \subseteq 1..Len(sections)
<1>1. /\ order \in Seq(1..Len(segments)) /\ turn \in 1..Len(order) + 1
      /\ generated \subseteq 1..Len(sections)
  BY DEF Typed, Turns, Saving, SaveSteps
<1>2. /\ Len(order) \in Nat /\ turn \in 1..Len(order)
      /\ \A k \in 1..Len(order) : order[k] \in 1..Len(segments)
  BY <1>1, SeqIs
<1>3. Queue = order /\ Placing /\ Settled = generated /\ Laid = {order[k] : k \in 1..turn - 1}
  BY DEF Queue, Placing, Settled, Laid
<1>4. Queued /\ InOrder
  BY <1>3 DEF OrdInv
<1>5. \A k \in 1..turn - 1 : k \in 1..Len(order) /\ k < turn
  BY <1>2
<1>6. \A k \in 1..turn - 1 : order[k] # order[turn] /\ ~ Subsequence(order[k], order[turn])
  BY <1>2, <1>3, <1>4, <1>5 DEF Queued, InOrder
<1>7. Laid \subseteq 1..Len(segments)
  BY <1>2, <1>3, <1>5
<1> QED BY <1>1, <1>2, <1>3, <1>6, <1>7

(* One laid out that shares sections with it has all of them.               *)
LEMMA ElderIs ==
    ASSUME Shaped, Typed, OrdInv, pc \in {"segment", "members"}, turn <= Len(order),
           Lines, Families, NEW f \in Laid, Span(Segment) \cap Span(segments[f]) # {}
    PROVE  /\ Span(Segment) \subseteq Span(segments[f]) /\ Nests(Segment, segments[f])
           /\ Rowed(Segment) /\ Rowed(segments[f])
<1>1. PICK n : n = order[turn]
  OBVIOUS
<1>2. n \in 1..Len(segments) /\ f \in 1..Len(segments) /\ f # n /\ ~ Subsequence(f, n)
  BY <1>1, AtHand
<1>3. Akin(segments[n], segments[f])
  BY <1>1, <1>2 DEF Families, Segment
<1>4. /\ Segmented(segments[n], Len(sections)) /\ Segmented(segments[f], Len(sections))
      /\ Len(sections) \in Nat
  BY <1>2, SpanOf
<1>5. Ascends(segments[n].members) /\ Ascends(segments[f].members)
  BY <1>2, <1>4, RisingIs DEF Lines, Listing
<1>6. Span(segments[n]) \subseteq Span(segments[f])
  BY <1>2, <1>3, <1>5, SubsequenceIs DEF Akin
<1> QED BY <1>1, <1>3, <1>6 DEF Akin, Segment

(* A new segment none of whose sections has its place, or all of them       *)
LEMMA FreshHas ==
    ASSUME Shaped, Typed, OrdInv, pc = "segment", turn <= Len(order),
           Lines, Families, AllLaid, Owned, Segment.members # <<>>
    PROVE  /\ Fresh => \A i \in Span(Segment) : i \notin generated
           /\ ~ Fresh => \E f \in Laid : /\ Segment.members[1] \in Span(segments[f])
                                         /\ Root(segments[f]) /\ LaidOut(segments[f])
                                         /\ Span(Segment) \subseteq Span(segments[f])
                                         /\ Nests(Segment, segments[f]) /\ Rowed(Segment)
<1>1. /\ order[turn] \in 1..Len(segments) /\ Laid \subseteq 1..Len(segments) /\ Settled = generated
  BY AtHand
<1>2. Segment.members[1] \in Span(Segment)
  BY <1>1, SpanOf DEF Segment
<1>3. \A i \in generated : \E f \in Laid : i \in Span(segments[f]) /\ Root(segments[f])
  BY DEF Owned
<1>4. ASSUME NEW i \in Span(Segment), NEW f \in Laid, i \in Span(segments[f]), Root(segments[f])
      PROVE  /\ Span(Segment) \subseteq Span(segments[f]) /\ Nests(Segment, segments[f])
             /\ Rowed(Segment) /\ LaidOut(segments[f]) /\ Span(Segment) \subseteq generated
  <2>1. Span(Segment) \cap Span(segments[f]) # {}
    BY <1>4
  <2>2. segments[f].members # <<>>
    BY <1>1, <1>4, SpanOf
  <2>3. LaidOut(segments[f])
    BY <2>2 DEF AllLaid
  <2> QED BY <1>1, <2>1, <2>3, ElderIs DEF LaidOut
<1>5. ASSUME Fresh, NEW i \in Span(Segment), i \in generated
      PROVE  FALSE
  BY <1>2, <1>3, <1>4, <1>5 DEF Fresh
<1>6. ASSUME ~ Fresh
      PROVE  \E f \in Laid : /\ Segment.members[1] \in Span(segments[f])
                             /\ Root(segments[f]) /\ LaidOut(segments[f])
                             /\ Span(Segment) \subseteq Span(segments[f])
                             /\ Nests(Segment, segments[f]) /\ Rowed(Segment)
  <2>1. Segment.members[1] \in generated
    BY <1>6 DEF Fresh
  <2>2. PICK f \in Laid : Segment.members[1] \in Span(segments[f]) /\ Root(segments[f])
    BY <1>3, <2>1
  <2>3. /\ Span(Segment) \subseteq Span(segments[f]) /\ Nests(Segment, segments[f])
        /\ Rowed(Segment) /\ LaidOut(segments[f])
    BY <1>2, <1>4, <2>2
  <2> QED BY <2>2, <2>3
<1> QED BY <1>5, <1>6

(* Rounded up, a place is congruent to the segment's address.               *)
LEMMA ToPageFits ==
    ASSUME Shaped, Typed, pc = "segment", turn <= Len(order), WORD % Pages(Segment) = 0
    PROVE  ((pos + ToPage) - Segment.vaddr) % Pages(Segment) = 0
<1>1. PICK p : p = Pages(Segment)
  OBVIOUS
<1>2. PICK a : a = Segment.align
  OBVIOUS
<1>3. PICK v : v = Segment.vaddr
  OBVIOUS
<1>4. PICK w : w = pos
  OBVIOUS
<1>5. PICK W : W = WORD
  OBVIOUS
<1>6. /\ p \in Nat \ {0} /\ (p = IF a = 0 THEN 1 ELSE a) /\ a \in Nat
      /\ v \in Int /\ w \in Int /\ W \in Nat \ {0} /\ W % p = 0
  <2>1. Segmented(Segment, Len(sections))
    BY SegmentIs
  <2> QED BY <1>1, <1>2, <1>3, <1>4, <1>5, <2>1, ToPageIs, WordIs DEF Segmented, Typed, Spots
<1>7. PICK x : x = v % p
  OBVIOUS
<1>8. PICK y : y = w % p
  OBVIOUS
<1>9. PICK e : e = (x - y) % W
  OBVIOUS
<1>10. PICK z : z = (a + e) % W
  OBVIOUS
<1>11. ToPage = z % p
  BY <1>1, <1>2, <1>3, <1>4, <1>5, <1>7, <1>8, <1>9, <1>10 DEF ToPage, Plus, Minus
<1>12. x \in Int /\ y \in Int /\ Divides(p, v - x) /\ Divides(p, w - y)
  <2>1. x \in 0..p - 1 /\ y \in 0..p - 1
    BY <1>6, <1>7, <1>8, ModIs
  <2>2. p \in Nat \ {0} /\ v \in Int /\ w \in Int
    BY <1>6
  <2>3. Divides(p, v - (v % p)) /\ Divides(p, w - (w % p))
    BY <2>2, DividesRest
  <2> QED BY <1>7, <1>8, <2>1, <2>3
<1>13. PICK t : t = z % p
  OBVIOUS
<1>14. /\ e \in Int /\ z \in Int /\ t \in Int
       /\ Divides(W, (x - y) - e) /\ Divides(W, (a + e) - z) /\ Divides(p, z - t)
  <2>1. \A q \in Nat \ {0}, c \in Int : c % q \in Int /\ Divides(q, c - (c % q))
    <3>1. \A q \in Nat \ {0}, c \in Int : c % q \in Int
      BY ModIs
    <3> QED BY <3>1, DividesRest
  <2>2. x - y \in Int
    BY <1>12
  <2>3. e \in Int /\ Divides(W, (x - y) - e)
    BY <1>6, <1>9, <2>1, <2>2
  <2>4. a + e \in Int
    BY <1>6, <2>3
  <2>5. z \in Int /\ Divides(W, (a + e) - z)
    BY <1>6, <1>10, <2>1, <2>4
  <2> QED BY <1>6, <1>13, <2>1, <2>3, <2>5
<1>15. Divides(p, W)
  BY <1>6, ZeroRest
<1>16. Divides(p, (x - y) - e) /\ Divides(p, (a + e) - z)
  BY <1>6, <1>12, <1>14, <1>15, DividesTwice
<1>17. Divides(p, a)
  <2>1. CASE a = 0
    <3>1. a = p * 0
      BY <1>6, <2>1
    <3> QED BY <3>1 DEF Divides
  <2>2. CASE a # 0
    <3>1. a = p * 1
      BY <1>6, <2>2
    <3> QED BY <3>1 DEF Divides
  <2> QED BY <2>1, <2>2
<1>18. Divides(p, (w + t) - v)
  <2>1. PICK i \in Int : v - x = p * i
    BY <1>12 DEF Divides
  <2>2. PICK j \in Int : w - y = p * j
    BY <1>12 DEF Divides
  <2>3. PICK k \in Int : (x - y) - e = p * k
    BY <1>16 DEF Divides
  <2>4. PICK l \in Int : (a + e) - z = p * l
    BY <1>16 DEF Divides
  <2>5. PICK m \in Int : z - t = p * m
    BY <1>14 DEF Divides
  <2>6. PICK n \in Int : a = p * n
    BY <1>17 DEF Divides
  <2>7. (w + t) - v = (((((w - y) - (v - x)) - ((x - y) - e)) - ((a + e) - z)) - (z - t)) + a
    BY <1>6, <1>12, <1>14
  <2>8. PICK s : s = ((((j - i) - k) - l) - m) + n
    OBVIOUS
  <2>9. s \in Int
    BY <2>8
  <2>10. p * s = (((((p * j) - (p * i)) - (p * k)) - (p * l)) - (p * m)) + p * n
    BY <1>6, <2>8
  <2>11. (w + t) - v = p * s
    BY <2>1, <2>2, <2>3, <2>4, <2>5, <2>6, <2>7, <2>10
  <2> QED BY <2>9, <2>11 DEF Divides
<1>19. PICK u : u = (w + t) - v
  OBVIOUS
<1>20. u % p = 0
  <2>1. u \in Int
    BY <1>6, <1>14, <1>19
  <2>2. Divides(p, u)
    BY <1>18, <1>19
  <2>3. p \in Nat \ {0}
    BY <1>6
  <2> QED BY <2>1, <2>2, <2>3, ZeroRest, Zenon
<1>21. (pos + ToPage) - Segment.vaddr = u
  <2>1. ToPage = t
    BY <1>11, <1>13
  <2> QED BY <1>3, <1>4, <1>19, <2>1, Zenon
<1> QED BY <1>1, <1>20, <1>21, Zenon

-----------------------------------------------------------------------------
(* layout_segments_and_their_sections: a segment begins.                    *)
LEMMA StartIs ==
    ASSUME Shaped, Typed, OrdInv, pc = "segment", turn <= Len(order), NEW p, NEW n, Start(p, n)
    PROVE  /\ pc' = "members" /\ sections' = sections /\ segments' = segments /\ generated' = generated
           /\ order' = order /\ turn' = turn /\ Segment' = Segment
           /\ cur'.start = p /\ cur'.mem = n /\ cur'.file = n /\ cur'.member = 1
           /\ Done' = {} /\ Laid' = Laid /\ Settled' = generated /\ Placing' /\ Queue' = Queue
           /\ ~ Written' /\ Upcoming' = Segment.members[1]
<1>1. /\ pc' = "members" /\ sections' = sections /\ segments' = segments /\ generated' = generated
      /\ order' = order /\ turn' = turn /\ Segment' = Segment
      /\ cur' = [start |-> p, mem |-> n, file |-> n, member |-> 1]
  BY DEF Start, plan, Segment
<1>2. cur'.start = p /\ cur'.mem = n /\ cur'.file = n /\ cur'.member = 1
  BY <1>1
<1>3. Done' = {}
  <2>1. 1..1 - 1 = {}
    OBVIOUS
  <2> QED BY <1>2, <2>1, Zenon DEF Done
<1>4. Upcoming' = Segment.members[1]
  BY <1>1, <1>2 DEF Upcoming
<1> QED BY <1>1, <1>2, <1>3, <1>4 DEF Laid, Settled, Placing, Queue, Written

(* No section of the new segment has its place.                             *)
LEMMA BeginFresh ==
    ASSUME Shaped, Typed, OrdInv, pc = "segment", turn <= Len(order), Lines, Settles,
           Segment.members # <<>>, \A i \in Span(Segment) : i \notin generated,
           NEW p, NEW n \in Nat, p \in Nat, Start(p, n), pos' \in Nat, p + n = pos', pos <= p \/ generated = {},
           (p - Segment.vaddr) % Pages(Segment) = 0,
           Rowed(Segment) => LET i == Segment.members[1] IN
                /\ n <= sections[i].addr - Segment.vaddr
                /\ InFile(sections[i]) \/ n = sections[i].addr - Segment.vaddr
    PROVE  CurInv'
<1>1. PICK g : g = Segment
  OBVIOUS
<1>2. /\ pc' = "members" /\ sections' = sections /\ segments' = segments /\ generated' = generated
      /\ Segment' = g
      /\ cur'.start = p /\ cur'.mem = n /\ cur'.file = n /\ cur'.member = 1
      /\ Done' = {} /\ Upcoming' = g.members[1]
  BY <1>1, StartIs, Zenon
<1>3. /\ g.vaddr \in Nat /\ p \in Nat /\ n \in Nat
      /\ \A k \in 1..Len(g.members) : g.members[k] \in Span(g)
  <2>1. Segmented(g, Len(sections))
    BY <1>1, SegmentIs
  <2>2. g.vaddr \in Nat
    BY <2>1, WordIs DEF Segmented
  <2>3. order[turn] \in 1..Len(segments)
    BY AtHand
  <2> QED BY <1>1, <2>2, <2>3, SpanOf DEF Segment
<1>4. \A j \in cur'.member..Len(g.members) : g.members[j] \notin generated'
  BY <1>1, <1>2, <1>3
<1>5. cur'.start + cur'.file = pos' /\ cur'.start + cur'.file <= pos'
  BY <1>2
<1>6. \A i \in generated' \ Done' : sections'[i].offset + FileSize(sections'[i]) <= cur'.start
  <2>1. CASE generated = {}
    BY <1>2, <2>1
  <2>2. CASE pos <= p
    <3> SUFFICES ASSUME NEW i \in generated
                 PROVE  sections[i].offset + FileSize(sections[i]) <= p
      BY <1>2
    <3>1. generated \subseteq 1..Len(sections) /\ Settled = generated
      BY AtHand
    <3>2. sections[i].offset + FileSize(sections[i]) <= pos
      BY <3>1 DEF Settles, Stretch
    <3>3. sections[i].offset \in Nat /\ sections[i].size \in Nat /\ pos \in Nat
      BY <3>1, ShapedIs, WordIs DEF Typed, Spots
    <3>4. sections[i].offset + FileSize(sections[i]) \in Nat
      BY <3>3 DEF FileSize
    <3> QED BY <1>3, <2>2, <3>2, <3>3, <3>4
  <2> QED BY <2>1, <2>2
<1>7. Covers(Done, Segment, cur.start, cur.file, cur.mem)'
  BY <1>2 DEF Covers
<1>8. Spread(Done, Segment, cur.start)'
  BY <1>2 DEF Spread
<1>9. Rowed(g)' <=> Rowed(g)
  BY <1>2, SameSections
<1>10. Ready'
  <2>1. p + n - p = n /\ pos' - p = n
    BY <1>3
  <2>2. Rowed(g) => LET i == g.members[1] IN
            /\ pos' - p <= sections'[i].addr - g.vaddr
            /\ InFile(sections'[i]) \/ pos' - p = sections'[i].addr - g.vaddr
    BY <1>1, <1>2, <2>1
  <2> QED BY <1>2, <1>5, <1>9, <2>2 DEF Ready
<1>11. InMem'
  <2>1. n <= n /\ g.vaddr <= g.vaddr + n
    BY <1>3
  <2>2. End(Segment, cur.member - 1)' = g.vaddr
    <3>1. cur'.member - 1 = 0
      BY <1>2
    <3> QED BY <1>2, <3>1 DEF End
  <2> QED BY <1>2, <2>1, <2>2 DEF InMem
<1>12. (cur'.start - Segment'.vaddr) % Pages(Segment') = 0
  BY <1>1, <1>2
<1>13. CurFresh'
  BY <1>2, <1>4, <1>5, <1>6, <1>7, <1>8, <1>10, <1>11, <1>12 DEF CurFresh
<1> QED BY <1>1, <1>2, <1>13 DEF CurInv

(* All of them have, in another segment.                                    *)
LEMMA BeginNested ==
    ASSUME Shaped, Typed, OrdInv, pc = "segment", turn <= Len(order), Lines, Settles, Families,
           AllLaid, Owned, Segment.members # <<>>, ~ Fresh,
           Start(sections[Segment.members[1]].offset, 0), pos' = pos
    PROVE  CurInv'
<1>1. PICK g : g = Segment
  OBVIOUS
<1>2. PICK p : p = sections[g.members[1]].offset
  OBVIOUS
<1>3. /\ pc' = "members" /\ sections' = sections /\ segments' = segments /\ generated' = generated
      /\ Segment' = g
      /\ cur'.start = p /\ cur'.mem = 0 /\ cur'.file = 0 /\ cur'.member = 1
      /\ Done' = {} /\ Laid' = Laid
  BY <1>1, <1>2, StartIs, Zenon
<1>4. /\ order[turn] \in 1..Len(segments) /\ Laid \subseteq 1..Len(segments) /\ Settled = generated
      /\ generated \subseteq 1..Len(sections)
  BY AtHand
<1>5. PICK f \in Laid : /\ g.members[1] \in Span(segments[f])
                        /\ Root(segments[f]) /\ LaidOut(segments[f])
                        /\ Span(g) \subseteq Span(segments[f])
                        /\ Nests(g, segments[f]) /\ Rowed(g)
  BY <1>1, FreshHas
<1>6. Span(g) \subseteq generated
  BY <1>4, <1>5 DEF LaidOut
<1>7. /\ g.vaddr \in Nat /\ Len(g.members) \in Nat
      /\ \A k \in 1..Len(g.members) : g.members[k] \in Span(g) /\ g.members[k] \in 1..Len(sections)
      /\ 1 \in 1..Len(g.members)
  <2>1. Segmented(g, Len(sections))
    BY <1>1, SegmentIs
  <2>2. g.vaddr \in Nat
    BY <2>1, WordIs DEF Segmented
  <2> QED BY <1>1, <1>4, <2>2, SpanOf DEF Segment
<1>8. \A i \in generated : sections[i].offset \in Nat /\ FileSize(sections[i]) \in Nat
  BY <1>4, ShapedIs, WordIs DEF FileSize
<1>9. p \in Nat /\ pos \in Nat /\ p <= pos
  <2>1. p + FileSize(sections[g.members[1]]) <= pos
    BY <1>2, <1>4, <1>6, <1>7 DEF Settles, Stretch
  <2>2. p \in Nat /\ FileSize(sections[g.members[1]]) \in Nat
    BY <1>2, <1>6, <1>7, <1>8
  <2>3. pos \in Nat
    BY WordIs DEF Typed, Spots
  <2> QED BY <2>1, <2>2, <2>3
<1>10. ASSUME NEW j \in 1..Len(g.members)
       PROVE  p <= sections[g.members[j]].offset
  <2>1. CASE j = 1
    BY <1>2, <1>9, <2>1
  <2>2. CASE j > 1
    <3>1. g.members[1] < g.members[j]
      BY <1>1, <1>4, <1>7, <2>2 DEF Lines, Listing, Rising, Segment
    <3>2. g.members[1] \in Span(segments[f]) /\ g.members[j] \in Span(segments[f])
      BY <1>5, <1>7
    <3>3. p + FileSize(sections[g.members[1]]) <= sections[g.members[j]].offset
      BY <1>2, <1>5, <3>1, <3>2 DEF Root, Spread
    <3>4. p \in Nat /\ FileSize(sections[g.members[1]]) \in Nat /\ sections[g.members[j]].offset \in Nat
      BY <1>2, <1>6, <1>7, <1>8
    <3> QED BY <3>3, <3>4
  <2> QED BY <2>1, <2>2
<1>11. Rowed(g)' /\ AtSectionStart(g)' /\ Root(segments[f])'
  BY <1>3, <1>5, SameSections, SameObject DEF Nests
<1>12. \E n \in Laid' : Inside(n, g)'
  <2>1. Inside(f, g)'
    BY <1>3, <1>5, <1>11 DEF Inside
  <2> QED BY <1>3, <2>1
<1>13. Covers(Done, Segment, cur.start, cur.file, cur.mem)'
  BY <1>3 DEF Covers
<1>14. InMem'
  <2>1. 0 <= 0 /\ g.vaddr <= g.vaddr + 0
    BY <1>7
  <2>2. End(Segment, cur.member - 1)' = g.vaddr
    <3>1. cur'.member - 1 = 0
      BY <1>3
    <3> QED BY <1>3, <3>1 DEF End
  <2> QED BY <1>3, <2>1, <2>2 DEF InMem
<1>15. cur'.start + cur'.file = p
  BY <1>3, <1>9
<1>16. CurNested'
  BY <1>2, <1>3, <1>6, <1>9, <1>10, <1>11, <1>12, <1>13, <1>14, <1>15 DEF CurNested
<1> QED BY <1>1, <1>3, <1>16 DEF CurInv

LEMMA BeginFrame ==
    ASSUME Shaped, Typed, OrdInv, LayInv, regular, pc = "segment", turn <= Len(order),
           NEW p, NEW n, Start(p, n), pos' \in Nat, pos <= pos', pos' = pos \/ Fresh
    PROVE  /\ Lines' /\ Settles' /\ AllLaid' /\ ~ Written'
           /\ Rows' /\ Families' /\ Heads' /\ HeadFirst' /\ NothingYet' /\ Owned'
<1>1. /\ pc' = "members" /\ sections' = sections /\ segments' = segments /\ generated' = generated
      /\ order' = order /\ turn' = turn /\ Laid' = Laid /\ Settled' = generated /\ Placing' /\ Queue' = Queue
      /\ ~ Written'
  BY StartIs, Zenon
<1>2. /\ order[turn] \in 1..Len(segments) /\ order[turn] \notin Laid
      /\ turn \in 1..Len(order) /\ Len(order) \in Nat /\ Laid \subseteq 1..Len(segments)
      /\ Queue = order /\ Placing /\ Settled = generated /\ generated \subseteq 1..Len(sections)
      /\ Laid = {order[k] : k \in 1..turn - 1}
  BY AtHand, Zenon
<1>3. /\ Lines /\ Settles /\ AllLaid /\ Rows /\ Families /\ Heads /\ HeadFirst /\ NothingYet /\ Owned
  BY <1>2 DEF LayInv, Writing
<1>4. pos \in Nat
  BY WordIs DEF Typed, Spots
<1>5. Lines' /\ Families'
  BY <1>1, <1>3, SameObject
<1>6. Rows'
  <2>1. \A g : Waiting(g)' <=> Waiting(g)
    BY <1>1, Zenon DEF Waiting
  <2> QED BY <1>1, <1>3, <2>1, SameSections DEF Rows
<1>7. Heads' /\ HeadFirst'
  BY <1>1, <1>3, SameObject DEF Heads, HeadFirst
<1>8. Headers' = Headers /\ Headers \in Nat
  <2>1. Len(segments) \in Nat
    BY ShapedIs, Listed DEF Typed
  <2> QED BY <1>1, <2>1, SameObject DEF Headers, EHDR, PHDR
<1>9. Settles'
  <2>1. Headers <= pos'
    BY <1>3, <1>4, <1>8 DEF Settles
  <2>2. ASSUME NEW i \in generated
        PROVE  Headers <= sections[i].offset /\ sections[i].offset + FileSize(sections[i]) <= pos'
    <3>1. Headers <= sections[i].offset /\ sections[i].offset + FileSize(sections[i]) <= pos
      BY <1>2, <1>3 DEF Settles, Stretch
    <3>2. sections[i].offset \in Nat /\ sections[i].size \in Nat
      BY <1>2, ShapedIs, WordIs
    <3>3. sections[i].offset + FileSize(sections[i]) \in Nat
      BY <3>2 DEF FileSize
    <3> QED BY <1>4, <3>1, <3>3
  <2>3. \A i \in generated : Stretch(i)'
    BY <1>1, <1>8, <2>2 DEF Stretch
  <2> QED BY <1>1, <1>2, <1>3, <1>8, <2>1, <2>3, SameSections DEF Settles
<1>10. AllLaid'
  <2>1. ASSUME NEW f \in Laid, segments[f].members # <<>>
        PROVE  LaidOut(segments[f])'
    <3>1. LaidOut(segments[f])
      BY <1>3, <2>1 DEF AllLaid
    <3>2. segments[f].offset + segments[f].filesz <= pos'
      <4>1. segments[f].offset + segments[f].filesz <= pos
        BY <3>1 DEF LaidOut
      <4>2. Segmented(segments[f], Len(sections))
        BY <1>2, SpanOf
      <4>3. segments[f].offset \in Nat /\ segments[f].filesz \in Nat
        BY <4>2, WordIs DEF Segmented
      <4> QED BY <1>4, <4>1, <4>3
    <3>3. Covers(Span(segments[f]), segments[f], segments[f].offset, segments[f].filesz, segments[f].memsz)'
      BY <1>1, <3>1, SameSections DEF LaidOut, Covers
    <3> QED BY <1>1, <1>2, <3>1, <3>2, <3>3, SameSections DEF LaidOut
  <2> QED BY <1>1, <1>3, <2>1 DEF AllLaid
<1>11. Owned'
  <2>1. \A i \in generated : \E f \in Laid : i \in Span(segments[f]) /\ Root(segments[f])
    BY <1>3 DEF Owned
  <2>2. \A i \in generated : \E f \in Laid : i \in Span(segments'[f]) /\ Root(segments[f])'
    BY <1>1, <2>1, SameObject
  <2> QED BY <1>1, <2>2 DEF Owned
<1>12. NothingYet'
  <2>1. Ahead' \subseteq Ahead
    BY <1>1 DEF Ahead
  <2>2. CASE pos' = pos
    BY <1>1, <1>3, <1>8, <2>1, <2>2 DEF NothingYet
  <2>3. CASE Fresh
    <3> SUFFICES ASSUME NEW n1 \in Ahead' PROVE FALSE
      BY DEF NothingYet
    <3>1. n1 \in 1..Len(segments) /\ n1 \notin Laid /\ Headed(segments[n1]) /\ n1 # order[turn]
      BY <1>1 DEF Ahead
    <3>2. PICK k \in 1..Len(order) : order[k] = n1
      BY <1>2, <3>1 DEF OrdInv, Queued
    <3>3. k > turn
      BY <1>2, <3>1, <3>2
    <3>4. segments[order[turn]].members = <<>>
      BY <1>2, <1>3, <3>1, <3>2, <3>3 DEF HeadFirst
    <3> QED BY <2>3, <3>4 DEF Fresh, Segment
  <2> QED BY <2>2, <2>3
<1> QED BY <1>1, <1>5, <1>6, <1>7, <1>9, <1>10, <1>11, <1>12

(* A segment without sections has no bytes, but for the program headers.    *)
LEMMA BeginEmpty ==
    ASSUME Shaped, Typed, OrdInv, pc = "segment", turn <= Len(order), NEW p, NEW n, Start(p, n),
           Segment.members = <<>>, Segment.type # "phdr" => n = 0
    PROVE  CurInv'
<1>1. Segment' = Segment /\ cur'.file = n
  BY StartIs, Zenon
<1> QED BY <1>1 DEF CurInv

(* The one loaded from offset 0 begins with the headers.                    *)
LEMMA BeginHeaded ==
    ASSUME Shaped, Typed, OrdInv, LayInv, regular, pc = "segment", turn <= Len(order),
           AtZero(Segment), Segment.members # <<>>, Start(0, pos), pos' = pos
    PROVE  CurInv'
<1>1. PICK g : g = Segment
  OBVIOUS
<1>2. PICK n : n = order[turn]
  OBVIOUS
<1>3. n \in 1..Len(segments) /\ n \notin Laid /\ Placing /\ g = segments[n]
  BY <1>1, <1>2, AtHand DEF Segment
<1>4. Lines /\ Settles /\ Heads /\ NothingYet /\ Rows
  BY <1>3 DEF LayInv, Writing
<1>5. Headed(g)
  BY <1>1 DEF Headed
<1>6. generated = {} /\ pos = Headers
  <2>1. n \in Ahead
    BY <1>3, <1>5 DEF Ahead
  <2> QED BY <1>4, <2>1 DEF NothingYet
<1>7. g.vaddr % Pages(g) = 0 /\ Rowed(g) /\ RoomForHeaders(g)
  BY <1>3, <1>4, <1>5 DEF Heads, Heading
<1>8. PICK s : s = sections[g.members[1]]
  OBVIOUS
<1>9. /\ g.vaddr \in Nat /\ s.addr \in Nat /\ pos \in Nat /\ pos > 0
      /\ 1 \in 1..Len(g.members) /\ Pages(g) \in Nat \ {0}
  <2>1. Segmented(g, Len(sections))
    BY <1>1, SegmentIs
  <2>2. g.vaddr \in Nat
    BY <2>1, WordIs DEF Segmented
  <2>3. 1 \in 1..Len(g.members) /\ g.members[1] \in 1..Len(sections)
    BY <1>1, <1>3, SpanOf
  <2>4. s.addr \in Nat
    BY <1>8, <2>3, ShapedIs, WordIs
  <2>5. pos \in Nat
    BY WordIs DEF Typed, Spots
  <2>6. Len(segments) \in Nat
    BY ShapedIs, Listed DEF Typed
  <2>7. pos > 0
    BY <1>6, <2>6 DEF Headers, EHDR, PHDR
  <2> QED BY <1>1, <2>2, <2>3, <2>4, <2>5, <2>7, ToPageIs
<1>10. s.addr >= g.vaddr + pos
  <2>1. EHDR + PHDR * Len(segments) = pos
    BY <1>6 DEF Headers
  <2>2. s.addr >= g.vaddr + EHDR + PHDR * Len(segments)
    BY <1>7, <1>8 DEF RoomForHeaders
  <2>3. Len(segments) \in Nat
    BY ShapedIs, Listed DEF Typed
  <2> QED BY <1>9, <2>1, <2>2, <2>3 DEF EHDR, PHDR
<1>11. InFile(s)
  <2>1. InFile(s) \/ s.addr = End(g, 0)
    <3>1. 1 - 1 = 0
      OBVIOUS
    <3> QED BY <1>7, <1>8, <1>9, <3>1 DEF Rowed
  <2>2. End(g, 0) = g.vaddr
    BY DEF End
  <2> QED BY <1>9, <1>10, <2>1, <2>2
<1>12. pos <= s.addr - g.vaddr
  BY <1>9, <1>10
<1>13. (0 - g.vaddr) % Pages(g) = 0
  <2>1. PICK P : P = Pages(g)
    OBVIOUS
  <2>2. PICK v : v = g.vaddr
    OBVIOUS
  <2>3. P \in Nat \ {0} /\ v \in Int /\ v % P = 0
    BY <1>7, <1>9, <2>1, <2>2
  <2>4. PICK q \in Int : v = P * q
    BY <2>3, ZeroRest DEF Divides
  <2>5. 0 - v = P * (0 - q) /\ 0 - q \in Int /\ 0 - v \in Int
    BY <2>3, <2>4
  <2>6. Divides(P, 0 - v)
    BY <2>5 DEF Divides
  <2>7. PICK w : w = 0 - v
    OBVIOUS
  <2>8. w \in Int /\ Divides(P, w)
    BY <2>5, <2>6, <2>7
  <2>9. w % P = 0
    BY <2>3, <2>8, ZeroRest
  <2> QED BY <2>1, <2>2, <2>7, <2>9
<1>14. 0 + pos = pos'
  BY <1>9
<1> QED BY <1>1, <1>4, <1>6, <1>8, <1>9, <1>11, <1>12, <1>13, <1>14, BeginFresh

LEMMA BeginSegmentLays ==
    ASSUME Shaped, Typed, OrdInv, LayInv, BeginSegment
    PROVE  LayInv'
<1> SUFFICES ASSUME regular' PROVE LayInv'
  BY DEF LayInv
<1>1. pc = "segment" /\ turn <= Len(order) /\ pos \in Nat
  BY WordIs DEF BeginSegment, Typed, Spots
<1>2. ASSUME regular, NEW p, NEW n, Start(p, n), pos' \in Nat, pos <= pos', pos' = pos \/ Fresh, CurInv'
      PROVE  LayInv'
  BY <1>1, <1>2, BeginFrame DEF LayInv
<1>3. pos <= pos
  BY <1>1
<1>4. CASE Program /\ Start(EHDR, Plus(0, PHDR * Len(segments))) /\ UNCHANGED <<pos, past>>
  <2>1. CurInv'
    BY <1>1, <1>4, BeginEmpty DEF Program
  <2> QED BY <1>1, <1>2, <1>3, <1>4, <2>1 DEF past
<1>5. CASE /\ AtZero(Segment) /\ Start(0, IF Segment.members = <<>> THEN 0 ELSE pos)
           /\ UNCHANGED <<pos, past>>
  <2>1. regular
    BY <1>5 DEF past
  <2>2. CurInv'
    <3>1. CASE Segment.members = <<>>
      BY <1>1, <1>5, <3>1, BeginEmpty
    <3>2. CASE Segment.members # <<>>
      BY <1>1, <1>5, <2>1, <3>2, BeginHeaded
    <3> QED BY <3>1, <3>2
  <2> QED BY <1>1, <1>2, <1>3, <1>5, <2>1, <2>2
<1>6. CASE Fresh /\ pos' = Plus(pos, ToPage) /\ Start(pos', 0) /\ Reach({pos + ToPage})
  <2>1. regular /\ pos + ToPage < WORD
    BY <1>6 DEF Reach
  <2>2. ToPage \in Nat
    BY <1>1, ToPageIs
  <2>3. pos' = pos + ToPage /\ pos' \in Nat /\ pos <= pos'
    BY <1>1, <1>6, <2>1, <2>2, PlusIs
  <2>4. Lines /\ Settles /\ Families /\ AllLaid /\ Owned /\ Rows
    BY <1>1, <2>1 DEF LayInv, Writing, Placing
  <2>5. Segment.members # <<>> /\ \A i \in Span(Segment) : i \notin generated
    BY <1>1, <1>6, <2>4, FreshHas DEF Fresh
  <2>6. (pos' - Segment.vaddr) % Pages(Segment) = 0
    <3>1. WORD % Pages(Segment) = 0
      <4>1. order[turn] \in 1..Len(segments)
        BY <1>1, AtHand
      <4> QED BY <2>4, <4>1 DEF Lines, Listing, Segment
    <3>2. ((pos + ToPage) - Segment.vaddr) % Pages(Segment) = 0
      BY <1>1, <3>1, ToPageFits
    <3> QED BY <2>3, <3>2
  <2>7. Rowed(Segment) => LET i == Segment.members[1] IN
            /\ 0 <= sections[i].addr - Segment.vaddr
            /\ InFile(sections[i]) \/ 0 = sections[i].addr - Segment.vaddr
    <3> SUFFICES ASSUME Rowed(Segment)
                 PROVE  LET i == Segment.members[1] IN
                        /\ 0 <= sections[i].addr - Segment.vaddr
                        /\ InFile(sections[i]) \/ 0 = sections[i].addr - Segment.vaddr
      OBVIOUS
    <3>1. order[turn] \in 1..Len(segments)
      BY <1>1, AtHand
    <3>2. 1 \in 1..Len(Segment.members) /\ Segment.members[1] \in 1..Len(sections)
      BY <2>5, <3>1, SpanOf DEF Segment
    <3>3. End(Segment, 0) = Segment.vaddr
      BY DEF End
    <3>4. 0 \in 0..1 - 1 /\ 1 - 1 = 0
      OBVIOUS
    <3>5. PICK s : s = sections[Segment.members[1]]
      OBVIOUS
    <3>6. Segment.vaddr <= s.addr /\ (InFile(s) \/ s.addr = Segment.vaddr)
      BY <3>2, <3>3, <3>4, <3>5 DEF Rowed
    <3>7. Segmented(Segment, Len(sections))
      BY <1>1, SegmentIs
    <3>8. Segment.vaddr \in Nat /\ s.addr \in Nat
      BY <3>2, <3>5, <3>7, ShapedIs, WordIs DEF Segmented
    <3>9. 0 <= s.addr - Segment.vaddr /\ (InFile(s) \/ 0 = s.addr - Segment.vaddr)
      BY <3>6, <3>8
    <3> QED BY <3>5, <3>9
  <2>8. pos' + 0 = pos'
    BY <2>3
  <2>9. CurInv'
    BY <1>1, <1>6, <2>3, <2>4, <2>5, <2>6, <2>7, <2>8, BeginFresh
  <2> QED BY <1>2, <1>6, <2>1, <2>3, <2>9
<1>7. CASE /\ ~ Fresh /\ Start(IF Segment.members = <<>> THEN pos ELSE sections[Segment.members[1]].offset, 0)
           /\ UNCHANGED <<pos, past>>
  <2>1. regular
    BY <1>7 DEF past
  <2>2. Lines /\ Settles /\ Families /\ AllLaid /\ Owned
    BY <1>1, <2>1 DEF LayInv, Writing, Placing
  <2>3. CurInv'
    <3>1. CASE Segment.members = <<>>
      BY <1>1, <1>7, <3>1, BeginEmpty
    <3>2. CASE Segment.members # <<>>
      BY <1>1, <1>7, <2>2, <3>2, BeginNested
    <3> QED BY <3>1, <3>2
  <2> QED BY <1>1, <1>2, <1>3, <1>7, <2>1, <2>3
<1> QED BY <1>4, <1>5, <1>6, <1>7, Zenon DEF BeginSegment

-----------------------------------------------------------------------------
(* write_segment_data: the section at hand                                  *)
LEMMA HandIs ==
    ASSUME Shaped, Typed, OrdInv, Lines, pc = "members", turn <= Len(order), More
    PROVE  /\ order[turn] \in 1..Len(segments) /\ Segment = segments[order[turn]]
           /\ cur.member \in 1..Len(Segment.members) /\ Len(Segment.members) \in Nat
           /\ Segment.members # <<>> /\ Len(sections) \in Nat
           /\ Upcoming \in 2..Len(sections) /\ Upcoming \in 1..Len(sections) /\ Upcoming \in Span(Segment)
           /\ sections[Upcoming].type # "null"
           /\ sections[Upcoming].type = "nobits" => sections[Upcoming].alloc
           /\ \A m \in 1..Len(Segment.members) :
                /\ Segment.members[m] \in 1..Len(sections) /\ Segment.members[m] \in Span(Segment)
                /\ Segment.members[m] \in Nat
           /\ \A m \in 1..cur.member - 1 :
                /\ m \in 1..Len(Segment.members) /\ Segment.members[m] < Upcoming
                /\ sections[Upcoming].alloc => sections[Segment.members[m]].alloc
           /\ \A m \in cur.member + 1..Len(Segment.members) :
                m \in 1..Len(Segment.members) /\ Upcoming < Segment.members[m]
           /\ Segmented(Segment, Len(sections)) /\ Segment.vaddr \in Nat
<1>1. PICK n : n = order[turn]
  OBVIOUS
<1>2. PICK g : g = segments[n]
  OBVIOUS
<1>3. n \in 1..Len(segments) /\ Segment = g
  BY <1>1, <1>2, AtHand DEF Segment
<1>4. PICK m : m = cur.member
  OBVIOUS
<1>5. /\ Segmented(g, Len(sections)) /\ Len(sections) \in Nat /\ Len(g.members) \in Nat
      /\ \A k \in 1..Len(g.members) : g.members[k] \in 1..Len(sections) /\ g.members[k] \in Span(g)
  BY <1>2, <1>3, SpanOf
<1>6. m \in 1..Len(g.members)
  BY <1>3, <1>4, <1>5 DEF Typed, Turns, Saving, SaveSteps, More
<1>7. Listing(g)
  BY <1>2, <1>3 DEF Lines
<1>8. Upcoming = g.members[m]
  BY <1>3, <1>4 DEF Upcoming
<1>9. \A k \in 1..Len(g.members) : g.members[k] \in Nat /\ g.members[k] > 1
  BY <1>5, <1>7 DEF Listing
<1>10. g.members # <<>>
  <2>1. Len(<<>>) = 0
    OBVIOUS
  <2> QED BY <1>6, <2>1
<1>11. /\ g.members[m] \in 2..Len(sections) /\ sections[g.members[m]].type # "null"
       /\ sections[g.members[m]].type = "nobits" => sections[g.members[m]].alloc
       /\ \A j \in 1..m - 1 : sections[g.members[m]].alloc => sections[g.members[j]].alloc
  BY <1>5, <1>6, <1>7, <1>9 DEF Listing
<1>12. \A j \in 1..m - 1 : j \in 1..Len(g.members) /\ g.members[j] < g.members[m]
  BY <1>5, <1>6, <1>7 DEF Listing, Rising
<1>13. \A j \in m + 1..Len(g.members) : j \in 1..Len(g.members) /\ g.members[m] < g.members[j]
  BY <1>5, <1>6, <1>7 DEF Listing, Rising
<1>14. g.vaddr \in Nat
  BY <1>5, WordIs DEF Segmented
<1> QED BY <1>1, <1>2, <1>3, <1>4, <1>5, <1>6, <1>8, <1>9, <1>10, <1>11, <1>12, <1>13, <1>14

LEMMA CurIs ==
    ASSUME Typed
    PROVE  /\ cur.start \in Nat /\ cur.mem \in Nat /\ cur.file \in Nat /\ pos \in Nat
           /\ cur.start \in 0..WORD - 1 /\ cur.mem \in 0..WORD - 1 /\ cur.file \in 0..WORD - 1
           /\ pos \in 0..WORD - 1
  BY WordIs DEF Typed, Spots

LEMMA PlaceNats ==
    ASSUME Shaped, NEW i \in 1..Len(sections)
    PROVE  /\ sections[i].offset \in Nat /\ sections[i].size \in Nat /\ sections[i].addr \in Nat
           /\ FileSize(sections[i]) \in Nat
           /\ sections[i].type # "nobits" => FileSize(sections[i]) = sections[i].size
           /\ sections[i].type = "nobits" => FileSize(sections[i]) = 0
  BY ShapedIs, WordIs DEF FileSize

(* Sections change only in where they are; those with an address keep it.   *)
Steady ==
    /\ segments' = segments /\ Len(sections') = Len(sections)
    /\ \A k \in 1..Len(sections) : LET s == sections[k] x == sections'[k] IN
        /\ x.type = s.type /\ x.size = s.size /\ x.alloc = s.alloc /\ x.tls = s.tls
        /\ s.addrSet => x.addrSet /\ x.addr = s.addr

LEMMA SteadyKeeps ==
    ASSUME Shaped, Typed, Steady, NEW n \in 1..Len(segments)
    PROVE  LET g == segments[n] IN
           /\ Rowed(g) => Rowed(g)'
           /\ Listing(g) => Listing(g)'
           /\ \A i \in 1..Len(sections) : Straight(i, g)' <=> Straight(i, g)
           /\ g.members # <<>> /\ AtSectionStart(g) => AtSectionStart(g)'
           /\ g.members # <<>> /\ RoomForHeaders(g) => RoomForHeaders(g)'
<1>1. PICK g : g = segments[n]
  OBVIOUS
<1>2. /\ Len(g.members) \in Nat /\ \A k \in 1..Len(g.members) : g.members[k] \in 1..Len(sections)
      /\ Span(g) \subseteq 1..Len(sections)
      /\ g.members # <<>> => 1 \in 1..Len(g.members)
  BY <1>1, SpanOf
<1>3. \A k \in 1..Len(sections) :
        /\ sections'[k].type = sections[k].type /\ sections'[k].size = sections[k].size
        /\ sections'[k].alloc = sections[k].alloc /\ sections'[k].tls = sections[k].tls
        /\ sections[k].addrSet => sections'[k].addrSet /\ sections'[k].addr = sections[k].addr
        /\ InFile(sections'[k]) <=> InFile(sections[k])
        /\ InMemory(sections'[k], g) <=> InMemory(sections[k], g)
  BY DEF Steady, InFile, InMemory
<1>4. ASSUME Rowed(g) PROVE Rowed(g)'
  <2>1. \A k \in 1..Len(g.members) : sections[g.members[k]].addrSet
    BY <1>4 DEF Rowed
  <2>2. \A k \in 0..Len(g.members) : End(g, k)' = End(g, k)
    <3> SUFFICES ASSUME NEW k \in 0..Len(g.members) PROVE End(g, k)' = End(g, k)
      OBVIOUS
    <3>1. CASE k = 0
      BY <3>1 DEF End
    <3>2. CASE k # 0
      <4>1. k \in 1..Len(g.members)
        BY <1>2, <3>2
      <4>2. PICK i : i = g.members[k]
        OBVIOUS
      <4>3. /\ i \in 1..Len(sections) /\ sections'[i].addr = sections[i].addr
            /\ sections'[i].size = sections[i].size /\ sections'[i].alloc = sections[i].alloc
            /\ InMemory(sections'[i], g) <=> InMemory(sections[i], g)
        BY <1>2, <1>3, <2>1, <4>1, <4>2
      <4> QED BY <3>2, <4>2, <4>3 DEF End
    <3> QED BY <3>1, <3>2
  <2> SUFFICES ASSUME NEW k \in 1..Len(g.members)
               PROVE  /\ sections'[g.members[k]].addrSet
                      /\ \A j \in 0..k - 1 : End(g, j)' <= sections'[g.members[k]].addr
                      /\ InFile(sections'[g.members[k]]) \/ sections'[g.members[k]].addr = End(g, k - 1)'
    BY DEF Rowed
  <2>3. PICK i : i = g.members[k]
    OBVIOUS
  <2>4. /\ i \in 1..Len(sections) /\ sections[i].addrSet
        /\ \A j \in 0..k - 1 : End(g, j) <= sections[i].addr
        /\ InFile(sections[i]) \/ sections[i].addr = End(g, k - 1)
    BY <1>2, <1>4, <2>3 DEF Rowed
  <2>5. \A j \in 0..k - 1 : j \in 0..Len(g.members)
    BY <1>2
  <2>6. k - 1 \in 0..k - 1
    BY <1>2
  <2>7. sections'[i].addrSet /\ sections'[i].addr = sections[i].addr
        /\ (InFile(sections'[i]) <=> InFile(sections[i]))
    BY <1>3, <2>4
  <2> QED BY <2>2, <2>3, <2>4, <2>5, <2>6, <2>7
<1>5. Listing(g) => Listing(g)'
  <2>1. Rising(g)' <=> Rising(g)
    BY Zenon DEF Rising
  <2>2. Pages(g)' = Pages(g)
    BY DEF Pages
  <2> SUFFICES ASSUME Listing(g), NEW k \in 1..Len(g.members)
               PROVE  /\ g.members[k] > 1 /\ sections'[g.members[k]].type # "null"
                      /\ sections'[g.members[k]].type = "nobits" => sections'[g.members[k]].alloc
                      /\ \A j \in 1..k - 1 : sections'[g.members[k]].alloc => sections'[g.members[j]].alloc
    BY <2>1, <2>2 DEF Listing
  <2>3. /\ g.members[k] > 1 /\ sections[g.members[k]].type # "null"
        /\ sections[g.members[k]].type = "nobits" => sections[g.members[k]].alloc
        /\ \A j \in 1..k - 1 : sections[g.members[k]].alloc => sections[g.members[j]].alloc
    BY DEF Listing
  <2>4. \A j \in 1..k - 1 : j \in 1..Len(g.members)
    BY <1>2
  <2> QED BY <1>2, <1>3, <2>3, <2>4
<1>6. \A i \in 1..Len(sections) : Straight(i, g)' <=> Straight(i, g)
  BY <1>2, <1>3 DEF Straight
<1>7. g.members # <<>> /\ AtSectionStart(g) => AtSectionStart(g)'
  BY <1>2, <1>3 DEF AtSectionStart
<1>8. g.members # <<>> /\ RoomForHeaders(g) => RoomForHeaders(g)'
  BY <1>2, <1>3 DEF RoomForHeaders, Steady
<1>9. g = segments'[n]
  BY <1>1 DEF Steady
<1> QED BY <1>1, <1>4, <1>5, <1>6, <1>7, <1>8, <1>9

LEMMA SteadyFamilies ==
    ASSUME Shaped, Typed, Steady
    PROVE  /\ Lines => Lines'
           /\ Families => Families'
           /\ \A n \in 1..Len(segments) : Headed(segments[n]) /\ Heading(n) => Heading(n)'
           /\ Headers' = Headers /\ Headers \in Nat
<1>0. \A n \in 1..Len(segments) : segments'[n] = segments[n]
  BY DEF Steady
<1>1. Lines => Lines'
  <2>1. \A n \in 1..Len(segments) : Listing(segments[n]) => Listing(segments[n])'
    BY SteadyKeeps
  <2> QED BY <2>1 DEF Lines, Steady
<1>2. ASSUME Families PROVE Families'
  <2> SUFFICES ASSUME NEW n \in 1..Len(segments), NEW o \in 1..Len(segments), n # o,
                      Span(segments[n]) \cap Span(segments[o]) # {}
               PROVE  Akin(segments[n], segments[o])'
    BY DEF Families, Steady
  <2>1. Akin(segments[n], segments[o])
    BY <1>2 DEF Families
  <2>2. Rowed(segments[n])' /\ Rowed(segments[o])'
    BY <2>1, SteadyKeeps DEF Akin
  <2>3. segments[n].members # <<>> /\ segments[n].members[1] \in 1..Len(sections)
    BY SpanOf
  <2>4. Nests(segments[n], segments[o]) => Nests(segments[n], segments[o])'
    BY <1>0, <2>3, SteadyKeeps DEF Nests
  <2> QED BY <1>0, <2>1, <2>2, <2>4 DEF Akin
<1>3. ASSUME NEW n \in 1..Len(segments), Headed(segments[n]), Heading(n) PROVE Heading(n)'
  <2>1. segments[n].members # <<>>
    BY <1>3 DEF Headed
  <2>2. Rowed(segments[n])' /\ RoomForHeaders(segments[n])'
    BY <1>3, <2>1, SteadyKeeps DEF Heading
  <2> QED BY <1>0, <1>3, <2>2 DEF Heading, Steady
<1>4. Headers' = Headers /\ Headers \in Nat
  <2>1. Len(segments) \in Nat
    BY ShapedIs, Listed DEF Typed
  <2> QED BY <2>1 DEF Headers, EHDR, PHDR, Steady
<1> QED BY <1>1, <1>2, <1>3, <1>4

(* The m-th section of g at hand, i, which is s: where its row ends and     *)
(* goes on                                                                  *)
Hand(g, m, i, s) ==
    /\ g = Segment /\ m = cur.member /\ i = Upcoming /\ s = sections[i]
    /\ End(g, m) = s.addr + (IF s.alloc /\ ~ InMemory(s, g) THEN 0 ELSE s.size)
    /\ End(g, m - 1) \in Nat
    /\ Rowed(g) =>
        /\ s.addrSet /\ g.vaddr <= s.addr /\ (InFile(s) \/ s.addr = End(g, m - 1))
        /\ \A k \in 1..m - 1 : LET x == sections[g.members[k]] IN
                InMemory(x, g) => x.addr + x.size <= s.addr
        /\ m + 1 \in 1..Len(g.members) => LET x == sections[g.members[m + 1]] IN
                End(g, m) <= x.addr /\ (InFile(x) \/ x.addr = End(g, m))

LEMMA RowIs ==
    ASSUME Shaped, Typed, OrdInv, Lines, pc = "members", turn <= Len(order), More
    PROVE  \E g, m, i, s : Hand(g, m, i, s)
<1>1. PICK g : g = Segment
  OBVIOUS
<1>2. PICK m : m = cur.member
  OBVIOUS
<1>3. PICK i : i = Upcoming
  OBVIOUS
<1>4. PICK s : s = sections[i]
  OBVIOUS
<1>5. /\ m \in 1..Len(g.members) /\ Len(g.members) \in Nat /\ i = g.members[m] /\ g.vaddr \in Nat
      /\ \A k \in 1..Len(g.members) : g.members[k] \in 1..Len(sections)
  BY <1>1, <1>2, <1>3, HandIs DEF Upcoming
<1>6. ASSUME NEW k \in 1..Len(g.members)
      PROVE  /\ End(g, k) = LET x == sections[g.members[k]]
                            IN x.addr + (IF x.alloc /\ ~ InMemory(x, g) THEN 0 ELSE x.size)
             /\ End(g, k) \in Nat
  <2>1. k # 0
    BY <1>5
  <2>2. PICK x : x = sections[g.members[k]]
    OBVIOUS
  <2>3. End(g, k) = x.addr + (IF x.alloc /\ ~ InMemory(x, g) THEN 0 ELSE x.size)
    BY <2>1, <2>2 DEF End
  <2>4. x.addr \in Nat /\ x.size \in Nat
    BY <1>5, <2>2, PlaceNats
  <2>5. End(g, k) \in Nat
    BY <2>3, <2>4
  <2> QED BY <2>2, <2>3, <2>5
<1>7. End(g, m) = s.addr + (IF s.alloc /\ ~ InMemory(s, g) THEN 0 ELSE s.size)
  BY <1>4, <1>5, <1>6
<1>8. End(g, m - 1) \in Nat
  <2>1. CASE m = 1
    BY <1>5, <2>1 DEF End
  <2>2. CASE m # 1
    <3>1. m - 1 \in 1..Len(g.members)
      BY <1>5, <2>2
    <3> QED BY <1>6, <3>1
  <2> QED BY <2>1, <2>2
<1>9. ASSUME Rowed(g)
      PROVE  /\ s.addrSet /\ g.vaddr <= s.addr /\ (InFile(s) \/ s.addr = End(g, m - 1))
             /\ \A k \in 1..m - 1 : LET x == sections[g.members[k]] IN
                    InMemory(x, g) => x.addr + x.size <= s.addr
             /\ m + 1 \in 1..Len(g.members) => LET x == sections[g.members[m + 1]] IN
                    End(g, m) <= x.addr /\ (InFile(x) \/ x.addr = End(g, m))
  <2>1. /\ s.addrSet /\ (InFile(s) \/ s.addr = End(g, m - 1))
        /\ \A k \in 0..m - 1 : End(g, k) <= s.addr
    BY <1>4, <1>5, <1>9 DEF Rowed
  <2>2. g.vaddr <= s.addr
    <3>1. 0 \in 0..m - 1
      BY <1>5
    <3>2. End(g, 0) = g.vaddr
      BY DEF End
    <3> QED BY <2>1, <3>1, <3>2
  <2>3. ASSUME NEW k \in 1..m - 1, InMemory(sections[g.members[k]], g)
        PROVE  sections[g.members[k]].addr + sections[g.members[k]].size <= s.addr
    <3>1. k \in 1..Len(g.members) /\ k \in 0..m - 1
      BY <1>5
    <3>2. End(g, k) = sections[g.members[k]].addr + sections[g.members[k]].size
      BY <1>6, <2>3, <3>1
    <3> QED BY <2>1, <3>1, <3>2
  <2>4. ASSUME m + 1 \in 1..Len(g.members)
        PROVE  LET x == sections[g.members[m + 1]] IN
                    End(g, m) <= x.addr /\ (InFile(x) \/ x.addr = End(g, m))
    <3>1. m \in 0..(m + 1) - 1 /\ (m + 1) - 1 = m
      BY <1>5
    <3> QED BY <1>9, <2>4, <3>1 DEF Rowed
  <2> QED BY <2>1, <2>2, <2>3, <2>4
<1>10. Hand(g, m, i, s)
  BY <1>1, <1>2, <1>3, <1>4, <1>7, <1>8, <1>9 DEF Hand
<1> QED BY <1>10

(* What a placed section adds to a segment                                  *)
LEMMA HandExtended ==
    ASSUME Typed, NEW i \in 1..Len(sections), Shaped, NEW d \in Nat, Leave(i) = d,
           (cur.mem + (sections[i].size + d)) < WORD,
           sections[i].type # "nobits" => (cur.file + (sections[i].size + d)) < WORD,
           cur' = Extended(i), turn' = turn, order' = order, segments' = segments
    PROVE  /\ cur'.start = cur.start /\ cur'.member = cur.member + 1
           /\ cur'.file = IF sections[i].type # "nobits" THEN cur.file + (sections[i].size + d) ELSE cur.file
           /\ cur'.mem = IF InMemory(sections[i], Segment) THEN cur.mem + (sections[i].size + d) ELSE cur.mem
           /\ cur'.file \in Nat /\ cur'.mem \in Nat /\ cur.file <= cur'.file /\ cur.mem <= cur'.mem
           /\ Segment' = Segment
<1>1. sections[i].size \in Nat
  BY PlaceNats
<1>2. cur.mem \in Nat /\ cur.file \in Nat
  BY CurIs
<1>3. PICK more : more = sections[i].size + d
  OBVIOUS
<1>4. more \in Nat /\ cur.mem + more < WORD
  BY <1>1, <1>3
<1>5. Plus(cur.mem, more) = cur.mem + more
  BY <1>2, <1>4, PlusIs
<1>6. sections[i].type # "nobits" => Plus(cur.file, more) = cur.file + more
  <2>1. sections[i].type # "nobits" => cur.file + more < WORD
    BY <1>3
  <2> QED BY <1>2, <1>4, <2>1, PlusIs
<1>7. {"start", "mem", "file", "member"} \subseteq DOMAIN cur
  BY DEF Typed, Spots, CurFields
<1>8. cur' = [cur EXCEPT !.member = @ + 1,
                    !.mem  = IF InMemory(sections[i], Segment) THEN Plus(@, more) ELSE @,
                    !.file = IF sections[i].type # "nobits" THEN Plus(@, more) ELSE @]
  BY <1>3 DEF Extended
<1>9. /\ cur'.start = cur.start /\ cur'.member = cur.member + 1
      /\ cur'.file = IF sections[i].type # "nobits" THEN Plus(cur.file, more) ELSE cur.file
      /\ cur'.mem = IF InMemory(sections[i], Segment) THEN Plus(cur.mem, more) ELSE cur.mem
  BY <1>7, <1>8
<1>10. /\ cur'.file = IF sections[i].type # "nobits" THEN cur.file + more ELSE cur.file
       /\ cur'.mem = IF InMemory(sections[i], Segment) THEN cur.mem + more ELSE cur.mem
  BY <1>5, <1>6, <1>9
<1>11. cur'.file \in Nat /\ cur'.mem \in Nat /\ cur.file <= cur'.file /\ cur.mem <= cur'.mem
  BY <1>2, <1>4, <1>10
<1>12. Segment' = Segment
  BY DEF Segment
<1> QED BY <1>3, <1>9, <1>10, <1>11, <1>12

(* What the placing of one section leaves as it is                          *)
LEMMA GoesOn ==
    ASSUME Shaped, Typed, OrdInv, Lines, pc = "members", pc' = "members", turn <= Len(order), More,
           segments' = segments, order' = order, turn' = turn, cur'.member = cur.member + 1
    PROVE  /\ Segment' = Segment /\ Laid' = Laid /\ Queue' = order /\ Placing' /\ ~ Written'
           /\ Settled' = generated' /\ Done' = Done \cup {Upcoming}
           /\ \A j \in Done : j < Upcoming
           /\ \A j \in Done : \E k \in 1..cur.member - 1 : k \in 1..Len(Segment.members) /\ j = Segment.members[k]
           /\ Ahead' = Ahead
           /\ More' => LET k == cur.member + 1 IN
                /\ k \in 1..Len(Segment.members) /\ Upcoming' = Segment.members[k] /\ k - 1 = cur.member
                /\ Upcoming < Segment.members[k]
<1>1. Segment' = Segment
  BY DEF Segment
<1>2. Laid' = Laid /\ Placing' /\ ~ Written' /\ Settled' = generated'
  BY DEF Laid, Placing, Written, Settled
<1>3. Queue' = order
  BY <1>2, AtHand DEF Queue, Placing
<1>4. PICK m : m = cur.member
  OBVIOUS
<1>5. PICK g : g = Segment
  OBVIOUS
<1>6. /\ m \in 1..Len(g.members) /\ Len(g.members) \in Nat /\ Upcoming = g.members[m]
      /\ \A k \in 1..m - 1 : k \in 1..Len(g.members) /\ g.members[k] < Upcoming
      /\ \A k \in m + 1..Len(g.members) : k \in 1..Len(g.members) /\ Upcoming < g.members[k]
  BY <1>4, <1>5, HandIs DEF Upcoming
<1>7. Done = {g.members[j] : j \in 1..m - 1}
  BY <1>4, <1>5 DEF Done
<1>8. Done' = {g.members[j] : j \in 1..m}
  <2>1. (m + 1) - 1 = m
    BY <1>6
  <2> QED BY <1>1, <1>4, <1>5, <2>1 DEF Done
<1>9. 1..m = (1..m - 1) \cup {m}
  BY <1>6
<1>10. Done' = Done \cup {Upcoming}
  BY <1>6, <1>7, <1>8, <1>9
<1>11. Ahead' = Ahead
  BY <1>2 DEF Ahead
<1>12. ASSUME More'
       PROVE  LET k == m + 1 IN
                /\ k \in 1..Len(g.members) /\ Upcoming' = g.members[k] /\ k - 1 = m
                /\ Upcoming < g.members[k]
  <2>1. m + 1 <= Len(g.members) /\ Upcoming' = g.members[m + 1]
    BY <1>1, <1>4, <1>5, <1>12 DEF More, Upcoming
  <2>2. m + 1 \in m + 1..Len(g.members) /\ (m + 1) - 1 = m
    BY <1>6, <2>1
  <2> QED BY <1>6, <2>1, <2>2
<1> QED BY <1>1, <1>2, <1>3, <1>4, <1>5, <1>6, <1>7, <1>10, <1>11, <1>12

(* A section that has its place already adds to the memory and the file     *)
(* what lies between.                                                       *)
LEMMA MemoryGrows ==
    ASSUME NEW a \in Nat, NEW v \in Nat, NEW e \in Nat, NEW file \in Nat, NEW mem \in Nat,
           NEW d \in Nat, NEW size \in Nat, file <= mem,
           (a - v = file + d) \/ (a = e /\ e <= v + mem)
    PROVE  (a + size) <= (v + (mem + (size + d)))
  OBVIOUS

LEMMA NestedCur ==
    ASSUME Shaped, Typed, OrdInv, Lines, Settles, Families, AllLaid, CurNested,
           pc = "members", pc' = "members", turn <= Len(order), More,
           cur' = Extended(Upcoming), (cur.mem + (sections[Upcoming].size + Leave(Upcoming))) < WORD,
           sections' = sections, segments' = segments, order' = order, turn' = turn,
           pos' = pos, generated' = generated
    PROVE  CurNested'
<1>1. PICK g, m, i, s : Hand(g, m, i, s)
  BY RowIs
<1>2. /\ g = Segment /\ m = cur.member /\ i = Upcoming /\ s = sections[i]
      /\ i \in 1..Len(sections) /\ i \in Span(g) /\ i = g.members[m]
      /\ m \in 1..Len(g.members) /\ Len(g.members) \in Nat /\ g.members # <<>>
      /\ s.type # "null" /\ (s.type = "nobits" => s.alloc) /\ g.vaddr \in Nat
      /\ \A k \in 1..Len(g.members) :
            g.members[k] \in 1..Len(sections) /\ g.members[k] \in Span(g) /\ g.members[k] \in Nat
      /\ \A k \in 1..m - 1 : k \in 1..Len(g.members) /\ g.members[k] < i
                             /\ (s.alloc => sections[g.members[k]].alloc)
      /\ \A k \in m + 1..Len(g.members) : k \in 1..Len(g.members) /\ i < g.members[k]
  BY <1>1, HandIs DEF Hand, Upcoming
<1>3. PICK start : start = cur.start
  OBVIOUS
<1>4. PICK file : file = cur.file
  OBVIOUS
<1>5. PICK mem : mem = cur.mem
  OBVIOUS
<1>6. /\ start \in 0..WORD - 1 /\ file \in 0..WORD - 1 /\ mem \in 0..WORD - 1 /\ pos \in 0..WORD - 1
      /\ start \in Nat /\ file \in Nat /\ mem \in Nat /\ pos \in Nat
  BY <1>3, <1>4, <1>5, CurIs
<1>7. /\ Span(g) \subseteq generated /\ Rowed(g) /\ AtSectionStart(g)
      /\ start = sections[g.members[1]].offset /\ start + file <= pos
      /\ \A j \in m..Len(g.members) : start + file <= sections[g.members[j]].offset
      /\ Covers(Done, g, start, file, mem) /\ InMem
  BY <1>2, <1>3, <1>4, <1>5 DEF CurNested
<1>8. PICK f \in Laid : Inside(f, g)
  BY <1>2 DEF CurNested
<1>9. PICK F : F = segments[f]
  OBVIOUS
<1>10. /\ Root(F) /\ Span(g) \subseteq Span(F) /\ (file > 0 => start + file <= F.offset + F.filesz)
  BY <1>3, <1>4, <1>8, <1>9 DEF Inside
<1>11. f \in 1..Len(segments) /\ Settled = generated
  BY AtHand
<1>12. LaidOut(F) /\ Segmented(F, Len(sections))
  <2>1. F.members # <<>>
    BY <1>2, <1>9, <1>10, <1>11, SpanOf
  <2> QED BY <1>9, <1>11, <2>1, SpanOf DEF AllLaid
<1>13. F.offset \in Nat /\ F.filesz \in Nat /\ F.vaddr \in Nat
  BY <1>12, WordIs DEF Segmented
<1>14. \A x \in 1..Len(sections) :
          /\ sections[x].offset \in Nat /\ sections[x].size \in Nat /\ sections[x].addr \in Nat
          /\ FileSize(sections[x]) \in Nat
          /\ sections[x].type # "nobits" => FileSize(sections[x]) = sections[x].size
          /\ sections[x].type = "nobits" => FileSize(sections[x]) = 0
  BY PlaceNats
<1>15. PICK d : d = (s.offset - start) - file
  OBVIOUS
<1>16. /\ s.offset \in 0..WORD - 1 /\ s.offset \in Nat /\ s.size \in Nat /\ s.addr \in Nat
       /\ start + file <= s.offset /\ d \in Nat /\ (start + file) + d = s.offset
  <2>1. s.offset \in 0..WORD - 1
    BY <1>2, ShapedIs
  <2>2. s.offset \in Nat /\ s.size \in Nat /\ s.addr \in Nat
    BY <1>2, <1>14
  <2>3. start + file <= s.offset
    <3>1. m \in m..Len(g.members)
      BY <1>2
    <3> QED BY <1>2, <1>7, <3>1
  <2>4. PICK o : o = s.offset
    OBVIOUS
  <2>5. o \in Nat /\ start + file <= o /\ d = (o - start) - file
    BY <1>15, <2>2, <2>3, <2>4
  <2>6. d \in Nat
    BY <1>6, <2>5
  <2>7. (start + file) + d = o
    BY <1>6, <2>5
  <2> QED BY <2>1, <2>2, <2>3, <2>4, <2>6, <2>7
<1>17. Leave(i) = d
  <2>1. PICK o : o = s.offset
    OBVIOUS
  <2>2. Minus(o, start) = o - start
    BY <1>6, <1>16, <2>1, MinusIs
  <2>3. PICK b : b = o - start
    OBVIOUS
  <2>7. o \in Nat /\ o < WORD /\ (start + file) + d = o /\ d \in Nat
    BY <1>16, <2>1, WordIs
  <2>8. b \in Nat /\ file <= b /\ b - file = d
    BY <1>6, <2>3, <2>7
  <2>9. b < WORD
    BY <1>6, <2>3, <2>7, WordIs
  <2>4. b \in 0..WORD - 1 /\ file <= b /\ b - file = d
    BY <2>8, <2>9, WordIs
  <2>5. Minus(b, file) = b - file
    BY <1>6, <2>4, MinusIs
  <2>6. i \in generated
    BY <1>2, <1>7
  <2> QED BY <1>2, <1>3, <1>4, <2>1, <2>2, <2>3, <2>4, <2>5, <2>6 DEF Leave
<1>18. s.offset + FileSize(s) <= pos
  BY <1>2, <1>7, <1>11 DEF Settles, Stretch
<1>19. s.type # "nobits" => s.offset + s.size <= pos /\ (file + (s.size + d)) < WORD
  <2> SUFFICES ASSUME s.type # "nobits"
               PROVE  s.offset + s.size <= pos /\ (file + (s.size + d)) < WORD
    OBVIOUS
  <2>1. s.offset + s.size <= pos
    BY <1>2, <1>14, <1>18
  <2>2. PICK o : o = s.offset
    OBVIOUS
  <2>3. PICK z : z = s.size
    OBVIOUS
  <2>4. o \in Nat /\ z \in Nat /\ d \in Nat /\ (start + file) + d = o /\ o + z <= pos /\ pos < WORD
    BY <1>6, <1>16, <2>1, <2>2, <2>3, WordIs
  <2>5. file + (z + d) < WORD
    BY <1>6, <2>4, WordIs
  <2> QED BY <2>1, <2>3, <2>5
<1>20. (mem + (s.size + d)) < WORD
  BY <1>2, <1>5, <1>17
<1>21. PICK file2 : file2 = cur'.file
  OBVIOUS
<1>22. PICK mem2 : mem2 = cur'.mem
  OBVIOUS
<1>23. /\ cur'.start = start /\ cur'.member = m + 1 /\ Segment' = g
       /\ file2 = IF s.type # "nobits" THEN file + (s.size + d) ELSE file
       /\ mem2 = IF InMemory(s, g) THEN mem + (s.size + d) ELSE mem
       /\ file2 \in Nat /\ mem2 \in Nat /\ file <= file2 /\ mem <= mem2
  BY <1>2, <1>3, <1>4, <1>5, <1>16, <1>17, <1>19, <1>20, <1>21, <1>22, HandExtended
<1>24. s.type # "nobits" => start + file2 = s.offset + s.size
  BY <1>6, <1>16, <1>23
<1>25. /\ Laid' = Laid /\ Done' = Done \cup {i} /\ \A j \in Done : j < i
       /\ \A j \in Done : \E k \in 1..m - 1 : k \in 1..Len(g.members) /\ j = g.members[k]
  BY <1>2, <1>23, GoesOn
<1>26. InFile(s) => s.addr - g.vaddr = s.offset - start
  <2> SUFFICES ASSUME InFile(s) PROVE s.addr - g.vaddr = s.offset - start
    OBVIOUS
  <2>1. PICK p : p = g.members[1]
    OBVIOUS
  <2>2. 1 \in 1..Len(g.members) /\ p \in 1..Len(sections) /\ p \in Span(g)
    BY <1>2, <2>1
  <2>3. Nests(g, F)
    <3>1. Span(g) \cap Span(F) # {}
      BY <1>10, <2>2
    <3> QED BY <1>2, <1>9, <3>1, ElderIs
  <2>4. Straight(p, F) /\ sections[p].addr = g.vaddr
    BY <2>1, <2>3 DEF Nests, AtSectionStart
  <2>5. Distant(p, F, F.offset) /\ Distant(i, F, F.offset)
    <3>1. Straight(i, F)
      BY <1>2 DEF Straight
    <3>2. p \in Span(F) /\ i \in Span(F)
      BY <1>2, <1>10, <2>2
    <3> QED BY <1>10, <2>4, <3>1, <3>2 DEF Root, Spread
  <2>6. /\ sections[p].offset - F.offset = sections[p].addr - F.vaddr
        /\ s.offset - F.offset = s.addr - F.vaddr /\ start = sections[p].offset
    BY <1>2, <1>7, <2>1, <2>5 DEF Distant
  <2>7. sections[p].offset \in Nat /\ sections[p].addr \in Nat
    BY <1>14, <2>2
  <2>8. PICK o : o = s.offset
    OBVIOUS
  <2>9. PICK a : a = s.addr
    OBVIOUS
  <2>10. PICK b : b = sections[p].addr
    OBVIOUS
  <2>11. PICK q : q = F.offset
    OBVIOUS
  <2>12. PICK v : v = F.vaddr
    OBVIOUS
  <2>13. start - q = b - v /\ o - q = a - v /\ g.vaddr = b
    BY <2>4, <2>6, <2>8, <2>9, <2>10, <2>11, <2>12
  <2>14. o \in Nat /\ a \in Nat /\ b \in Nat /\ q \in Nat /\ v \in Nat
    BY <1>13, <1>16, <2>7, <2>8, <2>9, <2>10, <2>11, <2>12
  <2>15. a - b = o - start
    BY <1>6, <2>13, <2>14
  <2> QED BY <2>8, <2>9, <2>13, <2>15
<1>27. /\ g.vaddr <= s.addr /\ (InFile(s) \/ s.addr = End(g, m - 1)) /\ End(g, m - 1) \in Nat
       /\ \A k \in 1..m - 1 : InMemory(sections[g.members[k]], g) =>
                sections[g.members[k]].addr + sections[g.members[k]].size <= s.addr
       /\ End(g, m) = s.addr + (IF s.alloc /\ ~ InMemory(s, g) THEN 0 ELSE s.size)
  BY <1>1, <1>7 DEF Hand
<1>28. (\A x \in Done : sections[x].alloc) => file <= mem /\ End(g, m - 1) <= g.vaddr + mem
  BY <1>2, <1>4, <1>5, <1>7 DEF InMem, More
<1>29. s.alloc => \A x \in Done : sections[x].alloc
  BY <1>2, <1>25
<1>30. s.alloc => (s.addr + s.size) <= (g.vaddr + (mem + (s.size + d)))
  <2> SUFFICES ASSUME s.alloc PROVE (s.addr + s.size) <= (g.vaddr + (mem + (s.size + d)))
    OBVIOUS
  <2>1. file <= mem /\ End(g, m - 1) <= g.vaddr + mem
    BY <1>28, <1>29
  <2>2. InFile(s) => s.addr - g.vaddr = file + d
    <3>1. PICK o : o = s.offset
      OBVIOUS
    <3>2. o \in Nat /\ (start + file) + d = o
      BY <1>16, <3>1
    <3>3. o - start = file + d
      BY <1>6, <1>16, <3>2
    <3> QED BY <1>26, <3>1, <3>3
  <2>3. PICK e : e = End(g, m - 1)
    OBVIOUS
  <2>4. PICK v : v = g.vaddr
    OBVIOUS
  <2>5. (s.addr - v = file + d) \/ (s.addr = e /\ e <= v + mem)
    BY <1>27, <2>1, <2>2, <2>3, <2>4
  <2>6. e \in Nat /\ v \in Nat
    BY <1>2, <1>27, <2>3, <2>4
  <2> QED BY <1>6, <1>16, <2>1, <2>4, <2>5, <2>6, MemoryGrows
<1>31. start + file2 <= pos
  BY <1>7, <1>19, <1>23, <1>24
<1>32. Inside(f, g)'
  <2>1. file2 > 0 => start + file2 <= F.offset + F.filesz
    <3>1. CASE s.type = "nobits"
      BY <1>10, <1>23, <3>1
    <3>2. CASE s.type # "nobits"
      <4>1. Covered(Span(F), F, i, F.offset, F.filesz, F.memsz)
        BY <1>2, <1>10, <1>12 DEF LaidOut, Covers
      <4>2. s.offset + s.size <= F.offset + F.filesz
        BY <1>2, <3>2, <4>1 DEF Covered
      <4> QED BY <1>24, <3>2, <4>2
    <3> QED BY <3>1, <3>2
  <2>2. segments'[f] = F /\ Root(F)'
    BY <1>9, <1>10, SameObject
  <2> QED BY <1>10, <1>21, <1>23, <2>1, <2>2 DEF Inside
<1>33. \A j \in m + 1..Len(g.members) : start + file2 <= sections[g.members[j]].offset
  <2> SUFFICES ASSUME NEW j \in m + 1..Len(g.members) PROVE start + file2 <= sections[g.members[j]].offset
    OBVIOUS
  <2>1. j \in m..Len(g.members) /\ j \in 1..Len(g.members) /\ i < g.members[j] /\ g.members[j] \in Span(F)
    BY <1>2, <1>10
  <2>2. CASE s.type = "nobits"
    BY <1>7, <1>23, <2>1, <2>2
  <2>3. CASE s.type # "nobits"
    <3>1. s.offset + FileSize(s) <= sections[g.members[j]].offset
      BY <1>2, <1>10, <2>1 DEF Root, Spread
    <3>2. FileSize(s) = s.size
      BY <1>2, <1>14, <2>3
    <3> QED BY <1>24, <2>3, <3>1, <3>2
  <2> QED BY <2>2, <2>3
<1>39. PICK D : D = Done'
  OBVIOUS
<1>34. \A x \in D : Covered(D, g, x, start, file2, mem2)
  <2>1. ASSUME NEW x \in Done PROVE Covered(D, g, x, start, file2, mem2)
    <3>1. Covered(Done, g, x, start, file, mem)
      BY <1>7 DEF Covers
    <3>2. PICK k \in 1..m - 1 : k \in 1..Len(g.members) /\ x = g.members[k]
      BY <1>25, <1>39
    <3>3. PICK y : y = sections[x]
      OBVIOUS
    <3>4. y.offset \in Nat /\ y.size \in Nat /\ y.addr \in Nat /\ x < i
      BY <1>2, <1>14, <3>2, <3>3
    <3>5. y.type # "nobits" => y.offset + y.size <= start + file2
      <4>1. y.type # "nobits" => y.offset + y.size <= start + file
        BY <3>1, <3>3 DEF Covered
      <4> QED BY <1>6, <1>23, <3>4, <4>1
    <3>6. InMemory(y, g) /\ y.size > 0 => y.addr >= g.vaddr /\ y.addr + y.size <= g.vaddr + mem2
      <4>1. InMemory(y, g) /\ y.size > 0 => y.addr >= g.vaddr /\ y.addr + y.size <= g.vaddr + mem
        BY <3>1, <3>3 DEF Covered
      <4>2. PICK v : v = g.vaddr
        OBVIOUS
      <4>3. v \in Nat /\ mem <= mem2 /\ mem2 \in Nat
        BY <1>2, <1>23, <4>2
      <4>4. v + mem <= v + mem2
        BY <1>6, <4>3
      <4>5. PICK e : e = y.addr + y.size
        OBVIOUS
      <4>6. e \in Nat
        BY <3>4, <4>5
      <4>7. e <= v + mem => e <= v + mem2
        BY <1>6, <4>3, <4>4, <4>6
      <4> QED BY <4>1, <4>2, <4>5, <4>7
    <3>7. \A j \in D : x < j /\ InMemory(y, g) /\ sections[j].alloc => y.addr + y.size <= sections[j].addr
      <4>1. \A j \in Done : x < j /\ InMemory(y, g) /\ sections[j].alloc => y.addr + y.size <= sections[j].addr
        BY <3>1, <3>3 DEF Covered
      <4>2. InMemory(y, g) => y.addr + y.size <= s.addr
        BY <1>27, <3>2, <3>3
      <4> QED BY <1>2, <1>25, <1>39, <4>1, <4>2
    <3> QED BY <3>1, <3>3, <3>5, <3>6, <3>7 DEF Covered
  <2>2. Covered(D, g, i, start, file2, mem2)
    <3>1. start <= s.offset
      BY <1>6, <1>16
    <3>2. s.type # "nobits" => s.offset + s.size <= start + file2
      BY <1>16, <1>24
    <3>3. InFile(s) => Distant(i, g, start)
      BY <1>2, <1>26 DEF Distant
    <3>4. InMemory(s, g) /\ s.size > 0 => s.addr >= g.vaddr /\ s.addr + s.size <= g.vaddr + mem2
      <4>1. InMemory(s, g) => s.alloc
        BY DEF InMemory
      <4> QED BY <1>2, <1>16, <1>23, <1>27, <1>30, <4>1
    <3>5. \A j \in D : ~ (i < j)
      <4>1. \A j \in Done : j \in Nat /\ j < i
        BY <1>2, <1>25
      <4>2. i \in Nat
        BY <1>2
      <4> QED BY <1>25, <1>39, <4>1, <4>2
    <3> QED BY <1>2, <3>1, <3>2, <3>3, <3>4, <3>5 DEF Covered
  <2> QED BY <1>25, <1>39, <2>1, <2>2
<1>35. Covers(D, g, start, file2, mem2)'
  BY <1>34, SameSections DEF Covers
<1>36. InMem'
  <2> SUFFICES ASSUME \A x \in Done' : sections[x].alloc
               PROVE  file2 <= mem2 /\ End(g, m) <= g.vaddr + mem2
    <3>1. (m + 1) - 1 = m
      BY <1>2
    <3> QED BY <1>21, <1>22, <1>23, <3>1, SameSections DEF InMem
  <2>1. s.alloc
    BY <1>2, <1>25
  <2>2. file <= mem /\ End(g, m - 1) <= g.vaddr + mem
    BY <1>28, <1>29, <2>1
  <2>3. CASE InMemory(s, g)
    <3>1. file2 <= mem2
      BY <1>6, <1>16, <1>23, <2>2, <2>3
    <3>2. End(g, m) = s.addr + s.size
      BY <1>27, <2>3
    <3> QED BY <1>23, <1>30, <2>1, <2>3, <3>1, <3>2
  <2>4. CASE ~ InMemory(s, g)
    <3>1. s.type = "nobits"
      BY <2>1, <2>4 DEF InMemory
    <3>2. s.addr = End(g, m - 1)
      BY <1>27, <3>1 DEF InFile
    <3>3. End(g, m) = s.addr + 0
      BY <1>27, <2>1, <2>4
    <3> QED BY <1>16, <1>23, <2>2, <2>4, <3>1, <3>2, <3>3
  <2> QED BY <2>3, <2>4
<1>37. (\E n \in Laid : Inside(n, Segment))'
  BY <1>23, <1>25, <1>32
<1>38. /\ (Span(g) \subseteq generated)' /\ Rowed(g)' /\ AtSectionStart(g)'
       /\ start = sections'[g.members[1]].offset
  BY <1>7, SameSections
<1> QED BY <1>21, <1>22, <1>23, <1>31, <1>33, <1>35, <1>36, <1>37, <1>38, <1>39 DEF CurNested

LEMMA NestedLays ==
    ASSUME Shaped, Typed, OrdInv, LayInv, regular, pc = "members", pc' = "members", turn <= Len(order), More,
           Upcoming \in generated, cur' = Extended(Upcoming),
           (cur.mem + (sections[Upcoming].size + Leave(Upcoming))) < WORD,
           sections' = sections, segments' = segments, order' = order, work' = work, turn' = turn,
           pos' = pos, generated' = generated
    PROVE  LayInv'
<1>1. /\ Lines /\ Settles /\ AllLaid /\ Rows /\ Families /\ Heads /\ HeadFirst /\ NothingYet /\ Owned
      /\ CurInv
  BY DEF LayInv, Writing, Placing
<1>2. ~ CurFresh
  <2>1. cur.member \in cur.member..Len(Segment.members)
    BY <1>1, HandIs
  <2> QED BY <2>1 DEF CurFresh, Upcoming
<1>3. Segment.members # <<>>
  BY <1>1, HandIs
<1>4. CurNested
  BY <1>1, <1>2, <1>3 DEF CurInv
<1>5. CurNested'
  BY <1>1, <1>4, NestedCur
<1>6. cur'.member = cur.member + 1
  <2>1. DOMAIN cur = CurFields
    BY DEF Typed, Spots
  <2> QED BY <2>1 DEF Extended, CurFields
<1>7. /\ Segment' = Segment /\ Laid' = Laid /\ Queue' = order /\ Placing' /\ ~ Written'
      /\ Settled' = generated' /\ Ahead' = Ahead
  BY <1>1, <1>6, GoesOn
<1>8. Queue = order /\ Settled = generated
  BY AtHand
<1>9. CurInv'
  BY <1>3, <1>5, <1>7 DEF CurInv
<1>10. Lines' /\ Families' /\ Heads' /\ HeadFirst'
  BY <1>1, <1>7, <1>8, SameObject DEF Heads, HeadFirst
<1>11. Rows'
  <2>1. \A g : Waiting(g)' <=> Waiting(g)
    BY Zenon DEF Waiting
  <2> QED BY <1>1, <2>1, SameSections DEF Rows
<1>12. Settles'
  BY <1>1, <1>7, <1>8, SameObject DEF Settles, Stretch, Clear
<1>13. AllLaid'
  <2>1. \A g : LaidOut(g)' <=> LaidOut(g)
    <3>1. \A S, g, start, file, mem : Covers(S, g, start, file, mem)' <=> Covers(S, g, start, file, mem)
      BY SameSections, Zenon DEF Covers
    <3>2. \A g : Pages(g)' = Pages(g)
      BY DEF Pages
    <3> QED BY <1>7, <1>8, <3>1, <3>2, SameSections DEF LaidOut
  <2> QED BY <1>1, <1>7, <2>1 DEF AllLaid
<1>14. Owned'
  <2>1. \A i \in generated : \E n \in Laid : i \in Span(segments[n]) /\ Root(segments[n])
    BY <1>1, <1>2 DEF Owned
  <2> QED BY <1>7, <2>1, SameObject DEF Owned
<1>15. NothingYet'
  BY <1>1, <1>7, SameObject DEF NothingYet
<1> QED BY <1>7, <1>9, <1>10, <1>11, <1>12, <1>13, <1>14, <1>15 DEF LayInv

(* A section that has no place yet gets one, d bytes on.                    *)
PlacesIt(i) ==
    /\ (pos + (sections[i].size + Leave(i))) < WORD
    /\ (cur.mem + (sections[i].size + Leave(i))) < WORD
    /\ ((Segment.vaddr + Minus(pos, cur.start)) + (sections[i].size + Leave(i))) < WORD
    /\ cur' = Extended(i)
    /\ sections' = [sections EXCEPT ![i] = Placed(@, Plus(pos, Leave(i)))]
    /\ pos' = After(sections[i], Plus(pos, Leave(i)))
    /\ generated' = generated \cup {i}
    /\ pc' = "members" /\ segments' = segments /\ order' = order /\ work' = work /\ turn' = turn

Landed(g, m, i, s, d) ==
    /\ Hand(g, m, i, s) /\ d \in Nat
    /\ sections'[i].offset = pos + d /\ pos' = (pos + d) + FileSize(s)
    /\ cur'.start = cur.start /\ cur'.member = m + 1
    /\ cur'.file = IF s.type # "nobits" THEN cur.file + (s.size + d) ELSE cur.file
    /\ cur'.mem = IF InMemory(s, g) THEN cur.mem + (s.size + d) ELSE cur.mem
    /\ Straight(i, g) => (pos + d) - cur.start = sections'[i].addr - g.vaddr
    /\ sections'[i].addr \in Nat /\ g.vaddr <= sections'[i].addr
    /\ Rowed(g) => sections'[i].addr = s.addr /\ (~ InFile(s) => d = 0)
    /\ ~ Rowed(g) => Waiting(g) /\ (pos + d) - cur.start = sections'[i].addr - g.vaddr
    /\ Steady /\ \A k \in 1..Len(sections) : k # i => sections'[k] = sections[k]

LEMMA LeaveReaches ==
    ASSUME Shaped, Typed, OrdInv, Lines, Rows, CurFresh, pc = "members", turn <= Len(order), More,
           NEW g, NEW m, NEW i, NEW s, Hand(g, m, i, s)
    PROVE  /\ Leave(i) \in Nat /\ Minus(pos, cur.start) = cur.file /\ cur.start + cur.file = pos
           /\ Rowed(g) =>
                /\ s.addrSet
                /\ InFile(s) => cur.file + Leave(i) = s.addr - g.vaddr
                /\ ~ InFile(s) => Leave(i) = 0
                /\ ~ InFile(s) /\ Straight(i, g) => cur.file = s.addr - g.vaddr
           /\ ~ Rowed(g) => Waiting(g) /\ ~ s.addrSet
<1>1. /\ g = Segment /\ i = Upcoming /\ s = sections[i] /\ g.vaddr \in 0..WORD - 1 /\ g.vaddr \in Nat
      /\ i \in 1..Len(sections) /\ s.type # "null" /\ i = g.members[cur.member]
      /\ cur.member \in 1..Len(g.members) /\ cur.member \in cur.member..Len(g.members)
      /\ order[turn] \in 1..Len(segments) /\ g = segments[order[turn]]
  BY HandIs DEF Hand, Upcoming, Segmented
<1>2. PICK start : start = cur.start
  OBVIOUS
<1>3. PICK file : file = cur.file
  OBVIOUS
<1>4. PICK p : p = pos
  OBVIOUS
<1>5. /\ start \in 0..WORD - 1 /\ file \in 0..WORD - 1 /\ p \in 0..WORD - 1
      /\ start \in Nat /\ file \in Nat /\ p \in Nat
  BY <1>2, <1>3, <1>4, CurIs
<1>6. /\ start + file = p
      /\ Rowed(g) => /\ p - start <= s.addr - g.vaddr
                     /\ Straight(i, g) => InFile(s) \/ p - start = s.addr - g.vaddr
  BY <1>1, <1>2, <1>3, <1>4 DEF CurFresh, Ready
<1>7. p - start = file
  BY <1>5, <1>6
<1>8. Minus(p, start) = file
  <2>1. start <= p
    BY <1>5, <1>6
  <2> QED BY <1>5, <1>7, <2>1, MinusIs
<1>9. i \notin generated
  BY <1>1 DEF CurFresh
<1>10. Rowed(g) => s.addrSet /\ g.vaddr <= s.addr
  BY DEF Hand
<1>11. Waiting(g) => ~ s.addrSet
  BY <1>1, <1>9 DEF Waiting
<1>12. Waiting(g) \/ Rowed(g)
  BY <1>1 DEF Rows
<1>13. Addressed(i) <=> s.addrSet /\ InFile(s)
  BY <1>1 DEF Addressed, InFile
<1>14. ASSUME Rowed(g), InFile(s) PROVE Leave(i) \in Nat /\ file + Leave(i) = s.addr - g.vaddr
  <2>1. PICK a : a = s.addr
    OBVIOUS
  <2>2. PICK v : v = g.vaddr
    OBVIOUS
  <2>3. a \in 0..WORD - 1 /\ v \in 0..WORD - 1 /\ v <= a /\ a \in Nat /\ v \in Nat
    <3>1. a \in 0..WORD - 1
      BY <1>1, <2>1, ShapedIs
    <3>2. a \in Nat
      BY <3>1, WordIs
    <3> QED BY <1>1, <1>10, <1>14, <2>1, <2>2, <3>1, <3>2
  <2>4. Minus(a, v) = a - v
    BY <2>3, MinusIs
  <2>5. PICK D : D = a - v
    OBVIOUS
  <2>6. D \in Nat /\ D <= a
    BY <2>3, <2>5
  <2>7. file <= D
    BY <1>6, <1>7, <1>14, <2>1, <2>2, <2>5
  <2>8. D \in 0..WORD - 1
    BY <2>3, <2>6, WordIs
  <2>9. Minus(D, file) = D - file
    BY <1>5, <2>7, <2>8, MinusIs
  <2>10. Leave(i) = Minus(Minus(a, v), Minus(p, start))
    BY <1>1, <1>2, <1>4, <1>9, <1>10, <1>13, <1>14, <2>1, <2>2 DEF Leave, Distance
  <2>11. Leave(i) = D - file
    BY <1>8, <2>4, <2>5, <2>9, <2>10
  <2>12. D - file \in Nat /\ file + (D - file) = D
    BY <1>5, <2>6, <2>7
  <2> QED BY <2>1, <2>2, <2>5, <2>11, <2>12
<1>15. ASSUME Rowed(g), ~ InFile(s) PROVE Leave(i) = 0
  BY <1>1, <1>9, <1>10, <1>13, <1>15 DEF Leave
<1>16. ASSUME ~ Rowed(g) PROVE Leave(i) \in Nat
  <2>1. Leave(i) = Gap(p, s.align)
    BY <1>1, <1>4, <1>9, <1>11, <1>12, <1>13, <1>16 DEF Leave
  <2>2. PICK a : a = s.align
    OBVIOUS
  <2>3. a \in Nat
    BY <1>1, <2>2, ShapedIs
  <2>4. Gap(p, a) \in Nat
    <3>1. a \in Int
      BY <2>3
    <3>2. p \in Int
      BY <1>5
    <3> QED BY <3>1, <3>2, GapIs
  <2> QED BY <2>1, <2>2, <2>4
<1>17. Leave(i) \in Nat
  <2>1. 0 \in Nat
    OBVIOUS
  <2> QED BY <1>14, <1>15, <1>16, <2>1
<1>18. Minus(pos, cur.start) = cur.file /\ cur.start + cur.file = pos
  BY <1>2, <1>3, <1>4, <1>6, <1>8
<1>19. Rowed(g) /\ ~ InFile(s) /\ Straight(i, g) => cur.file = s.addr - g.vaddr
  BY <1>3, <1>6, <1>7
<1>20. Rowed(g) /\ InFile(s) => cur.file + Leave(i) = s.addr - g.vaddr
  BY <1>3, <1>14
<1> QED BY <1>10, <1>11, <1>12, <1>15, <1>17, <1>18, <1>19, <1>20

LEMMA PlacesAt ==
    ASSUME Shaped, Typed, OrdInv, Lines, Rows, CurFresh, pc = "members", turn <= Len(order), More,
           PlacesIt(Upcoming)
    PROVE  \E g, m, i, s, d : Landed(g, m, i, s, d)
<1>1. PICK g, m, i, s : Hand(g, m, i, s)
  BY RowIs
<1>2. /\ g = Segment /\ m = cur.member /\ i = Upcoming /\ s = sections[i] /\ g.vaddr \in Nat
      /\ i \in 1..Len(sections)
  BY <1>1, HandIs DEF Hand
<1>3. PICK d : d = Leave(i)
  OBVIOUS
<1>4. /\ d \in Nat /\ Minus(pos, cur.start) = cur.file /\ cur.start + cur.file = pos
      /\ Rowed(g) =>
           /\ s.addrSet
           /\ InFile(s) => cur.file + d = s.addr - g.vaddr
           /\ ~ InFile(s) => d = 0
           /\ ~ InFile(s) /\ Straight(i, g) => cur.file = s.addr - g.vaddr
      /\ ~ Rowed(g) => Waiting(g) /\ ~ s.addrSet
  BY <1>1, <1>3, LeaveReaches
<1>5. /\ (pos + (s.size + d)) < WORD /\ (cur.mem + (s.size + d)) < WORD
      /\ ((g.vaddr + cur.file) + (s.size + d)) < WORD
      /\ sections' = [sections EXCEPT ![i] = Placed(s, Plus(pos, d))]
      /\ pos' = After(s, Plus(pos, d)) /\ cur' = Extended(i)
      /\ turn' = turn /\ order' = order /\ segments' = segments
  BY <1>2, <1>3, <1>4 DEF PlacesIt
<1>6. PICK start : start = cur.start
  OBVIOUS
<1>7. PICK file : file = cur.file
  OBVIOUS
<1>8. PICK p : p = pos
  OBVIOUS
<1>9. PICK z : z = s.size
  OBVIOUS
<1>10. PICK v : v = g.vaddr
  OBVIOUS
<1>11. /\ start \in Nat /\ file \in Nat /\ p \in Nat /\ z \in Nat /\ v \in Nat /\ start + file = p
       /\ start \in 0..WORD - 1
  BY <1>2, <1>4, <1>6, <1>7, <1>8, <1>9, <1>10, CurIs, PlaceNats
<1>12. p + (z + d) < WORD /\ (v + file) + (z + d) < WORD
  BY <1>5, <1>7, <1>8, <1>9, <1>10
<1>13. Plus(p, d) = p + d
  <2>1. p + d < WORD
    BY <1>4, <1>11, <1>12, WordIs
  <2> QED BY <1>4, <1>11, <2>1, PlusIs
<1>14. Plus(p + d, z) = (p + d) + z
  <2>1. (p + d) + z < WORD /\ p + d \in Nat
    BY <1>4, <1>11, <1>12, WordIs
  <2> QED BY <1>11, <2>1, PlusIs
<1>15. PICK at : at = p + d
  OBVIOUS
<1>16. at \in Nat /\ at < WORD /\ start <= at /\ at - start = file + d
  <2>1. at \in Nat /\ at < WORD
    BY <1>4, <1>11, <1>12, <1>15, WordIs
  <2>2. start <= at /\ at - start = file + d
    BY <1>4, <1>11, <1>15
  <2> QED BY <2>1, <2>2
<1>17. Plus(v, Minus(at, start)) = v + (file + d)
  <2>1. at \in 0..WORD - 1
    BY <1>16, WordIs
  <2>2. Minus(at, start) = file + d
    BY <1>11, <1>16, <2>1, MinusIs
  <2>3. PICK b : b = file + d
    OBVIOUS
  <2>4. b \in Nat /\ v + b < WORD
    BY <1>4, <1>11, <1>12, <2>3, WordIs
  <2>5. Plus(v, b) = v + b
    BY <1>11, <2>4, PlusIs
  <2> QED BY <2>2, <2>3, <2>5
<1>18. pos' = at + FileSize(s)
  <2>1. at + 0 = at
    BY <1>16
  <2> QED BY <1>5, <1>8, <1>9, <1>13, <1>14, <1>15, <2>1 DEF After, FileSize
<1>19. /\ i \in DOMAIN sections /\ DOMAIN sections = 1..Len(sections) /\ Len(sections) \in Nat
       /\ {"offset", "addr", "addrSet", "type", "size", "alloc", "tls"} \subseteq DOMAIN s
  BY <1>2, ShapedIs DEF PlaceFields, BufferFields
<1>20. PICK x : x = Placed(s, at)
  OBVIOUS
<1>21. /\ x.offset = at /\ x.addrSet /\ x.type = s.type /\ x.size = s.size /\ x.alloc = s.alloc
       /\ x.tls = s.tls /\ x.addr = IF s.addrSet THEN s.addr ELSE v + (file + d)
  <2>1. x = [s EXCEPT !.offset = at, !.addrSet = TRUE,
                      !.addr = IF s.addrSet THEN @ ELSE v + (file + d)]
    BY <1>2, <1>6, <1>10, <1>17, <1>20 DEF Placed
  <2> QED BY <1>19, <2>1
<1>22. /\ sections'[i] = x /\ Len(sections') = Len(sections)
       /\ \A k \in 1..Len(sections) : k # i => sections'[k] = sections[k]
  <2>1. sections' = [sections EXCEPT ![i] = x]
    BY <1>5, <1>8, <1>13, <1>15, <1>20
  <2>2. \E S : sections \in Seq(S)
    BY DEF Shaped
  <2> QED BY <1>19, <2>1, <2>2
<1>23. Steady
  BY <1>2, <1>5, <1>21, <1>22 DEF Steady
<1>24. ~ s.addrSet => at - start = x.addr - v
  <2>1. (v + (file + d)) - v = file + d
    BY <1>4, <1>11
  <2> QED BY <1>16, <1>21, <2>1
<1>25. Rowed(g) => x.addr = s.addr
  BY <1>4, <1>21
<1>26. s.addr \in Nat
  BY <1>2, PlaceNats
<1>27. x.addr \in Nat /\ v <= x.addr
  <2>1. CASE Rowed(g)
    BY <1>1, <1>10, <1>25, <1>26, <2>1 DEF Hand
  <2>2. CASE ~ Rowed(g)
    <3>1. v + (file + d) \in Nat /\ v <= v + (file + d)
      BY <1>4, <1>11
    <3> QED BY <1>4, <1>21, <2>2, <3>1
  <2> QED BY <2>1, <2>2
<1>28. Straight(i, g) => at - start = x.addr - v
  <2>1. CASE Rowed(g) /\ InFile(s)
    BY <1>4, <1>7, <1>10, <1>16, <1>25, <2>1
  <2>2. CASE Rowed(g) /\ ~ InFile(s)
    <3>1. d = 0
      BY <1>4, <2>2
    <3>2. at - start = file
      BY <1>11, <1>15, <3>1
    <3> QED BY <1>4, <1>7, <1>10, <1>25, <2>2, <3>2
  <2>3. CASE ~ Rowed(g)
    BY <1>4, <1>24, <2>3
  <2> QED BY <2>1, <2>2, <2>3
<1>29. /\ cur'.start = cur.start /\ cur'.member = m + 1
       /\ cur'.file = IF s.type # "nobits" THEN cur.file + (s.size + d) ELSE cur.file
       /\ cur'.mem = IF InMemory(s, g) THEN cur.mem + (s.size + d) ELSE cur.mem
  <2>1. cur.file + (s.size + d) < WORD
    <3>1. file + (z + d) < WORD
      BY <1>4, <1>11, <1>12, WordIs
    <3> QED BY <1>7, <1>9, <3>1
  <2> QED BY <1>2, <1>3, <1>4, <1>5, <2>1, HandExtended
<1>30. Landed(g, m, i, s, d)
  <2>1. pos + d = at
    BY <1>8, <1>15
  <2> QED BY <1>1, <1>4, <1>6, <1>10, <1>18, <1>21, <1>22, <1>23, <1>24, <1>25, <1>27, <1>28, <1>29, <2>1 DEF Landed
<1> QED BY <1>30

LEMMA FreshCur ==
    ASSUME Shaped, Typed, OrdInv, Lines, Rows, Settles, CurFresh, pc = "members", turn <= Len(order), More,
           PlacesIt(Upcoming)
    PROVE  CurFresh'
<1>1. PICK g, m, i, s, d : Landed(g, m, i, s, d)
  BY PlacesAt
<1>2. Hand(g, m, i, s) /\ d \in Nat
  BY <1>1 DEF Landed
<1>3. /\ g = Segment /\ m = cur.member /\ i = Upcoming /\ s = sections[i]
      /\ i \in 1..Len(sections) /\ i \in Nat /\ i \in Span(g) /\ i = g.members[m]
      /\ m \in 1..Len(g.members) /\ Len(g.members) \in Nat
      /\ s.type # "null" /\ (s.type = "nobits" => s.alloc)
  BY <1>2, HandIs DEF Hand, Upcoming
<1>4. /\ \A k \in 1..Len(g.members) :
            g.members[k] \in 1..Len(sections) /\ g.members[k] \in Span(g) /\ g.members[k] \in Nat
      /\ \A k \in 1..m - 1 : k \in 1..Len(g.members) /\ g.members[k] < i
                             /\ (s.alloc => sections[g.members[k]].alloc)
      /\ \A k \in m + 1..Len(g.members) : k \in 1..Len(g.members) /\ i < g.members[k]
  BY <1>2, HandIs DEF Hand, Upcoming
<1>5. /\ segments' = segments /\ order' = order /\ turn' = turn /\ pc' = "members"
      /\ generated' = generated \cup {i}
  BY <1>3 DEF PlacesIt
<1>6. PICK start : start = cur.start
  OBVIOUS
<1>7. PICK file : file = cur.file
  OBVIOUS
<1>8. PICK mem : mem = cur.mem
  OBVIOUS
<1>9. PICK p : p = pos
  OBVIOUS
<1>10. PICK v : v = g.vaddr
  OBVIOUS
<1>11. PICK z : z = s.size
  OBVIOUS
<1>12. PICK a2 : a2 = sections'[i].addr
  OBVIOUS
<1>13. PICK o2 : o2 = sections'[i].offset
  OBVIOUS
<1>14. PICK f2 : f2 = cur'.file
  OBVIOUS
<1>15. PICK m2 : m2 = cur'.mem
  OBVIOUS
<1>16. PICK p2 : p2 = pos'
  OBVIOUS
<1>17. PICK fs : fs = FileSize(s)
  OBVIOUS
<1>18. PICK D : D = Done'
  OBVIOUS
<1>19. /\ start \in Nat /\ file \in Nat /\ mem \in Nat /\ p \in Nat /\ v \in Nat /\ z \in Nat /\ fs \in Nat
       /\ (s.type # "nobits" => fs = z) /\ (s.type = "nobits" => fs = 0)
  BY <1>2, <1>3, <1>6, <1>7, <1>8, <1>9, <1>10, <1>11, <1>17, CurIs, PlaceNats, HandIs
<1>20. /\ start + file = p /\ o2 = p + d /\ p2 = (p + d) + fs /\ cur'.start = start /\ cur'.member = m + 1
       /\ f2 = (IF s.type # "nobits" THEN file + (z + d) ELSE file)
       /\ m2 = (IF InMemory(s, g) THEN mem + (z + d) ELSE mem)
       /\ (Straight(i, g) => (p + d) - start = a2 - v)
       /\ a2 \in Nat /\ v <= a2
       /\ (Rowed(g) => a2 = s.addr /\ (~ InFile(s) => d = 0))
       /\ (~ Rowed(g) => Waiting(g) /\ (p + d) - start = a2 - v)
  <2>1. start + file = p
    BY <1>2, <1>6, <1>7, <1>9, LeaveReaches
  <2> QED BY <1>1, <1>6, <1>7, <1>8, <1>9, <1>10, <1>11, <1>12, <1>13, <1>14, <1>15, <1>16, <1>17, <2>1 DEF Landed
<1>21. Steady /\ \A k \in 1..Len(sections) : k # i => sections'[k] = sections[k]
  BY <1>1 DEF Landed
<1>22. /\ o2 \in Nat /\ p2 \in Nat /\ f2 \in Nat /\ m2 \in Nat /\ p <= o2 /\ start <= o2 /\ o2 + fs = p2
       /\ p <= p2 /\ file <= f2 /\ mem <= m2
  BY <1>2, <1>19, <1>20
<1>23. /\ sections'[i].type = s.type /\ sections'[i].size = z /\ sections'[i].alloc = s.alloc
       /\ sections'[i].tls = s.tls
       /\ (InFile(sections'[i]) <=> InFile(s)) /\ (InMemory(sections'[i], g) <=> InMemory(s, g))
       /\ FileSize(sections'[i]) = fs
  BY <1>3, <1>11, <1>17, <1>21 DEF Steady, InFile, InMemory, FileSize
<1>24. /\ Segment' = g /\ Settled' = generated' /\ D = Done \cup {i} /\ \A j \in Done : j < i
       /\ \A j \in Done : \E k \in 1..m - 1 : k \in 1..Len(g.members) /\ j = g.members[k]
  BY <1>3, <1>5, <1>18, <1>20, <1>2, GoesOn
<1>25. /\ \A j \in m..Len(g.members) : g.members[j] \notin generated
       /\ Done \subseteq generated
       /\ \A j \in generated \ Done : sections[j].offset + FileSize(sections[j]) <= start
       /\ Covers(Done, g, start, file, mem)
       /\ Spread(Done, g, start)
       /\ (start - v) % Pages(g) = 0
  BY <1>3, <1>6, <1>7, <1>8, <1>10 DEF CurFresh
<1>26. i \notin generated
  <2>1. m \in m..Len(g.members)
    BY <1>3
  <2> QED BY <1>3, <1>25, <2>1
<1>27. Settled = generated /\ generated \subseteq 1..Len(sections)
  BY AtHand
<1>28. ASSUME NEW x \in generated
       PROVE  /\ x \in 1..Len(sections) /\ x # i /\ sections'[x] = sections[x]
              /\ sections[x].offset + FileSize(sections[x]) <= p
              /\ sections[x].offset \in Nat /\ sections[x].size \in Nat /\ sections[x].addr \in Nat
              /\ FileSize(sections[x]) \in Nat
  BY <1>9, <1>21, <1>26, <1>27, PlaceNats DEF Settles, Stretch
<1>29. \A j \in m + 1..Len(g.members) : g.members[j] \notin generated'
  <2>1. \A j \in m + 1..Len(g.members) : j \in m..Len(g.members) /\ g.members[j] # i
    BY <1>3, <1>4
  <2> QED BY <1>5, <1>25, <2>1
<1>30. D \subseteq generated'
  BY <1>5, <1>24, <1>25
<1>31. start + f2 <= p2
  BY <1>2, <1>19, <1>20
<1>32. \A j \in generated' \ D : sections'[j].offset + FileSize(sections'[j]) <= start
  <2> SUFFICES ASSUME NEW j \in generated' \ D PROVE sections'[j].offset + FileSize(sections'[j]) <= start
    OBVIOUS
  <2>1. j \in generated \ Done
    BY <1>5, <1>24
  <2> QED BY <1>25, <1>28, <2>1
<1>33. s.type # "nobits" => start + f2 = o2 + z
  BY <1>2, <1>19, <1>20
<1>34. /\ (Rowed(g) => (InFile(s) \/ s.addr = End(g, m - 1)))
       /\ (Rowed(g) => \A k \in 1..m - 1 : InMemory(sections[g.members[k]], g) =>
                sections[g.members[k]].addr + sections[g.members[k]].size <= s.addr)
       /\ End(g, m) = s.addr + (IF s.alloc /\ ~ InMemory(s, g) THEN 0 ELSE s.size)
       /\ End(g, m - 1) \in Nat
  BY <1>2 DEF Hand
<1>35. (\A x \in Done : sections[x].alloc) => file <= mem /\ (Rowed(g) => End(g, m - 1) <= v + mem)
  BY <1>3, <1>7, <1>8, <1>10 DEF CurFresh, InMem
<1>36. s.alloc => \A x \in Done : sections[x].alloc
  BY <1>4, <1>24
<1>37. s.alloc => (a2 + z) <= (v + (mem + (z + d)))
  <2> SUFFICES ASSUME s.alloc PROVE (a2 + z) <= (v + (mem + (z + d)))
    OBVIOUS
  <2>1. file <= mem /\ (Rowed(g) => End(g, m - 1) <= v + mem)
    BY <1>35, <1>36
  <2>2. PICK e : e = End(g, m - 1)
    OBVIOUS
  <2>3. (p + d) - start = file + d
    BY <1>2, <1>19, <1>20
  <2>4. a2 - v = file + d \/ (a2 = e /\ e <= v + mem)
    <3>1. CASE InFile(s)
      <4>1. Straight(i, g)
        BY <1>3, <3>1 DEF Straight
      <4> QED BY <1>20, <2>3, <4>1
    <3>2. CASE ~ InFile(s) /\ Rowed(g)
      BY <1>20, <1>34, <2>1, <2>2, <3>2
    <3>3. CASE ~ Rowed(g)
      BY <1>20, <2>3, <3>3
    <3> QED BY <3>1, <3>2, <3>3
  <2>5. e \in Nat
    BY <1>34, <2>2
  <2> QED BY <1>2, <1>19, <1>20, <2>1, <2>4, <2>5, MemoryGrows
<1>38. \A x \in Done : InMemory(sections[x], g) /\ s.alloc => sections[x].addr + sections[x].size <= a2
  <2> SUFFICES ASSUME NEW x \in Done, InMemory(sections[x], g), s.alloc
               PROVE  sections[x].addr + sections[x].size <= a2
    OBVIOUS
  <2>1. PICK k \in 1..m - 1 : k \in 1..Len(g.members) /\ x = g.members[k]
    BY <1>24
  <2>2. CASE Rowed(g)
    BY <1>20, <1>34, <2>1, <2>2
  <2>3. CASE ~ Rowed(g)
    <3>1. Waiting(g) /\ (p + d) - start = a2 - v
      BY <1>20, <2>3
    <3>2. \A j \in Span(g) : j <= x => sections[j].type # "nobits"
      <4> SUFFICES ASSUME NEW j \in Span(g), j <= x PROVE sections[j].type # "nobits"
        OBVIOUS
      <4>1. PICK q \in 1..Len(g.members) : j = g.members[q]
        BY DEF Span
      <4>2. q # Len(g.members)
        <5>1. x < i
          BY <1>24
        <5>2. q = Len(g.members) => q = m \/ q \in m + 1..Len(g.members)
          BY <1>3
        <5>3. q = Len(g.members) => i <= j
          <6>1. CASE q = m
            BY <1>3, <4>1, <6>1
          <6>2. CASE q \in m + 1..Len(g.members)
            <7>1. i < j
              BY <1>4, <4>1, <6>2
            <7>2. j \in Nat
              BY <1>4, <4>1
            <7> QED BY <1>3, <7>1, <7>2
          <6> QED BY <5>2, <6>1, <6>2
        <5>4. j \in Nat /\ x \in Nat
          BY <1>4, <2>1, <4>1
        <5> QED BY <1>3, <5>1, <5>3, <5>4
      <4> QED BY <3>1, <4>1, <4>2 DEF Waiting
    <3>3. x \in Span(g) /\ x \in Nat
      BY <1>4, <2>1
    <3>4. Straight(x, g)
      <4>1. \A j \in Span(g) : j < x => j <= x
        <5>1. \A j \in Span(g) : j \in Nat
          BY <1>4 DEF Span
        <5> QED BY <3>3, <5>1
      <4> QED BY <3>2, <4>1 DEF Straight
    <3>5. sections[x].offset - start = sections[x].addr - v
      BY <1>10, <1>25, <3>4 DEF Spread, Distant
    <3>6. x \in generated
      BY <1>25
    <3>7. FileSize(sections[x]) = sections[x].size
      BY <3>2, <3>3 DEF FileSize
    <3>8. PICK ox : ox = sections[x].offset
      OBVIOUS
    <3>9. PICK ax : ax = sections[x].addr
      OBVIOUS
    <3>10. PICK zx : zx = sections[x].size
      OBVIOUS
    <3>11. ox \in Nat /\ ax \in Nat /\ zx \in Nat /\ ox + zx <= p /\ ox - start = ax - v
      BY <1>28, <3>5, <3>6, <3>7, <3>8, <3>9, <3>10
    <3>12. a2 \in Nat /\ (p + d) - start = a2 - v /\ ox - start = ax - v
      BY <1>20, <3>1, <3>11
    <3>13. ax = (v + ox) - start /\ a2 = (v + (p + d)) - start
      BY <1>2, <1>19, <3>11, <3>12
    <3>14. ax + zx <= a2
      BY <1>2, <1>19, <3>11, <3>13
    <3> QED BY <3>9, <3>10, <3>14
  <2> QED BY <2>2, <2>3
<1>39. \A x \in D : Covered(D, g, x, start, f2, m2)'
  <2>1. ASSUME NEW x \in Done PROVE Covered(D, g, x, start, f2, m2)'
    <3>1. Covered(Done, g, x, start, file, mem)
      BY <1>25 DEF Covers
    <3>2. PICK y : y = sections[x]
      OBVIOUS
    <3>3. /\ y.offset \in Nat /\ y.size \in Nat /\ y.addr \in Nat /\ x < i /\ sections'[x] = y
      BY <1>24, <1>25, <1>28, <3>2
    <3>4. start <= y.offset /\ (InFile(y) => y.offset - start = y.addr - v)
      BY <1>10, <3>1, <3>2 DEF Covered, Distant
    <3>5. y.type # "nobits" => y.offset + y.size <= start + f2
      <4>1. y.type # "nobits" => y.offset + y.size <= start + file
        BY <3>1, <3>2 DEF Covered
      <4> QED BY <1>19, <1>22, <3>3, <4>1
    <3>6. InMemory(y, g) /\ y.size > 0 => y.addr >= v /\ y.addr + y.size <= v + m2
      <4>1. InMemory(y, g) /\ y.size > 0 => y.addr >= v /\ y.addr + y.size <= v + mem
        BY <1>10, <3>1, <3>2 DEF Covered
      <4>2. PICK e : e = y.addr + y.size
        OBVIOUS
      <4>3. e \in Nat
        BY <3>3, <4>2
      <4>4. e <= v + mem => e <= v + m2
        BY <1>19, <1>22, <4>3
      <4> QED BY <4>1, <4>2, <4>4
    <3>7. \A j \in D : x < j /\ InMemory(y, g) /\ sections'[j].alloc => y.addr + y.size <= sections'[j].addr
      <4>1. \A j \in Done : x < j /\ InMemory(y, g) /\ sections[j].alloc => y.addr + y.size <= sections[j].addr
        BY <3>1, <3>2 DEF Covered
      <4>2. \A j \in Done : sections'[j] = sections[j]
        BY <1>25, <1>28
      <4>3. InMemory(y, g) /\ sections'[i].alloc => y.addr + y.size <= sections'[i].addr
        BY <1>12, <1>23, <1>38, <3>2
      <4> QED BY <1>24, <4>1, <4>2, <4>3
    <3> QED BY <1>10, <3>3, <3>4, <3>5, <3>6, <3>7 DEF Covered, Distant
  <2>2. Covered(D, g, i, start, f2, m2)'
    <3>1. s.type # "nobits" => o2 + z <= start + f2
      BY <1>19, <1>22, <1>33
    <3>2. InFile(s) => o2 - start = a2 - v
      <4>1. InFile(s) => Straight(i, g)
        BY <1>3 DEF Straight
      <4> QED BY <1>20, <4>1
    <3>3. InMemory(s, g) /\ z > 0 => a2 >= v /\ a2 + z <= v + m2
      <4>1. InMemory(s, g) => s.alloc
        BY DEF InMemory
      <4> QED BY <1>19, <1>20, <1>37, <4>1
    <3>4. \A j \in D : ~ (i < j)
      <4>1. \A j \in Done : j \in Nat /\ j < i
        BY <1>4, <1>24
      <4> QED BY <1>3, <1>24, <4>1
    <3> QED BY <1>10, <1>12, <1>13, <1>22, <1>23, <3>1, <3>2, <3>3, <3>4 DEF Covered, Distant
  <2> QED BY <1>24, <2>1, <2>2
<1>40. Covers(D, g, start, f2, m2)'
  BY <1>39 DEF Covers
<1>41. \A x \in 1..Len(sections) : Straight(x, g)' <=> Straight(x, g)
  <2>1. order[turn] \in 1..Len(segments) /\ g = segments[order[turn]]
    BY <1>3, HandIs
  <2>2. PICK n : n = order[turn]
    OBVIOUS
  <2>3. n \in 1..Len(segments) /\ g = segments[n] /\ g = segments'[n]
    BY <1>5, <2>1, <2>2
  <2> QED BY <1>21, <2>3, SteadyKeeps
<1>42. Spread(D, g, start)'
  <2>1. ASSUME NEW x \in D, Straight(x, g) PROVE Distant(x, g, start)'
    <3>1. CASE x = i
      BY <1>10, <1>12, <1>13, <1>20, <2>1, <3>1 DEF Distant
    <3>2. CASE x \in Done
      <4>1. Distant(x, g, start)
        BY <1>25, <2>1, <3>2 DEF Spread
      <4>2. sections'[x] = sections[x]
        BY <1>25, <1>28, <3>2
      <4> QED BY <4>1, <4>2 DEF Distant
    <3> QED BY <1>24, <3>1, <3>2
  <2>2. ASSUME NEW x \in D, NEW y \in D, x < y
        PROVE  sections'[x].offset + FileSize(sections'[x]) <= sections'[y].offset
    <3>0. \A j \in Done : j \in Nat /\ j < i
      BY <1>4, <1>24
    <3>1. x \in Done
      BY <1>3, <1>24, <2>2, <3>0
    <3>2. sections'[x] = sections[x] /\ x \in generated
      BY <1>25, <1>28, <3>1
    <3>3. CASE y = i
      <4>1. PICK e : e = sections[x].offset + FileSize(sections[x])
        OBVIOUS
      <4>2. e \in Nat /\ e <= p
        BY <1>28, <3>2, <4>1
      <4>3. e <= o2
        BY <1>19, <1>22, <4>2
      <4> QED BY <1>13, <3>2, <3>3, <4>1, <4>3
    <3>4. CASE y \in Done
      <4>1. sections'[y] = sections[y]
        BY <1>25, <1>28, <3>4
      <4> QED BY <1>25, <2>2, <3>1, <3>2, <3>4, <4>1 DEF Spread
    <3> QED BY <1>24, <3>3, <3>4
  <2>3. \A x \in D : Straight(x, g)' => Straight(x, g)
    <3>1. \A x \in D : x \in 1..Len(sections)
      BY <1>3, <1>24, <1>25, <1>27
    <3> QED BY <1>41, <3>1
  <2> QED BY <2>1, <2>2, <2>3 DEF Spread
<1>43. ASSUME More'
       PROVE  LET k == m + 1 IN
              /\ k \in 1..Len(g.members) /\ Upcoming' = g.members[k] /\ i < g.members[k]
              /\ sections'[g.members[k]] = sections[g.members[k]]
              /\ Rowed(g)' => Rowed(g)
  <2>1. PICK k : k = m + 1
    OBVIOUS
  <2>2. k \in 1..Len(g.members) /\ Upcoming' = g.members[k] /\ i < g.members[k]
    BY <1>2, <1>3, <1>5, <1>20, <1>43, <2>1, GoesOn
  <2>3. g.members[k] \in 1..Len(sections) /\ g.members[k] # i /\ k \in m..Len(g.members)
    BY <1>3, <1>4, <2>1, <2>2
  <2>4. sections'[g.members[k]] = sections[g.members[k]]
    BY <1>21, <2>3
  <2>5. ASSUME Rowed(g)', ~ Rowed(g) PROVE FALSE
    <3>1. sections'[g.members[k]].addrSet
      BY <2>2, <2>5 DEF Rowed
    <3>2. g.members[k] \notin generated /\ Waiting(g)
      BY <1>20, <1>25, <2>3, <2>5
    <3> QED BY <2>2, <2>4, <3>1, <3>2 DEF Waiting
  <2> QED BY <2>1, <2>2, <2>4, <2>5
<1>44. Ready'
  <2> SUFFICES ASSUME More'
               PROVE  LET x == sections'[g.members[m + 1]] IN
                 /\ start + f2 = p2
                 /\ Rowed(g)' =>
                    /\ p2 - start <= x.addr - v
                    /\ Straight(g.members[m + 1], g)' => InFile(x) \/ p2 - start = x.addr - v
    BY <1>10, <1>14, <1>16, <1>20, <1>24, <1>43 DEF Ready
  <2>1. PICK k : k = m + 1
    OBVIOUS
  <2>2. PICK x : x = sections'[g.members[k]]
    OBVIOUS
  <2>3. /\ k \in 1..Len(g.members) /\ i < g.members[k] /\ x = sections[g.members[k]]
        /\ (Rowed(g)' => Rowed(g)) /\ g.members[k] \in 1..Len(sections)
    BY <1>4, <1>43, <2>1, <2>2
  <2>4. start + f2 = p2
    <3>1. CASE s.type # "nobits"
      BY <1>2, <1>19, <1>20, <3>1
    <3>2. CASE s.type = "nobits"
      <4>1. Rowed(g)
        <5>1. m # Len(g.members)
          BY <1>3, <2>1, <2>3
        <5> QED BY <1>3, <1>20, <3>2, <5>1 DEF Waiting
      <4>2. d = 0
        BY <1>20, <3>2, <4>1 DEF InFile
      <4> QED BY <1>19, <1>20, <3>2, <4>2
    <3> QED BY <3>1, <3>2
  <2>5. ASSUME Rowed(g)
        PROVE  /\ p2 - start <= x.addr - v
               /\ Straight(g.members[k], g) => InFile(x) \/ p2 - start = x.addr - v
    <3>1. PICK e : e = End(g, m)
      OBVIOUS
    <3>2. e <= x.addr /\ (InFile(x) \/ x.addr = e)
      BY <1>2, <2>1, <2>3, <2>5, <3>1 DEF Hand
    <3>3. PICK ax : ax = x.addr
      OBVIOUS
    <3>4. ax \in Nat
      BY <2>3, <3>3, PlaceNats
    <3>5. a2 = s.addr /\ e = a2 + (IF s.alloc /\ ~ InMemory(s, g) THEN 0 ELSE z)
      BY <1>11, <1>20, <1>34, <2>5, <3>1
    <3>6. a2 <= e /\ e \in Nat
      BY <1>19, <1>20, <3>5
    <3>7. CASE InFile(s)
      <4>1. Straight(i, g) /\ s.type # "nobits"
        BY <1>3, <3>7 DEF Straight, InFile
      <4>2. e = a2 + z
        BY <3>5, <4>1 DEF InMemory
      <4>3. p2 - start = e - v
        <5>1. p2 = (p + d) + z /\ (p + d) - start = a2 - v
          BY <1>19, <1>20, <4>1
        <5> QED BY <1>2, <1>19, <1>20, <4>2, <5>1
      <4>4. p2 - start <= ax - v
        BY <1>19, <1>22, <3>2, <3>3, <3>4, <3>6, <4>3
      <4> QED BY <3>2, <3>3, <4>3, <4>4
    <3>8. CASE ~ InFile(s)
      <4>1. d = 0 /\ fs = 0
        <5>1. s.type # "nobits" => z = 0
          BY <1>3, <1>11, <3>8 DEF InFile
        <5> QED BY <1>19, <1>20, <2>5, <3>8, <5>1
      <4>2. p2 = p
        BY <1>19, <1>20, <4>1
      <4>3. p - start <= s.addr - v /\ (Straight(i, g) => p - start = s.addr - v)
        BY <1>3, <1>6, <1>9, <1>10, <2>5, <3>8 DEF CurFresh, Ready
      <4>4. p2 - start <= ax - v
        <5>1. p2 - start <= a2 - v /\ a2 <= ax /\ a2 \in Nat /\ p2 \in Nat
          BY <1>20, <1>22, <3>2, <3>3, <3>4, <3>5, <3>6, <4>2, <4>3
        <5> QED BY <1>19, <3>4, <5>1
      <4>5. ASSUME Straight(g.members[k], g), ~ InFile(x) PROVE p2 - start = ax - v
        <5>1. \A j \in Span(g) : j < g.members[k] => sections[j].type # "nobits"
          BY <2>3, <4>5 DEF Straight
        <5>2. s.type # "nobits"
          BY <1>3, <2>3, <5>1
        <5>3. \A j \in Span(g) : j < i => j < g.members[k]
          <6>1. \A j \in Span(g) : j \in Nat
            BY <1>4 DEF Span
          <6>2. g.members[k] \in Nat
            BY <1>4, <2>3
          <6> QED BY <1>3, <2>3, <6>1, <6>2
        <5>4. Straight(i, g)
          BY <5>1, <5>3 DEF Straight
        <5>5. z = 0
          BY <1>3, <1>11, <3>8, <5>2 DEF InFile
        <5>6. e = a2
          BY <1>20, <3>5, <5>5
        <5> QED BY <3>2, <3>3, <3>5, <4>2, <4>3, <4>5, <5>4, <5>6
      <4> QED BY <3>3, <4>4, <4>5
    <3> QED BY <3>7, <3>8
  <2>6. Straight(g.members[k], g)' => Straight(g.members[k], g)
    BY <1>41, <2>3
  <2> QED BY <2>1, <2>2, <2>3, <2>4, <2>5, <2>6
<1>45. InMem'
  <2> SUFFICES ASSUME \A x \in D : sections'[x].alloc
               PROVE  f2 <= m2 /\ (More' /\ Rowed(g)' => End(g, m)' <= v + m2)
    <3>1. (m + 1) - 1 = m
      BY <1>3
    <3>2. More' /\ Rowed(g)' => End(g, (m + 1) - 1)' = End(g, m)'
      BY <3>1
    <3> QED BY <1>10, <1>14, <1>15, <1>18, <1>20, <1>24, <3>1 DEF InMem
  <2>1. s.alloc
    BY <1>23, <1>24
  <2>2. file <= mem /\ (Rowed(g) => End(g, m - 1) <= v + mem)
    BY <1>35, <1>36, <2>1
  <2>3. End(g, m)' = a2 + (IF s.alloc /\ ~ InMemory(s, g) THEN 0 ELSE z)
    <3>1. m # 0
      BY <1>3
    <3> QED BY <1>3, <1>12, <1>23, <3>1 DEF End
  <2>4. CASE InMemory(s, g)
    <3>1. f2 <= m2
      BY <1>2, <1>19, <1>20, <2>2, <2>4
    <3>2. m2 = mem + (z + d)
      BY <1>20, <2>4
    <3>3. End(g, m)' = a2 + z
      BY <2>3, <2>4
    <3>4. End(g, m)' <= v + m2
      BY <1>37, <2>1, <3>2, <3>3
    <3> QED BY <3>1, <3>4
  <2>5. CASE ~ InMemory(s, g)
    <3>1. s.type = "nobits"
      BY <2>1, <2>5 DEF InMemory
    <3>2. ~ InFile(s)
      BY <3>1 DEF InFile
    <3>3. f2 <= m2
      BY <1>20, <2>2, <2>5, <3>1
    <3>4. ASSUME More', Rowed(g)' PROVE End(g, m)' <= v + m2
      <4>1. Rowed(g)
        BY <1>43, <3>4
      <4>2. a2 = s.addr /\ s.addr = End(g, m - 1)
        BY <1>20, <1>34, <3>2, <4>1
      <4>3. End(g, m)' = a2
        BY <1>20, <2>1, <2>3, <2>5
      <4> QED BY <1>20, <2>2, <2>5, <4>1, <4>2, <4>3
    <3> QED BY <3>3, <3>4
  <2> QED BY <2>4, <2>5
<1>46. (start - v) % Pages(g) = 0
  BY <1>25
<1> QED BY <1>10, <1>14, <1>15, <1>16, <1>18, <1>20, <1>24, <1>27, <1>29, <1>30, <1>31, <1>32, <1>40, <1>42, <1>44, <1>45, <1>46 DEF CurFresh, Pages

(* One more section gets its place, behind all the others.                  *)
LEMMA SpaceTaken ==
    ASSUME Shaped, Typed, Lines, Settles, AllLaid, Steady, Laid' = Laid, Laid \subseteq 1..Len(segments),
           NEW i \in 2..Len(sections), i \notin Settled, Settled' = Settled \cup {i},
           \A k \in 1..Len(sections) : k # i => sections'[k] = sections[k],
           pos <= sections'[i].offset, sections'[i].offset \in Nat, pos' \in Nat, pos <= pos',
           sections'[i].offset + FileSize(sections'[i]) <= pos'
    PROVE  Lines' /\ Settles' /\ AllLaid' /\ \A f \in Laid :
                segments[f].members # <<>> /\ Root(segments[f]) => Root(segments[f])'
<1>1. PICK p : p = pos
  OBVIOUS
<1>2. PICK o : o = sections'[i].offset
  OBVIOUS
<1>3. PICK p2 : p2 = pos'
  OBVIOUS
<1>4. /\ p \in Nat /\ o \in Nat /\ p2 \in Nat /\ p <= o /\ p <= p2 /\ i \in 1..Len(sections)
      /\ o + FileSize(sections'[i]) <= p2 /\ Len(sections) \in Nat
  BY <1>1, <1>2, <1>3, CurIs, ShapedIs
<1>5. /\ Settled \subseteq 2..Len(sections) /\ Headers' = Headers /\ Headers \in Nat /\ Headers <= p
      /\ segments' = segments /\ Len(sections') = Len(sections)
  BY <1>1, SteadyFamilies DEF Settles, Steady
<1>6. ASSUME NEW x \in Settled
      PROVE  /\ x \in 1..Len(sections) /\ x # i /\ sections'[x] = sections[x]
             /\ Headers <= sections[x].offset /\ sections[x].offset + FileSize(sections[x]) <= p
             /\ sections[x].offset \in Nat /\ sections[x].size \in Nat /\ sections[x].addr \in Nat
             /\ FileSize(sections[x]) \in Nat
             /\ InFile(sections[x]) => FileSize(sections[x]) = sections[x].size
  <2>1. x \in 1..Len(sections) /\ x # i /\ Stretch(x)
    BY <1>4, <1>5 DEF Settles
  <2> QED BY <1>1, <2>1, PlaceNats DEF Stretch, InFile
<1>7. Lines'
  BY SteadyFamilies
<1>8. Settles'
  <2>1. \A x \in Settled' : Stretch(x)'
    <3>1. ASSUME NEW x \in Settled PROVE Stretch(x)'
      <4>1. PICK e : e = sections[x].offset + FileSize(sections[x])
        OBVIOUS
      <4>2. e \in Nat /\ e <= p
        BY <1>6, <4>1
      <4>3. e <= p2
        BY <1>4, <4>2
      <4> QED BY <1>3, <1>5, <1>6, <4>1, <4>3 DEF Stretch
    <3>2. Stretch(i)'
      <4>1. Headers <= o
        BY <1>4, <1>5
      <4> QED BY <1>2, <1>3, <1>4, <1>5, <4>1 DEF Stretch
    <3> QED BY <3>1, <3>2
  <2>2. ASSUME NEW x \in Settled, InFile(sections[x]) PROVE Clear(x, i)' /\ Clear(i, x)'
    <3>1. PICK e : e = sections[x].offset + sections[x].size
      OBVIOUS
    <3>2. e \in Nat /\ e <= p
      BY <1>6, <2>2, <3>1
    <3>3. e <= o
      BY <1>4, <3>2
    <3> QED BY <1>2, <1>6, <3>1, <3>3 DEF Clear
  <2>3. ASSUME NEW x \in Settled, NEW y \in Settled, x # y, InFile(sections[x]), InFile(sections[y])
        PROVE  Clear(x, y)'
    <3>1. Clear(x, y)
      BY <2>3 DEF Settles
    <3> QED BY <1>6, <3>1 DEF Clear
  <2>4. \A x, y \in Settled' : x # y /\ InFile(sections'[x]) /\ InFile(sections'[y]) => Clear(x, y)'
    BY <1>6, <2>2, <2>3
  <2>5. Headers <= p2 /\ Settled' \subseteq 2..Len(sections)
    BY <1>4, <1>5
  <2> QED BY <1>3, <1>5, <2>1, <2>4, <2>5 DEF Settles
<1>9. ASSUME NEW f \in Laid, segments[f].members # <<>>
      PROVE  LaidOut(segments[f])' /\ (Root(segments[f]) => Root(segments[f])')
  <2>1. PICK F : F = segments[f]
    OBVIOUS
  <2>2. LaidOut(F) /\ f \in 1..Len(segments) /\ F = segments'[f]
    BY <1>5, <1>9, <2>1 DEF AllLaid
  <2>3. /\ Span(F) \subseteq Settled /\ F.offset + F.filesz <= p
        /\ Covers(Span(F), F, F.offset, F.filesz, F.memsz)
        /\ (F.offset - F.vaddr) % Pages(F) = 0
        /\ \A x \in Settled : Foreign(F, x, F.offset, F.filesz)
    BY <1>1, <2>2 DEF LaidOut
  <2>4. F.offset \in Nat /\ F.filesz \in Nat
    <3>1. Segmented(F, Len(sections))
      BY <2>1, <2>2, SpanOf
    <3> QED BY <3>1, WordIs DEF Segmented
  <2>5. PICK e : e = F.offset + F.filesz
    OBVIOUS
  <2>6. e \in Nat /\ e <= p /\ e <= p2 /\ e <= o
    BY <1>4, <2>3, <2>4, <2>5
  <2>7. \A x \in Span(F) : sections'[x] = sections[x]
    BY <1>6, <2>3
  <2>8. ASSUME NEW x \in Span(F) PROVE Covered(Span(F), F, x, F.offset, F.filesz, F.memsz)'
    <3>1. Covered(Span(F), F, x, F.offset, F.filesz, F.memsz)
      BY <2>3 DEF Covers
    <3> QED BY <2>7, <3>1 DEF Covered, Distant
  <2>9. Covers(Span(F), F, F.offset, F.filesz, F.memsz)'
    BY <2>8 DEF Covers
  <2>10. \A x \in Settled' : Foreign(F, x, F.offset, F.filesz)'
    <3>1. ASSUME NEW x \in Settled PROVE Foreign(F, x, F.offset, F.filesz)'
      BY <1>6, <2>3 DEF Foreign
    <3>2. Foreign(F, i, F.offset, F.filesz)'
      BY <1>2, <2>5, <2>6 DEF Foreign
    <3> QED BY <3>1, <3>2
  <2>11. LaidOut(F)'
    BY <1>3, <2>3, <2>5, <2>6, <2>9, <2>10 DEF LaidOut, Pages
  <2>12. Root(F) => Root(F)'
    <3>1. \A x \in Span(F) : Straight(x, F)' => Straight(x, F)
      <4>1. \A x \in Span(F) : x \in 1..Len(sections)
        BY <1>6, <2>3
      <4> QED BY <2>1, <2>2, <4>1, SteadyKeeps
    <3> QED BY <2>7, <3>1 DEF Root, Spread, Distant
  <2> QED BY <2>1, <2>2, <2>11, <2>12
<1>10. AllLaid'
  BY <1>5, <1>9 DEF AllLaid
<1> QED BY <1>7, <1>8, <1>9, <1>10

LEMMA FreshLays ==
    ASSUME Shaped, Typed, OrdInv, LayInv, regular, pc = "members", turn <= Len(order), More,
           Upcoming \notin generated, PlacesIt(Upcoming)
    PROVE  LayInv'
<1>1. /\ Lines /\ Settles /\ AllLaid /\ Rows /\ Families /\ Heads /\ HeadFirst /\ NothingYet /\ Owned
      /\ CurInv
  BY DEF LayInv, Writing, Placing
<1>2. CurFresh /\ Segment.members # <<>>
  <2>1. Segment.members # <<>> /\ Upcoming \in Span(Segment)
    BY <1>1, HandIs
  <2> QED BY <1>1, <2>1 DEF CurInv, CurNested
<1>3. PICK g, m, i, s, d : Landed(g, m, i, s, d)
  BY <1>1, <1>2, PlacesAt
<1>4. Hand(g, m, i, s) /\ d \in Nat /\ Steady
      /\ sections'[i].offset = pos + d /\ pos' = (pos + d) + FileSize(s)
      /\ \A k \in 1..Len(sections) : k # i => sections'[k] = sections[k]
      /\ cur'.member = m + 1
  BY <1>3 DEF Landed
<1>5. /\ g = Segment /\ m = cur.member /\ i = Upcoming /\ s = sections[i] /\ i \in 2..Len(sections)
      /\ i \in 1..Len(sections)
  BY <1>1, <1>4, HandIs DEF Hand
<1>6. /\ generated' = generated \cup {i} /\ pc' = "members"
      /\ segments' = segments /\ order' = order /\ work' = work /\ turn' = turn
  BY <1>5 DEF PlacesIt
<1>7. /\ Segment' = Segment /\ Laid' = Laid /\ Queue' = order /\ Placing' /\ ~ Written'
      /\ Settled' = generated' /\ Ahead' = Ahead /\ Done' = Done \cup {i}
  BY <1>1, <1>4, <1>5, <1>6, GoesOn
<1>8. /\ Queue = order /\ Settled = generated /\ Laid \subseteq 1..Len(segments)
      /\ Laid = {order[k] : k \in 1..turn - 1} /\ turn \in 1..Len(order) /\ Len(order) \in Nat
      /\ order[turn] \in 1..Len(segments)
  BY AtHand
<1>9. CurFresh'
  BY <1>1, <1>2, FreshCur
<1>10. CurInv'
  BY <1>2, <1>7, <1>9 DEF CurInv
<1>11. /\ pos \in Nat /\ pos' \in Nat /\ sections'[i].offset \in Nat /\ pos <= pos'
       /\ pos <= sections'[i].offset /\ sections'[i].offset + FileSize(sections'[i]) <= pos'
  <2>1. PICK p : p = pos
    OBVIOUS
  <2>2. PICK fs : fs = FileSize(s)
    OBVIOUS
  <2>3. p \in Nat /\ fs \in Nat
    BY <1>5, <2>1, <2>2, CurIs, PlaceNats
  <2>4. FileSize(sections'[i]) = fs
    BY <1>4, <1>5, <2>2 DEF Steady, FileSize
  <2>5. p + d \in Nat /\ (p + d) + fs \in Nat /\ p <= p + d /\ p <= (p + d) + fs
    BY <1>4, <2>3
  <2> QED BY <1>4, <2>1, <2>2, <2>3, <2>4, <2>5
<1>12. /\ Lines' /\ Settles' /\ AllLaid'
       /\ \A f \in Laid : segments[f].members # <<>> /\ Root(segments[f]) => Root(segments[f])'
  BY <1>1, <1>4, <1>5, <1>6, <1>7, <1>8, <1>11, SpaceTaken
<1>13. Families'
  BY <1>1, <1>4, SteadyFamilies
<1>14. Heads'
  BY <1>1, <1>4, <1>6, <1>7, SteadyFamilies DEF Heads
<1>15. HeadFirst'
  BY <1>1, <1>6, <1>7, <1>8 DEF HeadFirst
<1>16. Rows'
  <2> SUFFICES ASSUME NEW n \in 1..Len(segments)
               PROVE  Waiting(segments[n])' \/ Rowed(segments[n])'
    BY <1>6 DEF Rows
  <2>1. PICK h : h = segments[n]
    OBVIOUS
  <2>2. h = segments'[n] /\ (Waiting(h) \/ Rowed(h))
    BY <1>1, <1>6, <2>1 DEF Rows
  <2>3. Rowed(h) => Rowed(h)'
    BY <1>4, <2>1, <2>2, SteadyKeeps
  <2>4. Waiting(h) => Waiting(h)'
    <3> SUFFICES ASSUME Waiting(h), NEW k \in 1..Len(h.members)
                 PROVE  /\ h.members[k] \in generated' \/ ~ sections'[h.members[k]].addrSet
                        /\ sections'[h.members[k]].type = "nobits" => k = Len(h.members)
      BY DEF Waiting
    <3>1. PICK q : q = h.members[k]
      OBVIOUS
    <3>2. q \in 1..Len(sections)
      BY <2>1, <3>1, SpanOf
    <3>3. (q \in generated \/ ~ sections[q].addrSet) /\ (sections[q].type = "nobits" => k = Len(h.members))
      BY <3>1 DEF Waiting
    <3>4. sections'[q].type = sections[q].type
      BY <1>4, <3>2 DEF Steady
    <3>5. q \in generated' \/ ~ sections'[q].addrSet
      BY <1>4, <1>6, <3>2, <3>3
    <3> QED BY <3>1, <3>3, <3>4, <3>5
  <2> QED BY <2>1, <2>2, <2>3, <2>4
<1>17. Owned'
  <2> SUFFICES ASSUME NEW j \in generated'
               PROVE  \/ \E n \in Laid : j \in Span(segments'[n]) /\ Root(segments[n])'
                      \/ j \in Done'
    BY <1>2, <1>6, <1>7, <1>9 DEF Owned
  <2>1. CASE j = i
    BY <1>7, <2>1
  <2>2. CASE j \in Done
    BY <1>7, <2>2
  <2>3. CASE j \in generated \ Done
    <3>1. PICK n \in Laid : j \in Span(segments[n]) /\ Root(segments[n])
      BY <1>1, <2>3 DEF Owned
    <3>2. segments[n].members # <<>>
      BY <1>8, <3>1, SpanOf
    <3> QED BY <1>6, <1>12, <3>1, <3>2
  <2> QED BY <1>6, <2>1, <2>2, <2>3
<1>18. NothingYet'
  <2> SUFFICES ASSUME NEW n \in Ahead PROVE FALSE
    BY <1>7 DEF NothingYet
  <2>1. n \in 1..Len(segments) /\ n \notin Laid /\ Headed(segments[n]) /\ n # order[turn]
    BY DEF Ahead
  <2>2. PICK k \in 1..Len(order) : order[k] = n
    BY <1>8, <2>1 DEF OrdInv, Queued, Placing
  <2>3. k > turn
    BY <1>8, <2>1, <2>2
  <2>4. segments[order[turn]].members = <<>>
    BY <1>1, <1>8, <2>1, <2>2, <2>3 DEF HeadFirst
  <2> QED BY <1>2, <2>4 DEF Segment
<1> QED BY <1>7, <1>10, <1>12, <1>13, <1>14, <1>15, <1>16, <1>17, <1>18 DEF LayInv

LEMMA PlaceMemberLays ==
    ASSUME Shaped, Typed, OrdInv, LayInv, PlaceMember
    PROVE  LayInv' /\ (pc' # pc => ~ regular)
<1>1. pc = "members" /\ turn <= Len(order) /\ More /\ Upcoming = Segment.members[cur.member]
  BY MemberIs DEF PlaceMember, More, Upcoming
<1>2. /\ segments' = segments /\ order' = order /\ work' = work /\ turn' = turn
  BY DEF PlaceMember, plan
<1>3. regular => Lines
  BY <1>1 DEF LayInv, Writing, Placing
<1>4. regular => sections[Upcoming].type # "null"
  BY <1>1, <1>3, HandIs
<1>5. CASE Return("failed") /\ Backwards(Upcoming) /\ UNCHANGED past
  <2>1. LayInv'
    BY <1>5 DEF Return, LayInv, Writing, Written, Placing, CurInv
  <2>2. ASSUME regular PROVE FALSE
    <3>1. Lines /\ Rows /\ CurInv
      BY <1>1, <2>2 DEF LayInv, Writing, Placing
    <3>2. PICK g, m, i, s : Hand(g, m, i, s)
      BY <1>1, <3>1, RowIs
    <3>3. /\ g = Segment /\ i = Upcoming /\ s = sections[i] /\ g.vaddr \in 0..WORD - 1
          /\ i \in 1..Len(sections) /\ s.type # "null" /\ g.vaddr \in Nat
      BY <1>1, <3>1, <3>2, HandIs DEF Hand, Segmented
    <3>4. CurFresh
      <4>1. Segment.members # <<>> /\ Upcoming \in Span(Segment)
        BY <1>1, <3>1, HandIs
      <4> QED BY <1>1, <1>5, <3>1, <4>1 DEF CurInv, CurNested, Backwards
    <3>5. /\ Minus(pos, cur.start) = cur.file /\ Leave(i) \in Nat
          /\ Rowed(g) /\ InFile(s) => cur.file + Leave(i) = s.addr - g.vaddr
          /\ ~ Rowed(g) => ~ s.addrSet
      BY <1>1, <3>1, <3>2, <3>4, LeaveReaches
    <3>6. s.addrSet /\ InFile(s) /\ Distance(i) < Minus(pos, cur.start)
      BY <1>5, <3>3 DEF Backwards, Addressed, InFile
    <3>7. Distance(i) = s.addr - g.vaddr
      <4>1. g.vaddr <= s.addr
        BY <3>2, <3>5, <3>6 DEF Hand
      <4>2. PICK a : a = s.addr
        OBVIOUS
      <4>3. a \in 0..WORD - 1
        BY <3>3, <4>2, ShapedIs
      <4>4. Minus(a, g.vaddr) = a - g.vaddr
        BY <3>3, <4>1, <4>2, <4>3, MinusIs
      <4> QED BY <3>3, <4>2, <4>4 DEF Distance
    <3>8. cur.file + Leave(i) < cur.file
      BY <3>5, <3>6, <3>7
    <3>9. PICK l : l = Leave(i)
      OBVIOUS
    <3>10. PICK file : file = cur.file
      OBVIOUS
    <3>11. l \in Nat /\ file \in Nat /\ file + l < file
      BY <3>5, <3>8, <3>9, <3>10, CurIs
    <3> QED BY <3>11
  <2> QED BY <2>1, <2>2
<1>6. CASE /\ Upcoming \in generated /\ cur' = Extended(Upcoming)
           /\ Reach({cur.mem + (sections[Upcoming].size + Leave(Upcoming))})
           /\ UNCHANGED <<pc, reply, sections, pos, generated>>
  <2>1. ASSUME regular' PROVE LayInv'
    <3>1. regular /\ (cur.mem + (sections[Upcoming].size + Leave(Upcoming))) < WORD
      BY <1>6, <2>1 DEF Reach
    <3> QED BY <1>1, <1>2, <1>6, <3>1, NestedLays
  <2> QED BY <1>6, <2>1 DEF LayInv
<1>7. CASE /\ Upcoming \notin generated /\ cur' = Extended(Upcoming)
           /\ Reach({pos + (sections[Upcoming].size + Leave(Upcoming)),
                     cur.mem + (sections[Upcoming].size + Leave(Upcoming)),
                     (Segment.vaddr + Minus(pos, cur.start)) + (sections[Upcoming].size + Leave(Upcoming))})
           /\ sections' = [sections EXCEPT ![Upcoming] = Placed(@, Plus(pos, Leave(Upcoming)))]
           /\ pos' = After(sections[Upcoming], Plus(pos, Leave(Upcoming)))
           /\ generated' = generated \cup {Upcoming}
           /\ UNCHANGED <<pc, reply>>
  <2>1. ASSUME regular' PROVE LayInv'
    <3>1. regular /\ PlacesIt(Upcoming)
      BY <1>1, <1>2, <1>7, <2>1 DEF Reach, PlacesIt
    <3> QED BY <1>1, <1>7, <3>1, FreshLays
  <2> QED BY <1>7, <2>1 DEF LayInv
<1>8. CASE sections[Upcoming].type = "null" /\ UNCHANGED <<pc, past>>
  BY <1>4, <1>8 DEF LayInv, past
<1> QED BY <1>1, <1>5, <1>6, <1>7, <1>8, Zenon DEF PlaceMember

(* The end of a segment gives it its place and its sizes; what its sections *)
(* are like is said without them.                                           *)
Alike(g, h) == h.members = g.members /\ h.vaddr = g.vaddr /\ h.align = g.align /\ h.type = g.type

LEMMA AlikeAre ==
    ASSUME NEW g, NEW h, Alike(g, h)
    PROVE  /\ Span(h) = Span(g) /\ Pages(h) = Pages(g)
           /\ Rowed(h) <=> Rowed(g)
           /\ Listing(h) <=> Listing(g)
           /\ Waiting(h) <=> Waiting(g)
           /\ AtSectionStart(h) <=> AtSectionStart(g)
           /\ RoomForHeaders(h) <=> RoomForHeaders(g)
           /\ \A i : Straight(i, h) <=> Straight(i, g)
           /\ \A S, i, start, file, mem : Covered(S, h, i, start, file, mem) <=> Covered(S, g, i, start, file, mem)
           /\ \A S, start : Spread(S, h, start) <=> Spread(S, g, start)
           /\ \A i, start, file : Foreign(h, i, start, file) <=> Foreign(g, i, start, file)
<1>1. Span(h) = Span(g) /\ Pages(h) = Pages(g)
  BY DEF Alike, Span, Pages
<1>2. \A s : InMemory(s, h) <=> InMemory(s, g)
  BY DEF Alike, InMemory
<1>3. \A k : End(h, k) = End(g, k)
  BY <1>2 DEF Alike, End
<1>4. Rowed(h) <=> Rowed(g)
  BY <1>3, Zenon DEF Alike, Rowed
<1>5. Rising(h) <=> Rising(g)
  BY Zenon DEF Alike, Rising
<1>6. Listing(h) <=> Listing(g)
  BY <1>1, <1>5, Zenon DEF Alike, Listing
<1>7. Waiting(h) <=> Waiting(g)
  BY Zenon DEF Alike, Waiting
<1>8. AtSectionStart(h) <=> AtSectionStart(g)
  BY Zenon DEF Alike, AtSectionStart
<1>9. RoomForHeaders(h) <=> RoomForHeaders(g)
  BY Zenon DEF Alike, RoomForHeaders
<1>10. \A i : Straight(i, h) <=> Straight(i, g)
  BY <1>1, Zenon DEF Straight
<1>11. \A i, start : Distant(i, h, start) <=> Distant(i, g, start)
  BY Zenon DEF Alike, Distant
<1>12. \A S, i, start, file, mem : Covered(S, h, i, start, file, mem) <=> Covered(S, g, i, start, file, mem)
  BY <1>2, <1>11 DEF Alike, Covered
<1>13. \A S, start : Spread(S, h, start) <=> Spread(S, g, start)
  BY <1>10, <1>11, Zenon DEF Spread
<1>14. \A i, start, file : Foreign(h, i, start, file) <=> Foreign(g, i, start, file)
  BY Zenon DEF Alike, Foreign
<1> QED BY <1>1, <1>4, <1>6, <1>7, <1>8, <1>9, <1>10, <1>12, <1>13, <1>14

LEMMA EndAlike ==
    ASSUME Shaped, Typed, OrdInv, EndSegment
    PROVE  /\ pc = "members" /\ pc' = "segment" /\ turn <= Len(order) /\ sections' = sections
           /\ generated' = generated /\ pos' = pos /\ order' = order
           /\ Len(segments') = Len(segments) /\ Len(segments) \in Nat /\ Headers' = Headers
           /\ Laid' = Laid \cup {order[turn]} /\ Settled' = generated
           /\ Placing' /\ ~ Written' /\ Queue' = order /\ ~ More
           /\ \A k \in 1..Len(segments) : Alike(segments[k], segments'[k])
           /\ \A k \in 1..Len(segments) : k # order[turn] => segments'[k] = segments[k]
<1>1. /\ pc = "members" /\ turn \in 1..Len(order) /\ order[turn] \in 1..Len(segments)
      /\ Len(segments') = Len(segments) /\ Len(segments) \in Nat
      /\ \A k \in 1..Len(segments) : k # order[turn] => segments'[k] = segments[k]
      /\ \A k \in 1..Len(segments) : Alike(segments[k], segments'[k])
  BY EndIs DEF Alike
<1>2. /\ pc' = "segment" /\ turn' = turn + 1 /\ sections' = sections
      /\ generated' = generated /\ pos' = pos /\ order' = order /\ cur.member > Len(Segment.members)
  BY DEF EndSegment, plan, place
<1>3. turn <= Len(order) /\ Laid = {order[k] : k \in 1..turn - 1} /\ Len(order) \in Nat
  <2>1. order \in Seq(1..Len(segments))
    BY <1>1 DEF Typed, Turns, Saving, SaveSteps
  <2>2. turn <= Len(order)
    BY <1>1, <2>1
  <2> QED BY <1>1, <2>2, AtHand
<1>4. Laid' = Laid \cup {order[turn]}
  <2>1. PICK t : t = turn
    OBVIOUS
  <2>2. t \in Nat /\ t >= 1
    BY <1>1, <2>1
  <2>3. 1..(t + 1) - 1 = (1..t - 1) \cup {t}
    BY <2>2
  <2>4. Laid' = {order[k] : k \in 1..(t + 1) - 1}
    BY <1>2, <2>1 DEF Laid
  <2> QED BY <1>3, <2>1, <2>3, <2>4
<1>5. ~ More
  <2>1. Segmented(Segment, Len(sections))
    BY <1>1, <1>3, SegmentIs
  <2>2. Len(Segment.members) \in Nat /\ cur.member \in Nat
    BY <2>1, SeqIs DEF Segmented, Typed, Spots
  <2> QED BY <1>2, <2>2 DEF More
<1>6. Placing' /\ ~ Written' /\ Settled' = generated /\ Queue' = order /\ Headers' = Headers
  <2>1. Placing' /\ ~ Written'
    BY <1>2 DEF Placing, Written
  <2>2. Queue' = order
    BY <1>2 DEF Queue
  <2> QED BY <1>1, <1>2, <2>1, <2>2 DEF Settled, Headers
<1> QED BY <1>1, <1>2, <1>3, <1>4, <1>5, <1>6

LEMMA EndFrame ==
    ASSUME Shaped, Typed, OrdInv, LayInv, regular, EndSegment
    PROVE  Lines' /\ Rows' /\ Families' /\ Heads' /\ HeadFirst' /\ NothingYet' /\ Settles' /\ CurInv'
<1>1. /\ pc = "members" /\ pc' = "segment" /\ turn <= Len(order) /\ sections' = sections
      /\ generated' = generated /\ pos' = pos /\ order' = order
      /\ Len(segments') = Len(segments) /\ Len(segments) \in Nat /\ Headers' = Headers
      /\ Laid' = Laid \cup {order[turn]} /\ Settled' = generated
      /\ Queue' = order
      /\ \A k \in 1..Len(segments) : Alike(segments[k], segments'[k])
      /\ \A k \in 1..Len(segments) : k # order[turn] => segments'[k] = segments[k]
  BY EndAlike
<1>2. /\ Lines /\ Settles /\ Rows /\ Families /\ Heads /\ HeadFirst /\ NothingYet
  BY <1>1 DEF LayInv, Writing, Placing
<1>3. /\ Queue = order /\ Settled = generated /\ order[turn] \in 1..Len(segments)
      /\ Laid \subseteq 1..Len(segments)
  BY <1>1, AtHand
<1>4. ASSUME NEW k \in 1..Len(segments)
      PROVE  /\ Span(segments'[k]) = Span(segments[k]) /\ Pages(segments'[k]) = Pages(segments[k])
             /\ Rowed(segments'[k]) <=> Rowed(segments[k])
             /\ Listing(segments'[k]) <=> Listing(segments[k])
             /\ Waiting(segments'[k]) <=> Waiting(segments[k])
             /\ AtSectionStart(segments'[k]) <=> AtSectionStart(segments[k])
             /\ RoomForHeaders(segments'[k]) <=> RoomForHeaders(segments[k])
             /\ \A i : Straight(i, segments'[k]) <=> Straight(i, segments[k])
             /\ segments'[k].members = segments[k].members
             /\ segments'[k].vaddr = segments[k].vaddr
  <2>1. PICK g : g = segments[k]
    OBVIOUS
  <2>2. PICK h : h = segments'[k]
    OBVIOUS
  <2>3. Alike(g, h)
    BY <1>1, <2>1, <2>2
  <2> QED BY <2>1, <2>2, <2>3, AlikeAre DEF Alike
<1>5. /\ \A h : Rowed(h)' <=> Rowed(h)
      /\ \A h : Listing(h)' <=> Listing(h)
      /\ \A h : AtSectionStart(h)' <=> AtSectionStart(h)
      /\ \A i, h : Straight(i, h)' <=> Straight(i, h)
      /\ \A i, j : Clear(i, j)' <=> Clear(i, j)
  BY <1>1, SameSections
<1>6. \A h : Waiting(h)' <=> Waiting(h)
  BY <1>1, Zenon DEF Waiting
<1>7. \A h : RoomForHeaders(h)' <=> RoomForHeaders(h)
  BY <1>1 DEF RoomForHeaders
<1>8. Lines'
  BY <1>1, <1>2, <1>4, <1>5 DEF Lines
<1>9. Rows'
  BY <1>1, <1>2, <1>4, <1>5, <1>6 DEF Rows
<1>10. Families'
  <2> SUFFICES ASSUME NEW k \in 1..Len(segments), NEW o \in 1..Len(segments), k # o,
                      Span(segments'[k]) \cap Span(segments'[o]) # {}
               PROVE  Akin(segments[k], segments[o])'
    BY <1>1 DEF Families
  <2>0. PICK g : g = segments'[k]
    OBVIOUS
  <2>1. PICK h : h = segments'[o]
    OBVIOUS
  <2>2. PICK g0 : g0 = segments[k]
    OBVIOUS
  <2>3. PICK h0 : h0 = segments[o]
    OBVIOUS
  <2>4. Akin(g0, h0)
    BY <1>2, <1>4, <2>2, <2>3 DEF Families
  <2>5. /\ Span(g) = Span(g0) /\ Span(h) = Span(h0) /\ (Rowed(g) <=> Rowed(g0)) /\ (Rowed(h) <=> Rowed(h0))
        /\ Pages(g) = Pages(g0) /\ Pages(h) = Pages(h0) /\ (AtSectionStart(g) <=> AtSectionStart(g0))
        /\ g.members = g0.members /\ \A i : Straight(i, h) <=> Straight(i, h0)
    BY <1>4, <2>0, <2>1, <2>2, <2>3
  <2>6. Nests(g0, h0) => Nests(g, h)
    BY <2>5 DEF Nests
  <2>7. Akin(g, h)
    BY <2>4, <2>5, <2>6 DEF Akin
  <2>8. Nests(g, h)' <=> Nests(g, h)
    BY <1>1, SameSections
  <2>9. Akin(g, h)'
    BY <1>5, <2>7, <2>8 DEF Akin
  <2> QED BY <2>0, <2>1, <2>9
<1>11. ASSUME NEW k \in 1..Len(segments), Heading(k) PROVE Heading(k)'
  <2>1. PICK g : g = segments'[k]
    OBVIOUS
  <2>2. g.vaddr % Pages(g) = 0 /\ Rowed(g) /\ RoomForHeaders(g)
    BY <1>4, <1>11, <2>1 DEF Heading
  <2>3. \A o \in 1..Len(segments) : o # k => ~ (Span(g) \subseteq Span(segments'[o]))
    BY <1>4, <1>11, <2>1 DEF Heading
  <2>4. Rowed(g)' /\ RoomForHeaders(g)' /\ Pages(g)' = Pages(g)
    BY <1>5, <1>7, <2>2 DEF Pages
  <2> QED BY <1>1, <2>1, <2>2, <2>3, <2>4 DEF Heading
<1>12. \A k \in 1..Len(segments) : k \notin Laid' => k \notin Laid /\ k # order[turn] /\ segments'[k] = segments[k]
  BY <1>1
<1>13. Heads'
  BY <1>1, <1>2, <1>11, <1>12 DEF Heads
<1>14. order \in Seq(1..Len(segments))
  BY <1>1 DEF Typed, Turns, Saving, SaveSteps
<1>15. \A k \in 1..Len(order) : order[k] \in 1..Len(segments)
  BY <1>14, SeqIs
<1>16. HeadFirst'
  <2> SUFFICES ASSUME NEW j \in 1..Len(order), NEW k \in 1..Len(order), j < k, order[k] \notin Laid',
                      Headed(segments'[order[k]])
               PROVE  segments'[order[j]].members = <<>>
    BY <1>1 DEF HeadFirst, Headed, AtZero
  <2>1. order[k] \notin Laid /\ segments'[order[k]] = segments[order[k]]
    BY <1>12, <1>15
  <2>2. segments[order[j]].members = <<>>
    BY <1>2, <1>3, <2>1 DEF HeadFirst
  <2> QED BY <1>4, <1>15, <2>2
<1>17. NothingYet'
  <2>1. Ahead' \subseteq Ahead
    BY <1>1, <1>12 DEF Ahead, Headed, AtZero
  <2> QED BY <1>1, <1>2, <2>1 DEF NothingYet
<1>18. Settles'
  BY <1>1, <1>2, <1>3, <1>5 DEF Settles, Stretch
<1>19. CurInv'
  BY <1>1 DEF CurInv
<1> QED BY <1>8, <1>9, <1>10, <1>13, <1>16, <1>17, <1>18, <1>19

LEMMA EndHas ==
    ASSUME Shaped, Typed, OrdInv, EndSegment
    PROVE  /\ order[turn] \in 1..Len(segments) /\ Segment = segments[order[turn]]
           /\ Done = Span(Segment)
           /\ Alike(Segment, segments'[order[turn]])
           /\ segments'[order[turn]].offset = cur.start /\ segments'[order[turn]].filesz = cur.file
           /\ segments'[order[turn]].memsz >= cur.mem /\ segments'[order[turn]].memsz \in Nat
           /\ Segmented(Segment, Len(sections)) /\ Segment.vaddr \in Nat
<1>1. /\ pc = "members" /\ turn \in 1..Len(order) /\ order[turn] \in 1..Len(segments)
      /\ Alike(Segment, segments'[order[turn]])
      /\ segments'[order[turn]].offset = cur.start /\ segments'[order[turn]].filesz = cur.file
      /\ segments'[order[turn]].memsz = Max({Segment.memsz, cur.mem})
      /\ segments'[order[turn]].memsz >= cur.mem
  BY EndIs DEF Alike, Segment
<1>2. turn <= Len(order)
  <2>1. order \in Seq(1..Len(segments))
    BY <1>1 DEF Typed, Turns, Saving, SaveSteps
  <2> QED BY <1>1, <2>1
<1>3. Segmented(Segment, Len(sections))
  BY <1>1, <1>2, SegmentIs
<1>4. Segment.vaddr \in Nat /\ Segment.memsz \in Nat
  BY <1>3, WordIs DEF Segmented
<1>5. segments'[order[turn]].memsz \in Nat
  BY <1>1, <1>4, CurIs, MaxOfTwo
<1>6. Len(Segment.members) \in Nat
  BY <1>3, SeqIs DEF Segmented
<1>7. cur.member \in 1..Len(Segment.members) + 1 /\ cur.member > Len(Segment.members)
  BY <1>1, <1>2 DEF Typed, Turns, Saving, SaveSteps, EndSegment
<1>8. cur.member - 1 = Len(Segment.members)
  BY <1>6, <1>7
<1>9. Done = Span(Segment)
  BY <1>8 DEF Done, Span
<1> QED BY <1>1, <1>3, <1>4, <1>5, <1>9 DEF Segment

(* A segment that has all of its sections covers them.                      *)
LEMMA CoversMore ==
    ASSUME Shaped, NEW g, NEW h, Alike(g, h), g.vaddr \in Nat, Span(g) \subseteq 1..Len(sections),
           NEW start, NEW file, NEW mem \in Nat, NEW m2 \in Nat, mem <= m2,
           Covers(Span(g), g, start, file, mem)
    PROVE  Covers(Span(h), h, start, file, m2)
<1> SUFFICES ASSUME NEW i \in Span(g) PROVE Covered(Span(g), h, i, start, file, m2)
  BY AlikeAre DEF Covers
<1>1. Covered(Span(g), g, i, start, file, mem)
  BY DEF Covers
<1>2. PICK x : x = sections[i]
  OBVIOUS
<1>3. PICK v : v = g.vaddr
  OBVIOUS
<1>4. PICK e : e = x.addr + x.size
  OBVIOUS
<1>5. x.addr \in Nat /\ x.size \in Nat /\ v \in Nat
  BY <1>2, <1>3, PlaceNats
<1>6. e \in Nat
  BY <1>4, <1>5
<1>7. e <= v + mem => e <= v + m2
  BY <1>5, <1>6
<1>8. Covered(Span(g), g, i, start, file, m2)
  BY <1>1, <1>2, <1>3, <1>4, <1>7 DEF Covered
<1> QED BY <1>8, AlikeAre

LEMMA FreshIsLaid ==
    ASSUME Shaped, Typed, OrdInv, Settles, CurFresh, EndSegment
    PROVE  \A n : n = order[turn] => LaidOut(segments[n])' /\ Root(segments[n])'
<1>1. PICK n : n = order[turn]
  OBVIOUS
<1>2. PICK g : g = Segment
  OBVIOUS
<1>3. PICK h : h = segments'[n]
  OBVIOUS
<1>4. PICK start : start = cur.start
  OBVIOUS
<1>5. PICK file : file = cur.file
  OBVIOUS
<1>6. PICK mem : mem = cur.mem
  OBVIOUS
<1>7. /\ Done = Span(g) /\ Alike(g, h) /\ h.offset = start /\ h.filesz = file
      /\ h.memsz >= mem /\ h.memsz \in Nat /\ Segmented(g, Len(sections)) /\ g.vaddr \in Nat
  BY <1>1, <1>2, <1>3, <1>4, <1>5, <1>6, EndHas
<1>8. start \in Nat /\ file \in Nat /\ mem \in Nat
  BY <1>4, <1>5, <1>6, CurIs
<1>9. /\ sections' = sections /\ generated' = generated /\ pos' = pos /\ Settled' = generated /\ Settled = generated
  <2>1. pc = "members" /\ turn <= Len(order)
    BY EndAlike
  <2> QED BY <2>1, EndAlike, AtHand
<1>10. /\ Span(g) \subseteq generated /\ start + file <= pos
       /\ \A i \in generated \ Span(g) : sections[i].offset + FileSize(sections[i]) <= start
       /\ Covers(Span(g), g, start, file, mem)
       /\ Spread(Span(g), g, start) /\ (start - g.vaddr) % Pages(g) = 0
  BY <1>2, <1>4, <1>5, <1>6, <1>7 DEF CurFresh
<1>11. Span(h) = Span(g) /\ Pages(h) = Pages(g) /\ h.vaddr = g.vaddr
  BY <1>7, AlikeAre DEF Alike
<1>12. \A i \in generated : i \in 1..Len(sections)
  <2>1. Len(sections) \in Nat
    BY ShapedIs
  <2> QED BY <1>9, <2>1 DEF Settles
<1>13. Covers(Span(h), h, start, file, h.memsz)
  <2>1. PICK m2 : m2 = h.memsz
    OBVIOUS
  <2>2. m2 \in Nat /\ mem <= m2
    BY <1>7, <1>8, <2>1
  <2>3. Span(g) \subseteq 1..Len(sections)
    BY <1>10, <1>12
  <2>4. Covers(Span(h), h, start, file, m2)
    BY <1>7, <1>8, <1>10, <2>2, <2>3, CoversMore
  <2> QED BY <2>1, <2>4
<1>14. ASSUME NEW i \in generated PROVE Foreign(h, i, start, file)
  <2>1. PICK x : x = sections[i]
    OBVIOUS
  <2>2. x.offset \in Nat /\ x.addr \in Nat /\ (InFile(x) => FileSize(x) = x.size)
    BY <1>12, <2>1, PlaceNats DEF InFile
  <2>3. CASE i \in Span(g)
    <3>1. InFile(x) => x.offset - start = x.addr - g.vaddr
      BY <1>10, <2>1, <2>3 DEF Covers, Covered, Distant
    <3>2. PICK o : o = x.offset
      OBVIOUS
    <3>3. PICK a : a = x.addr
      OBVIOUS
    <3>4. PICK v : v = g.vaddr
      OBVIOUS
    <3>5. o \in Nat /\ a \in Nat /\ v \in Nat
      BY <1>7, <2>2, <3>2, <3>3, <3>4
    <3>6. o - start = a - v => a - o = v - start
      BY <1>8, <3>5
    <3> QED BY <1>11, <2>1, <3>1, <3>2, <3>3, <3>4, <3>6 DEF Foreign
  <2>4. CASE i \notin Span(g)
    BY <1>10, <2>1, <2>2, <2>4 DEF Foreign
  <2> QED BY <2>3, <2>4
<1>15. LaidOut(h)'
  <2>1. Covers(Span(h), h, start, file, h.memsz)'
    BY <1>9, <1>13, SameSections DEF Covers
  <2>2. \A i \in generated : Foreign(h, i, start, file)'
    BY <1>9, <1>14, SameSections
  <2> QED BY <1>7, <1>9, <1>10, <1>11, <2>1, <2>2 DEF LaidOut, Pages
<1>16. Root(h)'
  <2>1. Spread(Span(h), h, start)
    BY <1>7, <1>10, <1>11, AlikeAre
  <2>2. Spread(Span(h), h, start)'
    BY <1>9, <2>1, SameSections
  <2> QED BY <1>7, <2>2 DEF Root
<1> QED BY <1>1, <1>3, <1>15, <1>16

LEMMA NestedIsLaid ==
    ASSUME Shaped, Typed, OrdInv, Lines, Families, AllLaid, Settles, CurNested, EndSegment, Segment.members # <<>>
    PROVE  \A n : n = order[turn] => LaidOut(segments[n])'
<1>1. PICK n : n = order[turn]
  OBVIOUS
<1>2. PICK g : g = Segment
  OBVIOUS
<1>3. PICK h : h = segments'[n]
  OBVIOUS
<1>4. PICK start : start = cur.start
  OBVIOUS
<1>5. PICK file : file = cur.file
  OBVIOUS
<1>6. PICK mem : mem = cur.mem
  OBVIOUS
<1>7. /\ Done = Span(g) /\ Alike(g, h) /\ h.offset = start /\ h.filesz = file
      /\ h.memsz >= mem /\ h.memsz \in Nat /\ Segmented(g, Len(sections)) /\ g.vaddr \in Nat
      /\ n \in 1..Len(segments) /\ g = segments[n]
  BY <1>1, <1>2, <1>3, <1>4, <1>5, <1>6, EndHas
<1>8. start \in Nat /\ file \in Nat /\ mem \in Nat
  BY <1>4, <1>5, <1>6, CurIs
<1>9. /\ sections' = sections /\ generated' = generated /\ pos' = pos /\ Settled' = generated /\ Settled = generated
      /\ pc = "members" /\ turn <= Len(order) /\ Laid \subseteq 1..Len(segments)
  <2>1. pc = "members" /\ turn <= Len(order)
    BY EndAlike
  <2> QED BY <2>1, EndAlike, AtHand
<1>10. /\ Span(g) \subseteq generated /\ start + file <= pos
       /\ Covers(Span(g), g, start, file, mem) /\ start = sections[g.members[1]].offset
  BY <1>2, <1>4, <1>5, <1>6, <1>7 DEF CurNested
<1>11. Span(h) = Span(g) /\ Pages(h) = Pages(g) /\ h.vaddr = g.vaddr
  BY <1>7, AlikeAre DEF Alike
<1>12. \A i \in generated : i \in 1..Len(sections)
  <2>1. Len(sections) \in Nat
    BY ShapedIs
  <2> QED BY <1>9, <2>1 DEF Settles
<1>13. Covers(Span(h), h, start, file, h.memsz)
  <2>1. PICK m2 : m2 = h.memsz
    OBVIOUS
  <2>2. m2 \in Nat /\ mem <= m2
    BY <1>7, <1>8, <2>1
  <2>3. Span(g) \subseteq 1..Len(sections)
    BY <1>10, <1>12
  <2>4. Covers(Span(h), h, start, file, m2)
    BY <1>7, <1>8, <1>10, <2>2, <2>3, CoversMore
  <2> QED BY <2>1, <2>4
<1>14. PICK f \in Laid : Inside(f, g)
  BY <1>2 DEF CurNested
<1>15. PICK F : F = segments[f]
  OBVIOUS
<1>16. /\ Root(F) /\ Span(g) \subseteq Span(F) /\ (file > 0 => start + file <= F.offset + F.filesz)
  BY <1>4, <1>5, <1>14, <1>15 DEF Inside
<1>17. PICK p : p = g.members[1]
  OBVIOUS
<1>18. p \in Span(g) /\ p \in 1..Len(sections) /\ f \in 1..Len(segments)
  BY <1>2, <1>7, <1>9, <1>10, <1>12, <1>17, SpanOf
<1>19. LaidOut(F) /\ Segmented(F, Len(sections))
  <2>1. F.members # <<>>
    BY <1>15, <1>16, <1>18, SpanOf
  <2> QED BY <1>15, <1>18, <2>1, SpanOf DEF AllLaid
<1>20. Nests(g, F)
  <2>1. Span(g) \cap Span(F) # {}
    BY <1>16, <1>18
  <2> QED BY <1>2, <1>9, <1>15, <2>1, ElderIs
<1>21. PICK q : q = F.offset
  OBVIOUS
<1>22. PICK w : w = F.vaddr
  OBVIOUS
<1>23. PICK v : v = g.vaddr
  OBVIOUS
<1>24. q \in Nat /\ w \in Nat /\ v \in Nat /\ F.filesz \in Nat
  BY <1>7, <1>19, <1>21, <1>22, <1>23, WordIs DEF Segmented
<1>25. start - q = v - w
  <2>1. Straight(p, F) /\ sections[p].addr = v
    BY <1>17, <1>20, <1>23 DEF Nests, AtSectionStart
  <2>2. Distant(p, F, q)
    BY <1>16, <1>18, <1>21, <2>1 DEF Root, Spread
  <2> QED BY <1>10, <1>17, <1>22, <2>1, <2>2 DEF Distant
<1>26. start - v = q - w
  BY <1>8, <1>24, <1>25
<1>27. (start - v) % Pages(g) = 0
  <2>1. PICK P : P = Pages(F)
    OBVIOUS
  <2>2. PICK R : R = Pages(g)
    OBVIOUS
  <2>3. PICK b : b = q - w
    OBVIOUS
  <2>4. b % P = 0 /\ P % R = 0
    BY <1>19, <1>20, <1>21, <1>22, <2>1, <2>2, <2>3 DEF LaidOut, Nests
  <2>5. P \in Nat \ {0} /\ R \in Nat \ {0} /\ b \in Int /\ P \in Int
    <3>1. F.align \in Nat /\ g.align \in Nat
      BY <1>7, <1>19 DEF Segmented
    <3>2. P \in {F.align, 1} /\ R \in {g.align, 1} /\ P >= 1 /\ R >= 1
      BY <2>1, <2>2, <3>1, MaxOfTwo DEF Pages
    <3>3. P \in Nat \ {0} /\ R \in Nat \ {0}
      BY <3>1, <3>2
    <3>4. b \in Int
      BY <1>24, <2>3
    <3> QED BY <3>3, <3>4
  <2>6. Divides(P, b)
    BY <2>4, <2>5, ZeroRest
  <2>7. Divides(R, P)
    BY <2>4, <2>5, ZeroRest
  <2>8. Divides(R, b)
    BY <2>5, <2>6, <2>7, DividesTwice
  <2>9. b % R = 0
    BY <2>5, <2>8, ZeroRest
  <2> QED BY <1>26, <2>2, <2>3, <2>9
<1>28. ASSUME NEW i \in generated PROVE Foreign(h, i, start, file)
  <2> SUFFICES ASSUME InFile(sections[i]), file > 0
               PROVE  LET x == sections[i] IN
                      x.offset + x.size <= start \/ start + file <= x.offset \/ x.addr - x.offset = v - start
    BY <1>11, <1>23 DEF Foreign
  <2>1. PICK o : o = sections[i].offset
    OBVIOUS
  <2>2. PICK a : a = sections[i].addr
    OBVIOUS
  <2>3. PICK z : z = sections[i].size
    OBVIOUS
  <2>4. PICK fz : fz = F.filesz
    OBVIOUS
  <2>5. o \in Nat /\ a \in Nat /\ z \in Nat /\ fz \in Nat
    BY <1>12, <1>24, <2>1, <2>2, <2>3, <2>4, PlaceNats
  <2>6. q <= start
    <3>1. Covered(Span(F), F, p, F.offset, F.filesz, F.memsz)
      BY <1>16, <1>18, <1>19 DEF LaidOut, Covers
    <3> QED BY <1>10, <1>17, <1>21, <3>1 DEF Covered
  <2>7. start + file <= q + fz
    BY <1>16, <1>21, <2>4
  <2>8. fz > 0
    BY <1>8, <1>24, <2>5, <2>6, <2>7
  <2>9. Foreign(F, i, F.offset, F.filesz)
    BY <1>9, <1>19 DEF LaidOut
  <2>10. o + z <= q \/ q + fz <= o \/ a - o = w - q
    BY <1>21, <1>22, <2>1, <2>2, <2>3, <2>4, <2>8, <2>9 DEF Foreign
  <2>11. CASE o + z <= q
    <3>1. o + z <= start
      BY <1>8, <1>24, <2>5, <2>6, <2>11
    <3> QED BY <2>1, <2>2, <2>3, <3>1
  <2>12. CASE q + fz <= o
    <3>1. start + file <= o
      BY <1>8, <1>24, <2>5, <2>7, <2>12
    <3> QED BY <2>1, <2>2, <2>3, <3>1
  <2>13. CASE a - o = w - q
    <3>1. a - o = v - start
      BY <1>8, <1>24, <1>26, <2>5, <2>13
    <3> QED BY <2>1, <2>2, <2>3, <3>1
  <2> QED BY <2>10, <2>11, <2>12, <2>13
<1>29. LaidOut(h)'
  <2>1. Covers(Span(h), h, start, file, h.memsz)'
    BY <1>9, <1>13, SameSections DEF Covers
  <2>2. \A i \in generated : Foreign(h, i, start, file)'
    BY <1>9, <1>28, SameSections
  <2> QED BY <1>7, <1>9, <1>10, <1>11, <1>23, <1>27, <2>1, <2>2 DEF LaidOut, Pages
<1> QED BY <1>1, <1>3, <1>29

LEMMA EndSegmentLays ==
    ASSUME Shaped, Typed, OrdInv, LayInv, EndSegment
    PROVE  LayInv'
<1> SUFFICES ASSUME regular' PROVE LayInv'
  BY DEF LayInv
<1>1. regular
  BY DEF EndSegment, past
<1>2. /\ pc = "members" /\ pc' = "segment" /\ turn <= Len(order) /\ sections' = sections
      /\ generated' = generated /\ pos' = pos
      /\ Laid' = Laid \cup {order[turn]} /\ Settled' = generated
      /\ Placing' /\ ~ Written' /\ Len(segments') = Len(segments)
      /\ \A k \in 1..Len(segments) : k # order[turn] => segments'[k] = segments[k]
  BY EndAlike
<1>3. /\ Lines /\ Settles /\ AllLaid /\ Families /\ Owned /\ CurInv
  BY <1>1, <1>2 DEF LayInv, Writing, Placing
<1>4. Lines' /\ Rows' /\ Families' /\ Heads' /\ HeadFirst' /\ NothingYet' /\ Settles' /\ CurInv'
  BY <1>1, EndFrame
<1>5. /\ Settled = generated /\ order[turn] \in 1..Len(segments) /\ order[turn] \notin Laid
      /\ Laid \subseteq 1..Len(segments)
  BY <1>2, AtHand
<1>6. PICK n : n = order[turn]
  OBVIOUS
<1>7. /\ Segment.members = segments'[n].members /\ Segment.type = segments'[n].type
      /\ segments'[n].filesz = cur.file /\ Done = Span(segments'[n])
  <2>1. PICK g : g = Segment
    OBVIOUS
  <2>2. PICK h : h = segments'[n]
    OBVIOUS
  <2>3. Alike(g, h) /\ h.filesz = cur.file /\ Done = Span(g)
    BY <1>6, <2>1, <2>2, EndHas
  <2> QED BY <2>1, <2>2, <2>3, AlikeAre DEF Alike
<1>8. Segment.members # <<>> => LaidOut(segments[n])' /\ (CurFresh => Root(segments[n])')
  <2> SUFFICES ASSUME Segment.members # <<>>
               PROVE  LaidOut(segments[n])' /\ (CurFresh => Root(segments[n])')
    OBVIOUS
  <2>1. CASE CurFresh
    BY <1>3, <1>6, <2>1, FreshIsLaid
  <2>2. CASE ~ CurFresh
    <3>1. CurNested
      BY <1>2, <1>3, <2>2 DEF CurInv
    <3> QED BY <1>3, <1>6, <2>2, <3>1, NestedIsLaid
  <2> QED BY <2>1, <2>2
<1>9. ASSUME NEW f \in Laid
      PROVE  /\ segments'[f] = segments[f] /\ (LaidOut(segments[f]) => LaidOut(segments[f])')
             /\ (Root(segments[f]) => Root(segments[f])')
  <2>1. PICK F : F = segments[f]
    OBVIOUS
  <2>2. F = segments'[f]
    BY <1>2, <1>5, <2>1
  <2>3. LaidOut(F) => LaidOut(F)'
    <3>1. \A S, start, file, mem : Covers(S, F, start, file, mem)' <=> Covers(S, F, start, file, mem)
      BY <1>2, SameSections, Zenon DEF Covers
    <3> QED BY <1>2, <1>5, <3>1, SameSections DEF LaidOut, Pages
  <2>4. Root(F) => Root(F)'
    BY <1>2, SameSections DEF Root
  <2> QED BY <2>1, <2>2, <2>3, <2>4
<1>10. AllLaid'
  <2>1. ASSUME NEW f \in Laid
        PROVE  IF segments'[f].members = <<>> THEN segments'[f].type # "phdr" => segments'[f].filesz = 0
               ELSE LaidOut(segments[f])'
    BY <1>3, <1>9 DEF AllLaid
  <2>2. IF segments'[n].members = <<>> THEN segments'[n].type # "phdr" => segments'[n].filesz = 0
        ELSE LaidOut(segments[n])'
    BY <1>2, <1>3, <1>7, <1>8 DEF CurInv
  <2> QED BY <1>2, <1>6, <2>1, <2>2 DEF AllLaid
<1>11. Owned'
  <2> SUFFICES ASSUME NEW i \in generated
               PROVE  \E f \in Laid' : i \in Span(segments'[f]) /\ Root(segments[f])'
    BY <1>2 DEF Owned
  <2>1. CASE \E f \in Laid : i \in Span(segments[f]) /\ Root(segments[f])
    BY <1>2, <1>9, <2>1
  <2>2. CASE Segment.members # <<>> /\ CurFresh /\ i \in Done
    BY <1>2, <1>6, <1>7, <1>8, <2>2
  <2> QED BY <1>3, <2>1, <2>2 DEF Owned
<1> QED BY <1>2, <1>4, <1>10, <1>11 DEF LayInv

-----------------------------------------------------------------------------
(* layout_sections_without_segments.  The sections that had their place     *)
(* before are all in a segment.                                             *)
Strays == pc = "loose" /\ regular =>
    \A i \in generated : \E n \in 1..Len(segments) : i \in Span(segments[n])

(* Places further on in the file are used up, and nothing is put there.     *)
LEMMA LaysOn ==
    ASSUME Shaped, Typed, Lines, Settles, AllLaid, sections' = sections, segments' = segments,
           Laid' = Laid, Laid \subseteq 1..Len(segments), Settled' = Settled, pos' \in Nat, pos <= pos'
    PROVE  Lines' /\ Settles' /\ AllLaid'
<1>1. PICK p : p = pos
  OBVIOUS
<1>2. PICK p2 : p2 = pos'
  OBVIOUS
<1>3. p \in Nat /\ p2 \in Nat /\ p <= p2
  BY <1>1, <1>2, CurIs
<1>4. /\ Headers' = Headers /\ Headers \in Nat /\ Headers <= p /\ Settled \subseteq 2..Len(sections)
      /\ Len(sections) \in Nat
  <2>1. Len(segments) \in Nat
    BY ShapedIs, Listed DEF Typed
  <2>2. Headers \in Nat
    BY <2>1 DEF Headers, EHDR, PHDR
  <2> QED BY <1>1, <2>2, ShapedIs, SameObject DEF Settles
<1>5. Lines'
  BY SameObject
<1>6. Settles'
  <2>1. ASSUME NEW x \in Settled PROVE Stretch(x)'
    <3>1. Stretch(x) /\ x \in 1..Len(sections)
      BY <1>4 DEF Settles
    <3>2. PICK e : e = sections[x].offset + FileSize(sections[x])
      OBVIOUS
    <3>3. e \in Nat /\ e <= p /\ Headers <= sections[x].offset
      BY <1>1, <3>1, <3>2, PlaceNats DEF Stretch
    <3>4. e <= p2
      BY <1>3, <3>3
    <3> QED BY <1>2, <1>4, <3>2, <3>3, <3>4 DEF Stretch
  <2>2. Headers <= p2
    BY <1>3, <1>4
  <2>3. \A i, j \in Settled : i # j /\ InFile(sections[i]) /\ InFile(sections[j]) => Clear(i, j)'
    BY SameSections DEF Settles
  <2> QED BY <1>2, <1>4, <2>1, <2>2, <2>3 DEF Settles
<1>7. ASSUME NEW n \in Laid, segments[n].members # <<>>
      PROVE  LaidOut(segments[n])'
  <2>1. PICK g : g = segments[n]
    OBVIOUS
  <2>2. LaidOut(g) /\ n \in 1..Len(segments) /\ g = segments'[n]
    BY <1>7, <2>1 DEF AllLaid
  <2>3. g.offset \in Nat /\ g.filesz \in Nat
    <3>1. Segmented(g, Len(sections))
      BY <2>1, <2>2, SpanOf
    <3> QED BY <3>1, WordIs DEF Segmented
  <2>4. PICK e : e = g.offset + g.filesz
    OBVIOUS
  <2>5. e \in Nat /\ e <= p
    BY <1>1, <2>2, <2>3, <2>4 DEF LaidOut
  <2>6. e <= p2
    BY <1>3, <2>5
  <2>7. /\ Span(g) \subseteq Settled /\ Covers(Span(g), g, g.offset, g.filesz, g.memsz)
        /\ (g.offset - g.vaddr) % Pages(g) = 0
        /\ \A i \in Settled : Foreign(g, i, g.offset, g.filesz)
    BY <2>2 DEF LaidOut
  <2>8. Covers(Span(g), g, g.offset, g.filesz, g.memsz)'
    BY <2>7, SameSections DEF Covers
  <2>9. \A i \in Settled' : Foreign(g, i, g.offset, g.filesz)'
    BY <2>7, SameSections
  <2>10. LaidOut(g)'
    BY <1>2, <2>4, <2>6, <2>7, <2>8, <2>9 DEF LaidOut, Pages
  <2> QED BY <2>1, <2>2, <2>10
<1>8. AllLaid'
  BY <1>7 DEF AllLaid
<1> QED BY <1>5, <1>6, <1>8

LEMMA SegmentsPlacedLays ==
    ASSUME Shaped, Typed, OrdInv, LayInv, SegmentsPlaced
    PROVE  LayInv' /\ Strays'
<1> SUFFICES ASSUME regular' PROVE LayInv' /\ Strays'
  BY DEF LayInv, Strays
<1>1. /\ pc = "segment" /\ pc' = "loose" /\ turn > Len(order) /\ turn' = 1 /\ regular
      /\ UNCHANGED <<sections, segments, work, order, pos, cur, generated, table>>
  BY DEF SegmentsPlaced, Turn, client, plan, place, past
<1>2. /\ Lines /\ Settles /\ AllLaid /\ Owned
  BY <1>1 DEF LayInv, Writing, Placing
<1>3. order \in Seq(1..Len(segments)) /\ turn \in 1..Len(order) + 1
  BY <1>1 DEF Typed, Turns, Saving, SaveSteps
<1>4. Len(order) \in Nat /\ \A k \in 1..Len(order) : order[k] \in 1..Len(segments)
  BY <1>3, SeqIs
<1>5. turn = Len(order) + 1 /\ turn - 1 = Len(order)
  BY <1>1, <1>3, <1>4
<1>6. \A n \in 1..Len(segments) : \E k \in 1..Len(order) : order[k] = n
  BY <1>1 DEF OrdInv, Placing, Queued, Queue
<1>7. Laid = 1..Len(segments)
  <2>1. Laid = {order[k] : k \in 1..Len(order)}
    BY <1>1, <1>5 DEF Laid
  <2> QED BY <1>4, <1>6, <2>1
<1>8. Laid' = 1..Len(segments)
  BY <1>1 DEF Laid
<1>9. Settled = generated /\ Settled' = generated
  <2>1. turn' - 1 = 0 /\ 2..0 = {}
    BY <1>1
  <2> QED BY <1>1, <2>1 DEF Settled, Placing
<1>10. pos' \in Nat /\ pos <= pos'
  BY <1>1, CurIs
<1>11. Lines' /\ Settles' /\ AllLaid'
  BY <1>1, <1>2, <1>7, <1>8, <1>9, <1>10, LaysOn
<1>12. ~ Written' /\ ~ Placing' /\ CurInv'
  BY <1>1 DEF Written, Placing, CurInv
<1>13. LayInv'
  BY <1>11, <1>12 DEF LayInv
<1>14. Strays'
  BY <1>1, <1>2, <1>7 DEF Strays, Owned
<1> QED BY <1>13, <1>14

LEMMA LooseSectionLays ==
    ASSUME Shaped, Typed, LayInv, Strays, LooseSection
    PROVE  LayInv' /\ Strays'
<1> SUFFICES ASSUME regular' PROVE LayInv' /\ Strays'
  BY DEF LayInv, Strays
<1>1. /\ pc = "loose" /\ pc' = "loose" /\ turn <= Len(sections) /\ turn' = turn + 1 /\ regular
      /\ UNCHANGED <<reply, segments, work, order, cur, generated, table>>
  BY DEF LooseSection, client, plan, past, Reach
<1>2. Lines /\ Settles /\ AllLaid
  BY <1>1 DEF LayInv, Writing
<1>3. PICK t : t = turn
  OBVIOUS
<1>4. t \in 1..Len(sections) /\ Len(sections) \in Nat /\ turn' = t + 1
  <2>1. turn \in 1..Len(sections) + 1 /\ Len(sections) \in Nat
    BY <1>1, ShapedIs DEF Typed, Turns, Saving, SaveSteps
  <2> QED BY <1>1, <1>3, <2>1
<1>5. Laid = 1..Len(segments) /\ Laid' = Laid
  BY <1>1 DEF Laid
<1>6. Settled = generated \cup 2..t - 1 /\ Settled' = generated \cup 2..t
  <2>1. t + 1 - 1 = t
    BY <1>4
  <2>2. turn' - 1 = t
    BY <1>4, <2>1
  <2> QED BY <1>1, <1>3, <2>2 DEF Settled, Placing
<1>7. Strays'
  BY <1>1 DEF Strays
<1>8. PICK gap : gap = Gap(pos, sections[t].align)
  OBVIOUS
<1>9. PICK fs : fs = IF sections[t].type \in {"null", "nobits"} THEN 0 ELSE sections[t].size
  OBVIOUS
<1>10. PICK p : p = pos
  OBVIOUS
<1>11. gap \in Nat /\ fs \in Nat /\ p \in Nat /\ FileSize(sections[t]) = fs
  <2>1. PICK al : al = sections[t].align
    OBVIOUS
  <2>2. p \in Nat /\ p \in Int /\ al \in Nat /\ al \in Int /\ sections[t].size \in Nat
    BY <1>4, <1>10, <2>1, ShapedIs, CurIs
  <2>3. gap \in Nat
    BY <1>8, <1>10, <2>1, <2>2, GapIs
  <2>4. sections[t].type = "null" => sections[t].size = 0
    BY <1>2, <1>4 DEF Lines
  <2> QED BY <1>9, <2>2, <2>3, <2>4 DEF FileSize
<1>12. CASE \E g \in 1..Len(segments) : t \in Span(segments[g])
  <2>1. PICK n \in 1..Len(segments) : t \in Span(segments[n])
    BY <1>12
  <2>2. segments[n].members # <<>>
    BY <2>1, SpanOf
  <2>3. t \in Settled
    BY <1>2, <1>5, <2>1, <2>2 DEF AllLaid, LaidOut
  <2>4. Settled' = Settled
    <3>1. 2..t = 2..t - 1 \/ 2..t = (2..t - 1) \cup {t}
      BY <1>4
    <3> QED BY <1>6, <2>3, <3>1
  <2>5. sections' = sections /\ pos' = pos
    BY <1>3, <1>12 DEF LooseSection
  <2>6. pos' \in Nat /\ pos <= pos'
    BY <2>5, CurIs
  <2>7. Lines' /\ Settles' /\ AllLaid'
    BY <1>1, <1>2, <1>5, <2>4, <2>5, <2>6, LaysOn
  <2> QED BY <1>1, <1>7, <2>7 DEF LayInv, Written, Placing, CurInv
<1>13. CASE ~ \E g \in 1..Len(segments) : t \in Span(segments[g])
  <2>1. /\ sections' = IF t = 1 THEN sections ELSE [sections EXCEPT ![t].offset = Plus(p, gap)]
        /\ pos' = Plus(p, gap + fs) /\ p + (gap + fs) < WORD
    BY <1>3, <1>8, <1>9, <1>10, <1>13 DEF LooseSection, Reach
  <2>2. /\ Plus(p, gap + fs) = p + (gap + fs) /\ Plus(p, gap) = p + gap
        /\ p + gap \in Nat /\ p + (gap + fs) \in Nat /\ p <= p + gap /\ p <= p + (gap + fs)
        /\ (p + gap) + fs = p + (gap + fs)
    <3>1. p + gap < WORD /\ gap + fs \in Nat
      BY <1>11, <2>1, WordIs
    <3>2. Plus(p, gap) = p + gap
      BY <1>11, <3>1, PlusIs
    <3>3. PICK m : m = gap + fs
      OBVIOUS
    <3>4. Plus(p, m) = p + m
      BY <1>11, <2>1, <3>1, <3>3, PlusIs
    <3> QED BY <1>11, <3>2, <3>3, <3>4
  <2>3. CASE t = 1
    <3>1. Settled' = Settled
      <4>1. 2..1 = {} /\ 2..0 = {} /\ 1 - 1 = 0
        OBVIOUS
      <4> QED BY <1>6, <2>3, <4>1
    <3>2. sections' = sections /\ pos' \in Nat /\ pos <= pos'
      BY <1>10, <2>1, <2>2, <2>3
    <3>3. Lines' /\ Settles' /\ AllLaid'
      BY <1>1, <1>2, <1>5, <3>1, <3>2, LaysOn
    <3> QED BY <1>1, <1>7, <3>3 DEF LayInv, Written, Placing, CurInv
  <2>4. CASE t # 1
    <3>1. t \in 2..Len(sections)
      BY <1>4, <2>4
    <3>2. t \notin Settled /\ Settled' = Settled \cup {t}
      <4>1. t \notin generated
        BY <1>1, <1>13 DEF Strays
      <4>2. t \notin 2..t - 1 /\ 2..t = (2..t - 1) \cup {t}
        BY <3>1
      <4> QED BY <1>6, <4>1, <4>2
    <3>3. PICK x : x = [sections[t] EXCEPT !.offset = Plus(p, gap)]
      OBVIOUS
    <3>4. sections' = [sections EXCEPT ![t] = x]
      BY <2>1, <2>4, <3>3
    <3>5. /\ Len(sections') = Len(sections) /\ sections'[t] = x
          /\ \A k \in 1..Len(sections) : k # t => sections'[k] = sections[k]
      BY <1>4, <3>4, PutSection
    <3>6. /\ x.offset = p + gap /\ x.type = sections[t].type /\ x.size = sections[t].size
          /\ x.alloc = sections[t].alloc /\ x.tls = sections[t].tls
          /\ x.addrSet = sections[t].addrSet /\ x.addr = sections[t].addr
      <4>1. PlaceFields \subseteq DOMAIN sections[t]
        BY <1>4, ShapedIs
      <4> QED BY <2>2, <3>3, <4>1 DEF PlaceFields
    <3>7. Steady
      BY <1>1, <1>4, <3>5, <3>6 DEF Steady
    <3>8. FileSize(x) = fs
      BY <1>11, <3>6 DEF FileSize
    <3>9. /\ pos <= sections'[t].offset /\ sections'[t].offset \in Nat /\ pos' \in Nat /\ pos <= pos'
          /\ sections'[t].offset + FileSize(sections'[t]) <= pos'
      <4>1. sections'[t].offset = p + gap /\ FileSize(sections'[t]) = fs
        BY <3>5, <3>6, <3>8
      <4>2. pos' = (p + gap) + fs
        BY <2>1, <2>2
      <4>3. (p + gap) + fs <= (p + gap) + fs /\ p <= (p + gap) + fs /\ (p + gap) + fs \in Nat
        BY <1>11
      <4> QED BY <1>10, <2>2, <4>1, <4>2, <4>3
    <3>10. Laid \subseteq 1..Len(segments)
      BY <1>5
    <3>11. Lines' /\ Settles' /\ AllLaid'
      BY <1>2, <1>5, <3>1, <3>2, <3>5, <3>7, <3>9, <3>10, SpaceTaken
    <3> QED BY <1>1, <1>7, <3>11 DEF LayInv, Written, Placing, CurInv
  <2> QED BY <2>3, <2>4
<1> QED BY <1>12, <1>13

-----------------------------------------------------------------------------
(* The section table, and what is written                                   *)
LEMMA PlaceTableLays ==
    ASSUME Shaped, Typed, LayInv, PlaceTable
    PROVE  LayInv'
<1> SUFFICES ASSUME regular' PROVE LayInv'
  BY DEF LayInv
<1>1. /\ pc = "loose" /\ pc' = "header" /\ turn > Len(sections) /\ regular
      /\ UNCHANGED <<sections, segments, work, order, turn, cur, generated>>
      /\ table' = Plus(pos, Gap(pos, 4)) /\ pos' = table' /\ pos + Gap(pos, 4) < WORD
  BY DEF PlaceTable, client, plan, Reach
<1>2. Lines /\ Settles /\ AllLaid
  BY <1>1 DEF LayInv, Writing
<1>3. turn \in 1..Len(sections) + 1 /\ Len(sections) \in Nat
  BY <1>1, ShapedIs DEF Typed, Turns, Saving, SaveSteps
<1>4. Laid = 1..Len(segments) /\ Laid' = Laid
  BY <1>1 DEF Laid
<1>5. Settled' = Settled
  <2>1. turn - 1 = Len(sections)
    BY <1>1, <1>3
  <2>2. Settled = generated \cup 2..Len(sections) /\ Settled' = 2..Len(sections)
    BY <1>1, <2>1 DEF Settled, Placing
  <2> QED BY <1>2, <2>2 DEF Settles
<1>6. pos' \in Nat /\ pos <= pos'
  <2>1. PICK p : p = pos
    OBVIOUS
  <2>2. PICK four : four = 4
    OBVIOUS
  <2>3. p \in Nat /\ p \in Int /\ four \in Nat /\ four \in Int
    BY <2>1, <2>2, CurIs
  <2>4. PICK gap : gap = Gap(p, four)
    OBVIOUS
  <2>5. gap \in Nat
    BY <2>3, <2>4, GapIs
  <2>6. Plus(p, gap) = p + gap
    BY <1>1, <2>1, <2>2, <2>3, <2>4, <2>5, PlusIs
  <2>7. p + gap \in Nat /\ p <= p + gap
    BY <2>3, <2>5
  <2> QED BY <1>1, <2>1, <2>2, <2>4, <2>6, <2>7
<1>7. Lines' /\ Settles' /\ AllLaid'
  BY <1>1, <1>2, <1>4, <1>5, <1>6, LaysOn
<1> QED BY <1>1, <1>7 DEF LayInv, Placing, CurInv

LEMMA WriteLays ==
    ASSUME Shaped, Typed, LayInv, SaveHeader \/ SaveSection \/ SaveSegments
    PROVE  LayInv'
<1> SUFFICES ASSUME regular' PROVE LayInv'
  BY DEF LayInv
<1>1. /\ pc \in {"header", "write"} /\ pc' \in {"write", "edit"} /\ regular
      /\ UNCHANGED <<sections, segments, pos, generated, table>>
  BY DEF SaveHeader, SaveSection, SaveSegments, Return, client, core, place, past
<1>2. Lines /\ Settles /\ AllLaid /\ table = pos
  BY <1>1 DEF LayInv, Writing, Written
<1>3. Laid = 1..Len(segments) /\ Laid' = Laid /\ Settled' = Settled
  BY <1>1 DEF Laid, Settled, Placing
<1>4. pos' \in Nat /\ pos <= pos'
  BY <1>1, CurIs
<1>5. Lines' /\ Settles' /\ AllLaid'
  BY <1>1, <1>2, <1>3, <1>4, LaysOn
<1> QED BY <1>1, <1>2, <1>5 DEF LayInv, Placing, CurInv

(* Nothing is said to be written of a section that is larger than it, or,   *)
(* unless something was lost, less.                                         *)
LEMMA BytesAre ==
    ASSUME NEW s, Shape(s), NEW n \in Bytes(s)
    PROVE  /\ n <= s.size /\ (~ InFile(s) => n = 0)
           /\ InFile(s) /\ ~ Lost(s) /\ ~ s.deflate => n = s.size
<1>1. s.size \in Nat /\ s.room \in Nat
  BY DEF Shape
<1>2. PICK z : z = s.size
  OBVIOUS
<1>3. z \in Nat /\ 0 <= z /\ z <= z /\ z \div 2 <= z
  BY <1>1, <1>2
<1>4. n \in {0, z \div 2, z}
  BY <1>2 DEF Bytes, Deflated
<1>5. n <= s.size
  BY <1>2, <1>3, <1>4
<1>6. InFile(s) /\ ~ Lost(s) => s.room > 0
  BY <1>1 DEF InFile, Lost
<1> QED BY <1>5, <1>6 DEF Bytes

LEMMA WriteStores ==
    ASSUME Shaped, Typed, StoredInv, SaveHeader \/ SaveSection \/ SaveSegments
    PROVE  StoredInv'
<1>1. Saving /\ Turns /\ reply = "none" /\ Len(sections) \in Nat
  BY ShapedIs DEF SaveHeader, SaveSection, SaveSegments, Saving, SaveSteps, Typed
<1>2. CASE SaveHeader
  <2>1. stored = <<>> /\ stored' = stored /\ (reply' = "none" \/ reply' = "failed")
    BY <1>1, <1>2 DEF SaveHeader, Return, Turns
  <2>2. Len(<<>>) = 0 /\ 1..0 = {}
    OBVIOUS
  <2> QED BY <2>1, <2>2 DEF StoredInv
<1>3. CASE SaveSection
  <2>1. pc = "write" /\ sections' = sections /\ Len(stored) < Len(sections)
        /\ \/ good' = good /\ \E n \in Bytes(sections[Len(stored) + 1]) : stored' = Append(stored, n)
           \/ good' = FALSE /\ stored' = Append(stored, 0)
    BY <1>3 DEF SaveSection, core
  <2>2. stored \in Seq(Nat) /\ Len(stored) \in Nat
    BY <1>1, <2>1, SeqIs DEF Turns
  <2>3. PICK k : k = Len(stored) + 1
    OBVIOUS
  <2>4. k \in 1..Len(sections)
    BY <1>1, <2>1, <2>2, <2>3
  <2>5. PICK n : /\ stored' = Append(stored, n) /\ (n \in Bytes(sections[k]) \/ n = 0)
                 /\ (good' = good /\ n \in Bytes(sections[k])) \/ (good' = FALSE /\ n = 0)
    BY <2>1, <2>3
  <2>6. Shape(sections[k]) /\ sections[k].size \in Nat
    BY <2>4, ShapedIs
  <2>7. n \in Nat
    BY <2>5, <2>6 DEF Bytes, Deflated
  <2>8. Len(stored') = k /\ stored'[k] = n /\ \A i \in 1..k - 1 : stored'[i] = stored[i] /\ i \in 1..Len(stored)
    BY <2>2, <2>3, <2>5, <2>7
  <2>9. /\ n <= sections[k].size /\ (~ InFile(sections[k]) => n = 0)
        /\ good' /\ InFile(sections[k]) /\ ~ Lost(sections[k]) /\ ~ sections[k].deflate => n = sections[k].size
    <3>1. 0 <= sections[k].size
      BY <2>6
    <3> QED BY <2>5, <2>6, <3>1, BytesAre
  <2>10. ASSUME NEW i \in 1..k
         PROVE  LET s == sections[i]
                IN  /\ stored'[i] <= s.size
                    /\ ~ InFile(s) => stored'[i] = 0
                    /\ good' /\ InFile(s) /\ ~ Lost(s) /\ ~ s.deflate => stored'[i] = s.size
    <3>1. CASE i = k
      BY <2>8, <2>9, <3>1
    <3>2. CASE i # k
      <4>1. i \in 1..k - 1 /\ i \in 1..Len(stored)
        BY <2>2, <2>3, <3>2
      <4>2. good' => good
        BY <2>5 DEF Typed
      <4> QED BY <2>1, <2>8, <4>1, <4>2 DEF StoredInv
    <3> QED BY <3>1, <3>2
  <2> QED BY <2>1, <2>8, <2>10 DEF StoredInv
<1>4. CASE SaveSegments
  <2>1. pc = "write" /\ sections' = sections /\ stored' = stored /\ (good' => good)
    BY <1>4 DEF SaveSegments, client, Typed
  <2> QED BY <2>1 DEF StoredInv
<1> QED BY <1>2, <1>3, <1>4

(* The other steps of save write nothing.                                   *)
LEMMA NothingStored ==
    ASSUME Typed, \/ OrderStep \/ Ordered \/ BeginSegment \/ PlaceMember \/ EndSegment
                  \/ SegmentsPlaced \/ LooseSection \/ PlaceTable
    PROVE  StoredInv'
<1>1. /\ pc \in {"order", "segment", "members", "loose"}
      /\ pc' \in {"order", "segment", "members", "loose", "header", "edit"}
      /\ reply' = reply \/ reply' = "failed"
  <2>1. CASE OrderStep \/ Ordered
    BY <2>1 DEF OrderStep, Ordered, Turn, core
  <2>2. CASE BeginSegment
    BY <2>2 DEF BeginSegment, Start
  <2>3. CASE PlaceMember
    BY <2>3 DEF PlaceMember, Return
  <2>4. CASE EndSegment \/ SegmentsPlaced
    BY <2>4 DEF EndSegment, SegmentsPlaced, Turn
  <2>5. CASE LooseSection \/ PlaceTable
    BY <2>5 DEF LooseSection, PlaceTable
  <2> QED BY <2>1, <2>2, <2>3, <2>4, <2>5
<1>2. reply = "none"
  BY <1>1 DEF Typed
<1> QED BY <1>1, <1>2 DEF StoredInv

-----------------------------------------------------------------------------
Laying == LayInv /\ Strays /\ StoredInv

LEMMA SaveBeginLaying ==
    ASSUME Shaped, Typed, Laying, SaveBegin
    PROVE  Laying'
<1>1. CASE pc' = "order" /\ reply' = "none"
  <2>1. LayInv'
    BY <1>1, SaveBeginLays DEF LayInv
  <2> QED BY <1>1, <2>1 DEF Laying, Strays, StoredInv
<1>2. CASE reply' = "failed" /\ UNCHANGED <<pc, layout, sections>>
  <2>1. pc' = "edit" /\ regular' = regular
    BY <1>2 DEF SaveBegin, layout, past
  <2> QED BY <1>2, <2>1 DEF Laying, LayInv, Strays, StoredInv, Writing, Written, Placing, CurInv
<1> QED BY <1>1, <1>2 DEF SaveBegin

LEMMA SaveStepLaying ==
    ASSUME Shaped, Typed, OrdInv, Laying, SaveStep
    PROVE  Laying' /\ (pc = "members" /\ reply' = "failed" => ~ regular)
<1>1. LayInv /\ Strays /\ StoredInv
  BY DEF Laying
<1>2. CASE OrderStep
  <2>1. pc' = "order" /\ pc # "members"
    BY <1>2 DEF OrderStep, core
  <2> QED BY <1>1, <1>2, <2>1, OrderStepLays, NothingStored DEF Laying, Strays
<1>3. CASE Ordered
  <2>1. pc' = "segment" /\ pc # "members"
    BY <1>3 DEF Ordered, Turn
  <2> QED BY <1>1, <1>3, <2>1, OrderedLays, NothingStored DEF Laying, Strays
<1>4. CASE BeginSegment
  <2>1. pc' = "members" /\ pc # "members"
    BY <1>4 DEF BeginSegment, Start
  <2> QED BY <1>1, <1>4, <2>1, BeginSegmentLays, NothingStored DEF Laying, Strays
<1>5. CASE PlaceMember
  <2>1. pc = "members" /\ pc' # "loose" /\ reply = "none" /\ (pc' = pc => reply' = reply)
    BY <1>5 DEF PlaceMember, Return, Typed
  <2> QED BY <1>1, <1>5, <2>1, PlaceMemberLays, NothingStored DEF Laying, Strays
<1>6. CASE EndSegment
  <2>1. pc = "members" /\ pc' = "segment" /\ reply' = "none"
    BY <1>6 DEF EndSegment, Typed
  <2> QED BY <1>1, <1>6, <2>1, EndSegmentLays, NothingStored DEF Laying, Strays
<1>7. CASE SegmentsPlaced
  <2>1. pc # "members"
    BY <1>7 DEF SegmentsPlaced, Turn
  <2> QED BY <1>1, <1>7, <2>1, SegmentsPlacedLays, NothingStored DEF Laying
<1>8. CASE LooseSection
  <2>1. pc # "members"
    BY <1>8 DEF LooseSection
  <2> QED BY <1>1, <1>8, <2>1, LooseSectionLays, NothingStored DEF Laying
<1>9. CASE PlaceTable
  <2>1. pc # "members" /\ pc' = "header"
    BY <1>9 DEF PlaceTable
  <2> QED BY <1>1, <1>9, <2>1, PlaceTableLays, NothingStored DEF Laying, Strays
<1>10. CASE SaveHeader \/ SaveSection \/ SaveSegments
  <2>1. pc # "members" /\ pc' # "loose"
    BY <1>10 DEF SaveHeader, SaveSection, SaveSegments, Return, core
  <2> QED BY <1>1, <1>10, <2>1, WriteLays, WriteStores DEF Laying, Strays
<1> QED BY <1>2, <1>3, <1>4, <1>5, <1>6, <1>7, <1>8, <1>9, <1>10 DEF SaveStep

-----------------------------------------------------------------------------
(* What holds of a regular object that has been saved                       *)
LEMMA SavedIs ==
    ASSUME Shaped, Typed, Laying, Saved, regular
    PROVE  /\ Lines /\ Settles /\ AllLaid /\ table = pos /\ Len(sections) \in Nat
           /\ Len(stored) = Len(sections) /\ Settled = 2..Len(sections)
           /\ \A n \in 1..Len(segments) : IF segments[n].members = <<>>
                    THEN segments[n].type # "phdr" => segments[n].filesz = 0
                    ELSE LaidOut(segments[n])
           /\ \A i \in 1..Len(sections) : InFile(sections[i]) => i \in 2..Len(sections)
<1>1. Written /\ pc = "edit" /\ reply = "ok"
  BY DEF Written, Saved
<1>2. Lines /\ Settles /\ AllLaid /\ table = pos
  BY <1>1 DEF Laying, LayInv, Writing
<1>3. Laid = 1..Len(segments) /\ Settled = 2..Len(sections)
  BY <1>1 DEF Laid, Settled, Placing
<1>4. elf.header /\ sections[1].type = "null" /\ Len(stored) = Len(sections) /\ Len(sections) \in Nat
  BY <1>1, ShapedIs DEF Typed, Headed1
<1>5. \A i \in 1..Len(sections) : InFile(sections[i]) => i # 1
  BY <1>4 DEF InFile
<1>6. \A i \in 1..Len(sections) : i # 1 => i \in 2..Len(sections)
  BY <1>4
<1> QED BY <1>2, <1>3, <1>4, <1>5, <1>6 DEF AllLaid

LEMMA HoldsSections ==
    ASSUME Shaped, Typed, Laying
    PROVE  SegmentsHoldSections
<1> SUFFICES ASSUME Saved, regular, NEW n \in 1..Len(segments), NEW i \in Span(segments[n]),
                    sections[i].size > 0
             PROVE  LET g == segments[n] s == sections[i] IN
                    /\ InFile(s) => /\ s.offset - g.offset = s.addr - g.vaddr
                                    /\ g.offset <= s.offset /\ s.offset + s.size <= g.offset + g.filesz
                    /\ InMemory(s, g) => s.addr >= g.vaddr /\ s.addr + s.size <= g.vaddr + g.memsz
                    /\ \A k \in Span(g) : k > i /\ InMemory(s, g) /\ sections[k].alloc =>
                            s.addr + s.size <= sections[k].addr
  BY DEF SegmentsHoldSections
<1>1. PICK g : g = segments[n]
  OBVIOUS
<1>2. g.members # <<>> /\ i \in 1..Len(sections)
  BY <1>1, SpanOf
<1>3. LaidOut(g)
  BY <1>1, <1>2, SavedIs
<1>4. Covered(Span(g), g, i, g.offset, g.filesz, g.memsz)
  BY <1>1, <1>3 DEF LaidOut, Covers
<1>5. \A k \in Span(g) : k > i <=> i < k
  BY <1>1, <1>2, SpanOf
<1>6. InFile(sections[i]) => sections[i].type # "nobits"
  BY DEF InFile
<1> QED BY <1>1, <1>4, <1>5, <1>6 DEF Covered, Distant

LEMMA Congruent ==
    ASSUME Shaped, Typed, Laying
    PROVE  SegmentsCongruent
<1> SUFFICES ASSUME Saved, regular, NEW n \in 1..Len(segments), segments[n].members # <<>>
             PROVE  (segments[n].offset - segments[n].vaddr) % Pages(segments[n]) = 0
  BY DEF SegmentsCongruent
<1>1. LaidOut(segments[n])
  BY SavedIs
<1> QED BY <1>1 DEF LaidOut

(* The address of what is at g's start in the file is the one g has there.  *)
LEMMA SameAddress ==
    ASSUME NEW a \in 0..WORD - 1, NEW o \in 0..WORD - 1, NEW s \in 0..WORD - 1, NEW v \in 0..WORD - 1,
           a - s = v - o
    PROVE  Minus(Plus(a, o), s) = v
<1>1. WORD \in Nat \ {0}
  BY WordIs
<1>2. CASE a + o < WORD
  <2>1. Plus(a, o) = a + o
    BY <1>1, <1>2, PlusIs
  <2>2. (a + o) - s = v /\ a + o \in Int
    OBVIOUS
  <2>3. v % WORD = v
    BY <1>1, ModSmall
  <2> QED BY <2>1, <2>2, <2>3 DEF Minus
<1>3. CASE a + o >= WORD
  <2>1. (a + o) % WORD = (a + o) - WORD
    <3>1. (a + o) - WORD \in 0..WORD - 1 /\ a + o = 1 * WORD + ((a + o) - WORD)
      BY <1>1, <1>3
    <3>2. PICK r, x : r = (a + o) - WORD /\ x = a + o
      OBVIOUS
    <3> QED BY <1>1, <3>1, <3>2, ModUnique
  <2>2. ((a + o) - WORD) - s = v - WORD
    BY <1>1
  <2>3. (v - WORD) % WORD = v
    <3>1. PICK x : x = v - WORD
      OBVIOUS
    <3>2. x = (-1) * WORD + v /\ x \in Int
      BY <1>1, <3>1
    <3> QED BY <1>1, <3>1, <3>2, ModUnique
  <2> QED BY <2>1, <2>2, <2>3 DEF Minus, Plus
<1>4. a + o < WORD \/ a + o >= WORD
  BY <1>1
<1> QED BY <1>2, <1>3, <1>4

(* What validate() looks for is not found.                                  *)
LEMMA NoOverlap ==
    ASSUME Shaped, Typed, Laying, Saved, regular,
           NEW a \in 1..Len(sections), NEW b \in 1..Len(sections), a < b
    PROVE  ~ Overlap(sections[a], sections[b])
<1> SUFFICES ASSUME Overlap(sections[a], sections[b]) PROVE FALSE
  OBVIOUS
<1>1. PICK x, y : x = sections[a] /\ y = sections[b]
  OBVIOUS
<1>2. /\ x.size > 0 /\ y.size > 0 /\ ~ Masked(x) /\ ~ Masked(y)
      /\ Holds(y, x.offset) \/ Holds(y, x.offset + x.size - 1)
         \/ Holds(x, y.offset) \/ Holds(x, y.offset + y.size - 1)
  BY <1>1 DEF Overlap
<1>3. /\ x.size \in Nat /\ y.size \in Nat /\ x.offset \in Nat /\ y.offset \in Nat
  BY <1>1, PlaceNats
<1>4. InFile(x) /\ InFile(y)
  <2>1. (x.type = "null" => x.size = 0) /\ (y.type = "null" => y.size = 0)
    BY <1>1, SavedIs DEF Lines
  <2> QED BY <1>2, <1>3, <2>1 DEF InFile, Masked
<1>5. Clear(a, b)
  <2>1. a \in 2..Len(sections) /\ b \in 2..Len(sections) /\ a # b
    BY <1>1, <1>4, SavedIs
  <2> QED BY <1>1, <1>4, <2>1, SavedIs DEF Settles
<1>6. PICK p, z, q, w : p = x.offset /\ z = x.size /\ q = y.offset /\ w = y.size
  OBVIOUS
<1>7. p \in Nat /\ z \in Nat /\ q \in Nat /\ w \in Nat /\ z > 0 /\ w > 0
  BY <1>2, <1>3, <1>6
<1>8. p + z <= q \/ q + w <= p
  BY <1>1, <1>5, <1>6 DEF Clear
<1>9. \/ q <= p /\ p < q + w
      \/ q <= (p + z) - 1 /\ (p + z) - 1 < q + w
      \/ p <= q /\ q < p + z
      \/ p <= (q + w) - 1 /\ (q + w) - 1 < p + z
  <2>1. x.offset + x.size - 1 = (p + z) - 1 /\ y.offset + y.size - 1 = (q + w) - 1
    BY <1>6, <1>7
  <2> QED BY <1>2, <1>6, <2>1 DEF Holds
<1> QED BY <1>7, <1>8, <1>9

LEMMA NoConflict ==
    ASSUME Shaped, Typed, Laying, Saved, regular, NEW n \in 1..Len(segments)
    PROVE  ~ Conflict(segments[n])
<1>1. PICK g : g = segments[n]
  OBVIOUS
<1>2. PICK found : found = {i \in 1..Len(sections) :
                    sections[i].type = "progbits" /\ Holds(sections[i], g.offset)}
  OBVIOUS
<1> SUFFICES ASSUME g.type = "load", g.filesz > 0, found # {},
                    Minus(Plus(sections[Min(found)].addr, g.offset), sections[Min(found)].offset) # g.vaddr
             PROVE  FALSE
  BY <1>1, <1>2 DEF Conflict
<1>3. found \subseteq Nat
  BY <1>2
<1>4. Min(found) \in found
  BY <1>3, MinIs
<1>5. PICK i : i = Min(found)
  OBVIOUS
<1>6. i \in 1..Len(sections) /\ sections[i].type = "progbits" /\ Holds(sections[i], g.offset)
  BY <1>2, <1>4, <1>5
<1>7. PICK s : s = sections[i]
  OBVIOUS
<1>8. /\ s.offset \in 0..WORD - 1 /\ s.addr \in 0..WORD - 1 /\ s.size \in Nat
      /\ g.offset \in 0..WORD - 1 /\ g.vaddr \in 0..WORD - 1 /\ g.filesz \in Nat
  <2>1. Segmented(g, Len(sections))
    BY <1>1, SpanOf
  <2> QED BY <1>6, <1>7, <2>1, ShapedIs, WordIs DEF Segmented
<1>9. PICK o, z, p, f : o = s.offset /\ z = s.size /\ p = g.offset /\ f = g.filesz
  OBVIOUS
<1>10. o \in Nat /\ z \in Nat /\ p \in Nat /\ f \in Nat /\ o <= p /\ p < o + z /\ f > 0
  BY <1>6, <1>7, <1>8, <1>9, WordIs DEF Holds
<1>11. InFile(s) /\ i \in 2..Len(sections)
  <2>1. z # 0
    BY <1>10
  <2>2. InFile(s)
    BY <1>6, <1>7, <1>9, <2>1 DEF InFile
  <2> QED BY <1>6, <1>7, <2>2, SavedIs
<1>12. g.members # <<>>
  <2>1. g.type # "phdr" /\ g.filesz # 0
    BY <1>8
  <2> QED BY <1>1, <2>1, SavedIs
<1>13. Foreign(g, i, g.offset, g.filesz)
  BY <1>1, <1>11, <1>12, SavedIs DEF LaidOut
<1>14. o + z <= p \/ p + f <= o \/ s.addr - o = g.vaddr - p
  BY <1>7, <1>9, <1>11, <1>13 DEF Foreign
<1>15. s.addr - s.offset = g.vaddr - g.offset
  <2>1. ~ (o + z <= p) /\ ~ (p + f <= o)
    BY <1>10
  <2> QED BY <1>9, <1>14, <2>1
<1>16. Minus(Plus(s.addr, g.offset), s.offset) = g.vaddr
  <2>1. PICK a, v, o1, p1 : a = s.addr /\ v = g.vaddr /\ o1 = s.offset /\ p1 = g.offset
    OBVIOUS
  <2>2. a \in 0..WORD - 1 /\ v \in 0..WORD - 1 /\ o1 \in 0..WORD - 1 /\ p1 \in 0..WORD - 1
        /\ a - o1 = v - p1
    BY <1>8, <1>15, <2>1
  <2>3. Minus(Plus(a, p1), o1) = v
    BY <2>2, SameAddress
  <2> QED BY <2>1, <2>3
<1> QED BY <1>5, <1>7, <1>16

LEMMA ValidatesSaved ==
    ASSUME Shaped, Typed, Laying
    PROVE  SavedValidates
  BY NoOverlap, NoConflict DEF SavedValidates, Validates

-----------------------------------------------------------------------------
(* The extents of what is in the file                                       *)
LEMMA ExtentsAre ==
    ASSUME Shaped, Len(sections) \in Nat
    PROVE  /\ Extents[1] = <<0, EHDR>>
           /\ Extents[2] = <<EHDR, PHDR * Len(segments)>>
           /\ Extents[3] = <<table, SHDR * Len(sections)>>
           /\ \A i \in 1..Len(sections) : Extents[i + 3] = <<sections[i].offset, stored[i]>>
<1>1. PICK q : q = [i \in 1..Len(sections) |-> <<sections[i].offset, stored[i]>>]
  OBVIOUS
<1>2. PICK h : h = <<<<0, EHDR>>, <<EHDR, PHDR * Len(segments)>>, <<table, SHDR * Len(sections)>>>>
  OBVIOUS
<1>3. PICK S : S = {h[1], h[2], h[3]} \cup {q[i] : i \in 1..Len(sections)}
  OBVIOUS
<1>4. h \in Seq(S) /\ Len(h) = 3
  <2>1. PICK x, y, z : x = <<0, EHDR>> /\ y = <<EHDR, PHDR * Len(segments)>> /\ z = <<table, SHDR * Len(sections)>>
    OBVIOUS
  <2>2. h = <<x, y, z>>
    BY <1>2, <2>1
  <2>3. x \in S /\ y \in S /\ z \in S
    BY <1>3, <2>2
  <2> QED BY <2>2, <2>3
<1>5. q \in Seq(S) /\ Len(q) = Len(sections)
  <2>1. \A i \in 1..Len(sections) : q[i] \in S
    BY <1>3
  <2>2. DOMAIN q = 1..Len(sections)
    BY <1>1
  <2>3. q = [i \in 1..Len(sections) |-> q[i]]
    BY <1>1
  <2>4. q \in Seq(S)
    BY <2>1, <2>3
  <2>5. Len(q) = Len(sections)
    BY <2>2, <2>4
  <2> QED BY <2>4, <2>5
<1>6. Extents = h \o q
  BY <1>1, <1>2 DEF Extents
<1>7. /\ \A k \in 1..3 : (h \o q)[k] = h[k]
      /\ \A k \in 1..Len(sections) : (h \o q)[3 + k] = q[k]
  <2>1. h \in Seq(S) /\ q \in Seq(S)
    BY <1>4, <1>5
  <2>2. \A k \in 1..Len(h) : (h \o q)[k] = h[k]
    BY <2>1, JoinIs
  <2>3. \A k \in 1..Len(q) : (h \o q)[Len(h) + k] = q[k]
    BY <2>1, JoinIs
  <2> QED BY <1>4, <1>5, <2>2, <2>3
<1>8. (h \o q)[1] = h[1] /\ (h \o q)[2] = h[2] /\ (h \o q)[3] = h[3]
  <2>1. 1 \in 1..3 /\ 2 \in 1..3 /\ 3 \in 1..3
    OBVIOUS
  <2> QED BY <1>7, <2>1, Zenon
<1>9. \A i \in 1..Len(sections) : Extents[i + 3] = <<sections[i].offset, stored[i]>>
  <2> SUFFICES ASSUME NEW i \in 1..Len(sections)
               PROVE  Extents[i + 3] = <<sections[i].offset, stored[i]>>
    OBVIOUS
  <2>1. i + 3 = 3 + i
    OBVIOUS
  <2>2. Extents[i + 3] = q[i]
    BY <1>6, <1>7, <2>1
  <2> QED BY <1>1, <2>2
<1> QED BY <1>2, <1>6, <1>8, <1>9

(* Each is before the next, or apart: the headers, what is stored of the    *)
(* sections, the section table.                                             *)
LEMMA StoredApart ==
    ASSUME Shaped, Typed, Laying, Saved, regular
    PROVE  /\ Headers <= pos
           /\ \A i \in 1..Len(sections) : stored[i] > 0 =>
                /\ stored[i] \in Nat /\ sections[i].offset \in Nat
                /\ Headers <= sections[i].offset /\ sections[i].offset + stored[i] <= pos
           /\ \A i, j \in 1..Len(sections) : i # j /\ stored[i] > 0 /\ stored[j] > 0 =>
                \/ sections[i].offset + stored[i] <= sections[j].offset
                \/ sections[j].offset + stored[j] <= sections[i].offset
<1>1. StoredInv /\ Settles
  BY SavedIs DEF Laying
<1>2. stored \in Seq(Nat) /\ Len(stored) = Len(sections)
  BY DEF Saved, Typed
<1>3. \A i \in 1..Len(sections) :
        stored[i] \in Nat /\ stored[i] <= sections[i].size /\ (~ InFile(sections[i]) => stored[i] = 0)
  BY <1>1, <1>2 DEF StoredInv, Saved
<1>4. \A i \in 1..Len(sections) : stored[i] > 0 => InFile(sections[i]) /\ i \in 2..Len(sections)
  BY <1>3, SavedIs
<1>5. ASSUME NEW i \in 1..Len(sections), stored[i] > 0
      PROVE  /\ stored[i] \in Nat /\ sections[i].offset \in Nat
             /\ Headers <= sections[i].offset /\ sections[i].offset + stored[i] <= pos
  <2>1. Stretch(i) /\ InFile(sections[i])
    BY <1>1, <1>4, <1>5, SavedIs DEF Settles
  <2>2. PICK o, z, p, b : o = sections[i].offset /\ z = sections[i].size /\ p = pos /\ b = stored[i]
    OBVIOUS
  <2>3. o \in Nat /\ z \in Nat /\ p \in Nat /\ b \in Nat /\ b <= z
    BY <1>3, <2>2, PlaceNats, CurIs
  <2>4. o + z <= p /\ Headers <= o
    BY <2>1, <2>2 DEF Stretch, FileSize, InFile
  <2>5. o + b <= p
    BY <2>3, <2>4
  <2> QED BY <2>2, <2>3, <2>4, <2>5
<1>6. ASSUME NEW i \in 1..Len(sections), NEW j \in 1..Len(sections), i # j, stored[i] > 0, stored[j] > 0
      PROVE  \/ sections[i].offset + stored[i] <= sections[j].offset
             \/ sections[j].offset + stored[j] <= sections[i].offset
  <2>1. Clear(i, j)
    BY <1>1, <1>4, <1>6, SavedIs DEF Settles
  <2>2. PICK o, z, b, q, w, c : /\ o = sections[i].offset /\ z = sections[i].size /\ b = stored[i]
                                /\ q = sections[j].offset /\ w = sections[j].size /\ c = stored[j]
    OBVIOUS
  <2>3. /\ o \in Nat /\ z \in Nat /\ b \in Nat /\ q \in Nat /\ w \in Nat /\ c \in Nat /\ b <= z /\ c <= w
    BY <1>3, <2>2, PlaceNats
  <2>4. o + z <= q \/ q + w <= o
    BY <2>1, <2>2 DEF Clear
  <2>5. o + b <= q \/ q + c <= o
    BY <2>3, <2>4
  <2> QED BY <2>2, <2>5
<1> QED BY <1>1, <1>5, <1>6 DEF Settles

LEMMA IntactFile ==
    ASSUME Shaped, Typed, Laying
    PROVE  FileIntact
<1>1. ASSUME Saved, good, NEW i \in 1..Len(sections), InFile(sections[i]), ~ Lost(sections[i]),
             ~ sections[i].deflate
      PROVE  stored[i] = sections[i].size
  <2>1. Len(stored) = Len(sections) /\ StoredInv
    BY <1>1 DEF Saved, Typed, Laying
  <2> QED BY <1>1, <2>1 DEF StoredInv, Saved
<1>2. ASSUME Saved, regular, NEW a \in 1..Len(sections) + 3, NEW b \in 1..Len(sections) + 3, a < b,
             Extents[a][2] > 0, Extents[b][2] > 0
      PROVE  \/ Extents[a][1] + Extents[a][2] <= Extents[b][1]
             \/ Extents[b][1] + Extents[b][2] <= Extents[a][1]
  <2>1. Len(sections) \in Nat /\ Len(segments) \in Nat /\ table = pos
    BY <1>2, SavedIs, ShapedIs, Listed DEF Typed
  <2>2. PICK e, h, p : e = EHDR /\ h = Headers /\ p = pos
    OBVIOUS
  <2>3. e \in Nat /\ h \in Nat /\ p \in Nat /\ e + PHDR * Len(segments) = h /\ e <= h /\ h <= p
    BY <1>2, <2>1, <2>2, CurIs, StoredApart DEF Headers, EHDR, PHDR
  <2>4. CASE a = 1
    <3>1. Extents[a][1] + Extents[a][2] = e
      BY <2>1, <2>2, <2>3, <2>4, ExtentsAre
    <3>2. CASE b = 2
      BY <2>1, <2>2, <2>3, <3>1, <3>2, ExtentsAre
    <3>3. CASE b = 3
      BY <2>1, <2>2, <2>3, <3>1, <3>3, ExtentsAre
    <3>4. CASE b > 3
      <4>1. PICK j \in 1..Len(sections) : b = j + 3
        <5>1. b - 3 \in 1..Len(sections) /\ b = (b - 3) + 3
          BY <2>1, <3>4
        <5> QED BY <5>1
      <4>2. Extents[b][1] = sections[j].offset /\ stored[j] > 0
        BY <1>2, <2>1, <4>1, ExtentsAre
      <4>3. sections[j].offset \in Nat /\ h <= sections[j].offset
        BY <1>2, <2>2, <4>2, StoredApart
      <4> QED BY <2>3, <3>1, <4>2, <4>3
    <3> QED BY <1>2, <2>1, <2>4, <3>2, <3>3, <3>4
  <2>5. CASE a = 2
    <3>1. Extents[a][1] + Extents[a][2] = h
      BY <2>1, <2>2, <2>3, <2>5, ExtentsAre
    <3>2. CASE b = 3
      BY <2>1, <2>2, <2>3, <3>1, <3>2, ExtentsAre
    <3>3. CASE b > 3
      <4>1. PICK j \in 1..Len(sections) : b = j + 3
        <5>1. b - 3 \in 1..Len(sections) /\ b = (b - 3) + 3
          BY <2>1, <3>3
        <5> QED BY <5>1
      <4>2. Extents[b][1] = sections[j].offset /\ stored[j] > 0
        BY <1>2, <2>1, <4>1, ExtentsAre
      <4>3. h <= sections[j].offset
        BY <1>2, <2>2, <4>2, StoredApart
      <4> QED BY <3>1, <4>2, <4>3
    <3> QED BY <1>2, <2>1, <2>5, <3>2, <3>3
  <2>6. CASE a >= 3
    <3>1. b > 3
      BY <1>2, <2>1, <2>6
    <3>2. PICK j \in 1..Len(sections) : b = j + 3
      <4>1. b - 3 \in 1..Len(sections) /\ b = (b - 3) + 3
        BY <2>1, <3>1
      <4> QED BY <4>1
    <3>3. Extents[b][1] = sections[j].offset /\ Extents[b][2] = stored[j] /\ stored[j] > 0
      BY <1>2, <2>1, <3>2, ExtentsAre
    <3>4. CASE a = 3
      <4>1. sections[j].offset + stored[j] <= p
        BY <1>2, <2>2, <3>3, StoredApart
      <4> QED BY <2>1, <2>2, <3>3, <3>4, <4>1, ExtentsAre
    <3>5. CASE a > 3
      <4>1. PICK i \in 1..Len(sections) : a = i + 3
        <5>1. a - 3 \in 1..Len(sections) /\ a = (a - 3) + 3
          BY <2>1, <3>5
        <5> QED BY <5>1
      <4>2. Extents[a][1] = sections[i].offset /\ Extents[a][2] = stored[i] /\ stored[i] > 0
        BY <1>2, <2>1, <4>1, ExtentsAre
      <4>3. i # j
        BY <1>2, <3>2, <4>1
      <4> QED BY <1>2, <3>3, <4>2, <4>3, StoredApart
    <3> QED BY <2>1, <2>6, <3>4, <3>5
  <2> QED BY <2>1, <2>4, <2>5, <2>6
<1> QED BY <1>1, <1>2 DEF FileIntact

-----------------------------------------------------------------------------
(* Steps that are not save's                                                *)
LEMMA NotSaved ==
    ASSUME pc' \in {"edit", "arrange", "crashed"}, reply' # "ok"
    PROVE  Laying'
  BY DEF Laying, LayInv, Strays, StoredInv, Writing, Written, Placing, CurInv

LEMMA SameLayout ==
    ASSUME Laying, UNCHANGED <<core, layout>>
    PROVE  Laying'
<1>1. /\ UNCHANGED <<pc, edits, saves, elf, sections, reply>>
      /\ UNCHANGED <<segments, work, order, turn, pos, cur, generated, table, good, stored, regular, last>>
  BY DEF core, layout, plan, place, disk, past
<1>2. /\ Laid' = Laid /\ Settled' = Settled /\ Queue' = Queue /\ Segment' = Segment
      /\ (Placing' <=> Placing) /\ (Written' <=> Written)
  BY <1>1, Zenon DEF Laid, Settled, Queue, Segment, Placing, Written
<1>3. /\ Lines' <=> Lines
      /\ Families' <=> Families
      /\ \A n : Heading(n)' <=> Heading(n)
      /\ Headers' = Headers
      /\ \A g : Root(g)' <=> Root(g)
  BY <1>1, SameObject
<1>4. /\ \A g, k : End(g, k)' = End(g, k)
      /\ \A g : Rowed(g)' <=> Rowed(g)
      /\ \A i, g : Straight(i, g)' <=> Straight(i, g)
      /\ \A g : AtSectionStart(g)' <=> AtSectionStart(g)
      /\ \A S, g, i, start, file, mem :
           Covered(S, g, i, start, file, mem)' <=> Covered(S, g, i, start, file, mem)
      /\ \A S, g, start : Spread(S, g, start)' <=> Spread(S, g, start)
      /\ \A g, i, start, file : Foreign(g, i, start, file)' <=> Foreign(g, i, start, file)
      /\ \A i, j : Clear(i, j)' <=> Clear(i, j)
  BY <1>1, SameSections
<1>5. \A S, g, start, file, mem : Covers(S, g, start, file, mem)' <=> Covers(S, g, start, file, mem)
  BY <1>4, Zenon DEF Covers
<1>6. \A g : LaidOut(g)' <=> LaidOut(g)
  BY <1>1, <1>2, <1>4, <1>5, Zenon DEF LaidOut
<1>7. AllLaid' <=> AllLaid
  BY <1>1, <1>2, <1>6, Zenon DEF AllLaid
<1>8. \A i : Stretch(i)' <=> Stretch(i)
  BY <1>1, <1>3, Zenon DEF Stretch
<1>9. Settles' <=> Settles
  BY <1>1, <1>2, <1>3, <1>4, <1>8, Zenon DEF Settles
<1>10. \A g : Waiting(g)' <=> Waiting(g)
  BY <1>1, Zenon DEF Waiting
<1>11. Rows' <=> Rows
  BY <1>1, <1>4, <1>10, Zenon DEF Rows
<1>12. Heads' <=> Heads
  BY <1>1, <1>2, <1>3, Zenon DEF Heads
<1>13. HeadFirst' <=> HeadFirst
  BY <1>1, <1>2, Zenon DEF HeadFirst
<1>14. NothingYet' <=> NothingYet
  <2>1. Ahead' = Ahead
    BY <1>1, <1>2, Zenon DEF Ahead
  <2> QED BY <1>1, <1>3, <2>1, Zenon DEF NothingYet
<1>15. Done' = Done /\ Upcoming' = Upcoming /\ (More' <=> More)
  BY <1>1, <1>2, Zenon DEF Done, Upcoming, More
<1>16. InMem' <=> InMem
  BY <1>1, <1>2, <1>4, <1>15, Zenon DEF InMem
<1>17. Ready' <=> Ready
  BY <1>1, <1>2, <1>4, <1>15, Zenon DEF Ready
<1>18. CurFresh' <=> CurFresh
  BY <1>1, <1>2, <1>4, <1>5, <1>15, <1>16, <1>17, Zenon DEF CurFresh
<1>19. \A n, g : Inside(n, g)' <=> Inside(n, g)
  BY <1>1, <1>3, Zenon DEF Inside
<1>20. CurNested' <=> CurNested
  BY <1>1, <1>2, <1>4, <1>5, <1>15, <1>16, <1>19, Zenon DEF CurNested
<1>21. CurInv' <=> CurInv
  BY <1>1, <1>2, <1>18, <1>20, Zenon DEF CurInv
<1>22. Owned' <=> Owned
  BY <1>1, <1>2, <1>3, <1>15, <1>18, Zenon DEF Owned
<1>23. LayInv'
  BY <1>1, <1>2, <1>3, <1>7, <1>9, <1>11, <1>12, <1>13, <1>14, <1>21, <1>22, Zenon
     DEF LayInv, Laying, Writing
<1>24. Strays' /\ StoredInv'
  BY <1>1, Zenon DEF Strays, StoredInv, Laying
<1> QED BY <1>23, <1>24 DEF Laying

=============================================================================
