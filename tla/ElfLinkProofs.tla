---------------------------- MODULE ElfLinkProofs ----------------------------
(***************************************************************************)
(* Facts about the arithmetic of ElfLink, for every width of the machine   *)
(* word: what a link stores is what the processor reads back.              *)
(***************************************************************************)
EXTENDS ElfLink, TLAPS

LEMMA MultipleGrows ==
  ASSUME NEW m \in Nat, NEW a \in Int, a >= 1
  PROVE  a * m >= m
<1>1. (a - 1) * m >= 0
  OBVIOUS
<1> QED
  BY <1>1

(* Division has one remainder. *)
LEMMA OneRemainder ==
  ASSUME NEW m \in Nat \ {0}, NEW q \in Int, NEW p \in Int,
         NEW r \in 0..(m - 1), NEW s \in 0..(m - 1), q * m + r = p * m + s
  PROVE  q = p /\ r = s
<1>1. (q - p) * m = s - r /\ (p - q) * m = r - s
  OBVIOUS
<1>2. ~ (q - p >= 1)
  BY <1>1, MultipleGrows
<1>3. ~ (p - q >= 1)
  BY <1>1, MultipleGrows
<1>4. q = p
  BY <1>2, <1>3
<1> QED
  BY <1>4

LEMMA DivMod ==
  ASSUME NEW x \in Int, NEW m \in Nat \ {0}
  PROVE  /\ x = (x \div m) * m + (x % m)
         /\ x \div m \in Int /\ x % m \in 0..(m - 1)
OBVIOUS

LEMMA RemainderIs ==
  ASSUME NEW m \in Nat \ {0}, NEW q \in Int, NEW r \in 0..(m - 1)
  PROVE  (q * m + r) % m = r /\ (q * m + r) \div m = q
<1> DEFINE x == q * m + r
<1>1. x \in Int
  OBVIOUS
<1>2. x = (x \div m) * m + (x % m) /\ x \div m \in Int /\ x % m \in 0..(m - 1)
  <2> HIDE DEF x
  <2> QED BY <1>1, DivMod
<1> DEFINE d == x \div m
           e == x % m
<1>3. q * m + r = d * m + e /\ d \in Int /\ e \in 0..(m - 1)
  BY <1>2
<1> HIDE DEF d, e
<1>4. q = d /\ r = e
  BY <1>3, OneRemainder
<1> QED
  BY <1>4 DEF d, e

LEMMA ModShift ==
  ASSUME NEW m \in Nat \ {0}, NEW x \in Int, NEW k \in Int
  PROVE  (x + k * m) % m = x % m
<1> DEFINE q == x \div m
           r == x % m
<1>1. x = q * m + r /\ q \in Int /\ r \in 0..(m - 1)
  BY DivMod
<1> HIDE DEF q, r
<1>2. x + k * m = (q + k) * m + r
  BY <1>1
<1>3. ((q + k) * m + r) % m = r
  <2> DEFINE p == q + k
  <2>1. p \in Int
    BY <1>1
  <2> HIDE DEF p
  <2>2. (p * m + r) % m = r
    BY <1>1, <2>1, RemainderIs
  <2> QED BY <2>2 DEF p
<1> QED
  BY <1>2, <1>3 DEF r

(* Addresses differing by whole words are the same address. *)
LEMMA WrapRange ==
  ASSUME NEW x \in Int
  PROVE  Wrap(x) \in 0..(WORD - 1)
BY WidthAssumption DEF Wrap

LEMMA WrapSame ==
  ASSUME NEW x \in 0..(WORD - 1)
  PROVE  Wrap(x) = x
BY WidthAssumption DEF Wrap

LEMMA WrapShift ==
  ASSUME NEW x \in Int, NEW k \in Int
  PROVE  Wrap(x + k * WORD) = Wrap(x)
BY WidthAssumption, ModShift DEF Wrap

LEMMA WrapSum ==
  ASSUME NEW x \in Int, NEW y \in Int
  PROVE  Wrap(x + Wrap(y)) = Wrap(x + y)
<1> DEFINE q == y \div WORD
<1>1. y = q * WORD + Wrap(y) /\ q \in Int /\ Wrap(y) \in Int
  <2>1. WORD \in Nat \ {0}
    BY WidthAssumption
  <2>2. y = (y \div WORD) * WORD + (y % WORD) /\ y \div WORD \in Int /\ y % WORD \in 0..(WORD - 1)
    BY <2>1, DivMod
  <2>3. y % WORD \in Int
    BY <2>1, <2>2
  <2> QED
    BY <2>2, <2>3 DEF Wrap
<1> HIDE DEF q
<1> DEFINE z == x + y
           k == - q
<1>2. x + Wrap(y) = z + k * WORD
  <2>1. k * WORD = - (q * WORD)
    BY <1>1, WidthAssumption
  <2> QED
    BY <1>1, <2>1, WidthAssumption
<1>3. z \in Int /\ k \in Int
  BY <1>1
<1> HIDE DEF z, k
<1>4. Wrap(z + k * WORD) = Wrap(z)
  BY <1>3, WrapShift
<1> QED
  BY <1>2, <1>4 DEF z

LEMMA SignedRange ==
  ASSUME NEW x \in Int
  PROVE  /\ Signed(x) \in Int
         /\ Signed(x) = Wrap(x) \/ Signed(x) = Wrap(x) - WORD
BY WidthAssumption, WrapRange DEF Signed

LEMMA WrapSigned ==
  ASSUME NEW x \in Int, NEW y \in Int
  PROVE  Wrap(x + Signed(y)) = Wrap(x + y)
<1>1. Wrap(y) \in Int /\ WORD \in Int
  BY WrapRange, WidthAssumption
<1>2. Wrap(x + Wrap(y)) = Wrap(x + y)
  BY WrapSum
<1>3. Wrap(x + (Wrap(y) - WORD)) = Wrap(x + Wrap(y))
  <2> DEFINE z == x + Wrap(y)
             k == - 1
  <2>1. x + (Wrap(y) - WORD) = z + k * WORD /\ z \in Int /\ k \in Int
    BY <1>1
  <2> HIDE DEF z, k
  <2>2. Wrap(z + k * WORD) = Wrap(z)
    BY <2>1, WrapShift
  <2> QED
    BY <2>1, <2>2 DEF z
<1> QED
  BY <1>2, <1>3, SignedRange

(* A displacement that fits its field is read back as it was. *)
LEMMA FieldReadsBack ==
  ASSUME NEW type \in BranchTypes, NEW d \in Int, FitsField(type, d)
  PROVE  /\ SignExtend(d % Span(type), Span(type)) = d
         /\ d % Span(type) \in 0..(WORD - 1)
<1> DEFINE n == Near(type) + 4
           m == Span(type)
<1>1. n \in Nat \ {0} /\ m = 2 * n /\ m \div 2 = n /\ m <= WORD /\ - n <= d /\ d < n
  BY WidthAssumption DEF BranchTypes, Near, Span, FitsField
<1>2. m \in Nat \ {0} /\ WORD \in Nat
  BY <1>1, WidthAssumption
<1> HIDE DEF n, m
<1>3. d % m = IF d >= 0 THEN d ELSE d + m
  <2>1. CASE d >= 0
    BY <1>1, <1>2, <2>1
  <2>2. CASE d < 0
    <3> DEFINE r == d + m
               k == - 1
    <3>1. r \in 0..(m - 1) /\ d = k * m + r /\ k \in Int
      BY <1>1, <1>2, <2>2
    <3> HIDE DEF r, k
    <3>2. (k * m + r) % m = r
      BY <1>2, <3>1, RemainderIs
    <3> QED
      BY <3>1, <3>2, <2>2 DEF r
  <2> QED
    BY <2>1, <2>2
<1>4. SignExtend(d % m, m) = d
  BY <1>1, <1>2, <1>3 DEF SignExtend
<1>5. d % m \in 0..(WORD - 1)
  BY <1>1, <1>2, <1>3
<1> QED
  BY <1>4, <1>5 DEF m

(* A branch whose displacement fits jumps to its value. *)
LEMMA BranchArrives ==
  ASSUME NEW type \in BranchTypes, NEW target \in Int, NEW value \in Int,
         FitsField(type, Distance(target, value))
  PROVE  /\ BranchTarget(type, target, Distance(target, value) % Span(type)) = Wrap(value)
         /\ Distance(target, value) % Span(type) \in 0..(WORD - 1)
<1> DEFINE d == Distance(target, value)
           y == value - target
<1>1. y \in Int /\ d \in Int /\ d = Signed(y) /\ target + y = value
  BY SignedRange DEF Distance
<1>2. FitsField(type, d)
  OBVIOUS
<1> HIDE DEF d, y
<1>3. SignExtend(d % Span(type), Span(type)) = d /\ d % Span(type) \in 0..(WORD - 1)
  BY <1>1, <1>2, FieldReadsBack
<1>4. Wrap(target + d) = Wrap(value)
  BY <1>1, WrapSigned
<1> QED
  BY <1>3, <1>4 DEF BranchTarget, d

(* The parts of a word: its halves, and the upper half adjusted for a lower *)
(* half the processor sign-extends.                                         *)
LEMMA WordParts ==
  ASSUME NEW x \in Int
  PROVE  /\ Hi(x) \in 0..(HALF - 1) /\ Lo(x) \in 0..(HALF - 1)
         /\ Wrap(x) = Hi(x) * HALF + Lo(x)
<1>1. HALF \in Nat \ {0} /\ WORD = HALF * HALF /\ Wrap(x) \in Int /\ 0 <= Wrap(x) /\ Wrap(x) < WORD
  BY WidthAssumption, WrapRange
<1> DEFINE w == Wrap(x)
           q == w \div HALF
           r == w % HALF
<1>2. w = q * HALF + r /\ q \in Int /\ r \in 0..(HALF - 1)
  <2> HIDE DEF w
  <2> QED BY <1>1, DivMod DEF w
<1>3. q = Hi(x) /\ r = Lo(x)
  BY DEF Hi, Lo
<1> HIDE DEF q, r, w
<1>4. w \in Int /\ 0 <= w /\ w < HALF * HALF
  BY <1>1 DEF w
<1>5. ~ (q >= HALF)
  <2> SUFFICES ASSUME q >= HALF PROVE FALSE
    OBVIOUS
  <2>1. q * HALF >= HALF * HALF
    <3>1. (q - HALF) * HALF >= 0
      BY <1>1, <1>2
    <3> QED BY <1>1, <1>2, <3>1
  <2> QED BY <1>1, <1>2, <1>4, <2>1
<1>6. ~ (q < 0)
  <2> SUFFICES ASSUME q < 0 PROVE FALSE
    OBVIOUS
  <2>1. (- 1 - q) * HALF >= 0
    BY <1>1, <1>2
  <2>2. (- 1 - q) * HALF = - HALF - q * HALF
    BY <1>1, <1>2
  <2> QED BY <1>1, <1>2, <1>4, <2>1, <2>2
<1> QED
  BY <1>1, <1>2, <1>3, <1>5, <1>6 DEF w

(* The lower half of an address is that of its word. *)
LEMMA HalvesAdd ==
  ASSUME NEW x \in Int
  PROVE  AddPair(Ha(x), Lo(x)) = Wrap(x) /\ Ha(x) \in 0..(HALF - 1)
<1> DEFINE h == HALF \div 2
           hi == Hi(x)
           lo == Lo(x)
           z == x + h
<1>1. /\ HALF \in Nat \ {0} /\ WORD = HALF * HALF /\ WORD \in Nat
      /\ h \in Nat /\ HALF = 2 * h
  BY WidthAssumption
<1>2. /\ hi \in 0..(HALF - 1) /\ lo \in 0..(HALF - 1) /\ Wrap(x) = hi * HALF + lo
  BY WordParts
<1>3. Ha(x) = Wrap(z) \div HALF
  BY DEF Ha, Hi
<1>4. z \in Int /\ Wrap(z) = Wrap(h + Wrap(x))
  <2>1. z \in Int /\ x + h = h + x /\ h \in Int
    BY <1>1
  <2> HIDE DEF h
  <2> QED BY <2>1, WrapSum
<1>5. SignExtend(lo, HALF) = IF lo < h THEN lo ELSE lo - HALF
  BY DEF SignExtend
<1> HIDE DEF h, hi, lo, z
<1>6. hi * HALF \in Int
  BY <1>1, <1>2
<1>7. CASE lo < h
  <2> DEFINE r == lo + h
  <2>1. h + Wrap(x) = hi * HALF + r /\ r \in 0..(HALF - 1)
    BY <1>1, <1>2, <1>6, <1>7
  <2>2. h + Wrap(x) \in 0..(WORD - 1)
    <3>1. (HALF - 1 - hi) * HALF >= 0
      BY <1>1, <1>2
    <3>2. (HALF - 1 - hi) * HALF = HALF * HALF - HALF - hi * HALF
      BY <1>1, <1>2
    <3>3. hi * HALF >= 0
      BY <1>1, <1>2
    <3> QED BY <1>1, <1>2, <1>6, <2>1, <3>1, <3>2, <3>3
  <2> HIDE DEF r
  <2>3. Wrap(z) = hi * HALF + r
    BY <1>4, <2>1, <2>2, WrapSame
  <2>4. Ha(x) = hi
    BY <1>1, <1>2, <1>3, <2>1, <2>3, RemainderIs
  <2>5. AddPair(Ha(x), lo) = Wrap(hi * HALF + lo)
    BY <1>5, <1>7, <2>4 DEF AddPair
  <2>6. Wrap(hi * HALF + lo) = Wrap(x)
    BY <1>2, WrapRange, WrapSame
  <2> QED BY <1>2, <2>4, <2>5, <2>6 DEF lo
<1>8. CASE ~ (lo < h)
  <2> DEFINE r == lo - h
             up == hi + 1
  <2>1. r \in 0..(HALF - 1) /\ up \in Int
    BY <1>1, <1>2, <1>8
  <2>2. up * HALF = hi * HALF + HALF
    BY <1>1, <1>2
  <2>3. h + Wrap(x) = up * HALF + r
    BY <1>1, <1>2, <1>6, <2>2
  <2>4. up * HALF + (lo - HALF) = Wrap(x)
    BY <1>1, <1>2, <1>6, <2>2
  <2>5. CASE up = HALF
    <3> DEFINE k == 1
    <3>1. h + Wrap(x) = r + k * WORD /\ k \in Int
      BY <1>1, <2>1, <2>3, <2>5
    <3>2. r \in Int /\ r \in 0..(WORD - 1)
      <4>1. HALF <= HALF * HALF
        BY <1>1
      <4> QED BY <1>1, <2>1, <4>1
    <3> HIDE DEF k, r
    <3>3. Wrap(z) = r
      BY <1>4, <3>1, <3>2, WrapShift, WrapSame
    <3>4. Ha(x) = 0
      BY <1>1, <1>3, <2>1, <3>3
    <3>5. AddPair(Ha(x), lo) = Wrap(lo - HALF)
      <4>1. Ha(x) * HALF + SignExtend(lo, HALF) = lo - HALF
        BY <1>1, <1>2, <1>5, <1>8, <3>4
      <4> QED BY <4>1 DEF AddPair
    <3>6. Wrap(lo - HALF) = Wrap(x)
      <4> DEFINE m == - 1
      <4>1. lo - HALF = Wrap(x) + m * WORD /\ m \in Int /\ Wrap(x) \in Int
        <5>1. Wrap(x) \in Int
          BY <1>1, <1>2
        <5> QED BY <1>1, <1>2, <2>4, <2>5, <5>1
      <4> HIDE DEF m
      <4>2. Wrap(Wrap(x) + m * WORD) = Wrap(Wrap(x))
        BY <4>1, WrapShift
      <4> QED BY <4>1, <4>2, WrapRange, WrapSame
    <3> QED BY <1>1, <3>4, <3>5, <3>6 DEF lo
  <2>6. CASE up # HALF
    <3>1. up \in 0..(HALF - 1)
      BY <1>1, <1>2, <2>6
    <3>2. up * HALF + r \in 0..(WORD - 1)
      <4>1. (HALF - 1 - up) * HALF >= 0 /\ up * HALF >= 0
        BY <1>1, <3>1
      <4>2. (HALF - 1 - up) * HALF = HALF * HALF - HALF - up * HALF
        BY <1>1, <3>1
      <4>3. up * HALF \in Int
        BY <1>1, <3>1
      <4> HIDE DEF r, up
      <4> QED BY <1>1, <2>1, <4>1, <4>2, <4>3
    <3> HIDE DEF r, up
    <3>3. Wrap(z) = up * HALF + r
      BY <1>4, <2>3, <3>2, WrapSame
    <3>4. Ha(x) = up
      BY <1>1, <1>3, <2>1, <3>3, RemainderIs
    <3>5. AddPair(Ha(x), lo) = Wrap(Wrap(x))
      BY <1>5, <1>8, <2>4, <3>4 DEF AddPair
    <3> QED BY <3>1, <3>4, <3>5, WrapRange, WrapSame DEF lo
  <2> QED
    BY <2>5, <2>6
<1> QED
  BY <1>7, <1>8

LEMMA HalvesJoin ==
  ASSUME NEW x \in Int
  PROVE  OrPair(Hi(x), Lo(x)) = Wrap(x)
BY WordParts DEF OrPair

(* The field of each type *)
LEMMA FieldOf ==
  ASSUME NEW type, NEW target, NEW value
  PROVE  /\ type \in WordTypes => Field(type, target, value) = Wrap(value)
         /\ type = "ADDR16_LO" => Field(type, target, value) = Lo(value)
         /\ type = "ADDR16_HI" => Field(type, target, value) = Hi(value)
         /\ type = "ADDR16_HA" => Field(type, target, value) = Ha(value)
         /\ type = "REL16_LO"  => Field(type, target, value) = Lo(value - target)
         /\ type = "REL16_HI"  => Field(type, target, value) = Hi(value - target)
         /\ type = "REL16_HA"  => Field(type, target, value) = Ha(value - target)
         /\ type \in BranchTypes =>
              Field(type, target, value) = Distance(target, value) % Span(type)
BY DEF Field, WordTypes, BranchTypes

(* What any relocation stores fits a word. *)
LEMMA FieldFits ==
  ASSUME NEW type \in KnownTypes \ NoOpTypes, NEW target \in Int, NEW value \in Int,
         LinksDirectly(type, target, value)
  PROVE  Field(type, target, value) \in 0..(WORD - 1)
<1>1. HALF <= WORD /\ HALF \in Nat /\ WORD \in Nat
  BY WidthAssumption
<1>2. CASE type \in WordTypes
  <2>1. Field(type, target, value) = Wrap(value)
    BY <1>2, FieldOf
  <2> QED BY <2>1, WrapRange
<1>3. CASE type \in HalfTypes
  <2>1. value - target \in Int
    OBVIOUS
  <2>2. /\ {Lo(value), Hi(value), Ha(value)} \subseteq 0..(HALF - 1)
        /\ {Lo(value - target), Hi(value - target), Ha(value - target)} \subseteq 0..(HALF - 1)
    BY <2>1, WordParts, HalvesAdd
  <2>3. Field(type, target, value) \in {Lo(value), Hi(value), Ha(value), Lo(value - target),
                                        Hi(value - target), Ha(value - target)}
    BY <1>3, FieldOf DEF HalfTypes
  <2>4. Field(type, target, value) \in 0..(HALF - 1)
    BY <2>2, <2>3, Zenon
  <2> QED BY <1>1, <2>4
<1>4. CASE type \in BranchTypes
  <2>1. Field(type, target, value) = Distance(target, value) % Span(type)
    BY <1>4, FieldOf
  <2>2. FitsField(type, Distance(target, value))
    BY <1>4 DEF LinksDirectly
  <2> QED BY <1>4, <2>1, <2>2, BranchArrives
<1> QED
  BY <1>2, <1>3, <1>4 DEF KnownTypes
=============================================================================
