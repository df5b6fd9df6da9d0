------------------------- MODULE TrampolinesProofs -------------------------
(***************************************************************************)
(* Theorems about Trampolines, for every list of relocations, every buffer *)
(* and every width of the machine word.                                    *)
(***************************************************************************)
EXTENDS Trampolines, ElfLinkProofs

(* A linked half holds what its type takes from the address it was linked   *)
(* for.                                                                     *)
HalvesHold == \A j \in Jobs :
    goal[j] # Unlinked /\ job[j].type \in HalfTypes
      => field[j] = Field(job[j].type, job[j].target, goal[j])

(* A linked branch of the module goes to the address it was linked for, or  *)
(* to a slot that is FIXED, hence never to be filled again, and jumps there. *)
Arrives(j) ==
    \/ Goes(j) = goal[j]
    \/ \E s \in 1..NSlots : /\ status[s] = "FIXED" /\ dest[s] = goal[j]
                           /\ Goes(j) = Wrap(SlotAddr[s] + job[j].addend)

OwnBranch(j) == job[j].type \in BranchTypes /\ job[j].fixed

BranchesArrive == \A j \in Jobs : OwnBranch(j) /\ goal[j] # Unlinked => Arrives(j)

LinkInv == TypeOK /\ HalvesHold /\ BranchesArrive

LEMMA LinkInvInit == Init => LinkInv
<1> SUFFICES ASSUME Init PROVE LinkInv
  OBVIOUS
<1>1. WORD \in Nat \ {0} /\ 0 \in 0..(WORD - 1)
  BY WidthAssumption
<1>2. TypeOK
  <2>1. /\ field \in [Jobs -> 0..(WORD - 1)] /\ ctr \in [Jobs -> {0, 1}]
        /\ goal \in [Jobs -> {Unlinked} \cup 0..(WORD - 1)]
        /\ status \in [1..NSlots -> {"FREE", "FIXED", "IMPORT_DONE"}]
        /\ dest \in [1..NSlots -> 0..(WORD - 1)]
    BY <1>1 DEF Init
  <2> QED
    BY <2>1 DEF Init, TypeOK
<1>3. \A j \in Jobs : goal[j] = Unlinked
  BY DEF Init
<1> QED
  BY <1>2, <1>3 DEF LinkInv, HalvesHold, BranchesArrive

(* What the success of one place does to the invariant *)
LEMMA PlaceLinked ==
  ASSUME LinkInv, UNCHANGED job, NEW j \in Jobs, NEW value \in 0..(WORD - 1),
         NEW bits \in 0..(WORD - 1),
         goal' = [goal EXCEPT ![j] = value],
         \/ field' = [field EXCEPT ![j] = bits]
         \/ field' = field /\ job[j].type \in NoOpTypes,
         ctr' \in [Jobs -> {0, 1}],
         done' \subseteq Jobs,
         status' \in [1..NSlots -> {"FREE", "FIXED", "IMPORT_DONE"}],
         dest' \in [1..NSlots -> 0..(WORD - 1)],
         \A s \in 1..NSlots : status[s] = "FIXED" => status'[s] = "FIXED" /\ dest'[s] = dest[s],
         job[j].type \in HalfTypes => bits = Field(job[j].type, job[j].target, value),
         OwnBranch(j) => Arrives(j)'
  PROVE  LinkInv'
<1>1. Jobs' = Jobs
  BY DEF Jobs
<1>2. TypeOK'
  BY <1>1 DEF LinkInv, TypeOK
<1>3. HalvesHold'
  BY <1>1 DEF LinkInv, TypeOK, HalvesHold, HalfTypes, NoOpTypes
<1>4. BranchesArrive'
  <2> SUFFICES ASSUME NEW k \in Jobs, OwnBranch(k), goal'[k] # Unlinked
               PROVE  Arrives(k)'
    BY <1>1 DEF BranchesArrive, OwnBranch
  <2>1. CASE k = j
    BY <2>1
  <2>2. CASE k # j
    <3>1. Arrives(k) /\ goal'[k] = goal[k] /\ field'[k] = field[k]
      BY <2>2 DEF LinkInv, TypeOK, BranchesArrive
    <3> QED
      BY <3>1 DEF Arrives, Goes
  <2> QED
    BY <2>1, <2>2
<1> QED
  BY <1>2, <1>3, <1>4 DEF LinkInv

LEMMA OthersKept ==
  ASSUME LinkInv, UNCHANGED <<job, field, ctr, goal>>, done' \subseteq Jobs,
         status' \in [1..NSlots -> {"FREE", "FIXED", "IMPORT_DONE"}],
         dest' \in [1..NSlots -> 0..(WORD - 1)],
         \A s \in 1..NSlots : status[s] = "FIXED" => status'[s] = "FIXED" /\ dest'[s] = dest[s]
  PROVE  LinkInv'
<1>1. Jobs' = Jobs
  BY DEF Jobs
<1>2. TypeOK'
  BY <1>1 DEF LinkInv, TypeOK
<1>3. HalvesHold'
  BY <1>1 DEF LinkInv, HalvesHold
<1>4. BranchesArrive'
  BY <1>1 DEF LinkInv, BranchesArrive, OwnBranch, Arrives, Goes
<1> QED
  BY <1>2, <1>3, <1>4 DEF LinkInv

LEMMA DirectKeeps ==
  ASSUME LinkInv, NEW j \in Jobs, NEW symbol \in Symbols, LinkDirect(j, symbol),
         UNCHANGED slots, UNCHANGED job, done' \subseteq Jobs
  PROVE  LinkInv'
<1> DEFINE r == job[j]
           value == Wrap(symbol + r.addend)
           bits == Field(r.type, r.target, value)
<1>1. /\ r.target \in Int /\ r.addend \in Int /\ symbol \in 0..(WORD - 1) /\ symbol + r.addend \in Int
  BY JobAssumption, WidthAssumption DEF LinkInv, TypeOK, Jobs
<1>2. value \in 0..(WORD - 1) /\ value \in Int
  BY <1>1, WrapRange
<1>4. /\ status \in [1..NSlots -> {"FREE", "FIXED", "IMPORT_DONE"}]
      /\ dest \in [1..NSlots -> 0..(WORD - 1)] /\ status' = status /\ dest' = dest
  BY DEF LinkInv, TypeOK, slots
<1>5. CASE ~ LinksDirectly(r.type, r.target, value)
  <2>1. UNCHANGED <<field, ctr, goal>>
    BY <1>5 DEF LinkDirect, Refused
  <2> QED
    BY <1>4, <2>1, OthersKept
<1>6. CASE LinksDirectly(r.type, r.target, value) /\ r.type \in NoOpTypes
  <2>1. UNCHANGED <<field, ctr>> /\ goal' = [goal EXCEPT ![j] = value]
    BY <1>6 DEF LinkDirect
  <2>2. r.type \notin HalfTypes /\ ~ OwnBranch(j)
    BY <1>6 DEF NoOpTypes, HalfTypes, BranchTypes, OwnBranch
  <2>3. ctr' \in [Jobs -> {0, 1}]
    BY <2>1 DEF LinkInv, TypeOK
  <2> HIDE DEF value
  <2> QED
    BY <1>2, <1>4, <1>6, <2>1, <2>2, <2>3, PlaceLinked
<1>7. CASE LinksDirectly(r.type, r.target, value) /\ r.type \notin NoOpTypes
  <2>1. goal' = [goal EXCEPT ![j] = value] /\ Store(j, bits)
    BY <1>7 DEF LinkDirect
  <2>2. r.type \in KnownTypes \ NoOpTypes
    BY <1>7 DEF LinksDirectly
  <2>3. bits \in 0..(WORD - 1)
    <3> HIDE DEF value
    <3> QED
      BY <1>1, <1>2, <1>7, <2>2, FieldFits
  <2>4. field' = [field EXCEPT ![j] = bits] /\ ctr' \in [Jobs -> {0, 1}]
    BY <2>1 DEF Store, LinkInv, TypeOK
  <2>5. ASSUME OwnBranch(j) PROVE Arrives(j)'
    <3>1. r.type \in BranchTypes
      BY <2>5 DEF OwnBranch
    <3>2. /\ FitsField(r.type, Distance(r.target, value))
          /\ bits = Distance(r.target, value) % Span(r.type)
      BY <1>7, <3>1, FieldOf DEF LinksDirectly
    <3> HIDE DEF bits, value
    <3>3. BranchTarget(r.type, r.target, bits) = Wrap(value)
      BY <1>1, <1>2, <3>1, <3>2, BranchArrives
    <3>4. field'[j] = bits /\ goal'[j] = value
      BY <2>1, <2>4 DEF LinkInv, TypeOK
    <3>5. Wrap(value) = value
      BY <1>2, WrapSame
    <3> QED
      BY <3>1, <3>3, <3>4, <3>5 DEF Arrives, Goes
  <2> HIDE DEF value, bits
  <2> QED
    BY <1>2, <1>4, <2>1, <2>3, <2>4, <2>5, PlaceLinked DEF bits
<1> QED
  BY <1>5, <1>6, <1>7

LEMMA FillKeeps ==
  ASSUME LinkInv, NEW j \in Jobs, NEW slot \in Reusable, NEW value \in 0..(WORD - 1),
         FillSlot(j, slot, value), job[j].type = "REL24",
         UNCHANGED job, done' \subseteq Jobs
  PROVE  LinkInv'
<1> DEFINE r == job[j]
           at == SlotAddr[slot] + r.addend
           bits == Distance(r.target, at) % Span("REL24")
<1>1. /\ r.target \in Int /\ r.addend \in Int /\ slot \in 1..NSlots /\ status[slot] # "FIXED"
      /\ SlotAddr[slot] \in 0..(WORD - 1) /\ at \in Int
  BY JobAssumption, SlotAssumption, WidthAssumption DEF LinkInv, TypeOK, Jobs, Reusable
<1>2. /\ dest' = [dest EXCEPT ![slot] = value]
      /\ status' = [status EXCEPT ![slot] = IF r.fixed THEN "FIXED" ELSE "IMPORT_DONE"]
  BY DEF FillSlot
<1>3. /\ status' \in [1..NSlots -> {"FREE", "FIXED", "IMPORT_DONE"}]
      /\ dest' \in [1..NSlots -> 0..(WORD - 1)]
      /\ \A s \in 1..NSlots : status[s] = "FIXED" => status'[s] = "FIXED" /\ dest'[s] = dest[s]
  BY <1>1, <1>2 DEF LinkInv, TypeOK
<1>4. CASE UNCHANGED <<field, ctr, goal>>
  BY <1>3, <1>4, OthersKept
<1>5. CASE /\ FitsField("REL24", Distance(r.target, at))
           /\ Store(j, bits) /\ goal' = [goal EXCEPT ![j] = value]
  <2>1. "REL24" \in BranchTypes /\ "REL24" \notin HalfTypes
    BY DEF BranchTypes, HalfTypes
  <2>2. bits \in 0..(WORD - 1) /\ BranchTarget("REL24", r.target, bits) = Wrap(at)
    <3> HIDE DEF at
    <3> QED
      BY <1>1, <1>5, <2>1, BranchArrives
  <2>3. field' = [field EXCEPT ![j] = bits] /\ ctr' \in [Jobs -> {0, 1}]
    BY <1>5 DEF Store, LinkInv, TypeOK
  <2>4. ASSUME OwnBranch(j) PROVE Arrives(j)'
    <3>1. r.fixed
      BY <2>4 DEF OwnBranch
    <3>2. field'[j] = bits /\ goal'[j] = value
      BY <1>5, <2>3 DEF LinkInv, TypeOK
    <3>3. status'[slot] = "FIXED" /\ dest'[slot] = value
      BY <1>1, <1>2, <3>1 DEF LinkInv, TypeOK
    <3> HIDE DEF bits
    <3> QED
      BY <1>1, <2>2, <3>2, <3>3 DEF Arrives, Goes
  <2> HIDE DEF bits, at
  <2> QED
    BY <1>3, <1>5, <2>1, <2>2, <2>3, <2>4, PlaceLinked
<1> QED
  BY <1>4, <1>5 DEF FillSlot, Refused

LEMMA LinkInvKept ==
  ASSUME LinkInv, [Next]_vars
  PROVE  LinkInv'
<1>1. CASE UNCHANGED <<job, field, ctr, goal, status, dest>> /\ done' \subseteq Jobs
  BY <1>1, OthersKept DEF LinkInv, TypeOK
<1>2. ASSUME NEW j \in Jobs, NEW symbol \in Symbols, NEW b \in BOOLEAN, LinkOne(j, symbol, b)
      PROVE  LinkInv'
  <2>1. UNCHANGED job /\ done' \subseteq Jobs
    BY <1>2 DEF LinkOne, LinkInv, TypeOK
  <2>2. CASE LinkDirect(j, symbol) /\ UNCHANGED slots
    BY <2>1, <2>2, DirectKeeps
  <2>3. CASE job[j].type = "REL24" /\ LinkFar(j, symbol)
    <3>1. CASE Refused /\ UNCHANGED slots
      BY <1>1, <2>1, <3>1 DEF Refused, slots
    <3>2. CASE \E slot \in Reusable : FillSlot(j, slot, Wrap(symbol + job[j].addend))
      <4>1. symbol + job[j].addend \in Int
        BY JobAssumption, WidthAssumption DEF LinkInv, TypeOK, Jobs
      <4>2. Wrap(symbol + job[j].addend) \in 0..(WORD - 1)
        BY <4>1, WrapRange
      <4> DEFINE value == Wrap(symbol + job[j].addend)
      <4> HIDE DEF value
      <4> QED
        BY <2>1, <2>3, <3>2, <4>2, FillKeeps DEF value
    <3> QED
      BY <2>3, <3>1, <3>2 DEF LinkFar
  <2> QED
    BY <1>2, <2>2, <2>3 DEF LinkOne
<1> QED
  BY <1>1, <1>2 DEF Next, vars, Launch, LinkInv, TypeOK

LEMMA LinkInvHolds == Spec => []LinkInv
<1>1. LinkInv /\ [Next]_vars => LinkInv'
  BY LinkInvKept
<1> QED
  BY LinkInvInit, <1>1, PTL DEF Spec

(* Every field holds one word, and every slot an address. *)
THEOREM LinksAreTyped == Spec => []TypeOK
<1>1. LinkInv => TypeOK
  BY DEF LinkInv
<1> QED
  BY LinkInvHolds, <1>1, PTL

(* A branch of the module itself goes to the address it was linked for, or  *)
(* to a slot that jumps there and stays as it is, whatever is linked after  *)
(* it at this or a later launch (ElfUtils.cpp:69-160).                      *)
THEOREM OwnBranchesLand == Spec => []FixedBranchesLand
<1>1. LinkInv => FixedBranchesLand
  BY DEF LinkInv, BranchesArrive, FixedBranchesLand, Linked, OwnBranch, BranchTypes, Arrives
<1> QED
  BY LinkInvHolds, <1>1, PTL

-----------------------------------------------------------------------------
(* The test of line 119 foresees the tests of lines 145-158: a slot that is *)
(* reached, at a distance of whole instructions, fits the field.            *)
LEMMA ReachedFits ==
  ASSUME NEW target \in Int, NEW slot \in Int, Reached(target, slot),
         (slot - target) % 4 = 0
  PROVE  FitsField("REL24", Distance(target, slot))
<1> DEFINE y == slot - target
           w == Wrap(target - slot)
           q == (target - slot) \div WORD
           h == HALF \div 2
           k == y \div 4
<1>1. /\ WORD \in Nat \ {0} /\ HALF \in Nat /\ WORD = HALF * HALF /\ HALF % 2 = 0
      /\ NEAR24 \in Nat /\ 2 * NEAR24 < WORD
  BY WidthAssumption
<1>2. target - slot = q * WORD + w /\ q \in Int /\ w \in 0..(WORD - 1) /\ y \in Int
  <2> DEFINE x == target - slot
  <2>1. x \in Int /\ y \in Int
    OBVIOUS
  <2>2. x = (x \div WORD) * WORD + (x % WORD) /\ x \div WORD \in Int /\ x % WORD \in 0..(WORD - 1)
    <3> HIDE DEF x
    <3> QED
      BY <1>1, <2>1, DivMod
  <2> QED
    BY <2>1, <2>2 DEF Wrap
<1>3. w <= NEAR24
  BY DEF Reached
<1>4. y = (0 - q) * WORD - w
  <2> HIDE DEF w, q
  <2>1. y = 0 - (target - slot)
    OBVIOUS
  <2>2. (0 - q) * WORD = 0 - (q * WORD)
    BY <1>1, <1>2
  <2>3. q * WORD \in Int
    BY <1>1, <1>2
  <2> HIDE DEF y
  <2> QED
    BY <1>1, <1>2, <2>1, <2>2, <2>3
<1>5. Signed(y) = 0 - w
  <2> HIDE DEF y, w, q
  <2>1. CASE w = 0
    <3>1. y = (0 - q) * WORD + 0 /\ 0 - q \in Int /\ 0 \in 0..(WORD - 1)
      BY <1>1, <1>2, <1>4, <2>1
    <3>2. Wrap(y) = 0
      BY <1>1, <3>1, RemainderIs DEF Wrap
    <3> QED
      BY <1>1, <2>1, <3>2 DEF Signed
  <2>2. CASE w # 0
    <3>1. y = (0 - q - 1) * WORD + (WORD - w)
      BY <1>1, <1>2, <1>4
    <3>2. WORD - w \in 0..(WORD - 1) /\ 0 - q - 1 \in Int
      BY <1>1, <1>2, <2>2
    <3>3. Wrap(y) = WORD - w
      BY <1>1, <3>1, <3>2, RemainderIs DEF Wrap
    <3> QED
      BY <1>1, <1>2, <1>3, <2>2, <3>3 DEF Signed
  <2> QED
    BY <2>1, <2>2
<1>6. (0 - w) % 4 = 0
  <2>1. y = 4 * k /\ k \in Int
    <3>1. y % 4 = 0
      OBVIOUS
    <3> HIDE DEF y
    <3> QED
      BY <1>2, <3>1
  <2>2. HALF = 2 * h /\ h \in Int
    BY <1>1
  <2> HIDE DEF y, w, q, h, k
  <2>3. WORD = 4 * (h * h) /\ h * h \in Int
    BY <1>1, <2>2
  <2> DEFINE g == h * h
  <2>4. (0 - q) * (4 * g) = 4 * ((0 - q) * g) /\ (0 - q) * g \in Int
    BY <1>2, <2>3
  <2> DEFINE m == (0 - q) * g
  <2>5. 0 - w = 4 * k - 4 * m /\ m \in Int
    BY <1>2, <1>4, <2>1, <2>3, <2>4
  <2> HIDE DEF m, g
  <2> QED
    BY <2>1, <2>5
<1> QED
  <2>1. Distance(target, slot) = 0 - w
    BY <1>5 DEF Distance
  <2> HIDE DEF w, y, q, h, k
  <2> QED
    BY <1>1, <1>2, <1>3, <1>6, <2>1 DEF FitsField, Near

(* What SlotsServeBranches says of one slot and one step *)
Serves(s, j) ==
    job[j].addend = 0 /\ (SlotAddr[s] - job[j].target) % 4 = 0
      => goal'[j] = dest'[s] /\ Goes(j)' = SlotAddr[s]

SlotsStep ==
    \A s \in 1..NSlots : <<status'[s], dest'[s]>> # <<status[s], dest[s]>> =>
        /\ status[s] # "FIXED"
        /\ \E j \in done' \ done :
              job[j].addend = 0 /\ (SlotAddr[s] - job[j].target) % 4 = 0
                => goal'[j] = dest'[s] /\ Goes(j)' = SlotAddr[s]

LEMMA FillServes ==
  ASSUME LinkInv, NEW j \in Jobs, NEW slot \in Reusable, NEW value,
         Reached(job[j].target, SlotAddr[slot]), FillSlot(j, slot, value),
         job[j].type = "REL24", UNCHANGED job
  PROVE  Serves(slot, j)
<1> SUFFICES ASSUME job[j].addend = 0, (SlotAddr[slot] - job[j].target) % 4 = 0
             PROVE  goal'[j] = dest'[slot] /\ Goes(j)' = SlotAddr[slot]
  BY DEF Serves
<1> DEFINE t == job[j].target
           a == SlotAddr[slot]
           bits == Distance(t, a) % Span("REL24")
<1>1. /\ t \in Int /\ a \in 0..(WORD - 1) /\ a \in Int /\ a + 0 = a /\ slot \in 1..NSlots
  BY JobAssumption, SlotAssumption, WidthAssumption DEF LinkInv, TypeOK, Jobs, Reusable
<1>2. FitsField("REL24", Distance(t, a))
  <2> HIDE DEF t, a
  <2> QED
    BY <1>1, ReachedFits DEF t, a
<1>3. /\ dest' = [dest EXCEPT ![slot] = value]
      /\ field' = [field EXCEPT ![j] = bits] /\ goal' = [goal EXCEPT ![j] = value]
  BY <1>1, <1>2 DEF FillSlot, Store
<1>4. field'[j] = bits /\ goal'[j] = value /\ dest'[slot] = value
  BY <1>1, <1>3 DEF LinkInv, TypeOK
<1>5. BranchTarget("REL24", t, bits) = Wrap(a) /\ Wrap(a) = a
  <2>1. "REL24" \in BranchTypes
    BY DEF BranchTypes
  <2> HIDE DEF t, a
  <2> QED
    BY <1>1, <1>2, <2>1, BranchArrives, WrapSame
<1> QED
  <2> HIDE DEF bits
  <2> QED
    BY <1>4, <1>5 DEF Goes

LEMMA SlotSteps == LinkInv /\ [Next]_vars => [SlotsStep]_vars
<1> SUFFICES ASSUME LinkInv, Next PROVE SlotsStep
  OBVIOUS
<1>1. CASE UNCHANGED slots
  BY <1>1 DEF slots, SlotsStep
<1>2. ASSUME NEW j \in Jobs, NEW symbol \in Symbols, NEW b \in BOOLEAN, LinkOne(j, symbol, b)
      PROVE  SlotsStep
  <2>1. UNCHANGED job /\ done' \ done = {j}
    BY <1>2 DEF LinkOne
  <2>2. CASE job[j].type = "REL24" /\ LinkFar(j, symbol)
    <3> DEFINE value == Wrap(symbol + job[j].addend)
    <3>1. CASE UNCHANGED slots
      BY <1>1, <3>1
    <3>2. ASSUME NEW slot \in Reusable, Reached(job[j].target, SlotAddr[slot]),
                 FillSlot(j, slot, value)
          PROVE  SlotsStep
      <4> HIDE DEF value
      <4>1. Serves(slot, j)
        BY <2>1, <2>2, <3>2, FillServes
      <4>2. slot \in 1..NSlots /\ status[slot] # "FIXED"
        BY DEF Reusable
      <4>3. \A s \in 1..NSlots : s # slot => status'[s] = status[s] /\ dest'[s] = dest[s]
        BY <3>2 DEF FillSlot, LinkInv, TypeOK
      <4> QED
        BY <2>1, <4>1, <4>2, <4>3 DEF SlotsStep, Serves
    <3> QED
      BY <2>2, <3>1, <3>2 DEF LinkFar
  <2> QED
    BY <1>1, <1>2, <2>2 DEF LinkOne
<1>3. CASE Launch
  BY <1>1, <1>3 DEF Launch, slots
<1> QED
  BY <1>2, <1>3 DEF Next

(* A slot the module's own branches use is never given away, and one that   *)
(* is given to a branch serves it, however many relocations of whatever     *)
(* kind are linked and however full the buffer is (ElfUtils.cpp:100-160).   *)
THEOREM SlotsAreServing == Spec => SlotsServeBranches
<1>1. Spec => [][SlotsStep]_vars
  BY LinkInvHolds, SlotSteps, PTL DEF Spec
<1> QED
  BY <1>1 DEF SlotsServeBranches, SlotsStep

-----------------------------------------------------------------------------
(* What two halves linked for the same address make *)
LEMMA PairsMeet ==
  ASSUME NEW x \in Int, NEW y \in Int, Wrap(x) = Wrap(y)
  PROVE  /\ AddPair(Ha(x), Lo(y)) = Wrap(x)
         /\ OrPair(Hi(x), Lo(y)) = Wrap(x)
<1>1. Lo(y) = Lo(x)
  BY DEF Lo
<1> QED
  BY <1>1, HalvesAdd, HalvesJoin

LEMMA HalvesMeet ==
  ASSUME LinkInv
  PROVE  AddressesRebuilt
<1>1. ASSUME NEW type \in HalfTypes, NEW j \in Linked(type)
      PROVE  /\ j \in Jobs /\ goal[j] \in 0..(WORD - 1) /\ goal[j] \in Int
             /\ Wrap(goal[j]) = goal[j]
             /\ job[j].type = type /\ field[j] = Field(type, job[j].target, goal[j])
             /\ job[j].target \in Int /\ goal[j] - job[j].target \in Int
  <2>1. j \in Jobs /\ job[j].type = type /\ goal[j] # Unlinked
    BY DEF Linked
  <2>2. goal[j] \in 0..(WORD - 1) /\ field[j] = Field(type, job[j].target, goal[j])
    BY <2>1 DEF LinkInv, TypeOK, HalvesHold
  <2>3. goal[j] \in Int /\ Wrap(goal[j]) = goal[j]
    BY <2>2, WrapSame
  <2>4. job[j].target \in Int
    BY <2>1, JobAssumption DEF LinkInv, TypeOK, Jobs
  <2> QED
    BY <2>1, <2>2, <2>3, <2>4
<1>2. ASSUME NEW lo \in Linked("ADDR16_LO"), NEW ha \in Linked("ADDR16_HA"), goal[ha] = goal[lo]
      PROVE  AddPair(field[ha], field[lo]) = goal[lo]
  <2>1. "ADDR16_LO" \in HalfTypes /\ "ADDR16_HA" \in HalfTypes
    BY DEF HalfTypes
  <2>2. field[lo] = Lo(goal[lo]) /\ field[ha] = Ha(goal[lo])
    BY <1>1, <1>2, <2>1, FieldOf
  <2>3. goal[lo] \in Int /\ Wrap(goal[lo]) = goal[lo]
    BY <1>1, <2>1
  <2> QED
    BY <2>2, <2>3, PairsMeet
<1>3. ASSUME NEW lo \in Linked("ADDR16_LO"), NEW hi \in Linked("ADDR16_HI"), goal[hi] = goal[lo]
      PROVE  OrPair(field[hi], field[lo]) = goal[lo]
  <2>1. "ADDR16_LO" \in HalfTypes /\ "ADDR16_HI" \in HalfTypes
    BY DEF HalfTypes
  <2>2. field[lo] = Lo(goal[lo]) /\ field[hi] = Hi(goal[lo])
    BY <1>1, <1>3, <2>1, FieldOf
  <2>3. goal[lo] \in Int /\ Wrap(goal[lo]) = goal[lo]
    BY <1>1, <2>1
  <2> QED
    BY <2>2, <2>3, PairsMeet
<1>4. ASSUME NEW ha \in Linked("REL16_HA"), NEW lo \in Linked("REL16_LO"),
             Wrap(goal[ha] - job[ha].target) = Wrap(goal[lo] - job[lo].target)
      PROVE  Wrap(job[ha].target + AddPair(field[ha], field[lo])) = goal[ha]
  <2> DEFINE t == job[ha].target
             x == goal[ha] - t
             y == goal[lo] - job[lo].target
  <2>1. "REL16_LO" \in HalfTypes /\ "REL16_HA" \in HalfTypes
    BY DEF HalfTypes
  <2>2. x \in Int /\ y \in Int /\ t \in Int /\ t + x = goal[ha] /\ Wrap(x) = Wrap(y)
    BY <1>1, <1>4, <2>1
  <2>3. field[lo] = Lo(y) /\ field[ha] = Ha(x)
    BY <1>1, <2>1, FieldOf
  <2>4. Wrap(goal[ha]) = goal[ha]
    BY <1>1, <2>1
  <2> HIDE DEF t, x, y
  <2>5. AddPair(field[ha], field[lo]) = Wrap(x)
    BY <2>2, <2>3, PairsMeet
  <2>6. Wrap(t + Wrap(x)) = goal[ha]
    BY <2>2, <2>4, WrapSum
  <2> QED
    BY <2>5, <2>6 DEF t
<1> QED
  BY <1>2, <1>3, <1>4 DEF AddressesRebuilt

(* The two halves of an address, linked as separate relocations and in any  *)
(* order with others, make up the address when the code joins them again.   *)
THEOREM AddressesMeet == Spec => []AddressesRebuilt
<1>1. LinkInv => AddressesRebuilt
  BY HalvesMeet
<1> QED
  BY LinkInvHolds, <1>1, PTL
=============================================================================
