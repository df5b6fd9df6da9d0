---------------------------- MODULE LoaderProofs ----------------------------
(***************************************************************************)
(* Theorems about Loader, for every set of libraries, every address map    *)
(* and every block of memory.                                              *)
(***************************************************************************)
EXTENDS Loader, ElfLinkProofs, SequenceTheorems

(* The code sections init_sections has been through *)
Seen == {s \in Code : Initialised \/ (pc = "init" /\ s < sec)}

OnlyEmptyText == \A t \in Seen : InText(lib[t].addr) => lib[t].size = 0

(* base_offset stays where it began until a text section moves it, a text   *)
(* section goes where text_offset says, and a data section goes where       *)
(* base_offset, and data_offset with it, will stay.                         *)
PlacementTyped ==
    /\ lib \in Libraries
    /\ library \in Nat /\ base \in Int /\ sec \in Nat
    /\ origin \in [Sections -> Int]
    /\ \A s \in placed : s \in Code /\ ~ InImports(lib[s].addr)

PlacementInv ==
    /\ PlacementTyped
    /\ pc = "allocate" => sec = 1
    /\ pc = "init" => sec >= 1
    /\ pc = "init" /\ OnlyEmptyText => base = library
    /\ TextFirst =>
          \A s \in Seen : /\ InText(lib[s].addr) => origin[s] = library - TEXT
                          /\ InData(lib[s].addr) => origin[s] = base - DATA

(* What the calls after init_sections, and the failures, leave alone *)
Placement == <<lib, library, base, origin, placed>>

-----------------------------------------------------------------------------
LEMMA LibraryTyped ==
  ASSUME lib \in Libraries
  PROVE  /\ Len(lib) \in Nat
         /\ \A s \in Code : s \in 1..Len(lib) /\ s \in Nat /\ s >= 1
                            /\ lib[s].addr \in Nat /\ lib[s].size \in Nat
<1>1. Len(lib) \in Nat /\ \A s \in 1..Len(lib) : lib[s].addr \in Nat /\ lib[s].size \in Nat
  BY LibraryAssumption
<1>2. \A s \in Code : s \in 1..Len(lib)
  BY DEF Code, Sections
<1> QED
  BY <1>1, <1>2

LEMMA PlacementInit == Init => PlacementInv
<1> SUFFICES ASSUME Init PROVE PlacementInv
  OBVIOUS
<1>1. library \in Nat
  <2>1. library \in OldLibrary
    BY DEF Init
  <2>2. OldLibrary \subseteq Nat
    BY AddressAssumption DEF NULL
  <2> QED
    BY <2>1, <2>2
<1>2. origin \in [Sections -> Int]
  <2>1. PICK g \in Garbage : origin = [s \in Sections |-> g]
    BY DEF Init
  <2> QED
    BY <2>1, AddressAssumption
<1>3. PlacementTyped
  <2>1. lib \in Libraries /\ base = 0 /\ sec = 1 /\ placed = {}
    BY DEF Init
  <2> QED
    BY <1>1, <1>2, <2>1 DEF PlacementTyped
<1>4. pc = "parse" /\ sec = 1
  BY DEF Init
<1>5. Seen = {}
  BY <1>4 DEF Seen, Initialised
<1> QED
  BY <1>3, <1>4, <1>5 DEF PlacementInv

(* A step that neither places a section nor begins to. *)
LEMMA PlacementKept ==
  ASSUME PlacementInv, UNCHANGED Placement, sec' \in Nat, pc' # "init",
         pc' = "allocate" => sec' = 1,
         Initialised' => Initialised \/ (pc = "init" /\ sec \notin Sections)
  PROVE  PlacementInv'
<1>1. Sections' = Sections /\ Code' = Code /\ TextFirst' = TextFirst
  BY DEF Placement, Sections, Code, TextFirst, InText, InData
<1>2. Seen' \subseteq Seen
  <2> SUFFICES ASSUME NEW s \in Code, Initialised' PROVE s \in Seen
    BY <1>1 DEF Seen
  <2>1. CASE Initialised
    BY <2>1 DEF Seen
  <2>2. CASE pc = "init" /\ sec \notin Sections
    <3>1. sec \in Nat /\ sec >= 1 /\ lib \in Libraries
      BY <2>2 DEF PlacementInv, PlacementTyped
    <3>2. sec > Len(lib) /\ s \in 1..Len(lib) /\ Len(lib) \in Nat
      BY <2>2, <3>1, LibraryTyped DEF Sections
    <3> QED
      BY <2>2, <3>1, <3>2 DEF Seen
  <2> QED
    BY <2>1, <2>2
<1>3. PlacementTyped'
  BY <1>1 DEF PlacementInv, PlacementTyped, Placement, InImports
<1> QED
  BY <1>1, <1>2, <1>3 DEF PlacementInv, Placement, InText, InData

LEMMA PlacementBegins ==
  ASSUME PlacementInv, AllocateMemory
  PROVE  PlacementInv'
<1>1. CASE pc' = "failed"
  <2>1. UNCHANGED Placement /\ sec' = sec /\ ~ Initialised'
    BY <1>1 DEF AllocateMemory, Fail, Placement, cursor, Initialised
  <2> QED
    BY <1>1, <2>1, PlacementKept DEF PlacementInv, PlacementTyped
<1>2. CASE pc' # "failed"
  <2>1. /\ pc = "allocate" /\ pc' = "init" /\ sec' = sec
        /\ library' \in Blocks /\ base' = library'
        /\ UNCHANGED <<lib, origin, placed>>
    BY <1>2 DEF AllocateMemory, Fail, cursor
  <2>2. library' \in Nat /\ sec = 1
    BY <2>1, AddressAssumption DEF PlacementInv
  <2>3. PlacementTyped'
    BY <2>1, <2>2 DEF PlacementInv, PlacementTyped, Sections, Code, InImports
  <2>4. Seen' = {}
    <3>1. \A s \in Code' : s \in Nat /\ s >= 1
      BY <2>1, LibraryTyped DEF PlacementInv, PlacementTyped, Code, Sections
    <3> QED
      BY <2>1, <2>2, <3>1 DEF Seen, Initialised
  <2> QED
    BY <2>1, <2>2, <2>3, <2>4 DEF PlacementInv
<1> QED
  BY <1>1, <1>2

(* One section of init_sections *)
LEMMA PlacementGoesOn ==
  ASSUME PlacementInv, InitSection
  PROVE  PlacementInv'
<1>1. CASE pc' = "crashed"
  <2>1. UNCHANGED Placement /\ sec' \in Nat /\ ~ Initialised'
    BY <1>1 DEF InitSection, Crash, Placement, cursor, Initialised, PlacementInv, PlacementTyped
  <2> QED
    BY <1>1, <2>1, PlacementKept
<1>2. CASE pc' # "crashed"
  <2>1. /\ pc = "init" /\ pc' = "init" /\ sec \in Sections /\ sec' = sec + 1
        /\ origin' = IF sec \in Code THEN [origin EXCEPT ![sec] = Origin(lib[sec].addr)]
                                     ELSE origin
        /\ base' = IF sec \in Code /\ InText(lib[sec].addr) THEN base + lib[sec].size ELSE base
        /\ placed' = IF sec \in Code /\ ~ InImports(lib[sec].addr) THEN placed \cup {sec}
                                                                   ELSE placed
        /\ UNCHANGED <<lib, library>>
    BY <1>2 DEF InitSection, Crash
  <2>2. /\ lib \in Libraries /\ library \in Nat /\ base \in Int /\ sec \in Nat
        /\ origin \in [Sections -> Int]
    BY DEF PlacementInv, PlacementTyped
  <2>3. Sections' = Sections /\ Code' = Code /\ TextFirst' = TextFirst
    BY <2>1 DEF Sections, Code, TextFirst, InText, InData
  <2>4. \A s \in Code : s \in Nat /\ lib[s].addr \in Nat /\ lib[s].size \in Nat
    BY <2>2, LibraryTyped
  <2>5. Seen' = IF sec \in Code THEN Seen \cup {sec} ELSE Seen
    BY <2>1, <2>2, <2>3, <2>4 DEF Seen, Initialised
  <2>6. TEXT \in Nat /\ DATA \in Nat /\ IMPORTS \in Nat /\ TEXT < DATA /\ DATA < IMPORTS
    BY AddressAssumption
  <2>7. sec \in Code => Origin(lib[sec].addr) \in Int
    BY <2>2, <2>6 DEF Origin
  <2>8. PlacementTyped'
    BY <2>1, <2>2, <2>3, <2>4, <2>7 DEF PlacementInv, PlacementTyped, InImports
  <2>9. sec' >= 1
    BY <2>1, <2>2
  <2>10. OnlyEmptyText' => base' = library'
    <3> SUFFICES ASSUME OnlyEmptyText' PROVE base' = library'
      OBVIOUS
    <3>1. OnlyEmptyText
      BY <2>1, <2>5 DEF OnlyEmptyText, InText
    <3>2. base = library
      BY <3>1, <2>1 DEF PlacementInv
    <3>3. sec \in Code /\ InText(lib[sec].addr) => lib[sec].size = 0
      BY <2>1, <2>5 DEF OnlyEmptyText, InText
    <3> QED
      BY <2>1, <2>2, <3>2, <3>3
  <2>11. ASSUME TextFirst, NEW s \in Seen'
         PROVE  /\ InText(lib[s].addr) => origin'[s] = library - TEXT
                /\ InData(lib[s].addr) => origin'[s] = base' - DATA
    <3>1. s \in Code
      BY <2>3, <2>11 DEF Seen
    <3>2. CASE s = sec
      <4>1. sec \in Code /\ origin'[sec] = Origin(lib[sec].addr)
        BY <2>1, <2>2, <3>1, <3>2
      <4>2. CASE InText(lib[sec].addr)
        <5>1. ASSUME NEW t \in Seen, InText(lib[t].addr) PROVE lib[t].size = 0
          <6>1. t \in Code /\ t # sec
            BY <2>1, <2>2, <2>4 DEF Seen, Initialised
          <6> QED
            BY <2>4, <2>11, <4>1, <4>2, <5>1, <6>1 DEF TextFirst
        <5>2. base = library
          BY <5>1, <2>1 DEF PlacementInv, OnlyEmptyText
        <5> QED
          BY <2>4, <2>6, <3>2, <4>1, <4>2, <5>2 DEF Origin, InText, InData
      <4>3. CASE ~ InText(lib[sec].addr)
        BY <2>1, <2>2, <3>2, <4>1, <4>3 DEF Origin
      <4> QED
        BY <4>2, <4>3
    <3>3. CASE s # sec
      <4>1. s \in Seen /\ s < sec
        BY <2>1, <2>5, <3>3 DEF Seen, Initialised
      <4>2. /\ InText(lib[s].addr) => origin[s] = library - TEXT
            /\ InData(lib[s].addr) => origin[s] = base - DATA
        BY <4>1, <2>11 DEF PlacementInv
      <4>3. origin'[s] = origin[s]
        BY <2>1, <2>2, <3>1, <3>3 DEF Code
      <4>4. InData(lib[s].addr) => base' = base
        <5> SUFFICES ASSUME InData(lib[s].addr), sec \in Code, InText(lib[sec].addr)
                     PROVE  base + lib[sec].size = base
          BY <2>1
        <5>1. lib[sec].size = 0
          <6>1. lib[sec].size > 0 => sec < s
            BY <2>11, <3>1, <3>3 DEF TextFirst
          <6>2. s \in Nat /\ lib[sec].size \in Nat
            BY <2>4, <3>1
          <6> QED
            BY <2>2, <4>1, <6>1, <6>2
        <5> QED
          BY <5>1, <2>2
      <4> QED
        BY <4>2, <4>3, <4>4
    <3> QED
      BY <3>2, <3>3
  <2> QED
    BY <2>1, <2>3, <2>8, <2>9, <2>10, <2>11 DEF PlacementInv, InText, InData
<1> QED
  BY <1>1, <1>2

LEMMA PlacementStep == PlacementInv /\ [Next]_vars => PlacementInv'
<1> SUFFICES ASSUME PlacementInv, [Next]_vars PROVE PlacementInv'
  OBVIOUS
<1> USE DEF Placement, cursor, Initialised
<1>0. sec \in Nat
  BY DEF PlacementInv, PlacementTyped
<1>1. CASE ParseSection
  <2>1. pc = "parse" /\ pc' \in {"crashed", "parse"} /\ sec' \in {sec, sec + 1} /\ UNCHANGED Placement
    BY <1>1 DEF ParseSection, Crash
  <2> QED
    BY <2>1, <1>0, PlacementKept
<1>18. CASE ParseDone
  <2>1. pc = "parse" /\ pc' = "allocate" /\ sec' = 1 /\ UNCHANGED Placement
    BY <1>18 DEF ParseDone
  <2> QED
    BY <2>1, PlacementKept
<1>2. CASE AllocateMemory
  BY <1>2, PlacementBegins
<1>3. CASE InitSection
  BY <1>3, PlacementGoesOn
<1>4. CASE InitDone
  <2>1. pc = "init" /\ pc' = "link" /\ sec \notin Sections /\ sec' = 1 /\ UNCHANGED Placement
    BY <1>4 DEF InitDone, Enter
  <2> QED
    BY <2>1, PlacementKept
<1>17. CASE ReadNullTable
  <2>1. pc' = "crashed" /\ sec' = sec /\ UNCHANGED Placement
    BY <1>17 DEF ReadNullTable, Crash
  <2> QED
    BY <2>1, <1>0, PlacementKept
<1>5. CASE LinkEntry
  <2>1. pc = "link" /\ pc' \in {"failed", "link"} /\ sec' = sec /\ UNCHANGED Placement
    BY <1>5 DEF LinkEntry, Fail
  <2> QED
    BY <2>1, <1>0, PlacementKept
<1>6. CASE LinkNext
  <2>1. pc = "link" /\ pc' = pc /\ sec' \in {sec, sec + 1} /\ UNCHANGED Placement
    BY <1>6 DEF LinkNext, Advance
  <2> QED
    BY <2>1, <1>0, PlacementKept
<1>7. CASE LinkDone
  <2>1. pc = "link" /\ pc' = "imports" /\ sec' = 1 /\ UNCHANGED Placement
    BY <1>7 DEF LinkDone, Enter
  <2> QED
    BY <2>1, PlacementKept
<1>8. CASE AddRelocation
  <2>1. pc = "imports" /\ pc' = pc /\ sec' = sec /\ UNCHANGED Placement
    BY <1>8 DEF AddRelocation
  <2> QED
    BY <2>1, <1>0, PlacementKept
<1>9. CASE ImportNext
  <2>1. pc = "imports" /\ pc' = pc /\ sec' \in {sec, sec + 1} /\ UNCHANGED Placement
    BY <1>9 DEF ImportNext, Advance
  <2> QED
    BY <2>1, <1>0, PlacementKept
<1>10. CASE ImportsDone
  <2>1. pc = "imports" /\ pc' = "bind" /\ sec' = 1 /\ UNCHANGED Placement
    BY <1>10 DEF ImportsDone, Enter
  <2> QED
    BY <2>1, PlacementKept
<1>11. ASSUME NEW address \in Imported \cup {0}, BindImport(address) PROVE PlacementInv'
  <2>1. pc = "bind" /\ pc' \in {"failed", "bind"} /\ sec' = sec /\ UNCHANGED Placement
    BY <1>11 DEF BindImport, Fail
  <2> QED
    BY <2>1, <1>0, PlacementKept
<1>12. CASE BindDone
  <2>1. pc = "bind" /\ pc' = "exports" /\ sec' = 1 /\ UNCHANGED Placement
    BY <1>12 DEF BindDone, Enter
  <2> QED
    BY <2>1, PlacementKept
<1>13. CASE ResolveExports
  <2>1. pc = "exports" /\ pc' = "flush" /\ sec' = sec /\ UNCHANGED Placement
    BY <1>13 DEF ResolveExports
  <2> QED
    BY <2>1, <1>0, PlacementKept
<1>14. CASE FlushCaches
  <2>1. pc = "flush" /\ pc' = "clear" /\ sec' = sec /\ UNCHANGED Placement
    BY <1>14 DEF FlushCaches
  <2> QED
    BY <2>1, <1>0, PlacementKept
<1>15. CASE ClearBss
  <2>1. pc = "clear" /\ pc' = "loaded" /\ sec' = sec /\ UNCHANGED Placement
    BY <1>15 DEF ClearBss
  <2> QED
    BY <2>1, <1>0, PlacementKept
<1>16. CASE UNCHANGED vars
  <2>1. PlacementTyped' /\ Seen' = Seen /\ TextFirst' = TextFirst /\ OnlyEmptyText' = OnlyEmptyText
    BY <1>16 DEF vars, PlacementInv, PlacementTyped, Seen, TextFirst, OnlyEmptyText,
                 Sections, Code, InText, InData, InImports
  <2> QED
    BY <1>16, <2>1 DEF vars, PlacementInv, InText, InData
<1> QED
  BY <1>1, <1>2, <1>3, <1>4, <1>5, <1>6, <1>7, <1>8, <1>9, <1>10, <1>11, <1>12, <1>13,
     <1>14, <1>15, <1>16, <1>17, <1>18 DEF Next

(* In every library whose text comes first, whatever its sections, link_section *)
(* takes the address of a symbol to be where init_sections put its section.     *)
THEOREM SymbolsMeetSections == Spec => []RebaseMeetsPlacement
<1>1. PlacementInv => RebaseMeetsPlacement
  <2> SUFFICES ASSUME PlacementInv, Initialised, TextFirst, NEW s \in placed,
                      lib[s].addr >= TEXT
               PROVE  Rebase(lib[s].addr) = Dest(s)
    BY DEF RebaseMeetsPlacement
  <2>1. s \in Seen /\ s \in Code /\ s \in Sections /\ ~ InImports(lib[s].addr)
    BY DEF PlacementInv, PlacementTyped, Seen, Code
  <2>2. lib[s].addr \in Nat /\ library \in Nat /\ base \in Int
    BY <2>1, LibraryTyped DEF PlacementInv, PlacementTyped
  <2>3. TEXT \in Nat /\ DATA \in Nat /\ IMPORTS \in Nat
    BY AddressAssumption
  <2>4. /\ InText(lib[s].addr) => origin[s] = library - TEXT
        /\ InData(lib[s].addr) => origin[s] = base - DATA
    BY <2>1 DEF PlacementInv
  <2>5. InText(lib[s].addr) \/ (InData(lib[s].addr) /\ ~ InText(lib[s].addr))
    BY <2>1, <2>2, <2>3 DEF InText, InData, InImports
  <2> QED
    BY <2>2, <2>3, <2>4, <2>5 DEF Rebase, Dest
<1> QED
  BY <1>1, PlacementInit, PlacementStep, PTL DEF Spec

-----------------------------------------------------------------------------
(* An import waits in the list with the table and entry it comes from. *)
Request(t, i) ==
    LET e == lib[t].entries[i]
    IN  [table |-> t, entry |-> i, type |-> e.type, addend |-> e.addend,
         target |-> origin[lib[t].info] + e.offset]

Requests == UNION {{Request(t, i) : i \in 1..Len(lib[t].entries)} : t \in Tables}

TypeInv ==
    /\ TypeOK
    /\ pending \in Seq(Requests)
    /\ pc \in {"parse", "allocate", "init"} => pending = <<>>

(* The variables of TypeInv besides pc and the cursor *)
Typed == <<lib, library, size, codeSize, base, origin, placed, pending, dirty>>

LEMMA TablesTyped ==
  ASSUME lib \in Libraries, NEW t \in Tables
  PROVE  /\ t \in Sections /\ lib[t].info \in Sections
         /\ DOMAIN lib[t].entries = 1..Len(lib[t].entries) /\ Len(lib[t].entries) \in Nat
         /\ \A i \in 1..Len(lib[t].entries) : RelocationTyped(lib[t].entries[i])
BY LibraryAssumption DEF Tables, Sections

LEMMA CodeSizeTyped ==
  ASSUME NEW sum \in Nat
  PROVE  /\ CodeSize(sum) \in Nat /\ CodeSize(sum) % PAGE = 0
         /\ sum + PAGE < WORD => sum + 1 <= CodeSize(sum)
<1> DEFINE w == Wrap(sum + PAGE)
           q == w \div PAGE
           r == w % PAGE
<1>1. PAGE \in Nat \ {0} /\ sum + PAGE \in Nat
  BY AddressAssumption
<1>2. w \in 0..(WORD - 1) /\ w \in Nat
  BY <1>1, WrapRange, WidthAssumption
<1>3. sum + PAGE < WORD => w = sum + PAGE
  <2>1. sum + PAGE < WORD => sum + PAGE \in 0..(WORD - 1)
    BY <1>1, WidthAssumption
  <2> QED BY <2>1, WrapSame
<1>4. CodeSize(sum) = w - r
  BY DEF CodeSize
<1> HIDE DEF w
<1>5. w = q * PAGE + r /\ q \in Int /\ r \in 0..(PAGE - 1)
  BY <1>1, <1>2, DivMod
<1>6. q >= 0
  BY <1>1, <1>2
<1> HIDE DEF q, r
<1>7. w - r \in Nat
  BY <1>1, <1>2, <1>5, <1>6
<1>8. (q * PAGE) % PAGE = 0
  <2> DEFINE z == 0
  <2>1. z \in 0..(PAGE - 1) /\ q * PAGE \in Int
    BY <1>1, <1>5
  <2> HIDE DEF z
  <2>2. (q * PAGE + z) % PAGE = z
    BY <1>1, <1>5, <2>1, RemainderIs
  <2> QED BY <2>1, <2>2 DEF z
<1>9. w - r = q * PAGE
  BY <1>1, <1>5
<1>10. sum + PAGE < WORD => sum + 1 <= w - r
  BY <1>1, <1>3, <1>5
<1> QED
  BY <1>4, <1>7, <1>8, <1>9, <1>10

LEMMA TypeInit == Init => TypeInv
<1> SUFFICES ASSUME Init PROVE TypeInv
  OBVIOUS
<1>1. library \in Blocks \cup {NULL}
  BY AddressAssumption DEF Init
<1>2. origin \in [Sections -> Int]
  <2>1. PICK g \in Garbage : origin = [s \in Sections |-> g]
    BY DEF Init
  <2> QED
    BY <2>1, AddressAssumption
<1>3. Len(lib) \in Nat
  BY LibraryAssumption DEF Init
<1>4. 0 \in Nat /\ 0 % PAGE = 0
  BY AddressAssumption
<1>5. pending = <<>> /\ pending \in Seq(Requests)
  BY EmptySeq DEF Init
<1>6. TypeOK
  <2>1. sec \in 1..(Len(lib) + 1) /\ tab \in 1..(Len(lib) + 1) /\ ent \in Nat \ {0}
    <3>1. sec = 1 /\ tab = 1 /\ ent = 1
      BY DEF Init
    <3> QED BY <1>3, <3>1
  <2> QED
    BY <1>1, <1>2, <1>4, <2>1 DEF Init, TypeOK
<1> QED
  BY <1>5, <1>6 DEF TypeInv

(* A step that moves only the program counter and the cursor. *)
LEMMA TypeKept ==
  ASSUME TypeInv, UNCHANGED Typed,
         sec' \in 1..(Len(lib) + 1), tab' \in 1..(Len(lib) + 1), ent' \in Nat \ {0},
         pc' \in {"parse", "allocate", "init", "link", "imports", "bind", "exports",
                  "flush", "clear", "loaded", "failed", "crashed"},
         pc' \in {"parse", "allocate", "init"} => pc \in {"parse", "allocate", "init"}
  PROVE  TypeInv'
<1>1. Sections' = Sections /\ Code' = Code /\ Requests' = Requests
  BY DEF Typed, Sections, Code, Requests, Request, Tables
<1> QED
  BY <1>1 DEF TypeInv, TypeOK, Typed

LEMMA TypeStep == TypeInv /\ [Next]_vars => TypeInv'
<1> SUFFICES ASSUME TypeInv, [Next]_vars PROVE TypeInv'
  OBVIOUS
<1>0. /\ Len(lib) \in Nat /\ lib \in Libraries
      /\ sec \in 1..(Len(lib) + 1) /\ tab \in 1..(Len(lib) + 1) /\ ent \in Nat \ {0}
      /\ 1 \in 1..(Len(lib) + 1) /\ 1 \in Nat \ {0}
      /\ Code \subseteq Sections
  <2>1. Len(lib) \in Nat
    BY LibraryAssumption DEF TypeInv, TypeOK
  <2> QED
    BY <2>1 DEF TypeInv, TypeOK, Code, Sections
<1>100. /\ sec \in Sections => sec + 1 \in 1..(Len(lib) + 1)
        /\ tab \in Sections => tab + 1 \in 1..(Len(lib) + 1)
        /\ ent + 1 \in Nat \ {0}
  BY <1>0 DEF Sections
<1> USE DEF Typed, cursor
<1>1. CASE pc' = "crashed" /\ UNCHANGED <<Typed, cursor>>
  BY <1>0, <1>1, TypeKept
<1>2. CASE pc' = "failed" /\ UNCHANGED <<Typed, cursor>>
  BY <1>0, <1>2, TypeKept
<1>3. CASE ParseSection
  <2>1. CASE pc' = "crashed"
    BY <1>1, <1>3, <2>1 DEF ParseSection, Crash
  <2>2. CASE pc' # "crashed"
    <3>1. /\ pc = "parse" /\ sec \in Sections /\ sec' = sec + 1
          /\ size' = IF sec \in Code THEN size + lib[sec].size + 1 ELSE size
          /\ UNCHANGED <<lib, pc, library, codeSize, base, origin, placed, tab, ent, pending, dirty>>
      BY <1>3, <2>2 DEF ParseSection, Crash
    <3>2. size' \in Nat
      BY <1>0, <3>1, LibraryTyped DEF TypeInv, TypeOK
    <3>3. Sections' = Sections /\ Code' = Code /\ Requests' = Requests
      BY <3>1 DEF Sections, Code, Requests, Request, Tables
    <3> QED
      BY <1>100, <3>1, <3>2, <3>3 DEF TypeInv, TypeOK
  <2> QED
    BY <2>1, <2>2
<1>4. CASE ParseDone
  <2>1. /\ pc = "parse" /\ pc' = "allocate" /\ sec' = 1 /\ codeSize' = CodeSize(size)
        /\ UNCHANGED <<lib, library, size, base, origin, placed, tab, ent, pending, dirty>>
    BY <1>4 DEF ParseDone
  <2>2. codeSize' \in Nat /\ codeSize' % PAGE = 0
    BY <2>1, CodeSizeTyped DEF TypeInv, TypeOK
  <2>3. Sections' = Sections /\ Code' = Code /\ Requests' = Requests
    BY <2>1 DEF Sections, Code, Requests, Request, Tables
  <2> QED
    BY <1>0, <2>1, <2>2, <2>3 DEF TypeInv, TypeOK
<1>5. CASE AllocateMemory
  <2>1. CASE pc' = "failed"
    BY <1>2, <1>5, <2>1 DEF AllocateMemory, Fail
  <2>2. CASE pc' # "failed"
    <3>1. /\ pc = "allocate" /\ pc' = "init" /\ library' \in Blocks /\ base' = library'
          /\ UNCHANGED <<lib, size, codeSize, origin, placed, sec, tab, ent, pending, dirty>>
      BY <1>5, <2>2 DEF AllocateMemory, Fail
    <3>2. base' \in Nat
      BY <3>1, AddressAssumption
    <3>3. Sections' = Sections /\ Code' = Code /\ Requests' = Requests
      BY <3>1 DEF Sections, Code, Requests, Request, Tables
    <3> QED
      BY <3>1, <3>2, <3>3 DEF TypeInv, TypeOK
  <2> QED
    BY <2>1, <2>2
<1>6. CASE InitSection
  <2>1. CASE pc' = "crashed"
    BY <1>1, <1>6, <2>1 DEF InitSection, Crash
  <2>2. CASE pc' # "crashed"
    <3>1. /\ pc = "init" /\ pc' = "init" /\ sec \in Sections /\ sec' = sec + 1
          /\ origin' = IF sec \in Code THEN [origin EXCEPT ![sec] = Origin(lib[sec].addr)]
                                       ELSE origin
          /\ base' = IF sec \in Code /\ InText(lib[sec].addr) THEN base + lib[sec].size ELSE base
          /\ placed' = IF sec \in Code /\ ~ InImports(lib[sec].addr) THEN placed \cup {sec}
                                                                     ELSE placed
          /\ UNCHANGED <<lib, library, size, codeSize, tab, ent, pending, dirty>>
      BY <1>6, <2>2 DEF InitSection, Crash
    <3>2. base' \in Nat
      BY <1>0, <3>1, LibraryTyped DEF TypeInv, TypeOK
    <3>3. origin' \in [Sections -> Int]
      <4>1. Origin(lib[sec].addr) \in Int
        BY AddressAssumption DEF Origin, TypeInv, TypeOK
      <4> QED
        BY <3>1, <4>1 DEF TypeInv, TypeOK
    <3>4. placed' \subseteq Code
      BY <3>1 DEF TypeInv, TypeOK
    <3>5. Sections' = Sections /\ Code' = Code
      BY <3>1 DEF Sections, Code
    <3>6. pending' = <<>> /\ pending' \in Seq(Requests')
      BY <3>1 DEF TypeInv
    <3>7. TypeOK'
      BY <1>100, <3>1, <3>2, <3>3, <3>4, <3>5 DEF TypeInv, TypeOK
    <3> QED
      BY <3>6, <3>7 DEF TypeInv
  <2> QED
    BY <2>1, <2>2
<1>7. CASE InitDone \/ LinkDone \/ ImportsDone \/ BindDone
  <2>1. /\ pc' \in {"link", "imports", "bind", "exports"} /\ UNCHANGED Typed
        /\ sec' = 1 /\ tab' = 1 /\ ent' = 1
    BY <1>7 DEF InitDone, LinkDone, ImportsDone, BindDone, Enter
  <2> QED
    BY <1>0, <2>1, TypeKept
<1>8. CASE ReadNullTable
  BY <1>1, <1>8 DEF ReadNullTable, Crash
<1>9. CASE LinkEntry
  <2>1. CASE pc' = "failed"
    BY <1>2, <1>9, <2>1 DEF LinkEntry, Fail
  <2>2. CASE pc' # "failed"
    <3>1. /\ pc = "link" /\ pc' = "link" /\ sec \in Code /\ ent' = ent + 1
          /\ dirty' \in {dirty, dirty \cup {sec}}
          /\ UNCHANGED <<lib, library, size, codeSize, base, origin, placed, sec, tab, pending>>
      BY <1>9, <2>2 DEF LinkEntry, Fail
    <3>2. dirty' \subseteq Sections
      BY <1>0, <3>1 DEF TypeInv, TypeOK
    <3>3. Sections' = Sections /\ Code' = Code /\ Requests' = Requests
      BY <3>1 DEF Sections, Code, Requests, Request, Tables
    <3> QED
      BY <1>100, <3>1, <3>2, <3>3 DEF TypeInv, TypeOK
  <2> QED
    BY <2>1, <2>2
<1>10. CASE LinkNext
  <2>1. /\ pc = "link" /\ pc' = "link" /\ UNCHANGED Typed /\ sec \in Sections /\ ent' = 1
        /\ \/ sec' = sec + 1 /\ tab' = 1
           \/ tab \in Sections /\ tab' = tab + 1 /\ sec' = sec
    BY <1>10 DEF LinkNext, Advance
  <2> QED
    BY <1>0, <1>100, <2>1, TypeKept
<1>11. CASE AddRelocation
  <2> DEFINE r == Request(tab, ent)
  <2>1. /\ pc = "imports" /\ pc' = "imports" /\ ent' = ent + 1
        /\ pending' = pending \/ pending' = Append(pending, r)
        /\ UNCHANGED <<lib, library, size, codeSize, base, origin, placed, sec, tab, dirty>>
    BY <1>11 DEF AddRelocation, Request
  <2>2. r \in Requests
    <3>1. tab \in Tables /\ ent \in 1..Len(lib[tab].entries)
      BY <1>0, <1>11, TablesTyped DEF AddRelocation, ImportOpen
    <3> QED
      BY <3>1 DEF Requests
  <2>3. Sections' = Sections /\ Code' = Code /\ Requests' = Requests
    BY <2>1 DEF Sections, Code, Requests, Request, Tables
  <2> HIDE DEF r
  <2>4. pending' \in Seq(Requests)
    BY <2>1, <2>2, AppendProperties DEF TypeInv
  <2> QED
    BY <1>100, <2>1, <2>3, <2>4 DEF TypeInv, TypeOK
<1>12. CASE ImportNext
  <2>1. /\ pc = "imports" /\ pc' = "imports" /\ UNCHANGED Typed /\ ent' = 1
        /\ tab \in Sections /\ tab' = tab + 1 /\ sec' = sec
    BY <1>12 DEF ImportNext, Advance
  <2> QED
    BY <1>0, <1>100, <2>1, TypeKept
<1>13. ASSUME NEW address \in Imported \cup {0}, BindImport(address) PROVE TypeInv'
  <2>1. CASE pc' = "failed"
    BY <1>2, <1>13, <2>1 DEF BindImport, Fail
  <2>2. CASE pc' # "failed"
    <3> DEFINE r == Head(pending)
    <3>1. /\ pc = "bind" /\ pc' = "bind" /\ pending # <<>> /\ pending' = Tail(pending)
          /\ dirty' = dirty \cup {lib[r.table].info}
          /\ UNCHANGED <<lib, library, size, codeSize, base, origin, placed, sec, tab, ent>>
      BY <1>13, <2>2 DEF BindImport, Fail
    <3>2. r \in Requests /\ pending' \in Seq(Requests)
      BY <3>1, HeadTailProperties DEF TypeInv
    <3>3. r.table \in Tables
      <4> HIDE DEF r
      <4> QED
        BY <3>2 DEF Requests, Request
    <3>4. dirty' \subseteq Sections
      BY <1>0, <3>1, <3>3, TablesTyped DEF TypeInv, TypeOK
    <3>5. Sections' = Sections /\ Code' = Code /\ Requests' = Requests
      BY <3>1 DEF Sections, Code, Requests, Request, Tables
    <3> QED
      BY <3>1, <3>2, <3>4, <3>5 DEF TypeInv, TypeOK
  <2> QED
    BY <2>1, <2>2
<1>14. CASE ResolveExports
  <2>1. pc' = "flush" /\ UNCHANGED <<Typed, cursor>>
    BY <1>14 DEF ResolveExports
  <2> QED
    BY <1>0, <2>1, TypeKept
<1>15. CASE FlushCaches \/ ClearBss
  <2>1. /\ pc' \in {"clear", "loaded"} /\ dirty' \subseteq dirty \cup Bss
        /\ UNCHANGED <<lib, library, size, codeSize, base, origin, placed, pending, cursor>>
    BY <1>15 DEF FlushCaches, ClearBss
  <2>2. dirty' \subseteq Sections
    BY <1>0, <2>1 DEF TypeInv, TypeOK, Bss
  <2>3. Sections' = Sections /\ Code' = Code /\ Requests' = Requests
    BY <2>1 DEF Sections, Code, Requests, Request, Tables
  <2> QED
    BY <2>1, <2>2, <2>3 DEF TypeInv, TypeOK
<1>16. CASE UNCHANGED vars
  BY <1>0, <1>16, TypeKept DEF vars, TypeInv, TypeOK
<1> QED
  BY <1>3, <1>4, <1>5, <1>6, <1>7, <1>8, <1>9, <1>10, <1>11, <1>12, <1>13, <1>14, <1>15,
     <1>16 DEF Next

(* The loops over sections and tables stay within the library's, code_size  *)
(* is a whole number of pages, and what is copied or unflushed is a section *)
(* of the library.                                                          *)
THEOREM LoadIsTyped == Spec => []TypeOK
<1>1. TypeInv => TypeOK
  BY DEF TypeInv
<1> QED
  BY TypeInit, TypeStep, <1>1, PTL DEF Spec

-----------------------------------------------------------------------------
(* Up to init_sections the calls have their own steps; afterwards, and when *)
(* load() ends, what was placed and sized stays.                            *)
Layout == <<lib, library, size, codeSize, base, origin, placed>>

Ends   == pc' \in {"failed", "crashed"} /\ UNCHANGED Layout
GoesOn == Initialised /\ Initialised' /\ UNCHANGED Layout

LEMMA StepsAfterInit ==
  ASSUME [Next]_vars
  PROVE  \/ ParseSection \/ ParseDone \/ AllocateMemory \/ InitSection \/ InitDone
         \/ Ends \/ GoesOn \/ UNCHANGED vars
<1> USE DEF Ends, GoesOn, Layout, Initialised
<1>1. CASE ReadNullTable
  BY <1>1 DEF ReadNullTable, Crash
<1>2. CASE LinkEntry
  BY <1>2 DEF LinkEntry, Fail
<1>3. CASE LinkNext \/ ImportNext
  BY <1>3 DEF LinkNext, ImportNext, Advance
<1>4. CASE LinkDone \/ ImportsDone \/ BindDone
  BY <1>4 DEF LinkDone, ImportsDone, BindDone, Enter
<1>5. CASE AddRelocation
  BY <1>5 DEF AddRelocation
<1>6. CASE \E address \in Imported \cup {0} : BindImport(address)
  BY <1>6 DEF BindImport, Fail
<1>7. CASE ResolveExports \/ FlushCaches \/ ClearBss
  BY <1>7 DEF ResolveExports, FlushCaches, ClearBss
<1> QED
  BY <1>1, <1>2, <1>3, <1>4, <1>5, <1>6, <1>7 DEF Next

(* The sections parse_library_metadata has counted are covered by size, and *)
(* the text sections copied so far by the way the base has moved.           *)
Sized   == pc \in {"allocate", "init"} \/ Initialised
Counted == {s \in Code : Sized \/ (pc = "parse" /\ s < sec)}
Begun   == pc = "init" \/ Initialised

SizeInv ==
    /\ \A s \in Counted : lib[s].size + 1 <= size
    /\ Sized => codeSize = CodeSize(size)
    /\ Begun => library <= base
    /\ \A s \in Seen : InText(lib[s].addr) => library + lib[s].size <= base

LEMMA SeenAll ==
  ASSUME TypeInv, sec \notin Sections, NEW s \in Code
  PROVE  s < sec
<1>1. Len(lib) \in Nat /\ s \in 1..Len(lib) /\ sec \in 1..(Len(lib) + 1)
  BY LibraryTyped DEF TypeInv, TypeOK
<1> QED
  BY <1>1 DEF Sections

LEMMA SizeKept ==
  ASSUME SizeInv, UNCHANGED <<lib, library, size, codeSize, base>>,
         Counted' \subseteq Counted, Seen' \subseteq Seen,
         Sized' => Sized, Begun' => Begun
  PROVE  SizeInv'
BY DEF SizeInv, InText

LEMMA SizeStep ==
  ASSUME TypeInv, PlacementInv, SizeInv, [Next]_vars
  PROVE  SizeInv'
<1>0. /\ lib \in Libraries /\ Len(lib) \in Nat /\ sec \in Nat /\ size \in Nat
      /\ library \in Nat /\ base \in Nat
      /\ \A s \in Code : s \in Nat /\ lib[s].addr \in Nat /\ lib[s].size \in Nat
  <2>1. lib \in Libraries /\ library \in Nat
    BY AddressAssumption DEF TypeInv, TypeOK, NULL
  <2> QED
    BY <2>1, LibraryTyped DEF TypeInv, TypeOK
<1> USE DEF Sized, Begun, Initialised, Counted, Seen
<1>1. CASE Ends
  <2>1. Code' = Code
    BY <1>1 DEF Ends, Layout, Code, Sections
  <2> QED
    BY <1>1, <2>1, SizeKept DEF Ends, Layout
<1>2. CASE GoesOn
  <2>1. Code' = Code
    BY <1>2 DEF GoesOn, Layout, Code, Sections
  <2> QED
    BY <1>2, <2>1, SizeKept DEF GoesOn, Layout
<1>3. CASE UNCHANGED vars
  <2>1. Code' = Code
    BY <1>3 DEF vars, Code, Sections
  <2> QED
    BY <1>3, <2>1, SizeKept DEF vars
<1>4. CASE ParseSection
  <2>1. CASE pc' = "crashed"
    BY <1>1, <1>4, <2>1 DEF ParseSection, Crash, Ends, Layout
  <2>2. CASE pc' # "crashed"
    <3>1. /\ pc = "parse" /\ pc' = "parse" /\ sec \in Sections /\ sec' = sec + 1
          /\ size' = IF sec \in Code THEN size + lib[sec].size + 1 ELSE size
          /\ UNCHANGED <<lib, library, codeSize, base>>
      BY <1>4, <2>2 DEF ParseSection, Crash
    <3>2. Code' = Code
      BY <3>1 DEF Code, Sections
    <3>3. ASSUME NEW s \in Code, s < sec + 1 PROVE lib[s].size + 1 <= size'
      <4>1. CASE s = sec
        BY <1>0, <3>1, <3>3, <4>1
      <4>2. CASE s # sec
        <5>1. s < sec
          BY <1>0, <3>3, <4>2
        <5>2. lib[s].size + 1 <= size
          BY <3>1, <5>1 DEF SizeInv
        <5> QED
          BY <1>0, <3>1, <5>2
      <4> QED
        BY <4>1, <4>2
    <3> QED
      BY <3>1, <3>2, <3>3 DEF SizeInv
  <2> QED
    BY <2>1, <2>2
<1>5. CASE ParseDone
  <2>1. /\ pc = "parse" /\ pc' = "allocate" /\ sec \notin Sections /\ codeSize' = CodeSize(size)
        /\ UNCHANGED <<lib, library, size, base>>
    BY <1>5 DEF ParseDone
  <2>2. Code' = Code /\ CodeSize(size)' = CodeSize(size)
    BY <2>1 DEF Code, Sections, CodeSize
  <2>3. \A s \in Code : lib[s].size + 1 <= size
    BY <2>1, SeenAll DEF SizeInv
  <2> QED
    BY <2>1, <2>2, <2>3 DEF SizeInv
<1>6. CASE AllocateMemory
  <2>1. CASE pc' = "failed"
    BY <1>1, <1>6, <2>1 DEF AllocateMemory, Fail, Ends, Layout
  <2>2. CASE pc' # "failed"
    <3>1. /\ pc = "allocate" /\ pc' = "init" /\ base' = library' /\ library' \in Blocks
          /\ UNCHANGED <<lib, size, codeSize, sec>>
      BY <1>6, <2>2 DEF AllocateMemory, Fail, cursor
    <3>2. Code' = Code /\ library' \in Nat
      BY <3>1, AddressAssumption DEF Code, Sections
    <3>3. Seen' = {}
      <4>1. \A s \in Code : s \in Nat /\ s >= 1
        BY <1>0, LibraryTyped
      <4>2. sec = 1
        BY <3>1 DEF PlacementInv
      <4> QED BY <3>1, <3>2, <4>1, <4>2
    <3> QED
      BY <3>1, <3>2, <3>3 DEF SizeInv
  <2> QED
    BY <2>1, <2>2
<1>7. CASE InitSection
  <2>1. CASE pc' = "crashed"
    BY <1>1, <1>7, <2>1 DEF InitSection, Crash, Ends, Layout
  <2>2. CASE pc' # "crashed"
    <3>1. /\ pc = "init" /\ pc' = "init" /\ sec \in Sections /\ sec' = sec + 1
          /\ base' = IF sec \in Code /\ InText(lib[sec].addr) THEN base + lib[sec].size ELSE base
          /\ UNCHANGED <<lib, library, size, codeSize>>
      BY <1>7, <2>2 DEF InitSection, Crash
    <3>2. Code' = Code /\ base' \in Nat /\ base' >= base
      <4>1. Code' = Code
        BY <3>1 DEF Code, Sections
      <4> QED BY <1>0, <3>1, <4>1
    <3>3. ASSUME NEW s \in Code, s < sec + 1, InText(lib[s].addr)
          PROVE  library + lib[s].size <= base'
      <4>1. library <= base
        BY <3>1 DEF SizeInv
      <4>2. CASE s = sec
        BY <1>0, <3>1, <3>3, <4>1, <4>2
      <4>3. CASE s # sec
        <5>1. s < sec
          BY <1>0, <3>3, <4>3
        <5>2. library + lib[s].size <= base
          BY <3>1, <3>3, <5>1 DEF SizeInv
        <5> QED
          BY <1>0, <3>2, <5>2
      <4> QED
        BY <4>2, <4>3
    <3>4. library <= base' /\ \A s \in Code : lib[s].size + 1 <= size
      <4>1. library <= base
        BY <3>1 DEF SizeInv
      <4> QED BY <1>0, <3>1, <3>2, <4>1 DEF SizeInv
    <3>5. CodeSize(size)' = CodeSize(size)
      BY <3>1 DEF CodeSize
    <3> QED
      BY <3>1, <3>2, <3>3, <3>4, <3>5 DEF SizeInv, InText
  <2> QED
    BY <2>1, <2>2
<1>8. CASE InitDone
  <2>1. pc = "init" /\ pc' = "link" /\ sec \notin Sections
        /\ UNCHANGED <<lib, library, size, codeSize, base>>
    BY <1>8 DEF InitDone, Enter
  <2>2. Code' = Code /\ \A s \in Code : s < sec
    BY <2>1, SeenAll DEF Code, Sections
  <2> QED
    BY <2>1, <2>2, SizeKept
<1> QED
  BY <1>1, <1>2, <1>3, <1>4, <1>5, <1>6, <1>7, <1>8, StepsAfterInit

LEMMA LayoutInit == Init => SizeInv
<1> SUFFICES ASSUME Init PROVE SizeInv
  OBVIOUS
<1>1. pc = "parse" /\ sec = 1 /\ lib \in Libraries
  BY DEF Init
<1>2. Counted = {} /\ Seen = {} /\ ~ Sized /\ ~ Begun
  BY <1>1, LibraryTyped DEF Counted, Seen, Sized, Begun, Initialised
<1> QED
  BY <1>2 DEF SizeInv

LayoutInv == TypeInv /\ PlacementInv /\ SizeInv

LEMMA LayoutStep == LayoutInv /\ [Next]_vars => LayoutInv'
BY TypeStep, PlacementStep, SizeStep DEF LayoutInv

LEMMA LayoutHolds == Spec => []LayoutInv
<1>1. Init => LayoutInv
  BY TypeInit, PlacementInit, LayoutInit DEF LayoutInv
<1> QED
  BY <1>1, LayoutStep, PTL DEF Spec

-----------------------------------------------------------------------------
(* A placed section, once all are placed: where it came from and went. *)
LEMMA PlacedSection ==
  ASSUME LayoutInv, Initialised, NEW s \in placed
  PROVE  /\ s \in Code /\ s \in Sections /\ s \in Seen
         /\ lib[s].addr \in Nat /\ lib[s].size \in Nat /\ origin[s] \in Int
         /\ library \in Nat /\ base \in Nat /\ library <= base /\ size \in Nat
         /\ lib[s].size + 1 <= size /\ codeSize = CodeSize(size)
         /\ ~ InImports(lib[s].addr)
         /\ InText(lib[s].addr) => library + lib[s].size <= base
         /\ TextFirst => /\ InText(lib[s].addr) => origin[s] = library - TEXT
                         /\ InData(lib[s].addr) => origin[s] = base - DATA
<1>1. s \in Code /\ ~ InImports(lib[s].addr)
  BY DEF LayoutInv, PlacementInv, PlacementTyped
<1>2. s \in Sections /\ s \in Seen /\ s \in Counted /\ Sized /\ Begun
  BY <1>1 DEF Code, Seen, Counted, Sized, Begun
<1>3. lib \in Libraries /\ library \in Nat /\ base \in Nat /\ size \in Nat /\ origin[s] \in Int
  BY <1>2, AddressAssumption DEF LayoutInv, TypeInv, TypeOK, NULL
<1>4. lib[s].addr \in Nat /\ lib[s].size \in Nat
  BY <1>1, <1>3, LibraryTyped
<1>5. /\ lib[s].size + 1 <= size /\ codeSize = CodeSize(size) /\ library <= base
      /\ InText(lib[s].addr) => library + lib[s].size <= base
  BY <1>2 DEF LayoutInv, SizeInv
<1>6. TextFirst => /\ InText(lib[s].addr) => origin[s] = library - TEXT
                   /\ InData(lib[s].addr) => origin[s] = base - DATA
  BY <1>2 DEF LayoutInv, PlacementInv
<1> QED
  BY <1>1, <1>2, <1>3, <1>4, <1>5, <1>6

(* Where the copies of an ordered library are *)
LEMMA OrderedSection ==
  ASSUME LayoutInv, Initialised, Ordered, NEW s \in placed
  PROVE  \/ /\ InText(lib[s].addr) /\ lib[s].addr = TEXT /\ Dest(s) = library
         \/ InData(lib[s].addr) /\ Dest(s) = base + (lib[s].addr - DATA)
<1>1. TEXT \in Nat /\ DATA \in Nat /\ IMPORTS \in Nat
  BY AddressAssumption
<1>2. /\ s \in Code /\ lib[s].addr \in Nat /\ library \in Nat /\ base \in Nat
      /\ ~ InImports(lib[s].addr) /\ TextFirst
      /\ InText(lib[s].addr) => origin[s] = library - TEXT
      /\ InData(lib[s].addr) => origin[s] = base - DATA
  BY PlacedSection DEF Ordered
<1>3. lib[s].addr >= TEXT /\ (InText(lib[s].addr) => lib[s].addr = TEXT)
  BY <1>2 DEF Ordered
<1>4. CASE InText(lib[s].addr)
  BY <1>1, <1>2, <1>3, <1>4 DEF Dest
<1>5. CASE ~ InText(lib[s].addr)
  <2>1. InData(lib[s].addr)
    BY <1>1, <1>2, <1>3, <1>5 DEF InText, InData, InImports
  <2> QED
    BY <1>1, <1>2, <2>1 DEF Dest
<1> QED
  BY <1>4, <1>5

LEMMA OrderedApart ==
  ASSUME LayoutInv, Initialised, Ordered, NEW s \in placed, NEW t \in placed, s # t
  PROVE  Disjoint(Dest(s), lib[s].size, Dest(t), lib[t].size)
<1>1. /\ s \in Code /\ lib[s].addr \in Nat /\ lib[s].size \in Nat
      /\ library \in Nat /\ base \in Nat
      /\ InText(lib[s].addr) => library + lib[s].size <= base
  BY PlacedSection
<1>2. /\ t \in Code /\ lib[t].addr \in Nat /\ lib[t].size \in Nat
      /\ InText(lib[t].addr) => library + lib[t].size <= base
  BY PlacedSection
<1>3. Disjoint(lib[s].addr, lib[s].size, lib[t].addr, lib[t].size)
  BY <1>1, <1>2 DEF Ordered, Parted
<1>4. DATA \in Nat
  BY AddressAssumption
<1>5. CASE InText(lib[s].addr) /\ InText(lib[t].addr)
  <2>1. lib[s].addr = TEXT /\ lib[t].addr = TEXT /\ Dest(s) = library /\ Dest(t) = library
    <3>1. lib[s].addr = TEXT /\ lib[t].addr = TEXT
      BY <1>1, <1>2, <1>5 DEF Ordered
    <3>2. DATA > TEXT /\ TEXT \in Nat /\ DATA \in Nat
      BY AddressAssumption
    <3>3. ~ InData(lib[s].addr) /\ ~ InData(lib[t].addr)
      BY <3>1, <3>2 DEF InData
    <3> QED
      BY <3>1, <3>3, OrderedSection
  <2>2. TEXT \in Nat
    BY AddressAssumption
  <2> QED
    BY <1>1, <1>2, <1>3, <2>1, <2>2 DEF Disjoint
<1>6. CASE ~ InText(lib[s].addr) /\ ~ InText(lib[t].addr)
  <2>1. Dest(s) = base + (lib[s].addr - DATA) /\ Dest(t) = base + (lib[t].addr - DATA)
    BY <1>6, OrderedSection
  <2> QED
    BY <1>1, <1>2, <1>3, <1>4, <2>1 DEF Disjoint
<1>7. CASE InText(lib[s].addr) /\ ~ InText(lib[t].addr)
  <2>1. /\ InData(lib[t].addr) /\ Dest(t) = base + (lib[t].addr - DATA)
    BY <1>7, OrderedSection
  <2>2. Dest(s) = library
    <3>1. ~ InData(lib[s].addr)
      BY <1>1, <1>7, AddressAssumption DEF InText, InData
    <3> QED BY <3>1, OrderedSection
  <2> QED
    BY <1>1, <1>2, <1>4, <1>7, <2>1, <2>2 DEF Disjoint, InData
<1>8. CASE ~ InText(lib[s].addr) /\ InText(lib[t].addr)
  <2>1. /\ InData(lib[s].addr) /\ Dest(s) = base + (lib[s].addr - DATA)
    BY <1>8, OrderedSection
  <2>2. Dest(t) = library
    <3>1. ~ InData(lib[t].addr)
      BY <1>2, <1>8, AddressAssumption DEF InText, InData
    <3> QED BY <3>1, OrderedSection
  <2> QED
    BY <1>1, <1>2, <1>4, <1>8, <2>1, <2>2 DEF Disjoint, InData
<1> QED
  BY <1>5, <1>6, <1>7, <1>8

-----------------------------------------------------------------------------
(* The end of a data section, from the start of the data                    *)
DataEnd(s) == (lib[s].addr - DATA) + lib[s].size

(* What was counted up to a data section covers the text and the data up to *)
(* its end; and the base moves by no more than the one text section.        *)
Covered(s) ==
    /\ DataEnd(s) + 1 <= size
    /\ \A t \in Code : InText(lib[t].addr) => lib[t].size + DataEnd(s) + 1 <= size

OneText == base = library \/ \E t \in Seen : InText(lib[t].addr) /\ base = library + lib[t].size

TightInv == Tight =>
    /\ \A s \in Counted : InData(lib[s].addr) => Covered(s)
    /\ Begun => OneText

LEMMA SameTight ==
  ASSUME UNCHANGED lib
  PROVE  Code' = Code /\ Tight' = Tight /\ \A s : DataEnd(s)' = DataEnd(s)
BY DEF Code, Sections, Tight, Ordered, TextFirst, Parted, Follows, InText, InData, DataEnd, Disjoint

LEMMA TightKept ==
  ASSUME TightInv, UNCHANGED <<lib, library, size, base>>,
         Counted' \subseteq Counted, Begun' => Begun /\ Seen \subseteq Seen'
  PROVE  TightInv'
<1>1. Code' = Code /\ Tight' = Tight /\ \A s : DataEnd(s)' = DataEnd(s)
  BY SameTight
<1>2. \A s : Covered(s)' = Covered(s)
  BY <1>1 DEF Covered, InText
<1>3. ASSUME Begun', OneText PROVE OneText'
  BY <1>3 DEF OneText, InText
<1> QED
  BY <1>1, <1>2, <1>3 DEF TightInv, InData

LEMMA TightStep ==
  ASSUME TypeInv, PlacementInv, SizeInv, TightInv, [Next]_vars
  PROVE  TightInv'
<1>0. /\ lib \in Libraries /\ Len(lib) \in Nat /\ sec \in Nat /\ size \in Nat
      /\ library \in Nat /\ base \in Nat /\ TEXT \in Nat /\ DATA \in Nat
      /\ \A s \in Code : s \in Nat /\ lib[s].addr \in Nat /\ lib[s].size \in Nat
  <2>1. lib \in Libraries /\ library \in Nat
    BY AddressAssumption DEF TypeInv, TypeOK, NULL
  <2> QED
    BY <2>1, LibraryTyped, AddressAssumption DEF TypeInv, TypeOK
<1>1. CASE Ends
  <2>1. Code' = Code
    BY <1>1 DEF Ends, Layout, Code, Sections
  <2>2. Counted' \subseteq Counted /\ (Begun' => Begun /\ Seen \subseteq Seen')
    BY <1>1, <2>1 DEF Ends, Layout, Counted, Sized, Begun, Initialised, Seen
  <2> QED
    BY <1>1, <2>2, TightKept DEF Ends, Layout
<1>2. CASE GoesOn
  <2>1. Code' = Code
    BY <1>2 DEF GoesOn, Layout, Code, Sections
  <2>2. Counted' \subseteq Counted /\ (Begun' => Begun /\ Seen \subseteq Seen')
    BY <1>2, <2>1 DEF GoesOn, Layout, Counted, Sized, Begun, Initialised, Seen
  <2> QED
    BY <1>2, <2>2, TightKept DEF GoesOn, Layout
<1>3. CASE UNCHANGED vars
  <2>1. Code' = Code
    BY <1>3 DEF vars, Code, Sections
  <2>2. Counted' \subseteq Counted /\ (Begun' => Begun /\ Seen \subseteq Seen')
    BY <1>3, <2>1 DEF vars, cursor, Counted, Sized, Begun, Initialised, Seen
  <2> QED
    BY <1>3, <2>2, TightKept DEF vars
<1>4. CASE ParseSection
  <2>1. CASE pc' = "crashed"
    BY <1>1, <1>4, <2>1 DEF ParseSection, Crash, Ends, Layout
  <2>2. CASE pc' # "crashed"
    <3>1. /\ pc = "parse" /\ pc' = "parse" /\ sec \in Sections /\ sec' = sec + 1
          /\ size' = IF sec \in Code THEN size + lib[sec].size + 1 ELSE size
          /\ UNCHANGED <<lib, library, codeSize, base>>
      BY <1>4, <2>2 DEF ParseSection, Crash
    <3>2. Code' = Code /\ Tight' = Tight /\ \A s : DataEnd(s)' = DataEnd(s)
      BY <3>1, SameTight
    <3>3. ~ Begun' /\ Counted = {s \in Code : s < sec} /\ Counted' = {s \in Code : s < sec + 1}
      BY <3>1, <3>2 DEF Counted, Begun, Sized, Initialised
    <3>4. size' \in Nat /\ size' >= size
      BY <1>0, <3>1
    <3>5. ASSUME Tight, NEW s \in Code, s < sec, InData(lib[s].addr) PROVE Covered(s)'
      <4>1. Covered(s)
        BY <3>3, <3>5 DEF TightInv
      <4>2. DataEnd(s) \in Int
        BY <1>0 DEF DataEnd
      <4>3. DataEnd(s) + 1 <= size' /\ DataEnd(s)' = DataEnd(s)
        BY <1>0, <3>2, <3>4, <4>1, <4>2 DEF Covered
      <4>4. ASSUME NEW t \in Code, InText(lib[t].addr) PROVE lib[t].size + DataEnd(s) + 1 <= size'
        <5>1. lib[t].size + DataEnd(s) + 1 <= size /\ lib[t].size \in Nat
          BY <1>0, <4>1, <4>4 DEF Covered
        <5> QED BY <1>0, <3>4, <4>2, <5>1
      <4> QED
        BY <3>1, <3>2, <4>3, <4>4 DEF Covered, InText
    <3>6. ASSUME Tight, NEW n \in Code, n = sec, InData(lib[n].addr) PROVE Covered(n)'
      <4>1. /\ lib[n].addr \in Nat /\ DATA <= lib[n].addr /\ lib[n].size \in Nat
            /\ size' = size + lib[n].size + 1
        BY <1>0, <3>1, <3>6 DEF InData
      <4>2. \A t \in Code : InText(lib[t].addr) => lib[t].size <= size
        <5> SUFFICES ASSUME NEW t \in Code, InText(lib[t].addr), lib[t].size > 0
                     PROVE  lib[t].size <= size
          BY <1>0
        <5>1. t # n
          BY <1>0, <3>6 DEF InText, InData
        <5>2. t < n
          BY <3>6, <5>1 DEF Tight, Ordered, TextFirst
        <5>3. lib[t].size + 1 <= size
          BY <3>3, <3>6, <5>2 DEF SizeInv
        <5> QED BY <1>0, <5>3
      <4>3. CASE lib[n].addr = DATA
        <5>1. DataEnd(n) = lib[n].size
          BY <1>0, <4>1, <4>3 DEF DataEnd
        <5>2. DataEnd(n) + 1 <= size' /\ DataEnd(n)' = DataEnd(n)
          BY <1>0, <3>2, <4>1, <5>1
        <5>3. ASSUME NEW t \in Code, InText(lib[t].addr) PROVE lib[t].size + DataEnd(n) + 1 <= size'
          BY <1>0, <4>1, <4>2, <5>1, <5>3
        <5> QED
          BY <3>1, <3>2, <5>2, <5>3 DEF Covered, InText
      <4>4. CASE \E p \in Code : Follows(n, p)
        <5>1. PICK p \in Code : Follows(n, p)
          BY <4>4
        <5>2. /\ Covered(p) /\ lib[p].addr \in Nat /\ lib[p].size \in Nat
              /\ lib[n].addr <= lib[p].addr + lib[p].size + 1
              /\ DATA \in Nat
          BY <1>0, <3>3, <3>6, <5>1 DEF Follows, TightInv
        <5>3. DataEnd(p) \in Int /\ DataEnd(n) \in Int
              /\ DataEnd(n) <= DataEnd(p) + 1 + lib[n].size
          BY <4>1, <5>2 DEF DataEnd
        <5>4. DataEnd(n) + 1 <= size'
          BY <1>0, <4>1, <5>2, <5>3 DEF Covered
        <5>5. ASSUME NEW t \in Code, InText(lib[t].addr)
              PROVE  lib[t].size + DataEnd(n) + 1 <= size'
          <6>1. lib[t].size + DataEnd(p) + 1 <= size
            BY <5>2, <5>5 DEF Covered
          <6>2. lib[t].size \in Nat /\ size \in Nat
            BY <1>0
          <6> QED
            BY <4>1, <5>3, <6>1, <6>2
        <5> QED
          BY <3>1, <3>2, <5>4, <5>5 DEF Covered, InText
      <4> QED
        BY <3>6, <4>3, <4>4 DEF Tight
    <3>7. ASSUME Tight, NEW s \in Counted', InData(lib[s].addr) PROVE Covered(s)'
      <4>1. s \in Code /\ s < sec + 1 /\ s \in Nat
        BY <1>0, <3>3, <3>7
      <4>2. s < sec \/ s = sec
        BY <1>0, <4>1
      <4> QED
        BY <3>5, <3>6, <3>7, <4>1, <4>2
    <3> QED
      BY <3>1, <3>2, <3>3, <3>7 DEF TightInv, InData
  <2> QED
    BY <2>1, <2>2
<1>5. CASE ParseDone
  <2>1. /\ pc = "parse" /\ pc' = "allocate" /\ sec \notin Sections
        /\ UNCHANGED <<lib, library, size, base>>
    BY <1>5 DEF ParseDone
  <2>2. Code' = Code /\ \A s \in Code : s < sec
    BY <2>1, SeenAll DEF Code, Sections
  <2>3. Counted' \subseteq Counted /\ ~ Begun'
    BY <2>1, <2>2 DEF Counted, Sized, Begun, Initialised
  <2>4. Tight' = Tight /\ \A s : Covered(s)' = Covered(s)
    BY <2>1, SameTight DEF Covered, InText
  <2> QED
    BY <2>1, <2>3, <2>4 DEF TightInv, InData
<1>6. CASE AllocateMemory
  <2>1. CASE pc' = "failed"
    BY <1>1, <1>6, <2>1 DEF AllocateMemory, Fail, Ends, Layout
  <2>2. CASE pc' # "failed"
    <3>1. /\ pc = "allocate" /\ pc' = "init" /\ base' = library' /\ UNCHANGED <<lib, size, sec>>
      BY <1>6, <2>2 DEF AllocateMemory, Fail, cursor
    <3>2. OneText'
      BY <3>1 DEF OneText
    <3>3. Code' = Code /\ Tight' = Tight /\ \A s : Covered(s)' = Covered(s)
      BY <3>1, SameTight DEF Covered, InText
    <3>4. Counted' \subseteq Counted
      BY <3>1, <3>3 DEF Counted, Sized, Initialised
    <3> QED
      BY <3>1, <3>2, <3>3, <3>4 DEF TightInv, InData
  <2> QED
    BY <2>1, <2>2
<1>7. CASE InitSection
  <2>1. CASE pc' = "crashed"
    BY <1>1, <1>7, <2>1 DEF InitSection, Crash, Ends, Layout
  <2>2. CASE pc' # "crashed"
    <3>1. /\ pc = "init" /\ pc' = "init" /\ sec \in Sections /\ sec' = sec + 1
          /\ base' = IF sec \in Code /\ InText(lib[sec].addr) THEN base + lib[sec].size ELSE base
          /\ UNCHANGED <<lib, library, size>>
      BY <1>7, <2>2 DEF InitSection, Crash
    <3>2. Code' = Code /\ Tight' = Tight /\ \A s : Covered(s)' = Covered(s)
      BY <3>1, SameTight DEF Covered, InText
    <3>3. Counted' = Counted /\ Begun /\ Seen' = {s \in Code : s < sec + 1} /\ Seen = {s \in Code : s < sec}
      BY <3>1, <3>2 DEF Counted, Sized, Begun, Initialised, Seen
    <3>4. ASSUME Tight PROVE OneText'
      <4>1. OneText /\ Seen \subseteq Seen'
        BY <1>0, <3>3, <3>4 DEF TightInv
      <4>2. CASE base' = base
        BY <3>1, <4>1, <4>2 DEF OneText, InText
      <4>3. CASE base' # base
        <5>1. sec \in Code /\ InText(lib[sec].addr) /\ base' = base + lib[sec].size /\ lib[sec].size > 0
          BY <1>0, <3>1, <4>3
        <5>2. ASSUME NEW t \in Seen, InText(lib[t].addr) PROVE FALSE
          <6>1. t \in Code /\ t # sec
            BY <1>0, <3>3, <5>2
          <6> QED
            BY <3>4, <5>1, <5>2, <6>1 DEF Tight, Ordered, TextFirst
        <5>3. base' = library' + lib'[sec].size /\ sec \in Seen'
          BY <1>0, <3>1, <3>3, <4>1, <5>1, <5>2 DEF OneText
        <5> QED
          BY <3>1, <5>1, <5>3 DEF OneText, InText
      <4> QED
        BY <4>2, <4>3
    <3> QED
      BY <3>1, <3>2, <3>3, <3>4 DEF TightInv, InData
  <2> QED
    BY <2>1, <2>2
<1>8. CASE InitDone
  <2>1. pc = "init" /\ pc' = "link" /\ sec \notin Sections
        /\ UNCHANGED <<lib, library, size, codeSize, base>>
    BY <1>8 DEF InitDone, Enter
  <2>2. Code' = Code /\ \A s \in Code : s < sec
    BY <2>1, SeenAll DEF Code, Sections
  <2>3. Counted' \subseteq Counted /\ Begun /\ Seen \subseteq Seen'
    BY <2>1, <2>2 DEF Counted, Sized, Begun, Initialised, Seen
  <2> QED
    BY <2>1, <2>3, TightKept
<1> QED
  BY <1>1, <1>2, <1>3, <1>4, <1>5, <1>6, <1>7, <1>8, StepsAfterInit

LEMMA TightInit == Init => TightInv
<1> SUFFICES ASSUME Init PROVE TightInv
  OBVIOUS
<1>1. pc = "parse" /\ sec = 1 /\ lib \in Libraries
  BY DEF Init
<1>2. Counted = {} /\ ~ Begun
  BY <1>1, LibraryTyped DEF Counted, Sized, Begun, Initialised
<1> QED
  BY <1>2 DEF TightInv

(* The sizes counted do not exceed the address space, so code_size is not   *)
(* cut: what the data sections counted take ends before the next one, and   *)
(* only one text section takes anything.                                    *)
TextRoom ==
    IF \E t \in Counted : InText(lib[t].addr) /\ lib[t].size > 0 THEN DATA - TEXT ELSE 0

RoomInv == Ordered =>
    /\ Sized => size <= (IMPORTS - TEXT) + Len(lib)
    /\ pc = "parse" =>
          /\ size <= TextRoom + (IMPORTS - DATA) + (sec - 1)
          /\ \A s \in Code : InData(lib[s].addr) /\ sec <= s =>
                size <= TextRoom + (lib[s].addr - DATA) + (sec - 1)

LEMMA SameOrder ==
  ASSUME UNCHANGED lib
  PROVE  Code' = Code /\ Ordered' = Ordered
BY DEF Code, Sections, Ordered, TextFirst, Parted, InText, InData, Disjoint

LEMMA RoomKept ==
  ASSUME RoomInv, UNCHANGED <<lib, size>>, pc' # "parse", Sized' => Sized
  PROVE  RoomInv'
BY SameOrder DEF RoomInv

(* One section of parse_library_metadata *)
LEMMA RoomGrows ==
  ASSUME TypeInv, RoomInv, ParseSection, pc' # "crashed"
  PROVE  RoomInv'
<1>1. /\ pc = "parse" /\ pc' = "parse" /\ sec \in Sections /\ sec' = sec + 1
      /\ size' = IF sec \in Code THEN size + lib[sec].size + 1 ELSE size
      /\ lib' = lib
  BY DEF ParseSection, Crash
<1>2. /\ lib \in Libraries /\ sec \in Nat /\ size \in Nat
      /\ TEXT \in Nat /\ DATA \in Nat /\ IMPORTS \in Nat /\ TEXT < DATA /\ DATA < IMPORTS
      /\ \A s \in Code : s \in Nat /\ lib[s].addr \in Nat /\ lib[s].size \in Nat
  <2>1. lib \in Libraries /\ sec \in 1..(Len(lib) + 1) /\ size \in Nat
    BY DEF TypeInv, TypeOK
  <2> QED
    BY <2>1, LibraryTyped, AddressAssumption
<1>3. Code' = Code /\ Ordered' = Ordered
  BY <1>1, SameOrder
<1>4. Counted = {s \in Code : s < sec} /\ Counted' = {s \in Code : s < sec + 1} /\ ~ Sized'
  BY <1>1, <1>3 DEF Counted, Sized, Initialised
<1> DEFINE room == TextRoom
           after == TextRoom'
<1>5. room \in {0, DATA - TEXT} /\ after \in {0, DATA - TEXT} /\ room <= after
  <2>1. \A t \in Counted : t \in Counted'
    BY <1>2, <1>4
  <2> QED
    BY <1>1, <1>2, <2>1 DEF TextRoom, InText
<1> SUFFICES ASSUME Ordered
             PROVE  /\ size' <= after + (IMPORTS - DATA) + sec
                    /\ \A s \in Code : InData(lib[s].addr) /\ sec + 1 <= s =>
                          size' <= after + (lib[s].addr - DATA) + sec
  <2>1. (sec + 1) - 1 = sec
    BY <1>2
  <2> HIDE DEF after
  <2> QED
    BY <1>1, <1>3, <1>4, <2>1 DEF RoomInv, InData, after
<1>6. /\ size <= room + (IMPORTS - DATA) + (sec - 1)
      /\ \A s \in Code : InData(lib[s].addr) /\ sec <= s =>
            size <= room + (lib[s].addr - DATA) + (sec - 1)
  BY <1>1 DEF RoomInv
<1> HIDE DEF room, after
<1>7. CASE size' <= size + 1
  BY <1>1, <1>2, <1>5, <1>6, <1>7
<1>8. CASE sec \in Code /\ InText(lib[sec].addr) /\ lib[sec].size > 0
  <2>1. room = 0
    <3> SUFFICES ASSUME NEW t \in Counted, InText(lib[t].addr), lib[t].size > 0 PROVE FALSE
      BY DEF room, TextRoom
    <3>1. t \in Code /\ t # sec
      BY <1>2, <1>4
    <3> QED
      BY <1>8, <3>1 DEF Ordered, TextFirst
  <2>2. after = DATA - TEXT
    BY <1>1, <1>2, <1>4, <1>8 DEF after, TextRoom, InText
  <2>3. lib[sec].size <= DATA - TEXT
    BY <1>2, <1>8 DEF Ordered, Parted, InText
  <2> QED
    BY <1>1, <1>2, <1>6, <1>8, <2>1, <2>2, <2>3
<1>9. CASE sec \in Code /\ InData(lib[sec].addr)
  <2>1. size <= room + (lib[sec].addr - DATA) + (sec - 1)
    BY <1>2, <1>6, <1>9
  <2>2. lib[sec].addr + lib[sec].size <= IMPORTS
    BY <1>2, <1>9 DEF Ordered, Parted, InData
  <2>3. ASSUME NEW s \in Code, InData(lib[s].addr), sec + 1 <= s
        PROVE  lib[sec].addr + lib[sec].size <= lib[s].addr
    BY <1>2, <1>9, <2>3 DEF Ordered
  <2> QED
    BY <1>1, <1>2, <1>5, <1>9, <2>1, <2>2, <2>3
<1> QED
  <2>1. sec \in Code => InText(lib[sec].addr) \/ InData(lib[sec].addr)
    BY <1>2 DEF Ordered, InText, InData
  <2> QED
    BY <1>1, <1>2, <1>7, <1>8, <1>9, <2>1

LEMMA RoomStep ==
  ASSUME TypeInv, RoomInv, [Next]_vars
  PROVE  RoomInv'
<1> USE DEF Sized, Initialised
<1>1. CASE Ends
  BY <1>1, RoomKept DEF Ends, Layout
<1>2. CASE GoesOn
  BY <1>2, RoomKept DEF GoesOn, Layout
<1>3. CASE UNCHANGED vars
  <2>1. /\ Ordered' = Ordered /\ Code' = Code
        /\ UNCHANGED <<lib, pc, size, sec>>
    BY <1>3, SameOrder DEF vars, cursor
  <2>2. TextRoom' = TextRoom
    BY <2>1 DEF TextRoom, Counted, InText
  <2> QED
    BY <2>1, <2>2 DEF RoomInv, InData
<1>4. CASE ParseSection
  BY <1>1, <1>4, RoomGrows DEF ParseSection, Crash, Ends, Layout
<1>5. CASE ParseDone
  <2>1. /\ pc = "parse" /\ pc' = "allocate" /\ sec \notin Sections /\ UNCHANGED <<lib, size>>
    BY <1>5 DEF ParseDone
  <2>2. /\ Len(lib) \in Nat /\ sec \in 1..(Len(lib) + 1) /\ size \in Nat
        /\ TEXT \in Nat /\ DATA \in Nat /\ IMPORTS \in Nat /\ TEXT < DATA
    BY LibraryAssumption, AddressAssumption DEF TypeInv, TypeOK
  <2>3. Ordered => size <= TextRoom + (IMPORTS - DATA) + (sec - 1)
    BY <2>1 DEF RoomInv
  <2>4. TextRoom \in {0, DATA - TEXT}
    BY DEF TextRoom
  <2>5. Ordered => size <= (IMPORTS - TEXT) + Len(lib)
    BY <2>2, <2>3, <2>4
  <2> QED
    BY <2>1, <2>5, SameOrder DEF RoomInv
<1>6. CASE AllocateMemory
  <2>1. pc' # "parse" /\ UNCHANGED <<lib, size>> /\ Sized
    BY <1>6 DEF AllocateMemory, Fail
  <2> QED
    BY <2>1, RoomKept
<1>7. CASE InitSection
  <2>1. pc' # "parse" /\ UNCHANGED <<lib, size>> /\ Sized
    BY <1>7 DEF InitSection, Crash
  <2> QED
    BY <2>1, RoomKept
<1>8. CASE InitDone
  <2>1. pc' # "parse" /\ UNCHANGED <<lib, size>> /\ Sized
    BY <1>8 DEF InitDone, Enter
  <2> QED
    BY <2>1, RoomKept
<1> QED
  BY <1>1, <1>2, <1>3, <1>4, <1>5, <1>6, <1>7, <1>8, StepsAfterInit

LEMMA RoomInit == Init => RoomInv
<1> SUFFICES ASSUME Init PROVE RoomInv
  OBVIOUS
<1>1. pc = "parse" /\ sec = 1 /\ size = 0 /\ lib \in Libraries /\ ~ Sized
  BY DEF Init, Sized, Initialised
<1>2. /\ TEXT \in Nat /\ DATA \in Nat /\ IMPORTS \in Nat /\ TEXT < DATA /\ DATA < IMPORTS
      /\ \A s \in Code : lib[s].addr \in Nat
  BY <1>1, LibraryTyped, AddressAssumption
<1>3. TextRoom \in {0, DATA - TEXT}
  BY DEF TextRoom
<1> QED
  BY <1>1, <1>2, <1>3 DEF RoomInv, InData

PackInv == LayoutInv /\ TightInv /\ RoomInv

LEMMA PackHolds == Spec => []PackInv
<1>1. PackInv /\ [Next]_vars => PackInv'
  BY LayoutStep, TightStep, RoomStep DEF PackInv, LayoutInv
<1>2. Init => PackInv
  BY TypeInit, PlacementInit, LayoutInit, TightInit, RoomInit DEF PackInv, LayoutInv
<1> QED
  BY <1>1, <1>2, PTL DEF Spec

(* The block has a byte more than was counted. *)
LEMMA BlockCovers ==
  ASSUME PackInv, Initialised, Ordered
  PROVE  codeSize \in Nat /\ size + 1 <= codeSize
<1>1. /\ size \in Nat /\ codeSize = CodeSize(size) /\ size <= (IMPORTS - TEXT) + Len(lib)
      /\ lib \in Libraries
  BY DEF PackInv, LayoutInv, TypeInv, TypeOK, SizeInv, RoomInv, Sized
<1>2. /\ (IMPORTS - TEXT) + Len(lib) + PAGE < WORD /\ Len(lib) \in Nat
      /\ TEXT \in Nat /\ IMPORTS \in Nat /\ PAGE \in Nat /\ WORD \in Nat
  BY <1>1, LibraryAssumption, AddressAssumption, WidthAssumption
<1>3. size + PAGE < WORD
  BY <1>1, <1>2
<1> QED
  BY <1>1, <1>3, CodeSizeTyped

LEMMA TextInBlock ==
  ASSUME PackInv, Initialised, Ordered, NEW s \in placed, InText(lib[s].addr)
  PROVE  InBlock(s)
<1>1. /\ lib[s].addr \in Nat /\ lib[s].size \in Nat /\ library \in Nat /\ size \in Nat
      /\ lib[s].size + 1 <= size
  BY PlacedSection DEF PackInv
<1>2. codeSize \in Nat /\ size + 1 <= codeSize
  BY BlockCovers
<1>3. Dest(s) = library
  <2>1. ~ InData(lib[s].addr)
    BY <1>1, AddressAssumption DEF InText, InData
  <2> QED
    BY <2>1, OrderedSection DEF PackInv
<1> QED
  BY <1>1, <1>2, <1>3 DEF InBlock

LEMMA TightInBlock ==
  ASSUME PackInv, Initialised, Tight, NEW s \in placed
  PROVE  InBlock(s)
<1>1. /\ s \in Code /\ lib[s].addr \in Nat /\ lib[s].size \in Nat /\ s \in Counted
      /\ library \in Nat /\ base \in Nat /\ library <= base /\ size \in Nat
      /\ DATA \in Nat /\ Ordered
  BY PlacedSection, AddressAssumption DEF PackInv, Tight, Counted, Sized
<1>2. codeSize \in Nat /\ size + 1 <= codeSize
  BY <1>1, BlockCovers
<1>3. CASE InText(lib[s].addr)
  BY <1>1, <1>3, TextInBlock
<1>4. CASE ~ InText(lib[s].addr)
  <2>1. InData(lib[s].addr) /\ Dest(s) = base + (lib[s].addr - DATA)
    BY <1>1, <1>4, OrderedSection DEF PackInv
  <2>2. Covered(s) /\ OneText
    BY <1>1, <2>1 DEF PackInv, TightInv, Begun
  <2>3. /\ base = library \/ \E t \in Code : InText(lib[t].addr) /\ base = library + lib[t].size
        /\ \A t \in Code : lib[t].size \in Nat
    BY <2>2, LibraryTyped DEF OneText, Seen, PackInv, LayoutInv, TypeInv, TypeOK
  <2>4. /\ DataEnd(s) = (lib[s].addr - DATA) + lib[s].size /\ DATA <= lib[s].addr
        /\ DataEnd(s) + 1 <= size
        /\ \A t \in Code : InText(lib[t].addr) => lib[t].size + DataEnd(s) + 1 <= size
    BY <2>1, <2>2 DEF DataEnd, InData, Covered
  <2>5. CASE base = library
    BY <1>1, <1>2, <2>1, <2>4, <2>5 DEF InBlock
  <2>6. ASSUME NEW t \in Code, InText(lib[t].addr), base = library + lib[t].size
        PROVE  InBlock(s)
    <3>1. lib[t].size + DataEnd(s) + 1 <= size /\ lib[t].size \in Nat
      BY <2>3, <2>4, <2>6
    <3> QED
      BY <1>1, <1>2, <2>1, <2>4, <2>6, <3>1 DEF InBlock
  <2> QED
    BY <2>3, <2>5, <2>6
<1> QED
  BY <1>3, <1>4

(* Whatever the gaps between the data sections of an ordered library, no    *)
(* copy overwrites another and the text stays in the block code_size asked  *)
(* for; with gaps of a byte at most, all of it does (Loader.cpp:68-95).     *)
THEOREM CopiesStayApart == Spec => []SectionsApart
<1>1. PackInv => SectionsApart
  BY OrderedApart, TextInBlock, TightInBlock DEF SectionsApart, PackInv
<1> QED
  BY PackHolds, <1>1, PTL

(* What the caches may still hold after the flush, besides the bss: what    *)
(* was written to a copy outside of the block.                              *)
CacheInv == pc \in {"clear", "loaded"} =>
    \A s \in dirty \cap placed : ~ InBlock(s) \/ (pc = "loaded" /\ lib[s].kind = "nobits")

LEMMA CacheStep ==
  ASSUME LayoutInv, CacheInv, [Next]_vars
  PROVE  CacheInv'
<1>1. CASE pc' \notin {"clear", "loaded"}
  BY <1>1 DEF CacheInv
<1>2. CASE FlushCaches
  <2>1. /\ dirty' = {s \in dirty : ~ InBlock(s)} /\ UNCHANGED Layout
    BY <1>2 DEF FlushCaches, Layout
  <2>2. \A s : InBlock(s)' = InBlock(s)
    BY <2>1 DEF InBlock, Dest, Layout
  <2> QED
    BY <2>1, <2>2 DEF CacheInv
<1>3. CASE ClearBss
  <2>1. /\ pc = "clear" /\ pc' = "loaded" /\ dirty' = dirty \cup Bss /\ UNCHANGED Layout
    BY <1>3 DEF ClearBss, Layout
  <2>2. /\ \A s : InBlock(s)' = InBlock(s)
        /\ placed' = placed /\ lib' = lib
    BY <2>1 DEF InBlock, Dest, Layout
  <2> QED
    BY <2>1, <2>2 DEF CacheInv, Bss
<1>4. CASE UNCHANGED vars
  <2>1. /\ \A s : InBlock(s)' = InBlock(s)
        /\ UNCHANGED <<pc, lib, placed, dirty>>
    BY <1>4 DEF vars, InBlock, Dest
  <2> QED
    BY <2>1 DEF CacheInv
<1>5. CASE pc' \in {"clear", "loaded"} /\ ~ UNCHANGED vars
  <2>1. FlushCaches \/ ClearBss
    BY <1>5 DEF Next, ParseSection, ParseDone, AllocateMemory, InitSection, InitDone,
                ReadNullTable, LinkEntry, LinkNext, LinkDone, AddRelocation, ImportNext,
                ImportsDone, BindImport, BindDone, ResolveExports, Crash, Fail, Enter, Advance
  <2> QED
    BY <1>2, <1>3, <2>1
<1> QED
  BY <1>1, <1>4, <1>5

(* When an ordered library has loaded, its text is as the instruction cache *)
(* may hold it; when a tight one has, everything is but the cleared bss.    *)
THEOREM CodeStaysCoherent == Spec => []CodeCoherent
<1>1. Init => CacheInv
  BY DEF Init, CacheInv
<1>2. PackInv /\ CacheInv => CodeCoherent
  <2> SUFFICES ASSUME PackInv, CacheInv, pc = "loaded",
                      NEW s \in dirty \cap placed, lib[s].kind # "nobits"
               PROVE  ~ Tight /\ (Ordered => ~ InText(lib[s].addr))
    BY DEF CodeCoherent
  <2>1. Initialised /\ ~ InBlock(s)
    BY DEF Initialised, CacheInv
  <2> QED
    BY <2>1, TextInBlock, TightInBlock
<1>3. PackInv /\ CacheInv /\ [Next]_vars => CacheInv'
  BY CacheStep DEF PackInv
<1> QED
  BY PackHolds, <1>1, <1>2, <1>3, PTL DEF Spec

-----------------------------------------------------------------------------
(* The image of an address is where any section that holds it went, and     *)
(* where a symbol with that address is taken to be.                         *)
LEMMA OneHolder ==
  ASSUME LayoutInv, Initialised, Parted, NEW a \in Nat,
         NEW s \in placed, NEW t \in placed, Holds(s, a), Holds(t, a)
  PROVE  s = t
<1>1. /\ s \in Code /\ lib[s].addr \in Nat /\ lib[s].size \in Nat
      /\ t \in Code /\ lib[t].addr \in Nat /\ lib[t].size \in Nat
  BY PlacedSection
<1>2. s # t => Disjoint(lib[s].addr, lib[s].size, lib[t].addr, lib[t].size)
  BY <1>1 DEF Parted
<1> QED
  BY <1>1, <1>2 DEF Disjoint, Holds

LEMMA ImageOf ==
  ASSUME LayoutInv, Initialised, Parted, NEW a \in Nat, NEW s \in placed, Holds(s, a)
  PROVE  /\ Image(a) = origin[s] + a
         /\ TextFirst /\ a >= TEXT => Image(a) = Rebase(a)
         /\ TextFirst /\ InText(a) => Image(a) = library + (a - TEXT)
<1> DEFINE t == CHOOSE u \in placed : Holds(u, a)
<1>1. t \in placed /\ Holds(t, a)
  OBVIOUS
<1>2. Image(a) = Dest(t) + (a - lib[t].addr)
  BY DEF Image
<1>3. t = s
  <2> HIDE DEF t
  <2> QED BY <1>1, OneHolder
<1> HIDE DEF t
<1>4. /\ s \in Code /\ lib[s].addr \in Nat /\ lib[s].size \in Nat /\ origin[s] \in Int
      /\ library \in Nat /\ base \in Nat /\ ~ InImports(lib[s].addr)
      /\ TextFirst => /\ InText(lib[s].addr) => origin[s] = library - TEXT
                      /\ InData(lib[s].addr) => origin[s] = base - DATA
  BY PlacedSection
<1>5. TEXT \in Nat /\ DATA \in Nat /\ IMPORTS \in Nat /\ TEXT < DATA /\ DATA < IMPORTS
  BY AddressAssumption
<1>6. Image(a) = origin[s] + a
  BY <1>2, <1>3, <1>4 DEF Dest
<1>7. /\ lib[s].addr < TEXT => lib[s].addr + lib[s].size <= TEXT
      /\ lib[s].addr < DATA => lib[s].addr + lib[s].size <= DATA
      /\ lib[s].addr < IMPORTS => lib[s].addr + lib[s].size <= IMPORTS
  BY <1>4 DEF Parted
<1>8. /\ InText(a) => InText(lib[s].addr) 
      /\ a >= TEXT /\ ~ InText(a) => InData(a) /\ InData(lib[s].addr)
  BY <1>4, <1>5, <1>7 DEF InText, InData, InImports, Holds
<1> QED
  BY <1>4, <1>5, <1>6, <1>8 DEF Rebase

(* The exports are filled in once, from the block and their offsets. *)
ExportInv == pc \in {"flush", "clear", "loaded"} =>
    exports = [v \in Exports |-> library + FunctionOffset(v)]

LEMMA ExportStep ==
  ASSUME LayoutInv, ExportInv, [Next]_vars
  PROVE  ExportInv'
<1>1. CASE pc' \notin {"flush", "clear", "loaded"}
  BY <1>1 DEF ExportInv
<1>2. CASE ResolveExports
  <2>1. /\ pc = "exports" /\ exports' = [v \in Exports |-> library + FunctionOffset(v)]
        /\ lib' = lib /\ library' = library
    BY <1>2 DEF ResolveExports
  <2>2. Exports' = Exports
    BY <2>1 DEF Exports, Sections
  <2> QED
    BY <2>1, <2>2 DEF ExportInv
<1>3. CASE FlushCaches \/ ClearBss \/ UNCHANGED vars
  <2>1. /\ pc' \in {"flush", "clear", "loaded"} => pc \in {"flush", "clear", "loaded"}
        /\ exports' = exports /\ lib' = lib /\ library' = library
    BY <1>3 DEF FlushCaches, ClearBss, vars, result
  <2>2. Exports' = Exports
    BY <2>1 DEF Exports, Sections
  <2> QED
    BY <2>1, <2>2 DEF ExportInv
<1>4. CASE pc' \in {"flush", "clear", "loaded"} /\ ~ UNCHANGED vars
  <2>1. ResolveExports \/ FlushCaches \/ ClearBss
    BY <1>4 DEF Next, ParseSection, ParseDone, AllocateMemory, InitSection, InitDone,
                ReadNullTable, LinkEntry, LinkNext, LinkDone, AddRelocation, ImportNext,
                ImportsDone, BindImport, BindDone, ResolveExports, Crash, Fail, Enter, Advance
  <2> QED
    BY <1>2, <1>3, <2>1
<1> QED
  BY <1>1, <1>3, <1>4

LEMMA ExportsTyped ==
  ASSUME lib \in Libraries, NEW v \in Exports
  PROVE  v \in Nat
<1>1. PICK s \in Sections : lib[s].kind = "exports" /\ v \in {lib[s].entries[i] : i \in DOMAIN lib[s].entries}
  BY DEF Exports
<1>2. PICK i \in DOMAIN lib[s].entries : v = lib[s].entries[i]
  BY <1>1
<1> QED
  BY <1>1, <1>2, LibraryAssumption DEF Sections

(* dlsym's address of a function beyond the start of the text is that of    *)
(* the copy of the function, whatever the sections and the exports.         *)
THEOREM CodeExportsMeet == Spec => []CodeExportsMeetSections
<1>1. Init => ExportInv
  BY DEF Init, ExportInv
<1>2. LayoutInv /\ ExportInv => CodeExportsMeetSections
  <2> SUFFICES ASSUME LayoutInv, ExportInv, pc = "loaded", TextFirst, Parted,
                      NEW v \in Exports, TEXT < v, v < DATA, HasImage(v)
               PROVE  exports[v] = Image(v)
    BY DEF CodeExportsMeetSections
  <2>1. Initialised /\ v \in Nat /\ InText(v)
    <3>1. v \in Nat
      BY ExportsTyped DEF LayoutInv, TypeInv, TypeOK
    <3> QED BY <3>1, AddressAssumption DEF Initialised, InText
  <2>2. PICK s \in placed : Holds(s, v)
    BY DEF HasImage
  <2>3. Image(v) = library + (v - TEXT)
    BY <2>1, <2>2, ImageOf
  <2>4. exports[v] = library + (v - TEXT)
    BY DEF ExportInv, FunctionOffset
  <2> QED
    BY <2>3, <2>4
<1>3. LayoutInv /\ ExportInv /\ [Next]_vars => ExportInv'
  BY ExportStep
<1> QED
  BY LayoutHolds, <1>1, <1>2, <1>3, PTL DEF Spec

-----------------------------------------------------------------------------
(* The entries link_section must see, and those its loops have passed *)
LocalEntry(t, i) ==
    /\ i \in Readable(t) /\ ~ InImports(lib[t].entries[i].symbol)
    /\ lib[t].info \in Code

Passed(t, i) ==
    \/ LinkedAll
    \/ /\ pc = "link"
       /\ \/ lib[t].info < sec
          \/ lib[t].info = sec /\ t < tab
          \/ lib[t].info = sec /\ t = tab /\ i < ent

(* A local fixup comes from an entry, and was carried out at the place and  *)
(* with the symbol of the entry.                                            *)
FromEntry(f) ==
    LET e == lib[f.table].entries[f.entry]
    IN  /\ f.table \in Tables /\ LocalEntry(f.table, f.entry)
        /\ ~ (0 < e.symbol /\ e.symbol < TEXT)
        /\ f.target = origin[lib[f.table].info] + e.offset
        /\ f.value = Wrap(Rebase(e.symbol) + e.addend)

Linked(t, i) == \E f \in fixups : ~ f.import /\ f.table = t /\ f.entry = i

(* The bss is cleared at the end, linked or not. *)
Kept(t) == pc # "loaded" \/ lib[lib[t].info].kind = "progbits"

LinkInv ==
    /\ \A f \in fixups : ~ f.import => FromEntry(f)
    /\ pc \in {"parse", "allocate", "init"} => fixups = {}
    /\ \A t \in Tables : \A i \in Readable(t) :
          LocalEntry(t, i) /\ Passed(t, i) /\ Kept(t) => Linked(t, i)
    /\ pc = "link" /\ sec \in Code /\ tab \in Tables /\ lib[tab].info = sec =>
          \A k \in 1..(ent - 1) : k \in DOMAIN lib[tab].entries /\ lib[tab].entries[k].ok

LEMMA SameEntries ==
  ASSUME UNCHANGED Layout
  PROVE  /\ Sections' = Sections /\ Code' = Code /\ Tables' = Tables
         /\ \A t : Readable(t)' = Readable(t)
         /\ \A t, i : LocalEntry(t, i)' = LocalEntry(t, i)
         /\ \A v : Rebase(v)' = Rebase(v)
<1>1. lib' = lib /\ library' = library /\ base' = base
  BY DEF Layout
<1>2. Sections' = Sections
  BY <1>1 DEF Sections
<1>3. Code' = Code /\ Tables' = Tables
  BY <1>1, <1>2 DEF Code, Tables
<1>4. \A t : Readable(t)' = Readable(t)
  BY <1>1 DEF Readable
<1>5. \A t, i : LocalEntry(t, i)' = LocalEntry(t, i)
  BY <1>1, <1>3, <1>4 DEF LocalEntry, InImports
<1>6. \A v : Rebase(v)' = Rebase(v)
  BY <1>1 DEF Rebase, InText, InData
<1> QED
  BY <1>2, <1>3, <1>4, <1>5, <1>6

LEMMA SameFixup ==
  ASSUME UNCHANGED Layout, NEW f
  PROVE  FromEntry(f)' = FromEntry(f)
BY SameEntries DEF FromEntry, Layout

(* A step that passes no entry and carries nothing out. *)
LEMMA LinkKept ==
  ASSUME LinkInv, UNCHANGED <<Layout, fixups>>, pc # "loaded",
         pc' \notin {"parse", "allocate", "init", "link", "loaded"},
         \A t \in Tables : lib[t].info \in Code => (LinkedAll' => LinkedAll \/ (pc = "link" /\ lib[t].info < sec))
  PROVE  LinkInv'
<1>1. \A f \in fixups' : ~ f.import => FromEntry(f)'
  BY SameFixup DEF LinkInv
<1>2. ASSUME NEW t \in Tables, NEW i \in Readable(t), LocalEntry(t, i), Passed(t, i)'
      PROVE  Linked(t, i)'
  <2>1. LinkedAll' /\ lib[t].info \in Code
    BY <1>2 DEF Passed, LocalEntry
  <2>2. Passed(t, i) /\ Kept(t)
    BY <2>1 DEF Passed, Kept
  <2> QED
    BY <1>2, <2>2 DEF LinkInv, Linked
<1> QED
  BY <1>1, <1>2, SameEntries DEF LinkInv

LEMMA EntriesTyped ==
  ASSUME lib \in Libraries, NEW t \in Tables, NEW i \in Readable(t)
  PROVE  /\ i \in 1..Len(lib[t].entries) /\ i \in Nat /\ t \in Nat
         /\ RelocationTyped(lib[t].entries[i])
         /\ \A k \in 1..i : lib[t].entries[k].ok
<1>1. i \in DOMAIN lib[t].entries /\ \A k \in 1..i : lib[t].entries[k].ok
  BY DEF Readable
<1>2. t \in Nat
  BY LibraryAssumption DEF Tables, Sections
<1> QED
  BY <1>1, <1>2, TablesTyped

(* One entry of link_section *)
LEMMA EntryLinked ==
  ASSUME LayoutInv, LinkInv, LinkEntry
  PROVE  LinkInv'
<1> DEFINE e == lib[tab].entries[ent]
           f == Fixup(tab, origin[sec] + e.offset, e.type, Rebase(e.symbol) + e.addend, FALSE)
           local == ~ InImports(e.symbol)
           bad == (0 < e.symbol /\ e.symbol < TEXT) \/ Reserved(CalcValue(e))
<1>0. /\ pc = "link" /\ sec \in Code /\ tab \in Sections /\ lib[tab].kind = "rel"
      /\ lib[tab].info = sec /\ ent <= Len(lib[tab].entries) /\ e.ok
  BY DEF LinkEntry, TableOpen
<1>1. lib \in Libraries /\ ent \in Nat \ {0} /\ tab \in Tables
  BY <1>0 DEF LayoutInv, TypeInv, TypeOK, Tables
<1>2. CASE pc' = "failed"
  <2>1. UNCHANGED <<Layout, fixups>>
    BY <1>0, <1>2 DEF LinkEntry, Fail, Layout
  <2> QED
    BY <1>0, <1>2, <2>1, LinkKept DEF LinkedAll
<1>3. CASE pc' # "failed"
  <2>1. /\ local => ~ bad
        /\ fixups' = IF local THEN fixups \cup {f} ELSE fixups
        /\ ent' = ent + 1 /\ pc' = pc /\ sec' = sec /\ tab' = tab /\ UNCHANGED Layout
    BY <1>3 DEF LinkEntry, Fail, Layout
  <2>2. ent \in DOMAIN lib[tab].entries /\ \A k \in 1..ent : k \in DOMAIN lib[tab].entries /\ lib[tab].entries[k].ok
    <3>1. ent \in 1..Len(lib[tab].entries) /\ DOMAIN lib[tab].entries = 1..Len(lib[tab].entries)
      BY <1>0, <1>1, TablesTyped
    <3>2. \A k \in 1..(ent - 1) : k \in DOMAIN lib[tab].entries /\ lib[tab].entries[k].ok
      BY <1>0, <1>1 DEF LinkInv
    <3>3. \A k \in 1..ent : k \in 1..(ent - 1) \/ k = ent
      BY <1>1
    <3> QED
      BY <1>0, <3>1, <3>2, <3>3
  <2>3. ent \in Readable(tab)
    BY <2>2 DEF Readable
  <2>4. local => LocalEntry(tab, ent)
    BY <1>0, <2>3 DEF LocalEntry
  <2>5. /\ f.table = tab /\ f.entry = ent /\ f.import = FALSE
        /\ f.target = origin[sec] + e.offset /\ f.value = Wrap(Rebase(e.symbol) + e.addend)
    BY DEF Fixup
  <2>6. local => FromEntry(f)
    <3> HIDE DEF f
    <3> QED BY <1>0, <1>1, <2>1, <2>4, <2>5 DEF FromEntry
  <2> HIDE DEF f, bad, local
  <2>7. \A g \in fixups' : ~ g.import => FromEntry(g)'
    BY <2>1, <2>6, SameFixup DEF LinkInv
  <2>8. ASSUME NEW t \in Tables, NEW i \in Readable(t), LocalEntry(t, i), Passed(t, i)'
        PROVE  Linked(t, i)'
    <3>1. CASE Passed(t, i)
      BY <1>0, <2>1, <2>8, <3>1 DEF LinkInv, Linked, Kept
    <3>2. CASE ~ Passed(t, i)
      <4>1. t = tab /\ i < ent + 1 /\ ~ (i < ent)
        BY <1>0, <2>1, <2>8, <3>2, SameEntries DEF Passed, LinkedAll, Layout
      <4>2. i = ent
        BY <1>1, <4>1, EntriesTyped
      <4>3. local
        BY <2>8, <4>1, <4>2 DEF LocalEntry, local
      <4> QED
        BY <2>1, <2>5, <4>1, <4>2, <4>3 DEF Linked
    <3> QED BY <3>1, <3>2
  <2>9. \A k \in 1..(ent' - 1) : k \in DOMAIN lib[tab].entries /\ lib[tab].entries[k].ok
    <3>1. ent' - 1 = ent
      BY <1>1, <2>1
    <3> QED BY <2>2, <3>1
  <2>10. pc' = "link" /\ lib' = lib
    BY <1>0, <2>1 DEF Layout
  <2> QED
    BY <2>1, <2>7, <2>8, <2>9, <2>10, SameEntries DEF LinkInv
<1> QED
  BY <1>2, <1>3

(* The loops go on to the next table or section. *)
LEMMA LoopAdvances ==
  ASSUME LayoutInv, LinkInv, LinkNext
  PROVE  LinkInv'
<1>1. /\ pc = "link" /\ pc' = pc /\ sec \in Sections /\ ~ (sec \in Code /\ TableOpen)
      /\ ent' = 1 /\ UNCHANGED <<Layout, fixups>>
      /\ \/ (sec \notin Code \/ tab \notin Sections) /\ sec' = sec + 1 /\ tab' = 1
         \/ sec \in Code /\ tab \in Sections /\ sec' = sec /\ tab' = tab + 1
  BY DEF LinkNext, Advance, Layout
<1>2. /\ lib \in Libraries /\ Len(lib) \in Nat /\ sec \in Nat /\ tab \in 1..(Len(lib) + 1)
      /\ ent \in Nat \ {0}
  BY LibraryTyped DEF LayoutInv, TypeInv, TypeOK
<1>3. \A f \in fixups' : ~ f.import => FromEntry(f)'
  BY <1>1, SameFixup DEF LinkInv
<1>4. ASSUME NEW t \in Tables, NEW i \in Readable(t), LocalEntry(t, i), Passed(t, i)'
      PROVE  Linked(t, i)'
  <2>1. /\ t \in 1..Len(lib) /\ lib[t].info \in Code /\ lib[t].info \in Nat /\ lib[t].kind = "rel"
        /\ i \in Nat /\ i <= Len(lib[t].entries) /\ i >= 1 /\ \A k \in 1..i : lib[t].entries[k].ok
    <3>1. lib[t].info \in Code
      BY <1>4 DEF LocalEntry
    <3>2. lib[t].info \in Nat /\ t \in 1..Len(lib) /\ lib[t].kind = "rel"
      BY <1>2, <3>1, LibraryTyped DEF Tables, Sections
    <3> QED BY <1>2, <3>1, <3>2, EntriesTyped, TablesTyped
  <2>2. \/ lib[t].info < sec'
        \/ lib[t].info = sec' /\ t < tab'
        \/ lib[t].info = sec' /\ t = tab' /\ i < ent'
    BY <1>1, <1>4 DEF Passed, LinkedAll, Layout
  <2>3. Passed(t, i)
    <3>1. CASE sec \notin Code
      <4>1. lib[t].info # sec
        BY <2>1, <3>1
      <4>2. lib[t].info < sec
        BY <1>1, <1>2, <2>1, <2>2, <3>1, <4>1
      <4> QED BY <1>1, <4>2 DEF Passed
    <3>2. CASE sec \in Code /\ tab \notin Sections
      <4>1. t < tab
        BY <1>2, <2>1, <3>2 DEF Sections
      <4>2. lib[t].info < sec \/ lib[t].info = sec
        BY <1>1, <1>2, <2>1, <2>2, <3>2
      <4> QED BY <1>1, <4>1, <4>2 DEF Passed
    <3>3. CASE sec \in Code /\ tab \in Sections
      <4>1. sec' = sec /\ tab' = tab + 1
        BY <1>1, <3>3
      <4>2. CASE lib[t].info < sec \/ (lib[t].info = sec /\ t < tab)
        BY <1>1, <4>2 DEF Passed
      <4>3. CASE lib[t].info = sec /\ ~ (t < tab)
        <5>1. t = tab
          BY <1>1, <1>2, <2>1, <2>2, <4>1, <4>3
        <5>2. i < ent
          <6> SUFFICES ASSUME ~ (i < ent) PROVE FALSE
            OBVIOUS
          <6>1. ent \in 1..i /\ ent <= Len(lib[tab].entries)
            <7>1. Len(lib[tab].entries) \in Nat
              BY <1>2, <5>1, TablesTyped
            <7> QED BY <1>2, <2>1, <5>1, <7>1
          <6>2. TableOpen
            BY <2>1, <3>3, <4>3, <5>1, <6>1 DEF TableOpen
          <6> QED BY <1>1, <3>3, <6>2
        <5> QED BY <1>1, <4>3, <5>1, <5>2 DEF Passed
      <4> QED BY <2>2, <4>1, <4>2, <4>3
    <3> QED BY <3>1, <3>2, <3>3
  <2> QED
    BY <1>1, <1>4, <2>3 DEF LinkInv, Linked, Kept
<1>5. 1..(ent' - 1) = {}
  BY <1>1
<1> QED
  BY <1>1, <1>3, <1>4, <1>5, SameEntries DEF LinkInv

LEMMA LinkStep ==
  ASSUME LayoutInv, LinkInv, [Next]_vars
  PROVE  LinkInv'
<1>0. lib \in Libraries /\ \A t \in Tables : lib[t].info \in Sections
  BY TablesTyped DEF LayoutInv, TypeInv, TypeOK
<1>1. CASE ParseSection \/ ParseDone \/ AllocateMemory \/ InitSection
  <2>1. pc \in {"parse", "allocate", "init"} /\ fixups' = fixups
    BY <1>1 DEF ParseSection, ParseDone, AllocateMemory, InitSection, Crash, Fail
  <2>2. fixups' = {} /\ pc' \in {"parse", "allocate", "init", "failed", "crashed"}
    BY <1>1, <2>1 DEF LinkInv, ParseSection, ParseDone, AllocateMemory, InitSection, Crash, Fail
  <2>3. ~ Passed(1, 1)' /\ pc' # "link" /\ ~ LinkedAll'
    BY <2>2 DEF Passed, LinkedAll
  <2> QED
    BY <2>2, <2>3 DEF LinkInv, Passed
<1>2. CASE InitDone
  <2>1. /\ pc = "init" /\ pc' = "link" /\ sec' = 1 /\ tab' = 1 /\ ent' = 1
        /\ UNCHANGED Layout /\ fixups' = fixups
    BY <1>2 DEF InitDone, Enter, Layout
  <2>2. fixups' = {}
    BY <2>1 DEF LinkInv
  <2>3. ASSUME NEW t \in Tables, NEW i \in Readable(t), Passed(t, i)' PROVE FALSE
    <3>1. lib[t].info \in Nat /\ lib[t].info >= 1 /\ t >= 1 /\ t \in Nat /\ i \in Nat /\ i >= 1
      BY <1>0, EntriesTyped, LibraryTyped DEF Sections, Tables
    <3>2. lib'[t].info = lib[t].info
      BY <2>1 DEF Layout
    <3> QED BY <2>1, <2>3, <3>1, <3>2 DEF Passed, LinkedAll
  <2>4. 1..(ent' - 1) = {}
    BY <2>1
  <2> QED
    BY <2>1, <2>2, <2>3, <2>4, SameEntries DEF LinkInv
<1>3. CASE LinkEntry
  BY <1>3, EntryLinked
<1>4. CASE LinkNext
  BY <1>4, LoopAdvances
<1>5. CASE LinkDone
  <2>1. pc = "link" /\ pc' = "imports" /\ sec \notin Sections /\ UNCHANGED <<Layout, fixups>>
    BY <1>5 DEF LinkDone, Enter, Layout
  <2>2. \A t \in Tables : lib[t].info \in Code => lib[t].info < sec
    BY <2>1, SeenAll DEF LayoutInv
  <2> QED
    BY <2>1, <2>2, LinkKept
<1>6. CASE ReadNullTable
  <2>1. pc' = "crashed" /\ UNCHANGED <<Layout, fixups>> /\ pc # "loaded"
    BY <1>6 DEF ReadNullTable, Crash, Layout
  <2> QED
    BY <2>1, LinkKept DEF LinkedAll
<1>7. CASE AddRelocation \/ ImportNext \/ ImportsDone \/ BindDone \/ ResolveExports \/ FlushCaches
  <2>1. /\ LinkedAll /\ pc # "loaded" /\ pc' \in {"imports", "bind", "exports", "flush", "clear"}
        /\ UNCHANGED <<Layout, fixups>>
    BY <1>7 DEF AddRelocation, ImportNext, ImportsDone, BindDone, ResolveExports, FlushCaches,
                Enter, Advance, Layout, LinkedAll
  <2> QED
    BY <2>1, LinkKept
<1>8. ASSUME NEW address \in Imported \cup {0}, BindImport(address) PROVE LinkInv'
  <2>1. CASE pc' = "failed"
    <3>1. pc # "loaded" /\ UNCHANGED <<Layout, fixups>>
      BY <1>8, <2>1 DEF BindImport, Fail, Layout
    <3> QED
      BY <2>1, <3>1, LinkKept DEF LinkedAll
  <2>2. CASE pc' # "failed"
    <3>1. PICK g : g.import = TRUE /\ fixups' = fixups \cup {g}
      BY <1>8, <2>2 DEF BindImport, Fail
    <3>2. pc = "bind" /\ pc' = "bind" /\ UNCHANGED Layout
      BY <1>8, <2>2 DEF BindImport, Fail, Layout
    <3>3. \A f \in fixups' : ~ f.import => FromEntry(f)'
      BY <3>1, <3>2, SameFixup DEF LinkInv
    <3>4. \A t \in Tables : \A i \in Readable(t) : LocalEntry(t, i) => Linked(t, i)'
      BY <3>1, <3>2 DEF LinkInv, Linked, Passed, LinkedAll, Kept
    <3> QED
      BY <3>2, <3>3, <3>4, SameEntries DEF LinkInv
  <2> QED
    BY <2>1, <2>2
<1>9. CASE ClearBss
  <2>1. /\ pc = "clear" /\ pc' = "loaded" /\ UNCHANGED Layout
        /\ fixups' = {f \in fixups : lib[f.table].info \notin Bss}
    BY <1>9 DEF ClearBss, Layout
  <2>2. \A f \in fixups' : ~ f.import => FromEntry(f)'
    BY <2>1, SameFixup DEF LinkInv
  <2>3. ASSUME NEW t \in Tables, NEW i \in Readable(t), LocalEntry(t, i),
               lib[lib[t].info].kind = "progbits"
        PROVE  Linked(t, i)'
    <3>1. PICK f \in fixups : ~ f.import /\ f.table = t /\ f.entry = i
      BY <2>1, <2>3 DEF LinkInv, Linked, Passed, LinkedAll, Kept
    <3>2. lib[t].info \notin Bss
      BY <2>3 DEF Bss
    <3> QED
      BY <2>1, <3>1, <3>2 DEF Linked
  <2>4. lib' = lib
    BY <2>1 DEF Layout
  <2> QED
    BY <2>1, <2>2, <2>3, <2>4, SameEntries DEF LinkInv, Kept
<1>10. CASE UNCHANGED vars
  <2>1. UNCHANGED Layout /\ UNCHANGED <<pc, sec, tab, ent, fixups>>
    BY <1>10 DEF vars, Layout
  <2>2. \A f \in fixups' : ~ f.import => FromEntry(f)'
    BY <2>1, SameFixup DEF LinkInv
  <2>3. lib' = lib /\ LinkedAll' = LinkedAll
    BY <2>1 DEF Layout, LinkedAll
  <2>4. \A t, i : /\ Passed(t, i)' = Passed(t, i) /\ Linked(t, i)' = Linked(t, i)
                  /\ Kept(t)' = Kept(t)
    BY <2>1, <2>3 DEF Passed, Linked, Kept
  <2> QED
    BY <2>1, <2>2, <2>3, <2>4, SameEntries DEF LinkInv
<1> QED
  BY <1>1, <1>2, <1>3, <1>4, <1>5, <1>6, <1>7, <1>8, <1>9, <1>10 DEF Next

LEMMA AllLinked ==
  ASSUME LayoutInv, LinkInv
  PROVE  LocalsLinked
<1> SUFFICES ASSUME LinkedAll PROVE LocalsLinked
  BY DEF LocalsLinked
<1> DEFINE Done == {f \in fixups : ~ f.import /\ lib[lib[f.table].info].kind = "progbits"}
<1>0. Initialised /\ lib \in Libraries
  BY DEF LinkedAll, Initialised, LayoutInv, TypeInv, TypeOK
<1>1. ASSUME NEW f \in Done
      PROVE  /\ f.table \in Tables /\ f.entry \in Readable(f.table)
             /\ LocalEntry(f.table, f.entry) /\ FromEntry(f)
             /\ lib[f.table].info \in Code /\ lib[lib[f.table].info].kind = "progbits"
             /\ ~ InImports(lib[f.table].entries[f.entry].symbol)
  BY DEF LinkInv, FromEntry, LocalEntry
<1>2. {<<f.table, f.entry>> : f \in Done} = LocalEntries
  <2>1. ASSUME NEW f \in Done PROVE <<f.table, f.entry>> \in LocalEntries
    <3> DEFINE t == f.table
               i == f.entry
    <3>1. /\ t \in {u \in Tables : lib[u].info \in Code /\ lib[lib[u].info].kind = "progbits"}
          /\ i \in {k \in Readable(t) : ~ InImports(lib[t].entries[k].symbol)}
      BY <1>1
    <3> HIDE DEF t, i
    <3> QED BY <3>1 DEF LocalEntries, t, i
  <2>2. ASSUME NEW p \in LocalEntries PROVE p \in {<<f.table, f.entry>> : f \in Done}
    <3>1. PICK t \in {u \in Tables : lib[u].info \in Code /\ lib[lib[u].info].kind = "progbits"} :
             p \in {<<t, i>> : i \in {k \in Readable(t) : ~ InImports(lib[t].entries[k].symbol)}}
      BY DEF LocalEntries
    <3>2. PICK i \in {k \in Readable(t) : ~ InImports(lib[t].entries[k].symbol)} : p = <<t, i>>
      BY <3>1
    <3>3. Linked(t, i)
      BY <3>1, <3>2 DEF LinkInv, LocalEntry, Passed, Kept
    <3>4. PICK f \in fixups : ~ f.import /\ f.table = t /\ f.entry = i
      BY <3>3 DEF Linked
    <3>5. f \in Done
      BY <3>1, <3>4
    <3> QED BY <3>2, <3>4, <3>5
  <2> QED BY <2>1, <2>2
<1>3. ASSUME TextFirst, Parted, NEW f \in Done
      PROVE  LET s == lib[f.table].info
                 e == lib[f.table].entries[f.entry]
             IN  /\ s \in placed /\ Holds(s, e.offset) => f.target = Image(e.offset)
                 /\ e.symbol # 0 /\ HasImage(e.symbol) =>
                       f.value = Wrap(Image(e.symbol) + e.addend)
  <2> DEFINE s == lib[f.table].info
             e == lib[f.table].entries[f.entry]
  <2>1. RelocationTyped(e)
    BY <1>0, <1>1, EntriesTyped
  <2>2. e.offset \in Nat /\ e.symbol \in Nat
    BY <2>1 DEF RelocationTyped
  <2>3. /\ f.target = origin[s] + e.offset /\ f.value = Wrap(Rebase(e.symbol) + e.addend)
        /\ ~ (0 < e.symbol /\ e.symbol < TEXT)
    BY <1>1 DEF FromEntry
  <2>4. TEXT \in Nat
    BY AddressAssumption
  <2> HIDE DEF s, e
  <2>5. ASSUME s \in placed, Holds(s, e.offset) PROVE f.target = Image(e.offset)
    BY <1>0, <1>3, <2>2, <2>3, <2>5, ImageOf
  <2>6. ASSUME e.symbol # 0, HasImage(e.symbol)
        PROVE  f.value = Wrap(Image(e.symbol) + e.addend)
    <3>1. PICK u \in placed : Holds(u, e.symbol)
      BY <2>6 DEF HasImage
    <3>2. e.symbol >= TEXT
      BY <2>2, <2>3, <2>4, <2>6
    <3>3. Image(e.symbol) = Rebase(e.symbol)
      BY <1>0, <1>3, <2>2, <3>1, <3>2, ImageOf
    <3> QED BY <2>3, <3>3
  <2> QED BY <2>5, <2>6 DEF s, e
<1> HIDE DEF Done
<1> QED
  BY <1>2, <1>3 DEF LocalsLinked, Done

(* Whatever the sections, tables and entries, the nested loops reach every  *)
(* local relocation and no other entry, and each is carried out at the copy *)
(* of its place with the address of the copy of its symbol.                 *)
THEOREM LocalsAreLinked == Spec => []LocalsLinked
<1>1. Init => LinkInv
  <2> SUFFICES ASSUME Init PROVE LinkInv
    OBVIOUS
  <2>1. fixups = {} /\ pc = "parse"
    BY DEF Init
  <2> QED
    BY <2>1 DEF LinkInv, Passed, LinkedAll
<1>2. LayoutInv /\ LinkInv => LocalsLinked
  BY AllLinked
<1>3. LayoutInv /\ LinkInv /\ [Next]_vars => LinkInv'
  BY LinkStep
<1> QED
  BY LayoutHolds, <1>1, <1>2, <1>3, PTL DEF Spec

-----------------------------------------------------------------------------
(* Beyond allocate_memory the handle has its block. *)
BlockInv ==
    /\ library \in Blocks \cup {NULL}
    /\ pc \in {"init", "link", "imports", "bind", "exports"} => library # NULL

LEMMA BlockInit == Init => BlockInv /\ Contract!Init
<1> SUFFICES ASSUME Init PROVE BlockInv /\ Contract!Init
  OBVIOUS
<1>1. pc = "parse" /\ library \in OldLibrary
  BY DEF Init
<1>2. library \in Blocks \cup {NULL}
  BY <1>1, AddressAssumption
<1> QED
  BY <1>1, <1>2 DEF BlockInv, Contract!Init

LEMMA BlockKept ==
  ASSUME BlockInv, library' = library,
         pc' \in {"init", "link", "imports", "bind", "exports"} =>
             pc \in {"init", "link", "imports", "bind", "exports"}
  PROVE  BlockInv'
BY DEF BlockInv

(* Every step maps to a step of the contract, or to none. *)
LEMMA ContractStep ==
  BlockInv /\ [Next]_vars => BlockInv' /\ [Contract!Next]_(Contract!vars)
<1> SUFFICES ASSUME BlockInv, [Next]_vars
             PROVE  BlockInv' /\ [Contract!Next]_(Contract!vars)
  OBVIOUS
<1> DEFINE Quiet == UNCHANGED Contract!vars
           Calls == {"init", "link", "imports", "bind", "exports"}
<1>1. CASE ParseSection \/ ParseDone
  <2>1. pc = "parse" /\ pc' \in {"crashed", "parse", "allocate"} /\ library' = library
    BY <1>1 DEF ParseSection, ParseDone, Crash
  <2> QED
    BY <2>1, BlockKept DEF Contract!vars
<1>2. CASE AllocateMemory
  <2>1. CASE pc' = "failed"
    <3>1. pc = "allocate" /\ library' = library
      BY <1>2, <2>1 DEF AllocateMemory, Fail
    <3>2. Contract!Fail
      BY <2>1, <3>1 DEF Contract!Fail
    <3> QED
      BY <2>1, <3>1, <3>2, BlockKept DEF Contract!Next
  <2>2. CASE pc' # "failed"
    <3>1. pc = "allocate" /\ pc' = "init" /\ library = NULL /\ library' \in Blocks
      BY <1>2, <2>2 DEF AllocateMemory, Fail
    <3>2. library' # NULL
      BY <3>1, AddressAssumption
    <3>3. Contract!Allocate
      BY <3>1 DEF Contract!Allocate
    <3> QED
      BY <3>1, <3>2, <3>3 DEF BlockInv, Contract!Next
  <2> QED
    BY <2>1, <2>2
<1>3. CASE InitSection
  <2>1. pc = "init" /\ pc' \in {"crashed", "init"} /\ library' = library
    BY <1>3 DEF InitSection, Crash
  <2> QED
    BY <2>1, BlockKept DEF Contract!vars
<1>11. CASE ReadNullTable
  <2>1. pc \in {"link", "imports"} /\ pc' = "crashed" /\ library' = library
    BY <1>11 DEF ReadNullTable, Crash
  <2> QED
    BY <2>1, BlockKept DEF Contract!vars
<1>4. CASE InitDone \/ LinkDone \/ ImportsDone \/ BindDone
  <2>1. pc \in Calls /\ pc' \in Calls /\ library' = library
    BY <1>4 DEF InitDone, LinkDone, ImportsDone, BindDone, Enter
  <2> QED
    BY <2>1, BlockKept DEF Contract!vars
<1>5. CASE LinkNext \/ AddRelocation \/ ImportNext
  <2>1. pc \in Calls /\ pc' = pc /\ library' = library
    BY <1>5 DEF LinkNext, AddRelocation, ImportNext, Advance
  <2> QED
    BY <2>1, BlockKept DEF Contract!vars
<1>6. ASSUME LinkEntry \/ \E address \in Imported \cup {0} : BindImport(address)
      PROVE  BlockInv' /\ [Contract!Next]_(Contract!vars)
  <2>1. pc \in {"link", "bind"} /\ pc' \in {"failed", pc} /\ library' = library
    BY <1>6 DEF LinkEntry, BindImport, Fail
  <2>2. CASE pc' = "failed"
    <3>1. Contract!Fail
      BY <2>1, <2>2 DEF Contract!Fail
    <3> QED
      BY <2>1, <2>2, <3>1, BlockKept DEF Contract!Next
  <2>3. CASE pc' = pc
    BY <2>1, <2>3, BlockKept DEF Contract!vars
  <2> QED
    BY <2>1, <2>2, <2>3
<1>7. CASE ResolveExports
  <2>1. pc = "exports" /\ pc' = "flush" /\ library' = library
    BY <1>7 DEF ResolveExports
  <2>2. Contract!Resolve
    BY <2>1 DEF Contract!Resolve, BlockInv
  <2> QED
    BY <2>1, <2>2, BlockKept DEF Contract!Next
<1>8. CASE FlushCaches
  <2>1. pc = "flush" /\ pc' = "clear" /\ library' = library
    BY <1>8 DEF FlushCaches
  <2> QED
    BY <2>1, BlockKept DEF Contract!vars
<1>9. CASE ClearBss
  <2>1. pc = "clear" /\ pc' = "loaded" /\ library' = library
    BY <1>9 DEF ClearBss
  <2>2. Contract!Succeed
    BY <2>1 DEF Contract!Succeed
  <2> QED
    BY <2>1, <2>2, BlockKept DEF Contract!Next
<1>10. CASE UNCHANGED vars
  BY <1>10 DEF vars, BlockInv, Contract!vars
<1> QED
  BY <1>1, <1>2, <1>3, <1>4, <1>5, <1>6, <1>7, <1>8, <1>9, <1>10, <1>11 DEF Next

(* load() keeps its promise to dlopen: whatever the library, it takes one   *)
(* block at most, fills in the exports only to succeed, succeeds only with  *)
(* a block, and fails or succeeds once.                                     *)
THEOREM LoadKeepsContract == Spec => ImplementsContract
<1>1. BlockInv /\ [Next]_vars => BlockInv'
  BY ContractStep
<1>2. BlockInv /\ [Next]_vars => [Contract!Next]_(Contract!vars)
  BY ContractStep
<1> QED
  BY BlockInit, <1>1, <1>2, PTL DEF Spec, ImplementsContract, Contract!Spec
=============================================================================
